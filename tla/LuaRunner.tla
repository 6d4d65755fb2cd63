----------------------------- MODULE LuaRunner -----------------------------
(***************************************************************************)
(* Lua flows of several builds (processor/lua): each takes a VM from the   *)
(* shared pool, registers the "common" module, bound to its own build, and *)
(* runs its script.  In a VM a module is loaded once and then kept, bound  *)
(* to the build it was loaded for; what keeps builds apart is that no VM   *)
(* ever goes back to the pool.                                             *)
(***************************************************************************)
EXTENDS Naturals, Sequences, SequencesExt

CONSTANTS
  Script,   \* the Lua flows, each run once
  BuildOf,  \* the build a script belongs to
  None      \* no script

ASSUME LuaAssumption == None \notin Script

VARIABLES
  saved,    \* VmPool.saved
  made,     \* how many VMs were made
  preload,  \* by VM: whose Loader package.preload has for "common"
  loaded,   \* by VM: whose Loader the loaded module "common" belongs to
  writers,  \* history, by build: the scripts that wrote its environment
  ctx,      \* by script: its flow's context
  late,     \* by script: the context had ended before the call
  pc,       \* by script: where Run is
  vm,       \* by script: the VM it has
  ret       \* by script: what Run has returned

poolVars == <<saved, made>>
vmVars == <<preload, loaded, writers>>
vars == <<poolVars, vmVars, ctx, late, pc, vm, ret>>

VM == 1 .. made

TypeOK ==
  /\ saved \in Seq(VM) /\ made \in Nat
  /\ preload \in [VM -> Script \cup {None}] /\ loaded \in [VM -> Script \cup {None}]
  /\ writers \in [{BuildOf[s] : s \in Script} -> SUBSET Script]
  /\ ctx \in [Script -> {"live", "canceled", "expired"}]
  /\ late \in [Script -> BOOLEAN]
  /\ pc \in [Script -> {"due", "preload", "require", "script", "curl", "done"}]
  /\ vm \in [Script -> VM \cup {0}]
  /\ ret \in [Script -> {"none", "ok", "error"}]

Init ==
  /\ saved = <<>> /\ made = 0 /\ preload = <<>> /\ loaded = <<>>
  /\ writers = [b \in {BuildOf[s] : s \in Script} |-> {}]
  /\ ctx \in [Script -> {"live", "canceled", "expired"}]
  /\ late = [s \in Script |-> ctx[s] # "live"]
  /\ pc = [s \in Script |-> "due"]
  /\ vm = [s \in Script |-> 0]
  /\ ret = [s \in Script |-> "none"]

Running(s) == pc[s] \notin {"due", "done"}

EndContext(s) ==
  /\ Running(s) /\ ctx[s] = "live"
  /\ \E why \in {"canceled", "expired"} : ctx' = [ctx EXCEPT ![s] = why]
  /\ UNCHANGED <<poolVars, vmVars, late, pc, vm, ret>>

-----------------------------------------------------------------------------
(* The pool; its mutex makes each operation one step. *)

\* VmPool.New.
New ==
  /\ made' = made + 1 /\ UNCHANGED saved
  /\ preload' = Append(preload, None) /\ loaded' = Append(loaded, None)

FaultyGet(v) ==                    \* variant: a new VM is saved at once
  \/ saved = <<>> /\ made' = made + 1 /\ v = made + 1 /\ saved' = <<v>>
     /\ preload' = Append(preload, None) /\ loaded' = Append(loaded, None)
  \/ saved # <<>> /\ v = Last(saved) /\ UNCHANGED <<poolVars, preload, loaded>>
\* VmPool.Get hands v out.
Get(v) ==
  \/ saved = <<>> /\ New /\ v = made + 1
  \/ /\ saved # <<>> /\ v = Last(saved) /\ saved' = Front(saved)
     /\ UNCHANGED <<made, preload, loaded>>

\* VmPool.Put: no code calls it.
Put(v) == saved' = Append(saved, v) /\ UNCHANGED made

-----------------------------------------------------------------------------
Goto(s, l) == pc' = [pc EXCEPT ![s] = l] /\ UNCHANGED ret

FaultyReturn(s, r) ==              \* variant: the VM is given back when Run returns
  /\ pc' = [pc EXCEPT ![s] = "done"] /\ ret' = [ret EXCEPT ![s] = r]
  /\ Put(vm[s])
Return(s, r) ==
  /\ pc' = [pc EXCEPT ![s] = "done"] /\ ret' = [ret EXCEPT ![s] = r]
  /\ UNCHANGED poolVars

\* Flows of one build run one after the other.
TakeVM(s) ==
  /\ pc[s] = "due" /\ \A t \in Script : Running(t) => BuildOf[t] # BuildOf[s]
  /\ \E v \in 1 .. made + 1 : Get(v) /\ vm' = [vm EXCEPT ![s] = v]
  /\ Goto(s, "preload")
  /\ UNCHANGED <<writers, ctx, late>>

\* PreloadModule; then a flow without a LuaCfg panics, which runFlow makes an error.
Preload(s) ==
  /\ pc[s] = "preload"
  /\ preload' = [preload EXCEPT ![vm[s]] = s]
  /\ \/ Goto(s, "require") /\ UNCHANGED poolVars
     \/ Return(s, "error")
  /\ UNCHANGED <<loaded, writers, ctx, late, vm>>

FaultyRequire(s) ==                \* variant: the context is not set in the VM
  /\ pc[s] = "require"
  /\ \/ /\ loaded' = [loaded EXCEPT ![vm[s]] = IF @ = None THEN preload[vm[s]] ELSE @]
        /\ Goto(s, "script") /\ UNCHANGED poolVars
     \/ Return(s, "error") /\ UNCHANGED loaded
  /\ UNCHANGED <<preload, writers, ctx, late, vm>>
\* The wrapped script begins with require("common"), which loads the module unless the
\* VM has it already.  A script that does not compile gets nowhere, nor does one whose
\* context has ended: the VM looks at it before every instruction.
Require(s) ==
  /\ pc[s] = "require"
  /\ \/ /\ ctx[s] = "live"
        /\ loaded' = [loaded EXCEPT ![vm[s]] = IF @ = None THEN preload[vm[s]] ELSE @]
        /\ Goto(s, "script") /\ UNCHANGED poolVars
     \/ Return(s, "error") /\ UNCHANGED loaded
  /\ UNCHANGED <<preload, writers, ctx, late, vm>>

\* The Loader the script's functions are bound to.
Bound(s) == loaded[vm[s]]

\* setEnv and fail write to the environment of the Loader's build.
WriteEnv(s) ==
  /\ pc[s] = "script" /\ ctx[s] = "live"
  /\ writers' = [writers EXCEPT ![BuildOf[Bound(s)]] = @ \cup {s}]
  /\ UNCHANGED <<poolVars, preload, loaded, ctx, late, pc, vm, ret>>

\* curlGet, curlPost, curlPostJson: a request under the Loader's context.
Curl(s) ==
  /\ pc[s] = "script" /\ ctx[s] = "live" /\ Goto(s, "curl")
  /\ UNCHANGED <<poolVars, vmVars, ctx, late, vm>>

\* Its answer, or the text of its error, is returned to the script.
CurlReturns(s) ==
  /\ pc[s] = "curl" /\ Goto(s, "script")
  /\ UNCHANGED <<poolVars, vmVars, ctx, late, vm>>

\* The script raises an error, the context's end does, or it is through.
ScriptEnds(s) ==
  /\ pc[s] = "script"
  /\ \E r \in {"ok", "error"} : Return(s, r)
  /\ UNCHANGED <<vmVars, ctx, late, vm>>

Run(s) == TakeVM(s) \/ Preload(s) \/ Require(s) \/ ScriptEnds(s)

Next ==
  \E s \in Script :
    EndContext(s) \/ Run(s) \/ WriteEnv(s) \/ Curl(s) \/ CurlReturns(s)

Spec == Init /\ [][Next]_vars

(***************************************************************************)
(* A worker calls Run when the build's flow is due.  A script may go on    *)
(* while its context is live; once that has ended the VM stops it, and a   *)
(* request in flight ends with the context it was made under.  Each flow's *)
(* context ends when its timer fires, if not before.                       *)
(***************************************************************************)
FairSpec ==
  /\ Spec
  /\ \A s \in Script :
       /\ WF_vars(TakeVM(s) \/ Preload(s)) /\ WF_vars(EndContext(s))
       /\ WF_vars(ctx[s] # "live" /\ Run(s))
       /\ WF_vars(pc[s] = "curl" /\ ctx[Bound(s)] # "live" /\ CurlReturns(s))

-----------------------------------------------------------------------------
(* Properties. *)

\* Two scripts that run at the same time never share a VM, which is not safe for
\* concurrent use.
NoSharedVM ==
  \A s, t \in Script : s # t /\ Running(s) /\ Running(t) => vm[s] # vm[t]

\* A script writes its own build's environment only, though the module it calls was
\* handed to it through VM and pool.
WritesOwnBuild ==
  \A b \in DOMAIN writers : \A s \in writers[b] : BuildOf[s] = b
=============================================================================

-------------------------- MODULE LuaRunnerProofs --------------------------
(***************************************************************************)
(* Scripts of any number of builds on the pool of VMs.  IInv says that the *)
(* pool stays empty, so that every script has a VM nobody had before, and  *)
(* that in this VM the module "common" is the script's own.                *)
(***************************************************************************)
EXTENDS LuaRunner, TLAPS

Loaders == Script \cup {None}

\* VMs are numbered as they are made.
VMsKnown ==
  /\ made \in Nat /\ saved = <<>>
  /\ preload \in Seq(Loaders) /\ Len(preload) = made
  /\ loaded \in Seq(Loaders) /\ Len(loaded) = made

ScriptsKnown ==
  /\ ctx \in [Script -> {"live", "canceled", "expired"}]
  /\ pc \in [Script -> {"due", "preload", "require", "script", "curl", "done"}]
  /\ vm \in [Script -> 0 .. made]
  /\ ret \in [Script -> {"none", "ok", "error"}]

RestKnown ==
  /\ late \in [Script -> BOOLEAN]
  /\ writers \in [{BuildOf[s] : s \in Script} -> SUBSET Script]

\* A script has a VM from its start on.
HasVM(s) == pc[s] # "due" => vm[s] \in 1 .. made

\* No VM was ever handed out twice.
OwnVM(s) == \A t \in Script : pc[s] # "due" /\ pc[t] # "due" /\ s # t => vm[s] # vm[t]

\* What the VM of a running script has for "common" is the script's own.
OwnModule(s) ==
  /\ pc[s] = "preload" => loaded[vm[s]] = None
  /\ pc[s] = "require" => preload[vm[s]] = s /\ loaded[vm[s]] = None
  /\ pc[s] \in {"script", "curl"} => loaded[vm[s]] = s

\* A script that came too late never gets to run.
LateKnown(s) ==
  /\ late[s] => ctx[s] # "live" /\ pc[s] \notin {"script", "curl"} /\ ret[s] # "ok"
  /\ pc[s] # "done" => ret[s] = "none"

IInv ==
  /\ VMsKnown /\ ScriptsKnown /\ RestKnown
  /\ \A s \in Script : HasVM(s) /\ OwnVM(s) /\ OwnModule(s) /\ LateKnown(s)
  /\ WritesOwnBuild

USE DEF vars, poolVars, vmVars, Goto, Return, Running

LEMMA InitIInv == Init => IInv
<1> SUFFICES ASSUME Init PROVE IInv
  OBVIOUS
<1>1. VMsKnown
  BY DEF Init, VMsKnown
<1>2. late \in [Script -> BOOLEAN] /\ \A s \in Script : late[s] => ctx[s] # "live"
  <2>1. late = [s \in Script |-> ctx[s] # "live"]
    BY DEF Init
  <2>2. \A s \in Script : (ctx[s] # "live") \in BOOLEAN
    OBVIOUS
  <2> QED BY <2>1, <2>2, Zenon
<1>3. ScriptsKnown
  BY DEF Init, ScriptsKnown
<1>6. RestKnown
  BY <1>2 DEF Init, RestKnown
<1>4. \A s \in Script : HasVM(s) /\ OwnVM(s) /\ OwnModule(s) /\ LateKnown(s)
  BY <1>2 DEF Init, HasVM, OwnVM, OwnModule, LateKnown
<1>5. WritesOwnBuild
  BY DEF Init, WritesOwnBuild
<1> QED BY <1>1, <1>3, <1>4, <1>5, <1>6 DEF IInv

-----------------------------------------------------------------------------
\* The pool is empty: a script gets a VM made for it.
LEMMA NewVM ==
  ASSUME IInv, NEW s \in Script, TakeVM(s)
  PROVE  /\ made' = made + 1 /\ saved' = <<>>
         /\ preload' = Append(preload, None) /\ loaded' = Append(loaded, None)
         /\ vm' = [vm EXCEPT ![s] = made + 1]
BY DEF IInv, VMsKnown, TakeVM, Get, New

LEMMA RestStep == IInv /\ [Next]_vars => RestKnown'
<1> SUFFICES ASSUME IInv, [Next]_vars PROVE RestKnown'
  OBVIOUS
<1> USE DEF Next, Run, EndContext, TakeVM, Preload, Require, WriteEnv, Curl, CurlReturns,
            ScriptEnds
<1>1. late' = late
  OBVIOUS
<1>2. late' \in [Script -> BOOLEAN]
  BY <1>1, Zenon DEF IInv, RestKnown
<1>3. writers' \in [{BuildOf[s] : s \in Script} -> SUBSET Script]
  <2>1. CASE writers' = writers
    BY <2>1, Zenon DEF IInv, RestKnown
  <2>2. CASE \E s \in Script : WriteEnv(s)
    <3>1. PICK s \in Script : writers' = [writers EXCEPT ![BuildOf[Bound(s)]] = @ \cup {s}]
      BY <2>2
    <3> QED BY <3>1 DEF IInv, RestKnown
  <2> QED BY <2>1, <2>2
<1> QED BY <1>2, <1>3, Zenon DEF RestKnown

LEMMA TakeVMStep ==
  ASSUME IInv, RestKnown', NEW s \in Script, TakeVM(s)
  PROVE  IInv'
<1>1. /\ made' = made + 1 /\ saved' = <<>>
      /\ preload' = Append(preload, None) /\ loaded' = Append(loaded, None)
      /\ vm' = [vm EXCEPT ![s] = made + 1]
  BY NewVM
<1>2. /\ pc[s] = "due" /\ pc' = [pc EXCEPT ![s] = "preload"]
      /\ ret' = ret /\ writers' = writers /\ ctx' = ctx /\ late' = late
  BY DEF TakeVM
<1> USE DEF IInv, VMsKnown, ScriptsKnown, Loaders
<1>3. VMsKnown'
  BY <1>1
<1>4. /\ \A v \in 1 .. made : preload'[v] = preload[v] /\ loaded'[v] = loaded[v]
      /\ loaded'[made + 1] = None
  BY <1>1
<1>5. ScriptsKnown'
  BY <1>1, <1>2
<1>6. ASSUME NEW t \in Script PROVE HasVM(t)' /\ OwnVM(t)' /\ LateKnown(t)'
  BY <1>1, <1>2 DEF HasVM, OwnVM, LateKnown
<1>7. ASSUME NEW t \in Script PROVE OwnModule(t)'
  BY <1>1, <1>2, <1>4 DEF HasVM, OwnModule
<1>8. WritesOwnBuild'
  BY <1>2 DEF WritesOwnBuild
<1> QED BY <1>3, <1>5, <1>6, <1>7, <1>8

LEMMA PreloadStep ==
  ASSUME IInv, RestKnown', NEW s \in Script, Preload(s)
  PROVE  IInv'
<1> USE DEF IInv, VMsKnown, ScriptsKnown, Loaders, Preload
<1>1. vm[s] \in 1 .. made
  BY DEF HasVM
<1>2. VMsKnown' /\ preload'[vm[s]] = s
  BY <1>1
<1>3. ScriptsKnown'
  OBVIOUS
<1>4. \A t \in Script : pc'[t] # "due" /\ t # s =>
        pc'[t] = pc[t] /\ vm[t] # vm[s] /\ preload'[vm[t]] = preload[vm[t]]
  BY <1>1 DEF OwnVM, HasVM
<1>5. ASSUME NEW t \in Script PROVE HasVM(t)' /\ OwnVM(t)' /\ LateKnown(t)'
  BY DEF HasVM, OwnVM, LateKnown
<1>6. ASSUME NEW t \in Script PROVE OwnModule(t)'
  BY <1>1, <1>2, <1>4 DEF OwnModule
<1>7. WritesOwnBuild'
  BY DEF WritesOwnBuild
<1> QED BY <1>2, <1>3, <1>5, <1>6, <1>7

LEMMA RequireStep ==
  ASSUME IInv, RestKnown', NEW s \in Script, Require(s)
  PROVE  IInv'
<1> USE DEF IInv, VMsKnown, ScriptsKnown, Loaders, Require
<1>1. vm[s] \in 1 .. made /\ preload[vm[s]] = s /\ loaded[vm[s]] = None
  BY DEF HasVM, OwnModule
<1>2. VMsKnown'
  <2>1. loaded' = loaded \/ loaded' = [loaded EXCEPT ![vm[s]] = s]
    <3>1. CASE loaded' = [loaded EXCEPT ![vm[s]] = IF @ = None THEN preload[vm[s]] ELSE @]
      BY <1>1, <3>1
    <3>2. CASE UNCHANGED loaded
      BY <3>2
    <3> QED BY <3>1, <3>2
  <2>2. /\ loaded \in Seq(Loaders) /\ Len(loaded) = made /\ vm[s] \in 1 .. made
        /\ s \in Loaders /\ made \in Nat
    BY <1>1
  <2>3. loaded' \in Seq(Loaders) /\ Len(loaded') = made
    <3> HIDE DEF IInv, VMsKnown, ScriptsKnown, Require, Loaders
    <3> QED BY <2>1, <2>2
  <2>4. made' = made /\ saved' = <<>> /\ preload' = preload
    OBVIOUS
  <2> QED BY <2>3, <2>4
<1>3. ScriptsKnown'
  OBVIOUS
<1>4. \A t \in Script : pc'[t] # "due" /\ t # s =>
        pc'[t] = pc[t] /\ vm[t] # vm[s] /\ loaded'[vm[t]] = loaded[vm[t]]
  BY <1>1 DEF OwnVM, HasVM
<1>5. ASSUME NEW t \in Script PROVE HasVM(t)' /\ OwnVM(t)' /\ LateKnown(t)'
  BY DEF HasVM, OwnVM, LateKnown
<1>6. pc'[s] = "script" => loaded'[vm[s]] = s
  BY <1>1
<1>7. ASSUME NEW t \in Script PROVE OwnModule(t)'
  <2>1. CASE t = s BY <1>6, <2>1 DEF OwnModule
  <2>2. CASE t # s BY <1>4, <2>2 DEF OwnModule
  <2> QED BY <2>1, <2>2
<1>8. WritesOwnBuild'
  BY DEF WritesOwnBuild
<1> QED BY <1>2, <1>3, <1>5, <1>7, <1>8

LEMMA WriteEnvStep ==
  ASSUME IInv, RestKnown', NEW s \in Script, WriteEnv(s)
  PROVE  IInv'
<1> USE DEF IInv, VMsKnown, ScriptsKnown, Loaders, WriteEnv
<1>1. Bound(s) = s
  BY DEF Bound, OwnModule
<1>2. writers' = [writers EXCEPT ![BuildOf[s]] = @ \cup {s}]
  BY <1>1
<1>3. VMsKnown' /\ ScriptsKnown'
  BY <1>2
<1>4. ASSUME NEW t \in Script PROVE HasVM(t)' /\ OwnVM(t)' /\ LateKnown(t)' /\ OwnModule(t)'
  BY DEF HasVM, OwnVM, LateKnown, OwnModule
<1>5. WritesOwnBuild'
  <2>1. DOMAIN writers' = DOMAIN writers
    BY <1>2
  <2>2. ASSUME NEW b \in DOMAIN writers, NEW t \in writers'[b] PROVE BuildOf[t] = b
    <3>1. t \in writers[b] \/ (b = BuildOf[s] /\ t = s)
      BY <1>2, <2>2
    <3> QED BY <2>2, <3>1 DEF WritesOwnBuild
  <2> QED BY <2>1, <2>2 DEF WritesOwnBuild
<1> QED BY <1>3, <1>4, <1>5

\* The other steps change contexts, places and results only.
LEMMA PlainStep ==
  ASSUME IInv, RestKnown', NEW s \in Script,
         EndContext(s) \/ ScriptEnds(s) \/ Curl(s) \/ CurlReturns(s)
  PROVE  IInv'
<1> USE DEF IInv, VMsKnown, ScriptsKnown, Loaders, EndContext, ScriptEnds, Curl, CurlReturns
<1>1. VMsKnown' /\ WritesOwnBuild'
  BY DEF WritesOwnBuild
<1>2. ScriptsKnown'
  OBVIOUS
<1>3. ASSUME NEW t \in Script PROVE HasVM(t)' /\ OwnVM(t)' /\ LateKnown(t)'
  BY DEF HasVM, OwnVM, LateKnown
<1>4. ASSUME NEW t \in Script PROVE OwnModule(t)'
  BY DEF OwnModule
<1> QED BY <1>1, <1>2, <1>3, <1>4

LEMMA IInvStep == IInv /\ [Next]_vars => IInv'
<1> SUFFICES ASSUME IInv, [Next]_vars PROVE IInv'
  OBVIOUS
<1>1. CASE UNCHANGED vars
  BY <1>1, RestStep DEF IInv, VMsKnown, ScriptsKnown, HasVM, OwnVM, OwnModule, LateKnown, WritesOwnBuild
<1>2. ASSUME NEW s \in Script,
             EndContext(s) \/ Run(s) \/ WriteEnv(s) \/ Curl(s) \/ CurlReturns(s)
      PROVE  IInv'
  BY <1>2, RestStep, TakeVMStep, PreloadStep, RequireStep, WriteEnvStep, PlainStep DEF Run
<1> QED BY <1>1, <1>2 DEF Next

LEMMA Inductive == Spec => []IInv
BY InitIInv, IInvStep, PTL DEF Spec

-----------------------------------------------------------------------------
\* Every variable keeps to its values; the pool holds only VMs that were made.
THEOREM Typing == Spec => []TypeOK
<1>1. IInv => TypeOK
  BY DEF IInv, VMsKnown, ScriptsKnown, RestKnown, Loaders, TypeOK, VM
<1> QED BY Inductive, <1>1, PTL

\* For any number of scripts, no two that run at the same time share a VM (VmPool).
THEOREM VMsAreOwn == Spec => []NoSharedVM
<1>1. IInv => NoSharedVM
  BY DEF IInv, OwnVM, NoSharedVM
<1> QED BY Inductive, <1>1, PTL

\* For any number of builds, a script writes the environment of its own (Loader).
THEOREM EnvIsOwn == Spec => []WritesOwnBuild
<1>1. IInv => WritesOwnBuild BY DEF IInv
<1> QED BY Inductive, <1>1, PTL

FR(s) == INSTANCE FlowRunner
           WITH kind <- "Lua", ctx <- ctx[s], late <- late[s], ret <- ret[s]

\* Every step of the pool and its scripts is, for each script, one FlowRunner allows or
\* none that the processor sees.
THEOREM KeepsToFlowRunner == ASSUME NEW s \in Script PROVE Spec => FR(s)!Spec
<1>1. Init => FR(s)!Init
  <2> SUFFICES ASSUME Init PROVE FR(s)!Init
    OBVIOUS
  <2>1. late[s] = (ctx[s] # "live") /\ ctx[s] \in {"live", "canceled", "expired"}
    BY DEF Init
  <2> QED BY <2>1 DEF Init, FR!Init, FR!Kind
<1>2. IInv /\ [Next]_vars => [FR(s)!Next]_(FR(s)!vars)
  <2> SUFFICES ASSUME IInv, [Next]_vars PROVE [FR(s)!Next]_(FR(s)!vars)
    OBVIOUS
  <2> USE DEF FR!Next, FR!vars
  <2>1. CASE UNCHANGED vars
    BY <2>1
  <2>2. ASSUME NEW t \in Script,
               EndContext(t) \/ Run(t) \/ WriteEnv(t) \/ Curl(t) \/ CurlReturns(t)
        PROVE  [FR(s)!Next]_(FR(s)!vars)
    <3>1. ctx \in [Script -> {"live", "canceled", "expired"}]
      BY DEF IInv, ScriptsKnown
    <3>2. ret \in [Script -> {"none", "ok", "error"}] /\ pc[t] # "done" => ret[t] = "none"
      BY DEF IInv, ScriptsKnown, LateKnown
    <3>3. CASE EndContext(t)
      BY <3>1, <3>3 DEF EndContext, FR!EndContext
    <3>4. CASE Run(t) \/ WriteEnv(t) \/ Curl(t) \/ CurlReturns(t)
      <4>1. ctx' = ctx /\ late' = late
        BY <3>4 DEF Run, TakeVM, Preload, Require, ScriptEnds, WriteEnv, Curl, CurlReturns
      <4>2. CASE ret'[s] = ret[s]
        BY <4>1, <4>2
      <4>3. CASE ret'[s] # ret[s]
        <5>1. /\ t = s /\ ret[s] = "none"
              /\ ret'[s] = "error" \/ (ret'[s] = "ok" /\ ~late[s])
          BY <3>4, <4>3 DEF Run, TakeVM, Preload, Require, ScriptEnds, WriteEnv, Curl,
             CurlReturns, IInv, ScriptsKnown, LateKnown
        <5> QED BY <4>1, <5>1 DEF FR!Return, FR!RunFlowResults, FR!LuaResults,
                  FR!ContextAware
      <4> QED BY <4>2, <4>3
    <3> QED BY <2>2, <3>3, <3>4
  <2> QED BY <2>1, <2>2 DEF Next
<1> QED BY Inductive, <1>1, <1>2, PTL DEF Spec, FR!Spec
=============================================================================

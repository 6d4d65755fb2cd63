-------------------------- MODULE ShellRunnerProofs --------------------------
(***************************************************************************)
(* The shell runner is correct whatever the daemon, the script and the     *)
(* clients do.  IInv adds to TypeOK what is known of the context, the      *)
(* script file and the container at each point of Run; the safety          *)
(* properties of ShellRunner, and the steps of FlowRunner, follow from it. *)
(***************************************************************************)
EXTENDS ShellRunner, TLAPS

Live == {"created", "running", "exited"}

\* A request that was not sent is one for a context that has ended.
ContextKnown ==
  /\ late => ctx # "live"
  /\ ~sent /\ pc # "done" => ctx # "live"
  /\ err = "canceled" \/ ret = "canceled" => ctx = "canceled"

\* The script is there from its writing to its removal, unless a client takes it away.
ScriptKnown ==
  /\ pc = "write" => script = "none"
  /\ pc \notin {"write", "done"} => script # "partial"
  /\ pc = "done" /\ script # "none" => script = "partial" /\ ret = "error"

Explained == ctx # "live" \/ failed \cap {"create", "start", "remove"} # {}

\* The container at each point of Run.
ContainerKnown ==
  /\ pc \in {"write", "list", "pull", "create"} => container = "none"
  /\ pc = "start" => container = "created"
  /\ pc \in {"logs", "copy", "wait", "remove"} => container \in {"running", "exited"}
  /\ pc \in {"unlink", "done"} /\ container \in Live => Explained

\* Where success can come from.
OkKnown ==
  /\ exit = "zero" => container \in {"exited", "removed"}
  /\ pc \in {"remove", "unlink"} /\ err = "ok" => exit = "zero" /\ ~late
  /\ ret = "ok" => exit = "zero" /\ ~late
  /\ pc # "done" <=> ret = "none"

IInv == TypeOK /\ ContextKnown /\ ScriptKnown /\ ContainerKnown /\ OkKnown

LEMMA InitIInv == Init => IInv
  BY DEF Init, CallsInit, IInv, TypeOK, CallsTypeOK, Request, Answer, ContextKnown,
         ScriptKnown, ContainerKnown, OkKnown, Live

USE DEF ctxVars, runVars, dirVars, dockerVars, vars, Succeeds, Fails, Broken, Goto,
        Proceed, Return, CtxError

\* What every step leaves of the two Boolean variables, and of the context.
LEMMA BooleanStep ==
  TypeOK /\ ContextKnown /\ [Next]_vars =>
    /\ sent' \in BOOLEAN /\ (late' => ~sent')
    /\ work' \in BOOLEAN /\ late' \in BOOLEAN
<1> SUFFICES ASSUME TypeOK, ContextKnown, [Next]_vars
             PROVE  /\ sent' \in BOOLEAN /\ (late' => ~sent')
                    /\ work' \in BOOLEAN /\ late' \in BOOLEAN
  OBVIOUS
<1>1. late' = late
  BY DEF Next, Run, EndContext, CtxEnds, DeleteWorkspace, ScriptEnds, WriteScript,
     ListImages, Pull, Create, Start, OpenLogs, CopyLogs, WaitForExit, RemoveContainer,
     RemoveScript
<1>2. work' = work \/ work' = FALSE
  BY DEF Next, Run, EndContext, CtxEnds, DeleteWorkspace, ScriptEnds, WriteScript,
     ListImages, Pull, Create, Start, OpenLogs, CopyLogs, WaitForExit, RemoveContainer,
     RemoveScript
<1>3. sent' = sent \/ sent' = (ctx = "live")
  BY DEF Next, Run, EndContext, CtxEnds, DeleteWorkspace, ScriptEnds, WriteScript,
     ListImages, Pull, Create, Start, OpenLogs, CopyLogs, WaitForExit, RemoveContainer,
     RemoveScript
<1>4. late => ctx # "live"
  BY DEF ContextKnown
<1>5. (ctx = "live") \in BOOLEAN
  OBVIOUS
<1>6. late \in BOOLEAN /\ (late => ~sent) /\ sent \in BOOLEAN /\ work \in BOOLEAN
  BY DEF TypeOK, CallsTypeOK
<1>7. sent' \in BOOLEAN
  BY <1>3, <1>5, <1>6, Zenon
<1>8. late => ~sent'
  BY <1>3, <1>4, <1>6, Zenon
<1>9. work' \in BOOLEAN
  BY <1>2, <1>6, Zenon
<1> QED BY <1>1, <1>6, <1>7, <1>8, <1>9, Zenon

LEMMA RequestStep ==
  TypeOK /\ [Next]_vars =>
    failed' \subseteq Request /\ pc' \in Request \cup {"write", "unlink", "done"}
<1> SUFFICES ASSUME TypeOK, [Next]_vars
             PROVE  /\ failed' \subseteq Request
                    /\ pc' \in Request \cup {"write", "unlink", "done"}
  OBVIOUS
<1>1. \/ failed' = failed
      \/ failed' = failed \cup {"list"} \/ failed' = failed \cup {"pull"}
      \/ failed' = failed \cup {"create"} \/ failed' = failed \cup {"start"}
      \/ failed' = failed \cup {"logs"} \/ failed' = failed \cup {"copy"}
      \/ failed' = failed \cup {"wait"} \/ failed' = failed \cup {"remove"}
  BY DEF Next, Run, EndContext, CtxEnds, DeleteWorkspace, ScriptEnds, WriteScript,
     ListImages, Pull, Create, Start, OpenLogs, CopyLogs, WaitForExit, RemoveContainer,
     RemoveScript
<1>2. failed \subseteq Request
  BY DEF TypeOK
<1>3. failed' \subseteq Request
  BY <1>1, <1>2 DEF Request
<1>4. pc' \in Request \cup {"write", "unlink", "done"}
  BY DEF TypeOK, CallsTypeOK, Request, Next, Run, EndContext, CtxEnds, DeleteWorkspace,
     ScriptEnds, WriteScript, ListImages, Pull, Create, Start, OpenLogs, CopyLogs,
     WaitForExit, RemoveContainer, RemoveScript
<1> QED BY <1>3, <1>4

LEMMA TypeStep == TypeOK /\ ContextKnown /\ [Next]_vars => TypeOK'
<1> SUFFICES ASSUME TypeOK, ContextKnown, [Next]_vars PROVE TypeOK'
  OBVIOUS
<1>0. /\ sent' \in BOOLEAN /\ (late' => ~sent')
      /\ work' \in BOOLEAN /\ late' \in BOOLEAN
      /\ failed' \subseteq Request /\ pc' \in Request \cup {"write", "unlink", "done"}
  BY BooleanStep, RequestStep
<1> USE <1>0 DEF TypeOK, CallsTypeOK, Answer
<1>1. CASE EndContext BY <1>1 DEF EndContext, CtxEnds
<1>2. CASE DeleteWorkspace BY <1>2 DEF DeleteWorkspace
<1>3. CASE ScriptEnds BY <1>3 DEF ScriptEnds
<1>4. CASE WriteScript BY <1>4 DEF WriteScript
<1>5. CASE ListImages BY <1>5 DEF ListImages
<1>6. CASE Pull BY <1>6 DEF Pull
<1>7. CASE Create BY <1>7 DEF Create, Creatable
<1>8. CASE Start BY <1>8 DEF Start
<1>9. CASE OpenLogs BY <1>9 DEF OpenLogs
<1>10. CASE CopyLogs BY <1>10 DEF CopyLogs
<1>11. CASE WaitForExit BY <1>11 DEF WaitForExit
<1>12. CASE RemoveContainer BY <1>12 DEF RemoveContainer
<1>13. CASE RemoveScript BY <1>13 DEF RemoveScript
<1>14. CASE UNCHANGED vars BY <1>14
<1> QED BY <1>1, <1>2, <1>3, <1>4, <1>5, <1>6, <1>7, <1>8, <1>9, <1>10, <1>11, <1>12,
           <1>13, <1>14 DEF Next, Run

LEMMA KnownStep == IInv /\ [Next]_vars =>
                     ContextKnown' /\ ScriptKnown' /\ ContainerKnown' /\ OkKnown'
<1> SUFFICES ASSUME IInv, [Next]_vars
             PROVE  ContextKnown' /\ ScriptKnown' /\ ContainerKnown' /\ OkKnown'
  OBVIOUS
<1> USE DEF IInv, TypeOK, CallsTypeOK, Request, Answer, ContextKnown, ScriptKnown,
            ContainerKnown, OkKnown, Live, Explained
<1>1. CASE EndContext BY <1>1 DEF EndContext, CtxEnds
<1>2. CASE DeleteWorkspace BY <1>2 DEF DeleteWorkspace
<1>3. CASE ScriptEnds BY <1>3 DEF ScriptEnds
<1>4. CASE WriteScript BY <1>4 DEF WriteScript
<1>5. CASE ListImages BY <1>5 DEF ListImages
<1>6. CASE Pull BY <1>6 DEF Pull
<1>7. CASE Create BY <1>7 DEF Create, Creatable
<1>8. CASE Start BY <1>8 DEF Start
<1>9. CASE OpenLogs BY <1>9 DEF OpenLogs
<1>10. CASE CopyLogs BY <1>10 DEF CopyLogs
<1>11. CASE WaitForExit BY <1>11 DEF WaitForExit
<1>12. CASE RemoveContainer BY <1>12 DEF RemoveContainer
<1>13. CASE RemoveScript BY <1>13 DEF RemoveScript
<1>14. CASE UNCHANGED vars BY <1>14
<1> QED BY <1>1, <1>2, <1>3, <1>4, <1>5, <1>6, <1>7, <1>8, <1>9, <1>10, <1>11, <1>12,
           <1>13, <1>14 DEF Next, Run

LEMMA Inductive == Spec => []IInv
<1>1. IInv /\ [Next]_vars => IInv'
  BY TypeStep, KnownStep DEF IInv
<1> QED BY InitIInv, <1>1, PTL DEF Spec

-----------------------------------------------------------------------------
\* Every variable of the runner keeps to its values, and nothing is sent to the daemon
\* for a flow whose context had ended before.
THEOREM Typing == Spec => []TypeOK
<1>1. IInv => TypeOK BY DEF IInv
<1> QED BY Inductive, <1>1, PTL

\* A container outlives Run only for a reason (the deferred ContainerRemove).
THEOREM NoLeftover == Spec => []LeftoverExplained
<1>1. IInv => LeftoverExplained
  BY DEF IInv, ContainerKnown, OkKnown, LeftoverExplained, Explained, Live
<1> QED BY Inductive, <1>1, PTL

\* No return leaves the whole script in the workspace (the deferred os.Remove).
THEOREM ScriptRemoved == Spec => []ScriptGone
<1>1. IInv => ScriptGone
  BY DEF IInv, ScriptKnown, OkKnown, ScriptGone
<1> QED BY Inductive, <1>1, PTL

\* Success is the exit code zero of a script that was seen to end (the select).
THEOREM SuccessMeansRan == Spec => []OkMeansRan
<1>1. IInv => OkMeansRan
  BY DEF IInv, OkKnown, OkMeansRan
<1> QED BY Inductive, <1>1, PTL

\* Every step of Run is one FlowRunner allows, or none that the processor sees.
THEOREM KeepsToFlowRunner == Spec => FR!Spec
<1>1. Init => FR!Init
  BY DEF Init, CallsInit, FR!Init, FR!Kind
<1>2. IInv /\ IInv' /\ [Next]_vars => [FR!Next]_FR!vars
  <2> SUFFICES ASSUME IInv, IInv', [Next]_vars PROVE [FR!Next]_FR!vars
    OBVIOUS
  <2>1. CASE EndContext
    BY <2>1 DEF EndContext, CtxEnds, FR!Next, FR!EndContext
  <2>2. CASE ret' # ret
    <3>1. ret = "none" /\ UNCHANGED ctxVars
      BY <2>2 DEF Next, Run, IInv, OkKnown, TypeOK, CallsTypeOK, EndContext, CtxEnds,
         DeleteWorkspace, ScriptEnds, WriteScript, ListImages, Pull, Create, Start, OpenLogs,
         CopyLogs, WaitForExit, RemoveContainer, RemoveScript
    <3>2. ret' \in FR!RunFlowResults("Shell", late, ctx) \/ ret' = "timeout"
      BY <2>2, <3>1 DEF IInv, OkKnown, ContextKnown, TypeOK, CallsTypeOK, Answer,
         FR!RunFlowResults, FR!ShellResults, FR!ContextAware
    <3> QED BY <3>1, <3>2 DEF FR!Next, FR!Return, FR!RunFlowResults, FR!ShellResults,
         FR!ContextAware
  <2>3. CASE ret' = ret /\ UNCHANGED ctxVars
    BY <2>3 DEF FR!vars
  <2> QED BY <2>1, <2>2, <2>3 DEF Next, Run, DeleteWorkspace, ScriptEnds, WriteScript,
       ListImages, Pull, Create, Start, OpenLogs, CopyLogs, WaitForExit, RemoveContainer,
       RemoveScript
<1> QED BY Inductive, <1>1, <1>2, PTL DEF Spec, FR!Spec
=============================================================================

-------------------------- MODULE DockerBuildProofs --------------------------
(***************************************************************************)
(* The docker build runner is correct whatever the daemon and the clients  *)
(* do.  IInv adds to TypeOK that nothing reaches the daemon for a flow     *)
(* that came too late, and when the build context is open.                 *)
(***************************************************************************)
EXTENDS DockerBuild, TLAPS

\* A request that was not sent is one for a context that has ended.
ContextKnown ==
  /\ late => ctx # "live"
  /\ late => ~sent
  /\ err = "canceled" \/ ret = "canceled" => ctx = "canceled"

\* The build context is open from its making to its Close.
OpenKnown ==
  /\ pc = "add" => ~opened
  /\ pc = "done" /\ opened => ~work
  /\ pc # "done" <=> ret = "none"

\* Success comes from an answer of the daemon.
OkKnown ==
  /\ pc \in {"push", "close"} /\ err = "ok" => ~late
  /\ ret = "ok" => ~late
  /\ ret # "timeout" /\ err # "timeout"

IInv == TypeOK /\ ContextKnown /\ OpenKnown /\ OkKnown /\ LateBuildsNothing

USE DEF ctxVars, runVars, buildVars, vars, Broken, Goto, Proceed, Return, CtxError, MayBuild

LEMMA InitIInv == Init => IInv
<1> SUFFICES ASSUME Init PROVE IInv
  OBVIOUS
<1>1. late \in BOOLEAN /\ sent \in BOOLEAN /\ (late => ~sent)
  BY Zenon DEF Init, CallsInit
<1> QED BY <1>1 DEF Init, CallsInit, IInv, TypeOK, CallsTypeOK, Answer, ContextKnown,
     OpenKnown, OkKnown, LateBuildsNothing

-----------------------------------------------------------------------------
\* What every step leaves of the Boolean variables.
LEMMA BooleanStep ==
  IInv /\ [Next]_vars =>
    /\ sent' \in BOOLEAN /\ (late' => ~sent') /\ late' \in BOOLEAN
    /\ work' \in BOOLEAN /\ opened' \in BOOLEAN
<1> SUFFICES ASSUME IInv, [Next]_vars
             PROVE  /\ sent' \in BOOLEAN /\ (late' => ~sent') /\ late' \in BOOLEAN
                    /\ work' \in BOOLEAN /\ opened' \in BOOLEAN
  OBVIOUS
<1> USE DEF Next, Run, EndContext, CtxEnds, DeleteWorkspace, PushEnds, AddDockerfile,
            AsTarReader, ImageBuild, CopyBuildLog, ImagePush, CloseContext
<1>1. late' = late
  OBVIOUS
<1>2. work' = work \/ work' = FALSE \/ work' = TRUE
  OBVIOUS
<1>3. opened' = opened \/ opened' = TRUE
  OBVIOUS
<1>4. sent' = sent \/ sent' = (ctx = "live")
  OBVIOUS
<1> HIDE DEF Next, Run, EndContext, CtxEnds, DeleteWorkspace, PushEnds, AddDockerfile,
             AsTarReader, ImageBuild, CopyBuildLog, ImagePush, CloseContext
<1>5. (ctx = "live") \in BOOLEAN
  OBVIOUS
<1>6. late \in BOOLEAN /\ sent \in BOOLEAN /\ work \in BOOLEAN /\ opened \in BOOLEAN
  BY DEF IInv, TypeOK, CallsTypeOK
<1>7. (late => ~sent) /\ (late => ctx # "live")
  BY DEF IInv, ContextKnown
<1>8. sent' \in BOOLEAN
  BY <1>4, <1>5, <1>6, Zenon
<1>9. late => ~sent'
  BY <1>4, <1>7, Zenon
<1>10. work' \in BOOLEAN /\ opened' \in BOOLEAN
  BY <1>2, <1>3, <1>6, Zenon
<1> QED BY <1>1, <1>6, <1>8, <1>9, <1>10, Zenon

LEMMA IInvStep == IInv /\ [Next]_vars => IInv'
<1> SUFFICES ASSUME IInv, [Next]_vars PROVE IInv'
  OBVIOUS
<1>0. /\ sent' \in BOOLEAN /\ (late' => ~sent') /\ late' \in BOOLEAN
      /\ work' \in BOOLEAN /\ opened' \in BOOLEAN
  BY BooleanStep
<1> USE <1>0 DEF IInv, TypeOK, CallsTypeOK, Answer, ContextKnown, OpenKnown, OkKnown,
                 LateBuildsNothing
<1>1. CASE EndContext BY <1>1 DEF EndContext, CtxEnds
<1>2. CASE DeleteWorkspace BY <1>2 DEF DeleteWorkspace
<1>3. CASE PushEnds BY <1>3 DEF PushEnds
<1>4. CASE AddDockerfile BY <1>4 DEF AddDockerfile
<1>5. CASE AsTarReader BY <1>5 DEF AsTarReader
<1>6. CASE ImageBuild BY <1>6 DEF ImageBuild
<1>7. CASE CopyBuildLog BY <1>7 DEF CopyBuildLog
<1>8. CASE ImagePush BY <1>8 DEF ImagePush
<1>9. CASE CloseContext BY <1>9 DEF CloseContext
<1>10. CASE UNCHANGED vars BY <1>10
<1> QED BY <1>1, <1>2, <1>3, <1>4, <1>5, <1>6, <1>7, <1>8, <1>9, <1>10 DEF Next, Run

LEMMA Inductive == Spec => []IInv
BY InitIInv, IInvStep, PTL DEF Spec

-----------------------------------------------------------------------------
\* Every variable of the runner keeps to its values, and nothing is sent to the daemon
\* for a flow whose context had ended before.
THEOREM Typing == Spec => []TypeOK
<1>1. IInv => TypeOK BY DEF IInv
<1> QED BY Inductive, <1>1, PTL

\* Every return of Run that had made the build context removes the workspace (the
\* deferred Close).
THEOREM ContextIsClosed == Spec => []ContextClosed
<1>1. IInv => ContextClosed BY DEF IInv, OpenKnown, ContextClosed
<1> QED BY Inductive, <1>1, PTL

\* A flow that came too late neither builds nor pushes (the requests' context).
THEOREM LateDoesNothing == Spec => []LateBuildsNothing
<1>1. IInv => LateBuildsNothing BY DEF IInv
<1> QED BY Inductive, <1>1, PTL

\* Every step of Run is one FlowRunner allows, or none that the processor sees.
THEOREM KeepsToFlowRunner == Spec => FR!Spec
<1>1. Init => FR!Init
  BY DEF Init, CallsInit, FR!Init, FR!Kind
<1>2. IInv /\ IInv' /\ [Next]_vars => [FR!Next]_FR!vars
  <2> SUFFICES ASSUME IInv, IInv', [Next]_vars PROVE [FR!Next]_FR!vars
    OBVIOUS
  <2>1. CASE EndContext
    BY <2>1 DEF EndContext, CtxEnds, FR!Next, FR!EndContext
  <2>2. CASE ret' # ret
    <3>1. ret = "none" /\ UNCHANGED ctxVars
      BY <2>2 DEF Next, Run, IInv, OpenKnown, EndContext, CtxEnds, DeleteWorkspace,
         PushEnds, AddDockerfile, AsTarReader, ImageBuild, CopyBuildLog, ImagePush,
         CloseContext
    <3>2. ret' \in FR!RunFlowResults("DockerBuild", late, ctx)
      BY <2>2, <3>1 DEF IInv, OkKnown, ContextKnown, TypeOK, CallsTypeOK, Answer,
         FR!RunFlowResults, FR!DockerBuildResults, FR!ContextAware
    <3> QED BY <3>1, <3>2 DEF FR!Next, FR!Return
  <2>3. CASE ret' = ret /\ UNCHANGED ctxVars
    BY <2>3 DEF FR!vars
  <2> QED BY <2>1, <2>2, <2>3 DEF Next, Run, DeleteWorkspace, PushEnds, AddDockerfile,
       AsTarReader, ImageBuild, CopyBuildLog, ImagePush, CloseContext
<1> QED BY Inductive, <1>1, <1>2, PTL DEF Spec, FR!Spec
=============================================================================

-------------------------- MODULE ScmRunnerProofs --------------------------
(***************************************************************************)
(* The SCM runner is correct for every configuration, credential, state of *)
(* the workspace and end of its context.                                   *)
(***************************************************************************)
EXTENDS ScmRunner, TLAPS

\* A context that had ended before the call is not live again.
ContextKnown == (late => ctx # "live") /\ (ret = "canceled" => ctx = "canceled")

\* Success is that of a clone made in time, or that of the VCS nobody serves.
OkKnown ==
  /\ pc # "done" <=> ret = "none"
  /\ vcs # "Git" => pc \in {"dispatch", "done"}
  /\ vcs = "SVN" => ret \in {"none", "ok"}
  /\ ret = "ok" => vcs = "SVN" \/ ~late

\* Behind renderCfg its fields are rendered; nothing is used before.
FieldsKnown ==
  /\ pc \in {"dispatch", "render", "auth"} => used = {}
  /\ pc \in {"auth", "init", "fetch"} /\ ~noRender => rendered = RenderedFields

\* The repository is cloned where there was none.
PlaceKnown == pc = "fetch" => dir # "repo"

IInv == TypeOK /\ ContextKnown /\ OkKnown /\ FieldsKnown /\ PlaceKnown /\ UsedIsRendered

USE DEF vars, cfgVars, Goto, Return, HasCredit, CreditType, Secret, Field

LEMMA InitIInv == Init => IInv
<1> SUFFICES ASSUME Init PROVE IInv
  OBVIOUS
<1>1. late \in BOOLEAN /\ noRender \in BOOLEAN /\ (late => ctx # "live")
  BY Zenon DEF Init
<1> QED BY <1>1 DEF Init, IInv, TypeOK, ContextKnown, OkKnown, FieldsKnown, PlaceKnown,
     UsedIsRendered

\* getAuth uses of a credential only fields that renderCfg renders.
LEMMA AuthIsRendered == {"Address", "Branch"} \cup AuthFields \subseteq RenderedFields
BY DEF AuthFields, RenderedFields

LEMMA IInvStep == IInv /\ [Next]_vars => IInv'
<1> SUFFICES ASSUME IInv, [Next]_vars PROVE IInv'
  OBVIOUS
<1>0. late' \in BOOLEAN /\ noRender' \in BOOLEAN
  <2>1. late' = late /\ noRender' = noRender
    BY DEF Next, Run, EndContext, DeleteWorkspace, Dispatch, RenderCfg, GetAuth, PlainInit,
       Fetch
  <2> QED BY <2>1, Zenon DEF IInv, TypeOK
<1> USE <1>0 DEF IInv, TypeOK, ContextKnown, OkKnown, FieldsKnown, UsedIsRendered,
                 RenderedFields, PlaceKnown
<1>1. CASE EndContext BY <1>1 DEF EndContext
<1>2. CASE DeleteWorkspace BY <1>2 DEF DeleteWorkspace
<1>3. CASE Dispatch BY <1>3 DEF Dispatch
<1>4. CASE RenderCfg BY <1>4 DEF RenderCfg
<1>5. CASE GetAuth
  <2>1. used' \subseteq RenderedFields
    BY <1>5, AuthIsRendered DEF GetAuth
  <2> QED BY <1>5, <2>1 DEF GetAuth
<1>6. CASE PlainInit BY <1>6 DEF PlainInit
<1>7. CASE Fetch BY <1>7 DEF Fetch
<1>8. CASE UNCHANGED vars BY <1>8
<1> QED BY <1>1, <1>2, <1>3, <1>4, <1>5, <1>6, <1>7, <1>8 DEF Next, Run

LEMMA Inductive == Spec => []IInv
BY InitIInv, IInvStep, PTL DEF Spec

-----------------------------------------------------------------------------
\* Every variable of the runner keeps to its values.
THEOREM Typing == Spec => []TypeOK
<1>1. IInv => TypeOK BY DEF IInv
<1> QED BY Inductive, <1>1, PTL

\* What getAuth puts into the clone is what renderCfg has rendered.
THEOREM CredentialIsRendered == Spec => []UsedIsRendered
<1>1. IInv => UsedIsRendered BY DEF IInv
<1> QED BY Inductive, <1>1, PTL

\* Every step of Run is one FlowRunner allows, or none that the processor sees: an error
\* is never taken for a clone, but for the VCS without a tool.
THEOREM KeepsToFlowRunner == Spec => FR!Spec
<1>1. Init => FR!Init
  BY DEF Init, FR!Init, FR!Kind
<1>2. IInv /\ IInv' /\ [Next]_vars => [FR!Next]_FR!vars
  <2> SUFFICES ASSUME IInv, IInv', [Next]_vars PROVE [FR!Next]_FR!vars
    OBVIOUS
  <2>1. CASE EndContext
    BY <2>1 DEF EndContext, FR!Next, FR!EndContext
  <2>2. CASE ret' # ret
    <3>1. ret = "none" /\ ret' # "none" /\ UNCHANGED <<ctx, late, vcs>>
      BY <2>2 DEF Next, Run, IInv, OkKnown, EndContext, DeleteWorkspace, Dispatch, RenderCfg,
         GetAuth, PlainInit, Fetch
    <3>2. vcs = "SVN" => ret' = "ok"
      BY <3>1 DEF IInv, OkKnown
    <3>3. vcs # "SVN" => ret' \in FR!ContextAware(late, ctx)
      BY <3>1 DEF IInv, OkKnown, ContextKnown, TypeOK, FR!ContextAware
    <3>4. ret' \in FR!RunFlowResults(IF vcs = "SVN" THEN "Svn" ELSE "Git", late, ctx)
      BY <3>2, <3>3 DEF FR!RunFlowResults, FR!ScmResults
    <3> QED BY <3>1, <3>4 DEF FR!Next, FR!Return
  <2>3. CASE ret' = ret /\ UNCHANGED <<ctx, late, vcs>>
    BY <2>3 DEF FR!vars
  <2> QED BY <2>1, <2>2, <2>3 DEF Next, Run, DeleteWorkspace, Dispatch, RenderCfg, GetAuth,
       PlainInit, Fetch
<1> QED BY Inductive, <1>1, <1>2, PTL DEF Spec, FR!Spec
=============================================================================

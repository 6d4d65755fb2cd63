----------------------------- MODULE FlowRunner -----------------------------
(***************************************************************************)
(* What the processor takes for granted of any runner of a flow: it may    *)
(* hang while its context is live, returns once the context has ended, and *)
(* returns what RunFlowResults allows.  ShellRunner, DockerBuild, ScmRunner*)
(* and LuaRunner implement it.                                             *)
(***************************************************************************)
EXTENDS RunnerResults

VARIABLES
  kind,   \* the type of the flow
  ctx,    \* the flow's context, with the first reason it ended for
  late,   \* it had ended before the runner was called
  ret     \* what the runner has returned, "none" while it runs

vars == <<kind, ctx, late, ret>>

Init ==
  /\ kind \in Kind
  /\ ctx \in {"live", "canceled", "expired"}
  /\ late = (ctx # "live")
  /\ ret = "none"

EndContext ==
  /\ ctx = "live" /\ ctx' \in {"canceled", "expired"}
  /\ UNCHANGED <<kind, late, ret>>

Return ==
  /\ ret = "none" /\ ret' \in RunFlowResults(kind, late, ctx)
  /\ UNCHANGED <<kind, ctx, late>>

Next == EndContext \/ Return

Spec == Init /\ [][Next]_vars

FairSpec == Spec /\ WF_vars(ctx # "live" /\ Return)
=============================================================================

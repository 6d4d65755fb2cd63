----------------------------- MODULE DockerCalls -----------------------------
(***************************************************************************)
(* What the two runners that use the Docker client have in common: the     *)
(* flow's context, the place in Run and the error Run will return, and the *)
(* ways a request to the daemon comes back.                                *)
(*                                                                         *)
(* A request is sent if the context is live when it is made.  One that was *)
(* sent may have been carried out although its caller gets an error.       *)
(***************************************************************************)

VARIABLES
  ctx,   \* the flow's context, with the first reason it ended for
  late,  \* it had ended before Run was called
  pc,    \* where Run is
  sent,  \* the request Run waits for has reached the daemon
  err,   \* what Run will return, while its deferred calls are made
  ret    \* what Run has returned

ctxVars == <<ctx, late>>
runVars == <<pc, sent, err, ret>>

Answer == {"ok", "error", "canceled", "timeout"}

\* Nothing is sent for a flow whose context had ended before.
CallsTypeOK(Pc) ==
  /\ ctx \in {"live", "canceled", "expired"} /\ late \in BOOLEAN
  /\ pc \in Pc /\ sent \in BOOLEAN /\ (late => ~sent)
  /\ err \in Answer /\ ret \in Answer \cup {"none"}

CallsInit(first) ==
  /\ ctx \in {"live", "canceled", "expired"} /\ late = (ctx # "live")
  /\ pc = first /\ sent = (ctx = "live") /\ err = "ok" /\ ret = "none"

CtxEnds == ctx = "live" /\ ctx' \in {"canceled", "expired"} /\ UNCHANGED late

Goto(l) == pc' = l /\ sent' = (ctx = "live") /\ UNCHANGED ret

Proceed(l) == Goto(l) /\ UNCHANGED err

Return(r) == pc' = "done" /\ ret' = r /\ UNCHANGED <<sent, err>>

FaultyCtxError == "canceled"       \* variant: a deadline counts as canceled
\* The client wraps a cancellation; a passed deadline is a failed connection.
CtxError == IF ctx = "canceled" THEN "canceled" ELSE "error"

\* The request comes back with an error; Run goes on at l to return it.
Broken(l) ==
  /\ \/ sent /\ err' = "error"
     \/ ctx # "live" /\ err' = CtxError
  /\ Goto(l)
=============================================================================

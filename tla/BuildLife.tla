------------------------------ MODULE BuildLife ------------------------------
(***************************************************************************)
(* What the processor promises of a build to the client who submitted it:  *)
(* its flows run one after the other, each to an outcome of its own, a     *)
(* failed or canceled one is the last, Canceled is said only of a build    *)
(* that was stopped in time, and a build that ran a flow ends with the     *)
(* verdict its last flow gave it - unless the process ended before.        *)
(*                                                                         *)
(* How a build is registered, how requests reach it, its directories and   *)
(* the contexts of its flows are of no concern here.  Processor implements *)
(* this specification.                                                     *)
(***************************************************************************)
EXTENDS Naturals, Sequences

CONSTANT Build

VARIABLES
  stage,     \* new, queued, running, ended
  total,     \* how many flows the build has
  progress,  \* the outcome of each flow begun, "Running" while it has none
  script,    \* what the scripts and params say of the build: CI_BUILD_STATUS
  stop,      \* what stopped the build first
  said,      \* the verdict
  halted     \* the process has ended

blVars == <<stage, total, progress, script, stop, said, halted>>

Outcome == {"Succeed", "Failed", "Canceled"}
Word == {"none", "success", "failed"}

BLInit ==
  /\ stage = [b \in Build |-> "new"]
  /\ total = [b \in Build |-> 0]
  /\ progress = [b \in Build |-> <<>>]
  /\ script = [b \in Build |-> "none"]
  /\ stop = [b \in Build |-> "no"]
  /\ said = [b \in Build |-> "none"]
  /\ halted = FALSE

Advance(b, from, to) == stage[b] = from /\ stage' = [stage EXCEPT ![b] = to]

Queue(b) ==
  /\ Advance(b, "new", "queued")
  /\ total' \in [Build -> Nat]
  /\ \A c \in Build \ {b} : total'[c] = total[c]
  /\ \E w \in Word : script' = [script EXCEPT ![b] = w]
  /\ UNCHANGED <<progress, stop, said, halted>>

\* A build that begins during a shutdown is a stopped one.
Begin(b) ==
  /\ Advance(b, "queued", "running")
  /\ \E s \in {"no", "canceled"} : stop' = [stop EXCEPT ![b] = s]
  /\ UNCHANGED <<total, progress, script, said, halted>>

\* A client stops one build, a shutdown every running one, a timeout one.
StopBuilds(why, B) ==
  /\ \A b \in B : stage[b] = "running"
  /\ stop' = [b \in Build |-> IF b \in B /\ stop[b] = "no" THEN why ELSE stop[b]]
  /\ UNCHANGED <<stage, total, progress, script, said, halted>>

Last(b) == progress[b][Len(progress[b])]

Idle(b) == progress[b] = <<>> \/ Last(b) # "Running"

\* The next flow begins: every one before it succeeded, none ended the build early.
FlowBegins(b) ==
  /\ stage[b] = "running" /\ said[b] = "none"
  /\ Len(progress[b]) < total[b]
  /\ \A i \in 1 .. Len(progress[b]) : progress[b][i] = "Succeed"
  /\ progress[b] # <<>> => script[b] # "success"
  /\ progress' = [progress EXCEPT ![b] = Append(@, "Running")]
  /\ UNCHANGED <<stage, total, script, stop, said, halted>>

ScriptSays(b) ==
  /\ stage[b] = "running" /\ ~Idle(b)
  /\ \E w \in Word : script' = [script EXCEPT ![b] = w]
  /\ UNCHANGED <<stage, total, progress, stop, said, halted>>

FlowEnds(b, outcome) ==
  /\ stage[b] = "running" /\ ~Idle(b)
  /\ outcome = "Succeed" => script[b] # "failed"
  /\ outcome = "Canceled" => stop[b] = "canceled"
  /\ progress' = [progress EXCEPT ![b][Len(progress[b])] = outcome]
  /\ UNCHANGED <<stage, total, script, stop, said, halted>>

\* The verdict, when no flow is left or none may follow.
Conclude(b) ==
  /\ stage[b] = "running" /\ said[b] = "none"
  /\ progress[b] # <<>> /\ Idle(b)
  /\ Last(b) = "Succeed" => Len(progress[b]) = total[b] \/ script[b] = "success"
  /\ said' = [said EXCEPT ![b] = Last(b)]
  /\ UNCHANGED <<stage, total, progress, script, stop, halted>>

\* Only a build that never came to a flow ends without a verdict.
End(b) ==
  /\ Advance(b, "running", "ended")
  /\ progress[b] = <<>> \/ said[b] # "none"
  /\ UNCHANGED <<total, progress, script, stop, said, halted>>

Halt ==
  /\ halted' = TRUE
  /\ UNCHANGED <<stage, total, progress, script, stop, said>>

BuildNext(b) ==
  \/ Queue(b) \/ Begin(b) \/ FlowBegins(b) \/ ScriptSays(b)
  \/ \E outcome \in Outcome : FlowEnds(b, outcome)
  \/ Conclude(b) \/ End(b)

BLNext ==
  /\ ~halted
  /\ \/ \E b \in Build : BuildNext(b)
     \/ \E why \in {"canceled", "expired"}, B \in SUBSET Build : StopBuilds(why, B)
     \/ Halt

BLSpec == BLInit /\ [][BLNext]_blVars
=============================================================================

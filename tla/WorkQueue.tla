------------------------------ MODULE WorkQueue ------------------------------
(***************************************************************************)
(* What the queue and the workers together promise to those who submit     *)
(* builds: an accepted message is handed out once and finished once, and   *)
(* only a message the processor cannot read may come back or get lost.     *)
(* The Consumer module, with its channel, its workers and the shutdown of  *)
(* the process, implements this specification.                             *)
(***************************************************************************)

CONSTANTS
  Message,     \* the messages that may be submitted
  Returnable   \* the messages that may be put back, or dropped on the way back

VARIABLES
  pending,     \* accepted, not handed to a worker yet
  active,      \* in a worker's hands
  finished,    \* processed, never to be seen again
  lost         \* could not be put back

wqVars == <<pending, active, finished, lost>>

WQInit == pending = {} /\ active = {} /\ finished = {} /\ lost = {}

Fresh(m) == m \notin pending \cup active \cup finished \cup lost

Accept(m) ==
  /\ Fresh(m)
  /\ pending' = pending \cup {m}
  /\ UNCHANGED <<active, finished, lost>>

Take(m) ==
  /\ m \in pending
  /\ pending' = pending \ {m}
  /\ active' = active \cup {m}
  /\ UNCHANGED <<finished, lost>>

Finish(m) ==
  /\ m \in active
  /\ active' = active \ {m}
  /\ finished' = finished \cup {m}
  /\ UNCHANGED <<pending, lost>>

PutBack(m) ==
  /\ m \in active \cap Returnable
  /\ active' = active \ {m}
  /\ pending' = pending \cup {m}
  /\ UNCHANGED <<finished, lost>>

Lose(m) ==
  /\ m \in active \cap Returnable
  /\ active' = active \ {m}
  /\ lost' = lost \cup {m}
  /\ UNCHANGED <<pending, finished>>

WQNext ==
  \E m \in Message : Accept(m) \/ Take(m) \/ Finish(m) \/ PutBack(m) \/ Lose(m)

WQSpec == WQInit /\ [][WQNext]_wqVars
=============================================================================

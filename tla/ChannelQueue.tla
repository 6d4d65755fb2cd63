---------------------------- MODULE ChannelQueue ----------------------------
(***************************************************************************)
(* The in-memory queue (queue/channel.go): a buffered Go channel of        *)
(* messages.  Push is a select with a default branch, so it never blocks;  *)
(* a send on a closed channel panics, also inside a select.  Pop is a      *)
(* plain receive: it blocks on an empty open channel, and a closed channel *)
(* hands out what it still buffers before it reports that it is closed.    *)
(***************************************************************************)
EXTENDS Naturals, Sequences

CONSTANTS
  Message,   \* the messages producers may push
  Cap        \* the channel's capacity, ChannelQueueConfig.Cap

ASSUME CapAssumption == Cap \in Nat \ {0}

VARIABLES
  queueCh,   \* the channel's buffer
  closed     \* whether close(queueCh) was called

queueVars == <<queueCh, closed>>

QueueTypeOK ==
  /\ queueCh \in Seq(Message)
  /\ Len(queueCh) <= Cap
  /\ closed \in BOOLEAN

QueueInit == queueCh = <<>> /\ closed = FALSE

Buffered == {queueCh[i] : i \in DOMAIN queueCh}

FaultyHasRoom == Len(queueCh) <= Cap   \* variant: off by one
HasRoom == Len(queueCh) < Cap

\* The three ways a Push can end: the message is buffered, the default branch
\* returns an error, or the send panics because the queue was closed.
PushAccepts(m) ==
  /\ ~closed /\ HasRoom
  /\ queueCh' = Append(queueCh, m)
  /\ UNCHANGED closed

PushRefuses == ~closed /\ ~HasRoom /\ UNCHANGED queueVars

PushPanics == closed /\ UNCHANGED queueVars

\* The two ways a Pop can end; it is disabled while the caller would block.
FaultyPopDelivers(m) ==                \* variant: the message stays buffered
  queueCh # <<>> /\ m = Head(queueCh) /\ UNCHANGED queueVars
PopDelivers(m) ==
  /\ queueCh # <<>>
  /\ m = Head(queueCh)
  /\ queueCh' = Tail(queueCh)
  /\ UNCHANGED closed

FaultyPopFails ==                      \* variant: a default branch, as in Push
  queueCh = <<>> /\ UNCHANGED queueVars
PopFails == closed /\ queueCh = <<>> /\ UNCHANGED queueVars

\* main calls Close once.
FaultyQueueClose == UNCHANGED queueVars   \* variant: Close forgets close()
QueueClose == ~closed /\ closed' = TRUE /\ UNCHANGED queueCh
=============================================================================

------------------------------ MODULE Consumer ------------------------------
(***************************************************************************)
(* The path of a message through the process: a Build handler pushes it    *)
(* (server/web, server/grpc), a worker goroutine of the consumer pops it   *)
(* and hands it to the processor (consumer/consumer.go), and main shuts    *)
(* everything down on a signal (cmd/main/main.go).                         *)
(*                                                                         *)
(* What the processor does with a message is one step here, RunFinishes or *)
(* RunAsksRetry; the Processor module opens it, its crashes included.      *)
(***************************************************************************)
EXTENDS ChannelQueue

CONSTANTS
  Worker,      \* the consumer's goroutines, maxConcurrency of them
  Grpc,        \* the messages submitted over gRPC; the others come by HTTP
  Malformed,   \* the messages whose Data is no *v1.Pipeline: Run asks to retry.
               \* Today's two handlers make none; the worker is written for them
  Empty,       \* the Build requests that carry no pipeline at all
  NoMsg        \* a worker that holds no message

ASSUME ConsumerAssumption ==
  /\ Grpc \subseteq Message
  /\ Malformed \subseteq Message
  /\ Empty \subseteq Message
  /\ NoMsg \notin Message

VARIABLES
  main,      \* where main is: serving, or how far the shutdown has got
  srv,       \* the state of each of the two servers
  req,       \* the Build request of each message
  pc,        \* where each worker goroutine is
  msg,       \* the message each worker holds
  done,      \* history: messages whose Run returned without asking to retry
  dropped,   \* history: messages whose second Push was refused
  lateRuns   \* history: how many runs each worker began after the cancellation

vars == <<queueCh, closed, main, srv, req, pc, msg, done, dropped, lateRuns>>
workerVars == <<pc, msg, done, dropped, lateRuns>>

Server == {"web", "grpc"}

TypeOK ==
  /\ QueueTypeOK
  /\ main \in {"running", "canceled", "waiting", "exited", "crashed"}
  /\ srv \in [Server -> {"up", "draining", "down"}]
  /\ req \in [Message -> {"none", "handling", "accepted", "refused", "panicked"}]
  /\ pc \in [Worker -> {"loop", "pop", "run", "retry", "exited"}]
  /\ msg \in [Worker -> Message \cup {NoMsg}]
  /\ done \subseteq Message
  /\ dropped \subseteq Message
  /\ lateRuns \in [Worker -> Nat]

Init ==
  /\ QueueInit
  /\ main = "running"
  /\ srv = [s \in Server |-> "up"]
  /\ req = [m \in Message |-> "none"]
  /\ pc = [w \in Worker |-> "loop"]
  /\ msg = [w \in Worker |-> NoMsg]
  /\ done = {} /\ dropped = {}
  /\ lateRuns = [w \in Worker |-> 0]

\* The root context: canceled by main's shutdown, never before it.
CtxDone == main \in {"canceled", "waiting", "exited"}

-----------------------------------------------------------------------------
(* The Build handlers. *)

Front(m) == IF m \in Grpc THEN "grpc" ELSE "web"

Handling(s) == {m \in Message : req[m] = "handling" /\ Front(m) = s}

\* A Build request arrives while its server accepts requests; the handler gives
\* the pipeline a fresh uuid, so no message is submitted twice.
ReceiveBuild(m) ==
  /\ req[m] = "none"
  /\ srv[Front(m)] = "up"
  /\ req' = [req EXCEPT ![m] = "handling"]
  /\ UNCHANGED <<queueVars, main, srv, workerVars>>

\* Validate refuses it over HTTP; the gRPC handler dereferences the nil pipeline.
EmptyBuild(m) ==
  /\ req[m] = "handling"
  /\ IF m \in Grpc
     THEN main' = "crashed" /\ UNCHANGED req
     ELSE req' = [req EXCEPT ![m] = "refused"] /\ UNCHANGED main
  /\ UNCHANGED <<queueVars, srv, workerVars>>

BuildAccepted(m) ==
  /\ req[m] = "handling"
  /\ PushAccepts(m)
  /\ req' = [req EXCEPT ![m] = "accepted"]
  /\ UNCHANGED <<main, srv, workerVars>>

BuildRefused(m) ==
  /\ req[m] = "handling"
  /\ PushRefuses
  /\ req' = [req EXCEPT ![m] = "refused"]
  /\ UNCHANGED <<main, srv, workerVars>>

\* gin.Default() installs a recovery handler; the gRPC server has none.
FaultyRecovered(m) == FALSE            \* variant: gin.New() without Recovery
Recovered(m) == m \notin Grpc

BuildPanics(m) ==
  /\ req[m] = "handling"
  /\ PushPanics
  /\ IF Recovered(m)
     THEN req' = [req EXCEPT ![m] = "panicked"] /\ UNCHANGED main
     ELSE main' = "crashed" /\ UNCHANGED req
  /\ UNCHANGED <<srv, workerVars>>

HandleBuild(m) ==
  \/ m \in Empty /\ EmptyBuild(m)
  \/ m \notin Empty /\ (BuildAccepted(m) \/ BuildRefused(m) \/ BuildPanics(m))

-----------------------------------------------------------------------------
(* The worker goroutines of MultiWorkerConsumer.Consume. *)

Goto(w, l) == pc' = [pc EXCEPT ![w] = l]

\* select: the root context first, otherwise on to Pop.
FaultyCheckContext(w) ==               \* variant: the context is not consulted
  /\ pc[w] = "loop"
  /\ Goto(w, "pop")
  /\ UNCHANGED <<queueVars, main, srv, req, msg, done, dropped, lateRuns>>
CheckContext(w) ==
  /\ pc[w] = "loop"
  /\ Goto(w, IF CtxDone THEN "exited" ELSE "pop")
  /\ UNCHANGED <<queueVars, main, srv, req, msg, done, dropped, lateRuns>>

PopMessage(w) ==
  /\ pc[w] = "pop"
  /\ \E m \in Message : PopDelivers(m) /\ msg' = [msg EXCEPT ![w] = m]
  /\ Goto(w, "run")
  /\ lateRuns' = IF CtxDone THEN [lateRuns EXCEPT ![w] = @ + 1] ELSE lateRuns
  /\ UNCHANGED <<main, srv, req, done, dropped>>

PopClosed(w) ==
  /\ pc[w] = "pop"
  /\ PopFails
  /\ Goto(w, "exited")
  /\ UNCHANGED <<main, srv, req, msg, done, dropped, lateRuns>>

\* PipeLineProcessor.Run's answer: retry only what it cannot read as a pipeline.
FaultyWantsRetry(m) == TRUE            \* variant: a failed pipeline is retried
WantsRetry(m) == m \in Malformed

RunAsksRetry(w) ==
  /\ pc[w] = "run" /\ WantsRetry(msg[w])
  /\ Goto(w, "retry")
  /\ UNCHANGED <<queueVars, main, srv, req, msg, done, dropped, lateRuns>>

RunFinishes(w) ==
  /\ pc[w] = "run" /\ ~WantsRetry(msg[w])
  /\ Goto(w, "loop")
  /\ done' = done \cup {msg[w]}
  /\ msg' = [msg EXCEPT ![w] = NoMsg]
  /\ UNCHANGED <<queueVars, main, srv, req, dropped, lateRuns>>

Requeue(w) ==
  /\ pc[w] = "retry"
  /\ PushAccepts(msg[w])
  /\ Goto(w, "loop")
  /\ msg' = [msg EXCEPT ![w] = NoMsg]
  /\ UNCHANGED <<main, srv, req, done, dropped, lateRuns>>

\* The refused message is logged and forgotten.
RequeueRefused(w) ==
  /\ pc[w] = "retry"
  /\ PushRefuses
  /\ Goto(w, "loop")
  /\ dropped' = dropped \cup {msg[w]}
  /\ msg' = [msg EXCEPT ![w] = NoMsg]
  /\ UNCHANGED <<main, srv, req, done, lateRuns>>

\* Nothing in a worker recovers: the panic ends the process.
RequeuePanics(w) ==
  /\ pc[w] = "retry"
  /\ PushPanics
  /\ main' = "crashed"
  /\ UNCHANGED <<srv, req, workerVars>>

WorkerStep(w) ==
  \/ CheckContext(w)
  \/ PopMessage(w) \/ PopClosed(w)
  \/ RunAsksRetry(w) \/ RunFinishes(w)
  \/ Requeue(w) \/ RequeueRefused(w) \/ RequeuePanics(w)

-----------------------------------------------------------------------------
(* main and the two servers. *)

\* The signal is received and cancel() called.
Cancel ==
  /\ main = "running"
  /\ main' = "canceled"
  /\ UNCHANGED <<queueVars, srv, req, workerVars>>

CloseQueue ==
  /\ main = "canceled"
  /\ main' = "waiting"
  /\ QueueClose
  /\ UNCHANGED <<srv, req, workerVars>>

\* http.Server.Shutdown: ListenAndServe returns at once, handlers in flight go on.
StopWeb ==
  /\ CtxDone /\ srv["web"] = "up"
  /\ srv' = [srv EXCEPT !["web"] = "down"]
  /\ UNCHANGED <<queueVars, main, req, workerVars>>

\* GracefulStop: no new requests; Serve returns when the handlers are through.
DrainGrpc ==
  /\ CtxDone /\ srv["grpc"] = "up"
  /\ srv' = [srv EXCEPT !["grpc"] = "draining"]
  /\ UNCHANGED <<queueVars, main, req, workerVars>>

StopGrpc ==
  /\ srv["grpc"] = "draining" /\ Handling("grpc") = {}
  /\ srv' = [srv EXCEPT !["grpc"] = "down"]
  /\ UNCHANGED <<queueVars, main, req, workerVars>>

\* wg.Wait(): the consumer, which waits for its workers, and both servers.
FaultyAllStopped == \A s \in Server : srv[s] = "down"   \* variant: not the workers
AllStopped ==
  /\ \A w \in Worker : pc[w] = "exited"
  /\ \A s \in Server : srv[s] = "down"

Exit ==
  /\ main = "waiting" /\ AllStopped
  /\ main' = "exited"
  /\ UNCHANGED <<queueVars, srv, req, workerVars>>

Shutdown == CloseQueue \/ StopWeb \/ DrainGrpc \/ StopGrpc \/ Exit

-----------------------------------------------------------------------------
Alive == main \notin {"exited", "crashed"}

Next ==
  /\ Alive
  /\ \/ \E m \in Message : ReceiveBuild(m) \/ HandleBuild(m)
     \/ \E w \in Worker : WorkerStep(w)
     \/ Cancel \/ Shutdown

Spec == Init /\ [][Next]_vars

(***************************************************************************)
(* Goroutines that can move do move; Run returns because its flows are     *)
(* under timeouts.  Clients need not submit anything, and the signal need  *)
(* never come.                                                             *)
(***************************************************************************)
Fairness ==
  /\ \A w \in Worker : WF_vars(Alive /\ WorkerStep(w))
  /\ \A m \in Message : WF_vars(Alive /\ HandleBuild(m))
  /\ WF_vars(Alive /\ Shutdown)

FairSpec == Spec /\ Fairness

-----------------------------------------------------------------------------
(* Properties. *)

Held == {msg[w] : w \in Worker} \ {NoMsg}

Accepted == {m \in Message : req[m] = "accepted"}

\* Every message whose Push succeeded is in exactly one place - the channel,
\* one worker's hands, the finished ones, the dropped ones - and at one
\* position of it, whatever the workers, the requeueing and the shutdown do.
OnePlace ==
  /\ Accepted = Buffered \cup Held \cup done \cup dropped
  /\ Buffered \cap Held = {} /\ Buffered \cap (done \cup dropped) = {}
  /\ Held \cap (done \cup dropped) = {} /\ done \cap dropped = {}
  /\ \A i, j \in DOMAIN queueCh : queueCh[i] = queueCh[j] => i = j
  /\ \A v, w \in Worker : msg[v] = msg[w] /\ msg[v] # NoMsg => v = w

\* On a message's path the process dies only of a gRPC request without a pipeline,
\* or when a Push meets the closed queue: a gRPC request that was still in its
\* handler, or a worker putting a message back.
CrashCause ==
  main = "crashed" =>
    \/ Handling("grpc") \cap Empty # {}
    \/ closed /\ Handling("grpc") # {}
    \/ closed /\ \E w \in Worker : pc[w] = "retry"

\* main leaves no build half done: when it exits, what was accepted is finished,
\* dropped by a refused requeue, or was never begun.
ExitLeavesNoRun ==
  main = "exited" => Accepted = Buffered \cup done \cup dropped

\* A shutdown begins at most one more build per worker: the one whose Pop raced
\* the cancellation.  The closed channel would still hand out its whole backlog,
\* and a message put back would come round again; no worker takes a second one.
ShutdownBounded == \A w \in Worker : lateRuns[w] <= 1

\* Queue, workers and shutdown implement the abstract work queue.
WQ == INSTANCE WorkQueue WITH
        Returnable <- Malformed,
        pending <- Buffered, active <- Held, finished <- done, lost <- dropped

ImplementsWorkQueue == WQ!WQSpec

\* An accepted build is eventually processed, unless a shutdown begins.
AcceptedIsServed ==
  \A m \in Message \ Malformed :
    req[m] = "accepted" ~> m \in done \/ main # "running"

\* A shutdown always ends: no goroutine main waits for stays blocked.
ShutdownCompletes == main # "running" ~> ~Alive
=============================================================================

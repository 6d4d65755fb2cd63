------------------------------- MODULE Startup -------------------------------
(***************************************************************************)
(* How the process comes up and is told to go (cmd/main/main.go): the      *)
(* command line and its flags, the construction of the parts, the server   *)
(* goroutines that open their ports while main goes on, and the signal     *)
(* that ends it.                                                           *)
(*                                                                         *)
(* What the parts do once they run, and how they stop, is Consumer's.      *)
(***************************************************************************)
EXTENDS Naturals, FiniteSets

CONSTANTS
  Undefined,   \* flags that no part of the program defines
  MaxGiven,    \* bound: flags on the command line
  MaxSignals   \* bound: signals sent to the process

ASSUME StartupAssumption == MaxGiven \in Nat /\ MaxSignals \in Nat

VARIABLES
  given,    \* the flags on the command line
  busy,     \* the ports that cannot be opened
  pc,       \* where main is
  defined,  \* the flags that have been defined
  taken,    \* those whose value comes from the command line
  grpc,     \* the goroutine of the gRPC server
  web,      \* the goroutine of the HTTP server
  done,     \* the root context is canceled
  signals,  \* how many signals were sent
  lost,     \* how many of them had no effect
  exit      \* how the process ended

flagVars == <<given, defined, taken>>
serverVars == <<busy, grpc, web>>
signalVars == <<signals, lost>>
vars == <<flagVars, serverVars, signalVars, pc, done, exit>>

ConfigFlags == {"env", "http-port", "rpc-port", "work-dir", "queue-type",
                "max-concurrency-of-consumer"}
QueueFlags == {"queue-cap"}
Documented == ConfigFlags \cup QueueFlags

Ports == {"rpc-port", "http-port"}

Init ==
  /\ given \in {G \in SUBSET (Documented \cup Undefined) : Cardinality(G) <= MaxGiven}
  /\ busy \in SUBSET Ports
  /\ pc = "parse" /\ defined = {} /\ taken = {}
  /\ grpc = "none" /\ web = "none" /\ done = FALSE
  /\ signals = 0 /\ lost = 0 /\ exit = "running"

-----------------------------------------------------------------------------
(* main. *)

Panic == exit' = "panic" /\ UNCHANGED pc

\* flag.Parse ends the process at the first flag that is not defined yet.
ParseFlags ==
  /\ pc = "parse"
  /\ \/ given \subseteq defined /\ taken' = given /\ pc' = "config" /\ UNCHANGED exit
     \/ ~(given \subseteq defined) /\ exit' = "usage" /\ UNCHANGED <<taken, pc>>
  /\ UNCHANGED <<given, defined, serverVars, signalVars, done>>

\* Config.Parse: each flag it defines gets its default.
ConfigParse ==
  /\ pc = "config" /\ pc' = "logger"
  /\ defined' = defined \cup ConfigFlags
  /\ UNCHANGED <<given, taken, serverVars, signalVars, done, exit>>

InitLogger ==
  /\ pc = "logger" /\ ((pc' = "queue" /\ UNCHANGED exit) \/ Panic)
  /\ UNCHANGED <<flagVars, serverVars, signalVars, done>>

\* NewQueueByType: only a type or a capacity that was asked for can be refused.
NewQueue ==
  /\ pc = "queue" /\ pc' = "docker" /\ defined' = defined \cup QueueFlags
  /\ exit' \in IF taken \cap {"queue-type", "queue-cap"} = {} THEN {"running"}
               ELSE {"running", "panic"}
  /\ UNCHANGED <<given, taken, serverVars, signalVars, done>>

NewDockerClient ==
  /\ pc = "docker" /\ ((pc' = "grpc" /\ UNCHANGED exit) \/ Panic)
  /\ UNCHANGED <<flagVars, serverVars, signalVars, done>>

\* The consumer's goroutine and that of the gRPC server.
GoGrpc ==
  /\ pc = "grpc" /\ pc' = "web" /\ grpc' = "starting"
  /\ UNCHANGED <<flagVars, busy, web, signalVars, done, exit>>

GoWeb ==
  /\ pc = "web" /\ pc' = "notify" /\ web' = "starting"
  /\ UNCHANGED <<flagVars, busy, grpc, signalVars, done, exit>>

Notify ==
  /\ pc = "notify" /\ pc' = "armed"
  /\ UNCHANGED <<flagVars, serverVars, signalVars, done, exit>>

Receive ==
  /\ pc = "armed" /\ pc' = "receive"
  /\ UNCHANGED <<flagVars, serverVars, signalVars, done, exit>>

FaultyCancelRoot ==                \* variant: cancel is left to main's end
  /\ pc = "cancel" /\ pc' = "wait"
  /\ UNCHANGED <<flagVars, serverVars, signalVars, done, exit>>
CancelRoot ==
  /\ pc = "cancel" /\ pc' = "wait" /\ done' = TRUE
  /\ UNCHANGED <<flagVars, serverVars, signalVars, exit>>

\* wg.Wait also waits for the consumer, which may take for ever.
Return ==
  /\ pc = "wait" /\ grpc = "stopped" /\ web = "stopped" /\ exit' = "ok"
  /\ UNCHANGED <<flagVars, serverVars, signalVars, pc, done>>

Main ==
  \/ ParseFlags \/ ConfigParse \/ InitLogger \/ NewQueue \/ NewDockerClient
  \/ GoGrpc \/ GoWeb \/ Notify \/ Receive \/ CancelRoot

-----------------------------------------------------------------------------
(* The servers. *)

FaultyGrpcListens ==               \* variant: the error is only logged
  /\ grpc = "starting" /\ grpc' = IF "rpc-port" \in busy THEN "stopped" ELSE "listening"
  /\ UNCHANGED <<flagVars, busy, web, signalVars, pc, done, exit>>
\* A server that cannot open its port makes its goroutine panic, and the process ends.
GrpcListens ==
  /\ grpc = "starting"
  /\ IF "rpc-port" \in busy THEN Panic /\ UNCHANGED grpc
     ELSE grpc' = "listening" /\ UNCHANGED <<pc, exit>>
  /\ UNCHANGED <<flagVars, busy, web, signalVars, done>>

\* http.Server does not open its port once it has been shut down.
WebListens ==
  /\ web = "starting"
  /\ \/ done /\ web' = "stopped" /\ UNCHANGED <<pc, exit>>
     \/ IF "http-port" \in busy THEN Panic /\ UNCHANGED web
        ELSE web' = "listening" /\ UNCHANGED <<pc, exit>>
  /\ UNCHANGED <<flagVars, busy, grpc, signalVars, done>>

GrpcStops ==
  /\ grpc = "listening" /\ done /\ grpc' = "stopped"
  /\ UNCHANGED <<flagVars, busy, web, signalVars, pc, done, exit>>

WebStops ==
  /\ web = "listening" /\ done /\ web' = "stopped"
  /\ UNCHANGED <<flagVars, busy, grpc, signalVars, pc, done, exit>>

\* SIGINT or SIGTERM.  Before signal.Notify it kills the process; after it, it goes to
\* a channel without a buffer: if main is not receiving it is dropped.
Signal ==
  /\ signals < MaxSignals /\ signals' = signals + 1
  /\ CASE pc = "receive" -> pc' = "cancel" /\ UNCHANGED <<lost, exit>>
       [] pc \in {"armed", "cancel", "wait"} -> lost' = lost + 1 /\ UNCHANGED <<pc, exit>>
       [] OTHER -> exit' = "killed" /\ UNCHANGED <<pc, lost>>
  /\ UNCHANGED <<flagVars, serverVars, done>>

Next ==
  /\ exit = "running"
  /\ Main \/ Return \/ Signal \/ GrpcListens \/ WebListens \/ GrpcStops \/ WebStops

Spec == Init /\ [][Next]_vars

\* Go runs every goroutine that can go on; nobody has to send a signal.
Fairness ==
  /\ WF_vars(exit = "running" /\ Main)
  /\ WF_vars(exit = "running" /\ GrpcListens)
  /\ WF_vars(exit = "running" /\ WebListens)

FairSpec == Spec /\ Fairness

-----------------------------------------------------------------------------
(* Properties. *)

\* A process that lacks one of its ports does not go on with the other: unless it is
\* stopping by then it ends.
NoHalfService == busy # {} ~> exit # "running" \/ done

\* Whatever main and the servers are at when a signal comes, it ends the process or
\* cancels the root context.  The exception are signals for which main is not
\* receiving: between Notify and the receive one is lost and the process serves on,
\* behind the receive it is ignored.
SignalEnds == signals > lost ~> exit # "running" \/ done
=============================================================================

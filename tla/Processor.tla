----------------------------- MODULE Processor -----------------------------
(***************************************************************************)
(* The pipeline processor (processor/processor.go): Run executes one build *)
(* flow by flow in a worker goroutine, while client requests read, stop    *)
(* and delete builds through the shared registry progressMp.               *)
(*                                                                         *)
(* A registry entry is a PipelineRunEntity, a small struct whose Progress  *)
(* is a pointer.  Only two entities exist per build: the one InitPipeline  *)
(* stores ("init": Created, no directory, a nil CancelFunc) and the one    *)
(* Run stores ("run"), whose Progress Run goes on changing in place.  What *)
(* a client sees of a stored "run" entity is therefore Run's own state.    *)
(*                                                                         *)
(* Each build is begun at most once: the Consumer module's guarantee.      *)
(***************************************************************************)
EXTENDS Naturals, Sequences, RunnerResults

CONSTANTS
  Build,      \* the pipelines submitted, by uid
  Web,        \* those submitted over HTTP, whose handler calls InitPipeline
  Pipelines,  \* the flow lists a client may submit, sequences of Kind
  Handler,    \* the goroutines that serve client requests
  NoReq       \* a handler without a request

ASSUME ProcessorAssumption ==
  /\ Web \subseteq Build
  /\ Pipelines \subseteq Seq(Kind)

VARIABLES
  \* shared
  progressMp,  \* the registry: which entity each build has
  rootDone,    \* the root context is canceled
  crashed,     \* the process ended in the middle of its work
  \* one build's Run
  initDue,     \* web builds pushed, InitPipeline still to be called
  pc,          \* where the build's Run is
  flows,       \* the pipeline's flow list
  status,      \* Progress.Status
  flowSt,      \* the Status of each FlowProgress
  env,         \* CI_BUILD_STATUS in the process environment
  jobCtx,      \* the build's context, with PipelineTimeout
  flowCtx,     \* the current flow's context, with FlowTimeout
  work,        \* <job dir>/workspace exists
  data,        \* <job dir>/data exists
  \* one request handler
  hpc,         \* where the handler is
  hreq,        \* the request it serves
  hent         \* the entity it loaded

buildVars == <<initDue, pc, flows, status, flowSt, env>>
ctxVars == <<jobCtx, flowCtx>>
dirVars == <<work, data>>
handlerVars == <<hpc, hreq, hent>>
vars == <<progressMp, rootDone, crashed, buildVars, ctxVars, dirVars, handlerVars>>

Terminal == {"Succeed", "Failed", "Canceled"}
FlowStatus == Terminal \cup {"Running"}
Status == {"none", "Started"} \cup FlowStatus
EnvStatus == {"none", "success", "failed"}
Via == {"web", "grpc"}
Request == [op : {"stop", "delete", "progress"}, build : Build, via : Via]
RunPc == {"new", "queued", "mkwork", "mkdata", "mklog", "ready", "next",
          "flow", "lateflow", "verdict", "cleanup", "returned"}

TypeOK ==
  /\ progressMp \in [Build -> {"none", "init", "run"}]
  /\ rootDone \in BOOLEAN /\ crashed \in BOOLEAN
  /\ initDue \subseteq Web
  /\ pc \in [Build -> RunPc]
  /\ flows \in [Build -> Seq(Kind)]
  /\ status \in [Build -> Status]
  /\ flowSt \in [Build -> Seq(FlowStatus)]
  /\ env \in [Build -> EnvStatus]
  /\ jobCtx \in [Build -> {"live", "canceled", "expired", "released"}]
  /\ flowCtx \in [Build -> {"live", "canceled", "expired"}]
  /\ work \in [Build -> BOOLEAN] /\ data \in [Build -> BOOLEAN]
  /\ hpc \in [Handler -> {"idle", "load", "cancel", "remove", "forget", "marshal"}]
  /\ hreq \in [Handler -> Request \cup {NoReq}]
  /\ \A h \in Handler : hpc[h] # "idle" => hreq[h] \in Request
  /\ hent \in [Handler -> {"none", "init", "run"}]

Init ==
  /\ progressMp = [b \in Build |-> "none"]
  /\ rootDone = FALSE /\ crashed = FALSE
  /\ initDue = {}
  /\ pc = [b \in Build |-> "new"]
  /\ flows = [b \in Build |-> <<>>]
  /\ status = [b \in Build |-> "none"]
  /\ flowSt = [b \in Build |-> <<>>]
  /\ env = [b \in Build |-> "none"]
  /\ jobCtx = [b \in Build |-> "live"]
  /\ flowCtx = [b \in Build |-> "live"]
  /\ work = [b \in Build |-> FALSE] /\ data = [b \in Build |-> FALSE]
  /\ hpc = [h \in Handler |-> "idle"]
  /\ hreq = [h \in Handler |-> NoReq]
  /\ hent = [h \in Handler |-> "none"]

-----------------------------------------------------------------------------
(* Contexts.  A context keeps the first reason it ended for, and a parent's *)
(* end reaches its children.                                                *)

InFlow(b) == pc[b] \in {"flow", "lateflow"}

Active(b) == pc[b] \notin {"new", "queued", "returned"}

EndCtx(why, ctx) == IF ctx = "live" THEN why ELSE ctx

EndBuilds(why, B) ==
  /\ jobCtx' = [b \in Build |-> IF b \in B THEN EndCtx(why, jobCtx[b]) ELSE jobCtx[b]]
  /\ flowCtx' = [b \in Build |-> IF b \in B /\ InFlow(b)
                                 THEN EndCtx(why, flowCtx[b]) ELSE flowCtx[b]]

\* main's cancel(): every job context is a child of the root context.
CancelRoot ==
  /\ ~rootDone /\ rootDone' = TRUE
  /\ EndBuilds("canceled", {b \in Build : Active(b)})
  /\ UNCHANGED <<progressMp, crashed, buildVars, dirVars, handlerVars>>

PipelineTimeout(b) ==
  /\ Active(b) /\ jobCtx[b] = "live"
  /\ EndBuilds("expired", {b})
  /\ UNCHANGED <<progressMp, rootDone, crashed, buildVars, dirVars, handlerVars>>

FaultyFlowTimeout(b) == FALSE      \* variant: flows run under the job's context
FlowTimeout(b) ==
  /\ InFlow(b) /\ flowCtx[b] = "live"
  /\ flowCtx' = [flowCtx EXCEPT ![b] = "expired"]
  /\ UNCHANGED <<progressMp, rootDone, crashed, buildVars, jobCtx, dirVars, handlerVars>>

-----------------------------------------------------------------------------
(* Submitting a build. *)

\* A Build handler pushes the pipeline; its params may preset CI_BUILD_STATUS.
Submit(b) ==
  /\ pc[b] = "new"
  /\ pc' = [pc EXCEPT ![b] = "queued"]
  /\ \E fs \in Pipelines : flows' = [flows EXCEPT ![b] = fs]
  /\ \E e \in EnvStatus : env' = [env EXCEPT ![b] = e]
  /\ initDue' = IF b \in Web THEN initDue \cup {b} ELSE initDue
  /\ UNCHANGED <<progressMp, rootDone, crashed, status, flowSt, ctxVars, dirVars, handlerVars>>

\* The HTTP handler registers the build only after the Push.
InitPipeline(b) ==
  /\ b \in initDue
  /\ initDue' = initDue \ {b}
  /\ progressMp' = [progressMp EXCEPT ![b] = "init"]
  /\ UNCHANGED <<rootDone, crashed, pc, flows, status, flowSt, env, ctxVars, dirVars, handlerVars>>

-----------------------------------------------------------------------------
(* Run. *)

Goto(b, l) == pc' = [pc EXCEPT ![b] = l]

SetStatus(b, st) == status' = [status EXCEPT ![b] = st]

\* updatePipelineRunEntity(job.Uid, runEntity)
Store(b) == progressMp' = [progressMp EXCEPT ![b] = "run"]

runFrame == <<rootDone, crashed, initDue, flows, handlerVars>>

BeginRun(b) ==
  /\ pc[b] = "queued" /\ Goto(b, "mkwork")
  /\ SetStatus(b, "Started") /\ Store(b)
  /\ jobCtx' = [jobCtx EXCEPT ![b] = IF rootDone THEN "canceled" ELSE "live"]
  /\ UNCHANGED <<runFrame, flowSt, env, flowCtx, dirVars>>

MakeWorkDir(b) ==
  /\ pc[b] = "mkwork"
  /\ \/ Goto(b, "mkdata") /\ work' = [work EXCEPT ![b] = TRUE]
     \/ Goto(b, "cleanup") /\ UNCHANGED work
  /\ UNCHANGED <<progressMp, runFrame, status, flowSt, env, ctxVars, data>>

FaultyMakeDataDir(b) ==            \* variant: the defer that removes it comes later
  /\ pc[b] = "mkdata"
  /\ \/ Goto(b, "mklog") /\ data' = [data EXCEPT ![b] = TRUE]
     \/ Goto(b, "returned") /\ UNCHANGED data
  /\ UNCHANGED <<progressMp, runFrame, status, flowSt, env, ctxVars, work>>
MakeDataDir(b) ==
  /\ pc[b] = "mkdata"
  /\ \/ Goto(b, "mklog") /\ data' = [data EXCEPT ![b] = TRUE]
     \/ Goto(b, "cleanup") /\ UNCHANGED data
  /\ UNCHANGED <<progressMp, runFrame, status, flowSt, env, ctxVars, work>>

\* os.Create needs the data directory, which a Delete may have removed again.
CreateLog(b) ==
  /\ pc[b] = "mklog"
  /\ \/ data[b] /\ Goto(b, "ready")
     \/ Goto(b, "cleanup")
  /\ UNCHANGED <<progressMp, runFrame, status, flowSt, env, ctxVars, dirVars>>

\* A pipeline without flows returns here and stays Running.
EnterRunning(b) ==
  /\ pc[b] = "ready"
  /\ SetStatus(b, "Running") /\ Store(b)
  /\ Goto(b, IF flows[b] = <<>> THEN "cleanup" ELSE "next")
  /\ UNCHANGED <<runFrame, flowSt, env, ctxVars, dirVars>>

FaultyStartFlow(b) ==              \* variant: each flow starts the status over
  /\ pc[b] = "next"
  /\ flowSt' = [flowSt EXCEPT ![b] = Append(@, "Running")]
  /\ SetStatus(b, "Started") /\ Store(b)
  /\ flowCtx' = [flowCtx EXCEPT ![b] = jobCtx[b]]
  /\ Goto(b, IF jobCtx[b] = "live" THEN "flow" ELSE "lateflow")
  /\ UNCHANGED <<runFrame, env, jobCtx, dirVars>>
StartFlow(b) ==
  /\ pc[b] = "next"
  /\ flowSt' = [flowSt EXCEPT ![b] = Append(@, "Running")]
  /\ SetStatus(b, "Running") /\ Store(b)
  /\ flowCtx' = [flowCtx EXCEPT ![b] = jobCtx[b]]
  /\ Goto(b, IF jobCtx[b] = "live" THEN "flow" ELSE "lateflow")
  /\ UNCHANGED <<runFrame, env, jobCtx, dirVars>>

CurrentKind(b) == flows[b][Len(flowSt[b])]

\* A Lua script is running: it may write the environment and, with every library of
\* Lua opened to it, use the files of the host and the process itself.
LuaRunning(b) == pc[b] = "flow" /\ CurrentKind(b) = "Lua"

\* setEnv or fail called by the script.
LuaSetsStatus(b) ==
  /\ LuaRunning(b)
  /\ \E e \in EnvStatus : env' = [env EXCEPT ![b] = e]
  /\ UNCHANGED <<progressMp, runFrame, pc, status, flowSt, ctxVars, dirVars>>

\* The script calls os.exit, or makes jsonMarshal follow a table that contains
\* itself until the stack overflows, which no recover catches: no deferred call is made.
LuaEndsProcess(b) ==
  /\ LuaRunning(b)
  /\ crashed' = TRUE
  /\ UNCHANGED <<progressMp, rootDone, buildVars, ctxVars, dirVars, handlerVars>>

-----------------------------------------------------------------------------
(* How a flow's result is taken. *)

\* A clone or a docker build makes the workspace anew where a client has deleted
\* it; a docker build that got as far as its context removes it in the end.  A Lua
\* script does what it likes, unless its context had ended: then it never runs.
WorkLeftBy(kind, late, here) ==
  CASE kind = "Git"           -> {here, TRUE}
    [] kind = "DockerBuild"   -> BOOLEAN
    [] kind = "Lua" /\ ~late  -> BOOLEAN
    [] OTHER                  -> {here}

\* A script that failed the build by the environment fails its flow.
FlowVerdict(result, e) ==
  CASE result = "canceled" -> "Canceled"
    [] result = "error"    -> "Failed"
    [] result = "ok"       -> IF e = "failed" THEN "Failed" ELSE "Succeed"

FaultyEndsLoop(st, e) == e = "success"        \* variant: no break after an error
EndsLoop(st, e) == st # "Succeed" \/ e = "success"

FinishFlow(b) ==
  /\ InFlow(b)
  /\ \E r \in RunFlowResults(CurrentKind(b), pc[b] = "lateflow", flowCtx[b]) :
       LET st == FlowVerdict(r, env[b]) IN
       /\ flowSt' = [flowSt EXCEPT ![b][Len(flowSt[b])] = st]
       /\ Goto(b, IF EndsLoop(st, env[b]) \/ Len(flowSt[b]) = Len(flows[b])
                  THEN "verdict" ELSE "next")
  /\ \E d \in WorkLeftBy(CurrentKind(b), pc[b] = "lateflow", work[b]) :
       work' = [work EXCEPT ![b] = d]
  /\ Store(b)
  /\ UNCHANGED <<runFrame, status, env, ctxVars, data>>

FaultyBad(st) == st = "Failed"     \* variant: Canceled is forgotten
Bad(st) == st \in {"Failed", "Canceled"}

\* The pipeline takes the status of the first flow that failed or was canceled.
Verdict(b) ==
  /\ pc[b] = "verdict" /\ Goto(b, "cleanup")
  /\ \/ /\ \A i \in DOMAIN flowSt[b] : ~Bad(flowSt[b][i])
        /\ SetStatus(b, "Succeed")
     \/ \E i \in DOMAIN flowSt[b] :
          /\ Bad(flowSt[b][i]) /\ \A j \in 1 .. i - 1 : ~Bad(flowSt[b][j])
          /\ SetStatus(b, flowSt[b][i])
  /\ Store(b)
  /\ UNCHANGED <<runFrame, flowSt, env, ctxVars, dirVars>>

\* Run's deferred calls; the workspace is removed with all a client let in it.
Cleanup(b) ==
  /\ pc[b] = "cleanup" /\ Goto(b, "returned")
  /\ work' = [work EXCEPT ![b] = FALSE]
  /\ jobCtx' = [jobCtx EXCEPT ![b] = EndCtx("released", @)]
  /\ UNCHANGED <<progressMp, runFrame, status, flowSt, env, flowCtx, data>>

RunStep(b) ==
  \/ BeginRun(b) \/ MakeWorkDir(b) \/ MakeDataDir(b) \/ CreateLog(b)
  \/ EnterRunning(b) \/ StartFlow(b) \/ Verdict(b) \/ Cleanup(b)

-----------------------------------------------------------------------------
(* Client requests for a build: stop, delete, read the progress.  Both      *)
(* servers serve them, on the one processor.                                *)

serveFrame == <<rootDone, initDue, pc, flows, status, flowSt, env>>

\* A client learns a build's uid from the answer to its Build request.
Answered(b) == pc[b] # "new" /\ b \notin initDue

\* The handlers check the form of the uid and call the processor.
ReceiveRequest(h) ==
  /\ hpc[h] = "idle"
  /\ \E r \in Request : Answered(r.build) /\ hreq' = [hreq EXCEPT ![h] = r]
  /\ hpc' = [hpc EXCEPT ![h] = "load"]
  /\ UNCHANGED <<serveFrame, progressMp, crashed, ctxVars, dirVars, hent>>

Answer(h) ==
  /\ hpc' = [hpc EXCEPT ![h] = "idle"]
  /\ hreq' = [hreq EXCEPT ![h] = NoReq]
  /\ hent' = [hent EXCEPT ![h] = "none"]

Proceed(h, l) == hpc' = [hpc EXCEPT ![h] = l] /\ UNCHANGED <<hreq, hent>>

\* progressMp.Load: the handler goes on with its own copy of the entity.
Load(h) ==
  LET found == progressMp[hreq[h].build] IN
  /\ hpc[h] = "load"
  /\ \/ found = "none" /\ Answer(h)
     \/ /\ found # "none"
        /\ hent' = [hent EXCEPT ![h] = found]
        /\ hpc' = [hpc EXCEPT ![h] = IF hreq[h].op = "progress" THEN "marshal" ELSE "cancel"]
        /\ UNCHANGED hreq
  /\ UNCHANGED <<serveFrame, progressMp, crashed, ctxVars, dirVars>>

FaultyCallCancel(h) ==             \* variant: a delete does not cancel
  /\ hpc[h] = "cancel" /\ hent[h] = "run"
  /\ IF hreq[h].op = "stop"
     THEN EndBuilds("canceled", {hreq[h].build}) /\ Answer(h)
     ELSE UNCHANGED ctxVars /\ Proceed(h, "remove")
  /\ UNCHANGED <<serveFrame, progressMp, crashed, dirVars>>

CallCancel(h) ==
  /\ hpc[h] = "cancel" /\ hent[h] = "run"
  /\ EndBuilds("canceled", {hreq[h].build})
  /\ IF hreq[h].op = "stop" THEN Answer(h) ELSE Proceed(h, "remove")
  /\ UNCHANGED <<serveFrame, progressMp, crashed, dirVars>>

FaultyCancelPanics(h) ==           \* variant: gin.New() without Recovery
  /\ hpc[h] = "cancel" /\ hent[h] = "init"
  /\ progressMp' = IF hreq[h].op = "delete"
                   THEN [progressMp EXCEPT ![hreq[h].build] = "none"] ELSE progressMp
  /\ crashed' = TRUE
  /\ UNCHANGED <<serveFrame, ctxVars, dirVars, handlerVars>>

\* The nil CancelFunc of an "init" entity panics.  A delete's deferred calls take
\* the entry out all the same; only the HTTP server recovers.
CancelPanics(h) ==
  /\ hpc[h] = "cancel" /\ hent[h] = "init"
  /\ progressMp' = IF hreq[h].op = "delete"
                   THEN [progressMp EXCEPT ![hreq[h].build] = "none"] ELSE progressMp
  /\ IF hreq[h].via = "web"
     THEN Answer(h) /\ UNCHANGED crashed
     ELSE crashed' = TRUE /\ UNCHANGED handlerVars
  /\ UNCHANGED <<serveFrame, ctxVars, dirVars>>

\* os.RemoveAll(entity.JobDir), then progressMp.Delete: DeletePipeline's defers.
RemoveDir(h) ==
  /\ hpc[h] = "remove" /\ Proceed(h, "forget")
  /\ work' = [work EXCEPT ![hreq[h].build] = FALSE]
  /\ data' = [data EXCEPT ![hreq[h].build] = FALSE]
  /\ UNCHANGED <<serveFrame, progressMp, crashed, ctxVars>>

Forget(h) ==
  /\ hpc[h] = "forget" /\ Answer(h)
  /\ progressMp' = [progressMp EXCEPT ![hreq[h].build] = "none"]
  /\ UNCHANGED <<serveFrame, crashed, ctxVars, dirVars>>

Marshal(h) ==
  /\ hpc[h] = "marshal" /\ Answer(h)
  /\ UNCHANGED <<serveFrame, progressMp, crashed, ctxVars, dirVars>>

\* While Run is in its flows it changes what Progress points to: the slice of flow
\* progresses, strings, in a Lua flow the Env map.
RunWrites(b) == pc[b] \in {"next", "flow", "lateflow", "verdict"}

\* Both entities point to the one pipeline, whose flows these runners render in place.
RunnerRenders(b) == InFlow(b) /\ CurrentKind(b) \in {"Git", "Shell", "DockerBuild"}

\* The build's Run writes what a reader of the entity reads.
SharedWrites(b, entity) ==
  \/ entity = "run" /\ RunWrites(b)
  \/ entity = "init" /\ RunnerRenders(b)

\* The encoder reads all of it without a lock: a torn slice or string, or the
\* runtime's check for concurrent map use, ends the process and nothing recovers.
MarshalRace(h) ==
  /\ hpc[h] = "marshal" /\ SharedWrites(hreq[h].build, hent[h])
  /\ crashed' = TRUE
  /\ UNCHANGED <<serveFrame, progressMp, ctxVars, dirVars, handlerVars>>

Serve(h) ==
  \/ ReceiveRequest(h) \/ Load(h) \/ CallCancel(h) \/ CancelPanics(h)
  \/ RemoveDir(h) \/ Forget(h) \/ Marshal(h) \/ MarshalRace(h)

-----------------------------------------------------------------------------
BuildStep(b) ==
  \/ Submit(b) \/ InitPipeline(b) \/ RunStep(b) \/ FinishFlow(b)
  \/ LuaSetsStatus(b) \/ LuaEndsProcess(b) \/ PipelineTimeout(b) \/ FlowTimeout(b)

Next ==
  /\ ~crashed
  /\ \/ CancelRoot
     \/ \E b \in Build : BuildStep(b)
     \/ \E h \in Handler : Serve(h)

Spec == Init /\ [][Next]_vars

(***************************************************************************)
(* Run goes on, timers fire, and a runner whose context has ended returns; *)
(* one whose context has not may take for ever.  Clients owe nothing.      *)
(***************************************************************************)
Fairness ==
  \A b \in Build :
    /\ WF_vars(~crashed /\ RunStep(b))
    /\ WF_vars(~crashed /\ FlowTimeout(b))
    /\ WF_vars(~crashed /\ flowCtx[b] # "live" /\ FinishFlow(b))

FairSpec == Spec /\ Fairness

-----------------------------------------------------------------------------
(* Properties. *)

\* Flows run one after the other: while a flow runs, or when the next is due,
\* everything before it succeeded, and only the last can have failed.
FlowsInOrder ==
  \A b \in Build :
    /\ Len(flowSt[b]) <= Len(flows[b])
    /\ \A i \in DOMAIN flowSt[b] :
         /\ i < Len(flowSt[b]) => flowSt[b][i] = "Succeed"
         /\ flowSt[b][i] = "Running" => InFlow(b)
    /\ pc[b] = "next" =>
         /\ Len(flowSt[b]) < Len(flows[b])
         /\ \A i \in DOMAIN flowSt[b] : flowSt[b][i] = "Succeed"

\* The status a client reads in the end is the flows' own story: Succeed needs
\* every flow to have run and succeeded, unless a script ended the build early, and
\* no word of failure to stand, wherever it came from: params say it before the
\* first flow.  A build that ran any flow always gets its verdict.
VerdictMatches ==
  \A b \in Build :
    /\ status[b] = "Succeed" =>
         /\ \A i \in DOMAIN flowSt[b] : flowSt[b][i] = "Succeed"
         /\ Len(flowSt[b]) = Len(flows[b]) \/ env[b] = "success"
         /\ env[b] # "failed"
    /\ status[b] \in {"Failed", "Canceled"} =>
         flowSt[b] # <<>> /\ flowSt[b][Len(flowSt[b])] = status[b]
    /\ pc[b] = "returned" /\ flowSt[b] # <<>> => status[b] \in Terminal

\* Canceled is said only of a build that a client or the shutdown canceled before
\* any timeout ended it.
CanceledOnlyByRequest ==
  \A b \in Build : status[b] = "Canceled" => jobCtx[b] = "canceled"

\* However Run returns, and whatever deletes came in between, no workspace is left.
WorkspaceReclaimed ==
  \A b \in Build : pc[b] = "returned" => ~work[b]

\* A build submitted over gRPC that the registry does not list is not running on
\* unnoticed: whoever took the entry out canceled it first.
UnlistedIsStopped ==
  \A b \in Build \ Web :
    progressMp[b] = "none" /\ Active(b) => jobCtx[b] # "live"

\* When the process ends in the middle of its work, a Lua script is running, or a
\* gRPC request cancels a build as InitPipeline registered it, or a progress is read
\* while that build's Run writes what the reader's entity points to.
CrashExplained ==
  crashed =>
    \/ \E b \in Build : LuaRunning(b)
    \/ \E h \in Handler :
         \/ hpc[h] = "cancel" /\ hent[h] = "init"
            /\ hreq[h].via = "grpc" /\ hreq[h].build \in Web
         \/ hpc[h] = "marshal" /\ SharedWrites(hreq[h].build, hent[h])

\* What clients are promised of a build's life, with the registry, the requests, the
\* directories and the flows' contexts left out.
Stage(b) ==
  CASE pc[b] = "new"      -> "new"
    [] pc[b] = "queued"   -> "queued"
    [] pc[b] = "returned" -> "ended"
    [] OTHER              -> "running"

Stages == [b \in Build |-> Stage(b)]
FlowCounts == [b \in Build |-> Len(flows[b])]
Stops == [b \in Build |-> IF jobCtx[b] \in {"canceled", "expired"} THEN jobCtx[b] ELSE "no"]
Verdicts == [b \in Build |-> IF status[b] \in Terminal THEN status[b] ELSE "none"]

BL == INSTANCE BuildLife WITH
        stage <- Stages, total <- FlowCounts, progress <- flowSt, script <- env,
        stop <- Stops, said <- Verdicts, halted <- crashed

ImplementsBuildLife == BL!BLSpec

\* A build whose context ended before a flow started goes on to another flow only
\* past an SVN checkout, which reports success without looking at it.
EndedBuildWindsUp ==
  [][\A b \in Build :
       pc[b] = "lateflow" /\ pc'[b] = "next" => CurrentKind(b) = "Svn"]_vars

View(b) ==
  CASE progressMp[b] = "none" -> "none"
    [] progressMp[b] = "init" -> "Created"
    [] progressMp[b] = "run"  -> status[b]

Rank(st) ==
  CASE st = "Created" -> 0 [] st = "Started" -> 1 [] st = "Running" -> 2 [] OTHER -> 3

\* Once InitPipeline is behind it, what clients read of a build only moves on, and
\* a verdict stays as it is.
ViewMonotone ==
  [][\A b \in Build :
       b \notin initDue /\ View(b) # "none" /\ View(b)' # "none" =>
         /\ Rank(View(b)) <= Rank(View(b)')
         /\ View(b) \in Terminal => View(b)' = View(b)]_vars

\* Every build that has begun returns: no flow outlasts its timeout.
RunEnds == \A b \in Build : Active(b) ~> pc[b] = "returned" \/ crashed

\* "流水线任务删除成功" (server/web/handlers/build.go:115): a build whose Run had
\* stored its entry and that was then deleted stays deleted.
DeletedStaysDeleted ==
  [][\A b \in Build :
       progressMp[b] = "none" /\ Active(b) => progressMp'[b] = "none"]_vars
=============================================================================

# TLA+ specifications of trident-ci

trident-ci is a small CI server. A client submits a *pipeline*, a list of *flows*
(check out code, run a script in a container, build an image, run a Lua script), over
HTTP or gRPC. The request is buffered in an in-memory queue; a fixed number of worker
goroutines take pipelines from the queue and execute them flow by flow; meanwhile
clients ask for a build's progress or log, stop it or delete it. The repository has no
tests. These modules state what the concurrent parts promise, check it with TLC on
small instances, and prove most of the safety part with TLAPS for every instance.

## The system

| component | state | operations | interacts through |
|---|---|---|---|
| channel queue (`queue/`) | a buffered channel, open or closed | `Push`, `Pop`, `Close` | called by handlers, workers, `main` |
| consumer (`consumer/consumer.go`) | one loop per worker goroutine, the message it holds | check the context, `Pop`, run, put back | queue, processor, root context |
| processor (`processor/processor.go`) | the registry `progressMp` (a `sync.Map`), per build its directories, log, context, progress | `InitPipeline`, `Run`, `StopPipeline`, `DeletePipeline`, `GetPipelineProgress`, `GetPipelineLog` | called by workers and by both servers' handlers |
| HTTP server (`server/web/`) | up or shut down; requests in flight | submit, stop, delete, progress, log | queue, processor; recovers panics |
| gRPC server (`server/grpc/`) | up, draining, stopped | `Build`, `GetBuildResult`, `StopBuild`, `DeleteBuild` | queue, processor; does not recover |
| `main` (`cmd/main/main.go`) | how far the shutdown is | wire up, wait for a signal, cancel, close the queue, wait | root context, queue, `WaitGroup` |
| process context (`processor/define/`) | a build's `Env` map | `AppendEnv`, `Fail`, `RenderByEnv` | written by `Run` and Lua scripts, read by all runners |
| SCM runner (`processor/scm/`) | none | clone | workspace, network |
| shell runner (`processor/shell/`) | one container | pull, create, start, follow the log, wait, remove | Docker, workspace |
| docker build runner (`processor/docker_build/`, `build_context/`) | a build context, which *is* the workspace | add Dockerfile, build, push, close | Docker, workspace |
| Lua runner (`processor/lua/`) | a VM, a pool of VMs | run a script, the `common` module | process context |
| job logger (`processor/logger/`) | a partial line | `Write`, `ReadFrom` | the runners' output |
| configuration (`config/`, `queue/channel.go`) | flags | `Parse` | start-up |

### What is hard here

* A build's progress is one struct that `Run` changes in place while clients read it
  through the registry; the registry itself stores small entities by value, so an
  update by `Run` can put back what a client has just deleted, and `InitPipeline`,
  called *after* the `Push`, can overwrite what a fast worker has already stored.
* An entity stored by `InitPipeline` has a nil `CancelFunc`; whether the panic it
  causes ends the process depends on which server serves the request.
* A flow can end because it is done, it failed, the flow's or the pipeline's timeout
  fired, a client stopped or deleted the build, or the process shuts down, in any
  order and combination. Whether the build is then `Canceled` or `Failed` depends on
  the error that each runner makes of it.
* A shutdown closes the queue while handlers and workers may still push.
* A delete removes directories a running build works in, and the log a client reads.
* Each request to the Docker daemon can fail, reach the daemon and fail, or be cut off by the
  context; a pull, a build and a push report their failure in a stream, after the request
  has succeeded. Deferred calls run under the same context.
* Flows of a build share one directory: a clone wants it without a repository, a shell flow
  wants it there, a docker build takes it away.
* VMs are handed to scripts of different builds; a module once loaded in a VM keeps the build
  it was loaded for.
* Flags, servers and the signal handler come up in an order of their own.

### What makes each component correct

* Queue and consumer: an accepted build is run once, never lost or doubled, except that a
  message nobody can read may come back or be dropped; a shutdown ends, and leaves no
  build half done, and begins at most one more build per worker.
* Processor: flows run in order and stop at the first that fails; the final status is
  what the flows came to; it says `Canceled` only if someone asked for it; no workspace
  is left behind; the status a client reads only moves forward; a build that is no
  longer listed is not running on; the process survives what clients do, or it is known
  exactly when it does not; every build ends.
* Runners: each returns once its context has ended, never with success if it had ended
  before, and with a cancellation only if there was one; what outlives the call (container,
  script file, workspace) has a reason; success means that the work was done; the workspace a
  flow leaves is the one the next flow expects.
* VM pool: scripts that run at the same time have VMs of their own, and write the
  environment of their own build.
* Process context: a text is rendered once, with what the environment holds when its flow
  starts, unless the flow has `NoEnvRender`.
* JSON of the Lua module: what a script can put as JSON comes back as it was; only a table
  that is a list, or empty, or that has a number which is not finite, cannot be read back.
* Job logger and log: text is logged once and in order; a client sees the log grow, and finds it
  when the build is over.
* Start-up: no server runs without the other; a signal ends the process.

## Modules

| module | what it is |
|---|---|
| `ChannelQueue` | the Go channel: three outcomes of `Push`, two of `Pop`, `Close` |
| `Consumer` | `ChannelQueue` + Build handlers + worker goroutines + both servers' shutdown + `main` |
| `WorkQueue` | abstract: accept, take, finish; the unreadable may be put back or lost |
| `MCConsumer` | instance for TLC |
| `ConsumerProofs` | theorems about `Consumer`, the refinement of `WorkQueue` included |
| `Processor` | `Run`, the registry, and the handlers that read, stop and delete builds |
| `BuildLife` | abstract: what a client is promised of a build |
| `MCProcessor` | pipelines for TLC, symmetry of the handlers |
| `ProcessorProofs` | theorems about `Processor`, the refinement of `BuildLife` included |
| `RunnerResults` | flow types and what the runner of each may return; `Processor` extends it |
| `FlowRunner` | abstract: what the processor takes for granted of a runner |
| `DockerCalls` | place, context and error of a `Run` that makes requests to Docker; extended by the next two |
| `ShellRunner`, `ShellRunnerProofs` | one shell flow: script file, image, container, deferred calls |
| `DockerBuild`, `DockerBuildProofs` | one docker build flow: build context, build, push |
| `ScmRunner`, `ScmRunnerProofs` | one checkout: tool, rendering, credential, clone |
| `LuaRunner`, `MCLuaRunner`, `LuaRunnerProofs` | Lua flows of several builds on the VM pool |
| `LuaJson` | `jsonMarshal` and `jsonUnmarshal` |
| `ProcessContext` | the environment of a build and the rendering of `${NAME}` |
| `Workspace`, `WorkspaceProofs` | the build's directory over all its flows |
| `JobLogger` | `Write` and `ReadFrom`: chunks and streams into log entries |
| `Scanning` | taking a text apart from left to right; extended by `JobLogger` and `ProcessContext` |
| `Texts` | `JobLogger`, `LuaJson` and `ProcessContext` side by side, which share no state: a behaviour is one of a single part |
| `MCText` | instance of `Texts` for TLC |
| `JobLog` | the log file: written by `Run`, read and deleted by clients |
| `TextProofs` | theorems about `Texts` and about `JobLog` |
| `Startup` | command line, construction, ports, the signal |

How they fit together. `Processor` calls a runner by the results `RunFlowResults` allows;
`FlowRunner` makes a specification of that, and `ShellRunner`, `DockerBuild`, `ScmRunner` and
`LuaRunner` are each shown to implement it (`ImplementsFlowRunner`, with the fairness that
makes them return). `Workspace` keeps of the four runners only what they do to the
directory, and `ProcessContext` what they read and write of the environment. `Startup` ends
where `Consumer` begins.

Definitions named `Faulty...` are variants of the definition that follows them, each
with a plausible bug. They are used nowhere in the specifications; substituting one for
the original must make the property it is paired with fail, which shows that the
property says something about the code.

### Consumer: state and actions

`queueCh` and `closed` are the channel. `req[m]` is the Build request that submits
message `m` (`none`, in its handler, accepted, refused by a full queue, answered by the
recovery of a panic). `pc[w]`, `msg[w]` are a worker's place in
`MultiWorkerConsumer.Consume` and the message in its hands. `srv` are the two servers,
`main` is `main` after start-up: `running` (waiting for the signal), `canceled` (after
`cancel()`), `waiting` (after `q.Close()`), `exited`; `crashed` is a panic nobody
recovered. `done` and `dropped` are history variables, and `lateRuns[w]`, which counts the
messages worker `w` took after the cancellation.

* A `Push` never blocks (select with default) and panics on a closed channel. In a web
  handler gin's recovery answers 500; in the gRPC server, and in a worker that puts a
  message back, the panic ends the process.
* A gRPC Build request without a pipeline dereferences nil (`EmptyBuild`).
* `Pop` is a bare receive: it does not look at the context, so a shutdown needs
  `Close`. A closed channel first hands out what it buffers.
* `Run` asks to put a message back only if its data is no `*v1.Pipeline`. The two
  handlers of the repository submit none of that kind, so today the retry path is
  dormant; queue and worker are written for messages of any type, and the model
  includes them (`Malformed`). Nothing depends on there being any: the theorems hold for
  every `Malformed`, the empty set too.
* `Shutdown` of the HTTP server lets requests in flight go on and `Start` return at once;
  `GracefulStop` waits for the handlers.
* What `Run` does with a message is a single step here (`RunFinishes`); `Processor` opens
  it. Panics inside the processor are `Processor`'s.

### Processor: state and actions

For a build `b`: `pc[b]` is the place in `Run`; `flows[b]` the pipeline's flows, of
which only the kind matters; `status[b]` and `flowSt[b]` the progress; `env[b]` the
value of `CI_BUILD_STATUS`; `jobCtx`, `flowCtx` the two contexts, with the first reason
they ended for; `work`, `data` the directories; `progressMp[b]` is which entity the
registry holds: none, the one of `InitPipeline`, or the one of `Run`. The latter is not
copied into the model, because what it points to is `Run`'s own state: reading a stored
`run` entity reads `status[b]`.

For a handler `h`: its request, its place, and the entity it loaded. Each step of a
handler that other goroutines can observe is a step of its own: load, cancel, remove the
directory, delete the entry (in the order of Go's deferred calls), encode.

* `Run`: `BeginRun`, `MakeWorkDir`, `MakeDataDir`, `CreateLog`, `EnterRunning`, then
  `StartFlow`/`FinishFlow` for each flow, `Verdict`, `Cleanup` (the deferred calls). Each
  early return goes to `Cleanup`. A null in the JSON list of flows comes out of jsonpb as an
  empty flow, one of an unknown type.
* `RunFlowResults` says what a runner may return, given whether its context had ended
  before the call and how it stands at the return: `ok`, `error`, or `canceled`, an error
  in which `errors.Is` finds `context.Canceled`. A VCS other than Git wraps a nil error,
  which is nil: success without a checkout. The Lua interpreter keeps the text of the
  context's error only. The runners as such are external here.
* `LuaEndsProcess`: the VM opens all of Lua's libraries, so a script may call `os.exit`, and
  `jsonMarshal` follows a table that contains itself until the stack overflows; neither is
  caught. With `io` and `os` it may also remove or remake the workspace (`WorkLeftBy`).
* `Submit` is the accepted Push and the worker's Pop seen from the processor;
  `InitPipeline` follows in the HTTP handler only, at any later time. A client can name a
  build only when its Build request has been answered (`Answered`).
* Data races: `MarshalRace` is the concurrent read of the progress by the encoder while
  something writes it (`SharedWrites`): `Run` in its loop, where the reader holds the entity of
  `Run`; a runner that renders the flow's fields in place (`RunnerRenders`), where it holds that
  of `InitPipeline`, whose progress has the same pipeline. Its possible outcomes are reduced to two: the encoder gets through, or
  the process ends (a torn slice or string, or the runtime's detection of concurrent use of
  the `Env` map). What bytes the client gets in the first case is left out.
* `BuildLife` is what is left of a build for its client: its stage, how many flows it has, what
  those begun came to, what `CI_BUILD_STATUS` says, what stopped it first, the verdict, and
  whether the process is still there. The mapping takes `flowSt`, `env` and `crashed` as they
  are; a build is `running` from `BeginRun` to the end of `Cleanup`, the release of the job
  context by Run's own deferred call stops nothing, and a status is a verdict when it is a
  final one. Registry, requests, directories, the flows' contexts and the kinds of runners
  are hidden: the steps that change only those are stutters.
* Each build begins at most once, which is `Consumer`'s `OnePlace` for messages that
  are pipelines.

### The runners: state and actions

`ctx` is the flow's context with the first reason it ended for, `late` says that it had ended
before the call, `pc` the place in `Run`, `ret` what it returned.

* `DockerCalls`: `sent` says whether the request `Run` waits for was made with a live context
  and so reached the daemon; one that was sent may fail and still have been carried out,
  one that was not fails with the context's error (`Broken`). The Docker client wraps a
  cancellation, so that `errors.Is` finds it; a passed deadline comes out as a failed
  connection.
* `ShellRunner`: one action per request of `shell.go`, one for writing the script and one for
  each of the two deferred calls (`RemoveContainer` under the same context,
  `RemoveScript`). `WaitForExit` is the `select`: any case that is ready. `ScriptEnds` is
  the container's process, which may go on after `Run` has returned. `failed` is history:
  the requests that came back with an error.
* `DockerBuild`: the build context *is* the workspace. `CopyBuildLog` copies the response
  unread, so a build that failed passes; `PushEnds` is the daemon's push, of which `Run` reads
  nothing.
* `ScmRunner`: `Dispatch` with the wrapped nil error, `RenderCfg` and `AuthFields` with the
  fields of a credential, `PlainInit` and `Fetch` as go-git's `PlainCloneContext` does them:
  a repository in the place is refused, and after a failure the directory is cleared only
  if it had been missing or empty.
* `LuaRunner`: pool (`saved`), VMs with what `package.preload` and the loaded module are bound
  to, and per script its place, VM and context. A script may write the environment and make
  HTTP requests while its context is live. Two scripts of a build never run at the same time.

### The other modules: state and actions

* `Workspace`: `here` and `files` are the directory, with one element per kind of content that
  some flow makes or minds; `sent` is what has gone into build contexts. A shell script has the
  directory mounted read-write and may leave anything in it, a repository made or removed
  included; a Lua script has the host's files and may remove or make the directory too; an
  SVN checkout does nothing. A client's delete removes the directory at any time after the
  cancellation.
* `ProcessContext`: `env` is `Env`; texts are sequences of tokens, `${`, `}`, names and other
  words; one text stands for all fields a runner renders. `raw` is the flow's `NoEnvRender`,
  with which `used`, what it runs with, is the text as submitted. `RenderByEnv` goes from left
  to right; the reference definition in `RenderedOnce` replaces all places at once.
* `LuaJson`: values are trees; a number as a key and the string it prints as differ in Lua and
  not in JSON. A number may be one that is not finite, for which `json.Marshal` gives an error
  and `jsonMarshal` an empty text (`NoText`); a string may be one that is not UTF-8, which is
  repaired (`Repaired`, `Utf8`), and of the names that are then written alike one stays
  (`Staying`; which, the order of bytes decides, and the model leaves open). Tables are at most
  10000 deep, since `json.Unmarshal` refuses what is deeper. `MarshalOf` and `UnmarshalOf` are the bodies of the two recursive functions,
  with what the calls inside return as a parameter; `Marshal` and `Unmarshal` tie the knot.
* `JobLogger`: one call of `Write` or `ReadFrom` per step. Lines are found as `ScanLines` and
  `bufio.Reader.ReadLine` find them; chunks are shorter than the scanner's buffer.
* `JobLog`: the registry's entry and the file, with the read in three steps (load, stat, read) and
  the delete in three. Log lines are counted, not kept.
* `Startup`: `main` up to the wait, step by step, beside the servers' goroutines that open
  their ports; flags are a set, their values are not modelled.

## Runs

| run | instance | shows |
|---|---|---|
| `consumer` | 2 workers, capacity 2, 4 messages: one by HTTP, one by gRPC, one gRPC request without pipeline, one unreadable by HTTP | types; every accepted message is in exactly one place (`OnePlace`); why the process can die on a message's path (`CrashCause`); a clean exit (`ExitLeavesNoRun`); a shutdown begins at most one more build per worker (`ShutdownBounded`); the refinement (`ImplementsWorkQueue`); an accepted build is processed unless a shutdown begins (`AcceptedIsServed`); a shutdown always ends (`ShutdownCompletes`) |
| `processor_web` | 1 build by HTTP, 2 handlers, four pipelines of at most 2 flows | `VerdictMatches`, `CanceledOnlyByRequest`, `WorkspaceReclaimed`, `CrashExplained`, `ViewMonotone`, and the refinement (`ImplementsBuildLife`) |
| `processor_grpc` | 1 build by gRPC, 2 handlers, pipelines of 3 flows | a build the registry has lost was canceled (`UnlistedIsStopped`); a build whose context has ended goes on only past an SVN checkout (`EndedBuildWindsUp`); every build that begins returns (`RunEnds`) |
| `shell_runner` | every policy, image, workspace, context | what a return leaves behind is explained (`LeftoverExplained`), success means that it ran (`OkMeansRan`), `ImplementsFlowRunner` |
| `docker_build` | every configuration, workspace, image, context | the workspace is given up (`ContextClosed`), `ImplementsFlowRunner` |
| `scm_runner` | every VCS, credential, workspace, context | what the clone is given was rendered (`UsedIsRendered`), `ImplementsFlowRunner` |
| `lua_runner` | 2 scripts of one build, 1 of another | `NoSharedVM`, `WritesOwnBuild`, `ImplementsFlowRunner` for two of the scripts |
| `text` | two text characters, `\r` and `\n`, two chunks or streams of up to 4, a buffer of 3; tables of at most 2 entries of such tables, keys 1, 2, "1", "7" and a string repaired to "7", values 5, NaN, that string, a function; one variable, texts of up to 4 tokens, 2 flows | logger: `TextIsLogged`, `StreamIsKept`; JSON: `RoundTrip`, `OnlyListsRefused`; environment: `RenderedOnce` |
| `workspace` | all pipelines of up to 5 flows, a delete at any time | `ShellNeedsWorkspace`, `ClonesNeedClearing`, `NoScriptInImage` |
| `startup` | up to 2 flags, any busy ports, up to 2 signals | `main` does not go on with one server missing (`NoHalfService`); a signal ends the process, but for one that main is not receiving for (`SignalEnds`) |
| `job_log` | 2 readers with 2 reads each, 2 lines, a delete | `LogOnlyGrows`, `LogIsKept` |
| `deleted_reappears` | as `processor_grpc`, 1 handler | a finding, see below |

Types are checked by TLC in `consumer`; where a module has a proof module its types are proved
there, for every instance.

Why the bounds are enough. *Consumer*: with capacity 2 and four messages the queue is
empty, partly full and full, at submission and at a requeue; two workers are what it takes
for a duplicate, for one to refill the queue under the other, and for one to be running
while the other sees the closed channel. *Processor*: builds share nothing but the root
context and each has its own registry key, so one build and several handlers show every
interleaving the code has; two handlers are needed for a delete to race a stop or another
delete, and three would add only repetitions, since each handler holds no state another
reads except through the registry, the contexts and the directories. The pipelines contain
every flow kind, an unknown type, the empty list, a flow after an SVN checkout, and
a docker build before other flows. Clients may send any number of requests one after the
other. There is no bound on the number of steps.
*Runners*: one flow each, with every outcome of every request; runners of different builds
share only the VM pool, for which `lua_runner` has two scripts of one build (one after the
other) and one of another (at the same time). *Workspace*: four flows are what it takes to
make, spoil, remove and use the directory again, a fifth stands anywhere between; the theorems
drop the bound. *Text*: with
two text characters a swap or a loss shows; four characters hold a line, its end, a second
line and its end, or one line longer than the buffer of three with a `\r` at the cut; two
calls are what the carried-over part needs. Tables in tables have all that the recursion of
`marshal` tells apart; the broken string meets its repaired form both as a name and as a value. A reference is three tokens, the fourth stands before or behind it,
and a variable's value may be a reference itself. *Startup*: one signal at each place, and a
second one during the shutdown. *JobLog*: two reads per client show the order of answers, two
clients that the delete meets reads at different steps.

Deadlock checking is off because the process ends (`exited`, `crashed`), and because in
`Processor` a returned build with idle handlers and no client has nothing left to do.

Fairness. *Consumer*: weak fairness for each worker, each handler in flight and the
shutdown sequence: goroutines that can move do move, and `Run` returns (see
`RunEnds`). No fairness for clients or the signal. *Processor*: weak fairness for `Run`'s
own steps, for the flow's timer, and for a runner whose context has ended. The last is what
`context` promises of the Git client, the Docker client and the Lua interpreter; it is an
assumption that a script does not sit in a Go function that ignores the context, such as
`os.execute`. A runner whose context is live may take for ever. Nothing is assumed of
the pipeline's timer or of clients. *Runners*: weak fairness for `Run`'s own steps; a request
to the daemon, a clone, a script may take for ever while the context is live, but returns
once it has ended, which is what the Docker client, go-git and the Lua VM do with a context.
Nothing is assumed of the context's end, the daemon or the script itself. *Startup*: weak
fairness for `main` and for each server that opens its port; nobody has to send a signal.

### Findings

* `deleted_reappears` (bug). `DeletePipeline` cancels a running build and takes its entry
  out, and the client is told 流水线任务删除成功. `Run` does not look at the registry: its
  next status update stores the entry again, and the deleted build is listed until somebody
  deletes it once more, its log possibly gone.

Further behaviour which the properties describe rather than forbid: `CrashExplained` names
how the process can end in the middle of its work (a Lua script that calls `os.exit` or gives
`jsonMarshal` a table that contains itself; a gRPC stop or delete that finds the entity
`InitPipeline` stored, possibly over a running build's; reading the progress of a build while
`Run`, or a runner that renders its flow, writes it); `VerdictMatches` says nothing of a build without flows, which stays
`Running` for ever, nor of one whose directories could not be made, which stays
`Started`; `EndedBuildWindsUp` has its exception for the SVN checkout; `ViewMonotone`
holds only from the moment `InitPipeline` is behind the build.

The modules also contain the following, because the code does it; no property forbids it:

* A request for a build the registry does not know passes the validation
  (`server/web/models/build.go:32`, commented as a check that the job exists); the processor
  call finds out.
* Every end of the context, a client's stop too, is reported by the shell runner as the
  script's timeout (`shell.go:312`), so that a build stopped in its script is `Failed`.
* A pull, a docker build and a push report their failure inside the stream of the response,
  which is copied to the log or dropped (`shell.go:133`, `docker_build.go:95`, `:107`): the
  flow goes on, and the push may not be over when the flow is.
* A VCS other than Git is a success without a checkout (`scm.go:48`).
* `getAuth` uses the password for the credential types 1 to 4; the schema's comment
  (`pipeline.proto:55`) says 0 and 1.
* The part of a line carried over between two chunks is cleared before it is logged
  (`logger.go:77`); `TextIsLogged` holds as long as chunks end their lines.
* Any table without a key other than a number, the empty one too, is written as a JSON list
  (`loader.go:18`) and loses its keys.
* The params of a request may replace `CI_BUILD_ID` and set `CI_BUILD_STATUS`.
* Every flag is refused on the command line, as `flag.Parse` comes before their definition.
* A signal between `signal.Notify` and the receive is dropped: the channel has no buffer.
* The entry `InitPipeline` stores has no directory; the path of its log is `/data/job.log`,
  and a file of that name on the host is answered as the build's log.

## Proofs

Seven of the eight proof modules, and the last part of `TextProofs`, have the same outline: an
inductive invariant, in the large ones called `IInv`, one lemma per action (or per group of
actions that disturb the same parts), `Init => IInv`, `IInv /\ [Next]_vars => IInv'`, and
theorems that follow from it.

`ConsumerProofs`, for any sets of workers and messages and any capacity, from
`CapAssumption` and `ConsumerAssumption` alone:

* `TypeCorrect` (`TypeOK`, the bound on the channel included), `NoMessageTwice`
  (`OnePlace`), `CrashHasCause` (`CrashCause`), `ExitIsClean` (`ExitLeavesNoRun`),
  `ShutdownIsBounded` (`ShutdownBounded`), and `Refinement`: `Spec => WQ!WQSpec`.
* `OnePlace` is not inductive by itself: that a pop does not hand out what a worker
  already holds needs the channel to have no repetition, that a push is fresh needs the
  request's state, that a finished worker's message is gone needs the relation of `pc` and
  `msg`, and that `main` exits clean needs that exited workers hold nothing. That a worker takes
  no second message after the cancellation needs that one which has taken it is not on its
  way to another `Pop`.

`ProcessorProofs`, for any sets of builds and handlers and any set of pipelines, of any
length, from `ProcessorAssumption` alone:

* `TypeCorrect`, `FlowsRunInOrder` (`FlowsInOrder`), `VerdictIsRight` (`VerdictMatches`),
  `CanceledWasRequested` (`CanceledOnlyByRequest`), `WorkspaceIsReclaimed`
  (`WorkspaceReclaimed`), `UnlistedWasStopped` (`UnlistedIsStopped`), `CrashHasCause`
  (`CrashExplained`), the action properties `EndedBuildStops` (`EndedBuildWindsUp`) and
  `ViewMovesOn` (`ViewMonotone`), and `Refinement`: `Spec => BL!BLSpec`
  (`ImplementsBuildLife`).
* `IInv` has four parts per build and one per handler. `Shape` says what statuses and
  progress look like at each place of `Run`; without it a verdict could meet flows of any
  status. `Context` ties a flow's context to the job's and a `Canceled` flow to the
  canceled job. `Listed` relates the registry's entry to how far the build is. `Swept` is
  the workspace. `Served` is what a handler still knows of the build it serves, whatever
  has happened since it loaded the entity: a `run` entity means that the build has begun, and
  between the cancellation and the deletion of the entry the context has ended.
* The action properties compare the two states of one step under `IInv`: only `FinishFlow`
  leads from a late flow to the next, and it needs a runner that says `ok`; only `Run`'s own
  steps change the status, forwards, and no step but `InitPipeline` brings back its entry.
* The refinement has a lemma `...Life` per action (or group of hidden actions), which names the
  step of `BuildLife` it is. Two conjuncts of the invariant are there for its sake: that no
  script has ended the build where another flow is about to begin (in `Shape`), and that a
  build whose `Run` has returned has no live context (in `Context`), so that a late cancellation
  stops nothing.

The runners' and the workspace's proofs have the same outline with a smaller invariant:

* `ShellRunnerProofs`: `Typing` (`TypeOK`), `NoLeftover` (`LeftoverExplained`), `ScriptRemoved`
  (`ScriptGone`), `SuccessMeansRan` (`OkMeansRan`), and `KeepsToFlowRunner`, the safety part of
  the refinement of `FlowRunner`. The invariant says at each place of `Run` which of script,
  container and deferred calls there can be, and which request has failed. `ScriptGone` is
  what lets `Workspace` say that a shell flow leaves no script file of its own.
* `DockerBuildProofs`: `Typing`, `ContextIsClosed` (`ContextClosed`), `LateDoesNothing`
  (`LateBuildsNothing`), `KeepsToFlowRunner`.
* `ScmRunnerProofs`: `Typing`, `CredentialIsRendered` (`UsedIsRendered`), `KeepsToFlowRunner`.
* `LuaRunnerProofs`, for any number of builds and scripts: `Typing`, `VMsAreOwn` (`NoSharedVM`),
  `EnvIsOwn` (`WritesOwnBuild`), and `KeepsToFlowRunner` for each script. The invariant is that
  the pool stays empty, since nobody puts a VM back; so each script has a VM that nobody has
  had, and the module loaded in it is its own.
* `WorkspaceProofs`: `Typing`, `ShellsHaveWorkspace` (`ShellNeedsWorkspace`), `ClonesAreCleared`
  (`ClonesNeedClearing`), `ScriptsStayOut` (`NoScriptInImage`), for pipelines of any length.
  `Fenced` says that of the flows so far every one that spoils the directory for another is
  followed by one that mends it before the other comes; the invariant is that it holds, and
  that the directory is spoiled unless all is mended (`Mended`).

`TextProofs`, for characters, texts, tables, buffers and numbers of calls of any size, from
`LoggerAssumption`, `JsonAssumption` and `ContextAssumption` (a line end is no text, the buffer
has room for two characters, keys are strings and positive whole numbers, a repaired string
is not repaired again, tables are at most 10000 deep, braces are no names):

* The job logger: `TextLogged` (`TextIsLogged`) and `StreamKept` (`StreamIsKept`). What is to be
  shown of a call is about the function that `Parts` is defined with, which gives for each place
  of a text the parts from there on. `TokensKeepText` and `PiecesKeep` follow it from the end of
  the text to its start: the parts from place `i` on keep all text, or all but the line ends, of
  what stands from `i` on. `LoggerInv` then says that the two histories agree until a chunk
  leaves its last line open, and that what `ReadFrom` logged last are the pieces of its stream.
* The environment: `Rendered` (`RenderedOnce`). `RenderIs` is the lemma: going from left to right and replacing all places at once give the same text. It
  rests on `NoMatchInside`, no reference starts inside another, so that what stands behind a
  match is outside of all references before it.
* JSON: `RoundTrips` (`RoundTrip`) and `ListsRefused` (`OnlyListsRefused`). `NestedUnfold`,
  `MarshalUnfolds` and `UnmarshalUnfolds` show that the recursive definitions have a solution,
  level by level of nesting; `VisitedInOrder`, that `ForEach` comes to the elements of a sequence in order, by
  counting the keys before each; `FormsComeBack`, by induction over the depth, that what JSON
  has a form for comes back; `FiniteIsWritten`, likewise, that a value without NaN and Inf has
  a text. `JsonInv` says what the script holds at each point.
* The log file, for any number of clients, requests and lines, from `JobLogAssumption`:
  `Typing`, `LogGrows` (`LogOnlyGrows`), `LogStays` (`LogIsKept`). Until a delete the file and
  the entry of `Run` stay, and what a client has seen is a part of the file.

A recursive function is to the prover a `CHOOSE`: before it can be unfolded a function that
satisfies the equation must be shown to exist. `RecursionByLevels` and `BackwardRecursion` do
that for a definition that looks one level down, or further on in a sequence. Induction is
over sets (`SetInduction`, `SequenceInduction`, `BackwardInduction`): the induction theorems of
the library take an operator, which the provers cannot instantiate, but the set of the numbers
for which something holds is a value like any other.

`ScriptGone`, `LateBuildsNothing` and `FlowsInOrder` are proved and in no run; what the last one
says is part of `BuildLife`, which `processor_web` checks.

Model-checked only: liveness (`AcceptedIsServed`, `ShutdownCompletes`, `RunEnds`,
`NoHalfService`, `SignalEnds`, and the part of `ImplementsFlowRunner` that a runner returns),
which the prover cannot treat. `Startup` has only properties of this kind. Every other property
of a passing run is a theorem.

## Not modelled

* Times, failure texts, titles; of parameters, all but their effect on the environment.
* The route table, the response envelope and the generated protocol code: no state of
  their own. `utils/env.go` is formatting.
* The types and values of flags, and the capacity check of the queue beyond its refusal.
* `VmPool.Shutdown`, and the modifiers of `BuildContext` that have no caller.
* What `os.RemoveAll` does when it fails: `WorkspaceReclaimed` takes it to succeed, though a
  container left behind by a failed removal may still write below the directory. Goroutines of
  the Docker client that outlive a `ContainerWait`, and the log file that is never closed, are
  resources no action of the model needs.
* In `LuaJson` a table that contains itself: values are finite trees, and what such a table
  does to the process is `LuaEndsProcess` in `Processor`.
* What a Lua script does, with `io` and `os`, outside its own build's workspace: to the
  directories of other builds, the log, the host.

## Plan

Done: `Consumer` with `ChannelQueue` and `WorkQueue`, and `Processor` with `BuildLife`, both with
proofs of all their safety properties; the four runners against `FlowRunner`, with proofs;
`Workspace`, `JobLog`, `JobLogger`, `LuaJson` and `ProcessContext` with proofs; `Startup`.

Left: `System`, `Consumer` composed with `BuildLife` per message, to state that an accepted build
ends with a verdict or with the process, across a shutdown.

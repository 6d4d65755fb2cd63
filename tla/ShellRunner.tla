---------------------------- MODULE ShellRunner ----------------------------
(***************************************************************************)
(* One call of the shell runner (processor/shell/shell.go): the script     *)
(* file, the image, the container with its log, and the calls of Go's      *)
(* deferred functions, while the flow's context may end and each request   *)
(* to the Docker daemon may fail at any moment.                            *)
(***************************************************************************)
EXTENDS DockerCalls

VARIABLES
  policy,     \* ShellCfg's ImagePullPolicy, "nil" where there is no ShellCfg
  work,       \* the workspace exists
  script,     \* the script file in it
  image,      \* the daemon's copy of the image
  container,  \* the container, whether or not Run knows its id
  exit,       \* the exit code of its script
  failed      \* history: the requests that came back with an error

dirVars == <<work, script>>
dockerVars == <<image, container, exit>>
vars == <<ctxVars, runVars, failed, policy, dirVars, dockerVars>>

Request == {"list", "pull", "create", "start", "logs", "copy", "wait", "remove"}

TypeOK ==
  /\ CallsTypeOK(Request \cup {"write", "unlink", "done"})
  /\ policy \in {"nil", "Never", "Always", "IfNotPresent"}
  /\ work \in BOOLEAN /\ script \in {"none", "partial", "whole"}
  /\ image \in {"none", "stale", "fresh"}
  /\ container \in {"none", "created", "running", "exited", "removed"}
  /\ exit \in {"none", "zero", "nonzero"}
  /\ failed \subseteq Request

\* An earlier flow of the pipeline may have removed the workspace.
Init ==
  /\ CallsInit("write") /\ failed = {}
  /\ policy \in {"nil", "Never", "Always", "IfNotPresent"}
  /\ work \in BOOLEAN /\ script = "none"
  /\ image \in {"none", "stale"} /\ container = "none" /\ exit = "none"

-----------------------------------------------------------------------------
(* The environment: contexts, a client's delete, the script in the container. *)

EndContext ==
  /\ CtxEnds
  /\ UNCHANGED <<runVars, failed, policy, dirVars, dockerVars>>

\* DeletePipeline cancels the build, then removes its directory.
DeleteWorkspace ==
  /\ ctx = "canceled" /\ work
  /\ work' = FALSE /\ script' = "none"
  /\ UNCHANGED <<ctxVars, runVars, failed, policy, dockerVars>>

\* The script ends, maybe long after Run has returned; it may run for ever.
ScriptEnds ==
  /\ container = "running" /\ container' = "exited"
  /\ exit' \in {"zero", "nonzero"}
  /\ UNCHANGED <<ctxVars, runVars, failed, policy, dirVars, image>>

-----------------------------------------------------------------------------
Succeeds(l) == sent /\ Proceed(l) /\ UNCHANGED failed

Fails(request, l) == Broken(l) /\ failed' = failed \cup {request}

\* renderCfg dereferences the ShellCfg.  A WriteFile that fails may leave a part of
\* the file: its removal is deferred only after it.
WriteScript ==
  /\ pc = "write"
  /\ \/ policy = "nil" /\ Return("error") /\ UNCHANGED script
     \/ /\ policy # "nil" /\ Return("error")
        /\ script' \in IF work THEN {"none", "partial"} ELSE {"none"}
     \/ /\ policy # "nil" /\ work
        /\ script' = "whole"
        /\ Proceed(CASE policy = "Never" -> "create" [] policy = "Always" -> "pull"
                     [] policy = "IfNotPresent" -> "list")
  /\ UNCHANGED <<ctxVars, failed, policy, work, dockerVars>>

\* imageExistsLocal: a list that fails counts as not found.
ListImages ==
  /\ pc = "list"
  /\ \/ Succeeds(IF image = "none" THEN "pull" ELSE "create")
     \/ Goto("pull") /\ failed' = failed \cup {"list"} /\ UNCHANGED err
  /\ UNCHANGED <<ctxVars, policy, dirVars, dockerVars>>

\* The stream of a pull is copied to the log unread: an error reported in it is not
\* noticed, and the old image, if any, stays.
Pull ==
  /\ pc = "pull"
  /\ \/ Succeeds("create") /\ image' \in {image, "fresh"}
     \/ Fails("pull", "unlink") /\ image' \in IF sent THEN {image, "fresh"} ELSE {image}
  /\ UNCHANGED <<ctxVars, policy, dirVars, container, exit>>

\* The daemon refuses a container without its image or the directory to mount.
Creatable == image # "none" /\ work

Create ==
  /\ pc = "create"
  /\ \/ Succeeds("start") /\ Creatable /\ container' = "created"
     \/ /\ Fails("create", "unlink")
        /\ container' \in IF sent /\ Creatable THEN {"none", "created"} ELSE {"none"}
  /\ UNCHANGED <<ctxVars, policy, dirVars, image, exit>>

\* Only a start that succeeds is followed by the deferred ContainerRemove.
Start ==
  /\ pc = "start"
  /\ \/ Succeeds("logs") /\ container' = "running"
     \/ /\ Fails("start", "unlink")
        /\ container' \in IF sent THEN {"created", "running"} ELSE {"created"}
  /\ UNCHANGED <<ctxVars, policy, dirVars, image, exit>>

FaultyOpenLogs ==                  \* variant: the removal is deferred after the logs
  /\ pc = "logs"
  /\ \/ Succeeds("copy")
     \/ Fails("logs", "unlink")
  /\ UNCHANGED <<ctxVars, policy, dirVars, dockerVars>>
OpenLogs ==
  /\ pc = "logs"
  /\ \/ Succeeds("copy")
     \/ Fails("logs", "remove")
  /\ UNCHANGED <<ctxVars, policy, dirVars, dockerVars>>

FaultyCopyLogs ==                  \* variant: the stream does not belong to the context
  /\ pc = "copy" /\ container = "exited" /\ Proceed("wait") /\ UNCHANGED failed
  /\ UNCHANGED <<ctxVars, policy, dirVars, dockerVars>>
\* The log stream ends with the container, or when the daemon closes it.
CopyLogs ==
  /\ pc = "copy"
  /\ \/ Succeeds("wait")
     \/ Fails("copy", "remove")
  /\ UNCHANGED <<ctxVars, policy, dirVars, dockerVars>>

FaultyWaitForExit ==               \* variant: the exit code is not looked at
  /\ pc = "wait"
  /\ \/ ctx # "live" /\ err' = "timeout" /\ Goto("remove") /\ UNCHANGED failed
     \/ Fails("wait", "remove")
     \/ Succeeds("remove") /\ container = "exited"
  /\ UNCHANGED <<ctxVars, policy, dirVars, dockerVars>>
\* The select: the context, the error channel, the status channel, any that is ready.
WaitForExit ==
  /\ pc = "wait"
  /\ \/ ctx # "live" /\ err' = "timeout" /\ Goto("remove") /\ UNCHANGED failed
     \/ Fails("wait", "remove")
     \/ /\ sent /\ container = "exited" /\ Goto("remove") /\ UNCHANGED failed
        /\ err' \in IF exit = "zero" THEN {"ok", "error"} ELSE {"error"}
  /\ UNCHANGED <<ctxVars, policy, dirVars, dockerVars>>

\* The deferred ContainerRemove runs under the same context; its error is dropped.
RemoveContainer ==
  /\ pc = "remove"
  /\ \/ sent /\ container' = "removed" /\ UNCHANGED failed
     \/ /\ sent \/ ctx # "live"
        /\ container' \in IF sent THEN {container, "removed"} ELSE {container}
        /\ failed' = failed \cup {"remove"}
  /\ Goto("unlink")
  /\ UNCHANGED <<ctxVars, err, policy, dirVars, image, exit>>

\* The deferred os.Remove, and Run returns.
RemoveScript ==
  /\ pc = "unlink" /\ script' = "none" /\ Return(err)
  /\ UNCHANGED <<ctxVars, failed, policy, work, dockerVars>>

Run ==
  \/ WriteScript \/ ListImages \/ Pull \/ Create \/ Start \/ OpenLogs \/ CopyLogs
  \/ WaitForExit \/ RemoveContainer \/ RemoveScript

Next == EndContext \/ DeleteWorkspace \/ ScriptEnds \/ Run

Spec == Init /\ [][Next]_vars

\* With its context live Run may wait for the daemon for ever.
FairSpec == Spec /\ WF_vars(ctx # "live" /\ Run)

-----------------------------------------------------------------------------
(* Properties. *)

\* A container outlives Run only if its creation, its start or its removal went
\* wrong, or the context ended, which takes the deferred removal down with it.
LeftoverExplained ==
  ret # "none" /\ container \in {"created", "running", "exited"} =>
    ctx # "live" \/ failed \cap {"create", "start", "remove"} # {}

\* No return leaves the script in the workspace, where the next flow would build it
\* into an image; a WriteFile that failed halfway is the one exception.
ScriptGone == ret # "none" /\ script # "none" => script = "partial" /\ ret = "error"

\* Success is the exit code zero of a script that was seen to end.
OkMeansRan ==
  ret = "ok" => exit = "zero" /\ container \in {"exited", "removed"}

\* The processor sees a timeout as any other error.
FR == INSTANCE FlowRunner
        WITH kind <- "Shell", ret <- IF ret = "timeout" THEN "error" ELSE ret

\* The runner does what the processor takes for granted: it returns once its context
\* has ended, never with success if it had ended before, and with "canceled" only
\* for a canceled build.
ImplementsFlowRunner == FR!FairSpec
=============================================================================

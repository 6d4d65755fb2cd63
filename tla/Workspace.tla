------------------------------ MODULE Workspace ------------------------------
(***************************************************************************)
(* What a build's flows leave each other in its workspace: Run makes the   *)
(* directory, each runner finds in it what the flows before have left, a   *)
(* client's delete may take it away, and Run removes it in the end.        *)
(*                                                                         *)
(* The flows are those of ScmRunner, ShellRunner, DockerBuild and          *)
(* LuaRunner; only what they do to the directory is kept here.  A shell    *)
(* script has the directory mounted, a Lua script has the host's files.    *)
(***************************************************************************)
EXTENDS Naturals, Sequences

CONSTANTS
  FlowKind,  \* the types of flow a pipeline may have
  MaxFlows   \* bound: flows of a pipeline

ASSUME WorkspaceAssumption ==
  FlowKind \subseteq {"Git", "Svn", "Shell", "DockerBuild", "Lua"} /\ MaxFlows \in Nat

VARIABLES
  pc,        \* where Run is
  flows,     \* the types of the flows that have started
  here,      \* the workspace exists
  files,     \* what is in it
  sent,      \* what went into docker build contexts
  canceled,  \* a client has canceled the build
  late,      \* it had done so before the current flow, or its fetch, started
  result     \* the build's result

dirVars == <<here, files>>
vars == <<pc, flows, dirVars, sent, canceled, late, result>>

File == {".git", "src", "Dockerfile", "script"}

\* What a script of the build may find or leave there: its own file is not for it.
LeftByScript == SUBSET (File \ {"script"})

TypeOK ==
  /\ pc \in {"make", "next", "flow", "fetch", "script", "context", "close",
             "cleanup", "returned"}
  /\ flows \in Seq(FlowKind) /\ Len(flows) <= MaxFlows
  /\ here \in BOOLEAN /\ files \subseteq File /\ (~here => files = {})
  /\ sent \subseteq File
  /\ canceled \in BOOLEAN /\ late \in BOOLEAN /\ (late => canceled)
  /\ result \in {"none", "succeed", "failed"}

Init ==
  /\ pc = "make" /\ flows = <<>> /\ here = FALSE /\ files = {} /\ sent = {}
  /\ canceled = FALSE /\ late = FALSE /\ result = "none"

Running(kind) == pc = "flow" /\ flows[Len(flows)] = kind

Succeeds == pc' = "next" /\ UNCHANGED result
Fails == pc' = "cleanup" /\ result' = "failed"

-----------------------------------------------------------------------------
\* os.MkdirAll: what a build of this uid had there before is gone.
MakeWorkDir ==
  /\ pc = "make"
  /\ \/ pc' = "next" /\ here' = TRUE /\ UNCHANGED result
     \/ Fails /\ UNCHANGED here
  /\ UNCHANGED <<flows, files, sent, canceled, late>>

\* Every flow gets the same directory.
StartFlow ==
  /\ pc = "next" /\ Len(flows) < MaxFlows
  /\ \E k \in FlowKind : flows' = Append(flows, k)
  /\ pc' = "flow" /\ late' = canceled
  /\ UNCHANGED <<dirVars, sent, canceled, result>>

\* The loop ends behind the last flow.
LastFlowDone ==
  /\ pc = "next" /\ flows # <<>> /\ pc' = "cleanup" /\ result' = "succeed"
  /\ UNCHANGED <<flows, dirVars, sent, canceled, late>>

FaultyInitRepository ==            \* variant: a repository in the place is updated
  /\ Running("Git")
  /\ \/ /\ here' = TRUE /\ files' = files \cup {".git"}
        /\ pc' = "fetch" /\ late' = canceled /\ UNCHANGED result
     \/ Fails /\ UNCHANGED <<dirVars, late>>
  /\ UNCHANGED <<flows, sent, canceled>>
\* PlainClone refuses a directory that holds a repository.
InitRepository ==
  /\ Running("Git")
  /\ \/ /\ ".git" \notin files /\ here' = TRUE /\ files' = files \cup {".git"}
        /\ pc' = "fetch" /\ late' = canceled /\ UNCHANGED result
     \/ Fails /\ UNCHANGED <<dirVars, late>>
  /\ UNCHANGED <<flows, sent, canceled>>

\* A fetch under a context that has ended fails.  What a fetch that fails has made is
\* taken away again, unless the directory held other files.
Fetch ==
  /\ pc = "fetch"
  /\ \/ Succeeds /\ ~late /\ here' = TRUE /\ files' = files \cup {".git", "src"}
     \/ Fails /\ UNCHANGED dirVars
     \/ Fails /\ files \subseteq {".git"} /\ files' = {} /\ here' \in {here, FALSE}
  /\ UNCHANGED <<flows, sent, canceled, late>>

\* The script file needs the directory: nothing makes it anew.  A write that fails may
\* leave a part of the file.
WriteScript ==
  /\ Running("Shell")
  /\ \/ /\ here /\ files' = files \cup {"script"}
        /\ pc' = "script" /\ UNCHANGED result
     \/ Fails /\ files' \in IF here THEN {files, files \cup {"script"}} ELSE {files}
  /\ UNCHANGED <<flows, here, sent, canceled, late>>

FaultyShellEnds ==                 \* variant: nothing removes the script
  /\ pc = "script"
  /\ IF here THEN \E left \in LeftByScript : files' = left \cup {"script"}
             ELSE UNCHANGED files
  /\ (Succeeds /\ ~late) \/ Fails
  /\ UNCHANGED <<flows, here, sent, canceled, late>>
\* The container has the directory mounted read-write: the script makes and removes
\* what it likes in it, though not the directory.  Its own file is removed behind it.
ShellEnds ==
  /\ pc = "script"
  /\ IF here THEN files' \in LeftByScript ELSE UNCHANGED files
  /\ (Succeeds /\ ~late) \/ Fails
  /\ UNCHANGED <<flows, here, sent, canceled, late>>

FaultyAddDockerfile ==             \* variant: the context is a directory of its own
  /\ Running("DockerBuild")
  /\ \/ /\ here' = TRUE /\ files' = files \cup {"Dockerfile"}
        /\ pc' = "context" /\ UNCHANGED result
     \/ Succeeds /\ ~late /\ UNCHANGED dirVars
  /\ UNCHANGED <<flows, sent, canceled, late>>
\* build_context.New makes the directory where it is missing; the flow's Dockerfile
\* takes the place of one in the sources.
AddDockerfile ==
  /\ Running("DockerBuild")
  /\ \/ /\ here' = TRUE /\ files' = files \cup {"Dockerfile"}
        /\ pc' = "context" /\ UNCHANGED result
     \/ Fails /\ (UNCHANGED here \/ here' = TRUE) /\ UNCHANGED files
  /\ UNCHANGED <<flows, sent, canceled, late>>

\* The tar of the whole workspace goes to the daemon, as much of it as is read.
SendContext ==
  /\ pc = "context" /\ pc' = "close"
  /\ sent' = sent \cup files
  /\ UNCHANGED <<flows, dirVars, canceled, late, result>>

\* The deferred Close of the context removes the workspace.
CloseContext ==
  /\ pc = "close" /\ here' = FALSE /\ files' = {}
  /\ (Succeeds /\ ~late) \/ Fails
  /\ UNCHANGED <<flows, sent, canceled, late>>

\* With io and os at hand a Lua script makes and removes what it likes, the directory
\* included.  Under a context that has ended it does not run at all.
LuaEnds ==
  /\ Running("Lua")
  /\ \/ late /\ Fails /\ UNCHANGED dirVars
     \/ /\ ~late /\ (Succeeds \/ Fails)
        /\ here' \in BOOLEAN /\ files' \in IF here' THEN LeftByScript ELSE {{}}
  /\ UNCHANGED <<flows, sent, canceled, late>>

\* A VCS other than Git wraps a nil error: nothing is done, and done with success.
SvnEnds ==
  /\ Running("Svn") /\ Succeeds
  /\ UNCHANGED <<flows, dirVars, sent, canceled, late>>

\* DeletePipeline cancels the build and then removes its directory.
Cancel ==
  /\ ~canceled /\ canceled' = TRUE
  /\ UNCHANGED <<pc, flows, dirVars, sent, late, result>>

DeleteWorkspace ==
  /\ canceled /\ here /\ here' = FALSE /\ files' = {}
  /\ UNCHANGED <<pc, flows, sent, canceled, late, result>>

\* Run's deferred os.RemoveAll.
Cleanup ==
  /\ pc = "cleanup" /\ pc' = "returned" /\ here' = FALSE /\ files' = {}
  /\ UNCHANGED <<flows, sent, canceled, late, result>>

Next ==
  \/ MakeWorkDir \/ StartFlow \/ LastFlowDone \/ InitRepository \/ Fetch
  \/ WriteScript \/ ShellEnds \/ AddDockerfile \/ SendContext
  \/ CloseContext \/ LuaEnds \/ SvnEnds
  \/ Cancel \/ DeleteWorkspace \/ Cleanup

Spec == Init /\ [][Next]_vars

-----------------------------------------------------------------------------
(* Properties. *)

\* A flow of one of these types ran between the two.
Between(kinds, i, j) == \E m \in i + 1 .. j - 1 : flows[m] \in kinds

\* A docker build takes the workspace with it: a build has succeeded only if a clone
\* or a Lua script made it anew before the next shell flow.  An SVN checkout, which
\* reports success, does not.
ShellNeedsWorkspace ==
  result = "succeed" =>
    \A i, j \in DOMAIN flows :
      i < j /\ flows[i] = "DockerBuild" /\ flows[j] = "Shell" => Between({"Git", "Lua"}, i, j)

\* A clone finds the repository of an earlier one in its way: a build with two has
\* succeeded only if a docker build cleared the workspace in between, or a script may
\* have, and no delete by a client can stand in for them.
ClonesNeedClearing ==
  result = "succeed" =>
    \A i, j \in DOMAIN flows :
      i < j /\ flows[i] = "Git" /\ flows[j] = "Git" =>
        Between({"DockerBuild", "Shell", "Lua"}, i, j)

\* No script of a shell flow goes into an image: the file is gone before the
\* workspace is sent as a build context.
NoScriptInImage == "script" \notin sent
=============================================================================

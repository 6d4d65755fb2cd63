---------------------------- MODULE DockerBuild ----------------------------
(***************************************************************************)
(* One call of the docker build runner (processor/docker_build) with its   *)
(* build context (processor/build_context), which is the build's workspace *)
(* itself: write the Dockerfile, send the workspace as a tar, build, push. *)
(* The daemon goes on pushing after Run has returned.                      *)
(***************************************************************************)
EXTENDS DockerCalls

VARIABLES
  cfg,     \* the DockerBuildCfg: "nil", or whether PushAfterBuild is set
  work,    \* the workspace exists
  opened,  \* history: the build context was made, and Close is deferred
  image,   \* what the daemon has under the target's name
  push     \* the push of it

buildVars == <<cfg, work, opened, image, push>>
vars == <<ctxVars, runVars, buildVars>>

TypeOK ==
  /\ CallsTypeOK({"add", "tar", "build", "copy", "push", "close", "done"})
  /\ cfg \in {"nil", "build", "push"}
  /\ work \in BOOLEAN /\ opened \in BOOLEAN
  /\ image \in {"none", "old", "new"}
  /\ push \in {"none", "going", "done", "failed"}

Init ==
  /\ CallsInit("add")
  /\ cfg \in {"nil", "build", "push"}
  /\ work \in BOOLEAN /\ opened = FALSE
  /\ image \in {"none", "old"} /\ push = "none"

EndContext == CtxEnds /\ UNCHANGED <<runVars, buildVars>>

\* DeletePipeline cancels the build, then removes its directory.
DeleteWorkspace ==
  /\ ctx = "canceled" /\ work /\ work' = FALSE
  /\ UNCHANGED <<ctxVars, runVars, cfg, opened, image, push>>

\* The daemon's push ends; the end of the context closes the request it answers.
PushEnds ==
  /\ push = "going"
  /\ push' \in IF image = "none" THEN {"failed"} ELSE {"done", "failed"}
  /\ UNCHANGED <<ctxVars, runVars, cfg, work, opened, image>>

-----------------------------------------------------------------------------
\* renderCfg dereferences the DockerBuildCfg.  build_context.New makes the directory
\* where it is missing and writes the Dockerfile.
AddDockerfile ==
  /\ pc = "add"
  /\ \/ cfg = "nil" /\ Return("error") /\ UNCHANGED <<work, opened>>
     \/ cfg # "nil" /\ Return("error") /\ work' \in {work, TRUE} /\ UNCHANGED opened
     \/ cfg # "nil" /\ Proceed("tar") /\ work' = TRUE /\ opened' = TRUE
  /\ UNCHANGED <<ctxVars, cfg, image, push>>

FaultyAsTarReader ==               \* variant: Close is deferred after the tar
  /\ pc = "tar"
  /\ \/ Proceed("build")
     \/ Return("error")
  /\ UNCHANGED <<ctxVars, buildVars>>
\* The workspace is read while the request is sent.
AsTarReader ==
  /\ pc = "tar"
  /\ \/ Proceed("build")
     \/ err' = "error" /\ Goto("close")
  /\ UNCHANGED <<ctxVars, buildVars>>

MayBuild == image' \in {image, "new"}

ImageBuild ==
  /\ pc = "build" /\ UNCHANGED <<ctxVars, cfg, work, opened, push>>
  /\ \/ sent /\ Proceed("copy") /\ UNCHANGED image
     \/ Broken("close") /\ (IF sent THEN MayBuild ELSE UNCHANGED image)

FaultyCopyBuildLog ==              \* variant: the stream does not belong to the context
  /\ pc = "copy" /\ UNCHANGED <<ctxVars, cfg, work, opened, push>>
  /\ ctx = "live" /\ MayBuild /\ Proceed(IF cfg = "push" THEN "push" ELSE "close")
\* The stream goes to the log unread: the error of a build that failed is not noticed.
CopyBuildLog ==
  /\ pc = "copy" /\ UNCHANGED <<ctxVars, cfg, work, opened, push>>
  /\ \/ sent /\ MayBuild /\ Proceed(IF cfg = "push" THEN "push" ELSE "close")
     \/ Broken("close") /\ (IF sent THEN MayBuild ELSE UNCHANGED image)

\* The stream that tells how the push goes is neither read nor closed.
ImagePush ==
  /\ pc = "push"
  /\ \/ sent /\ push' = "going" /\ Proceed("close")
     \/ Broken("close") /\ UNCHANGED push
  /\ UNCHANGED <<ctxVars, cfg, work, opened, image>>

\* The deferred Close of the build context removes the workspace.
CloseContext ==
  /\ pc = "close" /\ work' = FALSE /\ Return(err)
  /\ UNCHANGED <<ctxVars, cfg, opened, image, push>>

Run ==
  \/ AddDockerfile \/ AsTarReader \/ ImageBuild \/ CopyBuildLog \/ ImagePush
  \/ CloseContext

Next == EndContext \/ DeleteWorkspace \/ PushEnds \/ Run

Spec == Init /\ [][Next]_vars

\* With its context live Run may wait for the daemon for ever.
FairSpec == Spec /\ WF_vars(ctx # "live" /\ Run)

-----------------------------------------------------------------------------
(* Properties. *)

\* Once the build context was made, every return takes the workspace away, and with it
\* what the next flow works on.
ContextClosed == ret # "none" /\ opened => ~work

\* A flow whose context had ended before it began leaves the daemon alone.
LateBuildsNothing == late => image # "new" /\ push = "none"

FR == INSTANCE FlowRunner WITH kind <- "DockerBuild"

\* The runner does what the processor takes for granted of it.
ImplementsFlowRunner == FR!FairSpec
=============================================================================

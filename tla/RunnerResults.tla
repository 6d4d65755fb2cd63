---------------------------- MODULE RunnerResults ----------------------------
(***************************************************************************)
(* The flow types, and what the runner of each may return: "ok", "error",  *)
(* or "canceled", an error that errors.Is finds to be context.Canceled.    *)
(* FlowRunner makes a specification of it, which the modules of the single *)
(* runners implement; Processor calls runners by these results alone.      *)
(***************************************************************************)

\* "Unknown" is a type without a runner.
Kind == {"Git", "Svn", "Shell", "DockerBuild", "Lua", "Unknown"}

(* "late" says that a runner's context had ended before it was called, ctx  *)
(* is the state of the context when it returns.                             *)

FaultyContextAware(late, ctx) ==   \* variant: a deadline counts as canceled
  {"error"} \cup (IF late THEN {} ELSE {"ok"})
            \cup (IF ctx # "live" THEN {"canceled"} ELSE {})
ContextAware(late, ctx) ==
  {"error"} \cup (IF late THEN {} ELSE {"ok"})
            \cup (IF ctx = "canceled" THEN {"canceled"} ELSE {})

\* The repository of a plain clone; any other VCS wraps a nil error, which is nil.
FaultyScmResults(kind, late, ctx) == {"ok"}   \* variant: a clone's error is lost too
ScmResults(kind, late, ctx) ==
  IF kind = "Git" THEN ContextAware(late, ctx) ELSE {"ok"}

\* Canceled while waiting for the container it answers "timeout", elsewhere it
\* passes the docker client's error on.
ShellResults(late, ctx) == ContextAware(late, ctx)

DockerBuildResults(late, ctx) == ContextAware(late, ctx)

\* The interpreter raises the context's error as a Lua error, its text only.
LuaResults(late, ctx) == ContextAware(late, ctx) \ {"canceled"}

\* A flow type without a runner is an error; a panic in a runner becomes one, that
\* of a flow without the part its type needs (a null in the JSON list) included.
RunFlowResults(kind, late, ctx) ==
  CASE kind \in {"Git", "Svn"} -> ScmResults(kind, late, ctx)
    [] kind = "Shell"          -> ShellResults(late, ctx)
    [] kind = "DockerBuild"    -> DockerBuildResults(late, ctx)
    [] kind = "Lua"            -> LuaResults(late, ctx)
    [] OTHER                   -> {"error"}
=============================================================================

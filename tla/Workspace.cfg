SPECIFICATION Spec
CONSTANTS
  FlowKind = {"Git", "Svn", "Shell", "DockerBuild", "Lua"}
  MaxFlows = 5
INVARIANTS ShellNeedsWorkspace ClonesNeedClearing NoScriptInImage
CHECK_DEADLOCK FALSE

SPECIFICATION Spec
CONSTANTS
  h1 = h1
  h2 = h2
  Build = {web1}
  Web = {web1}
  Pipelines <- ShortPipelines
  Handler = {h1, h2}
  NoReq = NoReq
SYMMETRY HandlerSymmetry
INVARIANTS VerdictMatches CanceledOnlyByRequest WorkspaceReclaimed CrashExplained
PROPERTIES ViewMonotone ImplementsBuildLife
CHECK_DEADLOCK FALSE

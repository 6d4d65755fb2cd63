SPECIFICATION FairSpec
CONSTANTS
  h1 = h1
  h2 = h2
  Build = {grpc1}
  Web = {}
  Pipelines <- LongPipelines
  Handler = {h1, h2}
  NoReq = NoReq
INVARIANTS UnlistedIsStopped
PROPERTIES EndedBuildWindsUp RunEnds
CHECK_DEADLOCK FALSE

SPECIFICATION Spec
CONSTANTS
  h1 = h1
  h2 = h2
  Build = {grpc1}
  Web = {}
  Pipelines <- ShortPipelines
  Handler = {h1}
  NoReq = NoReq
PROPERTIES DeletedStaysDeleted
CHECK_DEADLOCK FALSE

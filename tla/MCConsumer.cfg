SPECIFICATION FairSpec
CONSTANTS
  w1 = w1
  w2 = w2
  Worker = {w1, w2}
  Message = {web1, grpc1, grpc2, bad1}
  Grpc = {grpc1, grpc2}
  Malformed = {bad1}
  Empty = {grpc2}
  NoMsg = NoMsg
  Cap = 2
INVARIANTS TypeOK OnePlace CrashCause ExitLeavesNoRun ShutdownBounded
PROPERTIES ImplementsWorkQueue AcceptedIsServed ShutdownCompletes
CHECK_DEADLOCK FALSE

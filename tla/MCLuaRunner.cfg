SPECIFICATION FairSpec
CONSTANTS
  s1 = s1
  s2 = s2
  t1 = t1
  b1 = b1
  b2 = b2
  Script = {s1, s2, t1}
  BuildOf <- TwoBuilds
  None = None
INVARIANTS NoSharedVM WritesOwnBuild
PROPERTIES ImplementsFlowRunner
CHECK_DEADLOCK FALSE

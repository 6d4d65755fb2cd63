SPECIFICATION FairSpec
INVARIANTS LeftoverExplained OkMeansRan
PROPERTIES ImplementsFlowRunner
CHECK_DEADLOCK FALSE

SPECIFICATION FairSpec
INVARIANTS ContextClosed
PROPERTIES ImplementsFlowRunner
CHECK_DEADLOCK FALSE

SPECIFICATION FairSpec
INVARIANTS UsedIsRendered
PROPERTIES ImplementsFlowRunner
CHECK_DEADLOCK FALSE

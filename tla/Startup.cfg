SPECIFICATION FairSpec
CONSTANTS
  Undefined = {"other"}
  MaxGiven = 2
  MaxSignals = 2
PROPERTIES NoHalfService SignalEnds
CHECK_DEADLOCK FALSE

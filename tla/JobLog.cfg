SPECIFICATION Spec
CONSTANTS
  Reader = {r1, r2}
  MaxLines = 2
  MaxReads = 2
INVARIANTS LogOnlyGrows LogIsKept
CHECK_DEADLOCK FALSE

SPECIFICATION Spec
CONSTANTS
  BUF_SZ = 7
  CMD_SZ = 4
  Lengths = {0, 2, 3}
  MAX_LINES = 4
INVARIANTS
  DiscardsLongLinesOnly
CHECK_DEADLOCK FALSE

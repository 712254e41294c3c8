SPECIFICATION DemoSpec
CONSTANTS
  PD_T = 2
  ESI_SLACK = 1
  SEGSTATE_SET_N = 2
  NSegments = 3
  NFiles = 3
  MAX_REPAIR = 1
  SOCK_CAP = 2
  READY_FD = FALSE
  IOErrors = FALSE
  TOI_MOD = 4
  Overheads = {0, 50}
  NET_CAP = 2
  Fifo = FALSE
  FileSize <- MCFileSize
INVARIANTS
  NoAbort
CHECK_DEADLOCK FALSE

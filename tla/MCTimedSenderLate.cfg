SPECIFICATION Spec
CONSTANTS
  PD_T = 2
  ESI_SLACK = 0
  NFiles = 3
  FileSize <- MCFileSize
  Duration <- MCDuration
  HEADER = 1
  BURST = 4
  Speeds = {1, 3}
  MAX_BUSY = 0
  MAX_CMDS = 2
INVARIANTS
  CommandsServed
CHECK_DEADLOCK FALSE

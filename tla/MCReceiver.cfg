SPECIFICATION Spec
CONSTANTS
  PD_T = 2
  ESI_SLACK = 0
  SEGSTATE_SET_N = 3
  NSegments = 3
  NFiles = 4
  FileSize <- MCFileSize
  MAX_REPAIR = 1
  SOCK_CAP = 1
  READY_FD = TRUE
  IOErrors = TRUE
INVARIANTS
  TypeOK
  RingConsistent
  OneWriter
  NoMissedStart
  ClosedBelowNewest
  WriteAfterDeadline
PROPERTIES
  SegmentLifecycle
  Reassembles
CHECK_DEADLOCK FALSE

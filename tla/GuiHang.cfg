SPECIFICATION FairSpec
CONSTANTS
  Slow = {"mpv", "recv", "sender"}
  EarlyDeath = FALSE
  SpawnErrors = FALSE
  FD_MAX = 3
  Positions = {0, 1}
  SAVED = 1
  MAX_GEN = 2
CHECK_DEADLOCK FALSE
PROPERTIES
  WaitEnds

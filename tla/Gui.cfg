SPECIFICATION FairSpec
CONSTANTS
  Slow = {"mpv"}
  EarlyDeath = TRUE
  SpawnErrors = TRUE
  FD_MAX = 3
  Positions = {0, 1}
  SAVED = 1
  MAX_GEN = 3
CHECK_DEADLOCK FALSE
INVARIANTS
  SenderAfterReady
  OneStream
  InStep
PROPERTIES
  OldOnesDie
  ReadyOrDead

SPECIFICATION FairSpec
CONSTANTS
  PD_T = 2
  ESI_SLACK = 2
  SndFiles = 3
  SndSize <- MCSndSize
  TOI_MOD = 4
  Overheads = {0, 50, 100}
  NET_CAP = 10
  IOErrors = TRUE
  NFiles = 3
  FileSize <- MCFileSize
  Duration <- MCDuration
  HEADER = 1
  BURST = 4
  Speeds = {0, 1, 3}
  MAX_BUSY = 1
  MAX_CMDS = 1
  BUF_SZ = 7
  CMD_SZ = 4
  Lengths = {0, 2, 4, 7}
  MAX_LINES = 3
  BLOCK_K = 2
  H_MULT = 5
  Ids = {0, 1, 2, 9, 11, 13}
  Cases <- MCCases
  InterWorkSize <- InterWork
  InterProgSize <- InterProg
  InterSymNum <- InterSym
  OutWorkSize <- OutWork
  OutProgSize <- OutProg
  AllocErrors = FALSE
  MAX_CALLS = 4
  BUF = 4
  ARR = 1
  Lines <- MCLines
  LIST_LINES = 3
  PD_MAX_K = 6
  INT_MAX = 127
  MAX_LEN = 300
  NS = 5
  SUB = 3
  START_TIMES <- MCStarts
  Delays <- MCDelays
  MAX_ADDS = 2
  win_sz = 3
  Steps = {1, 2, 5}
  MAX_TIME = 10
INVARIANTS
  StreamOrder
  RateBounded
  Paced
  EveryCharacterOnce
  CommandsInOrder
  ExitsAtEnd
  ProbeFinds
  TableMatchesArray
  EveryCaseFits
  HeapExact
  SameNumbering
  OwnDuration
  SentWhole
  SameParams
  Normalised
  Accurate
  WindowIsFull
  LoadIsSound
PROPERTIES
  TransmissionEnds
  OnlyDelays
  ProbeEnds
  ImplementsSymbolSet
CHECK_DEADLOCK FALSE

SPECIFICATION Spec
CONSTANTS
  Boards = {b1}
  NoBoard = NoBoard
  Sockets = {s1}
  NoSock = NoSock
  MaxSeq = 3
  Unknown = {}
  Subscribed = {}
  InOrder = FALSE
  CatchUpMayFail = TRUE
  FetchJournal = TRUE
  ResyncThreshold = 2
  MaxCatchUp = 2
  MaxBuffer = 1
  MaxAttempts = 3
  MaxMounts = 2
  MaxDrops = 1
  MaxRehydrations = 1
  MaxFailures = 1
INVARIANTS NoStrandedEvent ProjectionIsPrefix
CHECK_DEADLOCK FALSE

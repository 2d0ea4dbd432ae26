SPECIFICATION FairSpec
CONSTANTS
  Boards = {b1}
  NoBoard = NoBoard
  Sockets = {s1}
  NoSock = NoSock
  MaxSeq = 4
  Unknown = {}
  Subscribed = {b1}
  InOrder = TRUE
  CatchUpMayFail = FALSE
  FetchJournal = FALSE
  ResyncThreshold = 4
  MaxCatchUp = 4
  MaxBuffer = 2
  MaxAttempts = 3
  MaxMounts = 1
  MaxDrops = 1
  MaxRehydrations = 0
  MaxFailures = 0
INVARIANTS NothingLostBelowMark
PROPERTIES EventuallySeen
CHECK_DEADLOCK FALSE

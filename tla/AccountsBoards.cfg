SPECIFICATION MembersSpec
CONSTANTS
  Emails = {e1, e2}
  Slugs = {s1}
  Requests = {r1, r2, r3}
  MaxLinks = 2
  MayFail = TRUE
  None = None
  BoardUsers = {e1, e2, e3}
  Creator = e3
  BoardSlots = {r1, r2, r3}
  MaxRows = 2
  MaxBoardRequests = 4
  NoRow = NoRow
  NoUser = NoUser
  NoRequest = NoRequest
SYMMETRY Interchangeable
INVARIANTS
  SignupComplete
  ChangedByItsLink
  OneLiveLink
  LinkWorksOnce
  BoardKeepsOwner
  OneActiveRow
  EventsTellBoard
CHECK_DEADLOCK FALSE

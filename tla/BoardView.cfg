SPECIFICATION ShownSpec
CONSTANTS
  Cards = {c1, c2}
  Lists = {l1, l2}
  Mutations = {m1}
  MaxRemote = 1
  MaxDrags = 1
  MaxDetours = 1
  Absent = Absent
  None = None
  Titles = {l1, l2}
  Gone = Gone
  MaxTyped = 2
  MaxSaves = 2
  MaxNavigations = 1
  MaxOthers = 1
  Requests = {c1, c2}
  Drafts = {l1, l2}
  Over = Over
  MaxReloads = 1
SYMMETRY MCSymmetry
INVARIANTS
  ViewFollowsEvents
  CleanBoardConsistent
  RestoredOnce
  ShownIsSaved
  TypedTextKept
  OrphansOnlyByClose
CHECK_DEADLOCK FALSE

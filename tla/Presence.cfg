SPECIFICATION PresenceSpec
CONSTANTS
  ann = ann
  bob = bob
  annsTab = annsTab
  bobsTab = bobsTab
  Users = {ann, bob}
  Tabs <- MCTabs
  UserOf <- MCUserOf
  Pages = {p}
  None = None
  MaxConns <- MCMaxConns
  MaxQueue = 1
INVARIANTS
  GhostsOnlyMissed
  DeadWithinReach
PROPERTIES
  ShownWhilePresent
CHECK_DEADLOCK FALSE

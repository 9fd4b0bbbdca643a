SPECIFICATION Spec
CONSTANTS
  t1 = t1
  t2 = t2
  t3 = t3
  NoTarget = NoTarget
  Targets <- MCTargets
  Urls <- MCUrls
  StartURL = "a"
  Beginnings <- MCBeginnings
  SetupSessions <- MCSetupSessions
  MaxMoves = 2
CHECK_DEADLOCK FALSE
INVARIANTS
  NoGhostTabs
  RestoreFocuses
  FlushedStands
  SetupSaved

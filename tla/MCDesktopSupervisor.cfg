SPECIFICATION DeskSpec
CONSTANTS
  s1 = s1
  s2 = s2
  t1 = t1
  NoServer = NoServer
  NoTimer = NoTimer
  Servers <- MCServers
  Timers <- MCTimers
  MaxRevision = 4
  MaxRequests = 1
CHECK_DEADLOCK FALSE
INVARIANTS
  ChildrenHeld
PROPERTIES
  SetupNeedsConsent
  Supervised

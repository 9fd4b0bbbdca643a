SPECIFICATION FairSpec
CONSTANTS
  c1 = c1
  Clients <- OneClient
  MaxRevision = 7
  MaxSetups = 2
CHECK_DEADLOCK FALSE
INVARIANTS
  BrowsersAccountedFor
  NoInputAfterSnapshot
  ClientsConverge
PROPERTIES
  ShutdownCompletes

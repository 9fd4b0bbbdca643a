SPECIFICATION Spec
CONSTANTS
  c1 = c1
  c2 = c2
  Clients <- MCClients
  QueueCap = 1
  MaxSubs = 2
  MaxChunks = 2
  MaxCommands = 3
CHECK_DEADLOCK FALSE
INVARIANTS
  CaptureAsNeeded
  ClientKnows

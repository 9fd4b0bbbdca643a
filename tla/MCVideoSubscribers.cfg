SPECIFICATION Spec
CONSTANTS
  c1 = c1
  c2 = c2
  Clients <- MCClients
  MaxSubs = 2
  MaxRetries = 1
  MaxHandoffs = 1
SYMMETRY Symmetry
CHECK_DEADLOCK FALSE
INVARIANTS
  NoStraySubscription
  ReadyIsServed

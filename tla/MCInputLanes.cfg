SPECIFICATION InputSpec
CONSTANTS
    c1 = c1
    c2 = c2
    s1 = s1
    s2 = s2
    Clients = {c1, c2}
    NoClient = NoClient
    Sessions = {s1, s2}
    NoSession = NoSession
    LaneSets = {{"touch"}, {"pointer"}}
    Points = {1, 2}
    Buttons = {"left"}
    QueueLimit = 2
    MaxContacts = 2
    MaxSends = 3
    MaxEvents = 2
CHECK_DEADLOCK FALSE
INVARIANTS
  HeldInputOwned
  EdgesReliable
PROPERTIES
  DepartedLetGo

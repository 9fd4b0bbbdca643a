SPECIFICATION ConnSpec
CONSTANTS
  Callers = {c1, h}
  Handler = h
  MaxEvents = 2
  c1 = c1
  h = h
CHECK_DEADLOCK FALSE
INVARIANTS
  RepliesFit
PROPERTIES
  CloseEnds
  CallsReturn
  EventsDispatched
  LossNoticed

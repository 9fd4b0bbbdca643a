SPECIFICATION Spec
CONSTANTS
  Sub = {s1, s2}
  SubQueueCap = 1
  MaxGen = 3
  MaxAU = 3
CHECK_DEADLOCK FALSE
INVARIANTS
  NeverStranded
  Decodable
PROPERTIES
  KeyframeNotDiscarded

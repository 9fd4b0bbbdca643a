SPECIFICATION Spec
CONSTANTS
  ControlCap = 1
  VideoCap = 2
  AudioCap = 1
  MaxText = 1
  MaxFrame = 4
  MaxAudio = 2
  MaxEpoch = 2
CHECK_DEADLOCK FALSE
INVARIANTS
  LaneContinuous
PROPERTIES
  PauseBoundary
  ControlDelivered

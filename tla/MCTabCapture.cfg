SPECIFICATION CaptureSpec
CONSTANTS
  MaxStarts = 2
  MaxActions = 2
  MaxFrames = 1
CHECK_DEADLOCK FALSE
PROPERTIES
  CaptureFailureReported
  StartEnds

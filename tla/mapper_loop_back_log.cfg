SPECIFICATION Spec
CONSTANTS
  AutoMode = FALSE
  NFrames = 3
  FrameSpan = 2
  Clouds <- Usable
  MaxInFlight = 2
  MAX_INI_COUNT = 1
CHECK_DEADLOCK FALSE
INVARIANTS
  FrameKeepsItsStamp

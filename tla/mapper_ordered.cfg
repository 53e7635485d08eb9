SPECIFICATION FairSpec
CONSTANTS
  AutoMode = FALSE
  NFrames = 3
  FrameSpan = 2
  Clouds <- AllClouds
  MaxInFlight = 1
  MAX_INI_COUNT = 1
CHECK_DEADLOCK FALSE
INVARIANTS
  FrameKeepsItsStamp
  EachFrameOnce
  ImuCoversFrame
PROPERTIES
  FramesGetThrough

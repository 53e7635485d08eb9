SPECIFICATION Spec
CONSTANTS
  AutoMode = TRUE
  NFrames = 2
  FrameSpan = 2
  Clouds <- AllClouds
  MaxInFlight = 2
  MAX_INI_COUNT = 1
CHECK_DEADLOCK FALSE
INVARIANTS
  ImuAscends
PROPERTIES
  FileGrows

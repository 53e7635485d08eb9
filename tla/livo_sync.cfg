SPECIFICATION Spec
CONSTANTS
  Modes = {"LIVO", "ONLY_LIO", "ONLY_LO"}
  NFrames = 3
  Span = 2
  SamplePeriod = 2
  Stamps = {2, 3, 4, 6}
  NImages = 4
  Match = 2
  MAX_INI_COUNT = 1
  ScanNums = {1, 2}
CHECK_DEADLOCK FALSE
INVARIANTS
  ColouredOnce
  TimeJumpsOnlyIf
  PointsOnTime
  NoPointLost
  SamplesCoverFrame

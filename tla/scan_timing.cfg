SPECIFICATION ScanSpec
CONSTANTS
  LidarTypes <- MCLidarTypes
  N_SCANS = 1
  point_filter_num = 1
  Gap = 2
  Turn = 3
  Scans <- MCScans
  SamplePeriod = 2
  MaxTime = 8
  MaxLost = 1
  Garbage <- MCGarbage
CHECK_DEADLOCK FALSE
INVARIANTS
  TimesAscend
  NeverTooLate
  CoversFrame
  EachPointOnce

SPECIFICATION StopFairSpec
CONSTANTS
  Pids = {p1, p2, p3}
  NoPid = NoPid
  sigterm_timeout = 5
  sigkill_timeout = 2
CHECK_DEADLOCK FALSE
INVARIANTS
  ForgottenIsDoomed
PROPERTIES
  KilledOnlyIfDeaf
  RecorderSpec
  StopReturns

SPECIFICATION FairSpec
CONSTANTS
  Fds = {f1, f2}
  NoFd = NoFd
  MaxErrors = 2
  HalfTurn = 2
  Linear <- MCLinear
  Angular <- MCAngular
  MaxLinear = 1
  MaxAngular = 1
  Faults = TRUE
INVARIANTS
  PortOwned
PROPERTIES
  StopForgetsHeading
  CommandsGetThrough
  WatchdogStopsWheels

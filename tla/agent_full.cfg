SPECIFICATION Spec
CONSTANTS
  O = O
  A = A
  B = B
  NoPid = NoPid
  NoPose = NoPose
  NoGoal = NoGoal
  Pids = {p1, p2}
  Goals = {g1, g2}
  Places <- MCSplitPlaces
  Origin = O
  FixedWaypoints <- MCFixed
  Connected <- MCSplitConnected
  Params <- AllParams
  Commands <- AllCommands
INVARIANTS
  TaskIsPlanned
  NeverWaitsOnNothing
  HandleIsAwaited
  NoGoalSilentlyDropped
  ChildrenTracked

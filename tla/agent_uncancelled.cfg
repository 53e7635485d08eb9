SPECIFICATION FairSpec
CONSTANTS
  O = O
  A = A
  B = B
  NoPid = NoPid
  NoPose = NoPose
  NoGoal = NoGoal
  Pids = {p1}
  Goals = {g1, g2}
  Places <- MCSplitPlaces
  Origin = O
  FixedWaypoints <- MCFixed
  Connected <- MCSplitConnected
  Params <- AllParams
  Commands <- UncancelledCommands
INVARIANTS
  OneGoalAtATime
PROPERTIES
  CompletionIsEarned
  MissionEnds

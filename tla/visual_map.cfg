SPECIFICATION Spec
CONSTANTS
  Positions <- MCPositions
  voxel_size = 2
  Cameras <- MCCameras
  grid_size = 3
  length = 2
  Correction <- MCCorrection
  Scans <- MCScans
  MinScan = 1
  Far = 0
  MaxObs = 3
  RefMin = 1
  ConvergeMin = 2
  Scores <- MCScores
  MaxFrames = 4
  MaxMapped = 2
CHECK_DEADLOCK FALSE
INVARIANTS
  RefIsObserved
  ObservationsBounded
  NoDoubles

SPECIFICATION VoxelSpec
CONSTANTS
  MaxLayer = 2
  Cells <- MCCells
  PointsThreshold = 1
  UpdateThreshold = 1
  MaxPoints = 4
  FirstScan = 5
INVARIANTS
  EveryPlaneFound
  PlanesKeepUp
  MemoryBounded

SPECIFICATION Spec
CONSTANTS
  NoData = 1000
  Scenarios <- BowTie
  CellSize = 4
  Buffer = 1
  TerrainCellSize = 2
  SearchRadius = 1
  Percentile = 5
  MaxDensityDelta = 5
  MinDensity = 1
INVARIANTS
  SurfacesAreManifold

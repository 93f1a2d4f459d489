SPECIFICATION Spec
CONSTANTS
  NTiles = 2
  MaxBuildings = 2
  Corners = {1, 2}
  Values = {1, 2}
  Configs <- OutputFiles
  MaxFailed = 2
  MaxUnopenable = 1
INVARIANTS
  NothingSilentlyLost
  CountIsOutput
  DistinctIds
PROPERTY
  ImplementsOutput
CHECK_DEADLOCK FALSE

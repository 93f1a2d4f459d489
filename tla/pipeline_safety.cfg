SPECIFICATION Spec
CONSTANTS
  w1 = w1
  w2 = w2
  NTiles = 2
  BuildingsCnt <- TwoAndOne
  Workers <- TwoWorkers
  CropOnly = FALSE
  Tracing = TRUE
  Faults = {"crop_exception", "crop_exit", "write_exception"}
INVARIANTS
  SleepersAreWoken
  StoppedStagesAreDrained
  EachBuildingOnce
  SortedTilesInOrder
PROPERTIES
  ImplementsBatch
CHECK_DEADLOCK FALSE

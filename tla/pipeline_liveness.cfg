SPECIFICATION FairSpec
CONSTANTS
  w1 = w1
  w2 = w2
  NTiles = 2
  BuildingsCnt <- TwoAndOne
  Workers <- OneWorker
  CropOnly = FALSE
  Tracing = FALSE
  Faults = {"crop_exception"}
PROPERTIES
  EveryCroppedTileIsWritten
  ComesToRest
CHECK_DEADLOCK FALSE

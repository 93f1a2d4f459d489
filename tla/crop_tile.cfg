SPECIFICATION CropOrSelectSpec
CONSTANTS
  NTiles = 3
  MaxFootprints = 2
  Clouds = {p1}
  Contents <- SomeContents
  MinPoints = {0, 2}
  MaxNoData = {0, 1}
  Strategies = {"BUFFER_TILE", "BUFFER_USER", "USER"}
  Faults = {"identifier", "write"}
  N = 3
  Qualities = {1, 2}
  Dates = {0, 1}
  NoDataFractions = {0, 1}
  NoDataRadii = {0, 1}
  Yocs <- SomeYocs
  threshold_nodata = 0
  threshold_maxcircle = 0
INVARIANTS
  OwnDataUnlessLeftover
  InsufficientByOwnData
  FloorUnlessNoPoints
  NotOutdated
  ExplanationIsTrue
CHECK_DEADLOCK FALSE

SPECIFICATION ExtruderSpec
CONSTANTS
  Width = 5
  Height = 5
  NoData <- MCNoData
  snap_tolerance = 2
  height_tolerance = 1
  Sites <- MCSites
INVARIANTS
  FootprintIsKept
  HolesAreMarked
  LevelsAreApart
  SolidIsClosed

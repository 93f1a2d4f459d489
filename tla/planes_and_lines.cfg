SPECIFICATION FeaturesSpec
CONSTANTS
  Roofs <- MCRoofs
  min_plane_points = 3
  max_plane_count = 7
  Rings <- MCRings
  min_point_count_range <- MCRange
  Line <- MCLine
  InputLines <- MCInputLines
  angle_threshold = 7
  dist_threshold = 4
  extension = 3
  Garbage <- MCGarbage
INVARIANTS
  RegionsAreClean
  LabelsMatchPlanes
  SegmentsFollowRing
  TableIsCurrent
  ClustersAreApart
  EachLineInOneCluster
CHECK_DEADLOCK FALSE

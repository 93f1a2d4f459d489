SPECIFICATION SnapperSpec
CONSTANTS
  manifold_height_tolerance = 1
  NoCost = 536870911
  Sites <- MCSites
  kind <- MCKind
  height <- MCHeight
  ground = 0
  RayCounts <- MCRays
INVARIANTS
  
  LanesAreOptimal

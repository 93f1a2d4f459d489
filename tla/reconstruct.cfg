SPECIFICATION Spec
CONSTANT Throws = TRUE
INVARIANTS
  ModeDescribesGeometry
  FallbackOnlyIfInsufficient
  EmptyOnlyWithoutHeights
CHECK_DEADLOCK FALSE

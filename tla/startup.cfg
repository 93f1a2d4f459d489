SPECIFICATION Spec
CONSTANTS
  Scenarios <- MCScenarios
  Layer <- MCLayer
  Fields <- MCFields
  UserBox <- MCUserBox
  TileSize = 2
INVARIANTS
  Precedence
  EachFootprintOnce
  AttributesAligned

SPECIFICATION ArraySpec
CONSTANTS
  PageSize = 2
  MapPages = 8
  Modulus = 64
  Image <- ImageLow
  Fixed = 4
  HandlerSize = 1
  FirstProcess = TRUE
  Sizes = {1, 3, 4}
  MaxBlocks = 3
  InitialCapacity = 1
PROPERTY ProtectReachesAll
CHECK_DEADLOCK FALSE

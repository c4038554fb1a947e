SPECIFICATION ArraySpec
CONSTANTS
  PageSize = 2
  MapPages = 8
  Modulus = 64
  Image <- ImageLow
  Fixed = 12
  HandlerSize = 1
  FirstProcess = TRUE
  Sizes = {1, 52, 62, 63}
  MaxBlocks = 5
  InitialCapacity = 1
INVARIANT NeverAtZero
CHECK_DEADLOCK FALSE

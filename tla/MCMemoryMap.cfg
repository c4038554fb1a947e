SPECIFICATION ArraySpec
CONSTANTS
  PageSize = 2
  MapPages = 8
  Modulus = 64
  Image <- ImageLow
  Fixed = 4
  HandlerSize = 1
  FirstProcess = FALSE
  Sizes = {0, 1, 3}
  MaxBlocks = 6
  InitialCapacity = 1
INVARIANTS
  TypeOK
  LiveOwned
  Disjoint
  SearchSound
  ArrayInOrder
  ArrayFits
PROPERTY WritableStays
CHECK_DEADLOCK FALSE

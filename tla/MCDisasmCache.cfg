SPECIFICATION CacheSpec
CONSTANTS
  PageSize = 2
  MapPages = 7
  Modulus = 64
  Image <- ImageTwo
  Fixed = 10
  HandlerSize = 1
  FirstProcess = TRUE
  Sizes = {4}
  MaxBlocks = 4
  Length <- LengthOf
  Blank = 2
  MaxWrites = 1
INVARIANTS
  CacheTypeOK
  ContextAligned
  StaleOnlyAtEdges
CHECK_DEADLOCK FALSE

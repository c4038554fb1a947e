SPECIFICATION Spec
CONSTANTS
  Proxies <- OneProxy
  Imports <- TwoImports
  BlockSpan = 4
  MaxLoads = 2
  MaxProcs = 1
  Size <- OneFile
  Directories = {"data"}
  Modulus = 4
  Reach = 8
  MaxHandle = 2
  MaxStreams = 2
INVARIANTS
  TypeOK
  ProcsReach
  HandlesNameTheirOwn
  OnlyDirectoriesLeak
  ErrorIsCurrent
  ReportsExpected
PROPERTY OnlyBackwardMovesDrift
CHECK_DEADLOCK FALSE

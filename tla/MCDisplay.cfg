SPECIFICATION FairSpec
CONSTANTS
  white = white
  ink = ink
  White = white
  Values = {white, ink}
  Width = 3
  Uncopied = 1
  ScreenSize = 6
  Sizes = {6, 4}
  MaxSurfaces = 2
  MaxContexts = 1
INVARIANTS TypeOK Converting
PROPERTIES ImplementsScreen BltReturns
CHECK_DEADLOCK FALSE

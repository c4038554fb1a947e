SPECIFICATION FairSpec
CONSTANTS
  s1 = s1
  s2 = s2
  word = word
  Sites = {s1, s2}
  Procedure = Procedure
  Handler = Handler
  Loop = Loop
  AfterCall = AfterCall
  Scratch = {word}
  Junk = Junk
  Brush = Brush
  Imports <- WithCounter
  StackWords = 35
  MaxLocals = 3
  MaxSends = 2
INVARIANTS TypeOK FramesLinked
PROPERTIES ImplementsWindowCalls SendsReturn
CHECK_DEADLOCK FALSE

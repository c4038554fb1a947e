SPECIFICATION Spec
CONSTANTS
  s1 = s1
  s2 = s2
  word = word
  Sites = {s1, s2}
  Procedure = Procedure
  Handler = Handler
  Loop = Loop
  AfterCall = AfterCall
  Scratch = {word}
  Junk = Junk
  Brush = Brush
  Imports <- WithCounter
  StackWords = 24
  MaxLocals = 2
  MaxSends = 1
INVARIANT PosChangedFilled
CHECK_DEADLOCK FALSE

SPECIFICATION Spec
CONSTANTS
  Bits <- MCBits
  Samples <- MCSamples
  Digits <- MCDigits
  Tasks = {"extend"}
  MemSize = 5
INVARIANT SignsExtended
\* the code ends
CHECK_DEADLOCK FALSE

SPECIFICATION Spec
CONSTANTS
  Registers = 3
  Value <- MCValue
  Zero = 0
  Word = {0, 1}
  Binary <- MCBinary
  Unary <- MCUnary
  Compare <- MCCompare
  Round <- MCRound
  Narrow <- MCNarrow
  Signed <- MCSigned
  Unsigned <- MCUnsigned
  ToWord <- MCToWord
  Garbage <- MCGarbage
  Operand <- MCOperand
  Constants = {0}
  Convertible = {0, 1}
INVARIANT TypeOK
PROPERTIES ImplementsStack OnlyLogarithmDrifts
CHECK_DEADLOCK FALSE

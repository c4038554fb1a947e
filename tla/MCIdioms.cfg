SPECIFICATION FairSpec
CONSTANTS
  Bits <- MCBits
  Samples <- MCSamples
  Digits <- MCDigits
  Tasks <- MCTasks
  MemSize = 5
INVARIANTS
  TypeOK
  WideArithmetic
  ComparisonsAgree
  ProductsAndQuotients
  DecimalDigits
  StringIdioms
  OnlyWordDivisionAborts
PROPERTY Terminates
\* the code ends
CHECK_DEADLOCK FALSE

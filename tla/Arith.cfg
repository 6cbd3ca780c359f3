\* One instruction of every kind, on every combination of many operands, and
\* sequences of three on few.
CONSTANTS
  H = 8
  P = 2
  HI = 4
  Single <- S8
  Double <- D14
  Long <- L18
  Results <- Computed
  Promised <- Ieee754
  RoundingInsns <- AllRounding
  ComparingInsns <- AllComparing
  IntegerInsns <- AllInteger
  LibraryCalls <- AllCalls
  Agree <- SameResult
  Inputs <- AllThenFew
  Operands <- OperandSets
  Integers64 <- Converted64
  Words <- HalfWords
  RmFields = {0, 2, 5, 7}
  CsrFrm = {3, 6}
  CsrFflags <- Written
  InitialFrm = {0, 1, 2, 3, 4}
  MaxInsns = 3
  GoesOn <- AfterFew
SPECIFICATION Spec
INVARIANTS
  FlagsAreSticky
  ArithmeticIsIeee
  ConversionsAreIeee
  OrderIsOne
  LibraryIsIeee
  WideIsInteger
CHECK_DEADLOCK FALSE

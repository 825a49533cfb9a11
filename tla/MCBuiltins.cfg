SPECIFICATION Spec
CONSTANTS
  Width = 5
  Precision = 3
  Depth = 2
  Decimals = 2
  ParseProgram <- Parse
  GenerateProgram <- Generate
  Objects <- AllObjects
  Given <- Calls
  Files <- ProgramFiles
  Env <- Values
INVARIANTS
  ArithmeticAgrees
  OrderKept
  ParsesBack
  WordsComeBack
  ExpandsAsWritten
PROPERTY
  ArgumentsKept
CHECK_DEADLOCK FALSE

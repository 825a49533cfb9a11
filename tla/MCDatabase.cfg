SPECIFICATION BothSpec
CONSTANTS
  Depth = 1
  Width = 16
  Precision = 8
  Decimals = 2
  ParseProgram <- Parse
  GenerateProgram <- Generate
  Things <- AllThings
  Existing = {0, 1}
  StringSize = 40
  MaxSaves = 3
  NULL = NULL
  MaxSize = 5
  Replace = FALSE
  StartSize = 4
  StartFiles = 2
  Births = 2
  Writes = 1
  NoFile = NoFile
  Torn = Torn
INVARIANTS
  TypesOK
  ComesBack
  Settles
  Registered
  NeverTwice
  NoHijack
  RoundTrip
PROPERTIES
  OnlyForward

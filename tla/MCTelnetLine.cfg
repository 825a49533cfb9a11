SPECIFICATION FairSpec
CONSTANTS
  c1 = c1
  x = x
  newline = newline
  NULL = NULL
  Stray = Stray
  Conn = {c1}
  FreshFrame = {NULL, Stray}
  Commands = {"ok", "print", "error", "sleep", "yield", "return", "runaway", "fatal", "redefine"}
  SigPipe = TRUE
  Senders = {c1}
  LineAtATime = TRUE
  Byte = {x, newline}
  Delim = newline
  Capacity = 5
  TickAt = {"scan", "select", "service"}
  MaxSock = 3
  MaxQueue = 2
INVARIANTS
  TypeOK
  NoOrphan

  
CHECK_DEADLOCK FALSE

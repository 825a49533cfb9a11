SPECIFICATION Spec
CONSTANTS
  x = x
  newline = newline
  Byte = {x, newline}
  Delim = newline
  Capacity = 4
  MaxSent = 7
INVARIANTS
  OnlyPeerCloses

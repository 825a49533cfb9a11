SPECIFICATION CollectionsSpec
CONSTANTS
  k1 = k1
  k2 = k2
  k3 = k3
  k4 = k4
  s1 = s1
  s2 = s2
  s3 = s3
  o1 = o1
  o2 = o2
  w1 = w1
  NULL = NULL
  None = None
  Stray = Stray
  Value = {o1, o2}
  Walk = {w1}
  Data = {o1, o2}
  Loops = {w1}
  StartSize = 4
  MaxIndex = 4
  MaxSize = 0
  Replace = TRUE
  HashOf <- Hashes
  Key = {k1, k2, k3, k4}
  Slot = {s1, s2, s3}
  HashStart = 2
INVARIANTS
  RemovedIsGone
SYMMETRY
  Alike
CHECK_DEADLOCK FALSE

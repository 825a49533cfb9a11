SPECIFICATION FairSpec
CONSTANTS
  NULL = NULL
  f1 = f1
  f2 = f2
  Frame = {f1, f2}
  Workload <- Work
  Limit = 60
  MaxArrays = 12
  Fuel = 20
INVARIANTS
  TypeOK
  SharedReturnPoints
  RunsAsMeant
  OneAtATime
  NoneForgotten
PROPERTIES
  RunsEnd
CHECK_DEADLOCK FALSE

SPECIFICATION ListSpec
CONSTANTS
  NULL = NULL
  f1 = f1
  s1 = s1
  s2 = s2
  s3 = s3
  s4 = s4
  Frame = {f1}
  Slot = {s1, s2, s3, s4}
  MaxTime = 2
INVARIANTS
  WellLinked
PROPERTIES
  ImplementsTaskQueue
  ImplementsScheduler

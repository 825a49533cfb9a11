SPECIFICATION Spec
CONSTANTS
  f1 = f1
  f2 = f2
  l1 = l1
  l2 = l2
  p1 = p1
  None = None
  Native = Native
  Denied = Denied
  Mistyped = Mistyped
  MaxThings = 3
  Path <- Paths
  Method <- Methods
  Plain = {p1}
  Lambda = {l1, l2}
  Frame = {f1, f2}
  OwnerOf <- Owners
  Wizard = {0}
  Mode <- Modes
  MaxWrites = 2
INVARIANTS
  TypeOK
  InitializedTopDown
PROPERTIES
  WritesStayBelow
  RightsKept
SYMMETRY
  Alike
CHECK_DEADLOCK FALSE

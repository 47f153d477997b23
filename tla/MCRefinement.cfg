CONSTANTS
  r1 = r1
  r2 = r2
  Rows = {r1, r2}
  Node = Node
  Absent = Absent
  Stable = Stable
  Other = Other
  None = None
  MaxAttempts = 2
  MaxFaults = 2
  MaxCrashes = 1
  MaxMeddles = 1
  MaxTroubles = 2
SPECIFICATION Spec
INVARIANTS
  OneWriter
  StubsKeepContract
PROPERTIES
  RemovalIsEarned
SYMMETRY RowSymmetry
CHECK_DEADLOCK FALSE

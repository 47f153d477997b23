SPECIFICATION FairSpec
CONSTANTS
  p1 = p1
  p2 = p2
  NoPid = NoPid
  Absent = Absent
  Process = {p1, p2}
  Caller <- TwoAndOne
  Of <- ProcessOf
  Alone = FALSE
INVARIANTS
  ExclusionUnlessStolen
PROPERTIES
  NeverWedged
CHECK_DEADLOCK FALSE

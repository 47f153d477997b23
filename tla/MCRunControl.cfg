SPECIFICATION Spec
CONSTANTS
  Pid = {p1, p2}
  Starter = {c1}
  Foreground = {p2}
  Restarts = TRUE
  Interferes = TRUE
  NoPid = NoPid
  Absent = Absent
INVARIANTS
  OneUnlessOverlap
  StopComesFirst
  
PROPERTIES
  OwnerWritesKept
SYMMETRY Alike
CHECK_DEADLOCK FALSE

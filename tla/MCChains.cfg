SPECIFICATION Spec
CONSTANTS
  n1 = n1
  n2 = n2
  Node = {n1, n2}
  Budget = 1
  Repairs = 0
  Relaunches = 1
  Checkpoints = 1
  Integrations = 1
  Driven = {}
  Reports = {"done", "bad", "waiting", "checkpoint", "error"}
  Rulings = {"answer", "redispatch"}
  MaxHandle = 3
  MaxTurn = 1
  MaxQueued = 1
  MaxTrouble = 1
  MaxCrash = 1
INVARIANTS
  HeldIsPending
  
PROPERTIES
  NeverALaterOne
SYMMETRY NodeSym
CHECK_DEADLOCK FALSE

SPECIFICATION Parts
CONSTANTS
  Worker = {w}
  Task = {s, t}
  MaxBranches = 2
  MaxWork = 1
  MaxMoves = 1
  MaxMishaps = 1
  a = a
  b = b
  run = run
  owner = owner
  Budget = 1
  MaxThread = 2
INVARIANTS
  NothingIsLost
  TasksTakeTurns
  ThreadsKeepWork

  
SYMMETRY Interchangeable
CHECK_DEADLOCK FALSE

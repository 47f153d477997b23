CONSTANTS
  Noted = {o1, o2}
  Learned = {x, y}
  ObserveAfter = 1
  ReflectAfter = 1
  MaxChunk = 1
  PoolMax = 2
  PoolTarget = 0
  ReflMax = 1
  ReflTarget = 1
  MaxPasses = 2
  MaxCalls = 1
  MaxMerges = 2
  MaxEntries = 3
  MaxRuns = 2
  MaxTroubles = 1
  journal = journal
  om = om
  k = k
  MaxSession = 5
  MaxEvents = 1
SPECIFICATION Parts
INVARIANTS
  NothingSkipped
  
  
SYMMETRY Alike
CHECK_DEADLOCK FALSE

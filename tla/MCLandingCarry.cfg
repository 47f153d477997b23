SPECIFICATION Parts
CONSTANTS
  root = root
  mid = mid
  leaf = leaf
  Nodes = {root, mid, leaf}
  Root = root
  Owner = Owner
  NoDest = NoDest
  NoCall = NoCall
  Parent <- ChainParent
  Above <- ChainAbove
  MaxReports = 1
  MaxWorkers = 1
  MaxFaults = 1
  MaxCrashes = 1
  MaxOverlaps = 0
  a = a
  b = b
  c1 = c1
  MaxLog = 2
  MaxMishaps = 1
INVARIANTS
  NoneStranded
  
  NobodySleeps
PROPERTIES
  ImplementsContract
  LandedIsFinished
  
CHECK_DEADLOCK FALSE

CONSTANTS
  root = root
  mid = mid
  leaf = leaf
  Nodes = {root, leaf}
  Root = root
  Owner = Owner
  NoDest = NoDest
  NoCall = NoCall
  Parent <- PairParent
  Above <- PairAbove
  MaxReports = 2
  MaxWorkers = 2
  MaxFaults = 1
  MaxCrashes = 1
  MaxOverlaps = 1
SPECIFICATION Spec
INVARIANTS
  TypeOK
  LedgerIsTrue
  ClosedAreDurable
  
PROPERTIES
  NeverMergedTwice
CHECK_DEADLOCK FALSE

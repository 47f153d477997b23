SPECIFICATION FairSpec
CONSTANTS
  tree = tree
  leaf = leaf
  me = me
  you = you
  Slug = {tree, leaf}
  Trackers <- Written
  Tracked <- Shaped
  Owner = {me}
  Scopes = {{leaf}, Project}
  None = None
  Project = Project
  Nobody = Nobody
  MaxPid = 2
  MaxEdits = 2
  MaxTroubles = 1
INVARIANTS
  StartedOnce
PROPERTIES
  AloneInItsTree
  ReadyIsStarted
CHECK_DEADLOCK FALSE

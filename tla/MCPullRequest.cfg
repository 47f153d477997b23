SPECIFICATION Spec
CONSTANTS
  Lands = {"pr-merge", "pr-review"}
  Repairs = 1
  Integrations = 2
  Reviews = {1}
  Kinds = {"changes", "approve"}
  Says = {"done", "bare", "waiting", "ask"}
  MaxHandle = 2
  MaxTurn = 2
  MaxBase = 1
  MaxTheirs = 1
  MaxEvents = 2
INVARIANTS
  MergedCarriesAll
  AnsweredByPush
PROPERTIES
  MergesWhatItGated
CHECK_DEADLOCK FALSE

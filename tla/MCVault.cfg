SPECIFICATION Spec
CONSTANTS
  plan = plan
  part = part
  use = use
  past = past
  Slug = {plan, part, use, past}
  Initial <- Rows
  Requests <- Asked
  None = None
  Absent = Absent
  Nobody = Nobody
  Git = Git
  Dead = Dead
  MaxWrites = 2
  MaxTroubles = 1
INVARIANTS
  
  ToldIsTrue
CHECK_DEADLOCK FALSE

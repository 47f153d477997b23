SPECIFICATION FairSpec
CONSTANTS
    first = first
    second = second
    new1 = new1
    new2 = new2
    None = None
    Tickets = {first, second}
    Fresh = {new1, new2}
    Blocks <- MCBlocks
    NewBlockers = None
    Requests = {"create", "claim", "close", "remove", "move"}
    Claims = {first}
    Closes = {first}
    Moves = {first}
    MaxTrouble = 2
    MaxDeeds = 1
INVARIANTS
  OneIssuePerRequest

  

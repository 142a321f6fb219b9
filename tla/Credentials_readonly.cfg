SPECIFICATION FairSpec
CONSTANTS
  Requests = {r1}
  Saves = {FALSE}
  MaxTokens = 2
  MaxClock = 3
  MaxCalls = 1
PROPERTY UsesInMemoryToken
CHECK_DEADLOCK FALSE

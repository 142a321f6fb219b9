SPECIFICATION FairSpec
CONSTANTS
  Requests = {r1, r2}
  Saves = {TRUE, FALSE}
  MaxTokens = 3
  MaxClock = 2
  MaxCalls = 2
INVARIANT NotLost
PROPERTIES ServedFresh RefusedOnlyIfStale RefreshedOnce CallsEnd
CHECK_DEADLOCK FALSE

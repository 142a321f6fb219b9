SPECIFICATION MCSpec
CONSTANTS
  NumAccounts = 1
  NumListed = 3
  MaxWeight = 4
  r1 = r1
  r2 = r2
  Requests = {r1, r2}
  Weight <- MCWeightEqual
  DefaultBreaker <- MCDefault
  BreakerInputs <- MCFixed
  ManualDurations = {0}
  ErrorCooldown = 1
  QuotaCooldown = 2
  MaxWindow = 2
  MaxFailures = 2
  MaxEvents = 2
INVARIANTS LimitsAct RefusedOnlyWhenAllOpen FairShare
PROPERTY CircuitRetried

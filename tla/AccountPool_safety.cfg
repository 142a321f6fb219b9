SPECIFICATION Spec
CONSTANTS
  NumAccounts = 1
  r1 = r1
  r2 = r2
  Requests = {r1, r2}
  Weight <- MCWeightEqual
  DefaultBreaker <- MCDefault
  BreakerInputs <- MCChanging
  ManualDurations = {0, 3}
  ErrorCooldown = 1
  QuotaCooldown = 2
  MaxWindow = 2
  MaxFailures = 2
  MaxEvents = 3
SYMMETRY RequestSymmetry
INVARIANTS TypeOK BreakerCoherent ErrorsLeaveCooldown
PROPERTY BreakerContract

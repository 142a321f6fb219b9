SPECIFICATION Spec
CONSTANTS
  Requests = {r1}
  Slots = {1, 2}
  QuotaCooldown = 2
  ErrorCooldown = 1
  MaxClock = 2
  MaxErrors = 4
INVARIANT FailsOver
CHECK_DEADLOCK FALSE

SPECIFICATION MCSpec
CONSTANTS
  Accounts = {1, 2}
  r1 = r1
  r2 = r2
  Requests = {r1}
  opus = opus
  Models = {opus}
  sonnet = sonnet
  FallbackModel = sonnet
  noModel = noModel
  NoModel = noModel
  noBody = noBody
  NoBody = noBody
  Weight <- MCWeightTwo
  PostAttempts = 2
  GetAttempts = 1
  FallbackTime = 1
  OpenTime = 1
  BreakerEnabled = TRUE
PROPERTIES FailsOnlyExhausted RejectedTriedAgain NoneStarved

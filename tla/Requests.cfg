SPECIFICATION MCSpec
CONSTANTS
  Requests = {r1, r2, r3}
  Slots = {1, 2}
  QuotaCooldown = 2
  ErrorCooldown = 1
  MaxClock = 3
  MaxErrors = 4
  ClientFormats = {"anthropic", "openai"}
  Tools = {"none", "documented", "misnamed"}
  MaxMessages = 4
  MaxSends = 2
INVARIANTS QuotaRests StrikesNeedOverlap WellFormed NothingLost PairsKept
PROPERTY NoticesSent
CHECK_DEADLOCK FALSE

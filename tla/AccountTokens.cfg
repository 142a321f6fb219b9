SPECIFICATION MCSpec
CONSTANTS
  r1 = r1
  r2 = r2
  a1 = a1
  background = background
  Requests = {r1, r2}
  Background = background
  Admins = {}
  Outcomes <- NoBan
  MaxTokens = 3
  Users = {u1, u2}
  Results = {"ok", "error"}
  Threshold = 3
  CooldownSec = 2
  MaxSessions = 2
INVARIANT TokenStored
PROPERTIES RotationDue BannedLeavePool StaleReplaced SessionsReplaced

SPECIFICATION RepairSpec
CONSTANTS
  p1 = p1
  p2 = p2
  c1 = c1
  Admins = {p1, p2}
  Callers = {c1}
  tokyo = tokyo
  paris = paris
  none = none
  Jumps = {tokyo}
  NoJump = none
  MaxVersions = 1
  MaxGenerations = 5
SYMMETRY AdminSymmetry
INVARIANT Repaired

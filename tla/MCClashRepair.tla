--------------------------- MODULE MCClashRepair ---------------------------
(* Model checking instances of ClashRepair, and so of ClashManager.        *)
EXTENDS ClashRepair, TLC

CONSTANTS p1, p2, c1, tokyo, paris, none

AdminSymmetry == Permutations(Admins)
=============================================================================

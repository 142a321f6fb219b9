---------------------------- MODULE MCAccountPool ----------------------------
(* Model checking instances of AccountPool.                                *)
EXTENDS AccountPool, TLC

CONSTANTS r1, r2

MCWeightEqual == [a \in Accounts |-> 1]

Settings(enabled, threshold, window, open, halfOpen, percent, minReqs) ==
    [Enabled |-> enabled, FailureThreshold |-> threshold,
     FailureWindowSec |-> window, OpenDurationSec |-> open,
     HalfOpenMaxSuccess |-> halfOpen, ErrorRatePercent |-> percent,
     ErrorRateMinReqs |-> minReqs]

(* Trips on the second failure in a row or on half of the last 2 failing.  *)
MCDefault == Settings(TRUE, 2, 2, 2, 2, 50, 2)

(* A stricter breaker, the breaker switched off, and the all-zero record.  *)
MCChanging == {Settings(TRUE, 1, 1, 1, 1, 100, 1),
               Settings(FALSE, 2, 2, 2, 2, 50, 2),
               Settings(FALSE, 0, 0, 0, 0, 0, 0)}

RequestSymmetry == Permutations(Requests)
=============================================================================

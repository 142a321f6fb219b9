----------------------------- MODULE MCSelection -----------------------------
(* Model checking instances of AccountPool as it is in the long run, and   *)
(* of the rotation that it picks accounts by, one of them in each          *)
(* behaviour: one account ("recovery", the constants of the configuration),*)
(* two accounts whose list never changes ("stable"), both with fixed       *)
(* settings of the breaker, and the rotation alone over all weights        *)
(* ("rotation").                                                           *)
EXTENDS AccountPool, SmoothRotation, TLC

CONSTANTS r1, r2

VARIABLE scenario

allVars == <<scenario, vars, rotationVars>>

MCWeightEqual == [a \in Accounts |-> 1]
TwoWeights == <<1, 1>>

Settings(window, open) ==
    [Enabled |-> TRUE, FailureThreshold |-> 2, FailureWindowSec |-> window,
     OpenDurationSec |-> open, HalfOpenMaxSuccess |-> 2,
     ErrorRatePercent |-> 50, ErrorRateMinReqs |-> 2]

(* Trips on the second failure in a row or on half of the last 2 failing.  *)
MCDefault == Settings(2, 2)
MCFixed == {MCDefault}
MCSmallDefault == [Settings(1, 1) EXCEPT !.HalfOpenMaxSuccess = 1]

Two == INSTANCE AccountPool WITH
    NumAccounts <- 2, Requests <- {r1}, Weight <- TwoWeights,
    DefaultBreaker <- MCSmallDefault, BreakerInputs <- {MCSmallDefault},
    QuotaCooldown <- 1, MaxWindow <- 1, MaxEvents <- 1
-----------------------------------------------------------------------------
NoRotation ==
    /\ weight = [a \in Listed |-> 1] /\ churning = FALSE
    /\ score = [a \in Listed |-> 0] /\ picked = [a \in Listed |-> 0]

NoPool == Init /\ \A a \in Accounts : status[a] = "absent"

MCInit ==
    \/ scenario = "recovery" /\ Init /\ NoRotation
    \/ /\ scenario = "stable" /\ NoRotation
       /\ Two!Init /\ \A a \in Two!Accounts : status[a] = "enabled"
    \/ scenario = "rotation" /\ NoPool /\ RotationInit

(* What is left while the list never changes: requests, the clock, tokens  *)
(* and the operator's breaker commands.                                    *)
StableNext ==
    \/ \E r \in {r1} : Two!GetNext(r) \/ Two!Finish(r)
    \/ \E a \in Two!Accounts :
          \/ Two!TokenExpires(a) \/ Two!UpdateToken(a) \/ Two!CloseCircuit(a)
          \/ \E duration \in ManualDurations : Two!ForceOpenCircuit(a, duration)
    \/ Two!AvailableCount
    \/ Two!BreakerSnapshot
    \/ Two!Tick

MCNext ==
    /\ UNCHANGED scenario
    /\ \/ scenario = "recovery" /\ Next /\ UNCHANGED rotationVars
       \/ scenario = "stable" /\ StableNext /\ UNCHANGED rotationVars
       \/ scenario = "rotation" /\ RotationNext /\ UNCHANGED vars

MCFairness ==
    /\ WF_vars(scenario = "recovery" /\ Tick)
    /\ WF_vars(scenario = "recovery" /\ \E r \in Requests : GetNext(r))
    /\ \A r \in Requests : WF_vars(scenario = "recovery" /\ Finish(r))

MCSpec == MCInit /\ [][MCNext]_allVars /\ MCFairness
-----------------------------------------------------------------------------
(* AccountPool and SmoothRotation explain their properties;                *)
(* RefusedOnlyWhenAllOpen is about all accounts in both of the scenarios   *)
(* of the pool, LimitsAct about the first of them.                         *)
(* A circuit that failures opened is tried again.                          *)
CircuitRetried == scenario = "recovery" => OpenCircuitRetried
=============================================================================

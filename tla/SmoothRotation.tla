--------------------------- MODULE SmoothRotation ---------------------------
(***************************************************************************)
(* The smooth weighted round robin on its own, over any weights: how fair  *)
(* is the sequence of picks, when every account is always a candidate and  *)
(* when candidates come and go (circuits open, cooldowns, tokens about to  *)
(* expire)?                                                                *)
(***************************************************************************)
EXTENDS Integers, SmoothWeighted

CONSTANTS
    NumListed,      \* accounts, numbered in list order
    MaxWeight       \* weights up to this one

ASSUME RotationAssumption == NumListed \in Nat /\ MaxWeight \in Nat

Listed == 1..NumListed

VARIABLES
    weight,     \* the configured weights
    score,      \* weightCurrent of the pool, gatewayWeights of the handler
    picked,     \* how often each account was picked in the current round
    churning    \* whether candidates come and go in this behaviour

rotationVars == <<weight, score, picked, churning>>

Round == TotalWeight(weight, Listed)
Made == SumOf(picked, Listed)

RotationInit ==
    /\ weight \in [Listed -> 1..MaxWeight]
    /\ score = [a \in Listed |-> 0]
    /\ picked = [a \in Listed |-> 0]
    /\ churning \in BOOLEAN

(* One pick among some of the accounts.  A round is as many picks as the   *)
(* weights of all the accounts add up to.                                  *)
Pick(candidates) ==
    LET credited == Credited(score, weight, candidates)
        before == IF Made = Round THEN [a \in Listed |-> 0] ELSE picked
    IN \E a \in candidates :
         /\ Wins(a, credited, candidates)
         /\ score' = Charged(a, credited, weight, candidates)
         /\ picked' = [before EXCEPT ![a] = @ + 1]
         /\ UNCHANGED <<weight, churning>>

RotationNext ==
    \E candidates \in SUBSET Listed \ {{}} :
        /\ churning \/ candidates = Listed
        /\ Pick(candidates)

RotationSpec == RotationInit /\ [][RotationNext]_rotationVars

-----------------------------------------------------------------------------
(* The scores stay a bounded debt: what the accounts are owed adds up to   *)
(* nothing, and whichever of n accounts are candidates at each pick, none  *)
(* is owed or owes more than (n - 1) / 2 rounds.                           *)
ScoresBounded ==
    /\ SumOf(score, Listed) = 0
    /\ \A a \in Listed :
          /\ 2 * score[a] <= (NumListed - 1) * Round
          /\ -2 * score[a] <= (NumListed - 1) * Round

(* While every account is a candidate, a full round gives each its exact   *)
(* share (pool/account.go:183), and within a round none is picked a whole  *)
(* pick more often than its weight is due by then.                         *)
SharedExactly ==
    ~churning =>
        /\ \A a \in Listed : picked[a] * Round < weight[a] * Made + Round
        /\ \A a \in Listed : score[a] = weight[a] * Made - picked[a] * Round
        /\ Made = Round => \A a \in Listed : picked[a] = weight[a]

FairShare == ScoresBounded /\ SharedExactly
=============================================================================

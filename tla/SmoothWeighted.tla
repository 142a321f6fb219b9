--------------------------- MODULE SmoothWeighted ---------------------------
(***************************************************************************)
(* The smooth weighted round robin that both account selectors of kiro-go  *)
(* use: pickSmoothWeightedLocked (pool/account.go) and                     *)
(* pickSmoothWeightedGateway (proxy/handler.go).  Every account carries a  *)
(* running score.  A pick adds to the score of every candidate its weight, *)
(* takes the candidate with the largest score, the first one in the list   *)
(* on a tie, and charges the winner the weight of all the candidates.      *)
(*                                                                         *)
(* Accounts are numbered in list order, so "first in the list" is "least". *)
(***************************************************************************)
EXTENDS Integers, FiniteSetsExt

DefaultWeight == 100

(* A weight that is not positive counts as the default one.                *)
EffectiveWeight(w) == IF w <= 0 THEN DefaultWeight ELSE w

(* What f says of the members of S, added up.                              *)
SumOf(f, S) == MapThenSumSet(LAMBDA a : f[a], S)

TotalWeight(weight, candidates) ==
    SumOf([a \in candidates |-> EffectiveWeight(weight[a])], candidates)

(* The scores once every candidate was credited with its own weight.       *)
Credited(score, weight, candidates) ==
    [a \in DOMAIN score |->
        IF a \in candidates THEN score[a] + EffectiveWeight(weight[a])
                            ELSE score[a]]

(* a wins: no candidate before it reaches its score, none after exceeds it *)
Wins(a, credited, candidates) ==
    \A b \in candidates :
        IF b < a THEN credited[b] < credited[a] ELSE credited[b] <= credited[a]

(* Defect: the winner pays its own weight instead of everybody's.          *)
ChargedOwnWeight(a, credited, weight, candidates) ==
    [credited EXCEPT ![a] = @ - EffectiveWeight(weight[a])]

(* The scores after a was picked.                                          *)
Charged(a, credited, weight, candidates) ==
    [credited EXCEPT ![a] = @ - TotalWeight(weight, candidates)]
=============================================================================

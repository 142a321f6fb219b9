-------------------------- MODULE MCGatewayFailover --------------------------
(* Model checking instances of GatewayFailover, one of them in each        *)
(* behaviour: one request and a pool that changes ("pool", the constants   *)
(* of the configuration), two requests and a pool that stays ("models"),   *)
(* one request and three accounts that stay ("accounts").                  *)
EXTENDS GatewayFailover, TLC

CONSTANTS r1, r2, opus, sonnet, noModel, noBody

VARIABLE scenario

allVars == <<scenario, failoverVars>>

MCWeightTwo == <<2, 1>>
MCWeightThree == <<2, 1, 1>>

Steady == INSTANCE GatewayFailover WITH
    Requests <- {r1, r2}, BreakerEnabled <- FALSE

Three == INSTANCE GatewayFailover WITH
    Accounts <- 1..3, Weight <- MCWeightThree, FallbackTime <- 0, BreakerEnabled <- FALSE
-----------------------------------------------------------------------------
MCInit ==
    \/ scenario = "pool" /\ Init
    \/ scenario = "models" /\ Steady!Init /\ eligible = Accounts
    \/ scenario = "accounts" /\ Three!Init /\ eligible = 1..3

(* Without an operator: requests and the clock.                            *)
MCNext ==
    /\ UNCHANGED scenario
    /\ \/ scenario = "pool" /\ Next
       \/ scenario = "models" /\ (Steady!RequestStep \/ Steady!Tick)
       \/ scenario = "accounts" /\ (Three!RequestStep \/ Three!Tick)

MCFairness ==
    /\ \A r \in {r1, r2} :
          /\ WF_failoverVars(scenario = "models" /\ Steady!Proceed(r))
          /\ WF_failoverVars(scenario = "models" /\ \E model \in Asked : Steady!Arrive(r, model))
    /\ WF_failoverVars(scenario = "models" /\ Steady!Tick)
    /\ WF_failoverVars(scenario = "accounts" /\ Three!Proceed(r1))
    /\ WF_failoverVars(scenario = "accounts" /\ \E model \in Asked : Three!Arrive(r1, model))
    /\ WF_failoverVars(scenario = "accounts" /\ Three!Tick)

MCSpec == MCInit /\ [][MCNext]_allVars /\ MCFairness
-----------------------------------------------------------------------------
(* GatewayFailover explains its properties, and its FailsOnlyExhausted is  *)
(* about every scenario.  A rejected model is tried again,                 *)
RejectedTriedAgain == scenario = "models" => Steady!ModelTriedAgain

(* and no account that stays is passed over for ever.                      *)
NoneStarved == scenario = "accounts" => Three!NoAccountStarved
=============================================================================

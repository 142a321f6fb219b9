--------------------------- MODULE MCAccountTokens ---------------------------
(* Model checking instances of what requests to kiro-go share and store    *)
(* without a lock, one of them in each behaviour: the tokens of an account *)
(* (AccountTokens), with requests and the background refresher by          *)
(* themselves ("refreshes", the constants of the configuration), and with  *)
(* an administrator beside them and accounts that get banned ("bans"), on  *)
(* an account of its own; and the session of a tunnel (TunnelSession,      *)
(* "tunnel").                                                              *)
EXTENDS AccountTokens, TunnelSession, TLC

CONSTANTS r1, a1

VARIABLES
    scenario, record, copies, copy, accepted, given, missed, due, request, task

bansVars ==
    <<record, copies, copy, accepted, given, missed, due, request, task>>

NoBan == {"ok", "failed"}
AllOutcomes == {"ok", "suspended", "denied", "failed"}

Bans == INSTANCE AccountTokens WITH
    Requests <- {r1}, Admins <- {a1}, Outcomes <- AllOutcomes, MaxTokens <- 2,
    config <- record, slices <- copies, current <- copy, live <- accepted,
    issued <- given, lost <- missed, expired <- due,
    call <- request, job <- task
-----------------------------------------------------------------------------
MCInit ==
    /\ TokenInit /\ Bans!TokenInit /\ TunnelInit
    /\ scenario \in {"refreshes", "bans", "tunnel"}

MCNext ==
    /\ UNCHANGED scenario
    /\ \/ scenario = "refreshes" /\ TokenNext /\ UNCHANGED <<bansVars, tunnelVars>>
       \/ scenario = "bans" /\ Bans!TokenNext /\ UNCHANGED <<tokenVars, tunnelVars>>
       \/ scenario = "tunnel" /\ TunnelNext /\ UNCHANGED <<tokenVars, bansVars>>

MCSpec ==
    /\ MCInit /\ [][MCNext]_<<scenario, tokenVars, bansVars, tunnelVars>>
    /\ WF_bansVars(scenario = "bans" /\ Bans!JobNext(Background))
    /\ WF_tunnelVars(scenario = "tunnel" /\ Tick)
    /\ \A r \in Users : WF_tunnelVars(scenario = "tunnel" /\ Proceed(r))
-----------------------------------------------------------------------------
(* AccountTokens and TunnelSession explain their properties.  TokenStored  *)
(* is checked where no administrator overwrites tokens.  Banned accounts   *)
(* leave the pool,                                                         *)
BannedLeavePool == Bans!DisabledLeavesPool

(* copies that are stale are replaced,                                     *)
StaleReplaced == Bans!PoolCatchesUp

(* and so are the sessions of a tunnel whose requests fail.                *)
SessionsReplaced == scenario = "tunnel" => RotatesForEver
==============================================================================

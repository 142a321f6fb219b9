----------------------------- MODULE ClashRepair -----------------------------
(***************************************************************************)
(* Admin calls on the Clash manager may overlap, and what they leave       *)
(* behind then need not fit together: nodes parsed with another jump than  *)
(* the one in use, a registry pushed to in the other order, a jump in use  *)
(* that is not the saved one.  How long does that last?  This module adds  *)
(* to ClashManager the history that tells: a change of the jump that runs  *)
(* alone and re-parses the nodes, or a restart, sets everything right, and *)
(* it stays right until calls overlap again.                               *)
(***************************************************************************)
EXTENDS ClashManager

VARIABLES
    overlapped,   \* calls have overlapped since no call was running
    settled       \* set right, and no calls have overlapped since

repairVars == <<clashVars, overlapped, settled>>

Busy == {p \in Admins : admin[p].step # "idle"}
Several == \E p, q \in Busy : p # q

(* A change of the jump returns that re-parsed the nodes.                  *)
JumpChanged ==
    \E p \in Busy : /\ admin[p].step = "save" /\ admin[p].parsed # NoNodes
                    /\ admin'[p].step = "idle"

History ==
    /\ overlapped' = (Several' \/ (overlapped /\ Busy' # {}))
    /\ settled' = IF Several' \/ (overlapped /\ Busy # {})
                  THEN FALSE
                  ELSE settled \/ JumpChanged

RepairInit == Init /\ overlapped = FALSE /\ settled = TRUE

RepairNext ==
    \/ Running /\ History
    \/ Restart /\ overlapped' = FALSE /\ settled' = TRUE

RepairSpec == RepairInit /\ [][RepairNext]_repairVars

-----------------------------------------------------------------------------
(* Whatever overlapping calls have left behind, a change of the jump that  *)
(* runs alone makes the chain take effect on every node (manager.go:237),  *)
(* makes the registry of mihomo know the jump that the nodes dial through  *)
(* (manager.go:154), and the jump in use the saved one                     *)
(* (clash_handlers.go:70).                                                 *)
Repaired == settled => ChainFollowsJump /\ ChainResolves /\ LiveJumpIsSaved
=============================================================================

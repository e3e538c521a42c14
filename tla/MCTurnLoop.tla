----------------------------- MODULE MCTurnLoop -----------------------------
(* Fault sets for the instances of TurnLoop that TLC checks. *)
EXTENDS TurnLoop

\* Faults after which every claimed row still has one owner.
CalmFaults == {"crash", "restart", "cap", "bridge"}
CancelFaults == CalmFaults \cup {"cancel"}
LeaderFaults == {"leader_alone"}
=============================================================================

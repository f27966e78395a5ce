---------------------------- MODULE MCRebalancing ----------------------------
(* Instances of RebalancingPhase for TLC. *)
EXTENDS RebalancingPhase
=============================================================================

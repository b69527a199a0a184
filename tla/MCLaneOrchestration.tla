-------------------------- MODULE MCLaneOrchestration --------------------------
(* Small instances of LaneOrchestration for TLC. *)
EXTENDS LaneOrchestration

MCProductOf == [w \in WorkItems |-> CHOOSE p \in Products : TRUE]
=============================================================================

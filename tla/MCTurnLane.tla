----------------------------- MODULE MCTurnLane -----------------------------
(* A small instance of TurnLane for TLC. *)
EXTENDS TurnLane
=============================================================================

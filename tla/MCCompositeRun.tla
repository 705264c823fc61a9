--------------------------- MODULE MCCompositeRun ---------------------------
(***************************************************************************)
(* Instances of CompositeRun for TLC: the .cfg files choose the composite  *)
(* workflow and what may go wrong.                                         *)
(***************************************************************************)
EXTENDS CompositeRun

(* The run is disturbed by a message or by a start by hand, not by both.   *)
OneDisturbance == used.byHand + used.sends <= 1

(* The first half of a run, for the instances with the most interference.  *)
PlanAndImplement == SubSeq(LightweightFeature, 1, 2)
=============================================================================

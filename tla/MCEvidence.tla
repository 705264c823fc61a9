----------------------------- MODULE MCEvidence -----------------------------
(***************************************************************************)
(* Instances of Evidence for TLC: the .cfg files choose the writers, the   *)
(* bounds and whether work overlaps.                                       *)
(***************************************************************************)
EXTENDS Evidence
=============================================================================

--------------------------- MODULE MCNativeManager --------------------------
(***************************************************************************)
(* Instances of NativeManager for TLC: two boards that recover and rotate, *)
(* one board whose Manager calls its tools, one launch that is cut short.  *)
(***************************************************************************)
EXTENDS NativeManager
=============================================================================

--------------------------- MODULE MCLocalSession ---------------------------
(***************************************************************************)
(* Instances of LocalSession for TLC.                                      *)
(***************************************************************************)
EXTENDS LocalSession, TLC

KeySymmetry == Permutations(Keys)
=============================================================================

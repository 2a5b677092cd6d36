----------------------------- MODULE MCGateRun -----------------------------
(***************************************************************************)
(* Instances of GateRun for TLC.                                           *)
(***************************************************************************)
EXTENDS GateRun, TLC

ItemSymmetry == Permutations(Items)
=============================================================================

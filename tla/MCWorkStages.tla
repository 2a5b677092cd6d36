---------------------------- MODULE MCWorkStages ----------------------------
(* A root Epic, and a root Bug or TestGap that may be moved below it.         *)
EXTENDS WorkStages, TLC

CONSTANTS e, b, p1, p2

MCKind == (e :> {"Epic"}) @@ (b :> {"Bug", "TestGap"})
Symmetry == Permutations({p1, p2})
MCSizes == (e :> {"large"}) @@ (b :> {"small", "large"})
=============================================================================

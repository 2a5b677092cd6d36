---------------------------- MODULE MCServeReads ----------------------------
(***************************************************************************)
(* Instances of ServeReads for TLC.                                        *)
(***************************************************************************)
EXTENDS ServeReads, TLC

\* Handlers, threads and layouts are interchangeable.
Symmetry == Permutations(Readers) \cup Permutations(Threads) \cup Permutations(Layouts)

\* What no step of the sidecar reads back: what a client was told and shown, and
\* what a handler or a thread at rest keeps of its last round.
View ==
    <<files, rs, op, watch, announced, acks, bounds,
      [r \in Readers |-> [rd[r] EXCEPT !.shown = 0,
                                       !.lay = IF rd[r].pc = "idle" THEN 0 ELSE @]],
      [w \in Workers |-> IF wk[w].pc = "idle" THEN 0 ELSE wk[w]]>>
=============================================================================

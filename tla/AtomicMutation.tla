--------------------------- MODULE AtomicMutation ---------------------------
(***************************************************************************)
(* What a work mutation promises the readers of a bundle: it happens at    *)
(* once or not at all.  The bundle is a map from member names to contents; *)
(* a mutation is a shape (the members it makes, moves, writes, deletes).   *)
(* A commit applies the whole shape in one step; an abort leaves every     *)
(* member alone; a mutation that cannot keep the promise ends "broken",    *)
(* an outcome that is never reported as a success or as a clean failure.   *)
(* Editors outside the mutation change any member at any time; about a     *)
(* member they change while the mutation has it in its hands (late)        *)
(* nothing is promised.                                                    *)
(***************************************************************************)
EXTENDS Naturals

CONSTANTS Members,   \* bundle-relative names
          Shapes,    \* the mutations a command may ask for
          Contents,  \* what a name may hold
          Absent,    \* a name that is not there
          Written,   \* the bytes a mutation writes
          Dir,       \* a directory a mutation makes
          Start      \* the bundle at first

VARIABLES bundle,    \* the bundle as a reader is entitled to see it
          running,   \* the shape in progress, or the empty set
          late,      \* members raced for while it is in progress
          edits,     \* saves by editors so far
          outcome    \* of the last mutation that ended

vars == <<bundle, running, late, edits, outcome>>

\* The bundle once every effect of the shape has landed: a moved name takes
\* its source's content, a written one the planned bytes.
Applied(shape, b) ==
    [m \in Members |->
        IF m \in shape.deletes THEN Absent
        ELSE IF m \in shape.writes THEN Written
        ELSE IF \E s \in Members : <<s, m>> \in shape.moves
             THEN b[CHOOSE s \in Members : <<s, m>> \in shape.moves]
        ELSE IF \E d \in Members : <<m, d>> \in shape.moves THEN Absent
        ELSE IF m \in shape.mkdirs /\ b[m] = Absent THEN Dir
        ELSE b[m]]

\* b is what the readers were promised, but for the members raced for.
Promised(b, raced) ==
    /\ bundle' \in [Members -> Contents \cup {Absent}]
    /\ \A m \in Members \ raced : bundle'[m] = b[m]

Init ==
    /\ bundle = Start
    /\ running = {}
    /\ late = {}
    /\ edits = 0
    /\ outcome = "none"

Begin(shape) ==
    /\ running = {}
    /\ running' = {shape}
    /\ UNCHANGED <<bundle, late, edits, outcome>>

End(result) ==
    /\ running # {}
    /\ running' = {}
    /\ late' = {}
    /\ outcome' = result
    /\ UNCHANGED edits

\* A move carries what the race left at its source to its destination.
Commit ==
    \E shape \in running :
       /\ End("ok")
       /\ Promised(Applied(shape, bundle),
                   late \cup {p[2] : p \in {q \in shape.moves : q[1] \in late}})

Abort == End("clean") /\ Promised(bundle, late)

\* The process died, or the rollback reports failures of its own.
Break == End("broken") /\ bundle' \in [Members -> Contents \cup {Absent}]

\* Only an editor's save changes the bundle between two mutations' ends.
Edit(m, c) ==
    /\ bundle' = [bundle EXCEPT ![m] = c]
    /\ edits' = edits + 1
    /\ UNCHANGED <<running, late, outcome>>

\* An editor changes what the mutation has in its hands, or the mutation
\* cannot read what it has taken.
Race(m) ==
    /\ running # {}
    /\ late' = late \cup {m}
    /\ edits' \in {edits, edits + 1}
    /\ UNCHANGED <<bundle, running, outcome>>

Next ==
    \/ \E shape \in Shapes : Begin(shape)
    \/ Commit
    \/ Abort
    \/ Break
    \/ \E m \in Members : Race(m)
    \/ \E m \in Members, c \in Contents \cup {Absent} : Edit(m, c)

Spec == Init /\ [][Next]_vars
=============================================================================

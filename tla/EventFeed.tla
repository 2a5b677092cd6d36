----------------------------- MODULE EventFeed -----------------------------
(***************************************************************************)
(* What a durable dispatch session promises its caller about the events of *)
(* its workers.  Each worker's file is a feed with a position: wait()      *)
(* hands out the whole lines after it, in order and each once.  An ack     *)
(* covers only what has been passed.  A session that is opened again goes  *)
(* on right after the acks: it hands out every line that is not acked once *)
(* more, and no acked one.  Two things leave a gap.  A ledger write that   *)
(* fails (a loss) may move the position past lines nobody was given; and a *)
(* line that is still being written when the session looks at it is        *)
(* missed, also once it is whole.                                          *)
(***************************************************************************)
EXTENDS Integers, Sequences

CONSTANTS Keys,     \* the workers
          Lines,    \* what a line may hold
          Junk      \* what a line holds that is no event

VARIABLES log,      \* the file of each worker
          partial,  \* lines of it that are not whole
          missed,   \* lines of it the session has seen before they were whole, in this
                    \* opening or among the acked
          position, \* lines of it the session has gone past
          acked,    \* lines of it that are acked for good
          handed,   \* lines of it some wait() returned
          losses    \* ledger writes that failed

vars == <<log, partial, missed, position, acked, handed, losses>>

\* The events of a file after line a, up to line b.
Whole(file, a, b) == {n \in (a + 1)..b : file[n] # Junk}

Init ==
    /\ log = [k \in Keys |-> <<>>]
    /\ partial = [k \in Keys |-> {}]
    /\ missed = [k \in Keys |-> {}]
    /\ position = [k \in Keys |-> 0]
    /\ acked = [k \in Keys |-> 0]
    /\ handed = [k \in Keys |-> {}]
    /\ losses = 0

\* A worker appends a line, or the first part of one.
Write ==
    /\ \E k \in Keys, line \in Lines :
         /\ log' = [log EXCEPT ![k] = Append(@, line)]
         /\ partial' \in {partial, [partial EXCEPT ![k] = @ \cup {Len(log[k]) + 1}]}
    /\ UNCHANGED <<missed, position, acked, handed, losses>>

\* A worker completes the last line.
Complete ==
    /\ \E k \in Keys : partial' = [partial EXCEPT ![k] = @ \ {Len(log[k])}]
    /\ UNCHANGED <<log, missed, position, acked, handed, losses>>

\* The session goes on in its files, and not beyond them.  The lines ahead that are
\* not whole it may miss, those it goes past it does miss.
Onward ==
    /\ position' \in [Keys -> Nat]
    /\ missed' \in [Keys -> SUBSET Nat]
    /\ \A k \in Keys :
         LET ahead  == {n \in partial[k] : n > position[k]}
             passed == {n \in partial[k] : n \in (position[k] + 1)..position'[k]}
         IN  /\ position'[k] \in position[k]..Len(log[k])
             /\ missed[k] \cup passed \subseteq missed'[k]
             /\ missed'[k] \subseteq missed[k] \cup ahead

\* The caller is given what the session goes past and has not missed.
HandOut ==
    /\ Onward
    /\ handed' = [k \in Keys |->
                    handed[k] \cup (Whole(log[k], position[k], position'[k]) \ missed'[k])]
    /\ UNCHANGED <<log, partial, acked, losses>>

\* Acks reach the ledger.
Recorded ==
    /\ acked' \in [Keys -> Nat]
    /\ \A k \in Keys : acked'[k] \in acked[k]..position[k]

Record == Recorded /\ UNCHANGED <<log, partial, missed, position, handed, losses>>

\* A write fails, and what was collected before it with it.
Lose ==
    /\ Onward
    /\ losses' = losses + 1
    /\ UNCHANGED <<log, partial, acked, handed>>

\* The session ends, with a last write of the ledger or without, and is opened
\* again: what is not acked it looks at afresh.
Reopen ==
    /\ Recorded
    /\ position' = acked'
    /\ missed' = [k \in Keys |-> missed[k] \cap 1..acked'[k]]
    /\ losses' \in {losses, losses + 1}
    /\ UNCHANGED <<log, partial, handed>>

Next == Write \/ Complete \/ HandOut \/ Record \/ Lose \/ Reopen

Spec == Init /\ [][Next]_vars
=============================================================================

------------------------- MODULE LocalSessionProofs -------------------------
(***************************************************************************)
(* The redelivery rule of workflow-local, proved for every set of keys,    *)
(* every set of line kinds and every bound.                                *)
(*                                                                         *)
(* AckedIsRead, NoAckedReplay and AckedWereDelivered are not inductive on  *)
(* their own: an ack copies a line number out of the caller's inbox, so    *)
(* the inbox and the batch must hold only lines below the cursor; launch() *)
(* resets a cursor, so a key without an entry must have nothing acked; and *)
(* the lines already read must each be delivered or still in the batch.    *)
(*                                                                         *)
(* A line may be half written when a poll goes past it: MissedIsRead says  *)
(* that what is still not whole of the lines already read is missed, and   *)
(* that nothing missed is in the batch.                                    *)
(*                                                                         *)
(* SuccessHasEvidence needs the same of the entries in memory, which the   *)
(* ledger copies (EvidenceInv).  AnswersMatch compares the counts of       *)
(* questions and replies on the way from the log over the cursor, the      *)
(* caller and the reply file to the worker (AnswerInv); what ties a worker *)
(* to its lines while it writes them is WritingInv, and in a session that  *)
(* never crashed the one process of a key knows exactly what it asked      *)
(* (OneProcess).                                                           *)
(*                                                                         *)
(* The last part proves that the session implements EventFeed.             *)
(***************************************************************************)
EXTENDS LocalSession, SequenceTheorems, FiniteSetTheorems, WellFoundedInduction, TLAPS

\* Where _poll may hold events.
Polling == {"drain", "reap", "polled", "return"}

\* What the loops of _poll and the absence of an entry imply.
Bookkeeping ==
    /\ pc \notin Polling => batch = {}
    /\ pc = "down" => inbox = {}
    /\ pc \in {"drain", "reap"} => \A k \in todo : Known(k)
    /\ \A k \in Keys :
         /\ ledger[k].state = "absent" => ledger[k].acked_through = 0
         /\ ~Known(k) => cursors[k] = 0

\* Every event in flight is of a line the session has read.
InFlightIsRead ==
    /\ \A ev \in batch : ev.line <= cursors[ev.key]
    /\ \A ev \in inbox : ev.line <= cursors[ev.key]

\* The lines up to n of worker k that were not missed were returned by wait(), or are
\* in es.
Told(k, n, es) ==
    \A m \in 1..n : log[k][m] # "junk" /\ m \notin missed[k] =>
        m \in delivered[k] \/ m \in LinesOf(es, k)

ReadIsTold ==
    faults = 0 =>
      \A k \in Keys :
        /\ Told(k, ledger[k].acked_through, {})
        /\ pc # "down" => Told(k, entries[k].acked_through, {})
        /\ pc # "down" => Told(k, cursors[k], batch)

\* How far the session has read, or will have once it is opened.
Reach(k) == IF pc = "down" THEN ledger[k].acked_through ELSE cursors[k]

\* The session has missed lines it has read, and all of them that are still not whole.
MissedIsRead ==
    \A k \in Keys :
      /\ missed[k] \subseteq 1..Reach(k)
      /\ partial[k] \cap 1..Reach(k) \subseteq missed[k]
      /\ LinesOf(batch, k) \cap missed[k] = {}
      /\ k \notin torn => missed[k] = {}

IInv ==
    /\ TypeOK
    /\ Bookkeeping
    /\ AckedIsRead
    /\ InFlightIsRead
    /\ NoAckedReplay
    /\ ReadIsTold
    /\ MissedIsRead

-----------------------------------------------------------------------------
(***************************************************************************)
(* Types.                                                                  *)
(***************************************************************************)

\* Replacing one field of an entry changes that field only.
LEMMA WithStateType ==
    ASSUME NEW e \in LedgerEntry, NEW state \in States
    PROVE  /\ WithState(e, state) \in LedgerEntry
           /\ WithState(e, state).state = state
           /\ WithState(e, state).acked_through = e.acked_through
           /\ WithState(e, state).pid = e.pid
BY DEF WithState, LedgerEntry

LEMMA WithAckType ==
    ASSUME NEW e \in LedgerEntry, NEW line \in Nat
    PROVE  /\ WithAck(e, line) \in LedgerEntry
           /\ WithAck(e, line).state = e.state
           /\ WithAck(e, line).acked_through = line
           /\ WithAck(e, line).pid = e.pid
BY DEF WithAck, LedgerEntry

\* _apply keeps an entry an entry, its acks and its presence.
LEMMA AppliedType ==
    ASSUME NEW e \in LedgerEntry, NEW kind
    PROVE  /\ Applied(e, kind) \in LedgerEntry
           /\ Applied(e, kind).acked_through = e.acked_through
           /\ Applied(e, kind).pid = e.pid
           /\ Applied(e, kind).state = "absent" => e.state = "absent"
BY WithStateType DEF Applied, States, TERMINAL_STATES

LEMMA AckedEntryType ==
    ASSUME NEW e \in LedgerEntry, NEW line \in Nat
    PROVE  /\ AckedEntry(e, line) \in LedgerEntry
           /\ AckedEntry(e, line).state = e.state
           /\ AckedEntry(e, line).pid = e.pid
           /\ AckedEntry(e, line).acked_through
                = IF line > e.acked_through THEN line ELSE e.acked_through
BY WithAckType DEF AckedEntry

\* The updates of a worker process.
LEMMA ProcessType ==
    ASSUME NEW kid \in Process
    PROVE  /\ Started \in Process
           /\ \A code \in {0, 1} : Exited(code) \in Process
           /\ \A n \in Nat : Beginning(kid, n) \in Process
           /\ \A kind : Wrote(kid, kind) \in Process
           /\ Answered(kid) \in Process
           /\ \A taken \in BOOLEAN : WithPid(kid, taken) \in Process
<1>1. Started \in Process
  BY DEF Started, Process
<1>2. ASSUME NEW code \in {0, 1} PROVE Exited(code) \in Process
  BY <1>1 DEF Exited, Process
<1>3. ASSUME NEW n \in Nat PROVE Beginning(kid, n) \in Process
  BY DEF Beginning, Process
<1>4. Answered(kid) \in Process
  <2>1. kid.read + 1 \in Nat
    BY DEF Process
  <2> QED
    BY <2>1 DEF Answered, Process
<1>5. ASSUME NEW kind PROVE Wrote(kid, kind) \in Process
  <2>1. Append(kid.asked, kid.begun) \in Seq(Nat)
    BY AppendProperties DEF Process
  <2> QED
    BY <2>1 DEF Wrote, Process
<1>6. ASSUME NEW taken \in BOOLEAN PROVE WithPid(kid, taken) \in Process
  BY DEF WithPid, Process
<1> QED
  BY <1>1, <1>2, <1>3, <1>4, <1>5, <1>6

LEMMA WithKidType ==
    ASSUME TypeOK, NEW k \in Keys, NEW p \in 1..Len(kids[k]), NEW kid \in Process
    PROVE  /\ WithKid(k, p, kid) \in [Keys -> Seq(Process)]
           /\ \A j \in Keys : Len(WithKid(k, p, kid)[j]) = Len(kids[j])
<1>1. kids[k] \in Seq(Process)
  BY DEF TypeOK
<1>2. /\ [kids[k] EXCEPT ![p] = kid] \in Seq(Process)
      /\ Len([kids[k] EXCEPT ![p] = kid]) = Len(kids[k])
  BY <1>1, ExceptSeq
<1> QED
  BY <1>2 DEF TypeOK, WithKid

\* What a poll reads of a file has its lines, some of them unreadable.
LEMMA TextType ==
    ASSUME TypeOK, NEW k \in Keys
    PROVE  /\ Text(k) \in Seq(AllKinds)
           /\ Len(Text(k)) = Len(log[k])
           /\ \A n \in 1..Len(log[k]) :
                Text(k)[n] = IF n \in partial[k] THEN "junk" ELSE log[k][n]
<1>1. log[k] \in Seq(AllKinds) /\ Len(log[k]) \in Nat
  BY DEF TypeOK
<1>2. \A n \in 1..Len(log[k]) : log[k][n] \in AllKinds
  BY <1>1, ElementOfSeq
<1>3. \A n \in 1..Len(log[k]) :
        (IF n \in partial[k] THEN "junk" ELSE log[k][n]) \in AllKinds
  BY <1>2 DEF AllKinds
<1> QED
  BY <1>1, <1>3 DEF Text

\* The events of new lines are well formed and carry the lines' numbers.
LEMMA NewEventsType ==
    ASSUME NEW k \in Keys, NEW s \in Seq(AllKinds), NEW c \in Nat
    PROVE  /\ NewEvents(k, s, c) \subseteq Event
           /\ \A ev \in NewEvents(k, s, c) :
                ev.key = k /\ ev.line > c /\ ev.line <= Len(s)
           /\ \A n \in (c + 1)..Len(s) :
                s[n] # "junk" => n \in LinesOf(NewEvents(k, s, c), k)
<1>1. Len(s) \in Nat /\ \A n \in 1..Len(s) : s[n] \in AllKinds
  OBVIOUS
<1>2. \A n \in (c + 1)..Len(s) : n \in 1..Len(s)
  BY <1>1
<1>3. NewEvents(k, s, c) \subseteq Event
  BY <1>1, <1>2 DEF NewEvents, Event
<1>4. \A ev \in NewEvents(k, s, c) : ev.key = k /\ ev.line > c /\ ev.line <= Len(s)
  BY <1>1 DEF NewEvents
<1>5. ASSUME NEW n \in (c + 1)..Len(s), s[n] # "junk"
      PROVE  n \in LinesOf(NewEvents(k, s, c), k)
  <2> DEFINE ev == [key |-> k, line |-> n, kind |-> s[n]]
  <2>1. ev \in NewEvents(k, s, c)
    BY <1>5 DEF NewEvents
  <2>2. ev.key = k /\ ev.line = n
    OBVIOUS
  <2> QED
    BY <2>1, <2>2 DEF LinesOf
<1> QED
  BY <1>3, <1>4, <1>5

LEMMA TypeInit == Init => TypeOK
BY SessionAssumption DEF Init, TypeOK, PidsStarted, Absent, LedgerEntry, States

\* A step that starts no process and gives no entry another pid keeps the pids.
LEMMA PidsKept ==
    ASSUME TypeOK, NEW k \in Keys,
           Len(kids'[k]) = Len(kids[k]),
           entries'[k].pid \in {0, entries[k].pid, ledger[k].pid},
           ledger'[k].pid \in {0, entries[k].pid, ledger[k].pid}
    PROVE  entries'[k].pid <= Len(kids'[k]) /\ ledger'[k].pid <= Len(kids'[k])
BY DEF TypeOK, PidsStarted, LedgerEntry

\* What a worker's step leaves alone.
LEMMA WorkerFrame ==
    ASSUME NEW k, NEW p, WorkerStep(k, p)
    PROVE  /\ UNCHANGED <<pc, todo, entries, cursors, procs, batch, inbox, replied, ledger>>
           /\ UNCHANGED <<replies, delivered, missed, torn, crashes, faults>>
BY DEF WorkerStep, ChildBegin, ChildEnd, ChildReadReply, ChildExit, PidReused, PidFreed,
       memory, files, written, history, seen

\* It appends a line, if it changes the lines at all.
LEMMA WorkerLines ==
    ASSUME NEW k, NEW p, WorkerStep(k, p)
    PROVE  log' = log \/ \E kind \in AllKinds : log' = [log EXCEPT ![k] = Append(@, kind)]
<1>1. CASE ChildBegin(k, p)
  BY <1>1, SessionAssumption DEF ChildBegin
<1>2. CASE ChildEnd(k, p)
  BY <1>2 DEF ChildEnd, AllKinds
<1>3. CASE ChildReadReply(k, p) \/ ChildExit(k, p) \/ PidReused(k, p) \/ PidFreed(k, p)
  BY <1>3 DEF ChildReadReply, ChildExit, PidReused, PidFreed, files, written
<1> QED
  BY <1>1, <1>2, <1>3 DEF WorkerStep

\* Which lines are not whole, and who is writing, it changes for its own worker only.
LEMMA WorkerMarks ==
    ASSUME NEW k, NEW p, WorkerStep(k, p)
    PROVE  /\ \/ partial' = partial
              \/ /\ partial' = [partial EXCEPT ![k] = @ \cup {Len(log[k]) + 1}]
                 /\ \E kind \in AllKinds : log' = [log EXCEPT ![k] = Append(@, kind)]
              \/ /\ partial' = [partial EXCEPT ![k] = @ \ {kids[k][p].begun}]
                 /\ log' = log
           /\ open' \in {open, [open EXCEPT ![k] = @ \cup {p}], [open EXCEPT ![k] = {}]}
<1>1. CASE ChildBegin(k, p)
  BY <1>1, SessionAssumption DEF ChildBegin
<1>2. CASE ChildEnd(k, p)
  BY <1>2 DEF ChildEnd
<1>3. CASE ChildReadReply(k, p) \/ ChildExit(k, p) \/ PidReused(k, p) \/ PidFreed(k, p)
  BY <1>3 DEF ChildReadReply, ChildExit, PidReused, PidFreed, files, written
<1> QED
  BY <1>1, <1>2, <1>3 DEF WorkerStep

\* It changes one process.
LEMMA WorkerKid ==
    ASSUME TypeOK, NEW k \in Keys, NEW p \in 1..Len(kids[k]), kids[k][p] \in Process,
           WorkerStep(k, p)
    PROVE  \E kid \in Process : kids' = WithKid(k, p, kid)
<1>1. CASE ChildBegin(k, p)
  <2>1. Len(log'[k]) \in Nat
    <3>1. log' = log \/ \E kind \in AllKinds : log' = [log EXCEPT ![k] = Append(@, kind)]
      BY WorkerLines
    <3>2. log \in [Keys -> Seq(AllKinds)]
      BY DEF TypeOK
    <3>3. \A kind \in AllKinds : Append(log[k], kind) \in Seq(AllKinds)
      BY <3>2, AppendProperties
    <3>4. log'[k] \in Seq(AllKinds)
      BY <3>1, <3>2, <3>3
    <3> QED
      BY <3>4, LenProperties
  <2> QED
    BY <1>1, <2>1, ProcessType DEF ChildBegin
<1>2. CASE ChildEnd(k, p)
  BY <1>2, ProcessType DEF ChildEnd
<1>3. CASE ChildReadReply(k, p)
  BY <1>3, ProcessType DEF ChildReadReply
<1>4. CASE ChildExit(k, p)
  BY <1>4, ProcessType DEF ChildExit
<1>5. CASE PidReused(k, p) \/ PidFreed(k, p)
  BY <1>5, ProcessType DEF PidReused, PidFreed
<1> QED
  BY <1>1, <1>2, <1>3, <1>4, <1>5 DEF WorkerStep

LEMMA TypeStep == TypeOK /\ [Next]_vars => TypeOK'
<1> SUFFICES ASSUME TypeOK, [Next]_vars PROVE TypeOK'
  OBVIOUS
<1> USE SessionAssumption DEF history, seen, files, written
<1>1. ASSUME NEW k \in Keys, LaunchSpawn(k) PROVE TypeOK'
  <2>1. Started \in Process
    BY DEF Started, Process
  <2>2. kids' \in [Keys -> Seq(Process)]
    BY <1>1, <2>1 DEF TypeOK, LaunchSpawn
  <2>3. entries' \in [Keys -> LedgerEntry]
    BY <1>1 DEF TypeOK, LaunchSpawn, LedgerEntry, States
  <2>4. PidsStarted'
    <3>1. kids[k] \in Seq(Process) /\ Len(kids'[k]) = Len(kids[k]) + 1
      BY <1>1, <2>1, AppendProperties DEF TypeOK, LaunchSpawn
    <3>2. entries'[k].pid = Len(kids[k]) + 1
      BY <1>1 DEF TypeOK, LaunchSpawn
    <3>3. \A j \in Keys \ {k} : kids'[j] = kids[j] /\ entries'[j] = entries[j]
      BY <1>1 DEF TypeOK, LaunchSpawn
    <3>4. ledger' = ledger /\ ledger[k].pid \in Nat /\ ledger[k].pid <= Len(kids[k])
      BY <1>1 DEF TypeOK, LaunchSpawn, LedgerEntry, PidsStarted
    <3>5. entries'[k].pid <= Len(kids'[k]) /\ ledger'[k].pid <= Len(kids'[k])
      BY <3>1, <3>2, <3>4, LenProperties
    <3>6. \A j \in Keys \ {k} :
            entries'[j].pid <= Len(kids'[j]) /\ ledger'[j].pid <= Len(kids'[j])
      BY <3>3, <3>4 DEF TypeOK, PidsStarted
    <3> QED
      BY <3>5, <3>6 DEF PidsStarted
  <2> QED
    BY <1>1, <2>2, <2>3, <2>4 DEF TypeOK, LaunchSpawn
<1>2. CASE LaunchFlush
  <2>1. /\ ledger' \in {entries, ledger}
        /\ faults' = faults \/ (faults < MaxFaults /\ faults' = faults + 1)
        /\ pc' = "idle" /\ todo' = {}
        /\ UNCHANGED <<entries, cursors, procs, batch, inbox, replied, log, partial, open,
                       replies, kids, delivered, answers, missed, torn, crashes>>
    BY <1>2 DEF LaunchFlush, Flushed, FlushRaised
  <2>2. PidsStarted'
    BY <2>1 DEF TypeOK, PidsStarted
  <2>3. ledger' \in [Keys -> LedgerEntry] /\ faults' \in 0..MaxFaults
    BY <2>1, SessionAssumption DEF TypeOK
  <2> QED
    BY <2>1, <2>2, <2>3 DEF TypeOK
<1>3. CASE PollStart
  BY <1>3 DEF TypeOK, PidsStarted, PollStart
<1>4. ASSUME NEW k \in Keys, Drain(k) PROVE TypeOK'
  <2>1. /\ entries' \in [Keys -> LedgerEntry]
        /\ \A j \in Keys : entries'[j].pid = entries[j].pid
    BY <1>4, AppliedType DEF TypeOK, Drain, _drain
  <2>2. batch' \subseteq Event
    <3>1. Text(k) \in Seq(AllKinds) /\ cursors[k] \in Nat
      BY TextType DEF TypeOK
    <3>2. NewEvents(k, Text(k), cursors[k]) \subseteq Event
      BY <3>1, NewEventsType
    <3> QED
      BY <1>4, <3>2 DEF TypeOK, Drain, _drain
  <2>3. cursors' \in [Keys -> Nat]
    <3>1. Len(Text(k)) \in Nat
      BY TextType DEF TypeOK
    <3> QED
      BY <1>4, <3>1 DEF TypeOK, Drain, _drain
  <2>6. missed' \in [Keys -> SUBSET Nat] /\ torn' \subseteq Keys
    BY <1>4 DEF TypeOK, Drain, Half
  <2>4. PidsStarted'
    BY <1>4, <2>1, PidsKept DEF PidsStarted, Drain
  <2>5. pc' \in {"drain", "reap"} /\ todo' \subseteq Keys
    BY <1>4 DEF TypeOK, Drain, Visited
  <2> QED
    BY <1>4, <2>1, <2>2, <2>3, <2>4, <2>5, <2>6 DEF TypeOK, Drain
<1>5. ASSUME NEW k \in Keys, Reap(k) PROVE TypeOK'
  <2>1. ReapedOutcome(k) \in {"succeeded", "failed"}
    BY DEF ReapedOutcome
  <2>2. /\ entries' \in [Keys -> LedgerEntry]
        /\ \A j \in Keys : entries'[j].pid = entries[j].pid
    <3>1. WithState(entries[k], ReapedOutcome(k)) \in LedgerEntry
      BY <2>1, WithStateType DEF TypeOK, States, TERMINAL_STATES
    <3>2. WithState(entries[k], ReapedOutcome(k)).pid = entries[k].pid
      BY <2>1, WithStateType DEF TypeOK, States, TERMINAL_STATES
    <3> QED
      BY <1>5, <3>1, <3>2 DEF TypeOK, Reap, _reap
  <2>3. batch' \subseteq Event
    BY <1>5 DEF TypeOK, Reap, _reap, Event, AllKinds
  <2>4. PidsStarted'
    BY <1>5, <2>2, PidsKept DEF PidsStarted, Reap
  <2>5. pc' \in {"reap", "polled"} /\ todo' \subseteq Keys
    BY <1>5 DEF TypeOK, Reap, Visited
  <2> QED
    BY <1>5, <2>2, <2>3, <2>4, <2>5 DEF TypeOK, Reap
<1>6. CASE PollEmpty
  BY <1>6 DEF TypeOK, PidsStarted, PollEmpty
<1>7. CASE PollFlush
  BY <1>7 DEF TypeOK, PidsStarted, PollFlush, Flushed, FlushRaised
<1>8. CASE PollReturn
  <2>1. \A k \in Keys : LinesOf(batch, k) \subseteq Nat
    BY DEF TypeOK, LinesOf, Event
  <2> QED
    BY <1>8, <2>1 DEF TypeOK, PidsStarted, PollReturn
<1>9. ASSUME NEW ev \in inbox, Reply(ev) PROVE TypeOK'
  <2>1. ev.key \in Keys /\ ev.line \in Nat /\ ev \in Event
    BY DEF TypeOK, Event
  <2>2. Append(replies[ev.key], ev.line) \in Seq(Nat)
    BY <2>1, AppendProperties DEF TypeOK
  <2>3. replies' \in [Keys -> Seq(Nat)] /\ replied' \subseteq Event
    BY <1>9, <2>1, <2>2 DEF TypeOK, Reply
  <2>4. PidsStarted'
    BY <1>9 DEF TypeOK, PidsStarted, Reply
  <2> QED
    BY <1>9, <2>3, <2>4 DEF TypeOK, Reply
<1>10. ASSUME NEW ev \in inbox, Ack(ev) PROVE TypeOK'
  <2> DEFINE new == [entries EXCEPT ![ev.key] = AckedEntry(@, ev.line)]
  <2>1. ev.key \in Keys /\ ev.line \in Nat
    BY DEF TypeOK, Event
  <2>2. new \in [Keys -> LedgerEntry] /\ \A j \in Keys : new[j].pid = entries[j].pid
    <3>1. entries[ev.key] \in LedgerEntry
      BY <2>1 DEF TypeOK
    <3>2. /\ AckedEntry(entries[ev.key], ev.line) \in LedgerEntry
          /\ AckedEntry(entries[ev.key], ev.line).pid = entries[ev.key].pid
      BY <2>1, <3>1, AckedEntryType
    <3> QED
      BY <2>1, <3>2 DEF TypeOK
  <2>3. entries' \in {entries, new} /\ ledger' \in {ledger, new} /\ kids' = kids
    BY <1>10 DEF Ack, Flushed, FlushRaised
  <2>4. PidsStarted'
    BY <2>2, <2>3, PidsKept DEF PidsStarted
  <2>5. faults' \in 0..MaxFaults
    BY <1>10 DEF TypeOK, Ack, Flushed, FlushRaised
  <2>6. inbox' \subseteq Event /\ replied' \subseteq Event
    BY <1>10 DEF TypeOK, Ack, Handled
  <2> HIDE DEF new
  <2> QED
    BY <1>10, <2>2, <2>3, <2>4, <2>5, <2>6 DEF TypeOK, Ack
<1>11. ASSUME NEW k \in Keys, StopSignal(k) PROVE TypeOK'
  BY <1>11 DEF TypeOK, PidsStarted, StopSignal
<1>12. ASSUME NEW k \in Keys, StopFinish(k) PROVE TypeOK'
  <2> DEFINE new == [entries EXCEPT ![k] = WithState(@, "stopped")]
  <2>1. new \in [Keys -> LedgerEntry] /\ \A j \in Keys : new[j].pid = entries[j].pid
    BY WithStateType DEF TypeOK, States, TERMINAL_STATES
  <2>2. kids' \in [Keys -> Seq(Process)] /\ \A j \in Keys : Len(kids'[j]) = Len(kids[j])
    <3>1. CASE PidAlive(k, entries[k].pid)
      <4> DEFINE kid == IF kids[k][entries[k].pid].alive
                          THEN Exited(1) ELSE WithPid(kids[k][entries[k].pid], FALSE)
      <4>1. entries[k].pid \in 1..Len(kids[k]) /\ kids[k] \in Seq(Process)
        BY <3>1 DEF TypeOK, PidsStarted, PidAlive, LedgerEntry
      <4>2. kid \in Process
        <5>1. kids[k][entries[k].pid] \in Process
          BY <4>1, ElementOfSeq
        <5> QED
          BY <5>1, ProcessType
      <4>3. kids' = WithKid(k, entries[k].pid, kid)
        BY <1>12, <3>1 DEF StopFinish, _terminate
      <4> HIDE DEF kid
      <4> QED
        BY <4>1, <4>2, <4>3, WithKidType
    <3>2. CASE ~PidAlive(k, entries[k].pid)
      BY <1>12, <3>2 DEF TypeOK, StopFinish, _terminate
    <3> QED
      BY <3>1, <3>2
  <2>3. entries' = new /\ ledger' \in {ledger, new} /\ faults' \in 0..MaxFaults
    BY <1>12 DEF TypeOK, StopFinish, Flushed, FlushRaised
  <2>4. PidsStarted'
    BY <2>1, <2>2, <2>3, PidsKept DEF PidsStarted
  <2> HIDE DEF new
  <2> QED
    BY <1>12, <2>1, <2>2, <2>3, <2>4 DEF TypeOK, StopFinish
<1>13. CASE Crash
  <2>1. PidsStarted'
    BY <1>13, PidsKept DEF PidsStarted, Crash, Forgotten, Absent
  <2> QED
    BY <1>13, <2>1 DEF TypeOK, Crash, Forgotten, Absent, LedgerEntry, States
<1>14. CASE Close
  <2>1. PidsStarted'
    BY <1>14, PidsKept DEF PidsStarted, Close, Forgotten, Absent, Flushed, FlushRaised
  <2>2. ledger' \in [Keys -> LedgerEntry] /\ faults' \in 0..MaxFaults
    BY <1>14 DEF TypeOK, Close, Flushed, FlushRaised
  <2>3. entries' \in [Keys -> LedgerEntry]
    BY <1>14 DEF Close, Forgotten, Absent, LedgerEntry, States
  <2> QED
    BY <1>14, <2>1, <2>2, <2>3 DEF TypeOK, Close, Forgotten
<1>15. CASE Open
  <2>1. \A k \in Keys : Probed(k) \in LedgerEntry /\ Probed(k).pid = ledger[k].pid
    BY WithStateType DEF TypeOK, Probed, States
  <2>2. PidsStarted'
    BY <1>15, <2>1, PidsKept DEF PidsStarted, Open
  <2>3. cursors' \in [Keys -> Nat]
    BY <1>15 DEF TypeOK, Open, LedgerEntry
  <2> QED
    BY <1>15, <2>1, <2>2, <2>3 DEF TypeOK, Open
<1>16. ASSUME NEW k \in Keys, NEW p \in DOMAIN kids[k],
              WorkerStep(k, p)
       PROVE  TypeOK'
  <2>1. kids[k] \in Seq(Process) /\ p \in 1..Len(kids[k]) /\ kids[k][p] \in Process
    BY DEF TypeOK
  <2>2. log[k] \in Seq(AllKinds) /\ Len(log[k]) + 1 \in Nat
    BY DEF TypeOK
  <2>3. kids' \in [Keys -> Seq(Process)] /\ \A j \in Keys : Len(kids'[j]) = Len(kids[j])
    <3>1. \E kid \in Process : kids' = WithKid(k, p, kid)
      BY <1>16, <2>1, WorkerKid
    <3>2. ASSUME NEW kid \in Process, kids' = WithKid(k, p, kid)
          PROVE  /\ kids' \in [Keys -> Seq(Process)]
                 /\ \A j \in Keys : Len(kids'[j]) = Len(kids[j])
      BY <2>1, <3>2, WithKidType
    <3> QED
      BY <3>1, <3>2
  <2>4. PidsStarted'
    <3>1. entries' = entries /\ ledger' = ledger
      BY <1>16, WorkerFrame
    <3> QED
      BY <2>3, <3>1, PidsKept DEF PidsStarted
  <2>5. log' \in [Keys -> Seq(AllKinds)]
    <3>1. log' = log \/ \E kind \in AllKinds : log' = [log EXCEPT ![k] = Append(@, kind)]
      BY <1>16, WorkerLines
    <3>2. ASSUME NEW kind \in AllKinds PROVE Append(log[k], kind) \in Seq(AllKinds)
      BY <2>2, AppendProperties
    <3>3. log \in [Keys -> Seq(AllKinds)]
      BY DEF TypeOK
    <3> QED
      BY <3>1, <3>2, <3>3
  <2>6. answers' \subseteq Keys \X Nat \X Nat
    <3>1. CASE ChildReadReply(k, p)
      <4> DEFINE nth == kids[k][p].read + 1
      <4>1. kids[k][p].asked \in Seq(Nat) /\ replies[k] \in Seq(Nat) /\ nth \in Nat \ {0}
        BY <2>1 DEF TypeOK, Process
      <4>2. nth \in 1..Len(kids[k][p].asked) /\ nth \in 1..Len(replies[k])
        BY <3>1, <4>1 DEF ChildReadReply
      <4>3. kids[k][p].asked[nth] \in Nat /\ replies[k][nth] \in Nat
        BY <4>1, <4>2, ElementOfSeq
      <4>4. answers' = answers \cup {<<k, kids[k][p].asked[nth], replies[k][nth]>>}
        BY <3>1 DEF ChildReadReply
      <4> HIDE DEF nth
      <4> QED
        BY <4>3, <4>4 DEF TypeOK
    <3>2. CASE ~ChildReadReply(k, p)
      BY <1>16, <3>2 DEF TypeOK, WorkerStep, ChildBegin, ChildEnd, ChildExit, PidReused, PidFreed
    <3> QED
      BY <3>1, <3>2
  <2>7. partial' \in [Keys -> SUBSET Nat] /\ open' \in [Keys -> SUBSET Nat]
    <3>1. p \in Nat /\ partial \in [Keys -> SUBSET Nat] /\ open \in [Keys -> SUBSET Nat]
      BY <2>1 DEF TypeOK
    <3>2. partial' \in {partial, [partial EXCEPT ![k] = @ \cup {Len(log[k]) + 1}],
                        [partial EXCEPT ![k] = @ \ {kids[k][p].begun}]}
      BY <1>16, WorkerMarks
    <3>3. open' \in {open, [open EXCEPT ![k] = @ \cup {p}], [open EXCEPT ![k] = {}]}
      BY <1>16, WorkerMarks
    <3> HIDE DEF TypeOK
    <3>4. partial' \in [Keys -> SUBSET Nat]
      BY <2>2, <3>1, <3>2
    <3>5. open' \in [Keys -> SUBSET Nat]
      BY <3>1, <3>3
    <3> QED
      BY <3>4, <3>5
  <2>8. replies' \in [Keys -> Seq(Nat)]
    BY <1>16, WorkerFrame DEF TypeOK
  <2>9. /\ UNCHANGED <<pc, todo, entries, cursors, procs, batch, inbox, replied, ledger>>
        /\ UNCHANGED <<delivered, missed, torn, crashes, faults>>
    BY <1>16, WorkerFrame
  <2> QED
    BY <2>3, <2>4, <2>5, <2>6, <2>7, <2>8, <2>9 DEF TypeOK
<1>18. ASSUME NEW k \in Keys, StopRefused(k) PROVE TypeOK'
  BY <1>18 DEF TypeOK, PidsStarted, StopRefused
<1>17. CASE UNCHANGED vars
  BY <1>17 DEF TypeOK, PidsStarted, vars, memory
<1> QED
  BY <1>1, <1>2, <1>3, <1>4, <1>5, <1>6, <1>7, <1>8, <1>9, <1>10, <1>11, <1>12, <1>13,
     <1>14, <1>15, <1>16, <1>17, <1>18 DEF Next, Coordinator, Caller, Worker

\* Every variable of the session keeps its type.
THEOREM TypeCorrect == Spec => []TypeOK
BY TypeInit, TypeStep, PTL DEF Spec

-----------------------------------------------------------------------------
(***************************************************************************)
(* What each action does to the acks, the entries and the events files.            *)
(***************************************************************************)

\* Acks are bounded by cursors and cursors by files, as numbers.
LEMMA AckNumbers ==
    ASSUME TypeOK, NEW k \in Keys
    PROVE  /\ entries[k].acked_through \in Nat
           /\ ledger[k].acked_through \in Nat
           /\ cursors[k] \in Nat
           /\ Len(log[k]) \in Nat
           /\ AckedIsRead /\ pc # "down" => entries[k].acked_through <= Len(log[k])
<1>1. /\ entries[k].acked_through \in Nat
      /\ ledger[k].acked_through \in Nat
      /\ cursors[k] \in Nat
      /\ Len(log[k]) \in Nat
  BY DEF TypeOK, LedgerEntry
<1> QED
  BY <1>1 DEF AckedIsRead

LEMMA DrainEffect ==
    ASSUME TypeOK, NEW k \in Keys, Drain(k)
    PROVE  /\ \A j \in Keys :
                /\ entries'[j].acked_through = entries[j].acked_through
                /\ entries'[j].state = "absent" => entries[j].state = "absent"
                /\ cursors'[j] = IF j = k THEN Len(log[k]) ELSE cursors[j]
                /\ missed'[j] = IF j = k THEN missed[j] \cup Half(k) ELSE missed[j]
           /\ batch' = batch \cup NewEvents(k, Text(k), cursors[k])
           /\ k \in todo /\ pc = "drain" /\ pc' \in {"drain", "reap"}
           /\ todo' \subseteq todo \/ todo' = {j \in Keys : Known(j)}
           /\ torn' = IF Half(k) = {} THEN torn ELSE torn \cup {k}
           /\ UNCHANGED <<inbox, ledger, log, partial, open, replies, kids, delivered, faults>>
<1>1. /\ k \in todo /\ pc = "drain" /\ pc' \in {"drain", "reap"}
      /\ todo' \subseteq todo \/ todo' = {j \in Keys : Known(j)}
      /\ torn' = IF Half(k) = {} THEN torn ELSE torn \cup {k}
      /\ UNCHANGED <<inbox, ledger, log, partial, open, replies, kids, delivered, faults>>
  BY DEF Drain, Visited, history, seen, files, written
<1>2. /\ \A j \in Keys :
           /\ entries'[j].acked_through = entries[j].acked_through
           /\ entries'[j].state = "absent" => entries[j].state = "absent"
           /\ cursors'[j] = IF j = k THEN Len(log[k]) ELSE cursors[j]
      /\ batch' = batch \cup NewEvents(k, Text(k), cursors[k])
  <2>1. Len(Text(k)) = Len(log[k])
    BY TextType
  <2>2. /\ entries \in [Keys -> LedgerEntry] /\ cursors \in [Keys -> Nat]
        /\ \E kind : entries' \in {entries, [entries EXCEPT ![k] = Applied(@, kind)]}
        /\ cursors' = [cursors EXCEPT ![k] = Len(Text(k))]
        /\ batch' = batch \cup NewEvents(k, Text(k), cursors[k])
    BY DEF TypeOK, Drain, _drain
  <2> QED
    BY <2>1, <2>2, AppliedType
<1>3. \A j \in Keys : missed'[j] = IF j = k THEN missed[j] \cup Half(k) ELSE missed[j]
  BY DEF TypeOK, Drain
<1> QED
  BY <1>1, <1>2, <1>3

LEMMA ReapEffect ==
    ASSUME TypeOK, NEW k \in Keys, Reap(k)
    PROVE  /\ \A j \in Keys :
                /\ entries'[j].acked_through = entries[j].acked_through
                /\ entries'[j].state = "absent" => entries[j].state = "absent"
           /\ batch \subseteq batch'
           /\ \A ev \in batch' : ev \in batch \/ (ev.line = 0 /\ ev.key \in Keys)
           /\ pc = "reap" /\ pc' \in {"reap", "polled"}
           /\ todo' \subseteq todo \/ todo' = {j \in Keys : Known(j)}
           /\ UNCHANGED <<cursors, inbox, ledger, log, partial, missed, torn, delivered, faults>>
<1>1. /\ WithState(entries[k], ReapedOutcome(k)).acked_through = entries[k].acked_through
      /\ WithState(entries[k], ReapedOutcome(k)).state # "absent"
  BY WithStateType DEF TypeOK, ReapedOutcome, States, TERMINAL_STATES
<1>2. \A j \in Keys :
        /\ entries'[j].acked_through = entries[j].acked_through
        /\ entries'[j].state = "absent" => entries[j].state = "absent"
  BY <1>1 DEF TypeOK, Reap, _reap
<1>3. /\ batch \subseteq batch'
      /\ \A ev \in batch' : ev \in batch \/ (ev.line = 0 /\ ev.key \in Keys)
  BY DEF Reap, _reap
<1>4. /\ pc = "reap" /\ pc' \in {"reap", "polled"}
      /\ todo' \subseteq todo \/ todo' = {j \in Keys : Known(j)}
      /\ UNCHANGED <<cursors, inbox, ledger, log, partial, missed, torn, delivered, faults>>
  BY DEF Reap, Visited, history, seen, files, written
<1> QED
  BY <1>2, <1>3, <1>4

LEMMA AckEffect ==
    ASSUME TypeOK, NEW ev \in inbox, Ack(ev)
    PROVE  /\ ev.key \in Keys /\ ev.line \in Nat
           /\ \A j \in Keys :
                /\ entries'[j].state = entries[j].state
                /\ entries'[j].acked_through
                     = IF j = ev.key /\ ev.line > entries[j].acked_through
                         THEN ev.line ELSE entries[j].acked_through
           /\ ledger' \in {ledger, entries'}
           /\ pc = "idle" /\ inbox' \subseteq inbox
           /\ faults' = 0 => faults = 0
           /\ UNCHANGED <<pc, todo, cursors, batch, log, partial, missed, torn, delivered>>
<1>1. ev.key \in Keys /\ ev.line \in Nat /\ entries[ev.key] \in LedgerEntry
  BY DEF TypeOK, Event
<1>2. /\ ledger' \in {ledger, entries'}
      /\ pc = "idle" /\ inbox' \subseteq inbox
      /\ UNCHANGED <<pc, todo, cursors, batch, log, partial, missed, torn, delivered>>
      /\ faults' \in {faults, faults + 1}
  BY DEF Ack, Flushed, FlushRaised, Handled, files, written, seen
<1>3. entries' = [entries EXCEPT ![ev.key] = AckedEntry(@, ev.line)]
      \/ (entries' = entries /\ ev.line = 0)
  BY DEF Ack
<1>4. /\ AckedEntry(entries[ev.key], ev.line).state = entries[ev.key].state
      /\ AckedEntry(entries[ev.key], ev.line).acked_through
           = IF ev.line > entries[ev.key].acked_through
               THEN ev.line ELSE entries[ev.key].acked_through
  BY <1>1, AckedEntryType
<1>5. entries[ev.key].acked_through \in Nat
  BY <1>1, AckNumbers
<1>6. \A j \in Keys :
        /\ entries'[j].state = entries[j].state
        /\ entries'[j].acked_through
             = IF j = ev.key /\ ev.line > entries[j].acked_through
                 THEN ev.line ELSE entries[j].acked_through
  <2>1. entries \in [Keys -> LedgerEntry]
    BY DEF TypeOK
  <2>2. ev.line = 0 => ~(ev.line > entries[ev.key].acked_through)
    BY <1>5
  <2>3. /\ ev.key \in Keys
        /\ \/ entries'[ev.key] = AckedEntry(entries[ev.key], ev.line)
           \/ entries' = entries /\ ev.line = 0
        /\ \A j \in Keys : j # ev.key => entries'[j] = entries[j]
    BY <1>1, <1>3, <2>1
  <2> QED
    BY <1>4, <2>2, <2>3
<1>7. faults' = 0 => faults = 0
  BY <1>2 DEF TypeOK
<1> QED
  BY <1>1, <1>2, <1>6, <1>7

LEMMA StopEffect ==
    ASSUME TypeOK, NEW k \in Keys, StopFinish(k)
    PROVE  /\ \A j \in Keys :
                /\ entries'[j].acked_through = entries[j].acked_through
                /\ entries'[j].state = "absent" => entries[j].state = "absent"
           /\ ledger' \in {ledger, entries'}
           /\ pc = "stop" /\ pc' = "idle" /\ todo' = {}
           /\ faults' = 0 => faults = 0
           /\ UNCHANGED <<cursors, batch, inbox, log, partial, missed, torn, delivered>>
<1>1. /\ WithState(entries[k], "stopped").acked_through = entries[k].acked_through
      /\ WithState(entries[k], "stopped").state # "absent"
  BY WithStateType DEF TypeOK, States, TERMINAL_STATES
<1>2. \A j \in Keys :
        /\ entries'[j].acked_through = entries[j].acked_through
        /\ entries'[j].state = "absent" => entries[j].state = "absent"
  BY <1>1 DEF TypeOK, StopFinish
<1>3. /\ ledger' \in {ledger, entries'}
      /\ pc = "stop" /\ pc' = "idle" /\ todo' = {}
      /\ UNCHANGED <<cursors, batch, inbox, log, partial, missed, torn, delivered>>
      /\ faults' \in {faults, faults + 1}
  BY DEF StopFinish, Flushed, FlushRaised, files, written, seen
<1>4. faults' = 0 => faults = 0
  BY <1>3 DEF TypeOK
<1> QED
  BY <1>2, <1>3, <1>4

LEMMA OpenEffect ==
    ASSUME TypeOK, Open
    PROVE  \A j \in Keys :
             /\ entries'[j].acked_through = ledger[j].acked_through
             /\ entries'[j].state = "absent" => ledger[j].state = "absent"
             /\ cursors'[j] = ledger[j].acked_through
BY WithStateType DEF TypeOK, Open, Probed, States, TERMINAL_STATES

\* Workers only append.
LEMMA WorkerEffect ==
    ASSUME TypeOK, NEW k \in Keys, NEW p \in DOMAIN kids[k],
           WorkerStep(k, p)
    PROVE  /\ \A j \in Keys :
                /\ Len(log'[j]) >= Len(log[j])
                /\ \A n \in 1..Len(log[j]) : log'[j][n] = log[j][n]
                /\ \A n \in 1..Len(log[j]) : n \in partial'[j] => n \in partial[j]
           /\ UNCHANGED <<pc, todo, entries, cursors, batch, inbox, ledger, delivered, faults>>
           /\ UNCHANGED <<missed, torn>>
<1>1. /\ UNCHANGED <<pc, todo, entries, cursors, batch, inbox, ledger, delivered, faults>>
      /\ UNCHANGED <<missed, torn>>
  BY WorkerFrame
<1>2. log' = log \/ \E kind \in AllKinds : log' = [log EXCEPT ![k] = Append(@, kind)]
  BY WorkerLines
<1>3. log[k] \in Seq(AllKinds) /\ Len(log[k]) \in Nat
  BY DEF TypeOK
<1>4. ASSUME NEW kind \in AllKinds
      PROVE  /\ Len(Append(log[k], kind)) = Len(log[k]) + 1
             /\ \A n \in 1..Len(log[k]) : Append(log[k], kind)[n] = log[k][n]
  BY <1>3, SessionAssumption, AppendProperties
<1>5. \A j \in Keys : /\ Len(log'[j]) >= Len(log[j])
                      /\ \A n \in 1..Len(log[j]) : log'[j][n] = log[j][n]
  <2> SUFFICES ASSUME NEW j \in Keys
               PROVE  /\ Len(log'[j]) >= Len(log[j])
                      /\ \A n \in 1..Len(log[j]) : log'[j][n] = log[j][n]
    OBVIOUS
  <2>1. CASE log' = log
    BY <2>1 DEF TypeOK
  <2>2. ASSUME NEW kind \in AllKinds, log' = [log EXCEPT ![k] = Append(@, kind)]
        PROVE  /\ Len(log'[j]) >= Len(log[j])
               /\ \A n \in 1..Len(log[j]) : log'[j][n] = log[j][n]
    BY <1>3, <1>4, <2>2 DEF TypeOK
  <2> QED
    BY <1>2, <2>1, <2>2
<1>6. \A j \in Keys : \A n \in 1..Len(log[j]) : n \in partial'[j] => n \in partial[j]
  <2>1. partial \in [Keys -> SUBSET Nat]
    BY DEF TypeOK
  <2>2. \/ partial' = partial
        \/ partial' = [partial EXCEPT ![k] = @ \cup {Len(log[k]) + 1}]
        \/ partial' = [partial EXCEPT ![k] = @ \ {kids[k][p].begun}]
    BY WorkerMarks
  <2> QED
    BY <1>3, <2>1, <2>2
<1> QED
  BY <1>1, <1>5, <1>6

-----------------------------------------------------------------------------
(***************************************************************************)
(* The inductive step, one lemma per conjunct, one step per action.        *)
(***************************************************************************)

\* The loops of _poll and the absence of entries.
LEMMA BookkeepingStep ==
    ASSUME TypeOK, TypeOK', Bookkeeping, AckedIsRead, InFlightIsRead, [Next]_vars
    PROVE  Bookkeeping'
<1> USE AckNumbers DEF history, seen, files, written, Known, Polling, Bookkeeping, AckedIsRead, Absent
<1>1. ASSUME NEW k \in Keys, LaunchSpawn(k) PROVE Bookkeeping'
  BY <1>1 DEF LaunchSpawn
<1>2. CASE LaunchFlush
  BY <1>2 DEF LaunchFlush, Flushed, FlushRaised
<1>3. CASE PollStart
  BY <1>3 DEF PollStart
<1>4. ASSUME NEW k \in Keys, Drain(k) PROVE Bookkeeping'
  <2>1. pc' \in {"drain", "reap"} /\ UNCHANGED <<inbox, ledger>>
    BY <1>4, DrainEffect
  <2>2. \A j \in todo' : j \in Keys /\ Known(j)
    BY <1>4, DrainEffect DEF TypeOK
  <2>3. \A j \in Keys : Known(j) => Known(j)'
    BY <1>4, DrainEffect
  <2>4. \A j \in Keys : ~Known(j)' => cursors'[j] = 0
    BY <1>4, DrainEffect
  <2> QED
    BY <2>1, <2>2, <2>3, <2>4
<1>5. ASSUME NEW k \in Keys, Reap(k) PROVE Bookkeeping'
  <2>1. pc' \in {"reap", "polled"} /\ UNCHANGED <<inbox, ledger>>
    BY <1>5, ReapEffect
  <2>2. \A j \in todo' : j \in Keys /\ Known(j)
    BY <1>5, ReapEffect DEF TypeOK
  <2>3. \A j \in Keys : Known(j) => Known(j)'
    BY <1>5, ReapEffect
  <2>4. \A j \in Keys : ~Known(j)' => cursors'[j] = 0
    BY <1>5, ReapEffect
  <2> QED
    BY <2>1, <2>2, <2>3, <2>4
<1>6. CASE PollEmpty
  BY <1>6 DEF PollEmpty
<1>7. CASE PollFlush
  BY <1>7 DEF PollFlush, Flushed, FlushRaised
<1>8. CASE PollReturn
  BY <1>8 DEF PollReturn
<1>9. ASSUME NEW ev \in inbox, Reply(ev) PROVE Bookkeeping'
  BY <1>9 DEF Reply
<1>10. ASSUME NEW ev \in inbox, Ack(ev) PROVE Bookkeeping'
  <2>1. UNCHANGED <<pc, todo, batch, cursors>> /\ pc = "idle" /\ inbox' \subseteq inbox
    BY <1>10, AckEffect
  <2>2. \A j \in Keys : entries'[j].state = entries[j].state
    BY <1>10, AckEffect
  <2>3. \A j \in Keys : ~Known(j)' => cursors'[j] = 0
    BY <2>1, <2>2
  <2>4. ASSUME NEW j \in Keys, ledger'[j].state = "absent"
        PROVE  ledger'[j].acked_through = 0
    <3>1. CASE ledger' = ledger
      BY <2>4, <3>1
    <3>2. CASE ledger' = entries'
      <4>1. entries[j].state = "absent" /\ cursors[j] = 0
        BY <2>2, <2>4, <3>2
      <4>2. entries[j].acked_through = 0
        BY <2>1, <4>1
      <4>3. j = ev.key => ev.line = 0
        BY <1>10, <4>1, AckEffect DEF InFlightIsRead
      <4>4. entries'[j].acked_through = 0
        BY <1>10, <4>2, <4>3, AckEffect
      <4> QED
        BY <3>2, <4>4
    <3> QED
      BY <1>10, <3>1, <3>2, AckEffect
  <2> QED
    BY <2>1, <2>3, <2>4
<1>11. ASSUME NEW k \in Keys, StopSignal(k) PROVE Bookkeeping'
  BY <1>11 DEF StopSignal
<1>12. ASSUME NEW k \in Keys, StopFinish(k) PROVE Bookkeeping'
  BY <1>12, StopEffect
<1>13. CASE Crash
  BY <1>13 DEF Crash, Forgotten
<1>14. CASE Close
  BY <1>14 DEF Close, Forgotten, Flushed, FlushRaised
<1>15. CASE Open
  BY <1>15, OpenEffect DEF Open
<1>16. ASSUME NEW k \in Keys, NEW p \in DOMAIN kids[k],
              WorkerStep(k, p)
       PROVE  Bookkeeping'
  BY <1>16, WorkerEffect
<1>18. ASSUME NEW k \in Keys, StopRefused(k) PROVE Bookkeeping'
  BY <1>18 DEF StopRefused
<1>17. CASE UNCHANGED vars
  BY <1>17 DEF vars, memory, files, written
<1> QED
  BY <1>1, <1>2, <1>3, <1>4, <1>5, <1>6, <1>7, <1>8, <1>9, <1>10, <1>11, <1>12, <1>13,
     <1>14, <1>15, <1>16, <1>17, <1>18 DEF Next, Coordinator, Caller, Worker

\* The redelivery rule itself.
LEMMA AckedIsReadStep ==
    ASSUME TypeOK, TypeOK', Bookkeeping, AckedIsRead, InFlightIsRead, [Next]_vars
    PROVE  AckedIsRead'
<1> USE AckNumbers DEF history, seen, files, written, Known, Polling, Bookkeeping, AckedIsRead, InFlightIsRead, Absent
<1>1. ASSUME NEW k \in Keys, LaunchSpawn(k) PROVE AckedIsRead'
  BY <1>1 DEF LaunchSpawn
<1>2. CASE LaunchFlush
  BY <1>2 DEF LaunchFlush, Flushed, FlushRaised
<1>3. CASE PollStart
  BY <1>3 DEF PollStart
<1>4. ASSUME NEW k \in Keys, Drain(k) PROVE AckedIsRead'
  <2>1. pc # "down" /\ pc' # "down" /\ UNCHANGED <<ledger, log>>
    BY <1>4, DrainEffect
  <2>2. ASSUME NEW j \in Keys
        PROVE  /\ entries'[j].acked_through = entries[j].acked_through
               /\ cursors[j] <= cursors'[j] /\ cursors'[j] <= Len(log[j])
               /\ cursors'[j] \in Nat
    <3>1. cursors'[j] = cursors[j] \/ cursors'[j] = Len(log[j])
      BY <1>4, DrainEffect
    <3>2. cursors[j] <= Len(log[j])
      BY <2>1
    <3>3. cursors[j] \in Nat /\ Len(log[j]) \in Nat
      BY DEF TypeOK
    <3>4. entries'[j].acked_through = entries[j].acked_through
      BY <1>4, DrainEffect
    <3>5. cursors'[j] = IF j = k THEN Len(log[k]) ELSE cursors[j]
      BY <1>4, DrainEffect
    <3> QED
      BY <3>2, <3>3, <3>4, <3>5
  <2> QED
    BY <2>1, <2>2
<1>5. ASSUME NEW k \in Keys, Reap(k) PROVE AckedIsRead'
  BY <1>5, ReapEffect
<1>6. CASE PollEmpty
  BY <1>6 DEF PollEmpty
<1>7. CASE PollFlush
  BY <1>7 DEF PollFlush, Flushed, FlushRaised
<1>8. CASE PollReturn
  BY <1>8 DEF PollReturn
<1>9. ASSUME NEW ev \in inbox, Reply(ev) PROVE AckedIsRead'
  BY <1>9 DEF Reply
<1>10. ASSUME NEW ev \in inbox, Ack(ev) PROVE AckedIsRead'
  BY <1>10, AckEffect
<1>11. ASSUME NEW k \in Keys, StopSignal(k) PROVE AckedIsRead'
  BY <1>11 DEF StopSignal
<1>12. ASSUME NEW k \in Keys, StopFinish(k) PROVE AckedIsRead'
  BY <1>12, StopEffect
<1>13. CASE Crash
  BY <1>13 DEF Crash, Forgotten
<1>14. CASE Close
  BY <1>14 DEF Close, Forgotten, Flushed, FlushRaised
<1>15. CASE Open
  BY <1>15, OpenEffect DEF Open
<1>16. ASSUME NEW k \in Keys, NEW p \in DOMAIN kids[k],
              WorkerStep(k, p)
       PROVE  AckedIsRead'
  <2>1. \A j \in Keys : Len(log'[j]) >= Len(log[j])
    BY <1>16, WorkerEffect
  <2>2. UNCHANGED <<pc, entries, cursors, ledger>>
    BY <1>16, WorkerEffect
  <2>3. \A j \in Keys : Len(log'[j]) \in Nat
    <3>1. log' \in [Keys -> Seq(AllKinds)]
      BY DEF TypeOK
    <3> QED
      BY <3>1, LenProperties
  <2> QED
    BY <2>1, <2>2, <2>3
<1>18. ASSUME NEW k \in Keys, StopRefused(k) PROVE AckedIsRead'
  BY <1>18 DEF StopRefused
<1>17. CASE UNCHANGED vars
  BY <1>17 DEF vars, memory, files, written
<1> QED
  BY <1>1, <1>2, <1>3, <1>4, <1>5, <1>6, <1>7, <1>8, <1>9, <1>10, <1>11, <1>12, <1>13,
     <1>14, <1>15, <1>16, <1>17, <1>18 DEF Next, Coordinator, Caller, Worker

\* Events in flight stay below the cursor.
LEMMA InFlightStep ==
    ASSUME TypeOK, TypeOK', Bookkeeping, AckedIsRead, InFlightIsRead, [Next]_vars
    PROVE  InFlightIsRead'
<1> USE AckNumbers DEF history, seen, files, written, Known, Polling, Bookkeeping, AckedIsRead, InFlightIsRead, Absent
<1>1. ASSUME NEW k \in Keys, LaunchSpawn(k) PROVE InFlightIsRead'
  BY <1>1 DEF LaunchSpawn
<1>2. CASE LaunchFlush
  BY <1>2 DEF LaunchFlush, Flushed, FlushRaised
<1>3. CASE PollStart
  BY <1>3 DEF PollStart
<1>4. ASSUME NEW k \in Keys, Drain(k) PROVE InFlightIsRead'
  <2>1. /\ Text(k) \in Seq(AllKinds) /\ Len(Text(k)) = Len(log[k])
        /\ log[k] \in Seq(AllKinds) /\ cursors[k] \in Nat /\ cursors[k] <= Len(log[k])
    BY <1>4, DrainEffect, TextType DEF TypeOK
  <2>2. \A j \in Keys : cursors[j] <= cursors'[j]
    <3>1. \A j \in Keys : cursors'[j] = IF j = k THEN Len(log[k]) ELSE cursors[j]
      BY <1>4, DrainEffect
    <3> QED
      BY <2>1, <3>1
  <2>5. batch' \subseteq Event /\ inbox \subseteq Event
    BY DEF TypeOK
  <2>3. ASSUME NEW ev \in batch' PROVE ev.line <= cursors'[ev.key]
    <3>1. ev.key \in Keys /\ ev.line \in Nat
      BY <2>3, <2>5 DEF Event
    <3>2. CASE ev \in batch
      <4>1. ev.line <= cursors[ev.key] /\ cursors[ev.key] <= cursors'[ev.key]
        BY <2>2, <3>1, <3>2
      <4>2. cursors[ev.key] \in Nat /\ cursors'[ev.key] \in Nat
        BY <3>1 DEF TypeOK
      <4> QED
        BY <3>1, <4>1, <4>2
    <3>3. CASE ev \in NewEvents(k, Text(k), cursors[k])
      <4>1. ev.key = k /\ ev.line <= Len(log[k])
        BY <2>1, <3>3, NewEventsType
      <4>2. cursors'[k] = Len(log[k])
        BY <1>4, DrainEffect
      <4> QED
        BY <4>1, <4>2
    <3> QED
      BY <1>4, <3>2, <3>3, DrainEffect
  <2>4. ASSUME NEW ev \in inbox' PROVE ev.line <= cursors'[ev.key]
    <3>1. ev \in inbox /\ ev.key \in Keys /\ ev.line \in Nat
      BY <1>4, <2>4, <2>5, DrainEffect DEF Event
    <3>2. ev.line <= cursors[ev.key] /\ cursors[ev.key] <= cursors'[ev.key]
      BY <2>2, <3>1
    <3>3. cursors[ev.key] \in Nat /\ cursors'[ev.key] \in Nat
      BY <3>1 DEF TypeOK
    <3> QED
      BY <3>1, <3>2, <3>3
  <2> QED
    BY <2>3, <2>4
<1>5. ASSUME NEW k \in Keys, Reap(k) PROVE InFlightIsRead'
  <2>1. UNCHANGED <<cursors, inbox>>
    BY <1>5, ReapEffect
  <2>2. ASSUME NEW ev \in batch' PROVE ev.line <= cursors[ev.key]
    <3>1. CASE ev \in batch
      BY <3>1
    <3>2. CASE ev.line = 0 /\ ev.key \in Keys
      BY <3>2
    <3> QED
      BY <1>5, <3>1, <3>2, ReapEffect
  <2> QED
    BY <2>1, <2>2
<1>6. CASE PollEmpty
  BY <1>6 DEF PollEmpty
<1>7. CASE PollFlush
  BY <1>7 DEF PollFlush, Flushed, FlushRaised
<1>8. CASE PollReturn
  BY <1>8 DEF PollReturn
<1>9. ASSUME NEW ev \in inbox, Reply(ev) PROVE InFlightIsRead'
  BY <1>9 DEF Reply
<1>10. ASSUME NEW ev \in inbox, Ack(ev) PROVE InFlightIsRead'
  BY <1>10, AckEffect
<1>11. ASSUME NEW k \in Keys, StopSignal(k) PROVE InFlightIsRead'
  BY <1>11 DEF StopSignal
<1>12. ASSUME NEW k \in Keys, StopFinish(k) PROVE InFlightIsRead'
  BY <1>12, StopEffect
<1>13. CASE Crash
  BY <1>13 DEF Crash, Forgotten
<1>14. CASE Close
  BY <1>14 DEF Close, Forgotten, Flushed, FlushRaised
<1>15. CASE Open
  BY <1>15, OpenEffect DEF Open
<1>16. ASSUME NEW k \in Keys, NEW p \in DOMAIN kids[k],
              WorkerStep(k, p)
       PROVE  InFlightIsRead'
  BY <1>16, WorkerEffect
<1>18. ASSUME NEW k \in Keys, StopRefused(k) PROVE InFlightIsRead'
  BY <1>18 DEF StopRefused
<1>17. CASE UNCHANGED vars
  BY <1>17 DEF vars, memory, files, written
<1> QED
  BY <1>1, <1>2, <1>3, <1>4, <1>5, <1>6, <1>7, <1>8, <1>9, <1>10, <1>11, <1>12, <1>13,
     <1>14, <1>15, <1>16, <1>17, <1>18 DEF Next, Coordinator, Caller, Worker

\* What a poll collects is above every ack.
LEMMA NoAckedReplayStep ==
    ASSUME TypeOK, TypeOK', Bookkeeping, AckedIsRead, InFlightIsRead, NoAckedReplay, [Next]_vars
    PROVE  NoAckedReplay'
<1> USE AckNumbers DEF history, seen, files, written, Known, Polling, LinesOf, Bookkeeping, AckedIsRead, NoAckedReplay, Absent
<1>1. ASSUME NEW k \in Keys, LaunchSpawn(k) PROVE NoAckedReplay'
  BY <1>1 DEF LaunchSpawn
<1>2. CASE LaunchFlush
  BY <1>2 DEF LaunchFlush, Flushed, FlushRaised
<1>3. CASE PollStart
  BY <1>3 DEF PollStart
<1>4. ASSUME NEW k \in Keys, Drain(k) PROVE NoAckedReplay'
  <2>1. /\ cursors[k] \in Nat /\ Text(k) \in Seq(AllKinds)
        /\ ledger[k].acked_through <= cursors[k]
        /\ entries[k].acked_through <= cursors[k]
    <3>1. pc # "down" /\ Text(k) \in Seq(AllKinds) /\ cursors[k] \in Nat
      BY <1>4, DrainEffect, TextType DEF TypeOK
    <3> QED
      BY <3>1
  <2>2. UNCHANGED ledger /\ \A j \in Keys : entries'[j].acked_through = entries[j].acked_through
    BY <1>4, DrainEffect
  <2>3. ASSUME NEW j \in Keys, NEW ev \in batch', ev.key = j, ev.line # 0
        PROVE  ev.line > ledger[j].acked_through /\ ev.line > entries[j].acked_through
    <3>1. CASE ev \in batch
      BY <2>3, <3>1
    <3>2. CASE ev \in NewEvents(k, Text(k), cursors[k])
      <4>1. j = k /\ ev.line > cursors[k] /\ ev.line \in Nat
        BY <2>1, <2>3, <3>2, NewEventsType DEF Event
      <4> QED
        BY <2>1, <4>1
    <3> QED
      BY <1>4, <3>1, <3>2, DrainEffect
  <2> QED
    BY <2>2, <2>3
<1>5. ASSUME NEW k \in Keys, Reap(k) PROVE NoAckedReplay'
  BY <1>5, ReapEffect
<1>6. CASE PollEmpty
  BY <1>6 DEF PollEmpty
<1>7. CASE PollFlush
  BY <1>7 DEF PollFlush, Flushed, FlushRaised
<1>8. CASE PollReturn
  BY <1>8 DEF PollReturn
<1>9. ASSUME NEW ev \in inbox, Reply(ev) PROVE NoAckedReplay'
  BY <1>9 DEF Reply
<1>10. ASSUME NEW ev \in inbox, Ack(ev) PROVE NoAckedReplay'
  BY <1>10, AckEffect
<1>11. ASSUME NEW k \in Keys, StopSignal(k) PROVE NoAckedReplay'
  BY <1>11 DEF StopSignal
<1>12. ASSUME NEW k \in Keys, StopFinish(k) PROVE NoAckedReplay'
  BY <1>12, StopEffect
<1>13. CASE Crash
  BY <1>13 DEF Crash, Forgotten
<1>14. CASE Close
  BY <1>14 DEF Close, Forgotten, Flushed, FlushRaised
<1>15. CASE Open
  BY <1>15, OpenEffect DEF Open
<1>16. ASSUME NEW k \in Keys, NEW p \in DOMAIN kids[k],
              WorkerStep(k, p)
       PROVE  NoAckedReplay'
  BY <1>16, WorkerEffect
<1>18. ASSUME NEW k \in Keys, StopRefused(k) PROVE NoAckedReplay'
  BY <1>18 DEF StopRefused
<1>17. CASE UNCHANGED vars
  BY <1>17 DEF vars, memory, files, written
<1> QED
  BY <1>1, <1>2, <1>3, <1>4, <1>5, <1>6, <1>7, <1>8, <1>9, <1>10, <1>11, <1>12, <1>13,
     <1>14, <1>15, <1>16, <1>17, <1>18 DEF Next, Coordinator, Caller, Worker

\* Lines read are lines told.
LEMMA ReadIsToldStep ==
    ASSUME TypeOK, TypeOK', Bookkeeping, AckedIsRead, InFlightIsRead, ReadIsTold, [Next]_vars
    PROVE  ReadIsTold'
<1> USE AckNumbers DEF history, seen, files, written, Known, Polling, LinesOf, Told, Bookkeeping, AckedIsRead, ReadIsTold, Absent
<1>1. ASSUME NEW k \in Keys, LaunchSpawn(k) PROVE ReadIsTold'
  BY <1>1 DEF LaunchSpawn
<1>2. CASE LaunchFlush
  <2>1. faults \in Nat
    BY DEF TypeOK
  <2>2. CASE FlushRaised
    BY <1>2, <2>1, <2>2 DEF LaunchFlush, FlushRaised
  <2>3. CASE Flushed(entries)
    BY <1>2, <2>1, <2>3 DEF LaunchFlush, Flushed, FlushRaised
  <2> QED
    BY <1>2, <2>2, <2>3 DEF LaunchFlush
<1>3. CASE PollStart
  BY <1>3 DEF PollStart
<1>4. ASSUME NEW k \in Keys, Drain(k) PROVE ReadIsTold'
  <2>1. /\ cursors[k] \in Nat /\ Text(k) \in Seq(AllKinds) /\ Len(log[k]) \in Nat
        /\ Len(Text(k)) = Len(log[k])
        /\ UNCHANGED <<ledger, log, delivered, faults>>
        /\ batch \subseteq batch' /\ pc # "down"
        /\ NewEvents(k, Text(k), cursors[k]) \subseteq batch'
        /\ \A j \in Keys : missed[j] \subseteq missed'[j]
    <3>1. /\ cursors[k] \in Nat /\ Text(k) \in Seq(AllKinds) /\ Len(log[k]) \in Nat
          /\ Len(Text(k)) = Len(log[k])
      BY TextType DEF TypeOK
    <3>3. \A j \in Keys : missed[j] \subseteq missed'[j]
      BY <1>4, DrainEffect
    <3>2. /\ UNCHANGED <<ledger, log, delivered, faults>>
          /\ pc = "drain" /\ batch' = batch \cup NewEvents(k, Text(k), cursors[k])
      BY <1>4, DrainEffect
    <3> QED
      BY <3>1, <3>2, <3>3
  <2>2. SUFFICES ASSUME faults = 0, NEW j \in Keys, NEW m \in 1..cursors'[j],
                        log[j][m] # "junk", m \notin missed'[j]
                 PROVE  m \in delivered[j] \/ m \in LinesOf(batch', j)
    <3>1. faults = 0 => \A j \in Keys : Told(j, ledger[j].acked_through, {})
                                      /\ Told(j, entries[j].acked_through, {})
      BY <2>1
    <3>2. faults = 0 => \A j \in Keys : Told(j, ledger[j].acked_through, {})'
                                      /\ Told(j, entries[j].acked_through, {})'
      BY <1>4, <2>1, <3>1, DrainEffect
    <3>3. pc' # "down"
      BY <1>4, DrainEffect
    <3> QED
      BY <2>1, <2>2, <3>2, <3>3
  <2>3. CASE j = k /\ m > cursors[k]
    <3>1. m \in (cursors[k] + 1)..Len(Text(k)) /\ Text(k)[m] # "junk"
      <4>1. m \in (cursors[k] + 1)..Len(log[k]) /\ m \in 1..Len(log[k])
        <5>1. cursors'[k] = Len(log[k])
          BY <1>4, DrainEffect
        <5> QED
          BY <2>1, <2>3, <5>1
      <4>2. m \notin Half(k)
        BY <1>4, <2>2, <2>3, DrainEffect
      <4>3. Text(k)[m] = log[k][m]
        BY <4>1, <4>2, TextType DEF Half
      <4> QED
        BY <2>1, <2>2, <2>3, <4>1, <4>3
    <3>2. m \in LinesOf(NewEvents(k, Text(k), cursors[k]), k)
      BY <2>1, <2>2, <2>3, <3>1, NewEventsType
    <3> QED
      BY <2>1, <2>3, <3>2
  <2>4. CASE ~(j = k /\ m > cursors[k])
    <3>1. m \in 1..cursors[j] /\ m \notin missed[j]
      <4>1. cursors'[j] = IF j = k THEN Len(log[k]) ELSE cursors[j]
        BY <1>4, DrainEffect
      <4> QED
        BY <2>1, <2>2, <2>4, <4>1
    <3>2. m \in delivered[j] \/ m \in LinesOf(batch, j)
      BY <2>1, <2>2, <3>1
    <3> QED
      BY <2>1, <3>2
  <2> QED
    BY <2>3, <2>4
<1>5. ASSUME NEW k \in Keys, Reap(k) PROVE ReadIsTold'
  BY <1>5, ReapEffect
<1>6. CASE PollEmpty
  BY <1>6 DEF PollEmpty
<1>7. CASE PollFlush
  <2>1. faults \in Nat
    BY DEF TypeOK
  <2>2. CASE FlushRaised
    BY <1>7, <2>1, <2>2 DEF PollFlush, FlushRaised
  <2>3. CASE Flushed(entries)
    BY <1>7, <2>1, <2>3 DEF PollFlush, Flushed, FlushRaised
  <2> QED
    BY <1>7, <2>2, <2>3 DEF PollFlush
<1>8. CASE PollReturn
  BY <1>8 DEF PollReturn
<1>9. ASSUME NEW ev \in inbox, Reply(ev) PROVE ReadIsTold'
  BY <1>9 DEF Reply
<1>10. ASSUME NEW ev \in inbox, Ack(ev) PROVE ReadIsTold'
  <2>1. /\ UNCHANGED <<pc, cursors, batch, log, missed, delivered>>
        /\ pc = "idle" /\ batch = {} /\ (faults' = 0 => faults = 0)
        /\ ledger' \in {ledger, entries'}
    BY <1>10, AckEffect
  <2>2. SUFFICES ASSUME faults = 0, NEW j \in Keys
                 PROVE  Told(j, entries'[j].acked_through, {})
    BY <2>1, <2>2
  <2>3. entries'[j].acked_through \in Nat /\ entries'[j].acked_through <= cursors[j]
    BY <1>10, <2>1, AckEffect DEF InFlightIsRead
  <2>4. Told(j, cursors[j], {})
    BY <2>1, <2>2
  <2> QED
    BY <2>3, <2>4
<1>11. ASSUME NEW k \in Keys, StopSignal(k) PROVE ReadIsTold'
  BY <1>11 DEF StopSignal
<1>12. ASSUME NEW k \in Keys, StopFinish(k) PROVE ReadIsTold'
  BY <1>12, StopEffect
<1>13. CASE Crash
  <2>1. \A j \in Keys : missed'[j] = missed[j] \cap 1..ledger[j].acked_through
    BY <1>13 DEF Crash, Forgotten
  <2> QED
    BY <1>13, <2>1 DEF Crash, Forgotten
<1>14. CASE Close
  <2>1. faults \in Nat /\ \A j \in Keys : missed'[j] = missed[j] \cap 1..ledger'[j].acked_through
    BY <1>14 DEF TypeOK, Close, Forgotten
  <2>2. CASE FlushRaised
    BY <1>14, <2>1, <2>2 DEF Close, Forgotten, FlushRaised
  <2>3. CASE Flushed(entries)
    BY <1>14, <2>1, <2>3 DEF Close, Forgotten, Flushed, FlushRaised
  <2> QED
    BY <1>14, <2>2, <2>3 DEF Close
<1>15. CASE Open
  BY <1>15, OpenEffect DEF Open
<1>16. ASSUME NEW k \in Keys, NEW p \in DOMAIN kids[k],
              WorkerStep(k, p)
       PROVE  ReadIsTold'
  <2>1. \A j \in Keys : \A n \in Nat : n <= Len(log[j]) =>
          \A m \in 1..n : log'[j][m] = log[j][m]
    BY <1>16, WorkerEffect
  <2>2. UNCHANGED <<pc, entries, cursors, batch, ledger, delivered, missed, faults>>
    BY <1>16, WorkerEffect
  <2>3. ASSUME NEW j \in Keys, NEW n \in Nat, NEW es, n <= Len(log[j]), Told(j, n, es)
        PROVE  Told(j, n, es)'
    BY <2>1, <2>2, <2>3
  <2> QED
    BY <2>2, <2>3
<1>18. ASSUME NEW k \in Keys, StopRefused(k) PROVE ReadIsTold'
  BY <1>18 DEF StopRefused
<1>17. CASE UNCHANGED vars
  BY <1>17 DEF vars, memory, files, written
<1> QED
  BY <1>1, <1>2, <1>3, <1>4, <1>5, <1>6, <1>7, <1>8, <1>9, <1>10, <1>11, <1>12, <1>13,
     <1>14, <1>15, <1>16, <1>17, <1>18 DEF Next, Coordinator, Caller, Worker

\* A step that changes neither what was missed nor how far the session has read, and
\* collects no line.
LEMMA MissedKept ==
    ASSUME MissedIsRead, UNCHANGED <<missed, torn, partial>>,
           pc # "down", pc' # "down",
           \A k \in Keys : cursors'[k] = cursors[k],
           \A ev \in batch' : ev \in batch \/ ev.line = 0
    PROVE  MissedIsRead'
<1>1. \A k \in Keys : Reach(k)' = Reach(k)
  BY DEF Reach
<1>2. \A k \in Keys : LinesOf(batch', k) \subseteq LinesOf(batch, k) \cup {0}
  BY DEF LinesOf
<1>3. \A k \in Keys : 0 \notin missed[k]
  BY DEF MissedIsRead
<1>4. \A k \in Keys : LinesOf(batch', k) \cap missed[k] = {}
  BY <1>2, <1>3 DEF MissedIsRead
<1> QED
  BY <1>1, <1>4 DEF MissedIsRead, LinesOf

\* A session that ends forgets what it has missed and not acked.
LEMMA MissedForgotten ==
    ASSUME TypeOK, TypeOK', AckedIsRead, MissedIsRead, Forgotten, pc # "down",
           \A k \in Keys : ledger'[k].acked_through <= cursors[k]
    PROVE  MissedIsRead'
<1> SUFFICES ASSUME NEW k \in Keys
             PROVE  /\ missed'[k] \subseteq 1..ledger'[k].acked_through
                    /\ partial'[k] \cap 1..ledger'[k].acked_through \subseteq missed'[k]
                    /\ LinesOf(batch', k) \cap missed'[k] = {}
                    /\ k \notin torn' => missed'[k] = {}
  BY DEF MissedIsRead, Forgotten, Reach, LinesOf
<1>1. /\ missed'[k] = missed[k] \cap 1..ledger'[k].acked_through
      /\ partial' = partial /\ torn' = torn /\ batch' = {}
  BY DEF Forgotten, files, written
<1>2. ledger'[k].acked_through \in Nat /\ cursors[k] \in Nat
  BY DEF TypeOK, LedgerEntry
<1>3. 1..ledger'[k].acked_through \subseteq 1..cursors[k]
  BY <1>2
<1>4. partial[k] \cap 1..cursors[k] \subseteq missed[k]
  BY DEF MissedIsRead, Reach
<1> QED
  BY <1>1, <1>3, <1>4 DEF MissedIsRead, LinesOf

\* What is missed is read, and what is read and not whole is missed.
LEMMA MissedIsReadStep ==
    ASSUME TypeOK, TypeOK', Bookkeeping, AckedIsRead, InFlightIsRead, MissedIsRead,
           [Next]_vars
    PROVE  MissedIsRead'
<1>1. ASSUME NEW k \in Keys, LaunchSpawn(k) PROVE MissedIsRead'
  <2>1. \A j \in Keys : cursors'[j] = cursors[j]
    BY <1>1 DEF TypeOK, LaunchSpawn, Bookkeeping
  <2> QED
    BY <1>1, <2>1, MissedKept DEF LaunchSpawn, files, written, history, seen
<1>2. CASE LaunchFlush \/ PollStart \/ PollEmpty \/ PollFlush \/ PollReturn
  <2>1. /\ UNCHANGED <<missed, torn, partial, cursors>> /\ pc # "down" /\ pc' # "down"
        /\ batch' \in {batch, {}}
    BY <1>2 DEF LaunchFlush, PollStart, PollEmpty, PollFlush, PollReturn, files, written,
                history, seen
  <2> QED
    BY <2>1, MissedKept
<1>3. ASSUME NEW k \in Keys, Drain(k) PROVE MissedIsRead'
  <2>1. /\ pc # "down" /\ pc' # "down" /\ partial' = partial
        /\ torn' = IF Half(k) = {} THEN torn ELSE torn \cup {k}
        /\ batch' = batch \cup NewEvents(k, Text(k), cursors[k])
    BY <1>3, DrainEffect
  <2>2. /\ cursors[k] \in Nat /\ Len(log[k]) \in Nat /\ cursors[k] <= Len(log[k])
        /\ Text(k) \in Seq(AllKinds) /\ Len(Text(k)) = Len(log[k])
    <3>1. cursors[k] \in Nat /\ Len(log[k]) \in Nat
      BY DEF TypeOK
    <3>2. cursors[k] <= Len(log[k])
      BY <2>1 DEF AckedIsRead
    <3> QED
      BY <3>1, <3>2, TextType
  <2> SUFFICES ASSUME NEW j \in Keys
               PROVE  /\ missed'[j] \subseteq 1..cursors'[j]
                      /\ partial[j] \cap 1..cursors'[j] \subseteq missed'[j]
                      /\ LinesOf(batch', j) \cap missed'[j] = {}
                      /\ j \notin torn' => missed'[j] = {}
    BY <2>1 DEF MissedIsRead, Reach, LinesOf
  <2>3. /\ missed[j] \subseteq 1..cursors[j]
        /\ partial[j] \cap 1..cursors[j] \subseteq missed[j]
        /\ LinesOf(batch, j) \cap missed[j] = {}
        /\ j \notin torn => missed[j] = {}
    BY <2>1 DEF MissedIsRead, Reach
  <2>4. CASE j # k
    <3>1. missed'[j] = missed[j] /\ cursors'[j] = cursors[j]
      BY <1>3, <2>4, DrainEffect
    <3>2. \A ev \in NewEvents(k, Text(k), cursors[k]) : ev.key # j
      BY <2>2, <2>4, NewEventsType
    <3>3. LinesOf(batch', j) = LinesOf(batch, j)
      BY <2>1, <3>2 DEF LinesOf
    <3> QED
      BY <2>1, <2>3, <3>1, <3>3
  <2>5. CASE j = k
    <3>1. missed'[k] = missed[k] \cup Half(k) /\ cursors'[k] = Len(log[k])
      BY <1>3, DrainEffect
    <3>2. Half(k) \subseteq 1..Len(log[k])
      BY <2>2 DEF Half
    <3>3. 1..cursors[k] \subseteq 1..Len(log[k])
      BY <2>2
    <3>4. partial[k] \cap 1..Len(log[k]) \subseteq missed[k] \cup Half(k)
      BY <2>2, <2>3, <2>5 DEF Half
    <3>5. ASSUME NEW ev \in batch', ev.key = k, ev.line \in missed'[k] PROVE FALSE
      <4>1. CASE ev \in batch
        <5>1. ev.line \in LinesOf(batch, k) /\ ev.line <= cursors[k]
          BY <3>5, <4>1 DEF LinesOf, InFlightIsRead
        <5>2. ev.line \notin Half(k)
          BY <2>2, <5>1 DEF Half
        <5> QED
          BY <2>3, <2>5, <3>1, <3>5, <5>1, <5>2
      <4>2. CASE ev \in NewEvents(k, Text(k), cursors[k])
        <5>1. PICK n \in (cursors[k] + 1)..Len(log[k]) : ev.line = n /\ Text(k)[n] # "junk"
          BY <2>2, <4>2 DEF NewEvents
        <5>2. n \notin partial[k]
          BY <2>2, <5>1, TextType
        <5>3. n \notin missed[k]
          BY <2>2, <2>3, <2>5, <5>1
        <5> QED
          BY <3>1, <3>5, <5>1, <5>2, <5>3 DEF Half
      <4> QED
        BY <2>1, <4>1, <4>2
    <3>6. k \notin torn' => missed'[k] = {}
      BY <2>1, <2>3, <2>5, <3>1
    <3> QED
      BY <2>3, <2>5, <3>1, <3>2, <3>3, <3>4, <3>5, <3>6 DEF LinesOf
  <2> QED
    BY <2>4, <2>5
<1>4. ASSUME NEW k \in Keys, Reap(k) PROVE MissedIsRead'
  BY <1>4, ReapEffect, MissedKept
<1>5. ASSUME NEW ev \in inbox, Reply(ev) PROVE MissedIsRead'
  BY <1>5, MissedKept DEF Reply, written, history, seen
<1>6. ASSUME NEW ev \in inbox, Ack(ev) PROVE MissedIsRead'
  BY <1>6, AckEffect, MissedKept
<1>7. ASSUME NEW k \in Keys, StopSignal(k) \/ StopRefused(k) PROVE MissedIsRead'
  BY <1>7, MissedKept DEF StopSignal, StopRefused, files, written, history, seen
<1>8. ASSUME NEW k \in Keys, StopFinish(k) PROVE MissedIsRead'
  BY <1>8, StopEffect, MissedKept
<1>9. CASE Crash
  <2>1. Forgotten /\ pc # "down" /\ ledger' = ledger
    BY <1>9 DEF Crash
  <2>2. \A k \in Keys : ledger'[k].acked_through <= cursors[k]
    BY <2>1, AckNumbers DEF AckedIsRead
  <2> QED
    BY <2>1, <2>2, MissedForgotten
<1>10. CASE Close
  <2>1. Forgotten /\ pc # "down" /\ ledger' \in {ledger, entries}
    BY <1>10 DEF Close, Flushed, FlushRaised
  <2>2. \A k \in Keys : ledger'[k].acked_through <= cursors[k]
    BY <2>1, AckNumbers DEF AckedIsRead
  <2> QED
    BY <2>1, <2>2, MissedForgotten
<1>11. CASE Open
  <2>1. \A k \in Keys : Reach(k)' = Reach(k)
    BY <1>11, OpenEffect DEF Open, Reach
  <2>2. UNCHANGED <<missed, torn, partial, batch>>
    BY <1>11 DEF Open, files, written, history, seen
  <2> QED
    BY <2>1, <2>2 DEF MissedIsRead, LinesOf
<1>12. ASSUME NEW k \in Keys, NEW p \in DOMAIN kids[k], WorkerStep(k, p)
       PROVE  MissedIsRead'
  <2>1. /\ UNCHANGED <<missed, torn, batch>>
        /\ \A j \in Keys : Reach(j)' = Reach(j)
        /\ \A j \in Keys : \A n \in 1..Len(log[j]) : n \in partial'[j] => n \in partial[j]
    BY <1>12, WorkerEffect DEF Reach
  <2>2. \A j \in Keys : 1..Reach(j) \subseteq 1..Len(log[j])
    BY AckNumbers DEF Reach, AckedIsRead
  <2> QED
    BY <2>1, <2>2 DEF MissedIsRead, LinesOf
<1>13. CASE UNCHANGED vars
  BY <1>13 DEF MissedIsRead, Reach, LinesOf, vars, memory, files, written, history, seen
<1> QED
  BY <1>1, <1>2, <1>3, <1>4, <1>5, <1>6, <1>7, <1>8, <1>9, <1>10, <1>11, <1>12, <1>13
     DEF Next, Coordinator, Caller, Worker

-----------------------------------------------------------------------------
(***************************************************************************)
(* The theorems.                                                           *)
(***************************************************************************)

LEMMA IInvInit == Init => IInv
<1> SUFFICES ASSUME Init PROVE IInv
  OBVIOUS
<1>1. TypeOK
  BY TypeInit
<1> QED
  BY <1>1 DEF Init, IInv, Bookkeeping, Known, AckedIsRead, InFlightIsRead, NoAckedReplay,
              LinesOf, ReadIsTold, Told, Absent, Polling, MissedIsRead, Reach

LEMMA IInvStep == IInv /\ [Next]_vars => IInv'
<1> SUFFICES ASSUME IInv, [Next]_vars PROVE IInv'
  OBVIOUS
<1>1. TypeOK'
  BY TypeStep DEF IInv
<1> QED
  BY <1>1, BookkeepingStep, AckedIsReadStep, InFlightStep, NoAckedReplayStep,
     ReadIsToldStep, MissedIsReadStep DEF IInv

LEMMA IInvariant == Spec => []IInv
BY IInvInit, IInvStep, PTL DEF Spec

\* The acks of a session are lines it has read, those on disk are acks it made.
THEOREM AckedIsReadAlways == Spec => []AckedIsRead
<1>1. IInv => AckedIsRead
  BY DEF IInv
<1> QED
  BY <1>1, IInvariant, PTL

\* No wait() returns a line already acked, over any number of crashes.
THEOREM NoAckedReplayAlways == Spec => []NoAckedReplay
<1>1. IInv => NoAckedReplay
  BY DEF IInv
<1> QED
  BY <1>1, IInvariant, PTL

\* While ledger writes go through, no line is acked that no wait() returned: an
\* event is never lost between the events file and the coordinator.
THEOREM AckedWereDeliveredAlways == Spec => []AckedWereDelivered
<1>1. IInv => AckedWereDelivered
  BY AckNumbers DEF IInv, ReadIsTold, Told, LinesOf, AckedWereDelivered
<1> QED
  BY <1>1, IInvariant, PTL

\* What is written to the ledger has every ack that was there.
LEMMA AckGrows ==
    ASSUME IInv, [Next]_vars, NEW k \in Keys
    PROVE  ledger'[k].acked_through >= ledger[k].acked_through
<1>1. TypeOK /\ AckedIsRead
  BY DEF IInv
<1>2. /\ entries[k].acked_through \in Nat
      /\ ledger[k].acked_through \in Nat
      /\ pc # "down" => ledger[k].acked_through <= entries[k].acked_through
  BY <1>1, AckNumbers DEF AckedIsRead
<1>3. CASE LaunchFlush \/ PollFlush \/ Close
  <2>1. pc # "down" /\ (ledger' = ledger \/ ledger' = entries)
    BY <1>3 DEF LaunchFlush, PollFlush, Close, Flushed, FlushRaised
  <2> QED
    BY <1>2, <2>1
<1>4. ASSUME NEW ev \in inbox, Ack(ev)
      PROVE  ledger'[k].acked_through >= ledger[k].acked_through
  <2>1. CASE ledger' = ledger
    BY <1>2, <2>1
  <2>2. CASE ledger' = entries'
    BY <1>4, <1>1, <1>2, <2>2, AckEffect
  <2> QED
    BY <1>4, <1>1, <2>1, <2>2, AckEffect
<1>5. ASSUME NEW j \in Keys, StopFinish(j)
      PROVE  ledger'[k].acked_through >= ledger[k].acked_through
  <2>1. CASE ledger' = ledger
    BY <1>2, <2>1
  <2>2. CASE ledger' = entries'
    BY <1>5, <1>1, <1>2, <2>2, StopEffect
  <2> QED
    BY <1>5, <1>1, <2>1, <2>2, StopEffect
<1>6. CASE ledger' = ledger
  BY <1>6, <1>2
<1> QED
  BY <1>3, <1>4, <1>5, <1>6, WorkerFrame
     DEF Next, Coordinator, Caller, Worker, LaunchSpawn, PollStart, Drain, Reap, PollEmpty,
         PollReturn, Reply, StopSignal, StopRefused, Crash, Open, vars

\* An ack is never taken back: the ledger's acked_through only grows, over any
\* crash and reopening.
AckNeverLost ==
    [][\A k \in Keys : ledger'[k].acked_through >= ledger[k].acked_through]_vars

\* acked_through on disk never decreases.
THEOREM AckNeverLostAlways == Spec => AckNeverLost
<1>1. IInv /\ [Next]_vars
        => [\A k \in Keys : ledger'[k].acked_through >= ledger[k].acked_through]_vars
  BY AckGrows
<1> QED
  BY <1>1, IInvariant, PTL DEF Spec, AckNeverLost
-----------------------------------------------------------------------------
(***************************************************************************)
(* Success has evidence: an entry becomes "succeeded" only from a line or  *)
(* an exit status, and neither is ever taken back.                         *)
(***************************************************************************)

Evidence(k) ==
    \/ \E n \in 1..Len(log[k]) \ partial[k] : log[k][n] = "ok"
    \/ \E p \in 1..Len(kids[k]) : ~kids[k][p].alive /\ kids[k][p].code = 0

\* What is recorded of an entry, in memory or on disk, rests on evidence.
Founded(k, e) ==
    /\ e.state # "absent" => e.pid # 0
    /\ e.state = "succeeded" => Evidence(k)

\* stop() works on a key that has an entry.
StopsKnown == pc = "stop" => \A k \in todo : Known(k)

EvidenceInv ==
    /\ StopsKnown
    /\ \A k \in Keys : Founded(k, entries[k]) /\ Founded(k, ledger[k])

\* A process that is gone stays as it went, whoever has its pid.
LEMMA KidsEffect ==
    ASSUME TypeOK, [Next]_vars, NEW k \in Keys, NEW p \in 1..Len(kids[k]), ~kids[k][p].alive
    PROVE  /\ p \in 1..Len(kids'[k])
           /\ kids'[k][p].alive = kids[k][p].alive /\ kids'[k][p].code = kids[k][p].code
<1> DEFINE Kept == /\ p \in 1..Len(kids'[k])
                   /\ kids'[k][p].alive = kids[k][p].alive
                   /\ kids'[k][p].code = kids[k][p].code
<1>1. kids \in [Keys -> Seq(Process)] /\ \A j \in Keys : Len(kids[j]) \in Nat
  BY DEF TypeOK
<1>2. CASE kids' = kids
  BY <1>2
<1>3. ASSUME NEW j \in Keys, kids' = [kids EXCEPT ![j] = Append(@, Started)] PROVE Kept
  <2>1. Started \in Process
    BY DEF Started, Process
  <2>2. /\ Len(Append(kids[k], Started)) = Len(kids[k]) + 1
        /\ \A n \in 1..Len(kids[k]) : Append(kids[k], Started)[n] = kids[k][n]
    BY <1>1, <2>1, AppendProperties
  <2>3. kids'[k] = IF j = k THEN Append(kids[k], Started) ELSE kids[k]
    BY <1>1, <1>3
  <2> QED
    BY <1>1, <2>2, <2>3
<1>4. ASSUME NEW j \in Keys, NEW q \in 1..Len(kids[j]), NEW kid \in Process,
             \/ kids[j][q].alive
             \/ kid.alive = kids[j][q].alive /\ kid.code = kids[j][q].code,
             kids' = WithKid(j, q, kid)
      PROVE  Kept
  <2>1. Len(kids'[k]) = Len(kids[k])
    BY <1>4, WithKidType
  <2>2. kids'[k][p].alive = kids[k][p].alive /\ kids'[k][p].code = kids[k][p].code
    <3>1. CASE j # k
      BY <1>1, <1>4, <3>1 DEF WithKid
    <3>2. CASE j = k
      <4>1. kids'[k] = [kids[k] EXCEPT ![q] = kid]
        BY <1>1, <1>4, <3>2 DEF WithKid
      <4>2. kids[k] \in Seq(Process) /\ q \in 1..Len(kids[k])
        BY <1>1, <1>4, <3>2
      <4>3. kids'[k][p] = IF p = q THEN kid ELSE kids[k][p]
        BY <4>1, <4>2, ExceptSeq
      <4> QED
        BY <1>4, <3>2, <4>3
    <3> QED
      BY <3>1, <3>2
  <2> QED
    BY <2>1, <2>2
<1>5. ASSUME NEW j \in Keys, StopFinish(j) PROVE Kept
  <2> DEFINE pid == entries[j].pid
             kid == IF kids[j][pid].alive THEN Exited(1) ELSE WithPid(kids[j][pid], FALSE)
  <2>1. CASE PidAlive(j, pid)
    <3>1. pid \in 1..Len(kids[j])
      <4>1. entries[j] \in LedgerEntry /\ kids[j] \in Seq(Process) /\ pid <= Len(kids[j])
        BY DEF TypeOK, PidsStarted
      <4>2. pid \in Nat /\ pid # 0 /\ Len(kids[j]) \in Nat
        BY <2>1, <4>1 DEF PidAlive, LedgerEntry
      <4> QED
        BY <4>1, <4>2
    <3>2. kids[j][pid] \in Process
      BY <1>1, <3>1, ElementOfSeq
    <3>3. kid \in Process /\ kids' = WithKid(j, pid, kid)
      BY <1>5, <2>1, <3>2, ProcessType DEF StopFinish, _terminate
    <3>4. kids[j][pid].alive \/ (kid.alive = kids[j][pid].alive /\ kid.code = kids[j][pid].code)
      BY <3>2 DEF WithPid, Process
    <3> HIDE DEF kid, pid
    <3> QED
      BY <1>4, <3>1, <3>3, <3>4
  <2> QED
    BY <1>2, <1>5, <2>1 DEF StopFinish, _terminate
<1>6. ASSUME NEW j \in Keys, NEW q \in DOMAIN kids[j], WorkerStep(j, q)
      PROVE  Kept
  <2>1. q \in 1..Len(kids[j]) /\ kids[j][q] \in Process
    BY <1>1, <1>6, ElementOfSeq
  <2>2. CASE kids[j][q].alive
    BY <1>4, <1>6, <2>1, <2>2, WorkerKid
  <2>3. CASE ~kids[j][q].alive
    <3>1. PICK taken \in BOOLEAN : kids' = WithKid(j, q, WithPid(kids[j][q], taken))
      BY <1>6, <2>3 DEF WorkerStep, ChildBegin, ChildEnd, ChildReadReply, ChildExit, PidReused,
                        PidFreed
    <3>2. /\ WithPid(kids[j][q], taken) \in Process
          /\ WithPid(kids[j][q], taken).alive = kids[j][q].alive
          /\ WithPid(kids[j][q], taken).code = kids[j][q].code
      BY <2>1, ProcessType DEF WithPid, Process
    <3> QED
      BY <1>4, <2>1, <3>1, <3>2
  <2> QED
    BY <2>2, <2>3
<1> QED
  BY <1>2, <1>3, <1>5, <1>6
     DEF Next, Coordinator, Caller, Worker, LaunchSpawn, LaunchFlush, PollStart, Drain, Reap,
         PollEmpty, PollFlush, PollReturn, Reply, Ack, StopSignal, StopRefused, Crash, Close,
         Forgotten, Open, vars

\* Workers only append to their files, and nobody else writes there.
LEMMA LogEffect ==
    ASSUME TypeOK, [Next]_vars, NEW k \in Keys
    PROVE  /\ Len(log'[k]) >= Len(log[k])
           /\ \A n \in 1..Len(log[k]) : log'[k][n] = log[k][n]
           /\ \A n \in 1..Len(log[k]) : n \in partial'[k] => n \in partial[k]
<1>1. CASE log' = log /\ partial' = partial
  BY <1>1 DEF TypeOK
<1>2. ASSUME NEW j \in Keys, NEW q \in DOMAIN kids[j], WorkerStep(j, q)
      PROVE  /\ Len(log'[k]) >= Len(log[k])
             /\ \A n \in 1..Len(log[k]) : log'[k][n] = log[k][n]
             /\ \A n \in 1..Len(log[k]) : n \in partial'[k] => n \in partial[k]
  BY <1>2, WorkerEffect
<1> QED
  BY <1>1, <1>2
     DEF Next, Coordinator, Caller, Worker, LaunchSpawn, LaunchFlush, PollStart, Drain, Reap,
         PollEmpty, PollFlush, PollReturn, Reply, Ack, StopSignal, StopFinish, StopRefused,
         Crash, Close, Forgotten, Open, vars, files, written

\* Evidence is never taken back.
LEMMA EvidenceKept ==
    ASSUME TypeOK, TypeOK', [Next]_vars, NEW k \in Keys, Evidence(k)
    PROVE  Evidence(k)'
<1>1. Len(log[k]) \in Nat /\ Len(log'[k]) \in Nat
  BY DEF TypeOK
<1>2. ASSUME NEW n \in 1..Len(log[k]) \ partial[k], log[k][n] = "ok" PROVE Evidence(k)'
  <2>1. n \in 1..Len(log'[k]) \ partial'[k] /\ log'[k][n] = "ok"
    BY <1>1, <1>2, LogEffect
  <2> QED
    BY <2>1 DEF Evidence
<1>3. ASSUME NEW p \in 1..Len(kids[k]), ~kids[k][p].alive, kids[k][p].code = 0
      PROVE  Evidence(k)'
  <2>1. p \in 1..Len(kids'[k]) /\ ~kids'[k][p].alive /\ kids'[k][p].code = 0
    BY <1>3, KidsEffect
  <2> QED
    BY <1>3, <2>1 DEF Evidence
<1> QED
  BY <1>2, <1>3 DEF Evidence

\* The least-number principle: the library's well-founded order, for sets.
LEMMA NatMin ==
    ASSUME NEW S \in SUBSET Nat, S # {}
    PROVE  \E x \in S : \A y \in S : x <= y
<1>1. PICK x \in S : \A y \in S : ~(<<y, x>> \in OpToRel(<, Nat))
  BY NatLessThanWellFounded, WFMin
<1>2. \A y \in S : y < x => <<y, x>> \in OpToRel(<, Nat)
  BY DEF OpToRel
<1>3. \A y \in S : ~(y < x)
  BY <1>1, <1>2
<1>4. \A y \in S : x <= y
  BY <1>3
<1> QED
  BY <1>4

LEMMA BoundedMax ==
    ASSUME NEW S \in SUBSET Nat, NEW n \in Nat, S # {}, \A x \in S : x <= n
    PROVE  \E x \in S : \A y \in S : y <= x
<1> DEFINE Gaps == {m \in Nat : \E x \in S : m = n - x}
<1>1. \A y \in S : n - y \in Gaps
  OBVIOUS
<1>2. PICK u \in Gaps : \A y \in Gaps : u <= y
  BY <1>1, NatMin
<1>3. PICK x \in S : u = n - x
  BY <1>2
<1>4. \A y \in S : n - x <= n - y
  BY <1>1, <1>2, <1>3
<1> QED
  BY <1>4

\* The line that decides a drain was not read before, and is in the file.
LEMMA LastSettlingIsLine ==
    ASSUME NEW s \in Seq(AllKinds), NEW c \in Nat, LastSettling(s, c) # 0
    PROVE  LastSettling(s, c) \in 1..Len(s)
<1> DEFINE moving == {n \in (c + 1)..Len(s) : s[n] \in {"ok", "bad", "heartbeat"}}
<1>1. Len(s) \in Nat
  OBVIOUS
<1>2. moving # {}
  BY DEF LastSettling
<1>3. moving \in SUBSET Nat /\ \A n \in moving : n \in 1..Len(s) /\ n <= Len(s)
  BY <1>1
<1>4. \E n \in moving : \A m \in moving : m <= n
  BY <1>1, <1>2, <1>3, BoundedMax
<1>5. LastSettling(s, c) = CHOOSE n \in moving : \A m \in moving : m <= n
  BY <1>2 DEF LastSettling
<1> HIDE DEF moving
<1> QED
  BY <1>3, <1>4, <1>5

\* One step of one entry: it stays, or it becomes something that is no success,
\* or a success with its evidence.
LEMMA FoundedStep ==
    ASSUME TypeOK, TypeOK', EvidenceInv, Bookkeeping, [Next]_vars, NEW k \in Keys
    PROVE  Founded(k, entries[k])' /\ Founded(k, ledger[k])'
<1> DEFINE New == Founded(k, entries[k])'
<1> DEFINE OnDisk == ledger'[k] \in {ledger[k], entries'[k]}
<1>1. entries[k] \in LedgerEntry /\ ledger[k] \in LedgerEntry
  BY DEF TypeOK
<1>2. Evidence(k) => Evidence(k)'
  BY EvidenceKept
<1>3. entries'[k] = entries[k] => New
  BY <1>2 DEF EvidenceInv, Founded
<1>4. ledger'[k] = ledger[k] => Founded(k, ledger[k])'
  BY <1>2 DEF EvidenceInv, Founded
<1>5. New /\ OnDisk => New /\ Founded(k, ledger[k])'
  BY <1>4 DEF Founded
<1>6. ASSUME NEW state \in States \ {"succeeded"}, entries[k].state # "absent",
             entries'[k] = WithState(entries[k], state)
      PROVE  New
  BY <1>1, <1>6, WithStateType DEF EvidenceInv, Founded
<1>7. ASSUME NEW j \in Keys, LaunchSpawn(j) PROVE New /\ OnDisk
  <2>1. Len(kids[j]) \in Nat /\ ledger' = ledger
    BY <1>7 DEF TypeOK, LaunchSpawn
  <2>2. CASE j = k
    <3>1. entries'[k] = [state |-> "running", pid |-> Len(kids[k]) + 1, acked_through |-> 0]
      BY <1>7, <2>2 DEF LaunchSpawn, TypeOK
    <3> QED
      BY <2>1, <2>2, <3>1 DEF Founded
  <2>3. CASE j # k
    BY <1>3, <1>7, <2>1, <2>3 DEF LaunchSpawn, TypeOK
  <2> QED
    BY <2>2, <2>3
<1>8. ASSUME NEW j \in Keys, Drain(j) PROVE New /\ OnDisk
  <2> DEFINE last == LastSettling(Text(j), cursors[j])
  <2>1. /\ ledger' = ledger /\ j \in todo /\ pc = "drain" /\ log' = log
        /\ entries' = [entries EXCEPT ![j] =
                         IF last = 0 THEN @ ELSE Applied(@, Text(j)[last])]
    BY <1>8 DEF Drain, _drain, files, written
  <2>2. CASE j # k \/ last = 0
    BY <1>3, <2>1, <2>2 DEF TypeOK
  <2>3. CASE j = k /\ last # 0
    <3>1. last \in 1..Len(log[k])
      <4>1. Text(k) \in Seq(AllKinds) /\ Len(Text(k)) = Len(log[k]) /\ cursors[k] \in Nat
        BY TextType DEF TypeOK
      <4> QED
        BY <2>3, <4>1, LastSettlingIsLine
    <3>2. entries'[k] = Applied(entries[k], Text(k)[last])
      BY <2>1, <2>3 DEF TypeOK
    <3>3. entries[k].state # "absent"
      BY <2>1, <2>3 DEF Bookkeeping, Known
    <3>4. CASE Text(k)[last] = "ok"
      <4>1. Evidence(k)
        <5>1. last \notin partial[k] /\ log[k][last] = "ok"
          BY <3>1, <3>4, TextType
        <5> QED
          BY <3>1, <5>1 DEF Evidence
      <4>2. entries'[k] = WithState(entries[k], "succeeded")
        BY <3>2, <3>4 DEF Applied
      <4> QED
        BY <1>1, <1>2, <2>1, <3>3, <4>1, <4>2, WithStateType
           DEF EvidenceInv, Founded, States, TERMINAL_STATES
    <3>5. CASE Text(k)[last] # "ok"
      <4>1. \/ entries'[k] = entries[k]
            \/ entries'[k] = WithState(entries[k], "failed")
            \/ entries'[k] = WithState(entries[k], "running")
        BY <3>2, <3>5 DEF Applied
      <4> QED
        BY <1>3, <1>6, <2>1, <3>3, <4>1 DEF States, TERMINAL_STATES
    <3> QED
      BY <3>4, <3>5
  <2> QED
    BY <2>2, <2>3
<1>9. ASSUME NEW j \in Keys, Reap(j) PROVE New /\ OnDisk
  <2>1. ledger' = ledger /\ j \in todo /\ pc = "reap" /\ kids' = kids
    BY <1>9 DEF Reap
  <2>2. \/ entries' = entries
        \/ /\ ~Alive(j)
           /\ entries' = [entries EXCEPT ![j] = WithState(@, ReapedOutcome(j))]
    BY <1>9 DEF Reap, _reap
  <2>3. CASE entries'[k] = entries[k]
    BY <1>3, <2>1, <2>3
  <2>4. CASE j = k /\ ~Alive(k) /\ entries'[k] = WithState(entries[k], ReapedOutcome(k))
    <3>1. entries[k].state # "absent"
      BY <2>1, <2>4 DEF Bookkeeping, Known
    <3>2. CASE ReapedOutcome(k) = "succeeded"
      <4>1. entries[k].pid \in 1..Len(kids[k])
        <5>1. entries[k].pid \in Nat /\ entries[k].pid # 0
          BY <1>1, <3>1 DEF EvidenceInv, Founded, LedgerEntry
        <5>2. entries[k].pid <= Len(kids[k]) /\ Len(kids[k]) \in Nat
          BY DEF TypeOK, PidsStarted
        <5> QED
          BY <5>1, <5>2
      <4>2. ~kids[k][entries[k].pid].alive /\ kids[k][entries[k].pid].code = 0
        BY <2>4, <3>2, <4>1 DEF Alive, ReapedOutcome
      <4>3. Evidence(k)
        BY <4>1, <4>2 DEF Evidence
      <4> QED
        BY <1>1, <1>2, <2>1, <2>4, <3>1, <3>2, <4>3, WithStateType
           DEF EvidenceInv, Founded, States, TERMINAL_STATES
    <3>3. CASE ReapedOutcome(k) = "failed"
      BY <1>6, <2>1, <2>4, <3>1, <3>3 DEF States, TERMINAL_STATES
    <3> QED
      BY <3>2, <3>3 DEF ReapedOutcome
  <2> QED
    BY <2>1, <2>2, <2>3, <2>4 DEF TypeOK
<1>10. ASSUME NEW ev \in inbox, Ack(ev) PROVE New /\ OnDisk
  <2>1. ev.key \in Keys /\ ev.line \in Nat
    BY <1>10 DEF TypeOK, Event
  <2>2. \/ entries' = entries
        \/ entries' = [entries EXCEPT ![ev.key] = AckedEntry(@, ev.line)]
    BY <1>10 DEF Ack
  <2>3. ledger' \in {ledger, entries'}
    BY <1>10, AckEffect
  <2>4. entries'[k] \in {entries[k], AckedEntry(entries[k], ev.line)}
    BY <2>1, <2>2 DEF TypeOK
  <2>5. entries'[k].state = entries[k].state /\ entries'[k].pid = entries[k].pid
    BY <1>1, <2>1, <2>4, AckedEntryType
  <2> QED
    BY <1>2, <2>3, <2>5 DEF EvidenceInv, Founded
<1>11. ASSUME NEW j \in Keys, StopFinish(j) PROVE New /\ OnDisk
  <2>1. ledger' \in {ledger, entries'}
    BY <1>11, StopEffect
  <2>2. entries' = [entries EXCEPT ![j] = WithState(@, "stopped")] /\ pc = "stop" /\ j \in todo
    BY <1>11 DEF StopFinish
  <2>3. CASE j # k
    BY <1>3, <2>1, <2>2, <2>3 DEF TypeOK
  <2>4. CASE j = k
    <3>1. entries'[k] = WithState(entries[k], "stopped")
      BY <2>2, <2>4 DEF TypeOK
    <3>2. entries[k].state # "absent"
      BY <2>2, <2>4 DEF EvidenceInv, StopsKnown, Known
    <3> QED
      BY <1>6, <2>1, <3>1, <3>2 DEF States, TERMINAL_STATES
  <2> QED
    BY <2>3, <2>4
<1>12. CASE Crash \/ Close
  <2>1. entries'[k] = Absent
    BY <1>12 DEF Crash, Close, Forgotten
  <2>2. ledger' \in {ledger, entries}
    BY <1>12 DEF Crash, Close, Flushed, FlushRaised
  <2>3. New
    BY <2>1 DEF Founded, Absent
  <2>4. Founded(k, ledger[k])'
    BY <1>2, <2>2 DEF EvidenceInv, Founded
  <2> QED
    BY <2>3, <2>4
<1>13. CASE Open
  <2>1. entries'[k] = Probed(k) /\ ledger' = ledger
    BY <1>13 DEF Open
  <2>2. \/ entries'[k] = ledger[k]
        \/ /\ ledger[k].state # "absent"
           /\ \/ entries'[k] = WithState(ledger[k], "running")
              \/ entries'[k] = WithState(ledger[k], "unknown")
    BY <2>1 DEF Probed
  <2>3. New
    BY <1>1, <1>2, <2>2, WithStateType DEF EvidenceInv, Founded, States, TERMINAL_STATES
  <2> QED
    BY <1>4, <2>1, <2>3
<1>14. CASE entries' = entries /\ ledger' \in {ledger, entries}
  BY <1>3, <1>5, <1>14
<1>15. CASE LaunchFlush \/ PollFlush
  BY <1>14, <1>15 DEF LaunchFlush, PollFlush, Flushed, FlushRaised
<1>16. ASSUME NEW j \in Keys, NEW q \in DOMAIN kids[j], WorkerStep(j, q)
       PROVE  New /\ OnDisk
  BY <1>14, <1>16, WorkerFrame
<1> QED
  BY <1>5, <1>7, <1>8, <1>9, <1>10, <1>11, <1>12, <1>13, <1>14, <1>15, <1>16
     DEF Next, Coordinator, Caller, Worker, PollStart, PollEmpty, PollReturn, Reply, StopSignal,
         StopRefused, vars, memory

LEMMA StopsKnownStep ==
    ASSUME TypeOK, StopsKnown, [Next]_vars
    PROVE  StopsKnown'
<1>1. ASSUME NEW j \in Keys, Drain(j) PROVE StopsKnown'
  BY <1>1 DEF Drain, Visited, StopsKnown
<1>2. ASSUME NEW j \in Keys, Reap(j) PROVE StopsKnown'
  BY <1>2 DEF Reap, Visited, StopsKnown
<1>3. ASSUME NEW j \in Keys, NEW q \in DOMAIN kids[j],
             WorkerStep(j, q)
      PROVE  StopsKnown'
  BY <1>3, WorkerFrame DEF StopsKnown, Known
<1>4. CASE pc' # "stop"
  BY <1>4 DEF StopsKnown
<1>5. ASSUME NEW j \in Keys, StopSignal(j) PROVE StopsKnown'
  BY <1>5 DEF StopSignal, StopsKnown, Known
<1>6. ASSUME NEW ev \in inbox, Reply(ev) \/ Ack(ev) PROVE pc' # "stop"
  BY <1>6 DEF Reply, Ack
<1>7. ASSUME NEW j \in Keys, LaunchSpawn(j) \/ StopFinish(j) \/ StopRefused(j)
      PROVE  pc' # "stop"
  BY <1>7 DEF LaunchSpawn, StopFinish, StopRefused
<1>8. CASE LaunchFlush \/ PollStart \/ PollEmpty \/ PollFlush \/ PollReturn \/ Open \/ Close \/ Crash
  BY <1>4, <1>8 DEF LaunchFlush, PollStart, PollEmpty, PollFlush, PollReturn, Open, Close, Crash,
                    Forgotten
<1>9. CASE UNCHANGED vars
  BY <1>9 DEF vars, memory, files, written, StopsKnown, Known
<1> QED
  BY <1>1, <1>2, <1>3, <1>4, <1>5, <1>6, <1>7, <1>8, <1>9 DEF Next, Coordinator, Caller, Worker

\* A success in the ledger rests on a worker_done line or on an exit with 0.
THEOREM SuccessHasEvidenceAlways == Spec => []SuccessHasEvidence
<1>1. Init => EvidenceInv
  BY DEF Init, EvidenceInv, StopsKnown, Founded, Absent
<1>2. IInv /\ IInv' /\ EvidenceInv /\ [Next]_vars => EvidenceInv'
  BY FoundedStep, StopsKnownStep DEF IInv, EvidenceInv
<1>3. EvidenceInv => SuccessHasEvidence
  BY DEF EvidenceInv, Founded, Evidence, SuccessHasEvidence
<1> QED
  BY <1>1, <1>2, <1>3, IInvariant, PTL DEF Spec

-----------------------------------------------------------------------------
(***************************************************************************)
(* Replies.  A worker takes the n-th reply for its n-th question, so the   *)
(* proof counts questions: the n-th reply is for at most the n-th question *)
(* of the file, and the n-th question of a process is at least the n-th of *)
(* the file.  Without a crash both are exact.  A question that was not     *)
(* whole when it was read has no reply, so the count is of files that were *)
(* never read in such a state, and of their lines that are whole.          *)
(***************************************************************************)

\* The questions among the first n lines of s, and how many they are.
Asked(s, n) == {m \in 1..n : s[m] = "question"}

Q(s, n) == Cardinality(Asked(s, n))

\* An event in flight is a line of its file, or the reaper's.
EventsAreLines ==
    \A ev \in batch \cup inbox :
      IF ev.line = 0 THEN ev.kind # "question"
      ELSE ev.line \in 1..Len(log[ev.key]) /\ ev.kind = log[ev.key][ev.line]

\* What has been read and not acked is in the caller's hands, and only that.
UnackedInHand ==
    /\ pc \in Polling => inbox = {}
    /\ pc = "down" => \A k \in Keys : cursors[k] = 0
    /\ \A ev \in inbox : ev.line # 0 => ev.line > entries[ev.key].acked_through
    /\ \A k \in Keys \ torn : \A n \in (entries[k].acked_through + 1)..cursors[k] :
         log[k][n] # "junk" => n \in LinesOf(batch \cup inbox, k)

\* The question that was replied to is the caller's first event, and not acked yet.
RepliedIsFirst ==
    \A ev \in replied : replied = {ev} /\ ev \in inbox /\ ev.kind = "question" /\ First(ev, inbox)

\* n counts what was asked, of which m were answered: m at most n, and as many in
\* a session that never crashed.
Matched(m, n, crashed) == m <= n /\ (crashed = 0 => m = n)

\* Every question acked was replied to; without a crash there is one reply for each
\* question acked and one for the question in hand.
AcksReplied(k) ==
    /\ Q(log[k], ledger[k].acked_through) <= Len(replies[k])
    /\ pc # "down" => Q(log[k], entries[k].acked_through) <= Len(replies[k])
    /\ crashes = 0 /\ (\A ev \in replied : ev.key # k) =>
         Q(log[k], entries[k].acked_through) = Len(replies[k])
    /\ \A ev \in replied : ev.key = k => Matched(Q(log[k], ev.line), Len(replies[k]), crashes)

\* The lines up to n are whole.
Clean(k, n) == partial[k] \cap 1..n = {}

\* The n-th reply is for the n-th question at most.
TokensCount(k) ==
    \A n \in 1..Len(replies[k]) :
      /\ replies[k][n] \in Asked(log[k], Len(log[k]))
      /\ Matched(Q(log[k], replies[k][n]), n, crashes)
      /\ Clean(k, replies[k][n])

\* A process knows the lines of its questions: they have ended, come before the one it
\* is in the middle of, and are questions of the file if they are whole.
AskedLines(kid, s, marks, writers) ==
    \A i \in 1..Len(kid.asked) :
      LET line == kid.asked[i]
      IN  /\ line \in 1..Len(s)
          /\ line = Len(s) => writers = {}
          /\ kid.begun # 0 => line < kid.begun
          /\ line \notin marks => s[line] = "question"
          /\ marks \cap 1..line = {} => i <= Q(s, line)

\* The line it is in the middle of is not whole, and is the last one if it takes part
\* in that.
BegunLine(kid, p, s, marks, writers) ==
    /\ kid.begun # 0 =>
         /\ kid.begun \in marks
         /\ kid.begun = Len(s) /\ writers # {} => p \in writers
    /\ kid.alive /\ p \in writers => kid.begun = Len(s)

\* A line that has not ended is not whole.
Writing(k) ==
    /\ open[k] \subseteq 1..Len(kids[k])
    /\ partial[k] \subseteq 1..Len(log[k])
    /\ open[k] # {} => Len(log[k]) \in partial[k]
    /\ \A p \in 1..Len(kids[k]) :
         /\ AskedLines(kids[k][p], log[k], partial[k], open[k])
         /\ BegunLine(kids[k][p], p, log[k], partial[k], open[k])

WritingInv == \A k \in Keys : Writing(k)

\* The one process of a key: what is not whole it is in the middle of, and all that is
\* asked it asked.
ExactKid(kid, s, marks, writers) ==
    /\ kid.begun \in {0, Len(s)}
    /\ marks \subseteq {kid.begun}
    /\ writers = {} <=> kid.begun = 0
    /\ Q(s, IF kid.begun = 0 THEN Len(s) ELSE Len(s) - 1) = Len(kid.asked)
    /\ \A i \in 1..Len(kid.asked) : Q(s, kid.asked[i]) = i

Single(k) ==
    /\ Len(kids[k]) <= 1
    /\ ~Known(k) => Len(kids[k]) = 0
    /\ Len(kids[k]) = 0 => log[k] = <<>> /\ partial[k] = {} /\ open[k] = {}
    /\ \A p \in 1..Len(kids[k]) :
         kids[k][p].alive => ExactKid(kids[k][p], log[k], partial[k], open[k])

\* Without a crash a key has one process, started with its entry.
OneProcess ==
    crashes = 0 =>
      /\ pc # "down"
      /\ \A k \in Keys : Single(k)

AnswerInv ==
    /\ WritingInv
    /\ OneProcess
    /\ faults = 0 =>
         /\ EventsAreLines
         /\ UnackedInHand
         /\ RepliedIsFirst
         /\ \A k \in Keys \ torn : AcksReplied(k) /\ TokensCount(k)
         /\ AnswersMatch

LEMMA QNat ==
    ASSUME NEW s, NEW n \in Nat
    PROVE  IsFiniteSet(Asked(s, n)) /\ Q(s, n) \in Nat
<1>1. IsFiniteSet(1..n)
  BY FS_Interval
<1>2. Asked(s, n) \subseteq 1..n
  BY DEF Asked
<1>3. IsFiniteSet(Asked(s, n))
  BY <1>1, <1>2, FS_Subset
<1> QED
  BY <1>3, FS_CardinalityType DEF Q

LEMMA QMono ==
    ASSUME NEW s, NEW i \in Nat, NEW j \in Nat, i <= j
    PROVE  Q(s, i) <= Q(s, j)
<1>1. Asked(s, i) \subseteq Asked(s, j)
  BY DEF Asked
<1> QED
  BY <1>1, QNat, FS_Subset DEF Q

\* A question is one more than all that came before it.
LEMMA QLess ==
    ASSUME NEW s, NEW i \in Nat, NEW j \in Nat, i < j, s[j] = "question"
    PROVE  /\ Q(s, i) < Q(s, j)
           /\ (\A m \in (i + 1)..(j - 1) : s[m] # "question") => Q(s, j) = Q(s, i) + 1
<1>1. IsFiniteSet(Asked(s, i)) /\ Q(s, i) \in Nat /\ IsFiniteSet(Asked(s, j)) /\ Q(s, j) \in Nat
  BY QNat
<1>2. j \notin Asked(s, i)
  BY DEF Asked
<1>3. /\ IsFiniteSet(Asked(s, i) \cup {j})
      /\ Cardinality(Asked(s, i) \cup {j}) = Q(s, i) + 1
  BY <1>1, <1>2, FS_AddElement DEF Q
<1>4. Asked(s, i) \cup {j} \subseteq Asked(s, j)
  BY DEF Asked
<1>5. Q(s, i) + 1 <= Q(s, j)
  BY <1>1, <1>3, <1>4, FS_Subset DEF Q
<1>6. ASSUME \A m \in (i + 1)..(j - 1) : s[m] # "question" PROVE Q(s, j) = Q(s, i) + 1
  <2>1. \A m \in 1..j : m \in 1..i \/ m = j \/ m \in (i + 1)..(j - 1)
    OBVIOUS
  <2>2. Asked(s, j) \subseteq Asked(s, i) \cup {j}
    BY <1>6, <2>1 DEF Asked
  <2>3. Asked(s, j) = Asked(s, i) \cup {j}
    BY <1>4, <2>2
  <2> QED
    BY <1>3, <2>3 DEF Q
<1> QED
  BY <1>1, <1>5, <1>6

LEMMA QSame ==
    ASSUME NEW s, NEW i \in Nat, NEW j \in Nat, i <= j,
           \A m \in (i + 1)..j : s[m] # "question"
    PROVE  Q(s, i) = Q(s, j)
<1>1. \A m \in 1..j : m \in 1..i \/ m \in (i + 1)..j
  OBVIOUS
<1>2. Asked(s, i) = Asked(s, j)
  BY <1>1 DEF Asked
<1> QED
  BY <1>2 DEF Q

\* Counting looks at the lines it counts only.
LEMMA QPrefix ==
    ASSUME NEW s, NEW t, NEW n \in Nat, \A m \in 1..n : t[m] = s[m]
    PROVE  Q(t, n) = Q(s, n) /\ Asked(t, n) = Asked(s, n)
<1>1. Asked(t, n) = Asked(s, n)
  BY DEF Asked
<1> QED
  BY <1>1 DEF Q

\* Nothing un-happens: faults, crashes and the workers read half written only grow.
LEMMA CountersGrow ==
    ASSUME TypeOK, [Next]_vars
    PROVE  (faults' = 0 => faults = 0) /\ (crashes' = 0 => crashes = 0) /\ torn \subseteq torn'
<1>1. faults \in Nat /\ crashes \in Nat
  BY SessionAssumption DEF TypeOK
<1>2. /\ faults' \in {faults, faults + 1} /\ crashes' \in {crashes, crashes + 1}
      /\ torn \subseteq torn'
  BY WorkerFrame DEF Next, Coordinator, Caller, Worker, LaunchSpawn, LaunchFlush, PollStart, Drain, Reap,
         PollEmpty, PollFlush, PollReturn, Reply, Ack, StopSignal, StopFinish, Crash, Close,
         Forgotten, Open, StopRefused, Flushed, FlushRaised, vars, history, seen, files, written
<1> QED
  BY <1>1, <1>2

\* What was counted before a step is counted after it.
LEMMA QStays ==
    ASSUME TypeOK, TypeOK', [Next]_vars, NEW k \in Keys, NEW n \in Nat, n <= Len(log[k])
    PROVE  /\ Q(log'[k], n) = Q(log[k], n) /\ Asked(log'[k], n) = Asked(log[k], n)
           /\ Asked(log[k], Len(log[k])) \subseteq Asked(log'[k], Len(log'[k]))
           /\ Len(log[k]) <= Len(log'[k])
<1>1. Len(log[k]) \in Nat /\ Len(log'[k]) \in Nat /\ Len(log'[k]) >= Len(log[k])
  <2>1. Len(log'[k]) >= Len(log[k])
    BY LogEffect
  <2> QED
    BY <2>1 DEF TypeOK
<1>2. \A m \in 1..Len(log[k]) : m \in 1..Len(log'[k]) /\ log'[k][m] = log[k][m]
  BY <1>1, LogEffect
<1>3. \A m \in 1..n : log'[k][m] = log[k][m]
  BY <1>1, <1>2
<1>4. Asked(log[k], Len(log[k])) \subseteq Asked(log'[k], Len(log'[k]))
  BY <1>2 DEF Asked
<1> QED
  BY <1>1, <1>3, <1>4, QPrefix

-----------------------------------------------------------------------------
\* Events in flight carry the lines of their file.
LEMMA EventsAreLinesStep ==
    ASSUME TypeOK, TypeOK', EventsAreLines, [Next]_vars
    PROVE  EventsAreLines'
<1> DEFINE IsLine(ev) == IF ev.line = 0 THEN ev.kind # "question"
                         ELSE ev.line \in 1..Len(log[ev.key]) /\ ev.kind = log[ev.key][ev.line]
<1>1. ASSUME NEW ev \in Event, IsLine(ev) PROVE IsLine(ev)'
  <2>1. ev.key \in Keys
    BY DEF Event
  <2>2. Len(log[ev.key]) \in Nat /\ Len(log'[ev.key]) \in Nat
    BY <2>1 DEF TypeOK
  <2> QED
    BY <1>1, <2>1, <2>2, LogEffect
<1>2. batch \cup inbox \subseteq Event
  BY DEF TypeOK
<1>3. \A ev \in batch \cup inbox : IsLine(ev)'
  BY <1>1, <1>2 DEF EventsAreLines
<1> SUFFICES \A ev \in batch' \cup inbox' : ev \notin batch \cup inbox => IsLine(ev)'
  BY <1>3 DEF EventsAreLines
<1>4. CASE batch' \cup inbox' \subseteq batch \cup inbox
  BY <1>4
<1>5. ASSUME NEW k \in Keys, Drain(k), NEW ev \in batch' \cup inbox', ev \notin batch \cup inbox
      PROVE  IsLine(ev)'
  <2>1. ev \in NewEvents(k, Text(k), cursors[k])
    BY <1>5, DrainEffect
  <2>2. /\ Text(k) \in Seq(AllKinds) /\ Len(Text(k)) = Len(log[k])
        /\ cursors[k] \in Nat /\ Len(log[k]) \in Nat
    <3>1. cursors[k] \in Nat /\ Len(log[k]) \in Nat
      BY DEF TypeOK
    <3> QED
      BY <3>1, TextType
  <2>3. ev \in Event /\ ev.key = k /\ ev.line > cursors[k] /\ ev.line <= Len(log[k])
    BY <2>1, <2>2, NewEventsType
  <2>5. ev.line \in 1..Len(log[k]) /\ ev.line # 0
    BY <2>2, <2>3 DEF Event
  <2>4. ev.kind = log[k][ev.line]
    <3>1. ev.kind = Text(k)[ev.line] /\ Text(k)[ev.line] # "junk"
      BY <2>1 DEF NewEvents
    <3> QED
      BY <2>5, <3>1, TextType
  <2> QED
    BY <1>1, <2>3, <2>4, <2>5
<1>6. ASSUME NEW k \in Keys, Reap(k), NEW ev \in batch' \cup inbox', ev \notin batch \cup inbox
      PROVE  IsLine(ev)'
  <2>1. inbox' = inbox
    BY <1>6 DEF Reap
  <2>2. ev = [key |-> k, line |-> 0,
              kind |-> IF ReapedOutcome(k) = "succeeded" THEN "ok" ELSE "bad"]
    BY <1>6, <2>1 DEF Reap, _reap
  <2> QED
    BY <2>2
<1>7. CASE PollReturn \/ PollFlush \/ Crash \/ Close
  BY <1>4, <1>7 DEF PollReturn, PollFlush, Crash, Close, Forgotten
<1>8. ASSUME NEW ev \in inbox, Ack(ev) PROVE batch' \cup inbox' \subseteq batch \cup inbox
  BY <1>8, AckEffect
<1>9. ASSUME NEW j \in Keys, NEW q \in DOMAIN kids[j],
             WorkerStep(j, q)
      PROVE  batch' \cup inbox' \subseteq batch \cup inbox
  BY <1>9, WorkerEffect
<1> QED
  BY <1>4, <1>5, <1>6, <1>7, <1>8, <1>9
     DEF Next, Coordinator, Caller, Worker, LaunchSpawn, LaunchFlush, PollStart, PollEmpty,
         Reply, StopSignal, StopFinish, StopRefused, Open, vars, memory

\* The first event of a worker in the inbox comes right after the acks: all lines
\* between are junk, if none was read half written.
LEMMA FirstIsNext ==
    ASSUME TypeOK, Bookkeeping, InFlightIsRead, UnackedInHand, pc = "idle",
           NEW ev \in inbox, First(ev, inbox), ev.line # 0
    PROVE  /\ ev.key \in Keys /\ ev.line \in Nat /\ ev.line <= cursors[ev.key]
           /\ ev.line > entries[ev.key].acked_through
           /\ ev.key \notin torn =>
                \A n \in (entries[ev.key].acked_through + 1)..(ev.line - 1) :
                  log[ev.key][n] = "junk"
<1> DEFINE k == ev.key
<1>1. k \in Keys /\ ev.line \in Nat /\ ev.line <= cursors[k] /\ cursors[k] \in Nat
      /\ entries[k].acked_through \in Nat
  BY AckNumbers DEF TypeOK, Event, InFlightIsRead
<1>2. ev.line > entries[k].acked_through
  BY DEF UnackedInHand
<1>3. ASSUME ev.key \notin torn,
             NEW n \in (entries[k].acked_through + 1)..(ev.line - 1), log[k][n] # "junk"
      PROVE  FALSE
  <2>1. n \in (entries[k].acked_through + 1)..cursors[k] /\ n # 0 /\ n < ev.line /\ n \in Nat
    BY <1>1
  <2>2. batch = {}
    BY DEF Bookkeeping, Polling
  <2>3. n \in LinesOf(inbox, k)
    BY <1>1, <1>3, <2>1, <2>2 DEF UnackedInHand
  <2>4. PICK other \in inbox : other.key = k /\ other.line = n
    BY <2>3 DEF LinesOf
  <2>5. ev.line < n
    BY <2>1, <2>4 DEF First
  <2> QED
    BY <1>1, <2>1, <2>5
<1> QED
  BY <1>1, <1>2, <1>3

\* What the caller holds is what is unacked.
LEMMA UnackedInHandStep ==
    ASSUME TypeOK, TypeOK', Bookkeeping, AckedIsRead, InFlightIsRead, NoAckedReplay,
           EventsAreLines, UnackedInHand, faults' = 0, [Next]_vars
    PROVE  UnackedInHand'
<1> USE AckNumbers DEF history, seen, files, written, Known, Polling
<1> DEFINE Acked(k) == entries[k].acked_through
<1>0. torn \subseteq torn'
  BY CountersGrow
<1>1. ASSUME \A k \in Keys : Acked(k)' = Acked(k), UNCHANGED <<cursors, batch, inbox>>,
             pc' \in Polling => pc \in Polling \/ inbox = {}, pc' = "down" => pc = "down",
             \A k \in Keys : \A n \in 1..cursors[k] : log'[k][n] = log[k][n]
      PROVE  UnackedInHand'
  <2>1. \A ev \in inbox : ev.key \in Keys
    BY DEF TypeOK, Event
  <2>2. \A k \in Keys : \A n \in (Acked(k) + 1)..cursors[k] : n \in 1..cursors[k]
    OBVIOUS
  <2> QED
    BY <1>0, <1>1, <2>1, <2>2 DEF UnackedInHand
<1>2. ASSUME NEW k \in Keys, LaunchSpawn(k) PROVE UnackedInHand'
  <2>1. cursors[k] = 0 /\ Acked(k) = 0
    BY <1>2 DEF LaunchSpawn, Bookkeeping, AckedIsRead
  <2>2. /\ UNCHANGED <<batch, inbox, log>> /\ pc' = "launch"
        /\ cursors' = [cursors EXCEPT ![k] = 0]
        /\ \A j \in Keys : Acked(j)' = Acked(j)
    BY <1>2, <2>1 DEF LaunchSpawn, TypeOK
  <2>3. cursors' = cursors
    BY <2>1, <2>2 DEF TypeOK
  <2> QED
    BY <1>1, <2>2, <2>3
<1>3. ASSUME NEW k \in Keys, Drain(k) PROVE UnackedInHand'
  <2>1. /\ \A j \in Keys : Acked(j)' = Acked(j) /\ cursors'[j] = IF j = k THEN Len(log[k]) ELSE cursors[j]
        /\ batch' = batch \cup NewEvents(k, Text(k), cursors[k])
        /\ pc = "drain" /\ pc' # "down" /\ UNCHANGED <<inbox, log>>
        /\ torn' = IF Half(k) = {} THEN torn ELSE torn \cup {k}
    BY <1>3, DrainEffect
  <2>2. inbox' = {}
    BY <2>1 DEF UnackedInHand
  <2>3. ASSUME NEW j \in Keys \ torn', NEW n \in (Acked(j)' + 1)..cursors'[j],
               log'[j][n] # "junk"
        PROVE  n \in LinesOf(batch' \cup inbox', j)
    <3>1. CASE n <= cursors[j]
      <4>1. n \in (Acked(j) + 1)..cursors[j]
        BY <2>1, <3>1
      <4>2. n \in LinesOf(batch \cup inbox, j)
        BY <1>0, <2>1, <2>3, <4>1 DEF UnackedInHand
      <4> QED
        BY <2>1, <4>2 DEF LinesOf
    <3>2. CASE ~(n <= cursors[j])
      <4>1. j = k /\ n \in (cursors[k] + 1)..Len(log[k])
        BY <2>1, <3>2
      <4>2. Half(k) = {} /\ n \in 1..Len(log[k]) /\ cursors[k] \in Nat
        BY <2>1, <2>3, <4>1
      <4>3. n \notin partial[k]
        BY <4>1, <4>2 DEF Half
      <4>4. Text(k) \in Seq(AllKinds) /\ Len(Text(k)) = Len(log[k]) /\ Text(k)[n] # "junk"
        BY <2>1, <2>3, <4>1, <4>2, <4>3, TextType
      <4>5. n \in LinesOf(NewEvents(k, Text(k), cursors[k]), k)
        BY <4>1, <4>2, <4>4, NewEventsType
      <4> QED
        BY <2>1, <4>1, <4>5 DEF LinesOf
    <3> QED
      BY <3>1, <3>2
  <2> QED
    BY <2>1, <2>2, <2>3 DEF UnackedInHand
<1>4. ASSUME NEW k \in Keys, Reap(k) PROVE UnackedInHand'
  <2>1. /\ \A j \in Keys : Acked(j)' = Acked(j)
        /\ batch \subseteq batch' /\ pc = "reap" /\ pc' # "down" /\ UNCHANGED <<cursors, inbox, log>>
    BY <1>4, ReapEffect
  <2>2. inbox' = {}
    BY <2>1 DEF UnackedInHand
  <2>3. \A j \in Keys : LinesOf(batch \cup inbox, j) \subseteq LinesOf(batch' \cup inbox', j)
    BY <2>1 DEF LinesOf
  <2> QED
    BY <1>0, <2>1, <2>2, <2>3 DEF UnackedInHand
<1>5. CASE PollFlush
  <2>1. UNCHANGED <<entries, cursors, inbox, log>> /\ (batch' = batch \/ faults' = faults + 1)
        /\ pc \in Polling /\ pc' # "down"
    BY <1>5 DEF PollFlush, Flushed, FlushRaised
  <2>2. faults + 1 # 0
    BY DEF TypeOK
  <2> QED
    BY <1>1, <2>1, <2>2
<1>6. CASE PollReturn
  <2>1. UNCHANGED <<entries, cursors, log>> /\ inbox' = batch /\ batch' = {} /\ pc = "return"
        /\ pc' = "idle"
    BY <1>6 DEF PollReturn
  <2>2. inbox = {}
    BY <2>1 DEF UnackedInHand
  <2>3. ASSUME NEW ev \in batch, ev.line # 0 PROVE ev.line > Acked(ev.key)
    <3>1. ev.key \in Keys /\ ev.line \in LinesOf(batch, ev.key) \ {0}
      BY <2>3 DEF TypeOK, Event, LinesOf
    <3> QED
      BY <3>1 DEF NoAckedReplay
  <2>4. batch' \cup inbox' = batch \cup inbox
    BY <2>1, <2>2
  <2> QED
    BY <1>0, <2>1, <2>3, <2>4 DEF UnackedInHand
<1>7. ASSUME NEW ev \in inbox, Ack(ev) PROVE UnackedInHand'
  <2>1. /\ ev.key \in Keys /\ ev.line \in Nat
        /\ \A j \in Keys : Acked(j)' = IF j = ev.key /\ ev.line > Acked(j) THEN ev.line ELSE Acked(j)
        /\ pc = "idle" /\ UNCHANGED <<pc, cursors, batch, log>>
    BY <1>7, AckEffect
  <2>2. inbox' = inbox \ {ev} /\ First(ev, inbox)
    <3>1. faults' # faults + 1
      BY DEF TypeOK
    <3> QED
      BY <1>7, <3>1 DEF Ack, Handled, FlushRaised
  <2>3. ASSUME NEW other \in inbox', other.line # 0
        PROVE  other.line > Acked(other.key)'
    <3>1. other \in inbox /\ other # ev /\ other.key \in Keys /\ other.line \in Nat
      BY <2>2 DEF TypeOK, Event
    <3>2. other.line > Acked(other.key)
      BY <2>3, <3>1 DEF UnackedInHand
    <3>3. other.key = ev.key => other.line > ev.line
      BY <2>1, <2>2, <2>3, <3>1 DEF First
    <3> QED
      BY <2>1, <3>1, <3>2, <3>3
  <2>4. ASSUME NEW j \in Keys \ torn', NEW n \in (Acked(j)' + 1)..cursors'[j],
               log'[j][n] # "junk"
        PROVE  n \in LinesOf(batch' \cup inbox', j)
    <3>1. n \in (Acked(j) + 1)..cursors[j] /\ (j = ev.key => n # ev.line)
      BY <2>1
    <3>2. n \in LinesOf(batch \cup inbox, j)
      BY <1>0, <2>1, <2>4, <3>1 DEF UnackedInHand
    <3>3. PICK other \in batch \cup inbox : other.key = j /\ other.line = n
      BY <3>2 DEF LinesOf
    <3>4. other \in batch' \cup inbox'
      BY <2>1, <2>2, <3>1, <3>3
    <3> QED
      BY <3>3, <3>4 DEF LinesOf
  <2> QED
    BY <2>1, <2>3, <2>4 DEF UnackedInHand
<1>8. ASSUME NEW k \in Keys, StopFinish(k) PROVE UnackedInHand'
  BY <1>1, <1>8, StopEffect
<1>9. CASE Crash \/ Close
  <2>1. /\ inbox' = {} /\ batch' = {} /\ pc' = "down"
        /\ entries' = [k \in Keys |-> Absent] /\ cursors' = [k \in Keys |-> 0]
    BY <1>9 DEF Crash, Close, Forgotten
  <2>2. \A k \in Keys : (Acked(k)' + 1)..cursors'[k] = {}
    BY <2>1 DEF Absent
  <2> QED
    BY <2>1, <2>2 DEF UnackedInHand
<1>10. CASE Open
  <2>1. inbox' = {} /\ pc' = "idle"
    BY <1>10 DEF Open, Bookkeeping
  <2>2. \A k \in Keys : (Acked(k)' + 1)..cursors'[k] = {}
    BY <1>10, OpenEffect
  <2> QED
    BY <2>1, <2>2 DEF UnackedInHand
<1>11. ASSUME NEW k \in Keys, NEW p \in DOMAIN kids[k],
              WorkerStep(k, p)
       PROVE  UnackedInHand'
  <2>1. UNCHANGED <<pc, entries, cursors, batch, inbox>>
    BY <1>11, WorkerEffect
  <2>2. \A j \in Keys : cursors[j] <= Len(log[j])
    BY DEF AckedIsRead, UnackedInHand
  <2>3. \A j \in Keys : \A n \in 1..cursors[j] : n \in 1..Len(log[j]) /\ log'[j][n] = log[j][n]
    BY <2>2, LogEffect
  <2> QED
    BY <1>1, <2>1, <2>3
<1>13. ASSUME NEW k \in Keys, StopRefused(k) PROVE UnackedInHand'
  BY <1>1, <1>13 DEF StopRefused
<1>12. CASE UNCHANGED <<entries, cursors, batch, inbox, log>>
            /\ (pc' \in Polling => pc \in Polling \/ inbox = {}) /\ (pc' = "down" => pc = "down")
  BY <1>1, <1>12
<1> QED
  BY <1>2, <1>3, <1>4, <1>5, <1>6, <1>7, <1>8, <1>9, <1>10, <1>11, <1>12, <1>13
     DEF Next, Coordinator, Caller, Worker, LaunchFlush, PollStart, PollEmpty, Reply, StopSignal,
         vars, memory

\* The question in hand stays first until it is acked.
LEMMA RepliedIsFirstStep ==
    ASSUME TypeOK, UnackedInHand, RepliedIsFirst, faults' = 0, [Next]_vars
    PROVE  RepliedIsFirst'
<1> USE DEF history, seen, files, written, Polling
<1>1. CASE UNCHANGED <<inbox, replied>>
  BY <1>1 DEF RepliedIsFirst
<1>2. ASSUME NEW ev \in inbox, Reply(ev) PROVE RepliedIsFirst'
  BY <1>2 DEF Reply, RepliedIsFirst
<1>3. ASSUME NEW ev \in inbox, Ack(ev) PROVE RepliedIsFirst'
  <2>1. faults' # faults + 1
    BY DEF TypeOK
  <2> QED
    BY <1>3, <2>1 DEF Ack, Handled, FlushRaised, RepliedIsFirst
<1>4. CASE PollReturn
  <2>1. inbox = {} /\ replied' = replied
    BY <1>4 DEF PollReturn, UnackedInHand
  <2>2. replied' = {}
    BY <2>1 DEF RepliedIsFirst
  <2> QED
    BY <2>2 DEF RepliedIsFirst
<1>5. CASE Crash \/ Close
  BY <1>5 DEF Crash, Close, Forgotten, RepliedIsFirst
<1>6. ASSUME NEW k \in Keys, NEW p \in DOMAIN kids[k], WorkerStep(k, p)
      PROVE  UNCHANGED <<inbox, replied>>
  BY <1>6, WorkerFrame
<1> QED
  BY <1>1, <1>2, <1>3, <1>4, <1>5, <1>6
     DEF Next, Coordinator, Caller, Worker, LaunchSpawn, LaunchFlush, PollStart, Drain, Reap,
         PollEmpty, PollFlush, StopSignal, StopFinish, StopRefused, Open, vars, memory

\* A question the caller replies to is the next one after those acked.
LEMMA ReplyCounts ==
    ASSUME TypeOK, Bookkeeping, InFlightIsRead, EventsAreLines, UnackedInHand,
           NEW ev \in inbox, Reply(ev), ev.key \notin torn
    PROVE  /\ ev.key \in Keys /\ ev.line \in 1..Len(log[ev.key])
           /\ log[ev.key][ev.line] = "question"
           /\ Q(log[ev.key], ev.line) = Q(log[ev.key], entries[ev.key].acked_through) + 1
<1>1. pc = "idle" /\ First(ev, inbox) /\ ev.kind = "question"
  BY DEF Reply
<1>2. ev.line # 0 /\ ev.line \in 1..Len(log[ev.key]) /\ log[ev.key][ev.line] = "question"
  BY <1>1 DEF EventsAreLines
<1>3. /\ ev.key \in Keys /\ ev.line \in Nat
      /\ ev.line > entries[ev.key].acked_through
      /\ \A n \in (entries[ev.key].acked_through + 1)..(ev.line - 1) : log[ev.key][n] = "junk"
  BY <1>1, <1>2, FirstIsNext
<1>4. entries[ev.key].acked_through \in Nat
  BY <1>3, AckNumbers
<1> QED
  BY <1>2, <1>3, <1>4, QLess

\* An ack of anything else passes no question.
LEMMA AckCounts ==
    ASSUME TypeOK, Bookkeeping, InFlightIsRead, EventsAreLines, UnackedInHand,
           NEW ev \in inbox, Ack(ev), ev.line # 0, ev.kind # "question", ev.key \notin torn
    PROVE  Q(log[ev.key], ev.line) = Q(log[ev.key], entries[ev.key].acked_through)
<1>1. pc = "idle" /\ First(ev, inbox)
  BY DEF Ack
<1>2. log[ev.key][ev.line] # "question"
  BY DEF EventsAreLines
<1>3. /\ ev.key \in Keys /\ ev.line \in Nat
      /\ ev.line > entries[ev.key].acked_through
      /\ \A n \in (entries[ev.key].acked_through + 1)..(ev.line - 1) : log[ev.key][n] = "junk"
  BY <1>1, FirstIsNext
<1>4. entries[ev.key].acked_through \in Nat
  BY <1>3, AckNumbers
<1>5. \A n \in (entries[ev.key].acked_through + 1)..ev.line : log[ev.key][n] # "question"
  BY <1>2, <1>3, <1>4
<1> QED
  BY <1>3, <1>4, <1>5, QSame

-----------------------------------------------------------------------------
\* The replies keep up with the acks: a step that neither acks nor replies.
LEMMA AcksRepliedKept ==
    ASSUME TypeOK, TypeOK', AckedIsRead, Bookkeeping, EventsAreLines, RepliedIsFirst, OneProcess,
           [Next]_vars, NEW k \in Keys, AcksReplied(k),
           UNCHANGED <<replied, crashes>>, replies'[k] = replies[k],
           pc' = "down" <=> pc = "down",
           entries'[k].acked_through = entries[k].acked_through,
           \/ ledger'[k].acked_through = ledger[k].acked_through
           \/ ledger'[k].acked_through = entries[k].acked_through /\ pc # "down"
    PROVE  AcksReplied(k)'
<1>1. /\ entries[k].acked_through \in Nat /\ ledger[k].acked_through \in Nat
      /\ ledger[k].acked_through <= Len(log[k])
      /\ pc # "down" => entries[k].acked_through <= Len(log[k])
  BY AckNumbers DEF AckedIsRead
<1>2. Q(log'[k], ledger[k].acked_through) = Q(log[k], ledger[k].acked_through)
  BY <1>1, QStays
<1>3. pc # "down" => Q(log'[k], entries[k].acked_through) = Q(log[k], entries[k].acked_through)
  BY <1>1, QStays
<1>4. ASSUME NEW ev \in replied, ev.key = k
      PROVE  Q(log'[k], ev.line) = Q(log[k], ev.line)
  <2>1. ev \in inbox /\ ev.kind = "question" /\ ev.line \in Nat
    BY DEF RepliedIsFirst, TypeOK, Event
  <2>2. ev.line <= Len(log[k])
    BY <1>4, <2>1, AckNumbers DEF EventsAreLines
  <2> QED
    BY <2>1, <2>2, QStays
<1>5. crashes = 0 => pc # "down"
  BY DEF OneProcess
<1> QED
  BY <1>2, <1>3, <1>4, <1>5 DEF AcksReplied, Matched

LEMMA AcksRepliedStep ==
    ASSUME TypeOK, TypeOK', Bookkeeping, AckedIsRead, InFlightIsRead, EventsAreLines,
           UnackedInHand, RepliedIsFirst, OneProcess, faults' = 0, [Next]_vars,
           NEW k \in Keys \ torn, AcksReplied(k)
    PROVE  AcksReplied(k)'
<1> USE DEF history, seen, files, written, Known
<1>1. ASSUME NEW j \in Keys, LaunchSpawn(j) PROVE AcksReplied(k)'
  <2>1. entries[j].state = "absent" /\ pc = "idle" /\ pc' = "launch"
        /\ UNCHANGED <<replied, crashes, replies, ledger>>
    BY <1>1 DEF LaunchSpawn
  <2>2. entries[j].acked_through = 0
    BY <2>1, AckNumbers DEF Bookkeeping, AckedIsRead
  <2>3. entries'[k].acked_through = entries[k].acked_through
    BY <1>1, <2>2 DEF LaunchSpawn, TypeOK
  <2> QED
    BY <2>1, <2>3, AcksRepliedKept
<1>2. ASSUME NEW j \in Keys, Drain(j) PROVE AcksReplied(k)'
  <2>1. UNCHANGED <<replied, crashes, replies>>
    BY <1>2 DEF Drain
  <2> QED
    BY <1>2, <2>1, DrainEffect, AcksRepliedKept
<1>3. ASSUME NEW j \in Keys, Reap(j) PROVE AcksReplied(k)'
  <2>1. UNCHANGED <<replied, crashes, replies>>
    BY <1>3 DEF Reap
  <2> QED
    BY <1>3, <2>1, ReapEffect, AcksRepliedKept
<1>4. ASSUME NEW j \in Keys, StopFinish(j) PROVE AcksReplied(k)'
  <2>1. UNCHANGED <<replied, crashes, replies>>
    BY <1>4 DEF StopFinish
  <2> QED
    BY <1>4, <2>1, StopEffect, AcksRepliedKept
<1>5. ASSUME NEW ev \in inbox, Reply(ev) PROVE AcksReplied(k)'
  <2>1. /\ replied = {} /\ replied' = {ev}
        /\ UNCHANGED <<pc, entries, ledger, log, crashes>>
        /\ replies' = [replies EXCEPT ![ev.key] = Append(@, ev.line)]
    BY <1>5 DEF Reply
  <2>2. ev.key \in Keys /\ ev.line \in Nat
    BY DEF TypeOK, Event
  <2>3. CASE ev.key # k
    <3>1. replies'[k] = replies[k]
      BY <2>1, <2>3 DEF TypeOK
    <3> QED
      BY <2>1, <2>3, <3>1 DEF AcksReplied, Matched
  <2>4. CASE ev.key = k
    <3>1. Len(replies'[k]) = Len(replies[k]) + 1 /\ Len(replies[k]) \in Nat
      <4>1. replies[k] \in Seq(Nat)
        BY DEF TypeOK
      <4>2. replies'[k] = Append(replies[k], ev.line)
        BY <2>1, <2>4 DEF TypeOK
      <4> QED
        BY <2>2, <4>1, <4>2, AppendProperties, LenProperties
    <3>2. Q(log[k], ev.line) = Q(log[k], entries[k].acked_through) + 1
      BY <1>5, <2>4, ReplyCounts
    <3>3. pc # "down"
      BY <1>5 DEF Reply
    <3>4. /\ Q(log[k], ledger[k].acked_through) \in Nat
          /\ Q(log[k], entries[k].acked_through) \in Nat
      BY AckNumbers, QNat
    <3>5. Matched(Q(log[k], entries[k].acked_through), Len(replies[k]), crashes)
      BY <2>1, <3>3 DEF AcksReplied, Matched
    <3>6. Matched(Q(log[k], ev.line), Len(replies[k]) + 1, crashes)
      BY <3>1, <3>2, <3>4, <3>5 DEF Matched
    <3>7. /\ Q(log[k], ledger[k].acked_through) <= Len(replies[k]) + 1
          /\ Q(log[k], entries[k].acked_through) <= Len(replies[k]) + 1
      BY <3>1, <3>3, <3>4 DEF AcksReplied
    <3> QED
      BY <2>1, <2>4, <3>1, <3>6, <3>7 DEF AcksReplied, Matched
  <2> QED
    BY <2>3, <2>4
<1>6. ASSUME NEW ev \in inbox, Ack(ev) PROVE AcksReplied(k)'
  <2>1. /\ ev.key \in Keys /\ ev.line \in Nat
        /\ entries'[k].acked_through = IF k = ev.key /\ ev.line > entries[k].acked_through
                                       THEN ev.line ELSE entries[k].acked_through
        /\ ledger' \in {ledger, entries'}
        /\ pc = "idle" /\ UNCHANGED <<pc, log>>
    BY <1>6, AckEffect
  <2>2. /\ UNCHANGED <<replies, crashes>> /\ replied' = {}
        /\ replied = IF ev.kind = "question" THEN {ev} ELSE {}
    <3>1. faults' # faults + 1
      BY DEF TypeOK
    <3> QED
      BY <1>6, <3>1 DEF Ack, Handled, FlushRaised
  <2> DEFINE q == Q(log[k], entries'[k].acked_through)
  <2>3. Matched(q, Len(replies[k]), crashes)
    <3>1. CASE ev.key = k /\ ev.line # 0
      <4>1. ev.line > entries[k].acked_through
        BY <3>1 DEF UnackedInHand
      <4>2. entries'[k].acked_through = ev.line
        BY <2>1, <3>1, <4>1
      <4>3. CASE ev.kind = "question"
        BY <2>2, <3>1, <4>2, <4>3 DEF AcksReplied
      <4>4. CASE ev.kind # "question"
        <5>1. q = Q(log[k], entries[k].acked_through)
          BY <1>6, <3>1, <4>2, <4>4, AckCounts
        <5> QED
          BY <2>1, <2>2, <4>4, <5>1 DEF AcksReplied, Matched
      <4> QED
        BY <4>3, <4>4
    <3>2. CASE ~(ev.key = k /\ ev.line # 0)
      <4>1. entries'[k].acked_through = entries[k].acked_through
        BY <2>1, <3>2, AckNumbers
      <4>2. ev.key # k \/ ev.kind # "question"
        BY <3>2 DEF EventsAreLines
      <4>3. \A other \in replied : other.key # k
        BY <2>2, <4>2
      <4> QED
        BY <2>1, <4>1, <4>3 DEF AcksReplied, Matched
    <3> QED
      BY <3>1, <3>2
  <2>4. Q(log[k], ledger'[k].acked_through) <= Len(replies[k])
    BY <2>1, <2>3 DEF AcksReplied, Matched
  <2> QED
    BY <2>1, <2>2, <2>3, <2>4 DEF AcksReplied, Matched
<1>7. CASE Crash \/ Close
  <2>1. /\ pc # "down" /\ pc' = "down" /\ crashes' = crashes + 1 /\ replied' = {}
        /\ UNCHANGED <<log, replies>>
        /\ ledger' \in {ledger, entries}
    BY <1>7 DEF Crash, Close, Forgotten, Flushed, FlushRaised
  <2>2. crashes' # 0
    BY <2>1 DEF TypeOK
  <2> QED
    BY <2>1, <2>2 DEF AcksReplied
<1>8. CASE Open
  <2>1. /\ pc = "down" /\ UNCHANGED <<log, replies, ledger, crashes, replied>>
        /\ entries'[k].acked_through = ledger[k].acked_through
    BY <1>8, OpenEffect DEF Open
  <2>2. replied = {} /\ crashes # 0
    BY <2>1 DEF Bookkeeping, RepliedIsFirst, OneProcess
  <2> QED
    BY <2>1, <2>2 DEF AcksReplied
<1>9. ASSUME NEW j \in Keys, NEW p \in DOMAIN kids[j],
             WorkerStep(j, p)
      PROVE  AcksReplied(k)'
  <2>1. UNCHANGED <<pc, entries, ledger, replies, replied, crashes>>
    BY <1>9, WorkerFrame
  <2> QED
    BY <2>1, AcksRepliedKept
<1>10. CASE /\ UNCHANGED <<entries, replies, replied, crashes>> /\ (pc' = "down" <=> pc = "down")
            /\ (ledger' = ledger \/ (ledger' = entries /\ pc # "down"))
  BY <1>10, AcksRepliedKept
<1> QED
  BY <1>1, <1>2, <1>3, <1>4, <1>5, <1>6, <1>7, <1>8, <1>9, <1>10
     DEF Next, Coordinator, Caller, Worker, LaunchFlush, PollStart, PollEmpty, PollFlush,
         PollReturn, StopSignal, StopRefused, Flushed, FlushRaised, vars, memory

-----------------------------------------------------------------------------
\* The n-th reply stays for the n-th question at most.
LEMMA TokensStep ==
    ASSUME TypeOK, TypeOK', Bookkeeping, InFlightIsRead, MissedIsRead, EventsAreLines,
           UnackedInHand, [Next]_vars, NEW k \in Keys \ torn, AcksReplied(k), TokensCount(k)
    PROVE  TokensCount(k)'
<1> USE DEF history, seen, files, written
<1>1. Len(log[k]) \in Nat /\ Len(replies[k]) \in Nat /\ replies[k] \in Seq(Nat)
  BY DEF TypeOK
<1>2. ASSUME NEW t \in Asked(log[k], Len(log[k])), NEW n, Matched(Q(log[k], t), n, crashes),
             Clean(k, t)
      PROVE  /\ t \in Asked(log'[k], Len(log'[k])) /\ Matched(Q(log'[k], t), n, crashes')
             /\ Clean(k, t)'
  <2>1. t \in Nat /\ t <= Len(log[k])
    BY <1>1 DEF Asked
  <2>2. Q(log'[k], t) = Q(log[k], t) /\ t \in Asked(log'[k], Len(log'[k]))
    BY <2>1, QStays
  <2>3. crashes' = 0 => crashes = 0
    BY CountersGrow
  <2>4. \A m \in 1..t : m \in partial'[k] => m \in partial[k]
    <3>1. \A m \in 1..t : m \in 1..Len(log[k])
      BY <1>1, <2>1
    <3> QED
      BY <3>1, LogEffect
  <2> QED
    BY <1>2, <2>2, <2>3, <2>4 DEF Matched, Clean
<1>3. CASE replies'[k] = replies[k]
  BY <1>2, <1>3 DEF TokensCount, Clean
<1>4. ASSUME NEW ev \in inbox, Reply(ev) PROVE TokensCount(k)'
  <2>1. /\ replied = {} /\ pc = "idle"
        /\ replies' = [replies EXCEPT ![ev.key] = Append(@, ev.line)]
    BY <1>4 DEF Reply
  <2>2. CASE ev.key # k
    <3>1. replies'[k] = replies[k]
      BY <2>1, <2>2 DEF TypeOK
    <3> QED
      BY <1>3, <3>1
  <2>3. CASE ev.key = k
    <3>0. /\ ev.line \in 1..Len(log[k]) /\ log[k][ev.line] = "question"
          /\ Q(log[k], ev.line) = Q(log[k], entries[k].acked_through) + 1
      BY <1>4, <2>3, ReplyCounts
    <3>1. replies'[k] = Append(replies[k], ev.line) /\ ev.line \in Nat
      BY <1>1, <2>1, <2>3, <3>0 DEF TypeOK
    <3>2. /\ Len(replies'[k]) = Len(replies[k]) + 1
          /\ replies'[k][Len(replies[k]) + 1] = ev.line
          /\ \A n \in 1..Len(replies[k]) : replies'[k][n] = replies[k][n]
      BY <1>1, <3>1, AppendProperties
    <3>3. Q(log[k], entries[k].acked_through) \in Nat
      BY AckNumbers, QNat
    <3>4. Matched(Q(log[k], ev.line), Len(replies[k]) + 1, crashes)
      BY <1>1, <2>1, <2>3, <3>0, <3>3 DEF AcksReplied, Matched
    <3>5. ev.line \in Asked(log[k], Len(log[k]))
      BY <3>0 DEF Asked
    <3>6. \A n \in 1..(Len(replies[k]) + 1) : n \in 1..Len(replies[k]) \/ n = Len(replies[k]) + 1
      BY <1>1
    <3>7. Clean(k, ev.line)
      <4>1. ev.line <= cursors[k] /\ cursors[k] \in Nat
        BY <2>3 DEF InFlightIsRead, TypeOK
      <4>2. 1..ev.line \subseteq 1..cursors[k]
        BY <3>1, <4>1
      <4>3. partial[k] \cap 1..cursors[k] = {}
        BY <2>1 DEF MissedIsRead, Reach
      <4> QED
        BY <4>2, <4>3 DEF Clean
    <3>8. \A n \in 1..Len(replies'[k]) :
            /\ replies'[k][n] \in Asked(log'[k], Len(log'[k]))
            /\ Matched(Q(log'[k], replies'[k][n]), n, crashes')
            /\ Clean(k, replies[k][n])'
      <4>1. ASSUME NEW n \in 1..Len(replies[k])
            PROVE  /\ replies'[k][n] \in Asked(log'[k], Len(log'[k]))
                   /\ Matched(Q(log'[k], replies'[k][n]), n, crashes')
                   /\ partial'[k] \cap 1..replies'[k][n] = {}
        BY <1>2, <3>2 DEF TokensCount, Clean
      <4>2. /\ ev.line \in Asked(log'[k], Len(log'[k]))
            /\ Matched(Q(log'[k], ev.line), Len(replies[k]) + 1, crashes')
            /\ partial'[k] \cap 1..ev.line = {}
        BY <1>2, <3>4, <3>5, <3>7 DEF Clean
      <4> QED
        BY <3>2, <3>6, <4>1, <4>2 DEF Clean
    <3> QED
      BY <3>8 DEF TokensCount, Clean
  <2> QED
    BY <2>2, <2>3
<1>5. ASSUME NEW j \in Keys, NEW p \in DOMAIN kids[j], WorkerStep(j, p) PROVE replies' = replies
  BY <1>5, WorkerFrame
<1> QED
  BY <1>3, <1>4, <1>5
     DEF Next, Coordinator, Caller, Worker, LaunchSpawn, LaunchFlush, PollStart, Drain, Reap,
         PollEmpty, PollFlush, PollReturn, Ack, StopSignal, StopFinish, StopRefused, Crash, Close,
         Forgotten, Open, vars, memory

\* What ends a process, answers it or concerns its pid says nothing new of its lines.
Quiet(kid, old) ==
    \/ ~kid.alive /\ kid.begun = 0 /\ kid.asked = <<>>
    \/ kid.alive = old.alive /\ kid.begun = old.begun /\ kid.asked = old.asked

\* What a step may do to the processes of a worker and to its file.
LEMMA StepsOfKey ==
    ASSUME TypeOK, [Next]_vars, NEW k \in Keys
    PROVE  \/ /\ kids'[k] = kids[k]
              /\ log'[k] = log[k] /\ partial'[k] = partial[k] /\ open'[k] = open[k]
           \/ LaunchSpawn(k)
           \/ \E p \in 1..Len(kids[k]) : \E kid \in Process :
                /\ kids'[k] = [kids[k] EXCEPT ![p] = kid] /\ Quiet(kid, kids[k][p])
                /\ log'[k] = log[k] /\ partial'[k] = partial[k] /\ open'[k] = open[k]
           \/ \E p \in 1..Len(kids[k]) : ChildBegin(k, p) \/ ChildEnd(k, p)
<1> DEFINE Same == log'[k] = log[k] /\ partial'[k] = partial[k] /\ open'[k] = open[k]
           Kid(p, kid) == /\ kids'[k] = [kids[k] EXCEPT ![p] = kid]
                          /\ Quiet(kid, kids[k][p])
                          /\ Same
           Goal == \/ kids'[k] = kids[k] /\ Same
                   \/ LaunchSpawn(k)
                   \/ \E p \in 1..Len(kids[k]) : \E kid \in Process : Kid(p, kid)
                   \/ \E p \in 1..Len(kids[k]) : ChildBegin(k, p) \/ ChildEnd(k, p)
<1> SUFFICES Goal
  OBVIOUS
<1> HIDE DEF Goal
<1>1. /\ kids \in [Keys -> Seq(Process)] /\ log \in [Keys -> Seq(AllKinds)]
      /\ partial \in [Keys -> SUBSET Nat] /\ open \in [Keys -> SUBSET Nat]
      /\ \A j \in Keys : DOMAIN kids[j] = 1..Len(kids[j])
  BY DEF TypeOK
<1>2. CASE UNCHANGED <<kids, written>>
  BY <1>2 DEF written, Goal
<1>3. ASSUME NEW j \in Keys, LaunchSpawn(j) PROVE Goal
  BY <1>1, <1>3 DEF LaunchSpawn, files, written, Goal
<1>4. ASSUME NEW j \in Keys, NEW p \in 1..Len(kids[j]), NEW kid \in Process,
             kids' = WithKid(j, p, kid), Quiet(kid, kids[j][p]), UNCHANGED written
      PROVE  Goal
  <2>1. kids'[k] = IF j = k THEN [kids[k] EXCEPT ![p] = kid] ELSE kids[k]
    BY <1>1, <1>4 DEF WithKid
  <2>2. CASE j # k
    BY <1>4, <2>1, <2>2 DEF written, Goal
  <2>3. CASE j = k
    <3>1. Kid(p, kid)
      BY <1>4, <2>1, <2>3 DEF written
    <3> HIDE DEF Kid
    <3> QED
      BY <1>4, <2>3, <3>1 DEF Goal
  <2> QED
    BY <2>2, <2>3
<1>5. ASSUME NEW j \in Keys, StopFinish(j) PROVE Goal
  <2> DEFINE pid == entries[j].pid
             kid == IF kids[j][pid].alive THEN Exited(1) ELSE WithPid(kids[j][pid], FALSE)
  <2>1. UNCHANGED written
    BY <1>5 DEF StopFinish, files
  <2>2. CASE PidAlive(j, pid)
    <3>1. pid \in 1..Len(kids[j])
      <4>1. entries[j] \in LedgerEntry /\ kids[j] \in Seq(Process) /\ pid <= Len(kids[j])
        BY DEF TypeOK, PidsStarted
      <4>2. pid \in Nat /\ pid # 0 /\ Len(kids[j]) \in Nat
        BY <2>2, <4>1 DEF PidAlive, LedgerEntry
      <4> QED
        BY <4>1, <4>2
    <3>2. kids[j][pid] \in Process
      BY <1>1, <3>1, ElementOfSeq
    <3>3. kid \in Process /\ kids' = WithKid(j, pid, kid)
      BY <1>5, <2>2, <3>2, ProcessType DEF StopFinish, _terminate
    <3>4. Quiet(kid, kids[j][pid])
      BY <3>2 DEF Quiet, WithPid, Exited, Started, Process
    <3> HIDE DEF kid, pid
    <3> QED
      BY <1>4, <2>1, <3>1, <3>3, <3>4
  <2>3. CASE ~PidAlive(j, pid)
    <3>1. kids' = kids
      BY <1>5, <2>3 DEF StopFinish, _terminate
    <3> QED
      BY <1>2, <2>1, <3>1
  <2> QED
    BY <2>2, <2>3
<1>6. ASSUME NEW j \in Keys, NEW p \in DOMAIN kids[j],
             ChildReadReply(j, p) \/ ChildExit(j, p) \/ PidReused(j, p) \/ PidFreed(j, p)
      PROVE  Goal
  <2>1. p \in 1..Len(kids[j]) /\ kids[j][p] \in Process
    BY <1>1, <1>6, ElementOfSeq
  <2>2. UNCHANGED written
    BY <1>6 DEF ChildReadReply, ChildExit, PidReused, PidFreed, files
  <2>3. \E kid \in {Answered(kids[j][p]), Exited(0), Exited(1), WithPid(kids[j][p], TRUE),
                    WithPid(kids[j][p], FALSE)} : kids' = WithKid(j, p, kid)
    BY <1>6 DEF ChildReadReply, ChildExit, PidReused, PidFreed
  <2>4. \A kid \in {Answered(kids[j][p]), Exited(0), Exited(1), WithPid(kids[j][p], TRUE),
                    WithPid(kids[j][p], FALSE)} : kid \in Process
    BY <2>1, ProcessType
  <2>5. \A kid \in {Answered(kids[j][p]), Exited(0), Exited(1), WithPid(kids[j][p], TRUE),
                    WithPid(kids[j][p], FALSE)} : Quiet(kid, kids[j][p])
    BY <2>1 DEF Quiet, Answered, Exited, Started, WithPid, Process
  <2>6. PICK kid \in Process : kids' = WithKid(j, p, kid) /\ Quiet(kid, kids[j][p])
    BY <2>3, <2>4, <2>5
  <2> QED
    BY <1>4, <2>1, <2>2, <2>6
<1>7. ASSUME NEW j \in Keys, NEW p \in DOMAIN kids[j], ChildBegin(j, p) \/ ChildEnd(j, p)
      PROVE  Goal
  <2>1. CASE j = k
    BY <1>1, <1>7, <2>1 DEF Goal
  <2>2. CASE j # k
    <3>1. kids'[k] = kids[k]
      <4>1. \E kid : kids' = WithKid(j, p, kid)
        BY <1>7 DEF ChildBegin, ChildEnd
      <4> QED
        BY <1>1, <2>2, <4>1 DEF WithKid
    <3>2. WorkerStep(j, p)
      BY <1>7 DEF WorkerStep
    <3>3. log'[k] = log[k]
      BY <1>1, <2>2, <3>2, WorkerLines
    <3>4. partial'[k] = partial[k] /\ open'[k] = open[k]
      BY <1>1, <2>2, <3>2, WorkerMarks
    <3> QED
      BY <3>1, <3>3, <3>4 DEF Goal
  <2> QED
    BY <2>1, <2>2
<1>9. ASSUME NEW j \in Keys, Drain(j) \/ Reap(j) \/ StopSignal(j) \/ StopRefused(j)
      PROVE  Goal
  <2>1. UNCHANGED <<kids, written>>
    BY <1>9 DEF Drain, Reap, StopSignal, StopRefused, files
  <2> QED
    BY <1>2, <2>1
<1>10. ASSUME NEW ev \in inbox, Reply(ev) \/ Ack(ev) PROVE Goal
  <2>1. UNCHANGED <<kids, written>>
    BY <1>10 DEF Reply, Ack, files
  <2> QED
    BY <1>2, <2>1
<1>11. CASE \/ LaunchFlush \/ PollStart \/ PollEmpty \/ PollFlush \/ PollReturn \/ Open
            \/ Close \/ Crash \/ UNCHANGED vars
  BY <1>2, <1>11 DEF LaunchFlush, PollStart, PollEmpty, PollFlush, PollReturn, Open, Close,
                     Crash, Forgotten, vars, files
<1>12. CASE Coordinator \/ Caller
  BY <1>3, <1>5, <1>9, <1>10, <1>11, <1>12 DEF Coordinator, Caller
<1>13. CASE Worker
  BY <1>6, <1>7, <1>13 DEF Worker, WorkerStep
<1> QED
  BY <1>11, <1>12, <1>13 DEF Next

-----------------------------------------------------------------------------
\* File s becomes file t: it may grow, and its last line become whole when it ends.
Grows(s, t, m1, m2, w1, w2) ==
    /\ Len(s) <= Len(t) /\ \A n \in 1..Len(s) : t[n] = s[n]
    /\ \A n \in m1 : n \in m2 \/ (n = Len(s) /\ w1 # {})
    /\ w2 = {} \/ w1 # {} \/ Len(t) > Len(s)

\* Process p ends or begins a line.
GrowsBy(p, s, t, m1, m2, w1, w2) ==
    /\ \A n \in m1 : n \in m2 \/ (n = Len(s) /\ w1 = {p})
    /\ \/ w2 = {}
       \/ w2 = w1 \cup {p} /\ w1 # {} /\ Len(t) = Len(s)
       \/ w2 = {p} /\ Len(t) > Len(s)

\* A process that asks nothing new keeps its lines.
LEMMA AskedKept ==
    ASSUME NEW kid \in Process, NEW kid2 \in Process, kid2.asked = kid.asked,
           NEW s \in Seq(AllKinds), NEW t \in Seq(AllKinds),
           NEW m1, NEW m2, NEW w1, NEW w2, Grows(s, t, m1, m2, w1, w2),
           \/ kid2.begun \in {0, kid.begun}
           \/ kid2.begun = Len(t) /\ (w1 # {} \/ Len(t) > Len(s)),
           AskedLines(kid, s, m1, w1)
    PROVE  AskedLines(kid2, t, m2, w2)
<1> SUFFICES ASSUME NEW i \in 1..Len(kid.asked), NEW line, line = kid.asked[i]
             PROVE  /\ line \in 1..Len(t)
                    /\ line = Len(t) => w2 = {}
                    /\ kid2.begun # 0 => line < kid2.begun
                    /\ line \notin m2 => t[line] = "question"
                    /\ m2 \cap 1..line = {} => i <= Q(t, line)
  BY DEF AskedLines
<1> USE DEF Grows
<1>1. /\ line \in 1..Len(s)
      /\ line = Len(s) => w1 = {}
      /\ kid.begun # 0 => line < kid.begun
      /\ line \notin m1 => s[line] = "question"
      /\ m1 \cap 1..line = {} => i <= Q(s, line)
  BY DEF AskedLines
<1>2. Len(s) \in Nat /\ Len(t) \in Nat
  OBVIOUS
<1>3. line \in Nat /\ line <= Len(s) /\ line \in 1..Len(t)
  BY <1>1, <1>2
<1>4. Q(t, line) = Q(s, line)
  <2>1. \A m \in 1..line : t[m] = s[m]
    BY <1>2, <1>3
  <2> QED
    BY <1>3, <2>1, QPrefix
<1>5. m2 \cap 1..line = {} => m1 \cap 1..line = {}
  <2> SUFFICES ASSUME NEW n \in 1..line, n \in m1, n \notin m2 PROVE FALSE
    OBVIOUS
  <2>1. n = Len(s) /\ w1 # {}
    OBVIOUS
  <2> QED
    BY <1>1, <1>2, <1>3, <2>1
<1>6. line \notin m2 => t[line] = "question"
  BY <1>1
<1>7. line = Len(t) => w2 = {}
  BY <1>1, <1>2, <1>3
<1>8. kid2.begun # 0 => line < kid2.begun
  BY <1>1, <1>2, <1>3
<1> QED
  BY <1>1, <1>3, <1>4, <1>5, <1>6, <1>7, <1>8

\* Process q's part in the last line while p begins or ends a line.
LEMMA BegunKept ==
    ASSUME NEW kid \in Process, NEW p, NEW q, p # q,
           NEW s \in Seq(AllKinds), NEW t \in Seq(AllKinds), Len(s) <= Len(t),
           NEW m1, NEW m2, m1 \subseteq 1..Len(s), NEW w1, NEW w2,
           GrowsBy(p, s, t, m1, m2, w1, w2), BegunLine(kid, q, s, m1, w1)
    PROVE  BegunLine(kid, q, t, m2, w2)
<1> USE DEF GrowsBy
<1>1. Len(s) \in Nat /\ Len(t) \in Nat
  OBVIOUS
<1>2. kid.begun # 0 => kid.begun \in m1 /\ kid.begun \in 1..Len(s)
  <2>1. kid.begun # 0 => kid.begun \in m1
    BY DEF BegunLine
  <2> QED
    BY <2>1
<1>3. kid.begun # 0 => kid.begun \in m2
  <2>1. w1 = {p} => w1 # {} /\ q \notin w1
    OBVIOUS
  <2>2. kid.begun # 0 /\ kid.begun = Len(s) /\ w1 # {} => q \in w1
    BY DEF BegunLine
  <2> QED
    BY <1>2, <2>1, <2>2
<1>4. kid.begun # 0 /\ kid.begun = Len(t) /\ w2 # {} => q \in w2
  BY <1>1, <1>2 DEF BegunLine
<1>5. kid.alive /\ q \in w2 => kid.begun = Len(t)
  BY <1>1 DEF BegunLine
<1> QED
  BY <1>3, <1>4, <1>5 DEF BegunLine

\* What beginning a line does to a worker's file, and to the process.
LEMMA BeginEffect ==
    ASSUME TypeOK, NEW k \in Keys, NEW p \in 1..Len(kids[k]), ChildBegin(k, p)
    PROVE  \E kid \in Process :
             /\ kids'[k] = [kids[k] EXCEPT ![p] = kid]
             /\ kids[k][p].alive /\ kids[k][p].begun = 0
             /\ kid.alive /\ kid.asked = kids[k][p].asked /\ kid.begun = Len(log'[k])
             /\ log'[k] \in Seq(AllKinds)
             /\ \A n \in 1..Len(log[k]) : log'[k][n] = log[k][n]
             /\ \/ /\ open[k] = {} /\ open'[k] = {p}
                   /\ Len(log'[k]) = Len(log[k]) + 1
                   /\ partial'[k] = partial[k] \cup {Len(log[k]) + 1}
                \/ /\ open[k] # {} /\ open'[k] = open[k] \cup {p}
                   /\ log'[k] = log[k] /\ partial'[k] = partial[k]
<1>1. /\ kids[k] \in Seq(Process) /\ log[k] \in Seq(AllKinds) /\ Len(log[k]) \in Nat
      /\ kids \in [Keys -> Seq(Process)] /\ log \in [Keys -> Seq(AllKinds)]
      /\ partial \in [Keys -> SUBSET Nat] /\ open \in [Keys -> SUBSET Nat]
  BY DEF TypeOK
<1>2. kids[k][p] \in Process
  BY <1>1, ElementOfSeq
<1>3. /\ kids[k][p].alive /\ kids[k][p].begun = 0
      /\ kids'[k] = [kids[k] EXCEPT ![p] = Beginning(kids[k][p], Len(log'[k]))]
  BY <1>1 DEF ChildBegin, WithKid
<1>4. \/ /\ open[k] = {} /\ open'[k] = {p}
         /\ \E kind \in AllKinds : log'[k] = Append(log[k], kind)
         /\ partial'[k] = partial[k] \cup {Len(log[k]) + 1}
      \/ /\ open[k] # {} /\ open'[k] = open[k] \cup {p}
         /\ log'[k] = log[k] /\ partial'[k] = partial[k]
  BY <1>1, SessionAssumption DEF ChildBegin
<1>5. \A kind \in AllKinds :
        /\ Append(log[k], kind) \in Seq(AllKinds)
        /\ Len(Append(log[k], kind)) = Len(log[k]) + 1
        /\ \A n \in 1..Len(log[k]) : Append(log[k], kind)[n] = log[k][n]
  BY <1>1, AppendProperties
<1>6. log'[k] \in Seq(AllKinds) /\ Len(log'[k]) \in Nat
  BY <1>1, <1>4, <1>5, LenProperties
<1> DEFINE kid == Beginning(kids[k][p], Len(log'[k]))
<1>7. kid \in Process
  BY <1>2, <1>6, ProcessType
<1>8. kid.alive /\ kid.asked = kids[k][p].asked /\ kid.begun = Len(log'[k])
  BY <1>2, <1>3 DEF Beginning, Process
<1>9. kids'[k] = [kids[k] EXCEPT ![p] = kid]
  BY <1>3
<1>10. \A n \in 1..Len(log[k]) : log'[k][n] = log[k][n]
  BY <1>4, <1>5
<1>11. \/ /\ open[k] = {} /\ open'[k] = {p}
          /\ Len(log'[k]) = Len(log[k]) + 1
          /\ partial'[k] = partial[k] \cup {Len(log[k]) + 1}
       \/ /\ open[k] # {} /\ open'[k] = open[k] \cup {p}
          /\ log'[k] = log[k] /\ partial'[k] = partial[k]
  BY <1>4, <1>5
<1> HIDE DEF kid
<1> QED
  BY <1>3, <1>6, <1>7, <1>8, <1>9, <1>10, <1>11

\* What ending a line does to them: if nobody else wrote to it, it is whole now.
LEMMA EndEffect ==
    ASSUME TypeOK, NEW k \in Keys, NEW p \in 1..Len(kids[k]), ChildEnd(k, p)
    PROVE  \E kid \in Process :
             /\ kids'[k] = [kids[k] EXCEPT ![p] = kid]
             /\ kids[k][p].alive /\ kids[k][p].begun # 0
             /\ kid.alive /\ kid.begun = 0
             /\ log'[k] \in Seq(AllKinds) /\ Len(log'[k]) >= Len(log[k])
             /\ \A n \in 1..Len(log[k]) : log'[k][n] = log[k][n]
             /\ open'[k] = {}
             /\ \/ /\ open[k] = {p} /\ log'[k] = log[k]
                   /\ partial'[k] = partial[k] \ {kids[k][p].begun}
                   /\ kid.asked = IF log[k][kids[k][p].begun] = "question"
                                    THEN Append(kids[k][p].asked, kids[k][p].begun)
                                    ELSE kids[k][p].asked
                \/ /\ open[k] # {p} /\ partial'[k] = partial[k]
                   /\ kid.asked \in {kids[k][p].asked, Append(kids[k][p].asked, kids[k][p].begun)}
<1>1. /\ kids[k] \in Seq(Process) /\ log[k] \in Seq(AllKinds) /\ Len(log[k]) \in Nat
      /\ kids \in [Keys -> Seq(Process)] /\ log \in [Keys -> Seq(AllKinds)]
      /\ partial \in [Keys -> SUBSET Nat] /\ open \in [Keys -> SUBSET Nat]
  BY DEF TypeOK
<1>2. kids[k][p] \in Process
  BY <1>1, ElementOfSeq
<1>3. kids[k][p].alive /\ kids[k][p].begun # 0 /\ open'[k] = {}
  BY <1>1 DEF ChildEnd
<1>4. log'[k] = log[k] \/ log'[k] = Append(log[k], "junk")
  BY <1>1 DEF ChildEnd
<1>5. /\ Append(log[k], "junk") \in Seq(AllKinds)
      /\ Len(Append(log[k], "junk")) = Len(log[k]) + 1
      /\ \A n \in 1..Len(log[k]) : Append(log[k], "junk")[n] = log[k][n]
  <2>1. "junk" \in AllKinds
    BY DEF AllKinds
  <2> QED
    BY <1>1, <2>1, AppendProperties
<1>6. /\ log'[k] \in Seq(AllKinds) /\ Len(log'[k]) >= Len(log[k])
      /\ \A n \in 1..Len(log[k]) : log'[k][n] = log[k][n]
  <2>1. CASE log'[k] = log[k]
    BY <1>1, <2>1
  <2>2. CASE log'[k] = Append(log[k], "junk")
    BY <1>1, <1>5, <2>2
  <2> QED
    BY <1>4, <2>1, <2>2
<1>7. PICK kind :
        /\ kids'[k] = [kids[k] EXCEPT ![p] = Wrote(kids[k][p], kind)]
        /\ \/ /\ open[k] = {p} /\ log'[k] = log[k] /\ kind = log[k][kids[k][p].begun]
              /\ partial'[k] = partial[k] \ {kids[k][p].begun}
           \/ open[k] # {p} /\ partial'[k] = partial[k]
  BY <1>1 DEF ChildEnd, WithKid
<1> DEFINE kid == Wrote(kids[k][p], kind)
<1>8. kid \in Process
  BY <1>2, ProcessType
<1>9. /\ kid.alive /\ kid.begun = 0
      /\ kid.asked = IF kind = "question" THEN Append(kids[k][p].asked, kids[k][p].begun)
                                          ELSE kids[k][p].asked
  BY <1>2, <1>3 DEF Wrote, Process
<1>10. kids'[k] = [kids[k] EXCEPT ![p] = kid]
  BY <1>7
<1> HIDE DEF kid
<1> QED
  BY <1>3, <1>6, <1>7, <1>8, <1>9, <1>10

\* A process that ends a line as a question has asked that too: not whole, or once more
\* than all its lines before.
LEMMA AskedOneMore ==
    ASSUME NEW kid \in Process, NEW kid2 \in Process,
           NEW s \in Seq(AllKinds), NEW m \in SUBSET Nat, NEW b, b = kid.begun,
           b \in 1..Len(s), \A i \in 1..Len(kid.asked) : kid.asked[i] < b,
           kid2.begun = 0, kid2.asked = Append(kid.asked, b),
           b \notin m => s[b] = "question",
           NEW before \in Process, before.asked = kid.asked, before.begun = 0,
           AskedLines(before, s, m, {})
    PROVE  AskedLines(kid2, s, m, {})
<1>1. /\ kid.asked \in Seq(Nat) /\ Len(kid.asked) \in Nat /\ b \in Nat /\ Len(s) \in Nat
  BY DEF Process
<1>2. /\ Len(kid2.asked) = Len(kid.asked) + 1
      /\ kid2.asked[Len(kid.asked) + 1] = b
      /\ \A i \in 1..Len(kid.asked) : kid2.asked[i] = kid.asked[i]
  BY <1>1, AppendProperties
<1>3. \A i \in 1..Len(kid.asked) :
        LET line == kid.asked[i]
        IN  /\ line \in 1..Len(s)
            /\ line \notin m => s[line] = "question"
            /\ m \cap 1..line = {} => i <= Q(s, line)
  BY DEF AskedLines
<1>4. ASSUME m \cap 1..b = {} PROVE Len(kid.asked) + 1 <= Q(s, b)
  <2>1. s[b] = "question"
    BY <1>1, <1>4
  <2> DEFINE last == IF Len(kid.asked) = 0 THEN 0 ELSE kid.asked[Len(kid.asked)]
  <2>2. last \in Nat /\ last < b /\ Len(kid.asked) <= Q(s, last)
    <3>1. CASE Len(kid.asked) = 0
      <4>1. last = 0 /\ Q(s, 0) \in Nat
        BY <3>1, QNat
      <4> QED
        BY <1>1, <3>1, <4>1
    <3>2. CASE Len(kid.asked) # 0
      <4>1. Len(kid.asked) \in 1..Len(kid.asked) /\ last = kid.asked[Len(kid.asked)]
        BY <1>1, <3>2
      <4>2. last \in 1..Len(s) /\ last < b /\ (m \cap 1..last = {} => Len(kid.asked) <= Q(s, last))
        BY <1>3, <4>1
      <4>3. m \cap 1..last = {}
        BY <1>1, <1>4, <4>2
      <4> QED
        BY <1>1, <4>2, <4>3
    <3> QED
      BY <3>1, <3>2
  <2> HIDE DEF last
  <2>3. Q(s, last) < Q(s, b) /\ Q(s, last) \in Nat /\ Q(s, b) \in Nat
    BY <1>1, <2>1, <2>2, QLess, QNat
  <2> QED
    BY <1>1, <2>2, <2>3
<1>5. \A i \in 1..Len(kid2.asked) : i \in 1..Len(kid.asked) \/ i = Len(kid.asked) + 1
  BY <1>1, <1>2
<1> QED
  BY <1>2, <1>3, <1>4, <1>5 DEF AskedLines

\* What processes write keeps them knowing their lines.
LEMMA WritingStep ==
    ASSUME TypeOK, TypeOK', WritingInv, [Next]_vars
    PROVE  WritingInv'
<1> SUFFICES ASSUME NEW k \in Keys PROVE Writing(k)'
  BY DEF WritingInv
<1> DEFINE L == Len(log[k])
<1>1. Writing(k)
  BY DEF WritingInv
<1>2. /\ kids[k] \in Seq(Process) /\ kids'[k] \in Seq(Process) /\ Len(kids[k]) \in Nat
      /\ log[k] \in Seq(AllKinds) /\ log'[k] \in Seq(AllKinds) /\ L \in Nat
      /\ partial[k] \in SUBSET Nat /\ partial'[k] \in SUBSET Nat
      /\ \A p \in 1..Len(kids[k]) : kids[k][p] \in Process
  BY ElementOfSeq DEF TypeOK
<1>3. CASE /\ kids'[k] = kids[k]
           /\ log'[k] = log[k] /\ partial'[k] = partial[k] /\ open'[k] = open[k]
  BY <1>1, <1>3 DEF Writing
<1>4. CASE LaunchSpawn(k)
  <2>1. /\ log'[k] = log[k] /\ partial'[k] = partial[k] /\ open'[k] = open[k]
        /\ kids'[k] = Append(kids[k], Started)
    BY <1>4 DEF LaunchSpawn, TypeOK, files, written
  <2>2. Started \in Process /\ Started.begun = 0 /\ Started.asked = <<>>
    BY DEF Started, Process
  <2>3. /\ Len(kids'[k]) = Len(kids[k]) + 1 /\ kids'[k][Len(kids[k]) + 1] = Started
        /\ \A p \in 1..Len(kids[k]) : kids'[k][p] = kids[k][p]
    BY <1>2, <2>1, <2>2, AppendProperties
  <2>4. AskedLines(Started, log[k], partial[k], open[k])
    BY <2>2 DEF AskedLines
  <2>5. Len(kids[k]) + 1 \notin open[k]
    BY <1>1, <1>2 DEF Writing
  <2>6. BegunLine(Started, Len(kids[k]) + 1, log[k], partial[k], open[k])
    BY <2>2, <2>5 DEF BegunLine
  <2>7. \A p \in 1..Len(kids'[k]) : p \in 1..Len(kids[k]) \/ p = Len(kids[k]) + 1
    BY <1>2, <2>3
  <2>8. open[k] \subseteq 1..(Len(kids[k]) + 1)
    BY <1>1, <1>2 DEF Writing
  <2> QED
    BY <1>1, <2>1, <2>3, <2>4, <2>6, <2>7, <2>8 DEF Writing
<1>5. ASSUME NEW p \in 1..Len(kids[k]), NEW kid \in Process,
             kids'[k] = [kids[k] EXCEPT ![p] = kid],
             open'[k] \subseteq 1..Len(kids[k]), partial'[k] \subseteq 1..Len(log'[k]),
             open'[k] # {} => Len(log'[k]) \in partial'[k],
             AskedLines(kid, log'[k], partial'[k], open'[k]),
             BegunLine(kid, p, log'[k], partial'[k], open'[k]),
             \A q \in 1..Len(kids[k]) : q # p =>
               /\ AskedLines(kids[k][q], log'[k], partial'[k], open'[k])
               /\ BegunLine(kids[k][q], q, log'[k], partial'[k], open'[k])
      PROVE  Writing(k)'
  <2>1. Len(kids'[k]) = Len(kids[k])
    BY <1>2, <1>5, ExceptSeq
  <2>2. \A q \in 1..Len(kids[k]) : kids'[k][q] = IF q = p THEN kid ELSE kids[k][q]
    BY <1>2, <1>5, ExceptSeq
  <2>3. \A q \in 1..Len(kids[k]) :
          /\ AskedLines(kids'[k][q], log'[k], partial'[k], open'[k])
          /\ BegunLine(kids'[k][q], q, log'[k], partial'[k], open'[k])
    BY <1>5, <2>2
  <2> QED
    BY <1>5, <2>1, <2>3 DEF Writing
<1>6. ASSUME NEW p \in 1..Len(kids[k]), NEW kid \in Process,
             kids'[k] = [kids[k] EXCEPT ![p] = kid], Quiet(kid, kids[k][p]),
             log'[k] = log[k], partial'[k] = partial[k], open'[k] = open[k]
      PROVE  Writing(k)'
  <2>1. /\ AskedLines(kids[k][p], log[k], partial[k], open[k])
        /\ BegunLine(kids[k][p], p, log[k], partial[k], open[k])
    BY <1>1 DEF Writing
  <2>2. AskedLines(kid, log[k], partial[k], open[k])
    BY <1>6, <2>1 DEF AskedLines, Quiet
  <2>3. BegunLine(kid, p, log[k], partial[k], open[k])
    BY <1>6, <2>1 DEF BegunLine, Quiet
  <2> QED
    BY <1>1, <1>5, <1>6, <2>2, <2>3 DEF Writing
<1>7. ASSUME NEW p \in 1..Len(kids[k]), ChildBegin(k, p) PROVE Writing(k)'
  <2>1. PICK kid \in Process :
             /\ kids'[k] = [kids[k] EXCEPT ![p] = kid]
             /\ kids[k][p].alive /\ kids[k][p].begun = 0
             /\ kid.alive /\ kid.asked = kids[k][p].asked /\ kid.begun = Len(log'[k])
             /\ log'[k] \in Seq(AllKinds)
             /\ \A n \in 1..Len(log[k]) : log'[k][n] = log[k][n]
             /\ \/ /\ open[k] = {} /\ open'[k] = {p}
                   /\ Len(log'[k]) = Len(log[k]) + 1
                   /\ partial'[k] = partial[k] \cup {Len(log[k]) + 1}
                \/ /\ open[k] # {} /\ open'[k] = open[k] \cup {p}
                   /\ log'[k] = log[k] /\ partial'[k] = partial[k]
    BY <1>7, BeginEffect
  <2>2. /\ open[k] \subseteq 1..Len(kids[k]) /\ partial[k] \subseteq 1..L
        /\ open[k] # {} => L \in partial[k]
    BY <1>1 DEF Writing
  <2>3. /\ open'[k] \subseteq 1..Len(kids[k]) /\ partial'[k] \subseteq 1..Len(log'[k])
        /\ Len(log'[k]) \in partial'[k] /\ p \in open'[k]
    BY <1>2, <2>1, <2>2
  <2>4. /\ Len(log'[k]) >= L /\ Len(log'[k]) \in Nat
        /\ open[k] # {} \/ Len(log'[k]) > L
        /\ \A n \in partial[k] : n \in partial'[k]
    BY <1>2, <2>1
  <2>8. Grows(log[k], log'[k], partial[k], partial'[k], open[k], open'[k])
    BY <2>1, <2>4 DEF Grows
  <2>9. GrowsBy(p, log[k], log'[k], partial[k], partial'[k], open[k], open'[k])
    BY <1>2, <2>1, <2>4 DEF GrowsBy
  <2>5. AskedLines(kid, log'[k], partial'[k], open'[k])
    <3>1. AskedLines(kids[k][p], log[k], partial[k], open[k])
      BY <1>1 DEF Writing
    <3> QED
      BY <1>2, <2>1, <2>4, <2>8, <3>1, AskedKept
  <2>6. BegunLine(kid, p, log'[k], partial'[k], open'[k])
    BY <2>1, <2>3 DEF BegunLine
  <2>7. ASSUME NEW q \in 1..Len(kids[k]), q # p
        PROVE  /\ AskedLines(kids[k][q], log'[k], partial'[k], open'[k])
               /\ BegunLine(kids[k][q], q, log'[k], partial'[k], open'[k])
    <3>1. /\ AskedLines(kids[k][q], log[k], partial[k], open[k])
          /\ BegunLine(kids[k][q], q, log[k], partial[k], open[k])
          /\ kids[k][q] \in Process
      BY <1>1, <1>2 DEF Writing
    <3>2. AskedLines(kids[k][q], log'[k], partial'[k], open'[k])
      BY <1>2, <2>8, <3>1, AskedKept
    <3>3. BegunLine(kids[k][q], q, log'[k], partial'[k], open'[k])
      BY <1>2, <2>2, <2>4, <2>7, <2>9, <3>1, BegunKept
    <3> QED
      BY <3>2, <3>3
  <2> QED
    BY <1>5, <2>1, <2>3, <2>5, <2>6, <2>7
<1>8. ASSUME NEW p \in 1..Len(kids[k]), ChildEnd(k, p) PROVE Writing(k)'
  <2> DEFINE old == kids[k][p]
             b == old.begun
  <2>1. PICK kid \in Process :
             /\ kids'[k] = [kids[k] EXCEPT ![p] = kid]
             /\ old.alive /\ b # 0
             /\ kid.alive /\ kid.begun = 0
             /\ log'[k] \in Seq(AllKinds) /\ Len(log'[k]) >= Len(log[k])
             /\ \A n \in 1..Len(log[k]) : log'[k][n] = log[k][n]
             /\ open'[k] = {}
             /\ \/ /\ open[k] = {p} /\ log'[k] = log[k] /\ partial'[k] = partial[k] \ {b}
                   /\ kid.asked = IF log[k][b] = "question" THEN Append(old.asked, b) ELSE old.asked
                \/ /\ open[k] # {p} /\ partial'[k] = partial[k]
                   /\ kid.asked \in {old.asked, Append(old.asked, b)}
    BY <1>8, EndEffect
  <2>2. /\ AskedLines(old, log[k], partial[k], open[k])
        /\ BegunLine(old, p, log[k], partial[k], open[k])
        /\ old \in Process
    BY <1>1, <1>2 DEF Writing
  <2>3. /\ b \in partial[k] /\ b \in 1..L
        /\ open[k] = {p} => b = L
    BY <1>1, <2>1, <2>2 DEF Writing, BegunLine
  <2>4. /\ open'[k] \subseteq 1..Len(kids[k]) /\ partial'[k] \subseteq 1..Len(log'[k])
        /\ Len(log'[k]) \in Nat
        /\ \A n \in partial[k] : n \in partial'[k] \/ (n = L /\ open[k] = {p})
    <3>1. Len(log'[k]) \in Nat
      BY <1>2
    <3>2. partial[k] \subseteq 1..L
      BY <1>1 DEF Writing
    <3> QED
      BY <1>2, <2>1, <2>3, <3>1, <3>2
  <2>5. open[k] = {p} => open[k] # {}
    OBVIOUS
  <2>6. \A q \in 1..Len(kids[k]) : AskedLines(kids[k][q], log'[k], partial'[k], {})
    <3> SUFFICES ASSUME NEW q \in 1..Len(kids[k])
                 PROVE  AskedLines(kids[k][q], log'[k], partial'[k], {})
      OBVIOUS
    <3>1. AskedLines(kids[k][q], log[k], partial[k], open[k]) /\ kids[k][q] \in Process
      BY <1>1, <1>2 DEF Writing
    <3>2. Grows(log[k], log'[k], partial[k], partial'[k], open[k], {})
      BY <2>1, <2>4, <2>5 DEF Grows
    <3> QED
      BY <1>2, <3>1, <3>2, AskedKept
  <2>7. AskedLines(kid, log'[k], partial'[k], {})
    <3>1. CASE kid.asked = old.asked
      BY <2>1, <2>6, <3>1 DEF AskedLines
    <3>2. CASE kid.asked = Append(old.asked, b) /\ kid.asked # old.asked
      <4>1. \A i \in 1..Len(old.asked) : old.asked[i] < b
        BY <2>1, <2>2 DEF AskedLines
      <4>2. b \in 1..Len(log'[k])
        BY <1>2, <2>1, <2>3, <2>4
      <4>3. b \notin partial'[k] => log'[k][b] = "question"
        BY <2>1, <2>3, <3>2
      <4> DEFINE before == [old EXCEPT !.begun = 0]
      <4>4. before \in Process /\ before.asked = old.asked /\ before.begun = 0
        BY <2>2 DEF Process
      <4>5. AskedLines(before, log'[k], partial'[k], {})
        BY <2>6, <4>4 DEF AskedLines
      <4> HIDE DEF before, old
      <4> QED
        BY <1>2, <2>1, <2>2, <3>2, <4>1, <4>2, <4>3, <4>4, <4>5, AskedOneMore
    <3> QED
      BY <2>1, <3>1, <3>2
  <2>8. BegunLine(kid, p, log'[k], partial'[k], open'[k])
    BY <2>1 DEF BegunLine
  <2>9. ASSUME NEW q \in 1..Len(kids[k]), q # p
        PROVE  BegunLine(kids[k][q], q, log'[k], partial'[k], open'[k])
    <3>1. /\ BegunLine(kids[k][q], q, log[k], partial[k], open[k])
          /\ kids[k][q] \in Process /\ partial[k] \subseteq 1..Len(log[k])
      BY <1>1, <1>2 DEF Writing
    <3>2. GrowsBy(p, log[k], log'[k], partial[k], partial'[k], open[k], open'[k])
      BY <2>1, <2>4 DEF GrowsBy
    <3> QED
      BY <1>2, <2>1, <2>9, <3>1, <3>2, BegunKept
  <2> HIDE DEF old, b
  <2> QED
    BY <1>5, <2>1, <2>4, <2>6, <2>7, <2>8, <2>9
<1> QED
  BY <1>3, <1>4, <1>6, <1>7, <1>8, StepsOfKey

-----------------------------------------------------------------------------
\* Without a crash no entry goes away.
LEMMA KnownStays ==
    ASSUME TypeOK, [Next]_vars, pc # "down", crashes' = 0
    PROVE  pc' # "down" /\ \A k \in Keys : Known(k) => Known(k)'
<1> DEFINE Goal == pc' # "down" /\ \A k \in Keys : Known(k) => Known(k)'
<1> USE DEF Known
<1>1. crashes \in Nat /\ (crashes' = crashes + 1 => crashes' # 0)
  BY DEF TypeOK
<1>2. ASSUME NEW j \in Keys, LaunchSpawn(j) PROVE Goal
  BY <1>2 DEF LaunchSpawn, TypeOK
<1>3. ASSUME NEW j \in Keys, Drain(j) PROVE Goal
  BY <1>3, DrainEffect
<1>4. ASSUME NEW j \in Keys, Reap(j) PROVE Goal
  BY <1>4, ReapEffect
<1>5. ASSUME NEW j \in Keys, StopFinish(j) PROVE Goal
  BY <1>5, StopEffect
<1>6. ASSUME NEW ev \in inbox, Ack(ev) PROVE Goal
  BY <1>6, AckEffect
<1>7. CASE Crash \/ Close \/ Open
  BY <1>1, <1>7 DEF Crash, Close, Forgotten, Open
<1>8. ASSUME NEW j \in Keys, NEW p \in DOMAIN kids[j], WorkerStep(j, p) PROVE Goal
  BY <1>8, WorkerFrame
<1>9. CASE UNCHANGED entries /\ pc' # "down"
  BY <1>9
<1> QED
  BY <1>2, <1>3, <1>4, <1>5, <1>6, <1>7, <1>8, <1>9
     DEF Next, Coordinator, Caller, Worker, LaunchFlush, PollStart, PollEmpty, PollFlush,
         PollReturn, Reply, StopSignal, StopRefused, vars, memory

\* The one process of a key begins a line.
LEMMA ExactBegin ==
    ASSUME NEW old \in Process, NEW kid \in Process, old.begun = 0, kid.asked = old.asked,
           NEW s \in Seq(AllKinds), NEW t \in Seq(AllKinds),
           Len(t) = Len(s) + 1, \A n \in 1..Len(s) : t[n] = s[n], kid.begun = Len(t),
           NEW m, m \subseteq 1..Len(s), NEW p,
           ExactKid(old, s, m, {}), AskedLines(old, s, m, {})
    PROVE  ExactKid(kid, t, m \cup {Len(s) + 1}, {p})
<1>1. Len(s) \in Nat /\ Len(t) \in Nat /\ kid.begun # 0
  BY DEF Process
<1>2. m = {}
  BY <1>1 DEF ExactKid
<1>3. Q(s, Len(s)) = Len(old.asked) /\ \A i \in 1..Len(old.asked) : Q(s, old.asked[i]) = i
  BY DEF ExactKid
<1>4. ASSUME NEW n \in Nat, n <= Len(s) PROVE Q(t, n) = Q(s, n)
  <2>1. \A i \in 1..n : t[i] = s[i]
    BY <1>1, <1>4
  <2> QED
    BY <2>1, QPrefix
<1>5. \A i \in 1..Len(old.asked) : old.asked[i] \in 1..Len(s)
  BY DEF AskedLines
<1>6. \A i \in 1..Len(old.asked) : old.asked[i] \in Nat /\ old.asked[i] <= Len(s)
  BY <1>1, <1>5
<1>7. \A i \in 1..Len(old.asked) : Q(t, old.asked[i]) = i
  BY <1>3, <1>4, <1>6
<1>8. Q(t, Len(t) - 1) = Len(old.asked)
  BY <1>1, <1>3, <1>4
<1> QED
  BY <1>1, <1>2, <1>7, <1>8 DEF ExactKid

\* It ends the line, and that is the last one.
LEMMA ExactEnd ==
    ASSUME NEW old \in Process, NEW kid \in Process, NEW s \in Seq(AllKinds),
           NEW b, b = old.begun, b = Len(s), b # 0, kid.begun = 0,
           kid.asked = IF s[b] = "question" THEN Append(old.asked, b) ELSE old.asked,
           NEW m, NEW w, ExactKid(old, s, m, w)
    PROVE  ExactKid(kid, s, m \ {b}, {})
<1>1. Len(s) \in Nat /\ b \in Nat /\ b - 1 \in Nat /\ b - 1 < b
  OBVIOUS
<1>2. /\ Q(s, b - 1) = Len(old.asked) /\ \A i \in 1..Len(old.asked) : Q(s, old.asked[i]) = i
      /\ m \subseteq {b}
  BY DEF ExactKid
<1>3. CASE s[b] = "question"
  <2>1. \A n \in ((b - 1) + 1)..(b - 1) : s[n] # "question"
    BY <1>1
  <2>2. Q(s, b) = Q(s, b - 1) + 1
    BY <1>1, <1>3, <2>1, QLess
  <2>3. /\ Len(kid.asked) = Len(old.asked) + 1 /\ kid.asked[Len(old.asked) + 1] = b
        /\ \A i \in 1..Len(old.asked) : kid.asked[i] = old.asked[i]
        /\ Len(old.asked) \in Nat
    BY <1>1, <1>3, AppendProperties DEF Process
  <2>4. \A i \in 1..Len(kid.asked) : i \in 1..Len(old.asked) \/ i = Len(old.asked) + 1
    BY <2>3
  <2>5. \A i \in 1..Len(kid.asked) : Q(s, kid.asked[i]) = i
    BY <1>2, <2>2, <2>3, <2>4
  <2>6. Q(s, Len(s)) = Len(kid.asked)
    BY <1>2, <2>2, <2>3
  <2> QED
    BY <1>2, <2>5, <2>6 DEF ExactKid
<1>4. CASE s[b] # "question"
  <2>1. \A n \in ((b - 1) + 1)..b : s[n] # "question"
    BY <1>1, <1>4
  <2>2. Q(s, b - 1) = Q(s, b)
    BY <1>1, <2>1, QSame
  <2> QED
    BY <1>2, <1>4, <2>2 DEF ExactKid
<1> QED
  BY <1>3, <1>4

\* Without a crash a key keeps its one process.
LEMMA OneProcessStep ==
    ASSUME TypeOK, TypeOK', WritingInv, OneProcess, [Next]_vars
    PROVE  OneProcess'
<1> SUFFICES ASSUME crashes' = 0 PROVE OneProcess'
  BY DEF OneProcess
<1>1. crashes = 0 /\ pc # "down" /\ \A k \in Keys : Single(k)
  BY CountersGrow DEF OneProcess
<1>2. pc' # "down" /\ \A k \in Keys : Known(k) => Known(k)'
  BY <1>1, KnownStays
<1> SUFFICES ASSUME NEW k \in Keys PROVE Single(k)'
  BY <1>2 DEF OneProcess
<1>3. /\ Single(k) /\ Writing(k)
      /\ kids[k] \in Seq(Process) /\ Len(kids[k]) \in Nat
      /\ log[k] \in Seq(AllKinds) /\ Len(log[k]) \in Nat
      /\ \A p \in 1..Len(kids[k]) : kids[k][p] \in Process
  BY <1>1, ElementOfSeq DEF WritingInv, TypeOK
<1>4. CASE /\ kids'[k] = kids[k]
           /\ log'[k] = log[k] /\ partial'[k] = partial[k] /\ open'[k] = open[k]
  BY <1>2, <1>3, <1>4 DEF Single
<1>5. CASE LaunchSpawn(k)
  <2>1. /\ log'[k] = log[k] /\ partial'[k] = partial[k] /\ open'[k] = open[k]
        /\ kids'[k] = Append(kids[k], Started) /\ Known(k)' /\ ~Known(k)
    BY <1>5 DEF LaunchSpawn, TypeOK, files, written, Known
  <2>2. /\ Len(kids[k]) = 0 /\ log[k] = <<>> /\ partial[k] = {} /\ open[k] = {}
    BY <1>3, <2>1 DEF Single
  <2>3. Started \in Process /\ Started.begun = 0 /\ Started.asked = <<>>
    BY DEF Started, Process
  <2>4. Len(kids'[k]) = 1 /\ kids'[k][1] = Started
    BY <1>3, <2>1, <2>2, <2>3, AppendProperties
  <2>5. ExactKid(Started, <<>>, {}, {})
    <3>1. Asked(<<>>, 0) = {}
      BY DEF Asked
    <3>2. Q(<<>>, 0) = 0
      BY <3>1, FS_EmptySet DEF Q
    <3> QED
      BY <2>3, <3>2 DEF ExactKid
  <2> QED
    BY <2>1, <2>2, <2>4, <2>5 DEF Single
<1>6. ASSUME NEW p \in 1..Len(kids[k]), NEW kid \in Process,
             kids'[k] = [kids[k] EXCEPT ![p] = kid],
             kid.alive => ExactKid(kid, log'[k], partial'[k], open'[k])
      PROVE  Single(k)'
  <2>1. p = 1 /\ Len(kids[k]) = 1
    <3>1. Len(kids[k]) <= 1 /\ Len(kids[k]) \in Nat
      BY <1>3 DEF Single
    <3>2. \A n \in Nat : n <= 1 => \A q \in 1..n : q = 1 /\ n = 1
      OBVIOUS
    <3> QED
      BY <3>1, <3>2
  <2>2. Len(kids'[k]) = 1 /\ kids'[k][1] = kid
    BY <1>3, <1>6, <2>1, ExceptSeq
  <2>3. Known(k)'
    BY <1>2, <1>3, <2>1 DEF Single
  <2>4. \A q \in 1..Len(kids'[k]) : q = 1
    BY <2>2
  <2> QED
    BY <1>6, <2>2, <2>3, <2>4 DEF Single
<1>7. ASSUME NEW p \in 1..Len(kids[k]), NEW kid \in Process,
             kids'[k] = [kids[k] EXCEPT ![p] = kid], Quiet(kid, kids[k][p]),
             log'[k] = log[k], partial'[k] = partial[k], open'[k] = open[k]
      PROVE  Single(k)'
  <2>1. kid.alive => ExactKid(kid, log[k], partial[k], open[k])
    BY <1>3, <1>7 DEF Single, Quiet, ExactKid
  <2> QED
    BY <1>6, <1>7, <2>1
<1>8. ASSUME NEW p \in 1..Len(kids[k]), ChildBegin(k, p) PROVE Single(k)'
  <2>1. PICK kid \in Process :
             /\ kids'[k] = [kids[k] EXCEPT ![p] = kid]
             /\ kids[k][p].alive /\ kids[k][p].begun = 0
             /\ kid.alive /\ kid.asked = kids[k][p].asked /\ kid.begun = Len(log'[k])
             /\ log'[k] \in Seq(AllKinds)
             /\ \A n \in 1..Len(log[k]) : log'[k][n] = log[k][n]
             /\ \/ /\ open[k] = {} /\ open'[k] = {p}
                   /\ Len(log'[k]) = Len(log[k]) + 1
                   /\ partial'[k] = partial[k] \cup {Len(log[k]) + 1}
                \/ /\ open[k] # {} /\ open'[k] = open[k] \cup {p}
                   /\ log'[k] = log[k] /\ partial'[k] = partial[k]
    BY <1>8, BeginEffect
  <2>2. /\ ExactKid(kids[k][p], log[k], partial[k], open[k])
        /\ AskedLines(kids[k][p], log[k], partial[k], open[k])
        /\ partial[k] \subseteq 1..Len(log[k])
    BY <1>3, <2>1 DEF Single, Writing
  <2>3. open[k] = {}
    BY <2>1, <2>2 DEF ExactKid
  <2>4. ExactKid(kid, log'[k], partial'[k], open'[k])
    <3> DEFINE old == kids[k][p]
               s == log[k]
               t == log'[k]
               m == partial[k]
    <3>1. ExactKid(old, s, m, {}) /\ AskedLines(old, s, m, {}) /\ m \subseteq 1..Len(s)
      BY <2>2, <2>3
    <3>2. old \in Process /\ s \in Seq(AllKinds) /\ t \in Seq(AllKinds)
      BY <1>3, <2>1
    <3>3. /\ old.begun = 0 /\ kid.asked = old.asked /\ kid.begun = Len(t)
          /\ Len(t) = Len(s) + 1 /\ \A n \in 1..Len(s) : t[n] = s[n]
          /\ partial'[k] = m \cup {Len(s) + 1} /\ open'[k] = {p}
      BY <2>1, <2>3
    <3> HIDE DEF old, s, t, m
    <3>4. ExactKid(kid, t, m \cup {Len(s) + 1}, {p})
      BY <3>1, <3>2, <3>3, ExactBegin
    <3>5. ExactKid(kid, t, partial'[k], open'[k])
      BY <3>3, <3>4
    <3> QED
      BY <3>5 DEF t
  <2> QED
    BY <1>6, <2>1, <2>4
<1>9. ASSUME NEW p \in 1..Len(kids[k]), ChildEnd(k, p) PROVE Single(k)'
  <2> DEFINE old == kids[k][p]
             b == old.begun
  <2>1. PICK kid \in Process :
             /\ kids'[k] = [kids[k] EXCEPT ![p] = kid]
             /\ old.alive /\ b # 0
             /\ kid.alive /\ kid.begun = 0
             /\ log'[k] \in Seq(AllKinds) /\ Len(log'[k]) >= Len(log[k])
             /\ \A n \in 1..Len(log[k]) : log'[k][n] = log[k][n]
             /\ open'[k] = {}
             /\ \/ /\ open[k] = {p} /\ log'[k] = log[k] /\ partial'[k] = partial[k] \ {b}
                   /\ kid.asked = IF log[k][b] = "question" THEN Append(old.asked, b) ELSE old.asked
                \/ /\ open[k] # {p} /\ partial'[k] = partial[k]
                   /\ kid.asked \in {old.asked, Append(old.asked, b)}
    BY <1>9, EndEffect
  <2>2. ExactKid(old, log[k], partial[k], open[k]) /\ old \in Process
    BY <1>3, <2>1 DEF Single
  <2>3. b = Len(log[k]) /\ open[k] = {p}
    <3>1. b = Len(log[k]) /\ open[k] # {}
      BY <2>1, <2>2 DEF ExactKid
    <3>2. open[k] \subseteq 1..Len(kids[k]) /\ 1..Len(kids[k]) = {p}
      BY <1>3 DEF Single, Writing
    <3> QED
      BY <3>1, <3>2
  <2>4. ExactKid(kid, log'[k], partial'[k], open'[k])
    <3> DEFINE s == log[k]
               m == partial[k]
    <3>1. /\ ExactKid(old, s, m, {p}) /\ old \in Process /\ s \in Seq(AllKinds)
          /\ b = Len(s) /\ b # 0 /\ kid.begun = 0
          /\ kid.asked = IF s[b] = "question" THEN Append(old.asked, b) ELSE old.asked
      BY <1>3, <2>1, <2>2, <2>3
    <3>2. partial'[k] = m \ {b} /\ log'[k] = s /\ open'[k] = {}
      BY <2>1, <2>3
    <3>3. b = old.begun
      OBVIOUS
    <3> HIDE DEF s, m, b, old
    <3>4. ExactKid(kid, s, m \ {b}, {})
      BY <3>1, <3>3, ExactEnd
    <3> QED
      BY <3>2, <3>4
  <2> QED
    BY <1>6, <2>1, <2>4
<1> QED
  BY <1>4, <1>5, <1>7, <1>8, <1>9, StepsOfKey

\* The reply a worker takes is counted with the question it asks.
LEMMA AnswersMatchStep ==
    ASSUME TypeOK, MissedIsRead, WritingInv, OneProcess, \A k \in Keys \ torn : TokensCount(k),
           AnswersMatch, faults = 0, [Next]_vars
    PROVE  AnswersMatch'
<1> USE DEF history, seen, files, written
<1>1. (crashes' = 0 => crashes = 0) /\ torn \subseteq torn'
  BY CountersGrow
<1>2. CASE answers' = answers
  BY <1>1, <1>2 DEF AnswersMatch
<1>3. ASSUME NEW k \in Keys, NEW p \in DOMAIN kids[k], ChildReadReply(k, p) PROVE AnswersMatch'
  <2> DEFINE kid == kids[k][p]
             n == kid.read + 1
             line == kid.asked[n]
             token == replies[k][n]
  <2>1. kid \in Process /\ p \in 1..Len(kids[k]) /\ Len(replies[k]) \in Nat
        /\ Len(log[k]) \in Nat
    BY ElementOfSeq DEF TypeOK
  <2>2. /\ kid.alive /\ kid.begun = 0 /\ n \in 1..Len(kid.asked) /\ n \in 1..Len(replies[k])
        /\ answers' = answers \cup {<<k, line, token>>}
        /\ n \in Nat
    BY <1>3, <2>1 DEF ChildReadReply, Process
  <2>3. AskedLines(kid, log[k], partial[k], open[k])
    BY <2>1 DEF WritingInv, Writing
  <2>4. crashes = 0 => ExactKid(kid, log[k], partial[k], open[k])
    BY <2>1, <2>2 DEF OneProcess, Single
  <2>5. /\ line \in 1..Len(log[k])
        /\ line \notin partial[k] => log[k][line] = "question"
        /\ partial[k] \cap 1..line = {} => n <= Q(log[k], line)
    BY <2>2, <2>3 DEF AskedLines
  <2>6. crashes = 0 => Q(log[k], line) = n /\ line \notin partial[k]
    BY <2>1, <2>2, <2>4, <2>5 DEF ExactKid
  <2>7. ASSUME k \notin torn
        PROVE  token <= line /\ (crashes = 0 => token = line)
    <3>1. /\ token \in Asked(log[k], Len(log[k])) /\ Matched(Q(log[k], token), n, crashes)
          /\ Clean(k, token)
      BY <2>2, <2>7 DEF TokensCount
    <3> HIDE DEF line, n, token, kid
    <3>2. token \in Nat /\ log[k][token] = "question" /\ line \in Nat
      BY <2>1, <2>5, <3>1 DEF Asked
    <3>3. Q(log[k], token) \in Nat /\ Q(log[k], line) \in Nat
      BY <3>2, QNat
    <3>4. ~(line < token)
      <4> SUFFICES ASSUME line < token PROVE FALSE
        OBVIOUS
      <4>1. Q(log[k], line) < Q(log[k], token)
        BY <3>2, QLess
      <4>2. 1..line \subseteq 1..token
        BY <3>2
      <4>3. partial[k] \cap 1..line = {}
        BY <3>1, <4>2 DEF Clean
      <4> QED
        BY <2>2, <2>5, <3>1, <3>3, <4>1, <4>3 DEF Matched
    <3>5. crashes = 0 => ~(token < line)
      <4> SUFFICES ASSUME crashes = 0, token < line PROVE FALSE
        OBVIOUS
      <4>1. log[k][line] = "question" /\ Q(log[k], line) = n
        BY <2>5, <2>6
      <4>2. Q(log[k], token) < Q(log[k], line)
        BY <3>2, <4>1, QLess
      <4> QED
        BY <2>2, <3>1, <3>3, <4>1, <4>2 DEF Matched
    <3> QED
      BY <3>2, <3>4, <3>5
  <2> HIDE DEF line, token, n, kid
  <2>8. <<k, line, token>>[1] = k /\ <<k, line, token>>[2] = line /\ <<k, line, token>>[3] = token
    OBVIOUS
  <2>9. k \notin torn' => k \notin torn
    BY <1>1
  <2> QED
    BY <1>1, <2>2, <2>7, <2>8, <2>9 DEF AnswersMatch
<1>4. ASSUME NEW k \in Keys, NEW p \in DOMAIN kids[k], WorkerStep(k, p), ~ChildReadReply(k, p)
      PROVE  answers' = answers
  BY <1>4 DEF WorkerStep, ChildBegin, ChildEnd, ChildExit, PidReused, PidFreed
<1> QED
  BY <1>2, <1>3, <1>4
     DEF Next, Coordinator, Caller, Worker, LaunchSpawn, LaunchFlush, PollStart, Drain, Reap,
         PollEmpty, PollFlush, PollReturn, Reply, Ack, StopSignal, StopFinish, StopRefused, Crash,
         Close, Forgotten, Open, vars

LEMMA AnswerInvInit == Init => AnswerInv
<1> SUFFICES ASSUME Init PROVE AnswerInv
  OBVIOUS
<1>1. /\ Asked(<<>>, 0) = {} /\ Q(<<>>, 0) = 0
  <2>1. Asked(<<>>, 0) = {}
    BY DEF Asked
  <2> QED
    BY <2>1, FS_EmptySet DEF Q
<1>2. \A k \in Keys : AcksReplied(k) /\ TokensCount(k)
  BY <1>1 DEF Init, Absent, AcksReplied, TokensCount
<1>3. WritingInv /\ OneProcess
  BY DEF Init, WritingInv, Writing, OneProcess, Single, Known, Absent
<1> QED
  BY <1>2, <1>3 DEF Init, Absent, AnswerInv, EventsAreLines, UnackedInHand, RepliedIsFirst,
                    AnswersMatch, Polling

LEMMA AnswerInvStep ==
    ASSUME IInv, IInv', AnswerInv, [Next]_vars
    PROVE  AnswerInv'
<1>1. /\ TypeOK /\ TypeOK' /\ Bookkeeping /\ AckedIsRead /\ InFlightIsRead /\ NoAckedReplay
      /\ MissedIsRead
  BY DEF IInv
<1>2. WritingInv /\ OneProcess
  BY DEF AnswerInv
<1>3. WritingInv' /\ OneProcess'
  BY <1>1, <1>2, WritingStep, OneProcessStep
<1> SUFFICES ASSUME faults' = 0 PROVE AnswerInv'
  BY <1>3 DEF AnswerInv
<1>4. faults = 0 /\ torn \subseteq torn'
  BY <1>1, CountersGrow
<1>5. /\ EventsAreLines /\ UnackedInHand /\ RepliedIsFirst /\ AnswersMatch
      /\ \A k \in Keys \ torn : AcksReplied(k) /\ TokensCount(k)
  BY <1>4 DEF AnswerInv
<1>6. EventsAreLines' /\ UnackedInHand' /\ RepliedIsFirst'
  BY <1>1, <1>5, EventsAreLinesStep, UnackedInHandStep, RepliedIsFirstStep
<1>7. \A k \in Keys \ torn : AcksReplied(k)' /\ TokensCount(k)'
  BY <1>1, <1>2, <1>5, AcksRepliedStep, TokensStep
<1>8. AnswersMatch'
  BY <1>1, <1>2, <1>4, <1>5, AnswersMatchStep
<1> QED
  BY <1>3, <1>4, <1>6, <1>7, <1>8 DEF AnswerInv

\* A worker reads replies without their tokens, and however many questions it has open
\* never takes the answer to a later question for that of an earlier one, while ledger
\* writes go through and no line of it was read half written; in a session that never
\* crashed each question gets its own answer.
THEOREM AnswersMatchAlways == Spec => []AnswersMatch
<1>1. IInv /\ IInv' /\ AnswerInv /\ [Next]_vars => AnswerInv'
  BY AnswerInvStep
<1>2. AnswerInv => AnswersMatch
  BY DEF AnswerInv, AnswersMatch
<1> QED
  BY <1>1, <1>2, AnswerInvInit, IInvariant, PTL DEF Spec

-----------------------------------------------------------------------------
(***************************************************************************)
(* The refinement: the session implements EventFeed.  Its position in a    *)
(* file is the cursor but for what a poll has collected and not returned   *)
(* yet, and that is all that lies between the two (Collected).             *)
(***************************************************************************)

\* What is collected of a worker are all lines from some line to its cursor but the
\* missed ones; of a worker yet to be drained there are none.
Collected ==
    /\ pc = "drain" => \A k \in todo : Unreturned(k) = {}
    /\ \A k \in Keys : \E a \in 0..cursors[k] :
         Unreturned(k) = Feed!Whole(log[k], a, cursors[k]) \ missed[k]

\* LastBefore is what it says.
LEMMA LastBeforeIs ==
    ASSUME NEW c \in Nat, NEW lines \in SUBSET Nat, 0 \notin lines
    PROVE  /\ LastBefore(c, lines) \in 0..c
           /\ \A m \in lines : LastBefore(c, lines) < m
           /\ \A o \in 0..c : (\A m \in lines : o < m) => o <= LastBefore(c, lines)
<1> DEFINE S == {n \in 0..c : \A m \in lines : n < m}
<1>1. 0 \in S /\ S \in SUBSET Nat /\ \A n \in S : n <= c
  OBVIOUS
<1>2. \E n \in S : \A o \in S : o <= n
  BY <1>1, BoundedMax
<1>3. \E n \in 0..c : /\ \A m \in lines : n < m
                      /\ \A o \in 0..c : (\A m \in lines : o < m) => o <= n
  BY <1>2
<1> QED
  BY <1>3 DEF LastBefore

\* With nothing before it, it is the last line.
LEMMA LastOfNone ==
    ASSUME NEW c \in Nat
    PROVE  LastBefore(c, {}) = c
<1>1. LastBefore(c, {}) \in 0..c /\ c <= LastBefore(c, {})
  BY LastBeforeIs
<1> QED
  BY <1>1

\* The lines between a and c but for those of x.
Rest(s, a, c, x) == Feed!Whole(s, a, c) \ x

\* They are those between the last line before them and c, and up to it there are none.
LEMMA LastBeforeSplits ==
    ASSUME NEW s, NEW c \in Nat, NEW a \in 0..c, NEW x,
           NEW lines, lines = Rest(s, a, c, x),
           NEW p, p = LastBefore(c, lines)
    PROVE  /\ p \in a..c
           /\ Rest(s, a, p, x) = {}
           /\ Rest(s, p, c, x) = lines
<1> USE DEF Rest
<1>1. lines \in SUBSET Nat /\ 0 \notin lines /\ \A m \in lines : a < m /\ m <= c
  BY DEF Feed!Whole
<1>2. /\ p \in 0..c /\ \A m \in lines : p < m
      /\ \A o \in 0..c : (\A m \in lines : o < m) => o <= p
  BY <1>1, LastBeforeIs
<1>3. a <= p
  BY <1>1, <1>2
<1>4. Rest(s, a, p, x) = {}
  BY <1>2 DEF Feed!Whole
<1>5. Rest(s, p, c, x) = lines
  BY <1>2, <1>3 DEF Feed!Whole
<1> QED
  BY <1>2, <1>3, <1>4, <1>5

\* What a drain collects of a worker: the lines it does not miss.
LEMMA NewLines ==
    ASSUME TypeOK, MissedIsRead, NEW k \in Keys, Drain(k)
    PROVE  /\ LinesOf(NewEvents(k, Text(k), cursors[k]), k)
                = Feed!Whole(log[k], cursors[k], Len(log[k])) \ missed'[k]
           /\ \A j \in Keys \ {k} : LinesOf(NewEvents(k, Text(k), cursors[k]), j) = {}
<1> DEFINE new == NewEvents(k, Text(k), cursors[k])
<1>1. /\ Text(k) \in Seq(AllKinds) /\ Len(Text(k)) = Len(log[k])
      /\ \A n \in 1..Len(log[k]) :
           Text(k)[n] = IF n \in partial[k] THEN "junk" ELSE log[k][n]
  BY TextType
<1>2. cursors[k] \in Nat /\ Len(log[k]) \in Nat /\ pc = "drain"
      /\ missed'[k] = missed[k] \cup Half(k)
  <2>1. cursors[k] \in Nat /\ Len(log[k]) \in Nat
    BY DEF TypeOK
  <2>2. pc = "drain" /\ missed'[k] = missed[k] \cup Half(k)
    BY DrainEffect
  <2> QED
    BY <2>1, <2>2
<1>3. \A n \in (cursors[k] + 1)..Len(log[k]) : n \in missed'[k] <=> n \in partial[k]
  BY <1>2 DEF MissedIsRead, Reach, Half
<1>4. \A n \in (cursors[k] + 1)..Len(log[k]) :
        Text(k)[n] # "junk" <=> log[k][n] # "junk" /\ n \notin missed'[k]
  BY <1>1, <1>2, <1>3
<1>5. LinesOf(new, k) \subseteq Feed!Whole(log[k], cursors[k], Len(log[k])) \ missed'[k]
  BY <1>1, <1>4 DEF LinesOf, NewEvents, Feed!Whole
<1>6. Feed!Whole(log[k], cursors[k], Len(log[k])) \ missed'[k] \subseteq LinesOf(new, k)
  BY <1>1, <1>2, <1>4, NewEventsType DEF Feed!Whole
<1>7. \A j \in Keys \ {k} : LinesOf(new, j) = {}
  BY DEF LinesOf, NewEvents
<1> QED
  BY <1>5, <1>6, <1>7

\* A file that grows keeps its whole lines.
LEMMA WholeKept ==
    ASSUME TypeOK, [Next]_vars, NEW k \in Keys, NEW a \in Nat, NEW b \in Nat, b <= Len(log[k])
    PROVE  Feed!Whole(log'[k], a, b) = Feed!Whole(log[k], a, b)
<1>1. \A n \in 1..Len(log[k]) : log'[k][n] = log[k][n]
  BY LogEffect
<1>2. Len(log[k]) \in Nat
  BY DEF TypeOK
<1> QED
  BY <1>1, <1>2 DEF Feed!Whole

\* Without a batch nothing is collected.
LEMMA NoBatch ==
    ASSUME NEW k \in Keys
    PROVE  batch = {} => Unreturned(k) = {}
BY DEF Unreturned, LinesOf

\* At the start nothing is collected and the cursor is at 0.
LEMMA CollectedInit == Init => Collected
<1>1. ASSUME Init, NEW k \in Keys 
      PROVE  \E a \in 0..cursors[k] :
               Unreturned(k) = Feed!Whole(log[k], a, cursors[k]) \ missed[k]
  <2>1. cursors[k] = 0 /\ 0 \in 0..cursors[k] /\ batch = {}
    BY <1>1 DEF Init
  <2>2. Feed!Whole(log[k], 0, cursors[k]) = {}
    BY <2>1 DEF Feed!Whole
  <2> QED
    BY <2>1, <2>2, NoBatch
<1> QED
  BY <1>1 DEF Collected, Init

\* A drain collects from the cursor on; what returns or loses a batch leaves none.
LEMMA CollectedStep ==
    ASSUME IInv, IInv', Collected, [Next]_vars
    PROVE  Collected'
<1>1. TypeOK /\ TypeOK' /\ Bookkeeping /\ Bookkeeping' /\ AckedIsRead /\ MissedIsRead
  BY DEF IInv
<1>2. \A k \in Keys : /\ cursors[k] \in Nat /\ cursors'[k] \in Nat
                       /\ log[k] \in Seq(AllKinds) /\ Len(log[k]) \in Nat
  BY <1>1 DEF TypeOK
<1>3. ASSUME batch' = {} PROVE Collected'
  <2>1. todo' \subseteq Keys
    BY <1>1 DEF TypeOK
  <2>2. \A k \in Keys : Unreturned(k)' = {}
    BY <1>3 DEF Unreturned, LinesOf
  <2>3. \A k \in Keys : cursors'[k] \in 0..cursors'[k] /\ Feed!Whole(log'[k], cursors'[k], cursors'[k]) = {}
    BY <1>2 DEF Feed!Whole
  <2> QED
    BY <2>1, <2>2, <2>3 DEF Collected
\* Nothing more is collected, and the files only grow.
<1>4. ASSUME \A k \in Keys : Unreturned(k)' = Unreturned(k), UNCHANGED <<cursors, missed>>, pc # "down",
             pc' = "drain" => pc = "drain" /\ todo' = todo
      PROVE  Collected'
  <2>1. ASSUME NEW k \in Keys
        PROVE  \E a \in 0..cursors'[k] :
                 Unreturned(k)' = Feed!Whole(log'[k], a, cursors'[k]) \ missed'[k]
    <3>1. PICK a \in 0..cursors[k] : Unreturned(k) = Feed!Whole(log[k], a, cursors[k]) \ missed[k]
      BY DEF Collected
    <3>2. cursors[k] <= Len(log[k]) /\ a \in Nat
      BY <1>1, <1>2, <1>4 DEF AckedIsRead
    <3>3. Feed!Whole(log'[k], a, cursors[k]) = Feed!Whole(log[k], a, cursors[k])
      BY <1>1, <1>2, <3>2, WholeKept
    <3> QED
      BY <1>4, <3>1, <3>3
  <2>2. todo \subseteq Keys
    BY <1>1 DEF TypeOK
  <2>3. pc' = "drain" => \A k \in todo' : Unreturned(k)' = {}
    BY <1>4, <2>2 DEF Collected
  <2> QED
    BY <2>1, <2>3 DEF Collected
<1>5. ASSUME NEW k \in Keys, Drain(k) PROVE Collected'
  <2>1. /\ batch' = batch \cup NewEvents(k, Text(k), cursors[k]) /\ log' = log
        /\ \A j \in Keys : cursors'[j] = IF j = k THEN Len(log[k]) ELSE cursors[j]
        /\ \A j \in Keys \ {k} : missed'[j] = missed[j]
        /\ pc = "drain" /\ k \in todo /\ cursors[k] <= Len(log[k])
    BY <1>1, <1>5, DrainEffect DEF AckedIsRead
  <2>2. \A j \in Keys : Unreturned(j)' = (LinesOf(batch, j) \cup LinesOf(NewEvents(k, Text(k), cursors[k]), j)) \ {0}
    BY <2>1 DEF Unreturned, LinesOf
  <2>3. Unreturned(k) = {}
    BY <2>1 DEF Collected
  <2>4. Unreturned(k)' = Feed!Whole(log[k], cursors[k], Len(log[k])) \ missed'[k]
    <3>1. 0 \notin Feed!Whole(log[k], cursors[k], Len(log[k]))
      BY <1>2 DEF Feed!Whole
    <3> QED
      BY <1>1, <1>5, <2>2, <2>3, <3>1, NewLines DEF Unreturned
  <2>5. \A j \in Keys \ {k} : Unreturned(j)' = Unreturned(j)
    BY <1>1, <1>5, <2>2, NewLines DEF Unreturned
  <2>6. pc' = "drain" => todo' = todo \ {k}
    BY <1>5 DEF Drain, Visited
  <2>7. \A j \in Keys : \E a \in 0..cursors'[j] :
          Unreturned(j)' = Feed!Whole(log'[j], a, cursors'[j]) \ missed'[j]
    BY <1>2, <2>1, <2>4, <2>5 DEF Collected
  <2>8. todo \subseteq Keys
    BY <1>1 DEF TypeOK
  <2>9. pc' = "drain" => \A j \in todo' : Unreturned(j)' = {}
    BY <2>1, <2>5, <2>6, <2>8 DEF Collected
  <2> QED
    BY <2>7, <2>9 DEF Collected
<1>6. ASSUME NEW k \in Keys, Reap(k) PROVE Collected'
  <2>1. UNCHANGED <<cursors, missed>> /\ pc = "reap" /\ pc' # "drain"
    BY <1>1, <1>6, ReapEffect
  <2>2. \A j \in Keys : Unreturned(j)' = Unreturned(j)
    BY <1>6 DEF Reap, _reap, Unreturned, LinesOf
  <2> QED
    BY <1>4, <2>1, <2>2
<1>7. CASE PollFlush
  <2>1. \/ batch' = {}
        \/ /\ batch' = batch /\ UNCHANGED <<cursors, missed>>
           /\ pc = "polled" /\ pc' = "return"
    BY <1>7 DEF PollFlush, seen
  <2>2. batch' = batch => \A j \in Keys : Unreturned(j)' = Unreturned(j)
    BY DEF Unreturned, LinesOf
  <2> QED
    BY <1>3, <1>4, <2>1, <2>2
<1>8. CASE UNCHANGED <<pc, todo, cursors, batch, missed>>
  <2>1. \A j \in Keys : Unreturned(j)' = Unreturned(j)
    BY <1>8 DEF Unreturned, LinesOf
  <2>2. pc = "down" => batch' = {}
    BY <1>1, <1>8 DEF Bookkeeping, Polling
  <2> QED
    BY <1>3, <1>4, <1>8, <2>1, <2>2
<1>9. ASSUME NEW k \in Keys, NEW q \in DOMAIN kids[k],
             WorkerStep(k, q)
      PROVE  Collected'
  BY <1>1, <1>8, <1>9, WorkerEffect
<1>10. CASE pc' \notin Polling \/ PollStart
  <2>1. batch' = {}
    BY <1>1, <1>10 DEF Bookkeeping, Polling, PollStart
  <2> QED
    BY <1>3, <2>1
<1> QED
  BY <1>5, <1>6, <1>7, <1>8, <1>9, <1>10
     DEF Next, Coordinator, Caller, Worker, LaunchSpawn, LaunchFlush, PollEmpty, PollReturn,
         Reply, Ack, StopSignal, StopFinish, StopRefused, Crash, Close, Forgotten, Open, vars,
         memory, history, seen, Polling

-----------------------------------------------------------------------------
\* An ack is of a line before all that is collected.
LEMMA BehindLast ==
    ASSUME NEW c \in Nat, NEW lines \in SUBSET Nat, 0 \notin lines, NEW n \in 0..c, \A m \in lines : n < m
    PROVE  n <= LastBefore(c, lines)
BY LastBeforeIs

\* Where the session stands in a file: between the acks on disk and the end of the
\* file, with nothing but what is collected between it and the cursor.
Standing(k) ==
    /\ ledger[k].acked_through \in Nat /\ cursors[k] \in Nat /\ Len(log[k]) \in Nat
    /\ Position(k) \in ledger[k].acked_through..Len(log[k])
    /\ pc # "down" =>
         /\ Position(k) <= cursors[k] /\ cursors[k] <= Len(log[k])
         /\ Unreturned(k) = Feed!Whole(log[k], Position(k), cursors[k]) \ missed[k]
         /\ entries[k].acked_through \in ledger[k].acked_through..Position(k)

\* Position is where the lines that were not returned yet begin, and no acknowledgement is beyond it.
LEMMA PositionIs ==
    ASSUME IInv, Collected, NEW k \in Keys
    PROVE  Standing(k)
<1> USE DEF Standing
<1>1. TypeOK /\ AckedIsRead /\ NoAckedReplay
  BY DEF IInv
<1>2. /\ entries[k].acked_through \in Nat /\ ledger[k].acked_through \in Nat
      /\ cursors[k] \in Nat /\ Len(log[k]) \in Nat
  BY <1>1, AckNumbers
<1>3. CASE pc = "down"
  BY <1>1, <1>2, <1>3 DEF Position, AckedIsRead
<1>4. CASE pc # "down"
  <2>1. PICK a \in 0..cursors[k] :
           Unreturned(k) = Rest(log[k], a, cursors[k], missed[k])
    BY DEF Collected, Rest
  <2>2. Position(k) = LastBefore(cursors[k], Unreturned(k))
    BY <1>4 DEF Position
  <2>3. /\ Position(k) \in a..cursors[k]
        /\ Unreturned(k) = Rest(log[k], Position(k), cursors[k], missed[k])
    <3>1. ASSUME NEW x, NEW lines, lines = Rest(log[k], a, cursors[k], x),
                 NEW p, p = LastBefore(cursors[k], lines)
          PROVE  p \in a..cursors[k] /\ Rest(log[k], p, cursors[k], x) = lines
      <4>1. cursors[k] \in Nat /\ a \in 0..cursors[k]
        BY <1>2
      <4> QED
        BY <3>1, <4>1, LastBeforeSplits
    <3> QED
      BY <2>1, <2>2, <3>1
  <2>4. Unreturned(k) \in SUBSET Nat /\ 0 \notin Unreturned(k)
    BY <1>2, <2>1 DEF Feed!Whole, Rest
  <2>5. \A m \in Unreturned(k) : ledger[k].acked_through < m /\ entries[k].acked_through < m
    BY <1>1, <1>2, <2>4 DEF NoAckedReplay, Unreturned
  <2>6. /\ ledger[k].acked_through \in 0..cursors[k]
        /\ entries[k].acked_through \in 0..cursors[k]
        /\ cursors[k] <= Len(log[k]) /\ ledger[k].acked_through <= entries[k].acked_through
    BY <1>1, <1>2, <1>4 DEF AckedIsRead
  <2>7. /\ ledger[k].acked_through <= Position(k)
        /\ entries[k].acked_through <= Position(k)
    BY <1>2, <2>2, <2>4, <2>5, <2>6, BehindLast
  <2> QED
    BY <1>2, <1>4, <2>3, <2>6, <2>7 DEF Rest
<1> QED
  BY <1>3, <1>4

\* The same of every worker, and of the next state.
LEMMA Stands == IInv /\ Collected => \A k \in Keys : Standing(k)
BY PositionIs

LEMMA StandsNext == (IInv /\ Collected)' => (\A k \in Keys : Standing(k))'
BY Stands, PTL

\* A step that leaves the position of every worker alone.
Stays == \A k \in Keys : Position(k)' = Position(k)

\* It stays where neither the cursor moves nor anything is collected.
LEMMA NothingRead ==
    ASSUME UNCHANGED <<cursors, batch>>, pc # "down", pc' # "down"
    PROVE  Stays
BY DEF Stays, Position, Unreturned, LinesOf

\* A step that leaves the positions and the ledger alone is none of the feed.
LEMMA FeedsNothing ==
    ASSUME Stays, UNCHANGED <<log, partial, missed, delivered, faults>>,
           \A k \in Keys : ledger'[k].acked_through = ledger[k].acked_through
    PROVE  UNCHANGED Feed!vars
BY DEF Feed!vars, Stays

\* A write of the ledger while nothing is collected, or of what was.
LEMMA FeedsRecord ==
    ASSUME IInv, IInv', Collected, Collected', [Next]_vars,
           Stays, UNCHANGED <<log, partial, missed, delivered>>,
           Flushed(entries') \/ FlushRaised, pc' # "down"
    PROVE  Feed!Record \/ Feed!Lose
<1>1. /\ \A k \in Keys : Standing(k)
      /\ \A k \in Keys : Standing(k)'
      /\ missed \in [Keys -> SUBSET Nat] /\ partial \in [Keys -> SUBSET Nat]
  BY Stands, StandsNext DEF IInv, TypeOK
<1>2. CASE Flushed(entries')
  <2>1. ASSUME NEW k \in Keys
        PROVE  ledger'[k].acked_through \in Nat /\ ledger'[k].acked_through \in ledger[k].acked_through..Position(k)
    BY <1>1, <1>2, AckGrows DEF Standing, Flushed, Stays
  <2> QED
    BY <1>2, <2>1 DEF Feed!Record, Feed!Recorded, Flushed, Stays
<1>3. CASE FlushRaised
  <2>1. ASSUME NEW k \in Keys
        PROVE  /\ Position(k) \in Nat /\ Position(k) \in Position(k)..Len(log[k])
               /\ \A n \in partial[k] : n \notin (Position(k) + 1)..Position(k)
    BY <1>1 DEF Standing
  <2> QED
    BY <1>1, <1>3, <2>1 DEF Feed!Lose, Feed!Onward, FlushRaised, Stays
<1> QED
  BY <1>2, <1>3

\* What a step forward of the session in one file has to keep to.
Advances(k) ==
    LET ahead  == {n \in partial[k] : n > Position(k)}
        passed == {n \in partial[k] : n \in (Position(k) + 1)..Position(k)'}
    IN  /\ Position(k)' \in Nat
        /\ Position(k)' \in Position(k)..Len(log[k])
        /\ missed[k] \cup passed \subseteq missed'[k]
        /\ missed'[k] \subseteq missed[k] \cup ahead

LEMMA GoesOn ==
    ASSUME TypeOK', \A k \in Keys : Advances(k)
    PROVE  Feed!Onward
<1>1. missed' \in [Keys -> SUBSET Nat]
  BY DEF TypeOK
<1> QED
  BY <1>1 DEF Advances, Feed!Onward

\* A file in which nothing happens.
LEMMA StandsStill ==
    ASSUME NEW k \in Keys, Standing(k), Position(k)' = Position(k), missed'[k] = missed[k]
    PROVE  Advances(k) /\ Feed!Whole(log[k], Position(k), Position(k)') = {}
<1>1. Position(k) \in Nat /\ Position(k) <= Len(log[k]) /\ Len(log[k]) \in Nat
  BY DEF Standing
<1>2. (Position(k) + 1)..Position(k) = {}
  BY <1>1
<1> QED
  BY <1>1, <1>2 DEF Advances, Feed!Whole

\* What a drain collects begins after where the session stood.
LEMMA DrainFeeds ==
    ASSUME IInv, IInv', Collected, Collected', [Next]_vars, NEW k \in Keys, Drain(k)
    PROVE  Feed!HandOut
<1>1. /\ \A j \in Keys : Standing(j)
      /\ \A j \in Keys : Standing(j)'
      /\ TypeOK /\ TypeOK' /\ MissedIsRead
  BY Stands, StandsNext DEF IInv
<1>2. /\ batch' = batch \cup NewEvents(k, Text(k), cursors[k])
      /\ \A j \in Keys : cursors'[j] = IF j = k THEN Len(log[k]) ELSE cursors[j]
      /\ \A j \in Keys : missed'[j] = IF j = k THEN missed[j] \cup Half(k) ELSE missed[j]
      /\ k \in todo /\ pc = "drain" /\ pc' \in {"drain", "reap"}
      /\ UNCHANGED <<ledger, log, partial, delivered, faults>>
  BY <1>1, DrainEffect
<1>3. cursors[k] \in Nat /\ Len(log[k]) \in Nat /\ cursors[k] <= Len(log[k])
  BY <1>1, <1>2 DEF Standing
<1>4. ASSUME NEW j \in Keys, j # k PROVE Position(j)' = Position(j)
  <2>1. Unreturned(j)' = Unreturned(j)
    <3>1. Unreturned(j)' = Unreturned(j) \cup (LinesOf(NewEvents(k, Text(k), cursors[k]), j) \ {0})
      BY <1>2 DEF Unreturned, LinesOf
    <3>2. LinesOf(NewEvents(k, Text(k), cursors[k]), j) = {}
      BY <1>1, <1>4, NewLines
    <3> QED
      BY <3>1, <3>2
  <2> QED
    BY <1>2, <1>4, <2>1 DEF Position
<1>5. /\ Position(k) = cursors[k]
      /\ Position(k)' \in Position(k)..Len(log[k])
      /\ Feed!Whole(log[k], Position(k), Position(k)') \ missed'[k] = {}
  <2>1. Unreturned(k) = {} /\ Position(k) = cursors[k]
    BY <1>2, <1>3, LastOfNone DEF Collected, Position
  <2>2. Unreturned(k)' = Feed!Whole(log[k], cursors[k], Len(log[k])) \ missed'[k]
    <3>1. Unreturned(k)' = Unreturned(k) \cup (LinesOf(NewEvents(k, Text(k), cursors[k]), k) \ {0})
      BY <1>2 DEF Unreturned, LinesOf
    <3>2. 0 \notin Feed!Whole(log[k], cursors[k], Len(log[k]))
      BY <1>3 DEF Feed!Whole
    <3> QED
      BY <1>1, <2>1, <3>1, <3>2, NewLines
  <2>3. Position(k)' = LastBefore(Len(log[k]), Unreturned(k)')
    BY <1>2 DEF Position
  <2> QED
    <3>1. cursors[k] \in 0..Len(log[k])
      BY <1>3
    <3>2. ASSUME NEW x, NEW lines, lines = Rest(log[k], cursors[k], Len(log[k]), x),
                 NEW p, p = LastBefore(Len(log[k]), lines)
          PROVE  p \in cursors[k]..Len(log[k]) /\ Rest(log[k], cursors[k], p, x) = {}
      BY <1>3, <3>1, <3>2, LastBeforeSplits
    <3>3. Unreturned(k)' = Rest(log[k], cursors[k], Len(log[k]), missed'[k])
      BY <2>2 DEF Rest
    <3>4. /\ Position(k)' \in cursors[k]..Len(log[k])
          /\ Rest(log[k], cursors[k], Position(k)', missed'[k]) = {}
      BY <2>3, <3>2, <3>3
    <3> QED
      BY <2>1, <3>4 DEF Rest
<1>6. Advances(k)
  <2>1. Position(k)' \in Nat /\ Position(k)' <= Len(log[k])
    BY <1>3, <1>5
  <2>2. /\ missed'[k] = missed[k] \cup Half(k)
        /\ Half(k) = {n \in partial[k] : n \in (cursors[k] + 1)..Len(log[k])}
    BY <1>2 DEF Half
  <2>3. \A n \in partial[k] : n \in (cursors[k] + 1)..Position(k)' => n \in Half(k)
    BY <1>3, <2>1, <2>2
  <2>4. \A n \in Half(k) : n \in partial[k] /\ n > cursors[k]
    BY <1>3, <2>2
  <2> QED
    BY <1>5, <2>1, <2>2, <2>3, <2>4 DEF Advances
<1>7. \A j \in Keys : /\ Advances(j)
                       /\ Feed!Whole(log[j], Position(j), Position(j)') \ missed'[j] = {}
  BY <1>1, <1>2, <1>4, <1>5, <1>6, StandsStill
<1>8. Feed!Onward
  BY <1>1, <1>7, GoesOn
<1> QED
  BY <1>2, <1>7, <1>8 DEF Feed!HandOut

\* A session that goes on to its cursors has missed what is not whole before them.
LEMMA ToCursor ==
    ASSUME MissedIsRead, NEW k \in Keys, Standing(k), pc # "down",
           Position(k)' = cursors[k], missed'[k] = missed[k]
    PROVE  Advances(k)
<1>1. /\ cursors[k] \in Nat /\ Len(log[k]) \in Nat /\ cursors[k] <= Len(log[k])
      /\ Position(k) \in Nat /\ Position(k) <= cursors[k]
  BY DEF Standing
<1>2. \A n \in partial[k] : n \in (Position(k) + 1)..cursors[k] => n \in missed[k]
  <2>1. \A n \in (Position(k) + 1)..cursors[k] : n \in 1..cursors[k]
    BY <1>1
  <2> QED
    BY <2>1 DEF MissedIsRead, Reach
<1> QED
  BY <1>1, <1>2 DEF Advances

\* A poll returns all that lies between where the session stood and its cursors.
LEMMA ReturnFeeds ==
    ASSUME IInv, IInv', Collected, PollReturn
    PROVE  Feed!HandOut
<1>1. (\A j \in Keys : Standing(j)) /\ TypeOK /\ TypeOK' /\ MissedIsRead
  BY Stands DEF IInv
<1>2. /\ pc = "return" /\ pc' = "idle" /\ batch' = {}
      /\ delivered' = [k \in Keys |-> delivered[k] \cup LinesOf(batch, k)]
      /\ UNCHANGED <<cursors, ledger, log, partial, missed, faults>>
  BY DEF PollReturn, files, written
<1>3. ASSUME NEW k \in Keys PROVE Position(k)' = cursors[k]
  BY <1>1, <1>2, LastOfNone DEF Position, Unreturned, LinesOf, Standing
<1>4. ASSUME NEW k \in Keys
      PROVE  delivered'[k] \ {0}
               = (delivered[k] \ {0}) \cup (Feed!Whole(log[k], Position(k), cursors[k]) \ missed[k])
  <2>1. Unreturned(k) = Feed!Whole(log[k], Position(k), cursors[k]) \ missed[k]
    BY <1>1, <1>2 DEF Standing
  <2>2. delivered'[k] \ {0} = (delivered[k] \ {0}) \cup Unreturned(k)
    BY <1>2 DEF Unreturned
  <2> QED
    BY <2>1, <2>2
<1>5. \A k \in Keys : Advances(k)
  BY <1>1, <1>2, <1>3, ToCursor
<1>6. Feed!Onward
  BY <1>1, <1>5, GoesOn
<1> QED
  BY <1>2, <1>3, <1>4, <1>6 DEF Feed!HandOut

\* A poll that cannot write the ledger drops what it collected.
LEMMA PollFlushFeeds ==
    ASSUME IInv, IInv', Collected, Collected', [Next]_vars, PollFlush
    PROVE  Feed!Record \/ Feed!Lose
<1>1. (\A j \in Keys : Standing(j)) /\ TypeOK /\ TypeOK' /\ MissedIsRead
  BY Stands DEF IInv
<1>2. /\ pc = "polled" /\ pc' \in {"return", "idle"}
      /\ UNCHANGED <<cursors, entries, log, partial, missed, delivered>>
  BY DEF PollFlush, files, written, seen
<1>3. CASE Flushed(entries) /\ batch' = batch
  <2>1. Stays
    BY <1>2, <1>3, NothingRead
  <2> QED
    BY <1>2, <1>3, <2>1, FeedsRecord
<1>4. CASE FlushRaised /\ batch' = {}
  <2>1. ASSUME NEW k \in Keys PROVE Position(k)' = cursors[k]
    BY <1>1, <1>2, <1>4, LastOfNone DEF Position, Unreturned, LinesOf, Standing
  <2>2. \A k \in Keys : Advances(k)
    BY <1>1, <1>2, <2>1, ToCursor
  <2>3. Feed!Onward
    BY <1>1, <2>2, GoesOn
  <2> QED
    BY <1>2, <1>4, <2>3 DEF Feed!Lose, FlushRaised
<1> QED
  BY <1>3, <1>4 DEF PollFlush

\* The end of a session object: the next goes on after the acks on disk.
LEMMA EndFeeds ==
    ASSUME IInv, Collected, [Next]_vars, Crash \/ Close
    PROVE  Feed!Reopen
<1>1. \A j \in Keys : Standing(j)
  BY Stands
<1>2. /\ pc # "down" /\ pc' = "down" /\ UNCHANGED <<log, partial, delivered>>
      /\ ledger' = ledger \/ ledger' = entries
      /\ faults' \in {faults, faults + 1}
      /\ missed' = [k \in Keys |-> missed[k] \cap 1..ledger'[k].acked_through]
  BY DEF Crash, Close, Forgotten, Flushed, FlushRaised, files, written
<1>3. ASSUME NEW k \in Keys
      PROVE  /\ Position(k)' = ledger'[k].acked_through
             /\ ledger'[k].acked_through \in Nat
             /\ ledger'[k].acked_through \in ledger[k].acked_through..Position(k)
  BY <1>1, <1>2 DEF Position, Standing
<1> QED
  BY <1>2, <1>3 DEF Feed!Reopen, Feed!Recorded

\* The initial states of the sessions are initial states of the feed.
LEMMA FeedInit == Init => Feed!Init
<1>1. ASSUME Init, NEW k \in Keys PROVE Position(k) = 0
  <2>1. Unreturned(k) = {}
    BY <1>1, NoBatch DEF Init
  <2> QED
    BY <1>1, <2>1, LastOfNone DEF Init, Position
<1> QED
  BY <1>1 DEF Init, Feed!Init, Absent

\* A worker writes to its file.
LEMMA WorkerFeeds ==
    ASSUME TypeOK, WritingInv, NEW k \in Keys, NEW p \in DOMAIN kids[k], WorkerStep(k, p)
    PROVE  Feed!Write \/ Feed!Complete \/ UNCHANGED Feed!vars
<1>1. UNCHANGED <<pc, cursors, batch, ledger, missed, delivered, faults>>
  BY WorkerFrame
<1>2. Stays
  BY <1>1 DEF Stays, Position, Unreturned, LinesOf
<1>3. \A j \in Keys : ledger'[j].acked_through = ledger[j].acked_through
  BY <1>1
<1>4. CASE UNCHANGED <<log, partial>>
  BY <1>1, <1>2, <1>3, <1>4, FeedsNothing
<1>5. ASSUME NEW kind \in AllKinds, log' = [log EXCEPT ![k] = Append(@, kind)],
             partial' \in {partial, [partial EXCEPT ![k] = @ \cup {Len(log[k]) + 1}]}
      PROVE  Feed!Write
  BY <1>1, <1>2, <1>5 DEF Feed!Write, Stays
<1>6. CASE partial' = [partial EXCEPT ![k] = @ \ {Len(log[k])}] /\ log' = log
  BY <1>1, <1>2, <1>6 DEF Feed!Complete, Stays
<1>7. CASE ChildBegin(k, p)
  BY <1>4, <1>5, <1>7, SessionAssumption DEF ChildBegin
<1>8. CASE ChildEnd(k, p)
  <2>1. CASE open[k] = {p}
    <3>1. kids[k][p].alive /\ p \in 1..Len(kids[k])
      BY <1>8 DEF ChildEnd, TypeOK
    <3>2. kids[k][p].begun = Len(log[k])
      BY <2>1, <3>1 DEF WritingInv, Writing, BegunLine
    <3> QED
      BY <1>6, <1>8, <2>1, <3>2 DEF ChildEnd
  <2>2. CASE open[k] # {p}
    BY <1>4, <1>5, <1>8, <2>2 DEF ChildEnd, AllKinds
  <2> QED
    BY <2>1, <2>2
<1>9. CASE ChildReadReply(k, p) \/ ChildExit(k, p) \/ PidReused(k, p) \/ PidFreed(k, p)
  BY <1>4, <1>9 DEF ChildReadReply, ChildExit, PidReused, PidFreed, files, written
<1> QED
  BY <1>7, <1>8, <1>9 DEF WorkerStep

\* Every step of the sessions is a step of the feed or none.
LEMMA FeedStep ==
    ASSUME IInv, IInv', WritingInv, Collected, Collected', [Next]_vars
    PROVE  [Feed!Next]_(Feed!vars)
<1>1. TypeOK /\ Bookkeeping /\ Bookkeeping' /\ \A j \in Keys : Standing(j)
  BY Stands DEF IInv
<1>2. ASSUME NEW k \in Keys, LaunchSpawn(k) PROVE UNCHANGED Feed!vars
  <2>1. ~Known(k) /\ cursors[k] = 0 /\ cursors' = [cursors EXCEPT ![k] = 0] /\ cursors \in [Keys -> Nat]
    BY <1>1, <1>2 DEF LaunchSpawn, Bookkeeping, TypeOK
  <2>2. cursors' = cursors
    BY <2>1
  <2> QED
    BY <1>2, <2>2, NothingRead, FeedsNothing DEF LaunchSpawn, history, seen, files, written
<1>3. CASE \/ PollStart \/ PollEmpty \/ \E ev \in inbox : Reply(ev)
           \/ \E k \in Keys : StopSignal(k) \/ StopRefused(k)
  <2>1. /\ UNCHANGED <<cursors, batch, log, partial, missed, delivered, faults, ledger>>
        /\ pc # "down" /\ pc' # "down"
    BY <1>3 DEF PollStart, PollEmpty, Reply, StopSignal, StopRefused, history, seen, files, written
  <2> QED
    BY <2>1, NothingRead, FeedsNothing
<1>4. ASSUME NEW k \in Keys, Reap(k) PROVE UNCHANGED Feed!vars
  <2>1. /\ UNCHANGED <<cursors, log, partial, missed, delivered, faults, ledger>>
        /\ pc # "down" /\ pc' # "down"
    BY <1>1, <1>4, ReapEffect
  <2>2. \A j \in Keys : Unreturned(j)' = Unreturned(j)
    BY <1>4 DEF Reap, _reap, Unreturned, LinesOf
  <2>3. Stays
    BY <2>1, <2>2 DEF Stays, Position
  <2> QED
    BY <2>1, <2>3, FeedsNothing
<1>5. CASE LaunchFlush \/ (\E ev \in inbox : Ack(ev)) \/ (\E k \in Keys : StopFinish(k))
  <2>1. /\ UNCHANGED <<cursors, batch, log, partial, missed, delivered>>
        /\ pc # "down" /\ pc' # "down"
        /\ Flushed(entries') \/ FlushRaised \/ UNCHANGED <<ledger, faults>>
    BY <1>5 DEF LaunchFlush, Ack, StopFinish, Flushed, files, written, seen
  <2>2. Stays
    BY <2>1, NothingRead
  <2> QED
    BY <2>1, <2>2, FeedsRecord, FeedsNothing DEF Feed!Next
<1>6. CASE (\E k \in Keys : Drain(k)) \/ PollReturn \/ PollFlush \/ Crash \/ Close
  BY <1>6, DrainFeeds, ReturnFeeds, PollFlushFeeds, EndFeeds DEF Feed!Next
<1>7. CASE Open
  <2>1. /\ batch = {} /\ batch' = batch /\ pc = "down" /\ pc' = "idle"
        /\ UNCHANGED <<ledger, log, partial, missed, delivered, faults>>
    BY <1>1, <1>7 DEF Open, Bookkeeping, Polling, history, seen, files, written
  <2>2. ASSUME NEW k \in Keys PROVE Position(k)' = Position(k)
    <3>1. cursors'[k] = ledger[k].acked_through /\ ledger[k].acked_through \in Nat
      BY <1>1, <1>7, OpenEffect DEF Standing
    <3>2. Unreturned(k)' = {}
      BY <2>1 DEF Unreturned, LinesOf
    <3> QED
      BY <2>1, <3>1, <3>2, LastOfNone DEF Position
  <2> QED
    BY <2>1, <2>2, FeedsNothing DEF Stays
<1>8. ASSUME NEW k \in Keys, NEW p \in DOMAIN kids[k], WorkerStep(k, p)
      PROVE  Feed!Next \/ UNCHANGED Feed!vars
  BY <1>1, <1>8, WorkerFeeds DEF Feed!Next
<1>9. CASE UNCHANGED vars
  <2>1. UNCHANGED <<pc, cursors, batch, log, partial, missed, delivered, faults, ledger>>
    BY <1>9 DEF vars, memory, files, written, history, seen
  <2>2. Stays
    BY <2>1 DEF Stays, Position, Unreturned, LinesOf
  <2> QED
    BY <2>1, <2>2, FeedsNothing
<1> QED
  BY <1>2, <1>3, <1>4, <1>5, <1>6, <1>7, <1>8, <1>9 DEF Next, Coordinator, Caller, Worker

\* The session implements the feed, for any workers, files, crashes, failed writes and
\* reused pids, and with lines that stand half written in the files at any time: wait()
\* hands out the lines of a worker in order and once for each opening, an opening goes
\* on right after the acks on disk, and what it leaves out is what a ledger write that
\* raises had collected, and the lines that were not whole when it went past them.
THEOREM ImplementsFeed == Spec => IsEventFeed
<1>1. IInv /\ IInv' /\ Collected /\ [Next]_vars => Collected'
  BY CollectedStep
<1>2. IInv /\ IInv' /\ WritingInv /\ Collected /\ Collected' /\ [Next]_vars
        => [Feed!Next]_(Feed!vars)
  BY FeedStep
<1>3. IInv /\ IInv' /\ WritingInv /\ [Next]_vars => WritingInv'
  BY WritingStep DEF IInv
<1>4. Init => WritingInv
  BY AnswerInvInit DEF AnswerInv
<1> QED
  BY <1>1, <1>2, <1>3, <1>4, FeedInit, CollectedInit, IInvariant, PTL
     DEF Spec, IsEventFeed, Feed!Spec

=============================================================================

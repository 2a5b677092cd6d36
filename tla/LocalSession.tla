---------------------------- MODULE LocalSession ----------------------------
(***************************************************************************)
(* workflow-local: one durable dispatch session over child processes.      *)
(*                                                                         *)
(* A coordinator process owns a LocalSession object: the entries it holds  *)
(* in memory, the cursor into each worker's events.jsonl, the Popen        *)
(* objects it created.  On disk are ledger.json, one events.jsonl and one  *)
(* replies.jsonl per worker.  The worker processes run on their own; they  *)
(* outlive the coordinator, which may stop at any instruction and be       *)
(* started again.                                                          *)
(*                                                                         *)
(* Nothing locks events.jsonl: a worker's write takes two steps, its part  *)
(* of a line and the rest with the newline, and a poll, the worker's death *)
(* or a second process of the same key may come in between.  Nor does      *)
(* anything keep a pid: once a worker is gone a foreign program may get it.*)
(*                                                                         *)
(* The coordinator's operations are cut where another process, or a crash, *)
(* can tell the difference: every worker's drain, every worker's reap, the *)
(* ledger write and the return of wait() are steps of their own, and so    *)
(* are Popen against the ledger write of launch() and the signal against   *)
(* the ledger write of stop().                                             *)
(***************************************************************************)
EXTENDS Integers, Sequences, FiniteSets

CONSTANTS
    Keys,          \* dispatch keys, PlannedDispatch.key
    Kinds,         \* the kinds of line the workers of this instance write
    MaxLines,      \* bound: lines of one events.jsonl
    MaxProcs,      \* bound: processes ever started for one key
    MaxCrashes,    \* bound: coordinator crashes and closes
    MaxFaults,     \* bound: ledger writes that raise
    PidReuse       \* whether foreign programs get the pids of dead workers

\* What a line of events.jsonl parses to.  "ok" and "bad" are worker_done with
\* outcome "succeeded" and any other outcome; "junk" is a line _parse skips, by
\* what it says or because only part of it is there.
AllKinds == {"ok", "bad", "heartbeat", "question", "escalation", "junk"}

ASSUME SessionAssumption ==
    /\ Kinds \subseteq AllKinds
    /\ MaxLines \in Nat
    /\ MaxProcs \in Nat
    /\ MaxCrashes \in Nat
    /\ MaxFaults \in Nat
    /\ PidReuse \in BOOLEAN

VARIABLES
    \* --- the coordinator's memory
    pc,         \* where the coordinator is
    todo,       \* keys the current loop has still to visit; the key launch() or
                \* stop() is working on
    entries,    \* LocalSession._entries
    cursors,    \* LocalSession._cursors
    procs,      \* keys of LocalSession._procs
    batch,      \* the events _poll has collected
    inbox,      \* events wait() returned, not yet acked by the caller's loop
    replied,    \* the question the caller has replied to and not yet acked
    \* --- what outlives it
    ledger,     \* ledger.json
    log,        \* events.jsonl of each worker: the lines, as they are meant
    partial,    \* lines of it of which only a part is there, or a mixture
    open,       \* the processes that wrote to its last line, {} once that has ended
    replies,    \* replies.jsonl of each worker: the reply tokens, in order
    kids,       \* the worker processes started for each key
    \* --- history
    delivered,  \* lines wait() ever returned (0: the reaper's event)
    answers,    \* <<worker, line of a question, token of the reply taken for it>>
    missed,     \* lines passed half written, of those the session went past since
                \* it was opened and those acked before
    torn,       \* workers of which any line was ever read half written
    crashes,
    faults

memory  == <<pc, todo, entries, cursors, procs, batch, inbox, replied>>
written == <<log, partial, open>>
files   == <<written, replies>>
seen    == <<delivered, answers, missed, torn>>
history == <<seen, crashes, faults>>
vars    == <<memory, ledger, files, kids, history>>

-----------------------------------------------------------------------------
(***************************************************************************)
(* Data.                                                                   *)
(***************************************************************************)

\* backend.py TERMINAL_STATES.
TERMINAL_STATES == {"succeeded", "failed", "stopped"}

\* WORKER_STATES as this backend uses them; "absent" is a key with no entry.
States == TERMINAL_STATES \cup {"absent", "running", "unknown"}

\* LedgerEntry: the fields an operation of the session reads back.
LedgerEntry == [state : States, pid : Nat, acked_through : Nat]

Absent == [state |-> "absent", pid |-> 0, acked_through |-> 0]

\* Line numbers count from 1; line 0 marks the event the reaper synthesizes,
\* whose delivery_id is "<handle>:reaped".
Event == [key : Keys, line : Nat, kind : AllKinds]

\* A process of a worker: the lines of the questions it asked, the replies it has
\* read, the line it is in the middle of (0: none), and whether its pid, once it is
\* gone, is that of a foreign program.
Process == [alive : BOOLEAN, code : {0, 1}, asked : Seq(Nat), read : Nat,
            begun : Nat, reused : BOOLEAN]

Started == [alive |-> TRUE, code |-> 0, asked |-> <<>>, read |-> 0,
            begun |-> 0, reused |-> FALSE]

Exited(code)        == [Started EXCEPT !.alive = FALSE, !.code = code]
Beginning(kid, n)   == [kid EXCEPT !.begun = n]
Wrote(kid, kind)    == [kid EXCEPT !.begun = 0,
                          !.asked = IF kind = "question" THEN Append(@, kid.begun) ELSE @]
Answered(kid)       == [kid EXCEPT !.read = @ + 1]
WithPid(kid, taken) == [kid EXCEPT !.reused = taken]

WithKid(k, p, kid) == [kids EXCEPT ![k] = [@ EXCEPT ![p] = kid]]

\* The key is in _entries.
Known(k) == entries[k].state # "absent"

\* _pid_alive: signal 0 finds a process, the worker's or whichever has its pid now.
PidAlive(k, pid) == pid # 0 /\ (kids[k][pid].alive \/ kids[k][pid].reused)

\* _alive: a process this session object started is asked through its Popen, any
\* other by its pid.
Alive(k) ==
    IF k \in procs THEN kids[k][entries[k].pid].alive ELSE PidAlive(k, entries[k].pid)

\* dataclasses.replace on an entry.
WithState(e, state) == [e EXCEPT !.state = state]
WithAck(e, line)    == [e EXCEPT !.acked_through = line]

\* Mutant: the outcome a worker wrote is stored as it is.
AppliedUnchecked(e, kind) ==
    IF kind \in {"ok", "bad"} THEN WithState(e, kind)
    ELSE IF kind = "heartbeat" THEN WithState(e, "running")
    ELSE e

\* _apply: one event folded into the entry.
Applied(e, kind) ==
    IF kind = "ok" THEN WithState(e, "succeeded")
    ELSE IF kind = "bad" THEN WithState(e, "failed")
    ELSE IF kind = "heartbeat" THEN WithState(e, "running")
    ELSE e

\* The file as a poll reads it: part of a line does not parse.
Text(k) == [n \in 1..Len(log[k]) |-> IF n \in partial[k] THEN "junk" ELSE log[k][n]]

\* The lines after the cursor that are only partly there.
Half(k) == partial[k] \cap ((cursors[k] + 1)..Len(log[k]))

\* The last line of s after cursor c that changes the state, 0 if none does:
\* folding _apply over the new lines leaves what that line says.
LastSettling(s, c) ==
    LET moving == {n \in (c + 1)..Len(s) : s[n] \in {"ok", "bad", "heartbeat"}}
    IN  IF moving = {} THEN 0 ELSE CHOOSE n \in moving : \A m \in moving : m <= n

\* Events of the lines after cursor c, the ones _parse skips left out.
NewEvents(k, s, c) ==
    {[key |-> k, line |-> n, kind |-> s[n]] :
        n \in {m \in (c + 1)..Len(s) : s[m] # "junk"}}

\* A list of events comes in this order for each worker: its lines as they are in
\* the file, then the reaper's event.  The order between workers is left open.
First(ev, es) ==
    \A other \in es : other.key = ev.key /\ other # ev =>
        other.line = 0 \/ (ev.line # 0 /\ ev.line < other.line)

\* Lines of worker k among the events of es.
LinesOf(es, k) == {ev.line : ev \in {e \in es : e.key = k}}

-----------------------------------------------------------------------------
Init ==
    /\ pc = "idle"
    /\ todo = {}
    /\ entries = [k \in Keys |-> Absent]
    /\ cursors = [k \in Keys |-> 0]
    /\ procs = {}
    /\ batch = {}
    /\ inbox = {}
    /\ replied = {}
    /\ ledger = [k \in Keys |-> Absent]
    /\ log = [k \in Keys |-> <<>>]
    /\ partial = [k \in Keys |-> {}]
    /\ open = [k \in Keys |-> {}]
    /\ replies = [k \in Keys |-> <<>>]
    /\ kids = [k \in Keys |-> <<>>]
    /\ delivered = [k \in Keys |-> {}]
    /\ answers = {}
    /\ missed = [k \in Keys |-> {}]
    /\ torn = {}
    /\ crashes = 0
    /\ faults = 0

-----------------------------------------------------------------------------
(***************************************************************************)
(* The ledger.  _flush replaces the file atomically (mkstemp, replace) or  *)
(* raises and leaves it as it was.                                         *)
(***************************************************************************)

Flushed(es) ==
    /\ ledger' = es
    /\ UNCHANGED faults

FlushRaised ==
    /\ faults < MaxFaults
    /\ faults' = faults + 1
    /\ UNCHANGED ledger

-----------------------------------------------------------------------------
(***************************************************************************)
(* launch(): the process is started and the entry made in memory, then the *)
(* ledger is written.  The events file is touched, never truncated.        *)
(***************************************************************************)

LaunchSpawn(k) ==
    /\ pc = "idle"
    /\ ~Known(k)
    /\ Len(kids[k]) < MaxProcs
    /\ kids' = [kids EXCEPT ![k] = Append(@, Started)]
    /\ procs' = procs \cup {k}
    /\ entries' = [entries EXCEPT ![k] =
                     [state |-> "running", pid |-> Len(kids[k]) + 1, acked_through |-> 0]]
    /\ cursors' = [cursors EXCEPT ![k] = 0]
    /\ pc' = "launch"
    /\ todo' = {k}
    /\ UNCHANGED <<batch, inbox, replied, ledger, files, history>>

LaunchFlush ==
    /\ pc = "launch"
    /\ pc' = "idle"
    /\ todo' = {}
    /\ Flushed(entries) \/ FlushRaised
    /\ UNCHANGED <<entries, cursors, procs, batch, inbox, replied, files, kids,
                   seen, crashes>>

-----------------------------------------------------------------------------
(***************************************************************************)
(* wait(): _poll drains every worker, then reaps every worker, writes the  *)
(* ledger if there are events, and returns them.  The caller's loop calls  *)
(* wait() again once it has handled and acked what the last call returned. *)
(***************************************************************************)

PollStart ==
    /\ pc = "idle"
    /\ inbox = {}
    /\ \E k \in Keys : Known(k)
    /\ pc' = "drain"
    /\ todo' = {k \in Keys : Known(k)}
    /\ UNCHANGED <<entries, cursors, procs, batch, inbox, replied, ledger, files,
                   kids, history>>

\* The loop over list(self._entries): the last key hands over to the next loop.
Visited(k, next) ==
    IF todo = {k}
      THEN /\ pc' = next
           /\ todo' = {j \in Keys : Known(j)}
      ELSE /\ todo' = todo \ {k}
           /\ UNCHANGED pc

\* Mutant: the cursor stays where it was.
_drainInPlace(k) ==
    LET text == Text(k)
        last == LastSettling(text, cursors[k])
    IN  /\ entries' = [entries EXCEPT ![k] =
                         IF last = 0 THEN @ ELSE Applied(@, text[last])]
        /\ batch' = batch \cup NewEvents(k, text, cursors[k])
        /\ UNCHANGED cursors

\* _drain: the cursor goes past the last line whether or not its newline is there.
_drain(k) ==
    LET text == Text(k)
        last == LastSettling(text, cursors[k])
    IN  /\ entries' = [entries EXCEPT ![k] =
                         IF last = 0 THEN @ ELSE Applied(@, text[last])]
        /\ batch' = batch \cup NewEvents(k, text, cursors[k])
        /\ cursors' = [cursors EXCEPT ![k] = Len(text)]

Drain(k) ==
    /\ pc = "drain"
    /\ k \in todo
    /\ _drain(k)
    /\ Visited(k, "reap")
    /\ missed' = [missed EXCEPT ![k] = @ \cup Half(k)]
    /\ torn' = IF Half(k) = {} THEN torn ELSE torn \cup {k}
    /\ UNCHANGED <<procs, inbox, replied, ledger, files, kids, delivered, answers,
                   crashes, faults>>

\* Mutant: an exit status nobody knows counts as zero.
ReapedOutcomeLax(k) ==
    IF k \notin procs \/ kids[k][entries[k].pid].code = 0 THEN "succeeded" ELSE "failed"

\* The exit status is known only for a process this session object started.
ReapedOutcome(k) ==
    IF k \in procs /\ kids[k][entries[k].pid].code = 0 THEN "succeeded" ELSE "failed"

\* Mutant: only a worker recorded as running is reaped.
_reapRunning(k) ==
    IF entries[k].state # "running" \/ Alive(k)
      THEN UNCHANGED <<entries, batch>>
      ELSE /\ entries' = [entries EXCEPT ![k] = WithState(@, ReapedOutcome(k))]
           /\ batch' = batch \cup {[key |-> k, line |-> 0, kind |-> "bad"]}

_reap(k) ==
    IF entries[k].state \in TERMINAL_STATES \/ Alive(k)
      THEN UNCHANGED <<entries, batch>>
      ELSE /\ entries' = [entries EXCEPT ![k] = WithState(@, ReapedOutcome(k))]
           /\ batch' = batch \cup {[key |-> k, line |-> 0,
                          kind |-> IF ReapedOutcome(k) = "succeeded" THEN "ok" ELSE "bad"]}

Reap(k) ==
    /\ pc = "reap"
    /\ k \in todo
    /\ _reap(k)
    /\ Visited(k, "polled")
    /\ UNCHANGED <<cursors, procs, inbox, replied, ledger, files, kids, history>>

\* No event: wait() sleeps and polls again, or returns [] at its deadline.
PollEmpty ==
    /\ pc = "polled"
    /\ batch = {}
    /\ pc' = "idle"
    /\ todo' = {}
    /\ UNCHANGED <<entries, cursors, procs, batch, inbox, replied, ledger, files,
                   kids, history>>

PollFlush ==
    /\ pc = "polled"
    /\ batch # {}
    /\ todo' = {}
    /\ \/ /\ Flushed(entries)
          /\ pc' = "return"
          /\ UNCHANGED batch
       \/ /\ FlushRaised               \* wait() raises: the list it built is gone
          /\ pc' = "idle"
          /\ batch' = {}
    /\ UNCHANGED <<entries, cursors, procs, inbox, replied, files, kids,
                   seen, crashes>>

PollReturn ==
    /\ pc = "return"
    /\ pc' = "idle"
    /\ inbox' = batch
    /\ batch' = {}
    /\ delivered' = [k \in Keys |-> delivered[k] \cup LinesOf(batch, k)]
    /\ UNCHANGED <<todo, entries, cursors, procs, replied, ledger, files, kids,
                   answers, missed, torn, crashes, faults>>

-----------------------------------------------------------------------------
(***************************************************************************)
(* The caller's loop (README "Using it"): handle the event, which for a    *)
(* question is a reply(), then ack() it.                                   *)
(***************************************************************************)

Reply(ev) ==
    /\ pc = "idle"
    /\ ev.kind = "question"
    /\ First(ev, inbox)
    /\ replied = {}
    /\ replies' = [replies EXCEPT ![ev.key] = Append(@, ev.line)]
    /\ replied' = {ev}
    /\ UNCHANGED <<pc, todo, entries, cursors, procs, batch, inbox, ledger, written, kids, history>>

\* Mutant: one line too many.
AckedEntryPast(e, line) ==
    IF line + 1 > e.acked_through THEN WithAck(e, line + 1) ELSE e

\* ack(): the reaper's event has no line to advance past, and causes no flush.
AckedEntry(e, line) ==
    IF line > e.acked_through THEN WithAck(e, line) ELSE e

Handled(ev) ==
    /\ inbox' = inbox \ {ev}
    /\ replied' = {}

Ack(ev) ==
    LET new == [entries EXCEPT ![ev.key] = AckedEntry(@, ev.line)]
    IN  /\ pc = "idle"
        /\ First(ev, inbox)
        /\ replied = IF ev.kind = "question" THEN {ev} ELSE {}
        /\ \/ /\ ev.line = 0
              /\ Handled(ev)
              /\ UNCHANGED <<entries, ledger, faults>>
           \/ /\ ev.line # 0
              /\ entries' = new
              /\ \/ Flushed(new) /\ Handled(ev)
                 \/ FlushRaised /\ UNCHANGED <<inbox, replied>>  \* the caller still holds it
        /\ UNCHANGED <<pc, todo, cursors, procs, batch, files, kids,
                       seen, crashes>>

-----------------------------------------------------------------------------
(***************************************************************************)
(* stop(): SIGTERM, a grace period the worker may use, SIGKILL; then the   *)
(* entry is stopped whatever it was, and the ledger written.               *)
(***************************************************************************)

StopSignal(k) ==
    /\ pc = "idle"
    /\ Known(k)
    /\ pc' = "stop"
    /\ todo' = {k}
    /\ UNCHANGED <<entries, cursors, procs, batch, inbox, replied, ledger, files,
                   kids, history>>

\* _terminate: by its end the process that has the pid is gone, whosever it was.
_terminate(k) ==
    LET pid == entries[k].pid
    IN  kids' = IF ~PidAlive(k, pid)
                  THEN kids
                  ELSE WithKid(k, pid, IF kids[k][pid].alive THEN Exited(1)
                                                             ELSE WithPid(kids[k][pid], FALSE))

StopFinish(k) ==
    LET new == [entries EXCEPT ![k] = WithState(@, "stopped")]
    IN  /\ pc = "stop"
        /\ k \in todo
        /\ _terminate(k)
        /\ entries' = new
        /\ Flushed(new) \/ FlushRaised
        /\ pc' = "idle"
        /\ todo' = {}
        /\ UNCHANGED <<cursors, procs, batch, inbox, replied, files,
                       seen, crashes>>

\* The pid is another user's now: os.kill raises PermissionError, and so does stop().
StopRefused(k) ==
    /\ pc = "stop"
    /\ k \in todo
    /\ PidAlive(k, entries[k].pid) /\ ~kids[k][entries[k].pid].alive
    /\ pc' = "idle"
    /\ todo' = {}
    /\ UNCHANGED <<entries, cursors, procs, batch, inbox, replied, ledger, files, kids,
                   history>>

-----------------------------------------------------------------------------
(***************************************************************************)
(* The end of a session object: close() at rest, a crash anywhere.  Either *)
(* way what it held in memory is gone and its workers go on.               *)
(***************************************************************************)

Forgotten ==
    /\ pc' = "down"
    /\ todo' = {}
    /\ entries' = [k \in Keys |-> Absent]
    /\ cursors' = [k \in Keys |-> 0]
    /\ procs' = {}
    /\ batch' = {}
    /\ inbox' = {}
    /\ replied' = {}
    /\ crashes < MaxCrashes
    /\ crashes' = crashes + 1
    /\ missed' = [k \in Keys |-> missed[k] \cap 1..ledger'[k].acked_through]
    /\ UNCHANGED <<files, kids, delivered, answers, torn>>

Crash ==
    /\ pc # "down"
    /\ UNCHANGED <<ledger, faults>>
    /\ Forgotten

Close ==
    /\ pc = "idle"
    /\ Flushed(entries) \/ FlushRaised
    /\ Forgotten

\* Mutant: the entry of a worker found dead is made afresh.
ProbedAfresh(k) ==
    IF ledger[k].state \in TERMINAL_STATES \cup {"absent"}
      THEN ledger[k]
      ELSE WithAck(WithState(ledger[k], "unknown"), 0)

\* _probe_on_open: a live pid reports running, a dead one that never settled unknown.
Probed(k) ==
    IF ledger[k].state \in TERMINAL_STATES \cup {"absent"}
      THEN ledger[k]
      ELSE WithState(ledger[k],
              IF PidAlive(k, ledger[k].pid) THEN "running" ELSE "unknown")

\* Mutants: reading resumes at the end of the file, or at its beginning.
OpenAtEnd ==
    /\ pc = "down"
    /\ pc' = "idle"
    /\ entries' = [k \in Keys |-> Probed(k)]
    /\ cursors' = [k \in Keys |-> Len(log[k])]
    /\ UNCHANGED <<todo, procs, batch, inbox, replied, ledger, files, kids, history>>

OpenAtStart ==
    /\ pc = "down"
    /\ pc' = "idle"
    /\ entries' = [k \in Keys |-> Probed(k)]
    /\ cursors' = [k \in Keys |-> 0]
    /\ UNCHANGED <<todo, procs, batch, inbox, replied, ledger, files, kids, history>>

Open ==
    /\ pc = "down"
    /\ pc' = "idle"
    /\ entries' = [k \in Keys |-> Probed(k)]
    /\ cursors' = [k \in Keys |-> ledger[k].acked_through]
    /\ UNCHANGED <<todo, procs, batch, inbox, replied, ledger, files, kids, history>>

-----------------------------------------------------------------------------
(***************************************************************************)
(* The workers: they append lines, read replies and exit.  They may ask    *)
(* several questions before they read a reply, and take the replies in     *)
(* order, whatever their token: the Nth for the Nth question.  A line that *)
(* lacks only its newline is a whole one.                                  *)
(***************************************************************************)

\* The first part of a line.  It joins an unfinished line of another process, one
\* that is still writing or one that died.
ChildBegin(k, p) ==
    /\ kids[k][p].alive
    /\ kids[k][p].begun = 0
    /\ \/ /\ open[k] = {}
          /\ Len(log[k]) < MaxLines
          /\ \E kind \in Kinds : log' = [log EXCEPT ![k] = Append(@, kind)]
          /\ partial' = [partial EXCEPT ![k] = @ \cup {Len(log[k]) + 1}]
       \/ /\ open[k] # {}
          /\ UNCHANGED <<log, partial>>
    /\ open' = [open EXCEPT ![k] = @ \cup {p}]
    /\ kids' = WithKid(k, p, Beginning(kids[k][p], Len(log'[k])))
    /\ UNCHANGED <<memory, ledger, replies, history>>

\* The rest of it and the newline.  Only a line nobody else wrote to is then whole; if
\* another process has ended the line in between, the rest is a line by itself.
ChildEnd(k, p) ==
    LET kid == kids[k][p]
    IN  /\ kid.alive
        /\ kid.begun # 0
        /\ \/ /\ open[k] = {p}
              /\ partial' = [partial EXCEPT ![k] = @ \ {kid.begun}]
              /\ kids' = WithKid(k, p, Wrote(kid, log[k][kid.begun]))
              /\ UNCHANGED log
           \/ /\ open[k] # {p}
              /\ \/ /\ open[k] = {}
                    /\ Len(log[k]) < MaxLines
                    /\ log' = [log EXCEPT ![k] = Append(@, "junk")]
                 \/ open[k] # {} /\ UNCHANGED log
              /\ \E kind \in Kinds : kids' = WithKid(k, p, Wrote(kid, kind))
              /\ UNCHANGED partial
        /\ open' = [open EXCEPT ![k] = {}]
        /\ UNCHANGED <<memory, ledger, replies, history>>

ChildReadReply(k, p) ==
    LET kid == kids[k][p]
        nth == kid.read + 1
    IN  /\ kid.alive
        /\ kid.begun = 0
        /\ nth <= Len(kid.asked)
        /\ nth <= Len(replies[k])
        /\ answers' = answers \cup {<<k, kid.asked[nth], replies[k][nth]>>}
        /\ kids' = WithKid(k, p, Answered(kid))
        /\ UNCHANGED <<memory, ledger, files, delivered, missed, torn, crashes, faults>>

ChildExit(k, p) ==
    /\ kids[k][p].alive
    /\ \E code \in {0, 1} :
         kids' = WithKid(k, p, Exited(code))
    /\ UNCHANGED <<memory, ledger, files, history>>

\* A foreign program starts under the pid of a dead worker, or ends.
PidReused(k, p) ==
    /\ PidReuse
    /\ ~kids[k][p].alive
    /\ ~kids[k][p].reused
    /\ kids' = WithKid(k, p, WithPid(kids[k][p], TRUE))
    /\ UNCHANGED <<memory, ledger, files, history>>

PidFreed(k, p) ==
    /\ kids[k][p].reused
    /\ kids' = WithKid(k, p, WithPid(kids[k][p], FALSE))
    /\ UNCHANGED <<memory, ledger, files, history>>

-----------------------------------------------------------------------------
Coordinator ==
    \/ \E k \in Keys : Drain(k) \/ Reap(k) \/ StopFinish(k) \/ StopRefused(k)
    \/ LaunchFlush \/ PollStart \/ PollEmpty \/ PollFlush \/ PollReturn
    \/ \E ev \in inbox : Reply(ev) \/ Ack(ev)
    \/ Open

Caller ==
    \/ \E k \in Keys : LaunchSpawn(k) \/ StopSignal(k)
    \/ Close

\* What the workers and the operating system do.
WorkerStep(k, p) ==
    \/ ChildBegin(k, p) \/ ChildEnd(k, p) \/ ChildReadReply(k, p) \/ ChildExit(k, p)
    \/ PidReused(k, p) \/ PidFreed(k, p)

Worker == \E k \in Keys : \E p \in DOMAIN kids[k] : WorkerStep(k, p)

Next == Coordinator \/ Caller \/ Worker \/ Crash

Spec == Init /\ [][Next]_vars

(***************************************************************************)
(* The coordinator runs the code it is in to completion, is started again  *)
(* after a crash (bounded in number), and its loop comes back to wait(),   *)
(* however many stop() calls its caller makes in between.  Nothing is      *)
(* assumed of the workers, nor of the programs that get their pids, nor    *)
(* that anyone launches or stops.                                          *)
(***************************************************************************)
FairSpec ==
    /\ Spec
    /\ WF_vars(Coordinator)
    /\ SF_vars(PollStart \/ \E ev \in inbox : Reply(ev) \/ Ack(ev))

-----------------------------------------------------------------------------
(***************************************************************************)
(* Properties.                                                             *)
(***************************************************************************)

PidsStarted ==
    \A k \in Keys : entries[k].pid <= Len(kids[k]) /\ ledger[k].pid <= Len(kids[k])

\* Every variable has its type, and a pid an entry names is of a started process.
TypeOK ==
    /\ pc \in {"idle", "launch", "drain", "reap", "polled", "return", "stop", "down"}
    /\ todo \subseteq Keys
    /\ entries \in [Keys -> LedgerEntry]
    /\ ledger \in [Keys -> LedgerEntry]
    /\ cursors \in [Keys -> Nat]
    /\ procs \subseteq Keys
    /\ batch \subseteq Event
    /\ inbox \subseteq Event
    /\ replied \subseteq Event
    /\ log \in [Keys -> Seq(AllKinds)]
    /\ partial \in [Keys -> SUBSET Nat]
    /\ open \in [Keys -> SUBSET Nat]
    /\ replies \in [Keys -> Seq(Nat)]
    /\ kids \in [Keys -> Seq(Process)]
    /\ PidsStarted
    /\ delivered \in [Keys -> SUBSET Nat]
    /\ answers \subseteq Keys \X Nat \X Nat
    /\ missed \in [Keys -> SUBSET Nat]
    /\ torn \subseteq Keys
    /\ crashes \in 0..MaxCrashes
    /\ faults \in 0..MaxFaults

\* The redelivery rule of ledger.py: acked_through counts lines the session has
\* read, the file on disk never claims more acks than the session has made, and
\* what the session has read is in the events file.
AckedIsRead ==
    \A k \in Keys :
      /\ ledger[k].acked_through <= Len(log[k])
      /\ pc # "down" =>
           /\ ledger[k].acked_through <= entries[k].acked_through
           /\ entries[k].acked_through <= cursors[k]
           /\ cursors[k] <= Len(log[k])

\* No event line falls between the cursor and the acks: while every ledger write
\* has gone through, each event line that acked_through covers was returned by some
\* wait() first, through crashes, replays and relaunches, except for a line that was
\* only half written when the session went past it.
AckedWereDelivered ==
    faults = 0 =>
      \A k \in Keys : \A n \in 1..ledger[k].acked_through :
          log[k][n] # "junk" /\ n \notin missed[k] => n \in delivered[k]

\* "replays every unacked event and no acked one", the second half: no line that
\* _poll is about to return has been acked, in this session object or in an
\* earlier one whose ack reached the ledger.
NoAckedReplay ==
    \A k \in Keys : \A n \in LinesOf(batch, k) \ {0} :
        n > ledger[k].acked_through /\ n > entries[k].acked_through

\* A worker is recorded as succeeded only if a whole worker_done line says so or a
\* process started for it exited with 0: neither a restart, nor the reaper, nor a
\* replay turns an unsuccessful worker into a successful one.
SuccessHasEvidence ==
    \A k \in Keys : ledger[k].state = "succeeded" =>
        \/ \E n \in 1..Len(log[k]) \ partial[k] : log[k][n] = "ok"
        \/ \E p \in 1..Len(kids[k]) : ~kids[k][p].alive /\ kids[k][p].code = 0

\* The worker reads replies without their tokens.  While all ledger writes go
\* through and no line of it was read half written, it never takes the answer to a
\* later question for that of an earlier one, whatever crashes happen and however many
\* questions are open; in a session that never crashed each question gets its own.
AnswersMatch ==
    faults = 0 =>
      \A a \in answers : a[1] \notin torn =>
          a[3] <= a[2] /\ (crashes = 0 => a[3] = a[2])

\* Lines of worker k collected and not yet returned.
Unreturned(k) == LinesOf(batch, k) \ {0}

\* The last of c lines before any of those in lines.
LastBefore(c, lines) ==
    CHOOSE n \in 0..c :
       /\ \A m \in lines : n < m
       /\ \A o \in 0..c : (\A m \in lines : o < m) => o <= n

\* How far the session has gone in the file of k, for its caller; a session that
\* is not open would go on after the acks on disk.
Position(k) ==
    IF pc = "down" THEN ledger[k].acked_through ELSE LastBefore(cursors[k], Unreturned(k))

Feed == INSTANCE EventFeed
    WITH Lines <- AllKinds, Junk <- "junk",
         position <- [k \in Keys |-> Position(k)],
         acked <- [k \in Keys |-> ledger[k].acked_through],
         handed <- [k \in Keys |-> delivered[k] \ {0}],
         losses <- faults

\* "replays every unacked event and no acked one", as a whole: wait() hands out
\* the lines of each worker in order and once for each opening; an opening resumes
\* after the acks; a crash, a relaunch or a stop does not make it skip or repeat.  What
\* it drops is what a failed write drops, and the lines it passes half written.
IsEventFeed == Feed!Spec

LiveProcs(k) == {p \in DOMAIN kids[k] : kids[k][p].alive}

\* The pid that is asked for a worker of an earlier session object is a foreign
\* program's.
PidTaken(k) == k \notin procs /\ entries[k].pid # 0 /\ kids[k][entries[k].pid].reused

\* "A crashed child always settles, so no key can sit live forever": a worker in
\* the ledger with no live process left reaches a terminal state, as describe() and
\* workers() report it, through any crash, replay or late heartbeat.  Only a foreign
\* program under its pid can keep a reopened session from it, and a worker that has
\* not settled by the time that program ends settles then.
CrashedChildSettles ==
    \A k \in Keys :
        (ledger[k].state # "absent" /\ LiveProcs(k) = {})
            ~> (entries[k].state \in TERMINAL_STATES \/ PidTaken(k))

\* Every whole event line of a worker in the ledger is eventually returned by wait(),
\* unless the session went past it while it was half written.
EveryLineDelivered ==
    \A k \in Keys : \A n \in 1..MaxLines :
        (/\ faults = 0
         /\ ledger[k].state # "absent"
         /\ n \in 1..Len(log[k]) \ partial[k]
         /\ log[k][n] # "junk")
            ~> (n \in delivered[k] \/ n \in missed[k] \/ faults # 0)
=============================================================================

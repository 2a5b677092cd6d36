----------------------------- MODULE ServeReads -----------------------------
(***************************************************************************)
(* gw-serve: the sidecar's read state, its watcher and its write-through.  *)
(*                                                                         *)
(* One process serves GET requests from a memoized snapshot of the bundle. *)
(* Four kinds of thread meet in ReadState: request handlers, which build   *)
(* or share the snapshot of the current generation; the worker threads in  *)
(* which the watcher's flushes reconcile; the apply handler, which         *)
(* reconciles after its write; and the watcher itself, which invalidates   *)
(* everything when it fails or moves.  The bundle, the manifest and the    *)
(* read index are files that other processes change as well.               *)
(*                                                                         *)
(* A step is what one thread does while it holds the state lock, or one    *)
(* observation of the disk made while it holds the operation lock.         *)
(* Versions of the bundle are numbered; history[v] names what version v    *)
(* holds.  Layouts share the bundle and differ in their cache directory,   *)
(* so each has its own index database.                                     *)
(***************************************************************************)
EXTENDS Integers, Sequences, FiniteSets

CONSTANTS
    Readers,       \* request handlers, each with the client it answers
    Threads,       \* worker threads the watcher's flushes run in
    Applier,       \* the apply handler: _LOCK lets one write at a time
    Layouts,       \* what the manifest may resolve to
    Reverts,       \* whether an edit may restore an earlier content
    MaxEdits,      \* bound: edits by other processes
    MaxApplies,    \* bound: applies
    MaxConfigs,    \* bound: edits of the manifest
    MaxFaults,     \* bound: opens of the index that fail
    MaxErrors      \* bound: failures of the watcher

NoLayout == "none"

ASSUME ServeAssumption ==
    /\ Applier \notin Threads
    /\ Readers \cap (Threads \cup {Applier}) = {}
    /\ "nobody" \notin Readers \cup Threads \cup {Applier}
    /\ NoLayout \notin Layouts
    /\ Layouts # {}
    /\ Reverts \in BOOLEAN
    /\ {MaxEdits, MaxApplies, MaxConfigs, MaxFaults, MaxErrors} \subseteq Nat

VARIABLES
    \* --- files
    history,    \* the contents the bundle has had, the last one current
    layout,     \* what resolve() returns
    enabled,    \* read_index.enabled
    index,      \* the read index of each layout
    \* --- the process
    rs,         \* ReadState, what _lock guards
    op,         \* who holds ReadState._operation
    rd,         \* the request handlers
    wk,         \* the threads in _reconcile
    raw,        \* loops with file events watchfiles has not yielded
    lp,         \* the two loops of watch_workspace
    flushing,   \* the thread of the flush that holds watch_workspace's lock
    watcher,    \* where watch_workspace is
    watched,    \* the layout the watch sets were derived from
    \* --- the clients
    dirty,      \* clients told of a change they have not fetched
    announced,  \* the changes frames published
    acks,       \* the replies of applies
    \* --- bounds
    applies, configs, faults, errors

files   == <<history, layout, enabled, index>>
watch   == <<raw, lp, flushing, watcher, watched>>
clients == <<dirty, announced, acks>>
bounds  == <<applies, configs, faults, errors>>
vars    == <<files, rs, op, rd, wk, watch, clients, bounds>>

-----------------------------------------------------------------------------
(***************************************************************************)
(* Data.                                                                   *)
(***************************************************************************)
Workers == Threads \cup {Applier}
Loops   == {"bundle", "config"}
Nobody  == "nobody"

Version == Len(history)

\* IndexRevision: the database's epoch and its generation.  0 counts as none.
NoRevision == [db |-> NoLayout, rev |-> 0]
Revision   == [db : Layouts \cup {NoLayout}, rev : Nat]

Token == [id : Layouts \cup {NoLayout}, gen : Nat, epoch : Nat]
Blank == [id |-> NoLayout, gen |-> 0, epoch |-> 0]

\* Mutant: an empty slot that no reader knows.
NoSlotUnknown == [state |-> "empty", id |-> NoLayout, gen |-> 0, at |-> 0]

NoSlot == [state |-> "none", id |-> NoLayout, gen |-> 0, at |-> 0]
Slot   == [state : {"none", "pending", "done", "failed"},
           id : Layouts \cup {NoLayout}, gen : Nat, at : Nat]

\* ReadState, the fields an operation reads back.
ReadState == [gen : Nat, identity : Layouts \cup {NoLayout}, slot : Slot,
              stale : BOOLEAN, base : Revision, epoch : Nat]

Outcome   == [how : {"index", "bundle", "busy", "raises"}, at : Nat, rev : Revision]
NoOutcome == [how |-> "index", at |-> 0, rev |-> NoRevision]

Reader == [pc : {"idle", "layout", "build", "opened", "clear", "wait", "fresh", "got"},
           lay : Layouts, token : Token, rec : BOOLEAN, out : Outcome,
           at : Nat, memo : BOOLEAN, shown : Nat]

Worker == [pc : {"idle", "start", "token", "opened", "done"},
           job : Loops \cup {"apply"}, owned : BOOLEAN, lay : Layouts,
           token : Token, out : Outcome, covers : Nat, gen : Nat]

Frame == [gen : Nat, covers : Nat]

-----------------------------------------------------------------------------
(***************************************************************************)
(* ReadState under its lock.                                               *)
(***************************************************************************)

\* _advance_locked.
Advanced(s) == [s EXCEPT !.gen = @ + 1, !.slot = NoSlot]

\* _stale_locked.
Staled(s) == [s EXCEPT !.stale = TRUE, !.epoch = @ + 1]

\* _adopt_locked.
Adopted(s, i) ==
    IF s.identity = NoLayout THEN [s EXCEPT !.identity = i]
    ELSE IF s.identity = i THEN s
    ELSE Advanced(Staled([s EXCEPT !.identity = i, !.base = NoRevision]))

\* The key and stale epoch a thread takes away from the lock.
TokenOf(s) == [id |-> s.identity, gen |-> s.gen, epoch |-> s.epoch]

\* _current_locked.
Current(s, t) == t = TokenOf(s)

\* session(): this caller builds the snapshot.
Builds(s) == s.slot.state = "none" \/ s.slot.id # s.identity \/ s.slot.gen # s.gen

\* _build after the snapshot: a reconciled index settles the baseline.
BuiltState(s, reader) ==
    IF Current(s, reader.token) /\ reader.rec /\ reader.out.how = "index"
    THEN [s EXCEPT !.stale = FALSE, !.base = reader.out.rev]
    ELSE s

\* The future of the slot, if it is this builder's, completes.
Completed(s, t, state, at) ==
    IF s.slot.state = "pending" /\ s.slot.id = t.id /\ s.slot.gen = t.gen
    THEN [s EXCEPT !.slot = [@ EXCEPT !.state = state, !.at = at]]
    ELSE s

\* Mutant: the event write_through makes up is not taken for a page event.
PagesOfFlush(job) == job = "bundle"

\* What the batch of a job holds.
Pages(job)  == job \in {"bundle", "apply"}
Config(job) == job = "config"

\* Mutant: the baseline is replaced before the revision is compared with it.
ReconciledTooSoon(s, w) ==
    IF ~Current(s, w.token) THEN s
    ELSE IF Config(w.job) THEN Advanced(s)
    ELSE IF w.out.how # "index" THEN Advanced(Staled(s))
    ELSE [s EXCEPT !.base = w.out.rev, !.stale = FALSE]

\* _reconcile after the opener returned or raised.
Reconciled(s, w) ==
    IF ~Current(s, w.token) THEN s
    ELSE IF Config(w.job) THEN Advanced(s)
    ELSE IF w.out.how # "index" THEN Advanced(Staled(s))
    ELSE LET settled == [s EXCEPT !.base = w.out.rev, !.stale = FALSE]
         IN  IF w.out.rev # s.base THEN Advanced(settled) ELSE settled

-----------------------------------------------------------------------------
(***************************************************************************)
(* open_read_session.                                                      *)
(***************************************************************************)

\* readindex.reconcile: a generation is added only when a digest changed.  A
\* database that was just created is reconciled whatever the caller asked for.
Refreshed(i, rec) ==
    LET old == index[i] IN
    IF old.rev = 0 THEN [rev |-> 1, at |-> Version]
    ELSE IF rec /\ history[old.at] # history[Version]
         THEN [rev |-> old.rev + 1, at |-> Version]
         ELSE old

\* What an open may answer: the index, a full load because the index is
\* disabled, a full load because the index was busy or broken, an exception.
Outcomes(i, rec) ==
    (IF enabled
     THEN {[how |-> "index", at |-> Refreshed(i, rec).at,
            rev |-> [db |-> i, rev |-> Refreshed(i, rec).rev]]}
     ELSE {[how |-> "bundle", at |-> Version, rev |-> NoRevision]})
    \cup
    (IF faults < MaxFaults
     THEN {[how |-> h, at |-> Version, rev |-> NoRevision] :
              h \in IF enabled THEN {"busy", "raises"} ELSE {"raises"}}
     ELSE {})

\* A step that opens the index with outcome o.  An exception may come before or
\* after the index was refreshed.
Opens(i, rec, o) ==
    /\ o \in Outcomes(i, rec)
    /\ \/ /\ o.how = "index" \/ (o.how = "raises" /\ enabled)
          /\ index' = [index EXCEPT ![i] = Refreshed(i, rec)]
       \/ /\ o.how # "index"
          /\ UNCHANGED index
    /\ faults' = IF o.how \in {"busy", "raises"} THEN faults + 1 ELSE faults

-----------------------------------------------------------------------------
(***************************************************************************)
(* ReadState.session: one request.                                         *)
(***************************************************************************)

\* The endpoint resolves the layout before session() takes the lock.
Request(r) ==
    /\ rd[r].pc = "idle"
    /\ rd' = [rd EXCEPT ![r] = [@ EXCEPT !.pc = "layout", !.lay = layout]]
    /\ dirty' = dirty \ {r}
    /\ UNCHANGED <<files, rs, op, wk, watch, announced, acks, bounds>>

\* session() under the lock: adopt the identity, then build the snapshot of
\* this key or share the future of the one who does.
Session(r) ==
    LET s      == Adopted(rs, rd[r].lay)
        joined == [rd[r] EXCEPT !.token = TokenOf(s)]
    IN
    /\ rd[r].pc = "layout"
    /\ IF Builds(s)
       THEN /\ rs' = [s EXCEPT !.slot = [state |-> "pending", id |-> s.identity,
                                         gen |-> s.gen, at |-> 0]]
            /\ rd' = [rd EXCEPT ![r] = [joined EXCEPT !.pc = "build", !.rec = s.stale]]
       ELSE /\ rs' = s
            /\ rd' = [rd EXCEPT ![r] =
                        CASE s.slot.state = "pending" -> [joined EXCEPT !.pc = "wait"]
                          [] s.slot.state = "done" ->
                                [joined EXCEPT !.pc = "got", !.at = s.slot.at,
                                               !.memo = TRUE]
                          [] OTHER -> [joined EXCEPT !.pc = "fresh"]]
    /\ UNCHANGED <<files, op, wk, watch, clients, bounds>>

\* _build takes the operation lock and opens the index.
BuildOpen(r) ==
    /\ rd[r].pc = "build"
    /\ op = Nobody
    /\ op' = r
    /\ \E o \in Outcomes(rd[r].lay, rd[r].rec) :
          /\ Opens(rd[r].lay, rd[r].rec, o)
          /\ rd' = [rd EXCEPT ![r] = [@ EXCEPT !.pc = "opened", !.out = o]]
    /\ UNCHANGED <<history, layout, enabled, rs, wk, watch, clients,
                   applies, configs, errors>>

\* Those who share the future that r completes.
Waiting(r) == {q \in Readers : rd[q].pc = "wait" /\ rd[q].token.id = rd[r].token.id
                               /\ rd[q].token.gen = rd[r].token.gen}

\* _build ends: the state is updated if the token is still current, the
\* operation lock is released and the future gets the snapshot.
BuildFinish(r) ==
    LET at == rd[r].out.at IN
    /\ rd[r].pc = "opened"
    /\ rd[r].out.how # "raises"
    /\ rs' = Completed(BuiltState(rs, rd[r]), rd[r].token, "done", at)
    /\ op' = Nobody
    /\ rd' = [q \in Readers |->
                IF q \in Waiting(r) \cup {r}
                THEN [rd[q] EXCEPT !.pc = "got", !.at = at, !.memo = TRUE,
                                   !.out = NoOutcome]
                ELSE rd[q]]
    /\ UNCHANGED <<files, wk, watch, clients, bounds>>

\* _build raises: the operation lock is released and the future gets the
\* exception, which sends everyone who shares it to a fresh read.
BuildRaise(r) ==
    /\ rd[r].pc = "opened"
    /\ rd[r].out.how = "raises"
    /\ rs' = Completed(rs, rd[r].token, "failed", 0)
    /\ op' = Nobody
    /\ rd' = [q \in Readers |->
                IF q = r THEN [rd[q] EXCEPT !.pc = "clear", !.out = NoOutcome]
                ELSE IF q \in Waiting(r) THEN [rd[q] EXCEPT !.pc = "fresh"]
                ELSE rd[q]]
    /\ UNCHANGED <<files, wk, watch, clients, bounds>>

\* The builder takes its failed future out of the slot.
BuildClear(r) ==
    LET mine == rs.slot.id = rd[r].token.id /\ rs.slot.gen = rd[r].token.gen IN
    /\ rd[r].pc = "clear"
    /\ rs' = IF mine THEN [rs EXCEPT !.slot = NoSlot] ELSE rs
    /\ rd' = [rd EXCEPT ![r] = [@ EXCEPT !.pc = "fresh"]]
    /\ UNCHANGED <<files, op, wk, watch, clients, bounds>>

\* The fallback of session(): an open of its own, under the operation lock.  An
\* exception here is the handler's 500, after which the client asks again.
FreshOpen(r) ==
    /\ rd[r].pc = "fresh"
    /\ op = Nobody
    /\ \E o \in Outcomes(rd[r].lay, TRUE) :
          /\ Opens(rd[r].lay, TRUE, o)
          /\ rd' = [rd EXCEPT ![r] =
                      IF o.how = "raises" THEN [@ EXCEPT !.pc = "idle", !.token = Blank, !.rec = FALSE]
                      ELSE [@ EXCEPT !.pc = "got", !.at = o.at]]
          /\ dirty' = IF o.how = "raises" THEN dirty \cup {r} ELSE dirty
    /\ UNCHANGED <<history, layout, enabled, rs, op, wk, watch, announced, acks,
                   applies, configs, errors>>

\* The reply, stamped with the generation of the key, reaches the client.
Reply(r) ==
    /\ rd[r].pc = "got"
    /\ rd' = [rd EXCEPT ![r] = [@ EXCEPT !.pc = "idle", !.token = Blank, !.rec = FALSE,
                                         !.shown = rd[r].at, !.at = 0, !.memo = FALSE]]
    /\ UNCHANGED <<files, rs, op, wk, watch, clients, bounds>>

-----------------------------------------------------------------------------
(***************************************************************************)
(* ReadState._reconcile, in a worker thread of a flush or of an apply.     *)
(***************************************************************************)

\* The operation lock, then the state lock: the identity is adopted and a batch
\* that holds a config event makes the state stale.
RecStart(w) ==
    LET a == Adopted(rs, wk[w].lay)
        s == IF Config(wk[w].job) THEN Staled(a) ELSE a
    IN
    /\ wk[w].pc = "start"
    /\ op = Nobody
    /\ op' = w
    /\ rs' = s
    /\ wk' = [wk EXCEPT ![w] = [@ EXCEPT !.pc = "token", !.token = TokenOf(s)]]
    /\ UNCHANGED <<files, rd, watch, clients, bounds>>

\* A batch with a page event opens and reconciles the index.
RecOpen(w) ==
    /\ wk[w].pc = "token"
    /\ IF Pages(wk[w].job)
       THEN \E o \in Outcomes(wk[w].lay, TRUE) :
               /\ Opens(wk[w].lay, TRUE, o)
               /\ wk' = [wk EXCEPT ![w] = [@ EXCEPT !.pc = "opened", !.out = o]]
       ELSE /\ wk' = [wk EXCEPT ![w] = [@ EXCEPT !.pc = "opened"]]
            /\ UNCHANGED <<index, faults>>
    /\ UNCHANGED <<history, layout, enabled, rs, op, rd, watch, clients,
                   applies, configs, errors>>

\* The end of _reconcile, whatever the opener did.
RecFinish(w) ==
    LET s == Reconciled(rs, wk[w]) IN
    /\ wk[w].pc = "opened"
    /\ rs' = s
    /\ op' = Nobody
    /\ wk' = [wk EXCEPT ![w] = [@ EXCEPT !.pc = "done", !.gen = s.gen,
                                         !.token = Blank, !.out = NoOutcome]]
    /\ UNCHANGED <<files, rd, watch, clients, bounds>>

Rested(w) == [wk EXCEPT ![w] = [@ EXCEPT !.pc = "idle", !.owned = FALSE,
                                         !.covers = 0, !.gen = 0]]

\* flush(): publish the batch, release the flush lock.  A manifest event that
\* moves the watch sets ends the loops.
Publish(w) ==
    LET job == wk[w].job
        moves == Config(job) /\ layout # watched
    IN
    /\ wk[w].pc = "done"
    /\ wk[w].owned
    /\ announced' = announced \cup {[gen |-> wk[w].gen, covers |-> wk[w].covers]}
    /\ dirty' = Readers
    /\ wk' = Rested(w)
    /\ lp' = [lp EXCEPT ![job] = "idle"]
    /\ flushing' = Nobody
    /\ watched' = IF moves THEN layout ELSE watched
    /\ watcher' = IF moves THEN "ending" ELSE watcher
    /\ UNCHANGED <<files, rs, op, rd, raw, acks, bounds>>

\* A thread whose flush was cancelled runs to its end; nobody reads its result.
Forgotten(w) ==
    /\ wk[w].pc = "done"
    /\ ~wk[w].owned
    /\ wk[w].job # "apply"
    /\ wk' = Rested(w)
    /\ UNCHANGED <<files, rs, op, rd, watch, clients, bounds>>

\* The 200 of an apply, with the generation write_through returned.
ApplyReply ==
    /\ wk[Applier].pc = "done"
    /\ acks' = acks \cup {[gen |-> wk[Applier].gen, covers |-> wk[Applier].covers]}
    /\ wk' = Rested(Applier)
    /\ UNCHANGED <<files, rs, op, rd, watch, dirty, announced, bounds>>

-----------------------------------------------------------------------------
(***************************************************************************)
(* watch_workspace and flush.                                              *)
(***************************************************************************)

\* watchfiles yields what a loop has gathered; flush() waits for the lock.
TakeBatch(l) ==
    /\ watcher = "up"
    /\ l \in raw
    /\ lp[l] = "idle"
    /\ raw' = raw \ {l}
    /\ lp' = [lp EXCEPT ![l] = "queued"]
    /\ UNCHANGED <<files, rs, op, rd, wk, flushing, watcher, watched, clients, bounds>>

\* flush() with the lock: the layout is resolved again and a thread started.
FlushStart(l, w) ==
    /\ lp[l] = "queued"
    /\ flushing = Nobody
    /\ wk[w].pc = "idle"
    /\ flushing' = w
    /\ lp' = [lp EXCEPT ![l] = "running"]
    /\ wk' = [wk EXCEPT ![w] = [@ EXCEPT !.pc = "start", !.job = l, !.owned = TRUE,
                                         !.lay = layout,
                                         !.covers = IF l = "bundle" THEN Version ELSE 1]]
    /\ UNCHANGED <<files, rs, op, rd, raw, watcher, watched, clients, bounds>>

\* A loop raises.  The task group cancels both loops: a batch that waits is
\* dropped, a thread that runs goes on unattended.
WatcherError ==
    /\ watcher = "up"
    /\ errors < MaxErrors
    /\ \E l \in Loops : lp[l] = "idle"
    /\ watcher' = "stopped"
    /\ raw' = {}
    /\ lp' = [l \in Loops |-> "idle"]
    /\ flushing' = Nobody
    /\ wk' = [w \in Workers |-> [wk[w] EXCEPT !.owned = FALSE]]
    /\ errors' = errors + 1
    /\ UNCHANGED <<files, rs, op, rd, watched, clients, applies, configs, faults>>

\* The loops end after a manifest event; a flush under way is finished first.
LoopsEnd ==
    /\ watcher = "ending"
    /\ \A l \in Loops : lp[l] = "idle"
    /\ watcher' = "stopped"
    /\ raw' = {}
    /\ UNCHANGED <<files, rs, op, rd, wk, lp, flushing, watched, clients, bounds>>

\* mark_stale().
MarkStale ==
    /\ watcher = "stopped"
    /\ watcher' = "marked"
    /\ rs' = Staled(rs)
    /\ UNCHANGED <<files, op, rd, wk, raw, lp, flushing, watched, clients, bounds>>

\* hub.resync(..., advance("resync")).
Resync ==
    /\ watcher = "marked"
    /\ watcher' = "down"
    /\ rs' = Advanced(rs)
    /\ dirty' = Readers
    /\ UNCHANGED <<files, op, rd, wk, raw, lp, flushing, watched, announced, acks, bounds>>

\* The backoff, if any, is over and watchfiles watches again.
StartWatch ==
    /\ watcher = "down"
    /\ watcher' = "up"
    /\ UNCHANGED <<files, rs, op, rd, wk, raw, lp, flushing, watched, clients, bounds>>

-----------------------------------------------------------------------------
(***************************************************************************)
(* The files.                                                              *)
(***************************************************************************)

\* Mutant: a change made while the loop flushes is not reported.
SeenAtRest(l) == IF watcher = "up" /\ lp[l] = "idle" THEN raw \cup {l} ELSE raw

\* watchfiles reports a change only while it watches.
Seen(l) == IF watcher = "up" THEN raw \cup {l} ELSE raw

\* What an edit may leave in the bundle: a content it never held, which the
\* number of the new version names, or an earlier one.
NewContents ==
    {Version + 1} \cup
    (IF Reverts THEN {history[v] : v \in 1..Version} \ {history[Version]} ELSE {})

\* A page is edited, by another process or by an apply that ends incomplete.
Edit ==
    /\ Version - applies <= MaxEdits
    /\ \E c \in NewContents : history' = Append(history, c)
    /\ raw' = Seen("bundle")
    /\ UNCHANGED <<layout, enabled, index, rs, op, rd, wk, lp, flushing, watcher,
                   watched, clients, bounds>>

\* The manifest moves the cache directory.
MoveCache ==
    /\ configs < MaxConfigs
    /\ \E i \in Layouts \ {layout} : layout' = i
    /\ configs' = configs + 1
    /\ raw' = Seen("config")
    /\ UNCHANGED <<history, enabled, index, rs, op, rd, wk, lp, flushing, watcher,
                   watched, clients, applies, faults, errors>>

\* read_index.enabled is switched.
SwitchIndex ==
    /\ configs < MaxConfigs
    /\ enabled' = ~enabled
    /\ configs' = configs + 1
    /\ raw' = Seen("config")
    /\ UNCHANGED <<history, layout, index, rs, op, rd, wk, lp, flushing, watcher,
                   watched, clients, applies, faults, errors>>

\* A command in another process opens a read session and reconciles the index.
OtherReconcile ==
    /\ enabled
    /\ Refreshed(layout, TRUE) # index[layout]
    /\ index' = [index EXCEPT ![layout] = Refreshed(layout, TRUE)]
    /\ UNCHANGED <<history, layout, enabled, rs, op, rd, wk, watch, clients, bounds>>

\* _apply writes the plan and calls write_through.
ApplyWrite ==
    /\ wk[Applier].pc = "idle"
    /\ applies < MaxApplies
    /\ \E c \in NewContents : history' = Append(history, c)
    /\ applies' = applies + 1
    /\ raw' = Seen("bundle")
    /\ wk' = [wk EXCEPT ![Applier] = [@ EXCEPT !.pc = "start", !.lay = layout,
                                               !.covers = Version + 1]]
    /\ UNCHANGED <<layout, enabled, index, rs, op, rd, lp, flushing, watcher, watched,
                   clients, configs, faults, errors>>

-----------------------------------------------------------------------------
(***************************************************************************)
(* Specification.                                                          *)
(***************************************************************************)
Init ==
    /\ history = <<1>>
    /\ layout \in Layouts
    /\ enabled = TRUE
    /\ index = [i \in Layouts |-> [rev |-> 0, at |-> 0]]
    /\ rs = [gen |-> 1, identity |-> NoLayout, slot |-> NoSlot, stale |-> TRUE,
             base |-> NoRevision, epoch |-> 0]
    /\ op = Nobody
    /\ rd = [r \in Readers |-> [pc |-> "idle", lay |-> layout, token |-> Blank,
                                rec |-> FALSE, out |-> NoOutcome, at |-> 0,
                                memo |-> FALSE, shown |-> 0]]
    /\ wk = [w \in Workers |-> [pc |-> "idle", owned |-> FALSE, lay |-> layout,
                                job |-> IF w = Applier THEN "apply" ELSE "bundle",
                                token |-> Blank, out |-> NoOutcome, covers |-> 0, gen |-> 0]]
    /\ raw = {}
    /\ lp = [l \in Loops |-> "idle"]
    /\ flushing = Nobody
    /\ watcher = "up"
    /\ watched = layout
    /\ dirty = Readers
    /\ announced = {}
    /\ acks = {}
    /\ applies = 0 /\ configs = 0 /\ faults = 0 /\ errors = 0

Handler(r) ==
    \/ Session(r) \/ BuildOpen(r) \/ BuildFinish(r) \/ BuildRaise(r)
    \/ BuildClear(r) \/ FreshOpen(r) \/ Reply(r)

Reconcile(w) == RecStart(w) \/ RecOpen(w) \/ RecFinish(w)

Flush ==
    \/ \E l \in Loops : TakeBatch(l)
    \/ \E l \in Loops, w \in Threads : FlushStart(l, w)
    \/ \E w \in Threads : Publish(w) \/ Forgotten(w)

Restart == LoopsEnd \/ MarkStale \/ Resync \/ StartWatch

Disk == Edit \/ MoveCache \/ SwitchIndex \/ OtherReconcile \/ ApplyWrite

Next ==
    \/ \E r \in Readers : Request(r) \/ Handler(r)
    \/ \E w \in Workers : Reconcile(w)
    \/ Flush \/ ApplyReply \/ WatcherError \/ Restart \/ Disk

Spec == Init /\ [][Next]_vars

\* Threads run on, tasks of the event loop are scheduled, a client fetches what
\* it was told of, and watchfiles yields what it saw.
Fairness ==
    /\ \A r \in Readers : WF_vars(Handler(r)) /\ WF_vars(r \in dirty /\ Request(r))
    /\ \A w \in Workers : WF_vars(Reconcile(w))
    /\ WF_vars(Flush) /\ WF_vars(ApplyReply) /\ WF_vars(Restart)

FairSpec == Spec /\ Fairness

-----------------------------------------------------------------------------
(***************************************************************************)
(* Properties.                                                             *)
(***************************************************************************)

\* The types of the variables.
TypeOK ==
    /\ history \in Seq(Nat) /\ history # <<>>
    /\ layout \in Layouts /\ watched \in Layouts
    /\ enabled \in BOOLEAN
    /\ index \in [Layouts -> [rev : Nat, at : Nat]]
    /\ rs \in ReadState
    /\ op \in Readers \cup Workers \cup {Nobody}
    /\ rd \in [Readers -> Reader]
    /\ wk \in [Workers -> Worker]
    /\ raw \subseteq Loops
    /\ lp \in [Loops -> {"idle", "queued", "running"}]
    /\ flushing \in Threads \cup {Nobody}
    /\ watcher \in {"up", "ending", "stopped", "marked", "down"}
    /\ dirty \subseteq Readers
    /\ announced \subseteq Frame /\ acks \subseteq Frame
    /\ applies \in Nat /\ configs \in Nat /\ faults \in Nat /\ errors \in Nat

\* Version v of the bundle holds what the bundle held at version w or later.
AsNew(v, w) == \E u \in w..Version : history[u] = history[v]

\* A reply that carries generation g shows every change that a frame announced
\* with generation g or less: what test_get_after_frame_sees_edit asks of one
\* edit, for every interleaving of handlers, flushes, applies and the watcher.
StampCovers ==
    \A r \in Readers : rd[r].memo =>
        \A f \in announced : f.gen <= rd[r].token.gen => AsNew(rd[r].at, f.covers)

\* A reply that carries the generation of an apply's reply, or a later one,
\* shows what the apply wrote.
ApplyCovers ==
    \A r \in Readers : rd[r].memo =>
        \A a \in acks : a.gen <= rd[r].token.gen => AsNew(rd[r].at, a.covers)

\* Every edit reaches every client that fetches when it is told to.
ClientsCatchUp ==
    <>[](\A r \in Readers : rd[r].shown > 0 /\ history[rd[r].shown] = history[Version])
=============================================================================

------------------------------ MODULE GateRun ------------------------------
(***************************************************************************)
(* gw-orchestrate: the workspace-wide index of gate runs.                  *)
(*                                                                         *)
(* `gw work gate run` joins a live run of the same key or writes a record  *)
(* and spawns a detached runner for it; `gw work gate wait` reports the    *)
(* outcome.  The processes share nothing but files: one JSON record per    *)
(* run, replaced atomically under .dir.lock; one lock file per record,     *)
(* held by its runner for life and probed by everybody else as the only    *)
(* sign of life; the slot locks; the receipts of the work items.  Every    *)
(* process may stop at any instruction, which frees its locks.             *)
(*                                                                         *)
(* A read-modify-write under .dir.lock is one step.  What is done outside  *)
(* of it (probe, read, decide, spawn, send a wake) is cut wherever another *)
(* process can come between.                                               *)
(***************************************************************************)
EXTENDS Integers, FiniteSets

CONSTANTS
    Items,        \* work items; each has one terminal and makes one call at a time
    RunIds,       \* run ids, numbers in the order of their names
    Keys,         \* RunKey: repository, tree, full scope, command, request
    Options,      \* the options of gate run this instance uses
    Limit,        \* gate.max_concurrent, 0 when it is not set
    Grace,        \* START_GRACE, in clock units
    PruneAfter,   \* PRUNE_AFTER, in clock units
    MaxTime,      \* bound: the clock
    LastCall,     \* bound: the latest time at which a call begins
    MaxCalls,     \* bound: CLI calls of one item
    MaxCrashes,   \* bound: processes killed, and calls of a runner that raise
    MaxRefusals,  \* bound: receipts refused and wakes that fail
    MaxSlow       \* bound: spawns that time out or fail

NoItem == "none"
NoRun  == 0

ASSUME GateAssumption ==
    /\ RunIds \subseteq Nat
    /\ Keys # {}
    /\ Items \cap RunIds = {} /\ NoItem \notin Items
    /\ Options \subseteq {"fresh", "notify"}
    /\ Limit \in Nat
    /\ Grace \in Nat
    /\ PruneAfter \in Nat
    /\ MaxTime \in Nat
    /\ LastCall \in Nat
    /\ MaxCalls \in Nat
    /\ MaxCrashes \in Nat
    /\ MaxRefusals \in Nat
    /\ MaxSlow \in Nat

VARIABLES
    clock,
    \* --- the run index: one field of the record per variable
    records,       \* ids whose record file exists
    born,          \* ids ever written
    key, started, requesters, fresh, runner_started, status, result,
    recorded_for, skipped_for, recorded,
    woken,         \* the wake of item i's waiter on run r, at <<r, i>>
    \* --- the rest of the disk
    receipts,      \* <<item, run>>: the run is in the item's gate receipt
    verdict,       \* how the command of the run ended: what its receipts say
    closed,        \* items whose work status is terminal
    \* --- the runners, one per id
    rpc,           \* where the runner is
    slots,         \* runners holding a slot lock
    \* --- the CLI calls, one per item
    cpc,           \* where the call is
    now,           \* the time the call was given when it began
    want,          \* the key it asks for
    flags,         \* what it is: "wait", or a gate run with "fresh" and "notify"
    run,           \* the record it works on
    seen,          \* what its last liveness probe said
    sweep,         \* records recover_unrecorded has still to visit
    answer,        \* what it returned
    refused,       \* its attempt to record on its own item was refused
    \* --- record_requesters and wake_waiters, in a runner or in a call
    todo,          \* items still to record or to wake
    hand,          \* the item recorded or woken and not settled in the record yet
    \* --- bounds
    calls, crashes, refusals, slow

index   == <<records, born, key, started, requesters, fresh, runner_started,
             status, result, recorded_for, skipped_for, recorded, woken>>
disk    == <<receipts, verdict, closed>>
runners == <<rpc, slots>>
callers == <<cpc, now, want, flags, run, seen, sweep, answer, refused>>
loops   == <<todo, hand>>
bounds  == <<calls, crashes, refusals, slow>>
vars    == <<clock, index, disk, runners, callers, loops, bounds>>

-----------------------------------------------------------------------------
(***************************************************************************)
(* Data.                                                                   *)
(***************************************************************************)

\* The results with an integer exit: a green run, a red one, and one whose tree
\* was not the recorded one when it ended.
Exits == {"pass", "fail", "changed"}

\* "error" is a result without an exit; "satisfied" one with satisfied_by.
Results == Exits \cup {"none", "error", "satisfied"}

\* A waiter's wake: "absent" is no waiter, "unset" one with woken None.
Wakes == {"absent", "unset", "delivered", "failed", "collected"}
SETTLED_WAKES == {"delivered", "collected"}

Processes == Items \cup RunIds

\* The places of a runner while it holds its record's lock.
Locked == {"locked", "starting", "queue", "head", "recheck", "satisfied", "moved",
           "launch", "command", "record", "recording", "wake", "waking",
           "woke", "unheard"}

RunnerPlaces == Locked \cup {"none", "boot", "gone"}

CallPlaces == {"idle", "recover", "recovering", "join", "spawn", "await", "failed",
               "unheld", "unheard", "probe", "read", "recording", "collect"}

Answers == {"none", "satisfied", "joined", "started", "runner-failed", "no-run",
            "finished", "orphaned", "no-result", "running"}

Held(r) == rpc[r] \in Locked

\* Mutant: a record that was never started stays alive for ever.
LiveInForever(X, r, t) ==
    r \in X \/ (~runner_started[r] /\ result[r] = "none" /\ 0 <= t - started[r])

\* _read_live, given the records whose lock the probe found held.
LiveIn(X, r, t) ==
    \/ r \in X
    \/ /\ ~runner_started[r]
       /\ result[r] = "none"
       /\ 0 <= t - started[r]
       /\ t - started[r] <= Grace

HeldRecords == {r \in records : Held(r)}

\* Another process of the index, which may be holding a lock for its own probe.
Probing(i) ==
    \/ \E j \in Items \ {i} : cpc[j] \in {"recover", "join", "failed", "probe"}
    \/ \E r \in RunIds : rpc[r] = "queue"

\* _alive takes the lock to see whether it is free, so two probes of one lock at
\* once find each other.
Probes(i) ==
    IF Probing(i) THEN {X \in SUBSET records : HeldRecords \subseteq X} ELSE {HeldRecords}

\* Mutants: a finished record is still joined; a dead one still counts.
LivePendingFinished(X, t) == {r \in records : LiveIn(X, r, t)}

LivePendingDead(X, t) == {r \in records : result[r] = "none"}

\* live_pending.
LivePending(X, t) == {r \in records : LiveIn(X, r, t) /\ result[r] = "none"}

\* _order: (started, run_id).
Before(r, s) ==
    \/ started[r] < started[s]
    \/ started[r] = started[s] /\ r < s

Oldest(r, S) == r \in S /\ \A s \in S \ {r} : Before(r, s)
Newest(r, S) == r \in S /\ \A s \in S \ {r} : Before(s, r)

\* _settled.
Settled(r) == recorded_for[r] \cup skipped_for[r]

\* evaluate: the evidence is a green, tree-unchanged run in some item's receipt.
Satisfied(k) == \E p \in receipts : key[p[2]] = k /\ verdict[p[2]] = "pass"

\* Mutant: a delivered wake is still owed.
OwedAlways(r, i) == woken[<<r, i>>] # "absent"

\* _owed.
Owed(r, i) == woken[<<r, i>>] \in {"unset", "failed"}

\* _wait_state, as gate_wait_facts reports it: what the coordinator reads about the
\* worker of item i parked on run r.
WaitState(r, i) ==
    IF woken[<<r, i>>] \in SETTLED_WAKES THEN "woken"
    ELSE LET alive == LiveIn(HeldRecords, r, clock) IN
         IF result[r] = "none" THEN IF alive THEN "running" ELSE "orphaned"
         ELSE IF woken[<<r, i>>] = "failed" \/ ~alive THEN "wake_failed" ELSE "running"

-----------------------------------------------------------------------------
Init ==
    /\ clock = 0
    /\ records = {}
    /\ born = {}
    /\ key \in [RunIds -> {CHOOSE k \in Keys : TRUE}]
    /\ started = [r \in RunIds |-> 0]
    /\ requesters = [r \in RunIds |-> {}]
    /\ fresh = [r \in RunIds |-> FALSE]
    /\ runner_started = [r \in RunIds |-> FALSE]
    /\ status = [r \in RunIds |-> "queued"]
    /\ result = [r \in RunIds |-> "none"]
    /\ recorded_for = [r \in RunIds |-> {}]
    /\ skipped_for = [r \in RunIds |-> {}]
    /\ recorded = [r \in RunIds |-> FALSE]
    /\ woken = [w \in RunIds \X Items |-> "absent"]
    /\ receipts = {}
    /\ verdict = [r \in RunIds |-> "none"]
    /\ closed = {}
    /\ rpc = [r \in RunIds |-> "none"]
    /\ slots = {}
    /\ cpc = [i \in Items |-> "idle"]
    /\ now = [i \in Items |-> 0]
    /\ want \in [Items -> {CHOOSE k \in Keys : TRUE}]
    /\ flags = [i \in Items |-> {}]
    /\ run = [i \in Items |-> NoRun]
    /\ seen = [i \in Items |-> FALSE]
    /\ sweep = [i \in Items |-> {}]
    /\ answer = [i \in Items |-> "none"]
    /\ refused = [i \in Items |-> FALSE]
    /\ todo = [p \in Processes |-> {}]
    /\ hand = [p \in Processes |-> NoItem]
    /\ calls = [i \in Items |-> 0]
    /\ crashes = 0
    /\ refusals = 0
    /\ slow = 0

Tick ==
    /\ clock < MaxTime
    /\ clock' = clock + 1
    /\ UNCHANGED <<index, disk, runners, callers, loops, bounds>>

\* Elsewhere the work item reaches a terminal status.
CloseItem(i) ==
    /\ i \notin closed
    /\ refusals < MaxRefusals
    /\ refusals' = refusals + 1
    /\ closed' = closed \cup {i}
    /\ UNCHANGED <<clock, index, receipts, verdict, runners, callers, loops, calls,
                   crashes, slow>>

-----------------------------------------------------------------------------
(***************************************************************************)
(* record_requesters: process p, a runner or a call, records run r on its  *)
(* requesters, one receipt and one update of the record after the other.   *)
(***************************************************************************)

StartRecording(p, r) == todo' = [todo EXCEPT ![p] = requesters[r] \ Settled(r)]

\* Mutant: the first requester settled completes the record.
SettleAll(r, done, skipped) ==
    /\ recorded_for' = [recorded_for EXCEPT ![r] = @ \cup done]
    /\ skipped_for' = [skipped_for EXCEPT ![r] = @ \cup skipped]
    /\ recorded' = [recorded EXCEPT ![r] = TRUE]

\* One update of the record: _settle.
Settle(r, done, skipped) ==
    /\ recorded_for' = [recorded_for EXCEPT ![r] = @ \cup done]
    /\ skipped_for' = [skipped_for EXCEPT ![r] = @ \cup skipped]
    /\ recorded' = [recorded EXCEPT
                       ![r] = requesters[r] \subseteq Settled(r) \cup done \cup skipped]

\* record_gate_run appends the run to q's receipt, once per run id.
RecordReceipt(p, r, q) ==
    /\ q \in todo[p]
    /\ hand[p] = NoItem
    /\ q \notin closed
    /\ receipts' = receipts \cup {<<q, r>>}
    /\ todo' = [todo EXCEPT ![p] = @ \ {q}]
    /\ hand' = [hand EXCEPT ![p] = q]
    /\ UNCHANGED <<clock, index, verdict, closed, runners, callers, bounds>>

\* "owner-terminal" is final: q is settled without a receipt.
RecordSkip(p, r, q) ==
    /\ q \in todo[p]
    /\ hand[p] = NoItem
    /\ q \in closed
    /\ r \in records
    /\ Settle(r, {}, {q})
    /\ todo' = [todo EXCEPT ![p] = @ \ {q}]
    /\ UNCHANGED <<clock, records, born, key, started, requesters, fresh, runner_started,
                   status, result, woken, disk, runners, callers, hand, bounds>>

\* Every attempt was refused for another reason: q stays unsettled.
RecordRefused(p, r, q) ==
    /\ q \in todo[p]
    /\ hand[p] = NoItem
    /\ refusals < MaxRefusals
    /\ refusals' = refusals + 1
    /\ todo' = [todo EXCEPT ![p] = @ \ {q}]
    /\ refused' = [i \in Items |-> refused[i] \/ (i = p /\ i = q)]
    /\ UNCHANGED <<clock, index, disk, runners, cpc, now, want, flags, run, seen, sweep,
                   answer, hand, calls, crashes, slow>>

RecordSettle(p, r) ==
    /\ hand[p] # NoItem
    /\ r \in records
    /\ Settle(r, {hand[p]}, {})
    /\ hand' = [hand EXCEPT ![p] = NoItem]
    /\ UNCHANGED <<clock, records, born, key, started, requesters, fresh, runner_started,
                   status, result, woken, disk, runners, callers, todo, bounds>>

Recording(p, r) ==
    \/ RecordSettle(p, r)
    \/ \E q \in Items :
          RecordReceipt(p, r, q) \/ RecordSkip(p, r, q) \/ RecordRefused(p, r, q)

\* Mutant: the last receipt is taken for settled.
RecordingDoneEarly(p) == todo[p] = {}

RecordingDone(p) == todo[p] = {} /\ hand[p] = NoItem

\* update_record raises: the record was pruned after another process recorded it.
RecordGone(p, r) == r \notin records /\ (hand[p] # NoItem \/ todo[p] \cap closed # {})

-----------------------------------------------------------------------------
(***************************************************************************)
(* A CLI call of item i.  Steps that only move the call on, or end it.     *)
(***************************************************************************)

GoOn(i, place) ==
    /\ cpc' = [cpc EXCEPT ![i] = place]
    /\ UNCHANGED <<now, flags, answer>>

\* The process ends: what it was called with is forgotten.
Return(i, what) ==
    /\ cpc' = [cpc EXCEPT ![i] = "idle"]
    /\ now' = [now EXCEPT ![i] = 0]
    /\ flags' = [flags EXCEPT ![i] = {}]
    /\ answer' = [answer EXCEPT ![i] = what]

\* recover_unrecorded only stops at records naming the item that are not recorded
\* yet, and no other call can make one of those.
Begin(i, r, place) ==
    /\ cpc[i] = "idle"
    /\ clock <= LastCall
    /\ calls[i] < MaxCalls
    /\ calls' = [calls EXCEPT ![i] = @ + 1]
    /\ now' = [now EXCEPT ![i] = clock]
    /\ run' = [run EXCEPT ![i] = r]
    /\ sweep' = [sweep EXCEPT
                    ![i] = IF place = "recover"
                           THEN {s \in records : i \in requesters[s] /\ ~recorded[s]} ELSE {}]
    /\ answer' = [answer EXCEPT ![i] = "none"]
    /\ refused' = [refused EXCEPT ![i] = FALSE]
    /\ cpc' = [cpc EXCEPT ![i] = place]
    /\ UNCHANGED <<clock, index, disk, runners, seen, loops, crashes, refusals, slow>>

\* `gate run [--fresh] [--notify]`.
RunBegin(i, k, f) ==
    /\ Begin(i, NoRun, "recover")
    /\ want' = [want EXCEPT ![i] = k]
    /\ flags' = [flags EXCEPT ![i] = f]

\* `gate wait`, with a run id or for the item's newest run.
WaitBegin(i) ==
    /\ \/ Begin(i, NoRun, "recover")
       \/ \E r \in records : Begin(i, r, "probe")
    /\ flags' = [flags EXCEPT ![i] = {"wait"}]
    /\ UNCHANGED want

\* recover_unrecorded visits the records in the order of their names.
RecoverVisit(i) ==
    /\ cpc[i] = "recover"
    /\ \E r \in sweep[i], X \in Probes(i) :
         /\ \A s \in sweep[i] : r <= s
         /\ sweep' = [sweep EXCEPT ![i] = @ \ {r}]
         /\ IF /\ r \in records
               /\ ~LiveIn(X, r, now[i])
               /\ ~recorded[r]
               /\ result[r] \in Exits
            THEN /\ run' = [run EXCEPT ![i] = r]
                 /\ StartRecording(i, r)
                 /\ GoOn(i, "recovering")
            ELSE UNCHANGED <<run, todo, cpc, now, flags, answer>>
    /\ UNCHANGED <<clock, index, disk, runners, want, seen, refused, hand, bounds>>

\* Back from record_requesters; when that raised, recover_unrecorded goes on with the
\* next record.
Recovered(i) ==
    /\ cpc[i] = "recovering"
    /\ RecordingDone(i) \/ RecordGone(i, run[i])
    /\ GoOn(i, "recover")
    /\ todo' = [todo EXCEPT ![i] = {}]
    /\ hand' = [hand EXCEPT ![i] = NoItem]
    /\ UNCHANGED <<clock, index, disk, runners, want, run, seen, sweep,
                   refused, bounds>>

Evaluate(i) ==
    /\ cpc[i] = "recover"
    /\ sweep[i] = {}
    /\ "wait" \notin flags[i]
    /\ IF Satisfied(want[i]) /\ "fresh" \notin flags[i]
       THEN Return(i, "satisfied")
       ELSE GoOn(i, "join")
    /\ run' = [run EXCEPT ![i] = NoRun]
    /\ UNCHANGED <<clock, index, disk, runners, want, seen, sweep, refused, loops, bounds>>

\* Mutant: the age is enough.
PrunableOld(X, t) == {r \in records : t - started[r] > PruneAfter /\ r \notin X}

\* prune: recorded, dead and old.
Prunable(X, t) == {r \in records : recorded[r] /\ t - started[r] > PruneAfter /\ r \notin X}

\* _existing_run: the live, result-less records for the key of the call.
Existing(i, X) == {r \in LivePending(X, now[i]) : key[r] = want[i]}

AddWaiter(i, r) ==
    woken' = IF "notify" \in flags[i] /\ woken[<<r, i>>] = "absent"
             THEN [woken EXCEPT ![<<r, i>>] = "unset"] ELSE woken

\* Under .dir.lock: join the oldest live run of the key.
JoinRun(i, r, X) ==
    /\ cpc[i] = "join"
    /\ Oldest(r, Existing(i, X))
    /\ records' = records \ Prunable(X, now[i])
    /\ requesters' = [requesters EXCEPT ![r] = @ \cup {i}]
    /\ fresh' = [fresh EXCEPT ![r] = @ \/ "fresh" \in flags[i]]
    /\ AddWaiter(i, r)
    /\ run' = [run EXCEPT ![i] = r]
    /\ Return(i, "joined")
    /\ UNCHANGED <<clock, born, key, started, runner_started, status, result, recorded_for,
                   skipped_for, recorded, disk, runners, want, seen, sweep,
                   refused, loops, bounds>>

\* Under .dir.lock: there is none, so write a record; the runner is spawned after.
\* The token in the run id is random: any unused id may be drawn.
WriteRun(i, r, X) ==
    /\ cpc[i] = "join"
    /\ Existing(i, X) = {}
    /\ r \notin born
    /\ born' = born \cup {r}
    /\ records' = (records \ Prunable(X, now[i])) \cup {r}
    /\ key' = [key EXCEPT ![r] = want[i]]
    /\ started' = [started EXCEPT ![r] = now[i]]
    /\ requesters' = [requesters EXCEPT ![r] = {i}]
    /\ fresh' = [fresh EXCEPT ![r] = "fresh" \in flags[i]]
    /\ AddWaiter(i, r)
    /\ run' = [run EXCEPT ![i] = r]
    /\ GoOn(i, "spawn")
    /\ UNCHANGED <<clock, runner_started, status, result, recorded_for, skipped_for, recorded,
                   disk, runners, want, seen, sweep, refused, loops, bounds>>

\* spawn_runner: Popen.
Spawn(i) ==
    /\ cpc[i] = "spawn"
    /\ \/ /\ rpc' = [rpc EXCEPT ![run[i]] = "boot"]
          /\ GoOn(i, "await")
          /\ UNCHANGED slow
       \/ /\ slow < MaxSlow              \* Popen raises OSError
          /\ slow' = slow + 1
          /\ GoOn(i, "failed")
          /\ UNCHANGED rpc
    /\ UNCHANGED <<clock, index, disk, slots, want, run, seen, sweep,
                   refused, loops, calls, crashes, refusals>>

\* _await_runner_started: RUNNER_START_TIMEOUT passes on a runner that died, or is slow.
AwaitStarted(i) ==
    /\ cpc[i] = "await"
    /\ \/ /\ runner_started[run[i]]
          /\ Return(i, "started")
          /\ UNCHANGED slow
       \/ /\ ~runner_started[run[i]]
          /\ IF rpc[run[i]] = "gone" THEN UNCHANGED slow
             ELSE slow < MaxSlow /\ slow' = slow + 1
          /\ GoOn(i, "failed")
    /\ UNCHANGED <<clock, index, disk, runners, want, run, seen, sweep, refused,
                   loops, calls, crashes, refusals>>

\* The spawn failed: probe the lock,
FailedProbe(i, X) ==
    /\ cpc[i] = "failed"
    /\ IF run[i] \in X THEN Return(i, "started")
       ELSE GoOn(i, "unheld")
    /\ UNCHANGED <<clock, index, disk, runners, want, run, seen, sweep, refused,
                   loops, bounds>>

\* read the record,
FailedRead(i) ==
    /\ cpc[i] = "unheld"
    /\ IF result[run[i]] # "none" THEN Return(i, "started")
       ELSE GoOn(i, "unheard")
    /\ UNCHANGED <<clock, index, disk, runners, want, run, seen, sweep, refused,
                   loops, bounds>>

\* and write the failure into whatever the record is by now.
MarkFailed(i) ==
    /\ cpc[i] = "unheard"
    /\ run[i] \in records
    /\ result' = [result EXCEPT ![run[i]] = "error"]
    /\ Return(i, "runner-failed")
    /\ UNCHANGED <<clock, records, born, key, started, requesters, fresh, runner_started,
                   status, recorded_for, skipped_for, recorded, woken, disk, runners, want,
                   run, seen, sweep, refused, loops, bounds>>

\* _choose_record without a run id: the newest record naming the item.
WaitChoose(i) ==
    /\ cpc[i] = "recover"
    /\ sweep[i] = {}
    /\ "wait" \in flags[i]
    /\ LET mine == {r \in records : i \in requesters[r]} IN
       \/ /\ mine = {}
          /\ Return(i, "no-run")
          /\ run' = [run EXCEPT ![i] = NoRun]
       \/ /\ \E r \in mine : Newest(r, mine) /\ run' = [run EXCEPT ![i] = r]
          /\ GoOn(i, "probe")
    /\ UNCHANGED <<clock, index, disk, runners, want, seen, sweep, refused, loops,
                   bounds>>

\* _read_live: first the probe, then the read.
WaitProbe(i, X) ==
    /\ cpc[i] = "probe"
    /\ seen' = [seen EXCEPT ![i] = run[i] \in X]
    /\ GoOn(i, "read")
    /\ UNCHANGED <<clock, index, disk, runners, want, run, sweep, refused,
                   loops, bounds>>

Report(i, what) ==
    /\ cpc' = [cpc EXCEPT ![i] = "collect"]
    /\ answer' = [answer EXCEPT ![i] = what]
    /\ UNCHANGED <<now, flags, todo>>

\* Not over: sleep and look again, or give up at the deadline.
StillRunning(i) ==
    /\ \/ GoOn(i, "probe")
       \/ Return(i, "running")
    /\ UNCHANGED todo

WaitRead(i) ==
    /\ cpc[i] = "read"
    /\ LET r == run[i]
           alive == LiveIn(IF seen[i] THEN {r} ELSE {}, r, clock)
       IN \/ /\ r \notin records
             /\ Return(i, "no-run")
             /\ UNCHANGED todo
          \/ /\ r \in records /\ result[r] = "none"
             /\ IF alive THEN StillRunning(i) ELSE Report(i, "no-result")
          \/ /\ r \in records /\ result[r] = "error"
             /\ Report(i, "orphaned")
          \/ /\ r \in records /\ result[r] = "satisfied"
             /\ Report(i, "finished")
          \/ /\ r \in records /\ result[r] \in Exits /\ recorded[r]
             /\ Report(i, "finished")
          \/ /\ r \in records /\ result[r] \in Exits /\ ~recorded[r]
             /\ IF alive THEN StillRunning(i)
                ELSE StartRecording(i, r) /\ GoOn(i, "recording")
    /\ seen' = [seen EXCEPT ![i] = FALSE]
    /\ UNCHANGED <<clock, index, disk, runners, want, run, sweep, refused, hand, bounds>>

\* Back from record_requesters; what that raises goes through gate wait.
WaitRecorded(i) ==
    /\ cpc[i] = "recording"
    /\ \/ /\ RecordingDone(i)
          /\ Report(i, "finished")
          /\ UNCHANGED hand
       \/ /\ RecordGone(i, run[i])
          /\ Return(i, "none")
          /\ todo' = [todo EXCEPT ![i] = {}]
          /\ hand' = [hand EXCEPT ![i] = NoItem]
    /\ UNCHANGED <<clock, index, disk, runners, want, run, seen, sweep, refused,
                   bounds>>

\* collect_waiters: no wake is owed to i any more.
WaitCollect(i) ==
    /\ cpc[i] = "collect"
    /\ Return(i, answer[i])
    /\ woken' = IF run[i] \in records /\ Owed(run[i], i)
                THEN [woken EXCEPT ![<<run[i], i>>] = "collected"] ELSE woken
    /\ UNCHANGED <<clock, records, born, key, started, requesters, fresh, runner_started,
                   status, result, recorded_for, skipped_for, recorded, disk, runners, want,
                   run, seen, sweep, refused, loops, bounds>>

CallerCrash(i) ==
    /\ cpc[i] # "idle"
    /\ crashes < MaxCrashes
    /\ crashes' = crashes + 1
    /\ Return(i, "none")
    /\ seen' = [seen EXCEPT ![i] = FALSE]
    /\ sweep' = [sweep EXCEPT ![i] = {}]
    /\ todo' = [todo EXCEPT ![i] = {}]
    /\ hand' = [hand EXCEPT ![i] = NoItem]
    /\ UNCHANGED <<clock, index, disk, runners, want, run, refused, calls, refusals, slow>>

-----------------------------------------------------------------------------
(***************************************************************************)
(* The runner of record r.                                                 *)
(***************************************************************************)

RunnerGoes(r, place) == rpc' = [rpc EXCEPT ![r] = place]

\* _acquire: the runner takes the lock it keeps for life.  That it may give up after
\* LOCK_ATTEMPTS is the death of a runner that has done nothing (RunnerCrash).
Acquire(r) ==
    /\ rpc[r] = "boot"
    /\ RunnerGoes(r, "locked")
    /\ UNCHANGED <<clock, index, disk, slots, callers, loops, bounds>>

\* _run_locked reads the record: one with a result is not run.
ReadRecord(r) ==
    /\ rpc[r] = "locked"
    /\ RunnerGoes(r, IF result[r] = "none" THEN "starting" ELSE "wake")
    /\ UNCHANGED <<clock, index, disk, slots, callers, loops, bounds>>

SayStarted(r) ==
    /\ rpc[r] = "starting"
    /\ runner_started' = [runner_started EXCEPT ![r] = TRUE]
    /\ RunnerGoes(r, IF Limit = 0 THEN "launch" ELSE "queue")
    /\ UNCHANGED <<clock, records, born, key, started, requesters, fresh, status, result,
                   recorded_for, skipped_for, recorded, woken, disk, slots, callers, loops,
                   bounds>>

\* _await_slot: only the oldest live queued record may try for a slot.
HeadOfQueue(r) ==
    /\ rpc[r] = "queue"
    /\ Oldest(r, {s \in LivePending(HeldRecords, clock) : status[s] = "queued"})
    /\ RunnerGoes(r, "head")
    /\ UNCHANGED <<clock, index, disk, slots, callers, loops, bounds>>

\* Mutant: one slot too many.
TrySlotOneMore(r) ==
    /\ rpc[r] = "head"
    /\ IF Cardinality(slots) <= Limit
       THEN slots' = slots \cup {r} /\ RunnerGoes(r, "recheck")
       ELSE RunnerGoes(r, "queue") /\ UNCHANGED slots
    /\ UNCHANGED <<clock, index, disk, callers, loops, bounds>>

TrySlot(r) ==
    /\ rpc[r] = "head"
    /\ IF Cardinality(slots) < Limit
       THEN slots' = slots \cup {r} /\ RunnerGoes(r, "recheck")
       ELSE RunnerGoes(r, "queue") /\ UNCHANGED slots
    /\ UNCHANGED <<clock, index, disk, callers, loops, bounds>>

\* _recheck, on the record as it is read now: satisfied meanwhile, or another tree.
Recheck(r) ==
    /\ rpc[r] = "recheck"
    /\ IF Satisfied(key[r]) /\ ~fresh[r]
       THEN RunnerGoes(r, "satisfied")
       ELSE RunnerGoes(r, "moved") \/ RunnerGoes(r, "launch")
    /\ UNCHANGED <<clock, index, disk, slots, callers, loops, bounds>>

\* Mutant: the reason is stored where the result belongs.
RecheckSettlesRaw(r) ==
    /\ rpc[r] \in {"satisfied", "moved"}
    /\ result' = [result EXCEPT ![r] = rpc[r]]
    /\ recorded' = [recorded EXCEPT ![r] = @ \/ rpc[r] = "satisfied"]
    /\ RunnerGoes(r, "wake")
    /\ UNCHANGED <<clock, records, born, key, started, requesters, fresh, runner_started,
                   status, recorded_for, skipped_for, woken, disk, slots, callers, loops,
                   bounds>>

\* The update that settles a run without running it.
RecheckSettles(r) ==
    /\ rpc[r] \in {"satisfied", "moved"}
    /\ result' = [result EXCEPT ![r] = IF rpc[r] = "satisfied" THEN "satisfied" ELSE "error"]
    /\ recorded' = [recorded EXCEPT ![r] = @ \/ rpc[r] = "satisfied"]
    /\ RunnerGoes(r, "wake")
    /\ UNCHANGED <<clock, records, born, key, started, requesters, fresh, runner_started,
                   status, recorded_for, skipped_for, woken, disk, slots, callers, loops,
                   bounds>>

Launch(r) ==
    /\ rpc[r] = "launch"
    /\ status' = [status EXCEPT ![r] = "running"]
    /\ RunnerGoes(r, "command")
    /\ UNCHANGED <<clock, records, born, key, started, requesters, fresh, runner_started,
                   result, recorded_for, skipped_for, recorded, woken, disk, slots, callers,
                   loops, bounds>>

\* The command ends, the tree is looked at again, and the result is written.
WriteResult(r, e) ==
    /\ rpc[r] = "command"
    /\ verdict' = [verdict EXCEPT ![r] = e]
    /\ result' = [result EXCEPT ![r] = e]
    /\ RunnerGoes(r, "record")
    /\ UNCHANGED <<clock, records, born, key, started, requesters, fresh, runner_started,
                   status, recorded_for, skipped_for, recorded, woken, receipts, closed,
                   slots, callers, loops, bounds>>

RunnerRecords(r) ==
    /\ rpc[r] = "record"
    /\ IF result[r] \in Exits
       THEN StartRecording(r, r) /\ RunnerGoes(r, "recording")
       ELSE RunnerGoes(r, "wake") /\ UNCHANGED todo
    /\ UNCHANGED <<clock, index, disk, slots, callers, hand, bounds>>

RunnerRecorded(r) ==
    /\ rpc[r] = "recording"
    /\ RecordingDone(r)
    /\ RunnerGoes(r, "wake")
    /\ UNCHANGED <<clock, index, disk, slots, callers, loops, bounds>>

\* wake_waiters: the unsettled waiters, read under .dir.lock.
PendingWaiters(r) ==
    /\ rpc[r] = "wake"
    /\ todo' = [todo EXCEPT ![r] = IF result[r] = "none" THEN {}
                                   ELSE {i \in Items : woken[<<r, i>>] = "unset"}]
    /\ RunnerGoes(r, "waking")
    /\ UNCHANGED <<clock, index, disk, slots, callers, hand, bounds>>

\* _wake_one types the resume line, or fails to after its retries.
WakeOne(r, i) ==
    /\ rpc[r] = "waking"
    /\ i \in todo[r]
    /\ todo' = [todo EXCEPT ![r] = @ \ {i}]
    /\ hand' = [hand EXCEPT ![r] = i]
    /\ \/ RunnerGoes(r, "woke") /\ UNCHANGED refusals
       \/ /\ refusals < MaxRefusals
          /\ refusals' = refusals + 1
          /\ RunnerGoes(r, "unheard")
    /\ UNCHANGED <<clock, index, disk, slots, callers, calls, crashes, slow>>

\* settle_waiter: the first writer wins.
SettleWaiter(r) ==
    /\ rpc[r] \in {"woke", "unheard"}
    /\ LET w == <<r, hand[r]>> IN
       woken' = IF woken[w] = "unset"
                THEN [woken EXCEPT ![w] = IF rpc[r] = "woke" THEN "delivered" ELSE "failed"]
                ELSE woken
    /\ hand' = [hand EXCEPT ![r] = NoItem]
    /\ RunnerGoes(r, "waking")
    /\ UNCHANGED <<clock, records, born, key, started, requesters, fresh, runner_started,
                   status, result, recorded_for, skipped_for, recorded, disk, slots, callers,
                   todo, bounds>>

\* The exit frees the lock and the slot together.
RunnerExit(r) ==
    /\ rpc[r] = "waking"
    /\ todo[r] = {}
    /\ RunnerGoes(r, "gone")
    /\ slots' = slots \ {r}
    /\ UNCHANGED <<clock, index, disk, callers, loops, bounds>>

\* A call in _run_locked raises: the `finally` of execute() wakes what can be woken.
RunnerRaises(r) ==
    /\ rpc[r] \in Locked \ {"wake", "waking", "woke", "unheard"}
    /\ crashes < MaxCrashes
    /\ crashes' = crashes + 1
    /\ RunnerGoes(r, "wake")
    /\ todo' = [todo EXCEPT ![r] = {}]
    /\ hand' = [hand EXCEPT ![r] = NoItem]
    /\ UNCHANGED <<clock, index, disk, slots, callers, calls, refusals, slow>>

RunnerCrash(r) ==
    /\ rpc[r] \in Locked \cup {"boot"}
    /\ crashes < MaxCrashes
    /\ crashes' = crashes + 1
    /\ RunnerGoes(r, "gone")
    /\ slots' = slots \ {r}
    /\ todo' = [todo EXCEPT ![r] = {}]
    /\ hand' = [hand EXCEPT ![r] = NoItem]
    /\ UNCHANGED <<clock, index, disk, callers, calls, refusals, slow>>

-----------------------------------------------------------------------------
RunnerStep(r) ==
    \/ Acquire(r)
    \/ ReadRecord(r)
    \/ SayStarted(r)
    \/ HeadOfQueue(r)
    \/ TrySlot(r)
    \/ Recheck(r)
    \/ RecheckSettles(r)
    \/ Launch(r)
    \/ \E e \in Exits : WriteResult(r, e)
    \/ RunnerRecords(r)
    \/ rpc[r] = "recording" /\ Recording(r, r)
    \/ RunnerRecorded(r)
    \/ PendingWaiters(r)
    \/ \E i \in Items : WakeOne(r, i)
    \/ SettleWaiter(r)
    \/ RunnerExit(r)

CallerStep(i) ==
    \/ RecoverVisit(i)
    \/ cpc[i] \in {"recovering", "recording"} /\ Recording(i, run[i])
    \/ Recovered(i)
    \/ Evaluate(i)
    \/ \E r \in RunIds, X \in Probes(i) : JoinRun(i, r, X) \/ WriteRun(i, r, X)
    \/ Spawn(i)
    \/ AwaitStarted(i)
    \/ \E X \in Probes(i) : FailedProbe(i, X) \/ WaitProbe(i, X)
    \/ FailedRead(i)
    \/ MarkFailed(i)
    \/ WaitChoose(i)
    \/ WaitRead(i)
    \/ WaitRecorded(i)
    \/ WaitCollect(i)

Next ==
    \/ Tick
    \/ \E i \in Items :
         \/ CloseItem(i)
         \/ \E k \in Keys, f \in SUBSET Options : RunBegin(i, k, f)
         \/ WaitBegin(i)
         \/ CallerStep(i)
         \/ CallerCrash(i)
    \/ \E r \in RunIds : RunnerStep(r) \/ RunnerRaises(r) \/ RunnerCrash(r)

Spec == Init /\ [][Next]_vars

FairSpec ==
    /\ Spec
    /\ WF_vars(Tick)
    /\ \A r \in RunIds : WF_vars(RunnerStep(r))
    /\ \A i \in Items : WF_vars(CallerStep(i))

-----------------------------------------------------------------------------
IndexTypes ==
    /\ records \subseteq RunIds
    /\ born \subseteq RunIds
    /\ key \in [RunIds -> Keys]
    /\ started \in [RunIds -> Nat]
    /\ requesters \in [RunIds -> SUBSET Items]
    /\ fresh \in [RunIds -> BOOLEAN]
    /\ runner_started \in [RunIds -> BOOLEAN]
    /\ status \in [RunIds -> {"queued", "running"}]
    /\ result \in [RunIds -> Results]
    /\ recorded_for \in [RunIds -> SUBSET Items]
    /\ skipped_for \in [RunIds -> SUBSET Items]
    /\ recorded \in [RunIds -> BOOLEAN]
    /\ woken \in [RunIds \X Items -> Wakes]

DiskTypes ==
    /\ receipts \subseteq Items \X RunIds
    /\ verdict \in [RunIds -> Exits \cup {"none"}]
    /\ closed \subseteq Items

RunnerTypes ==
    /\ rpc \in [RunIds -> RunnerPlaces]
    /\ slots \subseteq RunIds

CallTypes ==
    /\ cpc \in [Items -> CallPlaces]
    /\ now \in [Items -> Nat]
    /\ want \in [Items -> Keys]
    /\ flags \in [Items -> SUBSET {"fresh", "notify", "wait"}]
    /\ run \in [Items -> RunIds \cup {NoRun}]
    /\ seen \in [Items -> BOOLEAN]
    /\ sweep \in [Items -> SUBSET RunIds]
    /\ answer \in [Items -> Answers]
    /\ refused \in [Items -> BOOLEAN]

LoopTypes ==
    /\ todo \in [Processes -> SUBSET Items]
    /\ hand \in [Processes -> Items \cup {NoItem}]

BoundTypes ==
    /\ clock \in Nat
    /\ calls \in [Items -> Nat]
    /\ crashes \in Nat
    /\ refusals \in Nat
    /\ slow \in Nat

TypeOK ==
    /\ IndexTypes
    /\ DiskTypes
    /\ RunnerTypes
    /\ CallTypes
    /\ LoopTypes
    /\ BoundTypes

\* "Requesters are frozen once a result exists": whoever joins, the list a recorder
\* has read is the whole list, and it never meets a requester it does not know of.
RequestersFrozen ==
    [][\A r \in RunIds : result[r] # "none" => requesters'[r] = requesters[r]]_vars

\* A record that says `recorded` for a run that was executed has settled every item
\* that asked for it, through any interleaving of the recorders; and every item it
\* lists as recorded has the run in its receipt.
RecordedIsComplete ==
    \A r \in RunIds :
        /\ \A i \in recorded_for[r] : <<i, r>> \in receipts
        /\ (recorded[r] /\ result[r] \in Exits) => requesters[r] \subseteq Settled(r)

\* gate wait answers a requester "finished" for an executed run only when the
\* outcome is on its item or its item is closed, unless recording was refused.
FinishedIsSettled ==
    \A i \in Items :
        LET r == run[i] IN
        (/\ answer[i] = "finished"
         /\ i \in requesters[r]
         /\ result[r] \in Exits
         /\ ~refused[i]) => i \in Settled(r)

\* At most Limit runs are between their command and their last receipt, through every
\* crash of a slot holder and every change of the queue's head.
WithinLimit ==
    Limit > 0 => Cardinality({r \in RunIds : rpc[r] \in {"command", "record", "recording"}})
                     <= Limit

\* settle_waiter and collect_waiters race; whichever outcome is recorded as settled
\* first stays.
SettledWakesStay ==
    [][\A w \in RunIds \X Items : woken[w] \in SETTLED_WAKES => woken'[w] = woken[w]]_vars

\* prune: "The receipts already hold the facts".  A record that is gone told of no live
\* runner and owed nobody a receipt, whichever process had recorded it.
PrunedOwesNothing ==
    \A r \in born \ records :
        /\ ~Held(r)
        /\ result[r] \in Exits => requesters[r] \subseteq Settled(r)

\* gate_wait_facts: "a crash or a lost wake cannot leave a worker reading `waiting`
\* forever".
NobodyWaitsForever ==
    \A r \in RunIds, i \in Items :
        (woken[<<r, i>>] # "absent") ~> (WaitState(r, i) # "running")

\* A queued run gets its slot, or is settled, or dies.
QueueMoves == \A r \in RunIds : (rpc[r] = "queue") ~> (rpc[r] \notin {"queue", "head"})
=============================================================================

# TLA+ models of graph-works

graph-works keeps a body of knowledge and a work tracker as Markdown files (an OKF
bundle) and drives agents over it. It is a set of Python packages under
`src/packages/`. Most of the code turns text into text. The part that is hard to get
right is the part in which several processes or threads share files: workers and the
coordinator that restarts, gate runs that several commands start, join and await, a
sidecar that serves memoized reads and a change stream while everybody edits, journaled
mutations of the bundle and of forked plugins that fail or die half-way, and commands that
move items through their stages while others hold or move them. These modules model that
part, TLC checks it on small instances and TLAPS proves its central invariants for
every instance.

## 1. Inventory

| Part | State it keeps | Operations | What is hard |
|---|---|---|---|
| workflow-local (`backend.py`, `ledger.py`) | `ledger.json`, `events.jsonl` and `replies.jsonl` per worker; entries, cursors and Popen objects in memory | launch, wait, ack, reply, stop, close, open | the coordinator dies anywhere, workers outlive it, a ledger write raises, events are replayed, lines are read half written, pids are reused |
| gw-orchestrate gates (`gate.py`, `gate_runner.py`, `gate_receipts.py`, `gate_wake.py`) | one JSON record per run, lock file per record, slot locks, receipts on work items | gate run, gate wait, the detached runner, wakes, pruning | processes share only files; probes and reads are separate steps; runners die, start late, or are declared failed while they run |
| gw-serve reads (`readstate.py`, `watch.py`, `hub.py`, `mutations.py`) | generation, identity, slot, baseline revision, stale epoch; watch loops; subscribers | GET, flush, apply, resync, rewatch | handlers, flush threads, applies and a failing watcher interleave; other processes edit the bundle and the index |
| gw-kernel read sessions, okf-ext read index | SQLite index with a generation | open, reconcile, read | opens fall back to a full load; a reconcile is optimistic |
| gw-serve change stream (`hub.py`, `sse.py`) | the hub's number, one bounded queue per connection | subscribe, publish, resync, close, event_stream | slow clients overflow, clients leave, the server closes |
| gw-pipeline mutations (`transactions.py`) | journal and snapshots per transaction, quarantine, executor lock | apply_mutation, rollback, prune | a crash or failure between two effects, rollback that fails, concurrent editors |
| gw-pipeline decision ownership (`decision_owner.py`), gw-kernel `bundle_lock.py` | lock file per owner, lock of the bundle | locked_decision_owner, decision_mutation | owners change under a waiting command; two locks |
| work-tracker-okf, gw-work, gw-orchestrate `stage_advance.py` | phase and status of pages, decision ledgers | advance, decision add and answer, reparent | long sequences of legal commands, holds racing advances, plans made without a lock |
| gw-orchestrate dispatch | dispatch records, claims, integration branches | dispatch, integrate, execute-return, wait | claims of several coordinators |
| subagents-io pool | semaphore, per-item tasks, trace | run_batch | cancellation, isolation of failures |
| plugin-fork-io (`transactions.py`, `recovery.py`) | journals, staging files, lock files | preview, apply, rollback | a crash in the promotion or in the recovery, editors |
| okf-ext writing, locking | files | write_all, locked | part of a batch committed |
| workflow-orca | Orca's own tasks and deliveries | the same protocol as workflow-local | ambiguous starts |
| config-io, models-io, code-graph-io, okf-io, wiki lanes, gw-wiki, gw-wire, gw-cli | files, or none | parsing, formatting, generation | sequential text transformation |

How they interact: a coordinator (`gw work` commands) plans with work-tracker-okf, writes
through gw-pipeline, dispatches workers through a `DispatchBackend` (workflow-local or
workflow-orca), and workers park on `gw work gate run`, whose runner wakes them. gw-serve
watches the files all of these write and serves them to clients.

`PROJECT.json` lists every part with its status, and under `hazards` each place where the
code can go wrong in a way a test would hardly reach and a property of a run speaks of it. The
places where the code does not keep what one would expect are in section 3, "Other departures".

## 2. Modules

| Module | Models | Proofs |
|---|---|---|
| `EventFeed` | what a session promises its caller about the events of its workers: an abstract specification | |
| `LocalSession` (`MCLocalSession`) | one durable session of workflow-local, its workers and its caller's loop, which implements `EventFeed` | `LocalSessionProofs` |
| `GateRun` (`MCGateRun`) | the index of gate runs with its runners and CLI calls | `GateRunProofs` |
| `ServeReads` (`MCServeReads`) | gw-serve's read state, watcher and write-through | `ServeReadsProofs` |
| `ChangeStream` | gw-serve's hub and event streams | `ChangeStreamProofs` |
| `AtomicMutation` | what a work mutation promises: an abstract specification | |
| `WorkMutation` (`MCWorkMutation`) | the executor of work mutations, which implements `AtomicMutation` | `WorkMutationProofs` |
| `ForkTransaction` (`MCForkTransaction`) | plugin-fork-io's transactions and their recovery | `ForkTransactionProofs`, `ForkRecoveryProofs` |
| `WorkStages` (`MCWorkStages`) | the stage machine, decision holds, reparent and the locks they share | `WorkStagesProofs` |

How they fit together. A session's ledger, the gate index, the sidecar's memory, the fork
store and the bundle are separate files and processes. `WorkStages` uses what `WorkMutation`
establishes: its `Write` applies a plan at once or not at all, which is the atomic mutation
that `WorkMutation` is shown to implement. `ServeReads` takes a client that is told to be
told; `ChangeStream` shows that a message that is broadcast arrives, or a resync that covers
it. No module declares a RECURSIVE operator, so that all can be proved about.

### 2.1 LocalSession

State: `entries`, `cursors`, `procs`, `batch` are the fields of `LocalSession` and the list
`_poll` builds; `inbox` and `replied` are the caller's loop (it answers questions and acks
what `wait` returned); `ledger`, `log`, `replies` are the files; `kids` the processes.
`partial` are the lines of an events file of which only a part is there, `open` the processes that have
written to its unfinished last line. `delivered`, `answers`, `missed` and `torn` are history.

| Action | Code (`backend.py`) |
|---|---|
| `LaunchSpawn`, `LaunchFlush` | `launch`: dedupe and Popen, then the ledger write |
| `PollStart`, `Drain`, `Reap`, `PollFlush`, `PollReturn`, `PollEmpty` | `wait` and `_poll`: the loop's drain and reap of each worker, the write, the return |
| `Ack`, `Reply` | `ack`, `reply` |
| `StopSignal`, `StopFinish`, `StopRefused` | `stop`, `_terminate`, and the PermissionError of a pid that is another user's |
| `Crash`, `Close`, `Open` | the process dies; `close`; `open_session` with `_probe_on_open` |
| `ChildBegin`, `ChildEnd`, `ChildReadReply`, `ChildExit` | the workers, external |
| `PidReused`, `PidFreed` | foreign programs under the pids of dead workers, external |

Any step that writes the ledger may raise instead (`FlushRaised`); `write_ledger` replaces
atomically, so the file is old or new. Event lines are reduced to their kinds; time stamps,
argv, output tails and paths are left out because no operation reads them back.

Nothing locks an events file, and the package asks of a child only that it appends, so a line is
written in two steps. In between a poll may read it: `Text` is the file as `_drain` sees it, in
which part of a line is junk, and `_drain` takes its cursor past that line as past any other
(`backend.py:304-314`). `missed` has the lines passed in this way, `torn` the workers it ever happened
to. The worker may also die in the middle of a line; the next process of the key then writes on behind
its part, and two live processes of a key (a crash between Popen and the ledger write) may
write into each other's line. A line that more than one process wrote to is taken to be unreadable, and a
line that lacks only its newline to be whole. A worker may ask several questions before it reads an answer, as
`README.md:91` of the package allows, and takes the answers in order.

A dead worker's pid may become a foreign program's (`PidReuse`). `_alive` asks the Popen
object of a worker of this session object and the pid of any other, so after a reopening a reused pid
is reported as running, as the comment at `backend.py:86-88` and `README.md:107-111` of the
package say. `stop` then signals that program, or raises where it is another user's.

`IsEventFeed` maps the session to `EventFeed`, a file with a position. The position is the cursor,
but for the lines a poll has collected and not returned (`Position`); of a session that is not open it
is what is acked on disk. A drain and the reap are then no step of the feed (or one over junk lines and
lines that are not whole, which it misses), the return of `wait` is `HandOut`, a ledger write is `Record`,
one that raises is `Lose`, and the end of a session object is `Reopen`. The beginning of a line is `Write`,
the end of one that nobody else wrote to is `Complete`.

### 2.2 GateRun

Each field of a run's record is a variable indexed by run id. A runner is at `rpc[r]`, the
CLI call of an item at `cpc[i]`. Read-modify-writes under `.dir.lock` are single steps; the
probe of a lock, the read that follows, the decision, the spawn and the wake are steps of
their own. Locks are not variables: a runner at a place in `Locked` holds its record's
lock, and loses it by leaving. The clock is discrete and every comparison of the code with
it (start grace, prune age) is kept.

| Action group | Code |
|---|---|
| `RunBegin`, `RecoverVisit`, `Evaluate`, `JoinRun`, `WriteRun`, `Spawn`, `AwaitStarted`, `FailedProbe`, `FailedRead`, `MarkFailed` | `run_gate_run` and what it calls |
| `WaitBegin`, `WaitChoose`, `WaitProbe`, `WaitRead`, `WaitRecorded`, `WaitCollect` | `run_gate_wait`, `_gate_wait` |
| `StartRecording`, `RecordReceipt`, `RecordSkip`, `RecordRefused`, `RecordSettle`, `RecordingDone`, `RecordGone` | `record_requesters`, run by a runner or by any call |
| `Acquire`, `ReadRecord`, `SayStarted`, `HeadOfQueue`, `TrySlot`, `Recheck`, `RecheckSettles`, `Launch`, `WriteResult`, `RunnerRecords`, `WakeOne`, `SettleWaiter`, `RunnerExit`, `RunnerRaises` | `gate_runner.execute` |
| `RunnerCrash`, `CallerCrash`, `CloseItem`, `Tick` | the environment |

Abstracted: what the command prints, the receipt's text, scoped gates and the per-unit
plan (one key stands for repository, tree, scope and command), refusals before anything is
written.

### 2.3 ServeReads

`rs` is `ReadState` as `_lock` guards it, `op` the holder of `_operation`; `rd[r]` a
request handler and the client it answers, `wk[w]` a thread in `_reconcile`; `raw`, `lp`,
`flushing`, `watcher`, `watched` are `watch_workspace`. The bundle is its `history` of
contents, so that what a snapshot shows is the number of a version (`at`), and what a frame
promises is the version on disk when its flush started (`covers`). `index[i]` is the read
index of layout `i`: its generation and the version it shows.

| Action | Code |
|---|---|
| `Request`, `Session`, `BuildOpen`, `BuildFinish`, `BuildRaise`, `BuildClear`, `FreshOpen`, `Reply` | `ReadState.session`, `_build`, the fresh-read fallback |
| `RecStart`, `RecOpen`, `RecFinish` | `_reconcile`, for a flush and for `write_through` |
| `TakeBatch`, `FlushStart`, `Publish`, `Forgotten` | the loops and `flush`; a cancelled flush leaves its thread running |
| `WatcherError`, `LoopsEnd`, `MarkStale`, `Resync`, `StartWatch` | the rest of `watch_workspace` |
| `ApplyWrite`, `ApplyReply` | the end of `mutations._apply` |
| `Edit`, `MoveCache`, `SwitchIndex`, `OtherReconcile` | other processes |

An open of the index is one observation of the disk: a build or reconcile that reads files
while they change is taken to have seen one version. An open may also fall back to a full
load (busy), or raise before or after it refreshed the index. A client that is told is
`dirty` until it fetches; how it is told is `ChangeStream`.

### 2.4 ChangeStream

`seq`, `closed`, `subscribed` are the hub's fields, `queue[c]` the subscription of a
connection, `known[c]` the number of the last frame the client acted on. Everything runs on
one event loop, so an action is what happens between two awaits. A batch of events is one
message: what a frame contains is not told apart.

| Action | Code |
|---|---|
| `Publish` | `Hub.publish`, `Hub.resync`, with `Subscription._offer` for each queue |
| `Close` | `Hub.close` |
| `Connect` | `Hub.subscribe` and the `ready` frame of `event_stream` |
| `Deliver`, `NoticeGone` | the loop of `event_stream` and its `finally` |
| `HangUp` | the client, external |

### 2.5 AtomicMutation and WorkMutation

`AtomicMutation` has the bundle a reader is entitled to, the mutation that runs, and three
ways to end: `Commit` applies the whole shape in one step, `Abort` leaves every member as it
was, `Break` is an end that is reported neither as a success nor as a clean failure. Editors
save members at any time; nothing is promised about a member they save while the mutation has
it in its hands.

`WorkMutation` is `_apply_mutation_locked`. `tx` holds what the function keeps (the plan's
shape, the bytes seen, the snapshot, the fingerprints wanted, the effects left, the effect
in progress with what it has in custody, the touched and the protected members, the journal's
state), `dirs` the transaction directories in the cache, `left` what is in quarantine.
`valued`, `forgotten`, `outcome` are history.

| Action | Code (`transactions.py`) |
|---|---|
| `Begin` | the locks, the first preflight, the transaction directory |
| `Snapshot`, `Reverify`, `Capture` | `_snapshot`, the second preflight, the fingerprints and protected set, the journal's `applying` |
| `StartEffect`, `CheckEffect`, `InstallEffect`, `SealEffect` | `_commit_effect` and the three custody appliers: rename into custody, look at what was captured, install or put back, discard |
| `Fault` | any of these operations raises, with the recovery of `_restore_custody_or_raise` and `_recover_move_custody_or_raise` |
| `EffectsLanded`, `PostconditionsFail`, `Complete` | validation, the terminal record, pruning |
| `RemoveTouched`, `CopyBack`, `RolledBack` | the rollback and its verification |
| `Crash`, `Edit` | the environment |

`InHands` says which members the mutation has in its hands. Those that it moves or deletes are
in them from the snapshot until their fingerprints are captured, and one that an editor raced
for by then is until its effect begins, because the capture has what the race left.

`IsAtomic` maps the abstract bundle to the live one while nothing runs, and to the bundle the
mutation began with (as changed by editors who did not race for it) while one does.

### 2.6 ForkTransaction

`disk` is the tree, `journals[i]` the journal of the i-th preview, `staged` and `extra` the
staging files and whatever else lies in the directories, `run` the command in progress with
the tasks it has left, `lock` the lock file. One command runs at a time, because every command
takes the lock file without waiting. A plan's changes are in the order of `_changes`:
`WellOrdered` says that tracking files come after the content (they are appended to it), that no
parent the command makes is among the changes (`_run` leaves out `operation_dirs`), and that a
directory is made or goes and nothing turns into one. `IsTree` is what any file system keeps: an
entry is in a directory that is there. `Fits` is what preparing a preview makes sure of: a fork
names free destinations only, and an update that touches a directory names everything owned in it,
since `content_changes` keeps unchanged entries in the journal. `Missing` is what is not there of
the parents when the command starts.

| Action | Code |
|---|---|
| `Prepare`, `PlanRollback` | `_changes`, `plan_rollback`: previews, without a lock |
| `Apply`, `ApplyRecovery` | `apply_preview`, `apply_recovery`: lock and revalidation |
| `Open`, `Mkdir`, `Stage`, `StartApplying`, `Put`, `Finish` | the phases of `_run`, one task at a time |
| `PrepareDirectories`, `Unstage`, `Undo`, `RemoveParent`, `Close` | the phases of `apply_recovery` |
| `Fault`, `Crash`, `RemoveLock`, `EditFile`, `EditDirectory`, `EditExtra` | failures and the environment |

`Mkdir` takes the mkdir and the look at what it made (`transactions.py:433-438`) together: an
editor who replaces the directory in between is not modelled.

### 2.7 WorkStages

`page[i]` is the frontmatter of an item that the commands read (type, phase, status, effort,
and whether its spec is stale) with its path; `ledger` the open entries of all ledgers, each
at the item that owns it; `proc[p]` the command of a process: waiting for the owner's lock
(with the owner it has read), waiting for the bundle lock with a plan, or writing.

| Definition | Code |
|---|---|
| `StagesOf`, `Candidates`, `Locate`, `After` | the packaged paths, `resolve_path`, `_locate`, `_after` |
| `Route`, `Emit`, `OnDispatch`, `OnComplete` | `workflow.route` with its gates in order, `_emit` |
| `Pick`, `Meets`, `Advanced` | `advance.advance` |
| `BeginAdvance`, `BeginHold`, `BeginAnswer`, `Enter` | `run_stage_advance`, `run_decision_add --hold`, `run_decision_answer`; `locked_decision_owner` with its retry |
| `BeginReparent` | `run_reparent`, which plans without a lock |
| `TakeBundle`, `Write` | `bundle_lock` and `apply_mutation`: preflight (`Fresh`), postconditions (`Valid`), all or nothing |
| `EditStatus`, `SiblingLands` | the environment |

What the gates one band up observe (artifacts, commits, receipts, finish evidence) is the
argument `proven`; efforts are the two sizes the packaged rules tell apart. `Enter` merges
the re-read under the lock with the candidate read of the next attempt. `Fresh` compares with the page
that `Enter` read; `stage_advance.py:644-647` and `:722-727` read the page once more after
routing, so the code does not refuse an editor's save that falls between the two reads, which the model
refuses. What is written then is the planned phase and status, on the editor's page.

## 3. Runs

Twelve runs, each with its own configuration file.

| Run | Checks | Instance |
|---|---|---|
| `local_safety` | `TypeOK`, `AckedIsRead`, `AckedWereDelivered`, `NoAckedReplay`, `SuccessHasEvidence`, `AnswersMatch` | one worker, three lines in two parts each, two processes, a crash, a failed write; no reused pids |
| `local_live` | `CrashedChildSettles`, `EveryLineDelivered`, `IsEventFeed` | one worker, two lines in two parts each, two processes, a crash, a failed write, reused pids |
| `gate_queue` | `TypeOK`, `WithinLimit`, `PrunedOwesNothing`, `RequestersFrozen` | three items, two runs of a key, one slot, one spawn that times out or fails, prune at once |
| `gate_wait` | `RecordedIsComplete`, `FinishedIsSettled`, `SettledWakesStay` | two items with two calls, one run, one kill, one refusal or failed wake |
| `gate_live` | `NobodyWaitsForever`, `QueueMoves` | one item, two runs of two keys, one slot, one kill |
| `serve_reads` | `TypeOK`, `StampCovers` | one handler, two flush threads, two layouts, an edit, a manifest edit, a failing open, a watcher failure |
| `serve_live` | `ApplyCovers`, `ClientsCatchUp` | two handlers, a flush thread, an edit, an apply |
| `change_stream` | `TypeOK`, `NoGap`, `Bounded`, `CatchesUp`, `StreamsEnd` | two clients with two connections, queues of two, four broadcasts |
| `mutation_safety` | `TypeOK`, `NothingLost`, `IsAtomic` | four members, three kinds of plan, two mutations, two edits, one failure, one crash, one retained directory |
| `fork_safety` | `TypeOK`, `EditsKept`, `TrackingLast`, `Recoverable`, `RollbackRestores` | eight paths, an update and a fork, three previews, an edit, a failure, a crash |
| `fork_restart` | `Restartable` is violated | the same without edits |
| `stages` | `TypeOK`, `CoherentPages`, `SomeoneProceeds`, `NoDeadEnd`, `HeldStays` | an Epic and a Bug or TestGap, two processes, one hold, one return, edit or stale spec |

Why the bounds are enough to meet the interesting cases. One worker suffices for
LocalSession's properties because each speaks of one worker's files and the loop treats
workers one by one; two processes are needed for a relaunch after a launch that did not
reach the ledger, three lines for a question, its replay and a second question, for two questions
that are open at once, or for a line that is missed between two that are not. One crash gives a replay and
a reopened session that asks a pid for a worker it did not start; `local_safety` leaves the reused pids to
`local_live` for the size of the state space; the proofs of its properties hold for both values of `PidReuse`. Two items
are the least at which a join, two recorders of one run, and a waiter that is not the
starter happen; two runs the least at which a queue has a head and a tail, and a third
item joins a queued run while the second still waits. Two flush
threads are needed for a thread that a failed watcher left behind to run beside the next
flush; two handlers for a shared build; two layouts for an identity change. Four broadcasts
overflow a queue of two twice. The plans of `mutation_safety` have every kind of effect, and what
one leaves free another fills; the second mutation is there to prune what the
first left, and the second edit to meet a rollback. Three previews are a transaction, its
recovery, and the recovery of that or another transaction. Two items are the least at which an
owner changes under a command; the same run with a Feature in place of the Epic, and with an
Epic that has code, was checked and holds too.

Symmetry is used over items (GateRun), handlers, threads, layouts and processes
(WorkStages), which no definition tells
apart, and only in runs without liveness. `serve_reads` also uses a VIEW that leaves out
what no step reads back (`shown`, `dirty`, the fields of a handler at rest); the properties
of that run do not depend on what it leaves out.

Deadlock checking is off where the model stops when its bounds are used up and all work is
done, as the program does. ServeReads is checked for deadlock; for the locks of WorkStages
`SomeoneProceeds` takes its place.

### Fairness

- LocalSession: weak fairness of the coordinator's next step (a process that is up runs,
  one that is down is started again) and strong fairness of polling, replying and acking,
  which a caller that also launches and stops would otherwise put off for ever. Workers
  need not act, in the middle of a line or elsewhere, and nobody has to give a pid back. Crashes are
  finite, by their bound.
- GateRun: weak fairness of the clock, of each runner and of each call's next step. Nothing
  makes a killed process return and nobody has to call again. `LastCall` lets the clock
  pass the start grace of every call.
- ChangeStream: weak fairness of `Deliver` (the loop runs every generator that has something
  to yield, and the client reads) and of `NoticeGone` (a client that hung up is noticed at the
  next ping, or when a frame cannot be sent). Nobody has to publish or close.
- WorkMutation, ForkTransaction and WorkStages have no fairness: nothing in them waits but for
  locks, and a crashed fork command waits for a person. `NoDeadEnd` states, as an invariant,
  that the next advance is not refused and makes progress.
- ServeReads: weak fairness of handlers, of reconciles, of the event loop's tasks and of the
  watcher's restart, and of the request of a client that was told of a change. Nobody has to
  edit. In `serve_live` the watcher does not fail.

### Findings

- `fork_restart`: `promote` writes what it restores to a scratch file beside the destination
  before it replaces it. A recovery that dies between the two leaves the scratch file in a
  directory the journal names, and `_observations` refuses every later rollback with "Unknown
  directory contents preserved" (`recovery.py:77`), against "Interrupted rollback is
  restartable" (`README.md:144` of the package).

### Other departures the models reach

These are not kept as runs; each was found by TLC on the same modules, or met while they were
written.

- LocalSession. A line that a poll reads while its worker is writing it is skipped and its end is never
  looked at: the session does not return it once it is whole, and the ack of a later line covers it, so that
  a reopening does not return it either (`backend.py:304-314`, against `backend.py:8-9`, "from the line it last
  delivered", and `ledger.py:8-9`, "replays every unacked event"). It needs no crash and no failed
  write. `AckedWereDelivered`, `EveryLineDelivered` and `EventFeed` say that such lines
  (`missed`) are the only ones lost in this way. A question missed so gets no
  answer of its own, and the worker takes for it the answer to its next one, against
  `README.md:89` of the package; `AnswersMatch` speaks of workers that had no line read half written
  (`torn`). A reopened session does not settle a dead worker whose pid another program has, against "a
  crashed child always settles" (`README.md:98`), as `README.md:107` concedes;
  `CrashedChildSettles` names that case (`PidTaken`) and shows that the worker settles when the program has
  ended. `_drain` moves the cursor before the ledger is written; when that write raises,
  the events it collected are lost and later covered by `acked_through` (`backend.py:314`,
  against `ledger.py:7`). Two live workers of one key after a crash between Popen and the ledger write
  (`backend.py:161`, `:191`). A late or replayed heartbeat turns a terminal state back into
  running, and the reaper settles it again (`:471`, `:366`). A settlement whose ledger write
  raised is not told to the caller (`:296`). A crash between `reply` and `ack` replays the
  question, and the second reply is taken for the next one, which `README.md:89` of the
  package ("the Nth reply line answers the child's Nth question") does not foresee.
- GateRun. With a configuration that does not parse `limit_or_none` is None (`gate.py:227-232`,
  `gate_runner.py:305`) and a runner goes on without a slot; `Limit` is a constant of the model, so
  `WithinLimit` speaks of configurations that do parse, read the same by all. `gate_queue` has no kill: that a
  dead runner gives its slot back is covered by the proof of `WithinLimit`, and by `gate_live`
  for the queue behind it. The failure of a slow spawn is written over the result of the run it is about
  (`gate.py:929`, against `gate.py:1274`). A runner that is already queued when that failure is
  written is no longer in `live_pending`, so `queue_head` never names it and `_await_slot`
  polls for ever (`gate_runner.py:104`): `gate_live` has no slow spawn for that reason. A run
  declared failed goes on and finishes (`gate.py:929`). Two runs of one key,
  when the call that writes second began first (`gate.py:293`). With a slow spawn, a record
  that never gets a runner keeps the head of the queue until its grace is over
  (`gate_runner.py:110`). `gate wait` reports "not alive and left no result" of a runner that
  started between the probe and the read (`gate.py:286`). A fresh request that joins between
  the queued re-check and its update is satisfied away (`gate_runner.py:312`, against
  `gate.py:880`).
- ServeReads. A snapshot built by a full load while the index was busy is kept when the edit it
  shows is undone before the flush (`readstate.py:187`); `Reverts` is FALSE in both runs, and
  `StampCovers` is proved for `~Reverts` only. The resync of a failed watcher precedes the
  backoff; an edit during the backoff is never announced (`watch.py:218`). A flush resolves the layout, waits for `_operation` and then takes the identity
  back from a newer layout a request has adopted, against the comment at `watch.py:121-122`;
  the next request adopts the new one again. Between `mark_stale()` and `advance("resync")` an
  apply's reply carries a generation whose slot is older than the write: with an error of the
  watcher TLC violates `ApplyCovers`, and the proof shows that nothing else can, reverting
  edits apart. The fresh read after a failed build carries the generation
  of its key, not that of what it read: `StampCovers` and `ApplyCovers` speak of memoized
  replies. The start of the watcher and a rewatch lose edits as the backoff does.
- WorkMutation. An edit saved to a member the transaction has already touched is removed by the
  rollback. A target of a delete or move that is edited between the second preflight and the
  capture of the fingerprints goes the way of the plan. When the look at what a delete captured
  raises (`transactions.py:2112-2131`) the capture stays in quarantine only, and the rollback
  reports itself clean. A directory that was there at the snapshot and that an editor removes is
  made again and stays. Pruning ignores `complete: false` (`:2849-2886`), though the docstring of
  `_terminal_journal_state` says it pins the evidence; `forgotten` in `NothingLost` is that.
- ForkTransaction. A crash between the mkdir and its journal record ("Directory ownership is
  unproven"), a staging file written half ("Unknown staged bytes") and a torn first journal each
  leave something no recovery accepts: `Orphaned` and the torn case in `Recoverable`. A stale
  lock is removed by hand only. An edit between the last look at a destination and its
  replacement is lost, and a fork's destination that appears between the revalidation and
  `_changes` is overwritten; `EditsKept` leaves these windows out (`InWindow`).
- WorkStages. A reparent of an item with an open skip hold drops the hold, since the new owner's
  ledger does not have it, and the entry can no longer be answered for the item. A reparent of
  a parked item that owns itself is rolled back. A parent may resolve while a command that files
  or moves a child below it has planned. `advance --return` is refused at a finish that waits on
  children.

## 4. Proofs

The eight `*Proofs` modules prove, for all values of the
constants that satisfy the modules' ASSUMEs:

- LocalSession: `TypeOK`, `AckedIsRead`, `NoAckedReplay`, `AckedWereDelivered`,
  `SuccessHasEvidence`, `AnswersMatch` as invariants, and `IsEventFeed`: the session
  implements `EventFeed`. `AckNeverLost` (no run of its own: `EventFeed` says it of its `acked`)
  is proved by itself too.
- GateRun: `TypeOK`, `RecordedIsComplete`, `PrunedOwesNothing`, `WithinLimit`,
  `FinishedIsSettled` as invariants, `RequestersFrozen` and `SettledWakesStay` as action
  properties.
- ServeReads: `TypeOK`, and `StampCovers` when no edit restores an earlier content
  (`~Reverts`; with reverting edits TLC violates it, see 3). `ApplyCovers` under the same
  premise and `[]Undisturbed`: no apply is between the start and the end of its `_reconcile`
  while the watcher is between `mark_stale()` and `advance("resync")` (the race of 3, which
  without the premise TLC finds).
- ChangeStream: `TypeOK`, `NoGap`, `Bounded` as invariants.
- WorkMutation: `TypeOK` and `NothingLost` as invariants, and `IsAtomic`: the executor implements
  `AtomicMutation`.
- ForkTransaction: `TypeOK`, `EditsKept`, `TrackingLast`, `Recoverable` as invariants,
  `RollbackRestores` as an action property.
- WorkStages: `TypeOK`, `SomeoneProceeds`, `CoherentPages` and `NoDeadEnd` as invariants,
  `HeldStays` as an action property.

The ASSUMEs give the constants their types. Those that say more: no two effects of a plan are
about the same name (`EffectsAssumption` of WorkMutation: the preflight refuses a name written
twice and a destination taken twice or written too, and no planner writes what it moves or
deletes), a fork's plan is `WellOrdered` and the tree it starts from `IsTree` (2.6), items are finite
(`BoundsAssumption` of WorkStages) and `NoItem` is no item (GateRun).

Each inductive invariant, or the properties it rests on, was checked by TLC before it was proved.

*LocalSession.* `IInv` adds to the properties: `Bookkeeping` (what a key that is not known, a
session that is down or an idle poll has), `InFlightIsRead` (a collected or returned event is of a
line the cursor has passed) and `ReadIsTold` (with no failed write, every line the cursor
has passed was returned by some `wait` or is in the batch). The last is what makes `AckedWereDelivered`
inductive: an ack alone knows one line, and the others it covers are known only through the
cursor. Lines that are not whole are in `MissedIsRead`: of those the session has read, what is still
partial is missed, nothing missed is in the batch or beyond what was read, and only torn workers have
any. `SuccessHasEvidence` speaks of the ledger, which is a copy of the entries, so
`EvidenceInv` says it of both; lines and exit codes are never taken back (`KidsEffect`).
`AnswersMatch` is an argument by counting. The worker takes replies by their number, so the
n-th reply must be for no later question than the n-th. `AnswerInv` follows the number of
questions along the log: up to `acked_through` each has had its reply (`AcksReplied`), since the
caller replies to its first event and acks it after (`RepliedIsFirst`), and what is read and
not acked is in its hands (`UnackedInHand`); a replay can only add replies to earlier questions. On the side
of the worker `WritingInv` says that the lines it has asked at have ended, that its n-th question is
at least the n-th of the file unless a line before it is not whole, and that the line it is in the
middle of is partial. Without a crash a key has one process, which has asked every question of its file
(`OneProcess`), and the inequalities are equalities. `IsEventFeed` needs one more fact, `Collected`: what is
collected of a worker are all lines from some line to its cursor but the missed ones, and none before
its drain. So they are the lines between `Position` and the cursor, the acks are not beyond it
(`Standing`), and `PollReturn` hands out exactly those. `WritingInv` is needed here too: a line is
completed by the end of its writing, which must be that of the last line.

*GateRun.* `RecordedIsComplete` is not inductive because a recorder writes "recorded" from
the items it has gone through. `IInv` adds where a run can be before it has a record
(`UnbornIsBlank`), that only its spawner acts on a run that has not started
(`SpawnerOwns`, `EarlyIsUnrecorded`), that recorders work on runs with a result
(`RecordersAreLate`), that an item in hand has its receipt (`HandsEmpty`,
`HandHasReceipt`), and that pruned records are over (`PrunedIsOver`). The lemma `StepEffect`
reduces the actions to the few effects a step can have on these, and the invariant is
shown against the effects. `SlotInv`: whoever is past the queue holds a slot, and a slot is taken
only when fewer than `Limit` are held. `AnswerInv`: a call that records a run's requesters still
has its own item to do, in hand, or settled (`StillToSettle`), and what it reports on is over
(`AnsweredIsOver`), so nobody joins and no settlement is undone (`OverStays`).

*ServeReads.* `IInv` has two groups. `Locking`: one thread in the operation lock
(`OneOperation`), versions in range (`InRange`), a builder's key is its slot's
(`KeysAgree`), one builder per key (`SingleFlight`), and the baseline never ahead of the
index (`IndexAhead`). `Showing`: with `_needs_reconcile` down the baseline's index shows all
that was announced (`FreshIndex`); a done slot shows what was announced at its generation
(`SnapshotsShow`); a reconcile between its open and its end has seen what its frame will
promise (`ReconcilesShow`); a reconcile that leaves the generation alone finds the slot as
new as its frame (`UnmovedIsCovered`); and one whose token was overtaken leaves a later
generation that has to be built afresh (`OvertakenIsStale`). Steps that touch none of this
go through the lemma `QuietKeeps`; the others (session, builds, invalidations, the two ends
of a reconcile) have a lemma each. The invariant has a parameter, the set `also` of workers whose
replies count as announcements: with none it is about frames and gives `StampCovers`, with the
apply handler it is about the replies of applies as well and gives `ApplyCovers`. A frame needs no
`Undisturbed`, because a watcher that stops has disowned its flushes; nobody disowns an apply.

*ChangeStream.* `IInv` is `TypeOK`, `Bounded`, `NoGap` and `Marked`: while the hub is open
every open stream is subscribed and no queue holds an end; once it is closed every open stream's
queue closes with one. It is needed because `NoGap` alone does not know that a broadcast reaches
every open stream. The lemmas `OfferLeads` and `OfferEnd` say what a full queue becomes.

*WorkStages.* `IInv` is `Shape` (pages and processes are records of their types, paths are not
empty), `Planned` for each process (the lock a command has is that of the owner of its path; with
a plan to change a page, no open entry of that owner's ledger names the path, and the page was
at that path when it was read; a ledger plan adds only entries that name its path) and
`Exclusive` (one process per owner's lock). A write that changes a phase therefore finds its item
not held: a hold could only have been filed under the same lock, and a page that a reparent has
moved since is not what the plan read, so the write fails. `SomeoneProceeds` follows from
`Exclusive` with the order of the locks: who has the bundle lock waits for nothing.
`CoherentPages` needs more than the pages: `GoodInv`, on top of `IInv`, says that every page's
status admits its phase and that a planned page is as good as the page it was made from
(`GoodPlan`), since the page is written some steps after it was planned. The lemma `RouteKeeps`
shows it for every transition that the routing table offers. `NoDeadEnd` goes through the same
table in the other direction: from a page that is ready and good, `Locate` finds the stage
(`StageOnward`), the gates let it through (`ReadyRoute`), and the move that `Pick` takes
brings it nearer to done (`Onward`) and is valid. `TypeOK` has the paths in it, and to keep them
the paths must be a tree (`IsTree`: every proper prefix of a path is the path of the item it ends
in, and no two items have one path). A reparent replaces the head of every path below the item;
the lemma `MovedTree` shows that the result is a tree again when the new place is not below the
item itself.

*WorkMutation.* `MutationInv` speaks of the one plan that runs. The effects begun have landed, the
others have touched nothing (`AllLanded`, `Untouched`), for members that no editor has
raced for; the member in custody is where its step says (`InCustody`); and each member is as it
was, or protected, or has a backup equal to what it was (`Restorable`), so a rollback that does not
report a problem has restored everything. A success therefore maps to `Commit`, a clean
failure to `Abort`, any other end to `Break`, an edit to an edit, and everything else to a
stutter. `KeptInv` strengthens `NothingLost`: a valued content is safe (in quarantine or in a
backup that no sweep removes unnoticed), or in its place and not about to be removed unseen, or in custody
before the look at it.

*ForkTransaction.* `TypeInv` has the tasks left of a command: they fit its kind and end with the
last one. `EditsInv`: between the look at a path and its replacement what stands there is in a
journal that stays (`Looked`, `Journaled`); a recovery finds only the two sides of its journal
(`KnownSides`). `RollInv` ties the tasks to the tree: they are sorted by phase; in a command going
forward content that is no longer to be put is promoted before tracking is (`Applying`), and in a
recovery everything that is no longer to be undone is as before, every parent no longer to be
removed is gone, and no staging file is left but those still to be unstaged (`Recovering`). When
`Close` comes nothing is left to do, which is `RollbackRestores`. `Chosen` is a recursive
function; what it computes is proved by the least-number principle (`LeastNumber`).

`Recoverable` has a module of its own, `ForkRecoveryProofs`. `RollInv` speaks of the paths in one
journal; `Observations` looks at the whole tree around them: at the directories above, at what
else lies in the directories it will undo, at the staging files. `LeftInv` relates that tree to every live
journal while no editor has been there. Paths the journal does not name are as they were, each it names is on one of its
two sides, and a directory it had to make is there only as the journal's own (`AsLeft`); the directories it names hold nothing
but what it names and, after a crash, a scratch file (`Enclosed`). The second needs two facts
that have to be carried through edits as well: the tree stays a tree and nothing lies in a directory that is not
there (`TreeInv`), and what a preview was prepared against (`PlansFit`). `Making` says which directories a
command is still to make. The leftovers a crash can cause that no recovery accepts are those
`Orphaned` and the torn journal name, and `LeftObserved` shows that there are no others. Outside
them the theorem covers any number of interrupted transactions and recoveries. The scratch file
of `fork_restart` is one of these leftovers.

The proofs corrected the models in six places, each confirmed by TLC on a larger instance
or by reading the source again: `InHands` did not name a member an editor had raced for before the capture
(with three edits `NothingLost` failed); `Missing` and `WellOrdered` were implicit in the
instance; `EditsKept` has to allow for an edit that is, to the byte, what the transaction was to
write; `Recoverable` for a fork whose destination changed between its revalidation and its journal;
`Fits` let an update name a directory without what is in it, which `content_changes` never does; and a
restoration could leave its scratch file in a directory that was gone, where creating it fails.

Only model-checked: the liveness properties `EveryLineDelivered`, `CrashedChildSettles`,
`NobodyWaitsForever`, `QueueMoves`, `ClientsCatchUp`, `CatchesUp` and `StreamsEnd`, because the
prover does not reach fairness or ENABLED. `Restartable` is violated, as `fork_restart` shows.

## 5. Plan

Done: LocalSession and WorkMutation with their refinements, GateRun, ServeReads, ChangeStream,
ForkTransaction and WorkStages, all with proofs. Next, in order:

1. Dispatch records and claims of gw-orchestrate with the execute-return admission, above
   WorkStages.
2. `FreshReads`: the abstract specification ServeReads implements (a reply at generation g
   shows all that was announced up to g), composed with ChangeStream.

## 6. Not modelled

Of the modelled parts: what follows a line that lacks only its newline when its worker dies (the
next line is appended to it), lines that differ by where `splitlines()` cuts, and crashes within a
write of `replies.jsonl` (LocalSession); dispatch records, claims, integration branches and the wait loop; filing,
dependencies, `expected_phase`, `released_at`, skip-gate bypasses, execute-return admission and
archive (WorkStages); directory trees inside a moved member, modes, symbolic links, the
validation rules and the commit hook (WorkMutation); transitions between file and directory,
edits of staging files, several stores, modes (ForkTransaction); what events are coalesced into
a frame (ChangeStream).

subagents-io's pool shares nothing between its items but a semaphore and a list, and okf-ext's
`write_all` is a loop without rollback whose result lists what was written: neither has
interleavings that the modelled executors do not have. workflow-orca's state is Orca's.

Parsing, formatting and byte-preserving edits of documents (okf-io, okf-ext, gw-wire), the
wiki lanes and their model calls, the code graph's parsers and queries, command-line
parsing and HTTP routing: strings and sequential transformations, without state that two
actors share. Git itself, SQLite itself and the operating system are environment: their effects
appear where the modelled code depends on them. The repository has some 140 000 lines of
implementation, and most of them are of these kinds: the map covers the small part in which
state is shared. `PROJECT.json` gives the reason for each part that is not modelled.

--------------------------- MODULE GateRunProofs ---------------------------
(***************************************************************************)
(* What GateRun keeps for any items, run ids, keys, limits and bounds:     *)
(* what is recorded is complete and what is pruned owes nothing (IInv), no *)
(* more runners than the limit hold a slot (SlotInv), whoever is told that *)
(* its run finished has its outcome (AnswerInv), and settled wakes stay.   *)
(***************************************************************************)
EXTENDS GateRun, FiniteSetTheorems, TLAPS

-----------------------------------------------------------------------------
(***************************************************************************)
(* The inductive invariant.                                                *)
(***************************************************************************)

\* A runner that has not written its result yet, or does not exist yet.
Early == {"none", "boot", "locked", "starting", "queue", "head", "recheck", "satisfied",
          "moved", "launch", "command"}

\* An id without a record has no runner and no result.
UnbornIsBlank == \A r \in RunIds : r \notin born => rpc[r] = "none" /\ result[r] = "none"

\* The call that wrote a record is the only one to spawn its runner, once.
SpawnerOwns ==
    \A i \in Items :
        /\ cpc[i] \in {"spawn", "await", "failed", "unheld", "unheard"} => run[i] \in born
        /\ cpc[i] = "spawn" => rpc[run[i]] = "none"
        /\ \A j \in Items : cpc[i] = "spawn" /\ cpc[j] = "spawn" /\ run[i] = run[j] => i = j

\* No record is recorded, or has an exit, before its runner wrote it.
EarlyIsUnrecorded ==
    \A r \in RunIds : rpc[r] \in Early => ~recorded[r] /\ result[r] \notin Exits

\* A call only records runs whose runner is past its command.
RecordersAreLate ==
    \A i \in Items : cpc[i] \in {"recovering", "recording"} =>
        /\ run[i] \in RunIds
        /\ rpc[run[i]] \notin Early

\* Nobody is being settled outside of the loops that settle.
HandsEmpty ==
    /\ \A i \in Items : cpc[i] \notin {"recovering", "recording"} => hand[i] = NoItem
    /\ \A r \in RunIds : rpc[r] \notin {"recording", "woke", "unheard"} => hand[r] = NoItem

\* The item a recorder is about to settle has its receipt.
HandHasReceipt ==
    /\ \A i \in Items :
         cpc[i] \in {"recovering", "recording"} /\ hand[i] # NoItem
             => <<hand[i], run[i]>> \in receipts
    /\ \A r \in RunIds :
         rpc[r] = "recording" /\ hand[r] # NoItem => <<hand[r], r>> \in receipts

\* Pruned records are those of runners that are gone.
PrunedIsOver ==
    \A r \in born \ records :
        /\ rpc[r] = "gone"
        /\ result[r] \in Exits => requesters[r] \subseteq Settled(r)

IInv ==
    /\ TypeOK
    /\ UnbornIsBlank
    /\ SpawnerOwns
    /\ EarlyIsUnrecorded
    /\ RecordersAreLate
    /\ HandsEmpty
    /\ HandHasReceipt
    /\ PrunedIsOver
    /\ RecordedIsComplete

-----------------------------------------------------------------------------
(***************************************************************************)
(* Types.                                                                  *)
(***************************************************************************)

\* What a step leaves alone keeps its type.
LEMMA TypesFrame ==
    /\ IndexTypes /\ UNCHANGED index => IndexTypes'
    /\ DiskTypes /\ UNCHANGED disk => DiskTypes'
    /\ RunnerTypes /\ UNCHANGED runners => RunnerTypes'
    /\ CallTypes /\ UNCHANGED callers => CallTypes'
    /\ LoopTypes /\ UNCHANGED loops => LoopTypes'
    /\ BoundTypes /\ UNCHANGED <<clock, bounds>> => BoundTypes'
  BY DEF IndexTypes, DiskTypes, RunnerTypes, CallTypes, LoopTypes, BoundTypes,
         index, disk, runners, callers, loops, bounds

\* Every step of the index keeps the types: a call or a runner only ever writes
\* values its record, its place and its loop variables can hold.
LEMMA TypeStep ==
    ASSUME IInv, [Next]_vars
    PROVE  TypeOK'
<1> USE GateAssumption
<1>0. TypeOK /\ RecordersAreLate
  BY DEF IInv
<1>1. ASSUME Tick
      PROVE  TypeOK'
  <2>1. BoundTypes'
    BY <1>0, <1>1 DEF TypeOK, BoundTypes, bounds, Tick
  <2>2. QED
    BY <1>0, <1>1, <2>1, TypesFrame DEF TypeOK, Tick
<1>2. ASSUME NEW i \in Items, CloseItem(i)
      PROVE  TypeOK'
  <2>1. DiskTypes'
    BY <1>0, <1>2 DEF TypeOK, DiskTypes, CloseItem, Exits
  <2>2. BoundTypes'
    BY <1>0, <1>2 DEF TypeOK, BoundTypes, CloseItem
  <2>3. QED
    BY <1>0, <1>2, <2>1, <2>2, TypesFrame DEF TypeOK, CloseItem
<1>3. ASSUME NEW i \in Items, NEW k \in Keys, NEW f \in SUBSET Options, RunBegin(i, k, f)
      PROVE  TypeOK'
  <2>1. CallTypes'
    <3>1. f \in SUBSET {"fresh", "notify", "wait"}
      BY <1>3
    <3>2. records \subseteq RunIds /\ clock \in Nat /\ CallTypes
      BY <1>0 DEF TypeOK, IndexTypes, BoundTypes
    <3>3. QED
      BY <1>3, <3>1, <3>2 DEF RunBegin, Begin, CallTypes, CallPlaces, Answers
  <2>2. BoundTypes'
    BY <1>0, <1>3 DEF TypeOK, BoundTypes, RunBegin, Begin
  <2>3. QED
    BY <1>0, <1>3, <2>1, <2>2, TypesFrame DEF TypeOK, RunBegin, Begin
<1>4. ASSUME NEW i \in Items, WaitBegin(i)
      PROVE  TypeOK'
  <2>1. CallTypes'
    <3>1. records \subseteq RunIds /\ clock \in Nat /\ CallTypes
      BY <1>0 DEF TypeOK, IndexTypes, BoundTypes
    <3>2. CASE Begin(i, NoRun, "recover")
      BY <1>4, <3>1, <3>2 DEF WaitBegin, Begin, CallTypes, CallPlaces, Answers
    <3>3. ASSUME NEW r \in records, Begin(i, r, "probe")
          PROVE  CallTypes'
      BY <1>4, <3>1, <3>3 DEF WaitBegin, Begin, CallTypes, CallPlaces, Answers
    <3>4. QED
      BY <1>4, <3>2, <3>3 DEF WaitBegin
  <2>2. BoundTypes'
    BY <1>0, <1>4 DEF TypeOK, BoundTypes, WaitBegin, Begin
  <2>3. QED
    BY <1>0, <1>4, <2>1, <2>2, TypesFrame DEF TypeOK, WaitBegin, Begin
<1>5. ASSUME NEW i \in Items, RecoverVisit(i)
      PROVE  TypeOK'
  <2>1. CallTypes'
    BY <1>0, <1>5 DEF TypeOK, CallTypes, RecoverVisit, GoOn, CallPlaces, Answers
  <2>2. LoopTypes'
    <3>1. \/ UNCHANGED todo
          \/ \E r \in records : StartRecording(i, r)
      BY <1>5 DEF RecoverVisit
    <3>2. LoopTypes /\ i \in Processes
          /\ \A r \in records : requesters[r] \ Settled(r) \in SUBSET Items
      BY <1>0 DEF TypeOK, IndexTypes, Processes
    <3>3. hand' = hand
      BY <1>5 DEF RecoverVisit
    <3>4. QED
      BY <3>1, <3>2, <3>3 DEF LoopTypes, StartRecording
  <2>3. QED
    BY <1>0, <1>5, <2>1, <2>2, TypesFrame DEF TypeOK, RecoverVisit
<1>6. ASSUME NEW p \in Processes, NEW r \in RunIds, NEW q \in Items,
             RecordReceipt(p, r, q)
      PROVE  TypeOK'
  <2>1. DiskTypes'
    BY <1>0, <1>6 DEF TypeOK, DiskTypes, RecordReceipt, Exits
  <2>2. LoopTypes'
    BY <1>0, <1>6 DEF TypeOK, LoopTypes, RecordReceipt, Processes
  <2>3. QED
    BY <1>0, <1>6, <2>1, <2>2, TypesFrame DEF TypeOK, RecordReceipt
<1>7. ASSUME NEW p \in Processes, NEW r \in RunIds, NEW q \in Items, RecordSkip(p, r, q)
      PROVE  TypeOK'
  <2>1. IndexTypes'
    BY <1>0, <1>7 DEF TypeOK, IndexTypes, RecordSkip, Settle, Results, Exits, Wakes
  <2>2. LoopTypes'
    BY <1>0, <1>7 DEF TypeOK, LoopTypes, RecordSkip, Processes
  <2>3. QED
    BY <1>0, <1>7, <2>1, <2>2, TypesFrame DEF TypeOK, RecordSkip
<1>8. ASSUME NEW p \in Processes, NEW r \in RunIds, NEW q \in Items,
             RecordRefused(p, r, q)
      PROVE  TypeOK'
  <2>1. BoundTypes'
    BY <1>0, <1>8 DEF TypeOK, BoundTypes, RecordRefused
  <2>2. LoopTypes'
    BY <1>0, <1>8 DEF TypeOK, LoopTypes, RecordRefused, Processes
  <2>3. CallTypes'
    BY <1>0, <1>8 DEF TypeOK, CallTypes, RecordRefused, CallPlaces, Answers
  <2>4. QED
    BY <1>0, <1>8, <2>1, <2>2, <2>3, TypesFrame DEF TypeOK, RecordRefused
<1>9. ASSUME NEW p \in Processes, NEW r \in RunIds, RecordSettle(p, r)
      PROVE  TypeOK'
  <2>1. IndexTypes'
    BY <1>0, <1>9 DEF
       TypeOK, IndexTypes, LoopTypes, RecordSettle, Settle, Results, Exits, Wakes
  <2>2. LoopTypes'
    BY <1>0, <1>9 DEF TypeOK, LoopTypes, RecordSettle, Processes
  <2>3. QED
    BY <1>0, <1>9, <2>1, <2>2, TypesFrame DEF TypeOK, RecordSettle
<1>10. ASSUME NEW i \in Items, Recovered(i)
      PROVE  TypeOK'
  <2>1. CallTypes'
    BY <1>0, <1>10 DEF TypeOK, CallTypes, Recovered, GoOn, CallPlaces, Answers
  <2>2. LoopTypes'
    BY <1>0, <1>10 DEF TypeOK, LoopTypes, Recovered, Processes
  <2>3. QED
    BY <1>0, <1>10, <2>1, <2>2, TypesFrame DEF TypeOK, Recovered
<1>11. ASSUME NEW i \in Items, Evaluate(i)
      PROVE  TypeOK'
  <2>1. CallTypes'
    BY <1>0, <1>11 DEF TypeOK, CallTypes, Evaluate, GoOn, Return, CallPlaces, Answers
  <2>2. QED
    BY <1>0, <1>11, <2>1, TypesFrame DEF TypeOK, Evaluate
<1>12. ASSUME NEW i \in Items, NEW r \in RunIds, NEW X \in Probes(i), JoinRun(i, r, X)
      PROVE  TypeOK'
  <2>1. CallTypes'
    BY <1>0, <1>12 DEF TypeOK, CallTypes, JoinRun, Return, CallPlaces, Answers
  <2>2. IndexTypes'
    <3>1. woken' \in [RunIds \X Items -> Wakes]
      BY <1>0, <1>12 DEF TypeOK, IndexTypes, JoinRun, AddWaiter, Wakes
    <3>2. fresh' \in [RunIds -> BOOLEAN]
      BY <1>0, <1>12 DEF TypeOK, IndexTypes, JoinRun
    <3>3. records' \subseteq RunIds
      BY <1>0, <1>12 DEF TypeOK, IndexTypes, JoinRun
    <3>4. requesters' \in [RunIds -> SUBSET Items]
      BY <1>0, <1>12 DEF TypeOK, IndexTypes, JoinRun
    <3>5. QED
      BY <1>0, <1>12, <3>1, <3>2, <3>3, <3>4 DEF TypeOK, IndexTypes, JoinRun
  <2>3. QED
    BY <1>0, <1>12, <2>1, <2>2, TypesFrame DEF TypeOK, JoinRun
<1>13. ASSUME NEW i \in Items, NEW r \in RunIds, NEW X \in Probes(i), WriteRun(i, r, X)
      PROVE  TypeOK'
  <2>1. CallTypes'
    BY <1>0, <1>13 DEF TypeOK, CallTypes, WriteRun, GoOn, CallPlaces, Answers
  <2>2. IndexTypes'
    <3>1. woken' \in [RunIds \X Items -> Wakes]
      BY <1>0, <1>13 DEF TypeOK, IndexTypes, WriteRun, AddWaiter, Wakes
    <3>2. want[i] \in Keys /\ now[i] \in Nat
      BY <1>0 DEF TypeOK, CallTypes
    <3>3. fresh' \in [RunIds -> BOOLEAN]
      BY <1>0, <1>13 DEF TypeOK, IndexTypes, WriteRun
    <3>4. records' \subseteq RunIds /\ born' \subseteq RunIds
      BY <1>0, <1>13 DEF TypeOK, IndexTypes, WriteRun
    <3>5. key' \in [RunIds -> Keys] /\ started' \in [RunIds -> Nat]
      BY <1>0, <1>13, <3>2 DEF TypeOK, IndexTypes, WriteRun
    <3>6. requesters' \in [RunIds -> SUBSET Items]
      BY <1>0, <1>13 DEF TypeOK, IndexTypes, WriteRun
    <3>7. QED
      BY <1>0, <1>13, <3>1, <3>3, <3>4, <3>5, <3>6 DEF TypeOK, IndexTypes, WriteRun
  <2>3. QED
    BY <1>0, <1>13, <2>1, <2>2, TypesFrame DEF TypeOK, WriteRun
<1>14. ASSUME NEW i \in Items, Spawn(i)
      PROVE  TypeOK'
  <2>1. CallTypes'
    BY <1>0, <1>14 DEF TypeOK, CallTypes, Spawn, GoOn, CallPlaces, Answers
  <2>2. RunnerTypes'
    BY <1>0, <1>14 DEF TypeOK, RunnerTypes, Spawn, RunnerPlaces, Locked
  <2>3. BoundTypes'
    BY <1>0, <1>14 DEF TypeOK, BoundTypes, Spawn
  <2>4. QED
    BY <1>0, <1>14, <2>1, <2>2, <2>3, TypesFrame DEF TypeOK, Spawn
<1>15. ASSUME NEW i \in Items, AwaitStarted(i)
      PROVE  TypeOK'
  <2>1. CallTypes'
    BY <1>0, <1>15 DEF TypeOK, CallTypes, AwaitStarted, GoOn, Return, CallPlaces, Answers
  <2>2. BoundTypes'
    BY <1>0, <1>15 DEF TypeOK, BoundTypes, AwaitStarted
  <2>3. QED
    BY <1>0, <1>15, <2>1, <2>2, TypesFrame DEF TypeOK, AwaitStarted
<1>16. ASSUME NEW i \in Items, NEW X \in Probes(i), FailedProbe(i, X)
      PROVE  TypeOK'
  <2>1. CallTypes'
    BY <1>0, <1>16 DEF TypeOK, CallTypes, FailedProbe, GoOn, Return, CallPlaces, Answers
  <2>2. QED
    BY <1>0, <1>16, <2>1, TypesFrame DEF TypeOK, FailedProbe
<1>17. ASSUME NEW i \in Items, FailedRead(i)
      PROVE  TypeOK'
  <2>1. CallTypes'
    BY <1>0, <1>17 DEF TypeOK, CallTypes, FailedRead, GoOn, Return, CallPlaces, Answers
  <2>2. QED
    BY <1>0, <1>17, <2>1, TypesFrame DEF TypeOK, FailedRead
<1>18. ASSUME NEW i \in Items, MarkFailed(i)
      PROVE  TypeOK'
  <2>1. CallTypes'
    BY <1>0, <1>18 DEF TypeOK, CallTypes, MarkFailed, Return, CallPlaces, Answers
  <2>2. IndexTypes'
    BY <1>0, <1>18 DEF TypeOK, IndexTypes, MarkFailed, Results, Exits, Wakes
  <2>3. QED
    BY <1>0, <1>18, <2>1, <2>2, TypesFrame DEF TypeOK, MarkFailed
<1>19. ASSUME NEW i \in Items, WaitChoose(i)
      PROVE  TypeOK'
  <2>1. CallTypes'
    <3>1. records \subseteq RunIds /\ CallTypes
      BY <1>0 DEF TypeOK, IndexTypes
    <3>2. run' \in [Items -> RunIds \cup {NoRun}]
      BY <1>19, <3>1 DEF WaitChoose, CallTypes
    <3>3. QED
      BY <1>19, <3>1, <3>2 DEF WaitChoose, CallTypes, GoOn, Return, CallPlaces, Answers
  <2>2. QED
    BY <1>0, <1>19, <2>1, TypesFrame DEF TypeOK, WaitChoose
<1>20. ASSUME NEW i \in Items, NEW X \in Probes(i), WaitProbe(i, X)
      PROVE  TypeOK'
  <2>1. CallTypes'
    BY <1>0, <1>20 DEF TypeOK, CallTypes, WaitProbe, GoOn, CallPlaces, Answers
  <2>2. QED
    BY <1>0, <1>20, <2>1, TypesFrame DEF TypeOK, WaitProbe
<1>21. ASSUME NEW i \in Items, WaitRead(i)
      PROVE  TypeOK'
  <2>1. CallTypes'
    BY <1>0, <1>21 DEF
       TypeOK, CallTypes, WaitRead, Report, StillRunning, GoOn, Return, CallPlaces,
       Answers
  <2>2. LoopTypes'
    <3>1. \/ UNCHANGED todo
          \/ run[i] \in records /\ StartRecording(i, run[i])
      BY <1>21 DEF WaitRead, Report, StillRunning
    <3>2. LoopTypes /\ i \in Processes
          /\ (run[i] \in records => requesters[run[i]] \ Settled(run[i]) \in SUBSET Items)
      BY <1>0 DEF TypeOK, IndexTypes, Processes
    <3>3. hand' = hand
      BY <1>21 DEF WaitRead
    <3>4. QED
      BY <3>1, <3>2, <3>3 DEF LoopTypes, StartRecording
  <2>3. QED
    BY <1>0, <1>21, <2>1, <2>2, TypesFrame DEF TypeOK, WaitRead
<1>22. ASSUME NEW i \in Items, WaitRecorded(i)
      PROVE  TypeOK'
  <2>1. CallTypes'
    BY <1>0, <1>22 DEF
       TypeOK, CallTypes, WaitRecorded, Report, Return, CallPlaces, Answers
  <2>2. LoopTypes'
    BY <1>0, <1>22 DEF TypeOK, LoopTypes, WaitRecorded, Report, Processes
  <2>3. QED
    BY <1>0, <1>22, <2>1, <2>2, TypesFrame DEF TypeOK, WaitRecorded
<1>23. ASSUME NEW i \in Items, WaitCollect(i)
      PROVE  TypeOK'
  <2>1. CallTypes'
    BY <1>0, <1>23 DEF TypeOK, CallTypes, WaitCollect, Return, CallPlaces, Answers
  <2>2. IndexTypes'
    BY <1>0, <1>23 DEF TypeOK, IndexTypes, WaitCollect, Results, Exits, Wakes
  <2>3. QED
    BY <1>0, <1>23, <2>1, <2>2, TypesFrame DEF TypeOK, WaitCollect
<1>24. ASSUME NEW i \in Items, CallerCrash(i)
      PROVE  TypeOK'
  <2>1. CallTypes'
    BY <1>0, <1>24 DEF TypeOK, CallTypes, CallerCrash, Return, CallPlaces, Answers
  <2>2. LoopTypes'
    BY <1>0, <1>24 DEF TypeOK, LoopTypes, CallerCrash, Processes
  <2>3. BoundTypes'
    BY <1>0, <1>24 DEF TypeOK, BoundTypes, CallerCrash
  <2>4. QED
    BY <1>0, <1>24, <2>1, <2>2, <2>3, TypesFrame DEF TypeOK, CallerCrash
<1>25. ASSUME NEW r \in RunIds, Acquire(r)
      PROVE  TypeOK'
  <2>1. RunnerTypes'
    BY <1>0, <1>25 DEF TypeOK, RunnerTypes, Acquire, RunnerGoes, RunnerPlaces, Locked
  <2>2. QED
    BY <1>0, <1>25, <2>1, TypesFrame DEF TypeOK, Acquire
<1>26. ASSUME NEW r \in RunIds, ReadRecord(r)
      PROVE  TypeOK'
  <2>1. RunnerTypes'
    BY <1>0, <1>26 DEF TypeOK, RunnerTypes, ReadRecord, RunnerGoes, RunnerPlaces, Locked
  <2>2. QED
    BY <1>0, <1>26, <2>1, TypesFrame DEF TypeOK, ReadRecord
<1>27. ASSUME NEW r \in RunIds, SayStarted(r)
      PROVE  TypeOK'
  <2>1. RunnerTypes'
    BY <1>0, <1>27 DEF TypeOK, RunnerTypes, SayStarted, RunnerGoes, RunnerPlaces, Locked
  <2>2. IndexTypes'
    BY <1>0, <1>27 DEF TypeOK, IndexTypes, SayStarted, Results, Exits, Wakes
  <2>3. QED
    BY <1>0, <1>27, <2>1, <2>2, TypesFrame DEF TypeOK, SayStarted
<1>28. ASSUME NEW r \in RunIds, HeadOfQueue(r)
      PROVE  TypeOK'
  <2>1. RunnerTypes'
    BY <1>0, <1>28 DEF TypeOK, RunnerTypes, HeadOfQueue, RunnerGoes, RunnerPlaces, Locked
  <2>2. QED
    BY <1>0, <1>28, <2>1, TypesFrame DEF TypeOK, HeadOfQueue
<1>29. ASSUME NEW r \in RunIds, TrySlot(r)
      PROVE  TypeOK'
  <2>1. RunnerTypes'
    BY <1>0, <1>29 DEF TypeOK, RunnerTypes, TrySlot, RunnerGoes, RunnerPlaces, Locked
  <2>2. QED
    BY <1>0, <1>29, <2>1, TypesFrame DEF TypeOK, TrySlot
<1>30. ASSUME NEW r \in RunIds, Recheck(r)
      PROVE  TypeOK'
  <2>1. RunnerTypes'
    BY <1>0, <1>30 DEF TypeOK, RunnerTypes, Recheck, RunnerGoes, RunnerPlaces, Locked
  <2>2. QED
    BY <1>0, <1>30, <2>1, TypesFrame DEF TypeOK, Recheck
<1>31. ASSUME NEW r \in RunIds, RecheckSettles(r)
      PROVE  TypeOK'
  <2>1. RunnerTypes'
    BY <1>0, <1>31 DEF
       TypeOK, RunnerTypes, RecheckSettles, RunnerGoes, RunnerPlaces, Locked
  <2>2. IndexTypes'
    BY <1>0, <1>31 DEF TypeOK, IndexTypes, RecheckSettles, Results, Exits, Wakes
  <2>3. QED
    BY <1>0, <1>31, <2>1, <2>2, TypesFrame DEF TypeOK, RecheckSettles
<1>32. ASSUME NEW r \in RunIds, Launch(r)
      PROVE  TypeOK'
  <2>1. RunnerTypes'
    BY <1>0, <1>32 DEF TypeOK, RunnerTypes, Launch, RunnerGoes, RunnerPlaces, Locked
  <2>2. IndexTypes'
    BY <1>0, <1>32 DEF TypeOK, IndexTypes, Launch, Results, Exits, Wakes
  <2>3. QED
    BY <1>0, <1>32, <2>1, <2>2, TypesFrame DEF TypeOK, Launch
<1>33. ASSUME NEW r \in RunIds, NEW e \in Exits, WriteResult(r, e)
      PROVE  TypeOK'
  <2>1. RunnerTypes'
    BY <1>0, <1>33 DEF TypeOK, RunnerTypes, WriteResult, RunnerGoes, RunnerPlaces, Locked
  <2>2. DiskTypes'
    BY <1>0, <1>33 DEF TypeOK, DiskTypes, WriteResult, Exits
  <2>3. IndexTypes'
    BY <1>0, <1>33 DEF TypeOK, IndexTypes, WriteResult, Results, Exits, Wakes
  <2>4. QED
    BY <1>0, <1>33, <2>1, <2>2, <2>3, TypesFrame DEF TypeOK, WriteResult
<1>34. ASSUME NEW r \in RunIds, RunnerRecords(r)
      PROVE  TypeOK'
  <2>1. RunnerTypes'
    BY <1>0, <1>34 DEF
       TypeOK, RunnerTypes, RunnerRecords, RunnerGoes, RunnerPlaces, Locked
  <2>2. LoopTypes'
    BY <1>0, <1>34 DEF
       TypeOK, LoopTypes, IndexTypes, RunnerRecords, StartRecording, Processes
  <2>3. QED
    BY <1>0, <1>34, <2>1, <2>2, TypesFrame DEF TypeOK, RunnerRecords
<1>35. ASSUME NEW r \in RunIds, RunnerRecorded(r)
      PROVE  TypeOK'
  <2>1. RunnerTypes'
    BY <1>0, <1>35 DEF
       TypeOK, RunnerTypes, RunnerRecorded, RunnerGoes, RunnerPlaces, Locked
  <2>2. QED
    BY <1>0, <1>35, <2>1, TypesFrame DEF TypeOK, RunnerRecorded
<1>36. ASSUME NEW r \in RunIds, PendingWaiters(r)
      PROVE  TypeOK'
  <2>1. RunnerTypes'
    BY <1>0, <1>36 DEF
       TypeOK, RunnerTypes, PendingWaiters, RunnerGoes, RunnerPlaces, Locked
  <2>2. LoopTypes'
    BY <1>0, <1>36 DEF TypeOK, LoopTypes, PendingWaiters, Processes
  <2>3. QED
    BY <1>0, <1>36, <2>1, <2>2, TypesFrame DEF TypeOK, PendingWaiters
<1>37. ASSUME NEW r \in RunIds, NEW i \in Items, WakeOne(r, i)
      PROVE  TypeOK'
  <2>1. RunnerTypes'
    BY <1>0, <1>37 DEF TypeOK, RunnerTypes, WakeOne, RunnerGoes, RunnerPlaces, Locked
  <2>2. LoopTypes'
    BY <1>0, <1>37 DEF TypeOK, LoopTypes, WakeOne, Processes
  <2>3. BoundTypes'
    BY <1>0, <1>37 DEF TypeOK, BoundTypes, WakeOne
  <2>4. QED
    BY <1>0, <1>37, <2>1, <2>2, <2>3, TypesFrame DEF TypeOK, WakeOne
<1>38. ASSUME NEW r \in RunIds, SettleWaiter(r)
      PROVE  TypeOK'
  <2>1. RunnerTypes'
    BY <1>0, <1>38 DEF TypeOK, RunnerTypes, SettleWaiter, RunnerGoes, RunnerPlaces, Locked
  <2>2. IndexTypes'
    BY <1>0, <1>38 DEF
       TypeOK, IndexTypes, LoopTypes, Processes, SettleWaiter, Results, Exits, Wakes
  <2>3. LoopTypes'
    BY <1>0, <1>38 DEF TypeOK, LoopTypes, SettleWaiter, Processes
  <2>4. QED
    BY <1>0, <1>38, <2>1, <2>2, <2>3, TypesFrame DEF TypeOK, SettleWaiter
<1>39. ASSUME NEW r \in RunIds, RunnerExit(r)
      PROVE  TypeOK'
  <2>1. RunnerTypes'
    BY <1>0, <1>39 DEF TypeOK, RunnerTypes, RunnerExit, RunnerGoes, RunnerPlaces, Locked
  <2>2. QED
    BY <1>0, <1>39, <2>1, TypesFrame DEF TypeOK, RunnerExit
<1>40. ASSUME NEW r \in RunIds, RunnerRaises(r)
      PROVE  TypeOK'
  <2>1. RunnerTypes'
    BY <1>0, <1>40 DEF TypeOK, RunnerTypes, RunnerRaises, RunnerGoes, RunnerPlaces, Locked
  <2>2. LoopTypes'
    BY <1>0, <1>40 DEF TypeOK, LoopTypes, RunnerRaises, Processes
  <2>3. BoundTypes'
    BY <1>0, <1>40 DEF TypeOK, BoundTypes, RunnerRaises
  <2>4. QED
    BY <1>0, <1>40, <2>1, <2>2, <2>3, TypesFrame DEF TypeOK, RunnerRaises
<1>41. ASSUME NEW r \in RunIds, RunnerCrash(r)
      PROVE  TypeOK'
  <2>1. RunnerTypes'
    BY <1>0, <1>41 DEF TypeOK, RunnerTypes, RunnerCrash, RunnerGoes, RunnerPlaces, Locked
  <2>2. LoopTypes'
    BY <1>0, <1>41 DEF TypeOK, LoopTypes, RunnerCrash, Processes
  <2>3. BoundTypes'
    BY <1>0, <1>41 DEF TypeOK, BoundTypes, RunnerCrash
  <2>4. QED
    BY <1>0, <1>41, <2>1, <2>2, <2>3, TypesFrame DEF TypeOK, RunnerCrash
<1>42. CASE UNCHANGED vars
  BY <1>0, <1>42, TypesFrame DEF TypeOK, vars
<1>43. ASSUME NEW p \in Processes, NEW r \in RunIds, Recording(p, r)
      PROVE  TypeOK'
  BY <1>6, <1>7, <1>8, <1>9, <1>43 DEF Recording
<1>44. ASSUME NEW i \in Items, CallerStep(i)
      PROVE  TypeOK'
  BY <1>0, <1>43, <1>44,
     <1>5, <1>10, <1>11, <1>12, <1>13, <1>14, <1>15, <1>16, <1>17, <1>18, <1>19, <1>20,
     <1>21, <1>22, <1>23
     DEF CallerStep, RecordersAreLate, Processes
<1>45. ASSUME NEW r \in RunIds, RunnerStep(r)
      PROVE  TypeOK'
  BY <1>43, <1>45,
     <1>25, <1>26, <1>27, <1>28, <1>29, <1>30, <1>31, <1>32, <1>33, <1>34, <1>35, <1>36,
     <1>37, <1>38, <1>39
     DEF RunnerStep, Processes
<1>46. QED
  BY <1>1, <1>2, <1>3, <1>4, <1>24, <1>40, <1>41, <1>42, <1>44, <1>45 DEF Next

-----------------------------------------------------------------------------
(***************************************************************************)
(* What a step does to the variables the other conjuncts speak of.  Most   *)
(* actions only move one call or one runner on; the rest are themselves.   *)
(***************************************************************************)

shared == <<born, records, requesters, result, recorded_for, skipped_for, recorded, receipts>>
core   == <<shared, rpc, cpc, run, hand>>

Spawning   == {"spawn", "await", "failed", "unheld", "unheard"}
AtReceipts == {"recovering", "recording"}

\* Call i goes to place p, about run x, with nothing in its hand.
CallMoves(i, p, x) ==
    /\ cpc' = [cpc EXCEPT ![i] = p]
    /\ run' = [run EXCEPT ![i] = x]
    /\ hand' = [hand EXCEPT ![i] = NoItem]
    /\ p # "spawn"
    /\ p \in Spawning => cpc[i] \in Spawning /\ x = run[i]
    /\ p \in AtReceipts => x \in RunIds /\ result[x] \in Exits
    /\ UNCHANGED <<shared, rpc>>

\* Runner r, which exists, goes to place p with h in its hand; never back before its
\* result, and with an item in its hand only to settle that item's wake.
RunnerMoves(r, p, h) ==
    /\ rpc[r] \notin {"none", "gone"}
    /\ rpc' = [rpc EXCEPT ![r] = p]
    /\ hand' = [hand EXCEPT ![r] = h]
    /\ p \notin {"none", "boot"}
    /\ p \in Early => rpc[r] \in Early
    /\ h # NoItem => p \in {"woke", "unheard"}
    /\ UNCHANGED <<shared, cpc, run>>

\* Process p is recording run r.
Recorder(p, r) ==
    \/ p \in Items /\ cpc[p] \in AtReceipts /\ run[p] = r
    \/ p = r /\ rpc[r] = "recording"

Boots(i) ==
    /\ cpc[i] = "spawn"
    /\ rpc' = [rpc EXCEPT ![run[i]] = "boot"]
    /\ cpc' = [cpc EXCEPT ![i] = "await"]
    /\ UNCHANGED <<shared, run, hand>>

CallMove   == \E i \in Items, p \in CallPlaces, x \in RunIds \cup {NoRun} : CallMoves(i, p, x)
RunnerMove == \E r \in RunIds, p \in RunnerPlaces, h \in Items \cup {NoItem} :
                  RunnerMoves(r, p, h)
RecordMove == \E p \in Processes, r \in RunIds :
                /\ Recorder(p, r)
                /\ \/ RecordSettle(p, r)
                   \/ \E q \in Items : RecordReceipt(p, r, q) \/ RecordSkip(p, r, q)
IndexMove  == \E i \in Items, r \in RunIds :
                \E X \in Probes(i) : JoinRun(i, r, X) \/ WriteRun(i, r, X)
SpawnMove  == \E i \in Items : Boots(i) \/ MarkFailed(i)
ResultMove == \E r \in RunIds : RecheckSettles(r) \/ \E e \in Exits : WriteResult(r, e)

Effect ==
    \/ UNCHANGED core
    \/ CallMove
    \/ RunnerMove
    \/ RecordMove
    \/ IndexMove
    \/ SpawnMove
    \/ ResultMove

\* Saying that call i is still about the run it was about.
LEMMA SameRun ==
    ASSUME TypeOK, NEW i \in Items
    PROVE  run[i] \in RunIds \cup {NoRun} /\ run = [run EXCEPT ![i] = run[i]]
  BY DEF TypeOK, CallTypes

\* A process that settles nobody has nothing to put down.
LEMMA EmptyHand ==
    ASSUME TypeOK, NEW p \in Processes, hand[p] = NoItem
    PROVE  hand = [hand EXCEPT ![p] = NoItem]
  BY DEF TypeOK, LoopTypes

\* A step that moves call i from one place outside of record_requesters to another.
LEMMA CallGoesOn ==
    ASSUME TypeOK, HandsEmpty, NEW i \in Items, NEW p \in CallPlaces,
           NEW x \in RunIds \cup {NoRun},
           cpc[i] \notin AtReceipts, p # "spawn", p \notin AtReceipts,
           p \in Spawning => cpc[i] \in Spawning /\ x = run[i],
           cpc' = [cpc EXCEPT ![i] = p],
           run' = [run EXCEPT ![i] = x],
           UNCHANGED <<shared, rpc, hand>>
    PROVE  Effect
<1>1. hand' = [hand EXCEPT ![i] = NoItem]
  BY EmptyHand DEF HandsEmpty, AtReceipts, Processes
<1>2. CallMoves(i, p, x)
  BY <1>1 DEF CallMoves
<1>3. QED
  BY <1>2 DEF Effect, CallMove

\* A step that moves runner r, with nothing in its hand, on.
LEMMA RunnerGoesOn ==
    ASSUME TypeOK, HandsEmpty, NEW r \in RunIds, NEW p \in RunnerPlaces,
           rpc[r] \notin {"none", "gone", "recording", "woke", "unheard"},
           p \notin {"none", "boot"}, p \in Early => rpc[r] \in Early,
           RunnerGoes(r, p),
           UNCHANGED <<shared, cpc, run, hand>>
    PROVE  Effect
<1>1. hand' = [hand EXCEPT ![r] = NoItem]
  BY EmptyHand DEF HandsEmpty, Processes
<1>2. RunnerMoves(r, p, NoItem)
  BY <1>1 DEF RunnerMoves, RunnerGoes
<1>3. QED
  BY <1>2 DEF Effect, RunnerMove

\* Every step of the specification is one of these.
LEMMA StepEffect ==
    ASSUME IInv, [Next]_vars
    PROVE  Effect
<1> USE GateAssumption
<1>0. TypeOK /\ SpawnerOwns /\ EarlyIsUnrecorded /\ RecordersAreLate /\ HandsEmpty
  BY DEF IInv
<1>00. /\ cpc \in [Items -> CallPlaces] /\ run \in [Items -> RunIds \cup {NoRun}]
       /\ hand \in [Processes -> Items \cup {NoItem}] /\ rpc \in [RunIds -> RunnerPlaces]
       /\ records \subseteq RunIds /\ sweep \in [Items -> SUBSET RunIds]
  BY <1>0 DEF TypeOK, CallTypes, LoopTypes, RunnerTypes, IndexTypes
<1>1. ASSUME Tick
      PROVE  Effect
  BY <1>1 DEF Tick, Effect, core, shared, index, disk, runners, callers, loops
<1>2. ASSUME NEW i \in Items, CloseItem(i)
      PROVE  Effect
  BY <1>2 DEF CloseItem, Effect, core, shared, index, disk, runners, callers, loops
<1>3. ASSUME NEW i \in Items, NEW k \in Keys, NEW f \in SUBSET Options, RunBegin(i, k, f)
      PROVE  Effect
  <2>1. UNCHANGED <<shared, rpc, hand>>
    BY <1>3 DEF RunBegin, Begin, shared, index, disk, runners, loops
  <2>2. QED
    BY <1>0, <1>3, <2>1, CallGoesOn DEF RunBegin, Begin, CallPlaces, Spawning, AtReceipts
<1>4. ASSUME NEW i \in Items, WaitBegin(i)
      PROVE  Effect
  <2>1. ASSUME NEW x \in RunIds \cup {NoRun}, NEW p \in {"recover", "probe"}, Begin(i, x, p)
        PROVE  Effect
    <3>1. UNCHANGED <<shared, rpc, hand>>
      BY <2>1 DEF Begin, shared, index, disk, runners, loops
    <3>2. QED
      BY <1>0, <2>1, <3>1, CallGoesOn DEF Begin, CallPlaces, Spawning, AtReceipts
  <2>2. QED
    BY <1>00, <1>4, <2>1 DEF WaitBegin
<1>5. ASSUME NEW i \in Items, RecoverVisit(i)
      PROVE  Effect
  <2>1. PICK r \in sweep[i] :
          \/ UNCHANGED <<run, todo, cpc, now, flags, answer>>
          \/ /\ r \in records /\ result[r] \in Exits
             /\ run' = [run EXCEPT ![i] = r]
             /\ GoOn(i, "recovering")
    BY <1>5 DEF RecoverVisit
  <2>2. CASE UNCHANGED <<run, todo, cpc, now, flags, answer>>
    BY <1>5, <2>2 DEF RecoverVisit, Effect, core, shared, index, disk, runners
  <2>3. CASE /\ r \in records /\ result[r] \in Exits
             /\ run' = [run EXCEPT ![i] = r]
             /\ GoOn(i, "recovering")
    <3>1. CallMoves(i, "recovering", r)
      BY <1>0, <1>00, <1>5, <2>3 DEF RecoverVisit, GoOn, CallMoves, HandsEmpty, Processes,
         Spawning, AtReceipts, shared, index, disk, runners
    <3>2. QED
      BY <1>00, <2>3, <3>1 DEF Effect, CallMove, CallPlaces
  <2>4. QED
    BY <2>1, <2>2, <2>3
<1>6. ASSUME NEW p \in Processes, NEW r \in RunIds,
      Recorder(p, r), NEW q \in Items,
             RecordReceipt(p, r, q)
      PROVE  Effect
  BY <1>6 DEF Effect, RecordMove
<1>7. ASSUME NEW p \in Processes, NEW r \in RunIds,
      Recorder(p, r), NEW q \in Items, RecordSkip(p, r, q)
      PROVE  Effect
  BY <1>7 DEF Effect, RecordMove
<1>8. ASSUME NEW p \in Processes, NEW r \in RunIds,
      Recorder(p, r), NEW q \in Items,
             RecordRefused(p, r, q)
      PROVE  Effect
  BY <1>8 DEF RecordRefused, Effect, core, shared, index, disk, runners, callers, loops
<1>9. ASSUME NEW p \in Processes, NEW r \in RunIds,
      Recorder(p, r), RecordSettle(p, r)
      PROVE  Effect
  BY <1>9 DEF Effect, RecordMove
<1>10. ASSUME NEW i \in Items, Recovered(i)
      PROVE  Effect
  <2>1. CallMoves(i, "recover", run[i])
    BY <1>0, <1>10, SameRun DEF Recovered, GoOn, CallMoves, Spawning, AtReceipts, shared,
       index, disk, runners
  <2>2. QED
    BY <1>0, <2>1, SameRun DEF Effect, CallMove, CallPlaces
<1>11. ASSUME NEW i \in Items, Evaluate(i)
      PROVE  Effect
  <2>1. PICK p \in {"idle", "join"} : cpc' = [cpc EXCEPT ![i] = p]
    BY <1>11 DEF Evaluate, GoOn, Return
  <2>2. UNCHANGED <<shared, rpc, hand>>
    BY <1>11 DEF Evaluate, shared, index, disk, runners, loops
  <2>3. QED
    BY <1>0, <1>11, <2>1, <2>2, CallGoesOn
       DEF Evaluate, CallPlaces, Spawning, AtReceipts
<1>12. ASSUME NEW i \in Items, NEW r \in RunIds, NEW X \in Probes(i), JoinRun(i, r, X)
      PROVE  Effect
  BY <1>12 DEF Effect, IndexMove
<1>13. ASSUME NEW i \in Items, NEW r \in RunIds, NEW X \in Probes(i), WriteRun(i, r, X)
      PROVE  Effect
  BY <1>13 DEF Effect, IndexMove
<1>14. ASSUME NEW i \in Items, Spawn(i)
      PROVE  Effect
  <2>1. CASE rpc' = [rpc EXCEPT ![run[i]] = "boot"] /\ GoOn(i, "await")
    BY <1>14, <2>1 DEF Spawn, GoOn, Boots, shared, index, disk, callers, loops, Effect,
       SpawnMove
  <2>2. CASE UNCHANGED rpc /\ GoOn(i, "failed")
    <3>1. UNCHANGED <<shared, rpc, run, hand>>
      BY <1>14, <2>2 DEF Spawn, shared, index, disk, loops
    <3>2. QED
      BY <1>0, <1>14, <2>2, <3>1, SameRun, CallGoesOn
         DEF Spawn, GoOn, CallPlaces, Spawning, AtReceipts
  <2>3. QED
    BY <1>14, <2>1, <2>2 DEF Spawn
<1>15. ASSUME NEW i \in Items, AwaitStarted(i)
      PROVE  Effect
  <2>1. PICK p \in {"idle", "failed"} : cpc' = [cpc EXCEPT ![i] = p]
    BY <1>15 DEF AwaitStarted, GoOn, Return
  <2>2. UNCHANGED <<shared, rpc, run, hand>>
    BY <1>15 DEF AwaitStarted, shared, index, disk, runners, loops
  <2>3. QED
    BY <1>0, <1>15, <2>1, <2>2, SameRun, CallGoesOn
       DEF AwaitStarted, CallPlaces, Spawning, AtReceipts
<1>16. ASSUME NEW i \in Items, NEW X \in Probes(i), FailedProbe(i, X)
      PROVE  Effect
  <2>1. PICK p \in {"idle", "unheld"} : cpc' = [cpc EXCEPT ![i] = p]
    BY <1>16 DEF FailedProbe, GoOn, Return
  <2>2. UNCHANGED <<shared, rpc, run, hand>>
    BY <1>16 DEF FailedProbe, shared, index, disk, runners, loops
  <2>3. QED
    BY <1>0, <1>16, <2>1, <2>2, SameRun, CallGoesOn
       DEF FailedProbe, CallPlaces, Spawning, AtReceipts
<1>17. ASSUME NEW i \in Items, FailedRead(i)
      PROVE  Effect
  <2>1. PICK p \in {"idle", "unheard"} : cpc' = [cpc EXCEPT ![i] = p]
    BY <1>17 DEF FailedRead, GoOn, Return
  <2>2. UNCHANGED <<shared, rpc, run, hand>>
    BY <1>17 DEF FailedRead, shared, index, disk, runners, loops
  <2>3. QED
    BY <1>0, <1>17, <2>1, <2>2, SameRun, CallGoesOn
       DEF FailedRead, CallPlaces, Spawning, AtReceipts
<1>18. ASSUME NEW i \in Items, MarkFailed(i)
      PROVE  Effect
  BY <1>18 DEF Effect, SpawnMove
<1>19. ASSUME NEW i \in Items, WaitChoose(i)
      PROVE  Effect
  <2>1. PICK p \in {"idle", "probe"} : cpc' = [cpc EXCEPT ![i] = p]
    BY <1>19 DEF WaitChoose, GoOn, Return
  <2>2. PICK x \in RunIds \cup {NoRun} : run' = [run EXCEPT ![i] = x]
    BY <1>00, <1>19 DEF WaitChoose
  <2>3. UNCHANGED <<shared, rpc, hand>>
    BY <1>19 DEF WaitChoose, shared, index, disk, runners, loops
  <2>4. QED
    BY <1>0, <1>19, <2>1, <2>2, <2>3, CallGoesOn
       DEF WaitChoose, CallPlaces, Spawning, AtReceipts
<1>20. ASSUME NEW i \in Items, NEW X \in Probes(i), WaitProbe(i, X)
      PROVE  Effect
  <2>1. PICK p \in {"read"} : cpc' = [cpc EXCEPT ![i] = p]
    BY <1>20 DEF WaitProbe, GoOn, Return
  <2>2. UNCHANGED <<shared, rpc, run, hand>>
    BY <1>20 DEF WaitProbe, shared, index, disk, runners, loops
  <2>3. QED
    BY <1>0, <1>20, <2>1, <2>2, SameRun, CallGoesOn
       DEF WaitProbe, CallPlaces, Spawning, AtReceipts
<1>21. ASSUME NEW i \in Items, WaitRead(i)
      PROVE  Effect
  <2>1. UNCHANGED <<shared, rpc, run, hand>>
    BY <1>21 DEF WaitRead, shared, index, disk, runners
  <2>2. ASSUME NEW p \in {"idle", "probe", "collect"}, cpc' = [cpc EXCEPT ![i] = p]
        PROVE  Effect
    BY <1>0, <1>21, <2>1, <2>2, SameRun, CallGoesOn
       DEF WaitRead, CallPlaces, Spawning, AtReceipts
  <2>3. CASE /\ run[i] \in records /\ result[run[i]] \in Exits
             /\ cpc' = [cpc EXCEPT ![i] = "recording"]
    <3>1. hand' = [hand EXCEPT ![i] = NoItem]
      BY <1>0, <1>21, <2>1, EmptyHand DEF WaitRead, HandsEmpty, Processes
    <3>2. CallMoves(i, "recording", run[i])
      BY <1>0, <1>00, <2>1, <2>3, <3>1, SameRun DEF CallMoves, Spawning, AtReceipts
    <3>3. QED
      BY <1>0, <3>2, SameRun DEF Effect, CallMove, CallPlaces
  <2>4. QED
    BY <1>21, <2>2, <2>3 DEF WaitRead, Report, StillRunning, GoOn, Return
<1>22. ASSUME NEW i \in Items, WaitRecorded(i)
      PROVE  Effect
  <2>1. hand' = [hand EXCEPT ![i] = NoItem]
    BY <1>0, <1>22, EmptyHand DEF WaitRecorded, RecordingDone, Processes
  <2>2. PICK p \in {"idle", "collect"} : cpc' = [cpc EXCEPT ![i] = p]
    BY <1>22 DEF WaitRecorded, Report, Return
  <2>3. CallMoves(i, p, run[i])
    BY <1>0, <1>22, <2>1, <2>2, SameRun DEF WaitRecorded, CallMoves, Spawning, AtReceipts,
       shared, index, disk, runners
  <2>4. QED
    BY <1>0, <2>2, <2>3, SameRun DEF Effect, CallMove, CallPlaces
<1>23. ASSUME NEW i \in Items, WaitCollect(i)
      PROVE  Effect
  <2>1. \E p \in CallPlaces, x \in RunIds \cup {NoRun} : CallMoves(i, p, x)
    BY <1>0, <1>00, <1>23 DEF
       WaitCollect, Return, HandsEmpty, Processes, shared, CallMoves, CallPlaces,
       Spawning, AtReceipts, index, disk, runners, callers, loops
  <2>2. QED
    BY <2>1 DEF Effect, CallMove
<1>24. ASSUME NEW i \in Items, CallerCrash(i)
      PROVE  Effect
  <2>1. CallMoves(i, "idle", run[i])
    BY <1>0, <1>24, SameRun DEF CallerCrash, Return, CallMoves, Spawning, AtReceipts, shared,
       index, disk, runners
  <2>2. QED
    BY <1>0, <2>1, SameRun DEF Effect, CallMove, CallPlaces
<1>25. ASSUME NEW r \in RunIds, Acquire(r)
      PROVE  Effect
  <2>1. \E p \in RunnerPlaces, h \in Items \cup {NoItem} : RunnerMoves(r, p, h)
    BY <1>0, <1>00, <1>25 DEF
       Acquire, RunnerGoes, Locked, Early, HandsEmpty, Processes, shared, RunnerMoves,
       RunnerPlaces, index, disk, runners, callers, loops
  <2>2. QED
    BY <2>1 DEF Effect, RunnerMove
<1>26. ASSUME NEW r \in RunIds, ReadRecord(r)
      PROVE  Effect
  <2>1. PICK p \in {"starting", "wake"} : RunnerGoes(r, p)
    BY <1>26 DEF ReadRecord
  <2>2. UNCHANGED <<shared, cpc, run, hand>>
    BY <1>26 DEF ReadRecord, shared, index, disk, callers, loops
  <2>3. QED
    BY <1>0, <1>26, <2>1, <2>2, RunnerGoesOn DEF ReadRecord, RunnerPlaces, Locked, Early
<1>27. ASSUME NEW r \in RunIds, SayStarted(r)
      PROVE  Effect
  <2>1. PICK p \in {"launch", "queue"} : RunnerGoes(r, p)
    BY <1>27 DEF SayStarted
  <2>2. UNCHANGED <<shared, cpc, run, hand>>
    BY <1>27 DEF SayStarted, shared, index, disk, callers, loops
  <2>3. QED
    BY <1>0, <1>27, <2>1, <2>2, RunnerGoesOn DEF SayStarted, RunnerPlaces, Locked, Early
<1>28. ASSUME NEW r \in RunIds, HeadOfQueue(r)
      PROVE  Effect
  <2>1. \E p \in RunnerPlaces, h \in Items \cup {NoItem} : RunnerMoves(r, p, h)
    BY <1>0, <1>00, <1>28 DEF
       HeadOfQueue, RunnerGoes, Locked, Early, HandsEmpty, Processes, shared,
       RunnerMoves, RunnerPlaces, index, disk, runners, callers, loops
  <2>2. QED
    BY <2>1 DEF Effect, RunnerMove
<1>29. ASSUME NEW r \in RunIds, TrySlot(r)
      PROVE  Effect
  <2>1. PICK p \in {"recheck", "queue"} : RunnerGoes(r, p)
    BY <1>29 DEF TrySlot
  <2>2. UNCHANGED <<shared, cpc, run, hand>>
    BY <1>29 DEF TrySlot, shared, index, disk, callers, loops
  <2>3. QED
    BY <1>0, <1>29, <2>1, <2>2, RunnerGoesOn DEF TrySlot, RunnerPlaces, Locked, Early
<1>30. ASSUME NEW r \in RunIds, Recheck(r)
      PROVE  Effect
  <2>1. PICK p \in {"satisfied", "moved", "launch"} : RunnerGoes(r, p)
    BY <1>30 DEF Recheck
  <2>2. UNCHANGED <<shared, cpc, run, hand>>
    BY <1>30 DEF Recheck, shared, index, disk, callers, loops
  <2>3. QED
    BY <1>0, <1>30, <2>1, <2>2, RunnerGoesOn DEF Recheck, RunnerPlaces, Locked, Early
<1>31. ASSUME NEW r \in RunIds, RecheckSettles(r)
      PROVE  Effect
  BY <1>31 DEF Effect, ResultMove
<1>32. ASSUME NEW r \in RunIds, Launch(r)
      PROVE  Effect
  <2>1. \E p \in RunnerPlaces, h \in Items \cup {NoItem} : RunnerMoves(r, p, h)
    BY <1>0, <1>00, <1>32 DEF
       Launch, RunnerGoes, Locked, Early, HandsEmpty, Processes, shared, RunnerMoves,
       RunnerPlaces, index, disk, runners, callers, loops
  <2>2. QED
    BY <2>1 DEF Effect, RunnerMove
<1>33. ASSUME NEW r \in RunIds, NEW e \in Exits, WriteResult(r, e)
      PROVE  Effect
  BY <1>33 DEF Effect, ResultMove
<1>34. ASSUME NEW r \in RunIds, RunnerRecords(r)
      PROVE  Effect
  <2>1. PICK p \in {"recording", "wake"} : RunnerGoes(r, p)
    BY <1>34 DEF RunnerRecords
  <2>2. UNCHANGED <<shared, cpc, run, hand>>
    BY <1>34 DEF RunnerRecords, shared, index, disk, callers, loops
  <2>3. QED
    BY <1>0, <1>34, <2>1, <2>2, RunnerGoesOn DEF RunnerRecords, RunnerPlaces, Locked, Early
<1>35. ASSUME NEW r \in RunIds, RunnerRecorded(r)
      PROVE  Effect
  <2>1. \E p \in RunnerPlaces, h \in Items \cup {NoItem} : RunnerMoves(r, p, h)
    BY <1>0, <1>00, <1>35 DEF
       RunnerRecorded, RunnerGoes, RecordingDone, Locked, Early, HandsEmpty, Processes,
       shared, RunnerMoves, RunnerPlaces, index, disk, runners, callers, loops
  <2>2. QED
    BY <2>1 DEF Effect, RunnerMove
<1>36. ASSUME NEW r \in RunIds, PendingWaiters(r)
      PROVE  Effect
  <2>1. \E p \in RunnerPlaces, h \in Items \cup {NoItem} : RunnerMoves(r, p, h)
    BY <1>0, <1>00, <1>36 DEF
       PendingWaiters, RunnerGoes, Locked, Early, HandsEmpty, Processes, shared,
       RunnerMoves, RunnerPlaces, index, disk, runners, callers, loops
  <2>2. QED
    BY <2>1 DEF Effect, RunnerMove
<1>37. ASSUME NEW r \in RunIds, NEW i \in Items, WakeOne(r, i)
      PROVE  Effect
  <2>1. \E p \in RunnerPlaces, h \in Items \cup {NoItem} : RunnerMoves(r, p, h)
    BY <1>0, <1>00, <1>37 DEF
       WakeOne, RunnerGoes, Locked, Early, HandsEmpty, Processes, shared, RunnerMoves,
       RunnerPlaces, index, disk, runners, callers, loops
  <2>2. QED
    BY <2>1 DEF Effect, RunnerMove
<1>38. ASSUME NEW r \in RunIds, SettleWaiter(r)
      PROVE  Effect
  <2>1. RunnerMoves(r, "waking", NoItem)
    BY <1>38 DEF SettleWaiter, RunnerGoes, RunnerMoves, Locked, Early, shared, index, disk,
       callers, loops
  <2>2. QED
    BY <2>1 DEF Effect, RunnerMove, RunnerPlaces, Locked
<1>39. ASSUME NEW r \in RunIds, RunnerExit(r)
      PROVE  Effect
  <2>1. \E p \in RunnerPlaces, h \in Items \cup {NoItem} : RunnerMoves(r, p, h)
    BY <1>0, <1>00, <1>39 DEF
       RunnerExit, RunnerGoes, Locked, Early, HandsEmpty, Processes, shared, RunnerMoves,
       RunnerPlaces, index, disk, runners, callers, loops
  <2>2. QED
    BY <2>1 DEF Effect, RunnerMove
<1>40. ASSUME NEW r \in RunIds, RunnerRaises(r)
      PROVE  Effect
  <2>1. RunnerMoves(r, "wake", NoItem)
    BY <1>40 DEF RunnerRaises, RunnerGoes, RunnerMoves, Locked, Early, shared, index, disk,
       callers, loops
  <2>2. QED
    BY <2>1 DEF Effect, RunnerMove, RunnerPlaces, Locked
<1>41. ASSUME NEW r \in RunIds, RunnerCrash(r)
      PROVE  Effect
  <2>1. RunnerMoves(r, "gone", NoItem)
    BY <1>41 DEF RunnerCrash, RunnerGoes, RunnerMoves, Locked, Early, shared, index, disk,
       callers, loops
  <2>2. QED
    BY <2>1 DEF Effect, RunnerMove, RunnerPlaces, Locked
<1>42. CASE UNCHANGED vars
  BY <1>42 DEF vars, Effect, core, shared, index, disk, runners, callers, loops
<1>43. ASSUME NEW p \in Processes, NEW r \in RunIds, Recorder(p, r), Recording(p, r)
      PROVE  Effect
  BY <1>6, <1>7, <1>8, <1>9, <1>43 DEF Recording
<1>44. ASSUME NEW i \in Items, CallerStep(i)
      PROVE  Effect
  BY <1>0, <1>43, <1>44,
     <1>5, <1>10, <1>11, <1>12, <1>13, <1>14, <1>15, <1>16, <1>17, <1>18, <1>19, <1>20,
     <1>21, <1>22, <1>23
     DEF CallerStep, RecordersAreLate, Processes, Recorder, AtReceipts
<1>45. ASSUME NEW r \in RunIds, RunnerStep(r)
      PROVE  Effect
  BY <1>43, <1>45,
     <1>25, <1>26, <1>27, <1>28, <1>29, <1>30, <1>31, <1>32, <1>33, <1>34, <1>35, <1>36,
     <1>37, <1>38, <1>39
     DEF RunnerStep, Processes, Recorder
<1>46. QED
  BY <1>1, <1>2, <1>3, <1>4, <1>24, <1>40, <1>41, <1>42, <1>44, <1>45 DEF Next

-----------------------------------------------------------------------------
(***************************************************************************)
(* The conjuncts of the invariant, one after the other.                    *)
(***************************************************************************)

\* Results and runners only come to be for records that were written.
LEMMA UnbornStep ==
    ASSUME IInv, [Next]_vars
    PROVE  UnbornIsBlank'
<1> USE GateAssumption
<1>0. /\ rpc \in [RunIds -> RunnerPlaces]
      /\ cpc \in [Items -> CallPlaces]
      /\ run \in [Items -> RunIds \cup {NoRun}]
      /\ result \in [RunIds -> Results]
  BY DEF IInv, TypeOK, IndexTypes, RunnerTypes, CallTypes, LoopTypes
<1>00. UnbornIsBlank /\ SpawnerOwns
  BY DEF IInv
<1>1. CASE UNCHANGED core
  BY <1>0, <1>00, <1>1 DEF
     UnbornIsBlank, SpawnerOwns, core, shared
<1>2. ASSUME NEW i \in Items, NEW p \in CallPlaces,
      NEW x \in RunIds \cup {NoRun}, CallMoves(i, p, x)
      PROVE  UnbornIsBlank'
  BY <1>0, <1>00, <1>2 DEF
     UnbornIsBlank, SpawnerOwns, CallMoves, shared
<1>3. ASSUME NEW r \in RunIds, NEW p \in RunnerPlaces,
      NEW h \in Items \cup {NoItem}, RunnerMoves(r, p, h)
      PROVE  UnbornIsBlank'
  BY <1>0, <1>00, <1>3 DEF
     UnbornIsBlank, SpawnerOwns, RunnerMoves, shared
<1>4. ASSUME NEW p \in Processes, NEW r \in RunIds, NEW q \in Items,
      Recorder(p, r), RecordReceipt(p, r, q)
      PROVE  UnbornIsBlank'
  BY <1>0, <1>00, <1>4 DEF
     UnbornIsBlank, SpawnerOwns, RecordReceipt, Recorder, AtReceipts, index, runners,
     callers
<1>5. ASSUME NEW p \in Processes, NEW r \in RunIds, NEW q \in Items,
      Recorder(p, r), RecordSkip(p, r, q)
      PROVE  UnbornIsBlank'
  BY <1>0, <1>00, <1>5 DEF
     UnbornIsBlank, SpawnerOwns, RecordSkip, Settle, Recorder, AtReceipts, disk, runners,
     callers
<1>6. ASSUME NEW p \in Processes, NEW r \in RunIds, Recorder(p, r), RecordSettle(p, r)
      PROVE  UnbornIsBlank'
  BY <1>0, <1>00, <1>6 DEF
     UnbornIsBlank, SpawnerOwns, RecordSettle, Settle, Recorder, AtReceipts, disk,
     runners, callers
<1>7. ASSUME NEW i \in Items, NEW r \in RunIds, NEW X \in Probes(i), JoinRun(i, r, X)
      PROVE  UnbornIsBlank'
  BY <1>0, <1>00, <1>7 DEF
     UnbornIsBlank, SpawnerOwns, JoinRun, Return, disk, runners, loops
<1>8. ASSUME NEW i \in Items, NEW r \in RunIds, NEW X \in Probes(i), WriteRun(i, r, X)
      PROVE  UnbornIsBlank'
  BY <1>0, <1>00, <1>8 DEF
     UnbornIsBlank, SpawnerOwns, WriteRun, GoOn, disk, runners, loops
<1>9. ASSUME NEW i \in Items, Boots(i)
      PROVE  UnbornIsBlank'
  BY <1>0, <1>00, <1>9 DEF
     UnbornIsBlank, SpawnerOwns, Boots, shared
<1>10. ASSUME NEW i \in Items, MarkFailed(i)
      PROVE  UnbornIsBlank'
  BY <1>0, <1>00, <1>10 DEF
     UnbornIsBlank, SpawnerOwns, MarkFailed, Return, disk, runners, loops
<1>11. ASSUME NEW r \in RunIds, RecheckSettles(r)
      PROVE  UnbornIsBlank'
  BY <1>0, <1>00, <1>11 DEF
     UnbornIsBlank, SpawnerOwns, RecheckSettles, RunnerGoes, disk, callers, loops
<1>12. ASSUME NEW r \in RunIds, NEW e \in Exits, WriteResult(r, e)
      PROVE  UnbornIsBlank'
  BY <1>0, <1>00, <1>12 DEF
     UnbornIsBlank, SpawnerOwns, WriteResult, RunnerGoes, callers, loops
<1>13. QED
  BY StepEffect, <1>1, <1>2, <1>3, <1>4, <1>5, <1>6, <1>7, <1>8, <1>9, <1>10, <1>11, <1>12
     DEF Effect, CallMove, RunnerMove, RecordMove, IndexMove, SpawnMove, ResultMove

\* Only the call that wrote a record spawns a runner for it, and it does so once.
LEMMA SpawnerStep ==
    ASSUME IInv, [Next]_vars
    PROVE  SpawnerOwns'
<1> USE GateAssumption
<1>0. /\ rpc \in [RunIds -> RunnerPlaces]
      /\ cpc \in [Items -> CallPlaces]
      /\ run \in [Items -> RunIds \cup {NoRun}]
  BY DEF IInv, TypeOK, IndexTypes, RunnerTypes, CallTypes, LoopTypes
<1>00. SpawnerOwns /\ UnbornIsBlank
  BY DEF IInv
<1>1. CASE UNCHANGED core
  BY <1>0, <1>00, <1>1 DEF
     SpawnerOwns, UnbornIsBlank, Spawning, core, shared
<1>2. ASSUME NEW i \in Items, NEW p \in CallPlaces,
      NEW x \in RunIds \cup {NoRun}, CallMoves(i, p, x)
      PROVE  SpawnerOwns'
  BY <1>0, <1>00, <1>2 DEF
     SpawnerOwns, UnbornIsBlank, Spawning, CallMoves, shared
<1>3. ASSUME NEW r \in RunIds, NEW p \in RunnerPlaces,
      NEW h \in Items \cup {NoItem}, RunnerMoves(r, p, h)
      PROVE  SpawnerOwns'
  BY <1>0, <1>00, <1>3 DEF
     SpawnerOwns, UnbornIsBlank, Spawning, RunnerMoves, shared
<1>4. ASSUME NEW p \in Processes, NEW r \in RunIds, NEW q \in Items,
      Recorder(p, r), RecordReceipt(p, r, q)
      PROVE  SpawnerOwns'
  BY <1>0, <1>00, <1>4 DEF
     SpawnerOwns, UnbornIsBlank, Spawning, RecordReceipt, Recorder, AtReceipts, index,
     runners, callers
<1>5. ASSUME NEW p \in Processes, NEW r \in RunIds, NEW q \in Items,
      Recorder(p, r), RecordSkip(p, r, q)
      PROVE  SpawnerOwns'
  BY <1>0, <1>00, <1>5 DEF
     SpawnerOwns, UnbornIsBlank, Spawning, RecordSkip, Settle, Recorder, AtReceipts,
     disk, runners, callers
<1>6. ASSUME NEW p \in Processes, NEW r \in RunIds, Recorder(p, r), RecordSettle(p, r)
      PROVE  SpawnerOwns'
  BY <1>0, <1>00, <1>6 DEF
     SpawnerOwns, UnbornIsBlank, Spawning, RecordSettle, Settle, Recorder, AtReceipts,
     disk, runners, callers
<1>7. ASSUME NEW i \in Items, NEW r \in RunIds, NEW X \in Probes(i), JoinRun(i, r, X)
      PROVE  SpawnerOwns'
  BY <1>0, <1>00, <1>7 DEF
     SpawnerOwns, UnbornIsBlank, Spawning, JoinRun, Return, disk, runners, loops
<1>8. ASSUME NEW i \in Items, NEW r \in RunIds, NEW X \in Probes(i), WriteRun(i, r, X)
      PROVE  SpawnerOwns'
  BY <1>0, <1>00, <1>8 DEF
     SpawnerOwns, UnbornIsBlank, Spawning, WriteRun, GoOn, disk, runners, loops
<1>9. ASSUME NEW i \in Items, Boots(i)
      PROVE  SpawnerOwns'
  BY <1>0, <1>00, <1>9 DEF
     SpawnerOwns, UnbornIsBlank, Spawning, Boots, shared
<1>10. ASSUME NEW i \in Items, MarkFailed(i)
      PROVE  SpawnerOwns'
  BY <1>0, <1>00, <1>10 DEF
     SpawnerOwns, UnbornIsBlank, Spawning, MarkFailed, Return, disk, runners, loops
<1>11. ASSUME NEW r \in RunIds, RecheckSettles(r)
      PROVE  SpawnerOwns'
  BY <1>0, <1>00, <1>11 DEF
     SpawnerOwns, UnbornIsBlank, Spawning, RecheckSettles, RunnerGoes, disk, callers,
     loops
<1>12. ASSUME NEW r \in RunIds, NEW e \in Exits, WriteResult(r, e)
      PROVE  SpawnerOwns'
  BY <1>0, <1>00, <1>12 DEF
     SpawnerOwns, UnbornIsBlank, Spawning, WriteResult, RunnerGoes, callers, loops
<1>13. QED
  BY StepEffect, <1>1, <1>2, <1>3, <1>4, <1>5, <1>6, <1>7, <1>8, <1>9, <1>10, <1>11, <1>12
     DEF Effect, CallMove, RunnerMove, RecordMove, IndexMove, SpawnMove, ResultMove

\* Nothing is recorded for a runner that has not run its command.
LEMMA EarlyStep ==
    ASSUME IInv, [Next]_vars
    PROVE  EarlyIsUnrecorded'
<1> USE GateAssumption
<1>0. /\ rpc \in [RunIds -> RunnerPlaces]
      /\ cpc \in [Items -> CallPlaces]
      /\ run \in [Items -> RunIds \cup {NoRun}]
      /\ result \in [RunIds -> Results]
      /\ recorded \in [RunIds -> BOOLEAN]
  BY DEF IInv, TypeOK, IndexTypes, RunnerTypes, CallTypes, LoopTypes
<1>00. EarlyIsUnrecorded /\ RecordersAreLate /\ SpawnerOwns
  BY DEF IInv
<1>1. CASE UNCHANGED core
  BY <1>0, <1>00, <1>1 DEF
     EarlyIsUnrecorded, RecordersAreLate, SpawnerOwns, Early, Exits, core, shared
<1>2. ASSUME NEW i \in Items, NEW p \in CallPlaces,
      NEW x \in RunIds \cup {NoRun}, CallMoves(i, p, x)
      PROVE  EarlyIsUnrecorded'
  BY <1>0, <1>00, <1>2 DEF
     EarlyIsUnrecorded, RecordersAreLate, SpawnerOwns, Early, Exits, CallMoves, shared
<1>3. ASSUME NEW r \in RunIds, NEW p \in RunnerPlaces,
      NEW h \in Items \cup {NoItem}, RunnerMoves(r, p, h)
      PROVE  EarlyIsUnrecorded'
  BY <1>0, <1>00, <1>3 DEF
     EarlyIsUnrecorded, RecordersAreLate, SpawnerOwns, Early, Exits, RunnerMoves, shared
<1>4. ASSUME NEW p \in Processes, NEW r \in RunIds, NEW q \in Items,
      Recorder(p, r), RecordReceipt(p, r, q)
      PROVE  EarlyIsUnrecorded'
  BY <1>0, <1>00, <1>4 DEF
     EarlyIsUnrecorded, RecordersAreLate, SpawnerOwns, Early, Exits, RecordReceipt,
     Recorder, AtReceipts, index, runners, callers
<1>5. ASSUME NEW p \in Processes, NEW r \in RunIds, NEW q \in Items,
      Recorder(p, r), RecordSkip(p, r, q)
      PROVE  EarlyIsUnrecorded'
  BY <1>0, <1>00, <1>5 DEF
     EarlyIsUnrecorded, RecordersAreLate, SpawnerOwns, Early, Exits, RecordSkip, Settle,
     Recorder, AtReceipts, disk, runners, callers
<1>6. ASSUME NEW p \in Processes, NEW r \in RunIds, Recorder(p, r), RecordSettle(p, r)
      PROVE  EarlyIsUnrecorded'
  BY <1>0, <1>00, <1>6 DEF
     EarlyIsUnrecorded, RecordersAreLate, SpawnerOwns, Early, Exits, RecordSettle,
     Settle, Recorder, AtReceipts, disk, runners, callers
<1>7. ASSUME NEW i \in Items, NEW r \in RunIds, NEW X \in Probes(i), JoinRun(i, r, X)
      PROVE  EarlyIsUnrecorded'
  BY <1>0, <1>00, <1>7 DEF
     EarlyIsUnrecorded, RecordersAreLate, SpawnerOwns, Early, Exits, JoinRun, Return,
     disk, runners, loops
<1>8. ASSUME NEW i \in Items, NEW r \in RunIds, NEW X \in Probes(i), WriteRun(i, r, X)
      PROVE  EarlyIsUnrecorded'
  BY <1>0, <1>00, <1>8 DEF
     EarlyIsUnrecorded, RecordersAreLate, SpawnerOwns, Early, Exits, WriteRun, GoOn,
     disk, runners, loops
<1>9. ASSUME NEW i \in Items, Boots(i)
      PROVE  EarlyIsUnrecorded'
  BY <1>0, <1>00, <1>9 DEF
     EarlyIsUnrecorded, RecordersAreLate, SpawnerOwns, Early, Exits, Boots, shared
<1>10. ASSUME NEW i \in Items, MarkFailed(i)
      PROVE  EarlyIsUnrecorded'
  BY <1>0, <1>00, <1>10 DEF
     EarlyIsUnrecorded, RecordersAreLate, SpawnerOwns, Early, Exits, MarkFailed, Return,
     disk, runners, loops
<1>11. ASSUME NEW r \in RunIds, RecheckSettles(r)
      PROVE  EarlyIsUnrecorded'
  BY <1>0, <1>00, <1>11 DEF
     EarlyIsUnrecorded, RecordersAreLate, SpawnerOwns, Early, Exits, RecheckSettles,
     RunnerGoes, disk, callers, loops
<1>12. ASSUME NEW r \in RunIds, NEW e \in Exits, WriteResult(r, e)
      PROVE  EarlyIsUnrecorded'
  BY <1>0, <1>00, <1>12 DEF
     EarlyIsUnrecorded, RecordersAreLate, SpawnerOwns, Early, Exits, WriteResult,
     RunnerGoes, callers, loops
<1>13. QED
  BY StepEffect, <1>1, <1>2, <1>3, <1>4, <1>5, <1>6, <1>7, <1>8, <1>9, <1>10, <1>11, <1>12
     DEF Effect, CallMove, RunnerMove, RecordMove, IndexMove, SpawnMove, ResultMove

\* A call finds an exit in a record only after the runner wrote it.
LEMMA RecordersStep ==
    ASSUME IInv, [Next]_vars
    PROVE  RecordersAreLate'
<1> USE GateAssumption
<1>0. /\ rpc \in [RunIds -> RunnerPlaces]
      /\ cpc \in [Items -> CallPlaces]
      /\ run \in [Items -> RunIds \cup {NoRun}]
  BY DEF IInv, TypeOK, IndexTypes, RunnerTypes, CallTypes, LoopTypes
<1>00. RecordersAreLate /\ EarlyIsUnrecorded /\ SpawnerOwns
  BY DEF IInv
<1>1. CASE UNCHANGED core
  BY <1>0, <1>00, <1>1 DEF
     RecordersAreLate, EarlyIsUnrecorded, SpawnerOwns, Early, AtReceipts, core, shared
<1>2. ASSUME NEW i \in Items, NEW p \in CallPlaces,
      NEW x \in RunIds \cup {NoRun}, CallMoves(i, p, x)
      PROVE  RecordersAreLate'
  BY <1>0, <1>00, <1>2 DEF
     RecordersAreLate, EarlyIsUnrecorded, SpawnerOwns, Early, AtReceipts, CallMoves,
     shared
<1>3. ASSUME NEW r \in RunIds, NEW p \in RunnerPlaces,
      NEW h \in Items \cup {NoItem}, RunnerMoves(r, p, h)
      PROVE  RecordersAreLate'
  BY <1>0, <1>00, <1>3 DEF
     RecordersAreLate, EarlyIsUnrecorded, SpawnerOwns, Early, AtReceipts, RunnerMoves,
     shared
<1>4. ASSUME NEW p \in Processes, NEW r \in RunIds, NEW q \in Items,
      Recorder(p, r), RecordReceipt(p, r, q)
      PROVE  RecordersAreLate'
  BY <1>0, <1>00, <1>4 DEF
     RecordersAreLate, EarlyIsUnrecorded, SpawnerOwns, Early, AtReceipts, RecordReceipt,
     Recorder, AtReceipts, index, runners, callers
<1>5. ASSUME NEW p \in Processes, NEW r \in RunIds, NEW q \in Items,
      Recorder(p, r), RecordSkip(p, r, q)
      PROVE  RecordersAreLate'
  BY <1>0, <1>00, <1>5 DEF
     RecordersAreLate, EarlyIsUnrecorded, SpawnerOwns, Early, AtReceipts, RecordSkip,
     Settle, Recorder, AtReceipts, disk, runners, callers
<1>6. ASSUME NEW p \in Processes, NEW r \in RunIds, Recorder(p, r), RecordSettle(p, r)
      PROVE  RecordersAreLate'
  BY <1>0, <1>00, <1>6 DEF
     RecordersAreLate, EarlyIsUnrecorded, SpawnerOwns, Early, AtReceipts, RecordSettle,
     Settle, Recorder, AtReceipts, disk, runners, callers
<1>7. ASSUME NEW i \in Items, NEW r \in RunIds, NEW X \in Probes(i), JoinRun(i, r, X)
      PROVE  RecordersAreLate'
  BY <1>0, <1>00, <1>7 DEF
     RecordersAreLate, EarlyIsUnrecorded, SpawnerOwns, Early, AtReceipts, JoinRun,
     Return, disk, runners, loops
<1>8. ASSUME NEW i \in Items, NEW r \in RunIds, NEW X \in Probes(i), WriteRun(i, r, X)
      PROVE  RecordersAreLate'
  BY <1>0, <1>00, <1>8 DEF
     RecordersAreLate, EarlyIsUnrecorded, SpawnerOwns, Early, AtReceipts, WriteRun, GoOn,
     disk, runners, loops
<1>9. ASSUME NEW i \in Items, Boots(i)
      PROVE  RecordersAreLate'
  BY <1>0, <1>00, <1>9 DEF
     RecordersAreLate, EarlyIsUnrecorded, SpawnerOwns, Early, AtReceipts, Boots, shared
<1>10. ASSUME NEW i \in Items, MarkFailed(i)
      PROVE  RecordersAreLate'
  BY <1>0, <1>00, <1>10 DEF
     RecordersAreLate, EarlyIsUnrecorded, SpawnerOwns, Early, AtReceipts, MarkFailed,
     Return, disk, runners, loops
<1>11. ASSUME NEW r \in RunIds, RecheckSettles(r)
      PROVE  RecordersAreLate'
  BY <1>0, <1>00, <1>11 DEF
     RecordersAreLate, EarlyIsUnrecorded, SpawnerOwns, Early, AtReceipts, RecheckSettles,
     RunnerGoes, disk, callers, loops
<1>12. ASSUME NEW r \in RunIds, NEW e \in Exits, WriteResult(r, e)
      PROVE  RecordersAreLate'
  BY <1>0, <1>00, <1>12 DEF
     RecordersAreLate, EarlyIsUnrecorded, SpawnerOwns, Early, AtReceipts, WriteResult,
     RunnerGoes, callers, loops
<1>13. QED
  BY StepEffect, <1>1, <1>2, <1>3, <1>4, <1>5, <1>6, <1>7, <1>8, <1>9, <1>10, <1>11, <1>12
     DEF Effect, CallMove, RunnerMove, RecordMove, IndexMove, SpawnMove, ResultMove

\* Leaving a loop that settles leaves the hand empty.
LEMMA HandsStep ==
    ASSUME IInv, [Next]_vars
    PROVE  HandsEmpty'
<1> USE GateAssumption
<1>0. /\ rpc \in [RunIds -> RunnerPlaces]
      /\ cpc \in [Items -> CallPlaces]
      /\ run \in [Items -> RunIds \cup {NoRun}]
      /\ hand \in [Processes -> Items \cup {NoItem}]
  BY DEF IInv, TypeOK, IndexTypes, RunnerTypes, CallTypes, LoopTypes
<1>00. HandsEmpty /\ SpawnerOwns
  BY DEF IInv
<1>1. CASE UNCHANGED core
  BY <1>0, <1>00, <1>1 DEF
     HandsEmpty, SpawnerOwns, Processes, AtReceipts, core, shared
<1>2. ASSUME NEW i \in Items, NEW p \in CallPlaces,
      NEW x \in RunIds \cup {NoRun}, CallMoves(i, p, x)
      PROVE  HandsEmpty'
  BY <1>0, <1>00, <1>2 DEF
     HandsEmpty, SpawnerOwns, Processes, AtReceipts, CallMoves, shared
<1>3. ASSUME NEW r \in RunIds, NEW p \in RunnerPlaces,
      NEW h \in Items \cup {NoItem}, RunnerMoves(r, p, h)
      PROVE  HandsEmpty'
  BY <1>0, <1>00, <1>3 DEF
     HandsEmpty, SpawnerOwns, Processes, AtReceipts, RunnerMoves, shared
<1>4. ASSUME NEW p \in Processes, NEW r \in RunIds, NEW q \in Items,
      Recorder(p, r), RecordReceipt(p, r, q)
      PROVE  HandsEmpty'
  BY <1>0, <1>00, <1>4 DEF
     HandsEmpty, SpawnerOwns, Processes, AtReceipts, RecordReceipt, Recorder, AtReceipts,
     index, runners, callers
<1>5. ASSUME NEW p \in Processes, NEW r \in RunIds, NEW q \in Items,
      Recorder(p, r), RecordSkip(p, r, q)
      PROVE  HandsEmpty'
  BY <1>0, <1>00, <1>5 DEF
     HandsEmpty, SpawnerOwns, Processes, AtReceipts, RecordSkip, Settle, Recorder,
     AtReceipts, disk, runners, callers
<1>6. ASSUME NEW p \in Processes, NEW r \in RunIds, Recorder(p, r), RecordSettle(p, r)
      PROVE  HandsEmpty'
  BY <1>0, <1>00, <1>6 DEF
     HandsEmpty, SpawnerOwns, Processes, AtReceipts, RecordSettle, Settle, Recorder,
     AtReceipts, disk, runners, callers
<1>7. ASSUME NEW i \in Items, NEW r \in RunIds, NEW X \in Probes(i), JoinRun(i, r, X)
      PROVE  HandsEmpty'
  BY <1>0, <1>00, <1>7 DEF
     HandsEmpty, SpawnerOwns, Processes, AtReceipts, JoinRun, Return, disk, runners,
     loops
<1>8. ASSUME NEW i \in Items, NEW r \in RunIds, NEW X \in Probes(i), WriteRun(i, r, X)
      PROVE  HandsEmpty'
  BY <1>0, <1>00, <1>8 DEF
     HandsEmpty, SpawnerOwns, Processes, AtReceipts, WriteRun, GoOn, disk, runners, loops
<1>9. ASSUME NEW i \in Items, Boots(i)
      PROVE  HandsEmpty'
  BY <1>0, <1>00, <1>9 DEF
     HandsEmpty, SpawnerOwns, Processes, AtReceipts, Boots, shared
<1>10. ASSUME NEW i \in Items, MarkFailed(i)
      PROVE  HandsEmpty'
  BY <1>0, <1>00, <1>10 DEF
     HandsEmpty, SpawnerOwns, Processes, AtReceipts, MarkFailed, Return, disk, runners,
     loops
<1>11. ASSUME NEW r \in RunIds, RecheckSettles(r)
      PROVE  HandsEmpty'
  BY <1>0, <1>00, <1>11 DEF
     HandsEmpty, SpawnerOwns, Processes, AtReceipts, RecheckSettles, RunnerGoes, disk,
     callers, loops
<1>12. ASSUME NEW r \in RunIds, NEW e \in Exits, WriteResult(r, e)
      PROVE  HandsEmpty'
  BY <1>0, <1>00, <1>12 DEF
     HandsEmpty, SpawnerOwns, Processes, AtReceipts, WriteResult, RunnerGoes, callers,
     loops
<1>13. QED
  BY StepEffect, <1>1, <1>2, <1>3, <1>4, <1>5, <1>6, <1>7, <1>8, <1>9, <1>10, <1>11, <1>12
     DEF Effect, CallMove, RunnerMove, RecordMove, IndexMove, SpawnMove, ResultMove

\* The receipt is written before the item is taken in hand, and never withdrawn.
LEMMA HandStep ==
    ASSUME IInv, [Next]_vars
    PROVE  HandHasReceipt'
<1> USE GateAssumption
<1>0. /\ rpc \in [RunIds -> RunnerPlaces]
      /\ cpc \in [Items -> CallPlaces]
      /\ run \in [Items -> RunIds \cup {NoRun}]
      /\ hand \in [Processes -> Items \cup {NoItem}]
  BY DEF IInv, TypeOK, IndexTypes, RunnerTypes, CallTypes, LoopTypes
<1>00. HandHasReceipt /\ HandsEmpty
  BY DEF IInv
<1>1. CASE UNCHANGED core
  BY <1>0, <1>00, <1>1 DEF
     HandHasReceipt, HandsEmpty, Processes, AtReceipts, core, shared
<1>2. ASSUME NEW i \in Items, NEW p \in CallPlaces,
      NEW x \in RunIds \cup {NoRun}, CallMoves(i, p, x)
      PROVE  HandHasReceipt'
  BY <1>0, <1>00, <1>2 DEF
     HandHasReceipt, HandsEmpty, Processes, AtReceipts, CallMoves, shared
<1>3. ASSUME NEW r \in RunIds, NEW p \in RunnerPlaces,
      NEW h \in Items \cup {NoItem}, RunnerMoves(r, p, h)
      PROVE  HandHasReceipt'
  BY <1>0, <1>00, <1>3 DEF
     HandHasReceipt, HandsEmpty, Processes, AtReceipts, RunnerMoves, shared
<1>4. ASSUME NEW p \in Processes, NEW r \in RunIds, NEW q \in Items,
      Recorder(p, r), RecordReceipt(p, r, q)
      PROVE  HandHasReceipt'
  BY <1>0, <1>00, <1>4 DEF
     HandHasReceipt, HandsEmpty, Processes, AtReceipts, RecordReceipt, Recorder,
     AtReceipts, index, runners, callers
<1>5. ASSUME NEW p \in Processes, NEW r \in RunIds, NEW q \in Items,
      Recorder(p, r), RecordSkip(p, r, q)
      PROVE  HandHasReceipt'
  BY <1>0, <1>00, <1>5 DEF
     HandHasReceipt, HandsEmpty, Processes, AtReceipts, RecordSkip, Settle, Recorder,
     AtReceipts, disk, runners, callers
<1>6. ASSUME NEW p \in Processes, NEW r \in RunIds, Recorder(p, r), RecordSettle(p, r)
      PROVE  HandHasReceipt'
  BY <1>0, <1>00, <1>6 DEF
     HandHasReceipt, HandsEmpty, Processes, AtReceipts, RecordSettle, Settle, Recorder,
     AtReceipts, disk, runners, callers
<1>7. ASSUME NEW i \in Items, NEW r \in RunIds, NEW X \in Probes(i), JoinRun(i, r, X)
      PROVE  HandHasReceipt'
  BY <1>0, <1>00, <1>7 DEF
     HandHasReceipt, HandsEmpty, Processes, AtReceipts, JoinRun, Return, disk, runners,
     loops
<1>8. ASSUME NEW i \in Items, NEW r \in RunIds, NEW X \in Probes(i), WriteRun(i, r, X)
      PROVE  HandHasReceipt'
  BY <1>0, <1>00, <1>8 DEF
     HandHasReceipt, HandsEmpty, Processes, AtReceipts, WriteRun, GoOn, disk, runners,
     loops
<1>9. ASSUME NEW i \in Items, Boots(i)
      PROVE  HandHasReceipt'
  BY <1>0, <1>00, <1>9 DEF
     HandHasReceipt, HandsEmpty, Processes, AtReceipts, Boots, shared
<1>10. ASSUME NEW i \in Items, MarkFailed(i)
      PROVE  HandHasReceipt'
  BY <1>0, <1>00, <1>10 DEF
     HandHasReceipt, HandsEmpty, Processes, AtReceipts, MarkFailed, Return, disk,
     runners, loops
<1>11. ASSUME NEW r \in RunIds, RecheckSettles(r)
      PROVE  HandHasReceipt'
  BY <1>0, <1>00, <1>11 DEF
     HandHasReceipt, HandsEmpty, Processes, AtReceipts, RecheckSettles, RunnerGoes, disk,
     callers, loops
<1>12. ASSUME NEW r \in RunIds, NEW e \in Exits, WriteResult(r, e)
      PROVE  HandHasReceipt'
  BY <1>0, <1>00, <1>12 DEF
     HandHasReceipt, HandsEmpty, Processes, AtReceipts, WriteResult, RunnerGoes, callers,
     loops
<1>13. QED
  BY StepEffect, <1>1, <1>2, <1>3, <1>4, <1>5, <1>6, <1>7, <1>8, <1>9, <1>10, <1>11, <1>12
     DEF Effect, CallMove, RunnerMove, RecordMove, IndexMove, SpawnMove, ResultMove

\* Prune takes away only records that owe nothing, and a record that is gone stays as
\* it was.
LEMMA PrunedStep ==
    ASSUME IInv, [Next]_vars
    PROVE  PrunedIsOver'
<1> USE GateAssumption
<1>0. /\ rpc \in [RunIds -> RunnerPlaces]
      /\ cpc \in [Items -> CallPlaces]
      /\ run \in [Items -> RunIds \cup {NoRun}]
      /\ result \in [RunIds -> Results]
      /\ records \subseteq RunIds
      /\ requesters \in [RunIds -> SUBSET Items]
      /\ recorded_for \in [RunIds -> SUBSET Items]
      /\ skipped_for \in [RunIds -> SUBSET Items]
      /\ recorded \in [RunIds -> BOOLEAN]
  BY DEF IInv, TypeOK, IndexTypes, RunnerTypes, CallTypes, LoopTypes
<1>00. PrunedIsOver /\ EarlyIsUnrecorded /\ RecordedIsComplete /\ SpawnerOwns /\ UnbornIsBlank
  BY DEF IInv
<1>1. CASE UNCHANGED core
  BY <1>0, <1>00, <1>1 DEF
     PrunedIsOver, EarlyIsUnrecorded, RecordedIsComplete, SpawnerOwns, UnbornIsBlank,
     Settled, core, shared
<1>2. ASSUME NEW i \in Items, NEW p \in CallPlaces,
      NEW x \in RunIds \cup {NoRun}, CallMoves(i, p, x)
      PROVE  PrunedIsOver'
  BY <1>0, <1>00, <1>2 DEF
     PrunedIsOver, EarlyIsUnrecorded, RecordedIsComplete, SpawnerOwns, UnbornIsBlank,
     Settled, CallMoves, shared
<1>3. ASSUME NEW r \in RunIds, NEW p \in RunnerPlaces,
      NEW h \in Items \cup {NoItem}, RunnerMoves(r, p, h)
      PROVE  PrunedIsOver'
  BY <1>0, <1>00, <1>3 DEF
     PrunedIsOver, EarlyIsUnrecorded, RecordedIsComplete, SpawnerOwns, UnbornIsBlank,
     Settled, RunnerMoves, shared
<1>4. ASSUME NEW p \in Processes, NEW r \in RunIds, NEW q \in Items,
      Recorder(p, r), RecordReceipt(p, r, q)
      PROVE  PrunedIsOver'
  BY <1>0, <1>00, <1>4 DEF
     PrunedIsOver, EarlyIsUnrecorded, RecordedIsComplete, SpawnerOwns, UnbornIsBlank,
     Settled, RecordReceipt, Recorder, AtReceipts, index, runners, callers
<1>5. ASSUME NEW p \in Processes, NEW r \in RunIds, NEW q \in Items,
      Recorder(p, r), RecordSkip(p, r, q)
      PROVE  PrunedIsOver'
  BY <1>0, <1>00, <1>5 DEF
     PrunedIsOver, EarlyIsUnrecorded, RecordedIsComplete, SpawnerOwns, UnbornIsBlank,
     Settled, RecordSkip, Settle, Recorder, AtReceipts, disk, runners, callers
<1>6. ASSUME NEW p \in Processes, NEW r \in RunIds, Recorder(p, r), RecordSettle(p, r)
      PROVE  PrunedIsOver'
  BY <1>0, <1>00, <1>6 DEF
     PrunedIsOver, EarlyIsUnrecorded, RecordedIsComplete, SpawnerOwns, UnbornIsBlank,
     Settled, RecordSettle, Settle, Recorder, AtReceipts, disk, runners, callers
<1>7. ASSUME NEW i \in Items, NEW r \in RunIds, NEW X \in Probes(i), JoinRun(i, r, X)
      PROVE  PrunedIsOver'
  <2>1. ASSUME NEW s \in Prunable(X, now[i])
        PROVE  s \in RunIds /\ recorded[s] /\ rpc[s] = "gone"
    <3>1. HeldRecords \subseteq X
      BY DEF Probes
    <3>2. s \in records /\ recorded[s] /\ ~Held(s)
      BY <3>1 DEF Prunable, HeldRecords
    <3>3. QED
      BY <1>0, <1>00, <3>2 DEF EarlyIsUnrecorded, Held, Early, Locked, RunnerPlaces
  <2>2. result[r] = "none" /\ born' = born
    BY <1>7 DEF JoinRun, Oldest, Existing, LivePending
  <2>3. UNCHANGED <<rpc, result, recorded_for, skipped_for>>
    BY <1>7 DEF JoinRun, runners
  <2>4. ASSUME NEW s \in born' \ records'
        PROVE  /\ rpc[s] = "gone"
               /\ result[s] \in Exits => requesters'[s] \subseteq Settled(s)
    <3>1. s \in RunIds /\ (s = r => result[s] = "none")
      BY <1>7, <2>1, <2>2, <2>4 DEF IInv, TypeOK, IndexTypes, JoinRun
    <3>2. s # r => requesters'[s] = requesters[s]
      BY <1>0, <1>7, <3>1 DEF JoinRun
    <3>3. s \in Prunable(X, now[i]) \/ s \in born \ records
      BY <1>7, <2>4 DEF JoinRun
    <3>4. QED
      BY <1>00, <2>1, <3>1, <3>2, <3>3 DEF PrunedIsOver, RecordedIsComplete, Exits
  <2>5. QED
    BY <2>3, <2>4 DEF PrunedIsOver, Settled
<1>8. ASSUME NEW i \in Items, NEW r \in RunIds, NEW X \in Probes(i), WriteRun(i, r, X)
      PROVE  PrunedIsOver'
  <2>1. ASSUME NEW s \in Prunable(X, now[i])
        PROVE  s \in RunIds /\ recorded[s] /\ rpc[s] = "gone"
    <3>1. HeldRecords \subseteq X
      BY DEF Probes
    <3>2. s \in records /\ recorded[s] /\ ~Held(s)
      BY <3>1 DEF Prunable, HeldRecords
    <3>3. QED
      BY <1>0, <1>00, <3>2 DEF EarlyIsUnrecorded, Held, Early, Locked, RunnerPlaces
  <2>2. r \notin born /\ r \in records' /\ born' = born \cup {r}
    BY <1>8 DEF WriteRun
  <2>3. UNCHANGED <<rpc, result, recorded_for, skipped_for>>
    BY <1>8 DEF WriteRun, runners
  <2>4. ASSUME NEW s \in born' \ records'
        PROVE  /\ rpc[s] = "gone"
               /\ result[s] \in Exits => requesters'[s] \subseteq Settled(s)
    <3>1. s \in RunIds /\ (s = r => result[s] = "none")
      BY <1>8, <2>1, <2>2, <2>4 DEF IInv, TypeOK, IndexTypes, WriteRun
    <3>2. s # r => requesters'[s] = requesters[s]
      BY <1>0, <1>8, <3>1 DEF WriteRun
    <3>3. s \in Prunable(X, now[i]) \/ s \in born \ records
      BY <1>8, <2>4 DEF WriteRun
    <3>4. QED
      BY <1>00, <2>1, <3>1, <3>2, <3>3 DEF PrunedIsOver, RecordedIsComplete, Exits
  <2>5. QED
    BY <2>3, <2>4 DEF PrunedIsOver, Settled
<1>9. ASSUME NEW i \in Items, Boots(i)
      PROVE  PrunedIsOver'
  BY <1>0, <1>00, <1>9 DEF
     PrunedIsOver, EarlyIsUnrecorded, RecordedIsComplete, SpawnerOwns, UnbornIsBlank,
     Settled, Boots, shared
<1>10. ASSUME NEW i \in Items, MarkFailed(i)
      PROVE  PrunedIsOver'
  BY <1>0, <1>00, <1>10 DEF
     PrunedIsOver, EarlyIsUnrecorded, RecordedIsComplete, SpawnerOwns, UnbornIsBlank,
     Settled, MarkFailed, Return, disk, runners, loops
<1>11. ASSUME NEW r \in RunIds, RecheckSettles(r)
      PROVE  PrunedIsOver'
  BY <1>0, <1>00, <1>11 DEF
     PrunedIsOver, EarlyIsUnrecorded, RecordedIsComplete, SpawnerOwns, UnbornIsBlank,
     Settled, RecheckSettles, RunnerGoes, disk, callers, loops
<1>12. ASSUME NEW r \in RunIds, NEW e \in Exits, WriteResult(r, e)
      PROVE  PrunedIsOver'
  BY <1>0, <1>00, <1>12 DEF
     PrunedIsOver, EarlyIsUnrecorded, RecordedIsComplete, SpawnerOwns, UnbornIsBlank,
     Settled, WriteResult, RunnerGoes, callers, loops
<1>13. QED
  BY StepEffect, <1>1, <1>2, <1>3, <1>4, <1>5, <1>6, <1>7, <1>8, <1>9, <1>10, <1>11, <1>12
     DEF Effect, CallMove, RunnerMove, RecordMove, IndexMove, SpawnMove, ResultMove

\* `recorded` is only written when everybody is settled, and the recorders may interleave.
LEMMA RecordedStep ==
    ASSUME IInv, [Next]_vars
    PROVE  RecordedIsComplete'
<1> USE GateAssumption
<1>0. /\ rpc \in [RunIds -> RunnerPlaces]
      /\ cpc \in [Items -> CallPlaces]
      /\ run \in [Items -> RunIds \cup {NoRun}]
      /\ hand \in [Processes -> Items \cup {NoItem}]
      /\ result \in [RunIds -> Results]
      /\ requesters \in [RunIds -> SUBSET Items]
      /\ recorded_for \in [RunIds -> SUBSET Items]
      /\ skipped_for \in [RunIds -> SUBSET Items]
      /\ recorded \in [RunIds -> BOOLEAN]
  BY DEF IInv, TypeOK, IndexTypes, RunnerTypes, CallTypes, LoopTypes
<1>00. RecordedIsComplete /\ EarlyIsUnrecorded /\ HandHasReceipt /\ UnbornIsBlank
  BY DEF IInv
<1>1. CASE UNCHANGED core
  BY <1>0, <1>00, <1>1 DEF
     RecordedIsComplete, EarlyIsUnrecorded, HandHasReceipt, UnbornIsBlank, Settled,
     Exits, Early, core, shared
<1>2. ASSUME NEW i \in Items, NEW p \in CallPlaces,
      NEW x \in RunIds \cup {NoRun}, CallMoves(i, p, x)
      PROVE  RecordedIsComplete'
  BY <1>0, <1>00, <1>2 DEF
     RecordedIsComplete, EarlyIsUnrecorded, HandHasReceipt, UnbornIsBlank, Settled,
     Exits, Early, CallMoves, shared
<1>3. ASSUME NEW r \in RunIds, NEW p \in RunnerPlaces,
      NEW h \in Items \cup {NoItem}, RunnerMoves(r, p, h)
      PROVE  RecordedIsComplete'
  BY <1>0, <1>00, <1>3 DEF
     RecordedIsComplete, EarlyIsUnrecorded, HandHasReceipt, UnbornIsBlank, Settled,
     Exits, Early, RunnerMoves, shared
<1>4. ASSUME NEW p \in Processes, NEW r \in RunIds, NEW q \in Items,
      Recorder(p, r), RecordReceipt(p, r, q)
      PROVE  RecordedIsComplete'
  BY <1>0, <1>00, <1>4 DEF
     RecordedIsComplete, EarlyIsUnrecorded, HandHasReceipt, UnbornIsBlank, Settled,
     Exits, Early, RecordReceipt, Recorder, AtReceipts, index, runners, callers
<1>5. ASSUME NEW p \in Processes, NEW r \in RunIds, NEW q \in Items,
      Recorder(p, r), RecordSkip(p, r, q)
      PROVE  RecordedIsComplete'
  BY <1>0, <1>00, <1>5 DEF
     RecordedIsComplete, EarlyIsUnrecorded, HandHasReceipt, UnbornIsBlank, Settled,
     Exits, Early, RecordSkip, Settle, Recorder, AtReceipts, disk, runners, callers
<1>6. ASSUME NEW p \in Processes, NEW r \in RunIds, Recorder(p, r), RecordSettle(p, r)
      PROVE  RecordedIsComplete'
  BY <1>0, <1>00, <1>6 DEF
     RecordedIsComplete, EarlyIsUnrecorded, HandHasReceipt, UnbornIsBlank, Settled,
     Exits, Early, RecordSettle, Settle, Recorder, AtReceipts, disk, runners, callers
<1>7. ASSUME NEW i \in Items, NEW r \in RunIds, NEW X \in Probes(i), JoinRun(i, r, X)
      PROVE  RecordedIsComplete'
  <2>1. result[r] = "none"
    BY <1>7 DEF JoinRun, Oldest, Existing, LivePending
  <2>2. UNCHANGED <<receipts, result, recorded, recorded_for, skipped_for>>
    BY <1>7 DEF JoinRun, disk
  <2>3. \A s \in RunIds \ {r} : requesters'[s] = requesters[s]
    BY <1>0, <1>7 DEF JoinRun
  <2>4. QED
    BY <1>00, <2>1, <2>2, <2>3 DEF RecordedIsComplete, Settled, Exits
<1>8. ASSUME NEW i \in Items, NEW r \in RunIds, NEW X \in Probes(i), WriteRun(i, r, X)
      PROVE  RecordedIsComplete'
  BY <1>0, <1>00, <1>8 DEF
     RecordedIsComplete, EarlyIsUnrecorded, HandHasReceipt, UnbornIsBlank, Settled,
     Exits, Early, WriteRun, GoOn, disk, runners, loops
<1>9. ASSUME NEW i \in Items, Boots(i)
      PROVE  RecordedIsComplete'
  BY <1>0, <1>00, <1>9 DEF
     RecordedIsComplete, EarlyIsUnrecorded, HandHasReceipt, UnbornIsBlank, Settled,
     Exits, Early, Boots, shared
<1>10. ASSUME NEW i \in Items, MarkFailed(i)
      PROVE  RecordedIsComplete'
  BY <1>0, <1>00, <1>10 DEF
     RecordedIsComplete, EarlyIsUnrecorded, HandHasReceipt, UnbornIsBlank, Settled,
     Exits, Early, MarkFailed, Return, disk, runners, loops
<1>11. ASSUME NEW r \in RunIds, RecheckSettles(r)
      PROVE  RecordedIsComplete'
  BY <1>0, <1>00, <1>11 DEF
     RecordedIsComplete, EarlyIsUnrecorded, HandHasReceipt, UnbornIsBlank, Settled,
     Exits, Early, RecheckSettles, RunnerGoes, disk, callers, loops
<1>12. ASSUME NEW r \in RunIds, NEW e \in Exits, WriteResult(r, e)
      PROVE  RecordedIsComplete'
  BY <1>0, <1>00, <1>12 DEF
     RecordedIsComplete, EarlyIsUnrecorded, HandHasReceipt, UnbornIsBlank, Settled,
     Exits, Early, WriteResult, RunnerGoes, callers, loops
<1>13. QED
  BY StepEffect, <1>1, <1>2, <1>3, <1>4, <1>5, <1>6, <1>7, <1>8, <1>9, <1>10, <1>11, <1>12
     DEF Effect, CallMove, RunnerMove, RecordMove, IndexMove, SpawnMove, ResultMove


-----------------------------------------------------------------------------
(***************************************************************************)
(* The theorems.                                                           *)
(***************************************************************************)

\* The empty index, with nobody at work on it, satisfies the invariant.
LEMMA InitIInv == Init => IInv
<1> SUFFICES ASSUME Init PROVE IInv
  OBVIOUS
<1> USE GateAssumption
<1>1. (CHOOSE k \in Keys : TRUE) \in Keys
  OBVIOUS
<1>2. IndexTypes
  BY <1>1 DEF Init, IndexTypes, Results, Wakes
<1>3. CallTypes
  BY <1>1 DEF Init, CallTypes, CallPlaces, Answers
<1>4. DiskTypes /\ RunnerTypes /\ LoopTypes /\ BoundTypes
  BY DEF Init, DiskTypes, RunnerTypes, LoopTypes, BoundTypes, RunnerPlaces
<1>5. UnbornIsBlank /\ SpawnerOwns /\ EarlyIsUnrecorded /\ RecordersAreLate
  BY DEF Init, UnbornIsBlank, SpawnerOwns, EarlyIsUnrecorded, RecordersAreLate, Exits
<1>6. HandsEmpty /\ HandHasReceipt
  BY DEF Init, HandsEmpty, HandHasReceipt, Processes
<1>7. PrunedIsOver /\ RecordedIsComplete
  BY DEF Init, PrunedIsOver, RecordedIsComplete
<1>8. QED
  BY <1>2, <1>3, <1>4, <1>5, <1>6, <1>7 DEF IInv, TypeOK

\* The invariant is inductive: no step of a call, a runner or a crash breaks it.
THEOREM Invariance == Spec => []IInv
<1>1. IInv /\ [Next]_vars => IInv'
  BY TypeStep, UnbornStep, SpawnerStep, EarlyStep, RecordersStep, HandsStep, HandStep,
     PrunedStep, RecordedStep DEF IInv
<1>2. QED
  BY InitIInv, <1>1, PTL DEF Spec

\* The variables of the run index keep their types.
THEOREM TypeCorrect == Spec => []TypeOK
<1>1. IInv => TypeOK
  BY DEF IInv
<1>2. QED
  BY Invariance, <1>1, PTL

\* However the recorders of one run interleave, crash and are taken over by others, a
\* record that says `recorded` has settled everybody who asked for it, and an item it
\* lists has its receipt.
THEOREM RecordedIsCompleteAlways == Spec => []RecordedIsComplete
<1>1. IInv => RecordedIsComplete
  BY DEF IInv
<1>2. QED
  BY Invariance, <1>1, PTL

\* prune() never takes the record of a live runner, nor one that owes a receipt, although
\* it decides on a probe made before.
THEOREM PrunedOwesNothingAlways == Spec => []PrunedOwesNothing
<1>1. IInv => PrunedOwesNothing
  BY DEF IInv, PrunedIsOver, PrunedOwesNothing, Held, Locked
<1>2. QED
  BY Invariance, <1>1, PTL

\* The list of requesters a recorder has read stays the whole list: who comes after the
\* result starts a run of its own.
THEOREM RequestersFrozenAlways == Spec => RequestersFrozen
<1>1. ASSUME IInv, [Next]_vars, NEW r \in RunIds, result[r] # "none"
      PROVE  requesters'[r] = requesters[r]
  <2>0. requesters \in [RunIds -> SUBSET Items] /\ UnbornIsBlank
    BY <1>1 DEF IInv, TypeOK, IndexTypes
  <2>1. ASSUME NEW i \in Items, NEW s \in RunIds, NEW X \in Probes(i), JoinRun(i, s, X)
        PROVE  requesters'[r] = requesters[r]
    <3>1. result[s] = "none"
      BY <2>1 DEF JoinRun, Oldest, Existing, LivePending
    <3>2. QED
      BY <1>1, <2>0, <2>1, <3>1 DEF JoinRun
  <2>2. ASSUME NEW i \in Items, NEW s \in RunIds, NEW X \in Probes(i), WriteRun(i, s, X)
        PROVE  requesters'[r] = requesters[r]
    BY <1>1, <2>0, <2>2 DEF WriteRun, UnbornIsBlank
  <2>3. CASE UNCHANGED core \/ CallMove \/ RunnerMove
    BY <2>3 DEF core, CallMove, RunnerMove, CallMoves, RunnerMoves, shared
  <2>4. CASE RecordMove
    BY <2>4 DEF RecordMove, RecordSettle, RecordReceipt, RecordSkip, index
  <2>5. CASE SpawnMove \/ ResultMove
    BY <2>5 DEF SpawnMove, ResultMove, Boots, MarkFailed, RecheckSettles, WriteResult, shared
  <2>6. QED
    BY <1>1, <2>1, <2>2, <2>3, <2>4, <2>5, StepEffect DEF Effect, IndexMove
<1>2. IInv /\ [Next]_vars
        => [\A r \in RunIds : result[r] # "none" => requesters'[r] = requesters[r]]_vars
  BY <1>1
<1>3. QED
  BY Invariance, <1>2, PTL DEF Spec, RequestersFrozen

-----------------------------------------------------------------------------
(***************************************************************************)
(* The limit.  Whoever is past the queue holds a slot until it exits or    *)
(* dies, and there are never more than Limit of them.                      *)
(***************************************************************************)

Slotted == {"recheck", "satisfied", "moved", "launch", "command", "record", "recording"}

SlotInv ==
    Limit > 0 => /\ IsFiniteSet(slots) /\ Cardinality(slots) <= Limit
                 /\ \A r \in RunIds : rpc[r] \in Slotted => r \in slots

\* Runner r moves without taking a slot.
Walks(r, p) ==
    /\ rpc' = [rpc EXCEPT ![r] = p] /\ slots' = slots
    /\ Limit > 0 /\ p \in Slotted => rpc[r] \in Slotted

TakesSlot(r) ==
    rpc' = [rpc EXCEPT ![r] = "recheck"] /\ slots' = slots \cup {r} /\ Cardinality(slots) < Limit

Leaves(r) == rpc' = [rpc EXCEPT ![r] = "gone"] /\ slots' = slots \ {r}

SlotEffect ==
    \/ UNCHANGED <<rpc, slots>>
    \/ \E r \in RunIds, p \in RunnerPlaces : Walks(r, p)
    \/ \E r \in RunIds : TakesSlot(r) \/ Leaves(r)

LEMMA SlotSteps ==
    ASSUME IInv, [Next]_vars
    PROVE  SlotEffect
<1>0. rpc \in [RunIds -> RunnerPlaces] /\ run \in [Items -> RunIds \cup {NoRun}] /\ born \subseteq RunIds /\ SpawnerOwns
  BY DEF IInv, TypeOK, RunnerTypes, CallTypes, IndexTypes
<1>1. ASSUME NEW r \in RunIds, NEW p \in RunnerPlaces, Walks(r, p) PROVE SlotEffect
  BY <1>1 DEF SlotEffect
<1>2. ASSUME NEW i \in Items, Spawn(i) PROVE SlotEffect
  <2>1. run[i] \in RunIds
    BY <1>0, <1>2 DEF Spawn, SpawnerOwns
  <2>2. Walks(run[i], "boot") \/ UNCHANGED <<rpc, slots>>
    BY <1>2 DEF Spawn, Walks, Slotted
  <2> QED
    BY <1>1, <2>1, <2>2 DEF SlotEffect, RunnerPlaces
<1>3. ASSUME NEW i \in Items, CallerStep(i), ~Spawn(i) PROVE UNCHANGED <<rpc, slots>>
  BY <1>3 DEF CallerStep, RecoverVisit, Recording, RecordSettle, RecordReceipt, RecordSkip, RecordRefused,
     Recovered, Evaluate, JoinRun, WriteRun, AwaitStarted, FailedProbe, WaitProbe, FailedRead, MarkFailed,
     WaitChoose, WaitRead, WaitRecorded, WaitCollect, runners
<1>4. ASSUME NEW r \in RunIds, RunnerStep(r) PROVE SlotEffect
  <2>1. CASE TrySlot(r)
    BY <1>1, <2>1 DEF TrySlot, TakesSlot, Walks, RunnerGoes, Slotted, RunnerPlaces, Locked, SlotEffect
  <2>2. CASE RunnerExit(r)
    BY <2>2 DEF RunnerExit, Leaves, RunnerGoes, SlotEffect
  <2>3. CASE Recording(r, r)
    BY <2>3 DEF Recording, RecordSettle, RecordReceipt, RecordSkip, RecordRefused, runners, SlotEffect
  <2>4. CASE SayStarted(r)
    <3>1. PICK p \in {"launch", "queue"} : RunnerGoes(r, p) /\ UNCHANGED slots /\ (p = "launch" => Limit = 0)
      BY <2>4 DEF SayStarted
    <3>2. Walks(r, p)
      BY <3>1, GateAssumption DEF Walks, RunnerGoes, Slotted
    <3> QED
      BY <1>1, <3>1, <3>2 DEF RunnerPlaces, Locked
  <2>5. CASE Acquire(r) \/ ReadRecord(r) \/ HeadOfQueue(r) \/ PendingWaiters(r) \/ SettleWaiter(r) \/ \E i \in Items : WakeOne(r, i)
    <3>1. PICK p \in {"locked", "starting", "wake", "head", "waking", "woke", "unheard"} :
             RunnerGoes(r, p) /\ UNCHANGED slots
      BY <2>5 DEF Acquire, ReadRecord, HeadOfQueue, PendingWaiters, SettleWaiter, WakeOne
    <3> QED
      BY <1>1, <3>1 DEF Walks, RunnerGoes, Slotted, RunnerPlaces, Locked
  <2>6. CASE \/ Recheck(r) \/ RecheckSettles(r) \/ Launch(r) \/ RunnerRecords(r) \/ RunnerRecorded(r)
             \/ \E e \in Exits : WriteResult(r, e)
    <3>1. PICK p \in {"satisfied", "moved", "launch", "wake", "command", "record", "recording"} :
             RunnerGoes(r, p) /\ UNCHANGED slots /\ rpc[r] \in Slotted
      BY <2>6 DEF Recheck, RecheckSettles, Launch, RunnerRecords, RunnerRecorded, WriteResult, Slotted
    <3> QED
      BY <1>1, <3>1 DEF Walks, RunnerGoes, Slotted, RunnerPlaces, Locked
  <2> QED
    BY <1>4, <2>1, <2>2, <2>3, <2>4, <2>5, <2>6 DEF RunnerStep
<1>5. ASSUME NEW r \in RunIds, RunnerRaises(r) PROVE SlotEffect
  BY <1>1, <1>5 DEF RunnerRaises, Walks, RunnerGoes, Slotted, RunnerPlaces, Locked
<1>6. ASSUME NEW r \in RunIds, RunnerCrash(r) PROVE SlotEffect
  BY <1>6 DEF RunnerCrash, Leaves, RunnerGoes, SlotEffect
<1>7. CASE UNCHANGED vars \/ Tick \/ \E i \in Items : CloseItem(i) \/ WaitBegin(i) \/ CallerCrash(i)
  BY <1>7 DEF vars, Tick, CloseItem, WaitBegin, Begin, CallerCrash, runners, SlotEffect
<1>8. CASE \E i \in Items, k \in Keys, f \in SUBSET Options : RunBegin(i, k, f)
  BY <1>8 DEF RunBegin, Begin, runners, SlotEffect
<1> QED
  BY <1>2, <1>3, <1>4, <1>5, <1>6, <1>7, <1>8 DEF Next, SlotEffect

LEMMA SlotStep ==
    ASSUME IInv, SlotInv, [Next]_vars
    PROVE  SlotInv'
<1> SUFFICES ASSUME Limit > 0
             PROVE  /\ IsFiniteSet(slots') /\ Cardinality(slots') <= Limit
                    /\ \A r \in RunIds : rpc'[r] \in Slotted => r \in slots'
  BY DEF SlotInv
<1>0. /\ IsFiniteSet(slots) /\ Cardinality(slots) <= Limit /\ Cardinality(slots) \in Nat /\ Limit \in Nat
      /\ \A r \in RunIds : rpc[r] \in Slotted => r \in slots
      /\ rpc \in [RunIds -> RunnerPlaces]
  BY GateAssumption, FS_CardinalityType DEF SlotInv, IInv, TypeOK, RunnerTypes
<1>1. CASE UNCHANGED <<rpc, slots>>
  BY <1>0, <1>1
<1>2. CASE \E r \in RunIds, p \in RunnerPlaces : Walks(r, p)
  BY <1>0, <1>2 DEF Walks
<1>3. ASSUME NEW r \in RunIds, TakesSlot(r)
      PROVE  /\ IsFiniteSet(slots') /\ Cardinality(slots') <= Limit
             /\ \A s \in RunIds : rpc'[s] \in Slotted => s \in slots'
  <2>1. IsFiniteSet(slots') /\ Cardinality(slots') \in {Cardinality(slots), Cardinality(slots) + 1}
    BY <1>0, <1>3, FS_AddElement DEF TakesSlot
  <2>2. Cardinality(slots') <= Limit
    BY <1>0, <1>3, <2>1 DEF TakesSlot
  <2>3. \A s \in RunIds : rpc'[s] \in Slotted => s \in slots'
    BY <1>0, <1>3 DEF TakesSlot
  <2> QED
    BY <2>1, <2>2, <2>3
<1>4. ASSUME NEW r \in RunIds, Leaves(r)
      PROVE  /\ IsFiniteSet(slots') /\ Cardinality(slots') <= Limit
             /\ \A s \in RunIds : rpc'[s] \in Slotted => s \in slots'
  <2>1. IsFiniteSet(slots') /\ Cardinality(slots') <= Cardinality(slots) /\ Cardinality(slots') \in Nat
    <3>1. slots' \subseteq slots
      BY <1>4 DEF Leaves
    <3> QED
      BY <1>0, <3>1, FS_Subset, FS_CardinalityType
  <2>2. \A s \in RunIds : rpc'[s] \in Slotted => s \in slots'
    BY <1>0, <1>4 DEF Leaves, Slotted
  <2> QED
    BY <1>0, <2>1, <2>2
<1> QED
  BY <1>1, <1>2, <1>3, <1>4, SlotSteps DEF SlotEffect

\* Never more runs than gate.max_concurrent are between their command and
\* their last receipt (WithinLimit): every one of them holds a slot lock, a
\* slot is only taken while one is free, and only its holder's end frees it.
THEOREM WithinLimitAlways == Spec => []WithinLimit
<1>1. Init => SlotInv
  BY FS_EmptySet, GateAssumption DEF Init, SlotInv, Slotted
<1>2. IInv /\ SlotInv => WithinLimit
  <2> SUFFICES ASSUME SlotInv, Limit > 0
               PROVE  Cardinality({r \in RunIds : rpc[r] \in {"command", "record", "recording"}}) <= Limit
    BY DEF WithinLimit
  <2> DEFINE S == {r \in RunIds : rpc[r] \in {"command", "record", "recording"}}
  <2>1. S \subseteq slots /\ IsFiniteSet(slots) /\ Cardinality(slots) <= Limit
    BY DEF SlotInv, Slotted
  <2>2. Cardinality(S) <= Cardinality(slots) /\ Cardinality(S) \in Nat /\ Cardinality(slots) \in Nat
    <3> HIDE DEF S
    <3> QED
      BY <2>1, FS_Subset, FS_CardinalityType
  <2> QED
    BY <2>1, <2>2, GateAssumption
<1>3. IInv /\ SlotInv /\ [Next]_vars => SlotInv'
  BY SlotStep
<1> QED
  BY <1>1, <1>2, <1>3, Invariance, PTL DEF Spec

-----------------------------------------------------------------------------
(***************************************************************************)
(* What gate wait answers.                                                 *)
(***************************************************************************)

\* The run has its result, and its runner cannot write another.
Over(r) == r \in RunIds /\ result[r] # "none" /\ rpc[r] \notin Early

SatisfiedIsLate == \A r \in RunIds : result[r] = "satisfied" => rpc[r] \notin Early

\* An answer is kept until the next call.
AnsweredIsOver ==
    \A i \in Items : answer[i] = "finished" => cpc[i] \in {"idle", "collect"} /\ Over(run[i])

\* A call that records has its own item settled, or before it.
StillToSettle ==
    \A i \in Items : cpc[i] = "recording" =>
        /\ Over(run[i])
        /\ i \in requesters[run[i]] /\ ~refused[i] =>
             i \in Settled(run[i]) \/ i \in todo[i] \/ hand[i] = i

AnswerInv == SatisfiedIsLate /\ AnsweredIsOver /\ StillToSettle /\ FinishedIsSettled

\* Once a run is over its requesters are known, and who is settled stays settled.
LEMMA OverStays ==
    ASSUME IInv, [Next]_vars, NEW r, Over(r)
    PROVE  /\ Over(r)' /\ requesters'[r] = requesters[r] /\ Settled(r) \subseteq Settled(r)'
           /\ result'[r] \in Exits => result[r] \in Exits
<1> USE GateAssumption
<1>0. /\ rpc \in [RunIds -> RunnerPlaces] /\ run \in [Items -> RunIds \cup {NoRun}]
      /\ result \in [RunIds -> Results] /\ requesters \in [RunIds -> SUBSET Items]
      /\ recorded_for \in [RunIds -> SUBSET Items] /\ skipped_for \in [RunIds -> SUBSET Items]
      /\ UnbornIsBlank /\ SpawnerOwns /\ r \in RunIds /\ result[r] # "none" /\ rpc[r] \notin Early
  BY DEF IInv, TypeOK, IndexTypes, RunnerTypes, CallTypes, Over
<1>1. CASE UNCHANGED core
  BY <1>0, <1>1 DEF core, shared, Over, Settled
<1>2. CASE CallMove
  BY <1>0, <1>2 DEF CallMove, CallMoves, shared, Over, Settled
<1>3. CASE RunnerMove
  <2>1. PICK s \in RunIds, p \in RunnerPlaces, h \in Items \cup {NoItem} : RunnerMoves(s, p, h)
    BY <1>3 DEF RunnerMove
  <2>2. rpc'[r] \notin Early
    BY <1>0, <2>1 DEF RunnerMoves
  <2> QED
    BY <1>0, <2>1, <2>2 DEF RunnerMoves, shared, Over, Settled
<1>4. CASE RecordMove
  <2>1. PICK p \in Processes, s \in RunIds :
           RecordSettle(p, s) \/ \E q \in Items : RecordReceipt(p, s, q) \/ RecordSkip(p, s, q)
    BY <1>4 DEF RecordMove
  <2>2. UNCHANGED <<rpc, result, requesters>>
    BY <2>1 DEF RecordSettle, RecordReceipt, RecordSkip, index, runners
  <2>3. recorded_for[r] \subseteq recorded_for'[r] /\ skipped_for[r] \subseteq skipped_for'[r]
    <3>1. CASE RecordSettle(p, s)
      BY <1>0, <3>1 DEF RecordSettle, Settle
    <3>2. ASSUME NEW q \in Items, RecordReceipt(p, s, q)
          PROVE  recorded_for[r] \subseteq recorded_for'[r] /\ skipped_for[r] \subseteq skipped_for'[r]
      BY <3>2 DEF RecordReceipt, index
    <3>3. ASSUME NEW q \in Items, RecordSkip(p, s, q)
          PROVE  recorded_for[r] \subseteq recorded_for'[r] /\ skipped_for[r] \subseteq skipped_for'[r]
      BY <1>0, <3>3 DEF RecordSkip, Settle
    <3> QED
      BY <2>1, <3>1, <3>2, <3>3
  <2> QED
    BY <1>0, <2>2, <2>3 DEF Over, Settled
<1>5. CASE IndexMove
  <2>1. PICK i \in Items, s \in RunIds : \E X \in Probes(i) : JoinRun(i, s, X) \/ WriteRun(i, s, X)
    BY <1>5 DEF IndexMove
  <2>2. UNCHANGED <<rpc, result, recorded_for, skipped_for>>
    BY <2>1 DEF JoinRun, WriteRun, runners
  <2>3. s # r
    BY <1>0, <2>1 DEF JoinRun, WriteRun, Oldest, Existing, LivePending, UnbornIsBlank
  <2>4. requesters'[r] = requesters[r]
    BY <1>0, <2>1, <2>3 DEF JoinRun, WriteRun
  <2> QED
    BY <1>0, <2>2, <2>4 DEF Over, Settled
<1>6. CASE SpawnMove
  <2>1. PICK i \in Items : Boots(i) \/ MarkFailed(i)
    BY <1>6 DEF SpawnMove
  <2>2. CASE Boots(i)
    BY <1>0, <2>2 DEF Boots, SpawnerOwns, Early, shared, Over, Settled
  <2>3. CASE MarkFailed(i)
    BY <1>0, <2>3 DEF MarkFailed, runners, Over, Settled, Exits
  <2> QED
    BY <2>1, <2>2, <2>3
<1>7. CASE ResultMove
  <2>1. PICK s \in RunIds : RecheckSettles(s) \/ \E e \in Exits : WriteResult(s, e)
    BY <1>7 DEF ResultMove
  <2>2. s # r
    BY <1>0, <2>1 DEF RecheckSettles, WriteResult, Early
  <2> QED
    BY <1>0, <2>1, <2>2 DEF RecheckSettles, WriteResult, RunnerGoes, Over, Settled
<1> QED
  BY <1>1, <1>2, <1>3, <1>4, <1>5, <1>6, <1>7, StepEffect DEF Effect

LEMMA SatisfiedStep ==
    ASSUME IInv, SatisfiedIsLate, [Next]_vars
    PROVE  SatisfiedIsLate'
<1> SUFFICES ASSUME NEW r \in RunIds, result'[r] = "satisfied" PROVE rpc'[r] \notin Early
  BY DEF SatisfiedIsLate
<1>1. CASE result[r] = "satisfied"
  BY <1>1, OverStays DEF SatisfiedIsLate, Over
<1>2. CASE result[r] # "satisfied"
  <2>1. /\ rpc \in [RunIds -> RunnerPlaces] /\ result \in [RunIds -> Results]
        /\ run \in [Items -> RunIds \cup {NoRun}]
    BY DEF IInv, TypeOK, IndexTypes, RunnerTypes, CallTypes
  <2>2. CASE UNCHANGED core \/ CallMove \/ RunnerMove
    BY <1>2, <2>2 DEF core, CallMove, CallMoves, RunnerMove, RunnerMoves, shared
  <2>3. CASE RecordMove \/ IndexMove
    <3>1. CASE RecordMove
      BY <1>2, <3>1 DEF RecordMove, RecordSettle, RecordReceipt, RecordSkip, index
    <3>2. CASE IndexMove
      BY <1>2, <3>2 DEF IndexMove, JoinRun, WriteRun
    <3> QED
      BY <2>3, <3>1, <3>2
  <2>4. CASE SpawnMove
    BY <1>2, <2>1, <2>4 DEF SpawnMove, Boots, MarkFailed, shared
  <2>5. CASE ResultMove
    <3>1. PICK s \in RunIds : RecheckSettles(s) \/ \E e \in Exits : WriteResult(s, e)
      BY <2>5 DEF ResultMove
    <3>2. CASE \E e \in Exits : WriteResult(s, e)
      BY <1>2, <2>1, <3>2 DEF WriteResult, Exits
    <3>3. CASE RecheckSettles(s)
      BY <1>2, <2>1, <3>3 DEF RecheckSettles, RunnerGoes, Early
    <3> QED
      BY <3>1, <3>2, <3>3
  <2> QED
    BY <2>2, <2>3, <2>4, <2>5, StepEffect DEF Effect
<1> QED
  BY <1>1, <1>2

\* What a step does to the call of item j: nothing,
Rests(j) ==
    /\ cpc'[j] = cpc[j] /\ run'[j] = run[j] /\ answer'[j] = answer[j] /\ (refused[j] => refused'[j])
    /\ todo'[j] = todo[j] /\ hand'[j] = hand[j]

\* it is not about an outcome,
Away(j) == cpc'[j] # "recording" /\ answer'[j] # "finished"

\* it begins to record,
StartsRecording(j) ==
    /\ cpc'[j] = "recording" /\ run'[j] = run[j] /\ answer'[j] = answer[j] /\ answer[j] # "finished"
    /\ run[j] \in records /\ result[run[j]] \in Exits
    /\ todo'[j] = requesters[run[j]] \ Settled(run[j])

\* it records,
Records(j) ==
    /\ cpc[j] = "recording" /\ cpc'[j] = cpc[j] /\ run'[j] = run[j] /\ answer'[j] = answer[j]
    /\ Recording(j, run[j])

\* it says "finished",
Reports(j) ==
    /\ cpc'[j] = "collect" /\ run'[j] = run[j] /\ (refused[j] => refused'[j])
    /\ \/ run[j] \in records /\ (result[run[j]] = "satisfied" \/ (result[run[j]] \in Exits /\ recorded[run[j]]))
       \/ cpc[j] = "recording" /\ RecordingDone(j)

\* or it returns with that.
Collects(j) ==
    /\ cpc[j] = "collect" /\ cpc'[j] = "idle" /\ run'[j] = run[j] /\ answer'[j] = answer[j]
    /\ refused[j] => refused'[j]

CallEffect(j) ==
    Rests(j) \/ Away(j) \/ StartsRecording(j) \/ Records(j) \/ Reports(j) \/ Collects(j)

LEMMA CallEffects ==
    ASSUME IInv, AnsweredIsOver, [Next]_vars, NEW j \in Items
    PROVE  CallEffect(j)
<1> USE GateAssumption
<1>0. /\ cpc \in [Items -> CallPlaces] /\ run \in [Items -> RunIds \cup {NoRun}] /\ answer \in [Items -> Answers]
      /\ refused \in [Items -> BOOLEAN] /\ todo \in [Processes -> SUBSET Items]
      /\ hand \in [Processes -> Items \cup {NoItem}] /\ j \in Processes /\ j \notin RunIds
      /\ records \subseteq RunIds
  BY DEF IInv, TypeOK, CallTypes, LoopTypes, IndexTypes, Processes
<1>1. answer[j] = "finished" => cpc[j] \in {"idle", "collect"}
  BY DEF AnsweredIsOver
\* Another process.
<1>2. CASE UNCHANGED <<cpc, run, answer, refused, todo, hand>>
  BY <1>2 DEF Rests, CallEffect
<1>3. ASSUME NEW p \in Processes, NEW r, Recording(p, r), p # j PROVE CallEffect(j)
  <2>1. UNCHANGED <<cpc, run, answer>>
    BY <1>3 DEF Recording, RecordSettle, RecordReceipt, RecordSkip, RecordRefused, callers
  <2>2. (refused[j] => refused'[j]) /\ todo'[j] = todo[j] /\ hand'[j] = hand[j]
    <3>1. CASE RecordSettle(p, r)
      BY <1>0, <1>3, <3>1 DEF RecordSettle, callers
    <3>2. ASSUME NEW q \in Items, RecordReceipt(p, r, q) \/ RecordSkip(p, r, q)
          PROVE  (refused[j] => refused'[j]) /\ todo'[j] = todo[j] /\ hand'[j] = hand[j]
      BY <1>0, <1>3, <3>2 DEF RecordReceipt, RecordSkip, callers
    <3>3. ASSUME NEW q \in Items, RecordRefused(p, r, q)
          PROVE  (refused[j] => refused'[j]) /\ todo'[j] = todo[j] /\ hand'[j] = hand[j]
      BY <1>0, <1>3, <3>3 DEF RecordRefused
    <3> QED
      BY <1>3, <3>1, <3>2, <3>3 DEF Recording
  <2> QED
    BY <2>1, <2>2 DEF Rests, CallEffect
<1>4. ASSUME NEW r \in RunIds, RunnerStep(r) \/ RunnerRaises(r) \/ RunnerCrash(r) PROVE CallEffect(j)
  <2>1. CASE Recording(r, r)
    BY <1>0, <1>3, <2>1 DEF Processes
  <2>2. CASE ~Recording(r, r)
    <3>1. UNCHANGED callers
      BY <1>4, <2>2 DEF RunnerStep, Acquire, ReadRecord, SayStarted, HeadOfQueue, TrySlot, Recheck, RecheckSettles,
         Launch, WriteResult, RunnerRecords, RunnerRecorded, PendingWaiters, WakeOne, SettleWaiter, RunnerExit,
         RunnerRaises, RunnerCrash
    <3>2. todo' = todo \/ \E x : todo' = [todo EXCEPT ![r] = x]
      BY <1>4, <2>2 DEF RunnerStep, Acquire, ReadRecord, SayStarted, HeadOfQueue, TrySlot, Recheck, RecheckSettles,
         Launch, WriteResult, RunnerRecords, StartRecording, RunnerRecorded, PendingWaiters, WakeOne, SettleWaiter,
         RunnerExit, RunnerRaises, RunnerCrash, loops
    <3>3. hand' = hand \/ \E x : hand' = [hand EXCEPT ![r] = x]
      BY <1>4, <2>2 DEF RunnerStep, Acquire, ReadRecord, SayStarted, HeadOfQueue, TrySlot, Recheck, RecheckSettles,
         Launch, WriteResult, RunnerRecords, RunnerRecorded, PendingWaiters, WakeOne, SettleWaiter,
         RunnerExit, RunnerRaises, RunnerCrash, loops
    <3>4. todo'[j] = todo[j] /\ hand'[j] = hand[j]
      BY <1>0, <3>2, <3>3
    <3> QED
      BY <3>1, <3>4 DEF callers, Rests, CallEffect
  <2> QED
    BY <2>1, <2>2
\* The call itself, or that of another item.
<1>5. ASSUME NEW i \in Items, NEW x, NEW place \in {"recover", "probe"}, Begin(i, x, place) PROVE CallEffect(j)
  <2>1. CASE i = j
    BY <1>0, <1>5, <2>1 DEF Begin, Away, CallEffect
  <2>2. CASE i # j
    BY <1>0, <1>5, <2>2 DEF Begin, loops, Rests, CallEffect
  <2> QED
    BY <2>1, <2>2
<1>6. ASSUME NEW i \in Items, RecoverVisit(i) PROVE CallEffect(j)
  <2>1. /\ cpc[i] = "recover"
        /\ \/ UNCHANGED <<run, todo, cpc, answer>>
           \/ \E r, x : /\ run' = [run EXCEPT ![i] = r] /\ todo' = [todo EXCEPT ![i] = x]
                        /\ cpc' = [cpc EXCEPT ![i] = "recovering"] /\ UNCHANGED answer
        /\ UNCHANGED <<refused, hand>>
    BY <1>6 DEF RecoverVisit, StartRecording, GoOn
  <2> QED
    BY <1>0, <1>1, <2>1 DEF Rests, Away, CallEffect
<1>7. ASSUME NEW i \in Items, Recovered(i) PROVE CallEffect(j)
  <2>1. CASE i = j
    BY <1>0, <1>1, <1>7, <2>1 DEF Recovered, GoOn, Away, CallEffect
  <2>2. CASE i # j
    BY <1>0, <1>7, <2>2 DEF Recovered, GoOn, Rests, CallEffect
  <2> QED
    BY <2>1, <2>2
<1>8. ASSUME NEW i \in Items, NEW r \in RunIds, NEW X \in Probes(i), JoinRun(i, r, X) \/ WriteRun(i, r, X)
      PROVE  CallEffect(j)
  <2>1. CASE i = j
    BY <1>0, <1>1, <1>8, <2>1 DEF JoinRun, WriteRun, Return, GoOn, Away, CallEffect
  <2>2. CASE i # j
    BY <1>0, <1>8, <2>2 DEF JoinRun, WriteRun, Return, GoOn, loops, Rests, CallEffect
  <2> QED
    BY <2>1, <2>2
<1>9. ASSUME NEW i \in Items, Evaluate(i) \/ WaitChoose(i) PROVE CallEffect(j)
  <2>1. CASE i = j
    BY <1>0, <1>1, <1>9, <2>1 DEF Evaluate, WaitChoose, Return, GoOn, Away, CallEffect
  <2>2. CASE i # j
    <3>1. /\ \E x, y : cpc' = [cpc EXCEPT ![i] = x] /\ run' = [run EXCEPT ![i] = y]
          /\ \/ answer' = answer
             \/ \E z : answer' = [answer EXCEPT ![i] = z]
          /\ UNCHANGED <<refused, todo, hand>>
      BY <1>9 DEF Evaluate, WaitChoose, Return, GoOn, loops
    <3> QED
      BY <1>0, <2>2, <3>1 DEF Rests, CallEffect
  <2> QED
    BY <2>1, <2>2
<1>10. ASSUME NEW i \in Items, \/ Spawn(i) \/ AwaitStarted(i) \/ FailedRead(i) \/ MarkFailed(i)
                               \/ \E X \in Probes(i) : FailedProbe(i, X) \/ WaitProbe(i, X)
       PROVE  CallEffect(j)
  <2>1. CASE i = j
    BY <1>0, <1>1, <1>10, <2>1 DEF Spawn, AwaitStarted, FailedRead, MarkFailed, FailedProbe, WaitProbe, Return, GoOn,
       Away, CallEffect
  <2>2. CASE i # j
    BY <1>0, <1>10, <2>2 DEF Spawn, AwaitStarted, FailedRead, MarkFailed, FailedProbe, WaitProbe, Return, GoOn,
       loops, Rests, CallEffect
  <2> QED
    BY <2>1, <2>2
<1>11. ASSUME NEW i \in Items, WaitRead(i) PROVE CallEffect(j)
  <2>1. CASE i = j
    BY <1>0, <1>1, <1>11, <2>1 DEF WaitRead, StillRunning, Report, StartRecording, Return, GoOn,
       Away, StartsRecording, Reports, CallEffect
  <2>2. CASE i # j
    BY <1>0, <1>11, <2>2 DEF WaitRead, StillRunning, Report, StartRecording, Return, GoOn, Rests, CallEffect
  <2> QED
    BY <2>1, <2>2
<1>12. ASSUME NEW i \in Items, WaitRecorded(i) PROVE CallEffect(j)
  <2>1. CASE i = j
    BY <1>0, <1>1, <1>12, <2>1 DEF WaitRecorded, Report, Return, Away, Reports, CallEffect
  <2>2. CASE i # j
    BY <1>0, <1>12, <2>2 DEF WaitRecorded, Report, Return, Rests, CallEffect
  <2> QED
    BY <2>1, <2>2
<1>13. ASSUME NEW i \in Items, WaitCollect(i) PROVE CallEffect(j)
  <2>1. CASE i = j
    BY <1>0, <1>13, <2>1 DEF WaitCollect, Return, Collects, CallEffect
  <2>2. CASE i # j
    BY <1>0, <1>13, <2>2 DEF WaitCollect, Return, loops, Rests, CallEffect
  <2> QED
    BY <2>1, <2>2
<1>14. ASSUME NEW i \in Items, CallerCrash(i) PROVE CallEffect(j)
  <2>1. CASE i = j
    BY <1>0, <1>14, <2>1 DEF CallerCrash, Return, Away, CallEffect
  <2>2. CASE i # j
    BY <1>0, <1>14, <2>2 DEF CallerCrash, Return, Rests, CallEffect
  <2> QED
    BY <2>1, <2>2
<1>15. ASSUME NEW i \in Items, cpc[i] \in {"recovering", "recording"}, Recording(i, run[i]) PROVE CallEffect(j)
  <2>1. CASE i # j
    BY <1>3, <1>15, <2>1 DEF Processes
  <2>2. CASE i = j
    <3>1. UNCHANGED <<cpc, run, answer>>
      BY <1>15 DEF Recording, RecordSettle, RecordReceipt, RecordSkip, RecordRefused, callers
    <3> QED
      BY <1>0, <1>1, <1>15, <2>2, <3>1 DEF Away, Records, CallEffect
  <2> QED
    BY <2>1, <2>2
<1>16. ASSUME NEW i \in Items, CallerStep(i) PROVE CallEffect(j)
  BY <1>6, <1>7, <1>8, <1>9, <1>10, <1>11, <1>12, <1>13, <1>15, <1>16 DEF CallerStep
<1>17. CASE UNCHANGED vars \/ Tick \/ \E i \in Items : CloseItem(i)
  BY <1>2, <1>17 DEF vars, Tick, CloseItem, callers, loops
<1>18. ASSUME NEW i \in Items, WaitBegin(i) \/ \E k \in Keys, f \in SUBSET Options : RunBegin(i, k, f)
       PROVE  CallEffect(j)
  BY <1>5, <1>18 DEF WaitBegin, RunBegin
<1> QED
  BY <1>4, <1>14, <1>16, <1>17, <1>18 DEF Next

\* AnswerInv for the call of item j.
AnswerOf(j) ==
    /\ answer[j] = "finished" => cpc[j] \in {"idle", "collect"} /\ Over(run[j])
    /\ cpc[j] = "recording" =>
         /\ Over(run[j])
         /\ j \in requesters[run[j]] /\ ~refused[j] =>
              j \in Settled(run[j]) \/ j \in todo[j] \/ hand[j] = j
    /\ (/\ answer[j] = "finished"
        /\ j \in requesters[run[j]]
        /\ result[run[j]] \in Exits
        /\ ~refused[j]) => j \in Settled(run[j])

\* Whatever the step does to the call of item j, its answer stays backed.
LEMMA CallAnswer ==
    ASSUME IInv, AnswerInv, [Next]_vars, NEW j \in Items
    PROVE  AnswerOf(j)'
<1> PICK r : r = run[j]
  OBVIOUS
<1> USE GateAssumption
<1>0. /\ records \subseteq RunIds /\ result \in [RunIds -> Results] /\ requesters \in [RunIds -> SUBSET Items]
      /\ recorded_for \in [RunIds -> SUBSET Items] /\ skipped_for \in [RunIds -> SUBSET Items]
      /\ todo \in [Processes -> SUBSET Items] /\ hand \in [Processes -> Items \cup {NoItem}]
      /\ cpc \in [Items -> CallPlaces] /\ j \in Processes /\ j # NoItem
      /\ EarlyIsUnrecorded /\ RecordedIsComplete
      /\ refused \in [Items -> BOOLEAN]
  BY DEF IInv, TypeOK, IndexTypes, LoopTypes, CallTypes, Processes
<1>1. AnswerOf(j)
  BY DEF AnswerOf, AnswerInv, AnsweredIsOver, StillToSettle, FinishedIsSettled
<1>2. Over(r) => /\ Over(r)' /\ requesters'[r] = requesters[r] /\ Settled(r) \subseteq Settled(r)'
                 /\ result'[r] \in Exits => result[r] \in Exits
  BY OverStays DEF Over
<1>3. r \in records /\ (result[r] = "satisfied" \/ result[r] \in Exits) => Over(r)
  BY <1>0 DEF Over, AnswerInv, SatisfiedIsLate, EarlyIsUnrecorded, Exits
<1>4. CallEffect(j)
  BY CallEffects DEF AnswerInv
<1>5. CASE Rests(j)
  BY <1>1, <1>2, <1>5 DEF Rests, AnswerOf, Over, Settled
<1>6. CASE Away(j)
  BY <1>6 DEF Away, AnswerOf
<1>7. CASE StartsRecording(j)
  BY <1>0, <1>1, <1>2, <1>3, <1>7 DEF StartsRecording, AnswerOf, Over, Settled
<1>8. CASE Collects(j)
  BY <1>1, <1>2, <1>8 DEF Collects, AnswerOf, Over, Settled
<1>9. CASE Reports(j)
  <2>1. Over(r)
    BY <1>1, <1>3, <1>9 DEF Reports, AnswerOf
  <2>2. j \in requesters[r] /\ ~refused[j] /\ result[r] \in Exits => j \in Settled(r)
    <3>1. CASE cpc[j] = "recording" /\ RecordingDone(j)
      BY <1>0, <1>1, <3>1 DEF RecordingDone, AnswerOf
    <3>2. CASE r \in records /\ result[r] = "satisfied"
      BY <3>2 DEF Exits
    <3>3. CASE r \in records /\ result[r] \in Exits /\ recorded[r]
      BY <1>0, <3>3 DEF RecordedIsComplete
    <3> QED
      BY <1>9, <3>1, <3>2, <3>3 DEF Reports
  <2> QED
    BY <1>2, <1>9, <2>1, <2>2 DEF Reports, AnswerOf, Over, Settled
<1>10. CASE Records(j)
  <2>1. Over(r) /\ cpc[j] = "recording" /\ answer'[j] # "finished" /\ run'[j] = r
    BY <1>1, <1>10 DEF Records, AnswerOf
  <2>2. r \in RunIds
    BY <2>1 DEF Over
  <2>3. ASSUME j \in requesters[r], ~refused'[j]
        PROVE  j \in Settled(r)' \/ j \in todo'[j] \/ hand'[j] = j
    <3>1. CASE RecordSettle(j, r)
      <4>1. ~refused[j] /\ todo' = todo /\ hand[j] \in recorded_for'[r]
        BY <1>0, <2>2, <2>3, <3>1 DEF RecordSettle, Settle, callers
      <4> QED
        BY <1>1, <1>2, <2>1, <2>3, <4>1 DEF Settled, AnswerOf
    <3>2. ASSUME NEW q \in Items, RecordReceipt(j, r, q)
          PROVE  j \in Settled(r)' \/ j \in todo'[j] \/ hand'[j] = j
      <4>1. ~refused[j] /\ todo'[j] = todo[j] \ {q} /\ hand'[j] = q /\ hand[j] = NoItem
        BY <1>0, <2>3, <3>2 DEF RecordReceipt, callers
      <4> QED
        BY <1>0, <1>1, <1>2, <2>1, <2>3, <4>1 DEF Settled, AnswerOf
    <3>3. ASSUME NEW q \in Items, RecordSkip(j, r, q)
          PROVE  j \in Settled(r)' \/ j \in todo'[j] \/ hand'[j] = j
      <4>1. ~refused[j] /\ todo'[j] = todo[j] \ {q} /\ hand[j] = NoItem /\ q \in skipped_for'[r]
        BY <1>0, <2>2, <2>3, <3>3 DEF RecordSkip, Settle, callers
      <4> QED
        BY <1>0, <1>1, <1>2, <2>1, <2>3, <4>1 DEF Settled, AnswerOf
    <3>4. ASSUME NEW q \in Items, RecordRefused(j, r, q)
          PROVE  j \in Settled(r)' \/ j \in todo'[j] \/ hand'[j] = j
      <4>1. ~refused[j] /\ q # j /\ todo'[j] = todo[j] \ {q} /\ hand[j] = NoItem
        BY <1>0, <2>3, <3>4 DEF RecordRefused
      <4> QED
        BY <1>0, <1>1, <1>2, <2>1, <2>3, <4>1 DEF Settled, AnswerOf
    <3> QED
      BY <1>10, <3>1, <3>2, <3>3, <3>4 DEF Records, Recording
  <2> QED
    BY <1>2, <1>10, <2>1, <2>3 DEF Records, AnswerOf, Over, Settled
<1> QED
  BY <1>4, <1>5, <1>6, <1>7, <1>8, <1>9, <1>10 DEF CallEffect

\* gate wait never says "finished" of an executed run while the outcome is missing
\* from the requester's item, whatever other recorders, crashes and prunes do.
THEOREM FinishedIsSettledAlways == Spec => []FinishedIsSettled
<1>1. Init => AnswerInv
  BY GateAssumption DEF Init, AnswerInv, SatisfiedIsLate, AnsweredIsOver, StillToSettle, FinishedIsSettled
<1>2. IInv /\ AnswerInv /\ [Next]_vars => AnswerInv'
  <2> SUFFICES ASSUME IInv, AnswerInv, [Next]_vars PROVE AnswerInv'
    OBVIOUS
  <2>1. SatisfiedIsLate'
    BY SatisfiedStep DEF AnswerInv
  <2>2. AnsweredIsOver' /\ StillToSettle' /\ FinishedIsSettled'
    BY CallAnswer DEF AnswerOf, AnsweredIsOver, StillToSettle, FinishedIsSettled
  <2> QED
    BY <2>1, <2>2 DEF AnswerInv
<1>3. AnswerInv => FinishedIsSettled
  BY DEF AnswerInv
<1> QED
  BY <1>1, <1>2, <1>3, Invariance, PTL DEF Spec

-----------------------------------------------------------------------------
(***************************************************************************)
(* Wakes.                                                                  *)
(***************************************************************************)

\* The wake of a waiter is written once when it is added, then from "unset", or by
\* the waiter's own gate wait while it is owed.
LEMMA WakeSteps ==
    ASSUME TypeOK, [Next]_vars
    PROVE  \/ UNCHANGED woken
           \/ \E w \in RunIds \X Items : /\ woken[w] \notin SETTLED_WAKES
                                         /\ \E x \in Wakes : woken' = [woken EXCEPT ![w] = x]
<1> DEFINE Goal == \/ UNCHANGED woken
                   \/ \E w \in RunIds \X Items : /\ woken[w] \notin SETTLED_WAKES
                                                 /\ \E x \in Wakes : woken' = [woken EXCEPT ![w] = x]
<1>0. /\ woken \in [RunIds \X Items -> Wakes] /\ hand \in [Processes -> Items \cup {NoItem}]
      /\ records \subseteq RunIds
  BY DEF TypeOK, IndexTypes, LoopTypes
<1>1. ASSUME NEW i \in Items, NEW r \in RunIds, NEW X, JoinRun(i, r, X) \/ WriteRun(i, r, X) PROVE Goal
  BY <1>1 DEF JoinRun, WriteRun, AddWaiter, Wakes, SETTLED_WAKES
<1>2. ASSUME NEW i \in Items, WaitCollect(i) PROVE Goal
  BY <1>0, <1>2 DEF WaitCollect, Owed, Wakes, SETTLED_WAKES
<1>3. ASSUME NEW r \in RunIds, SettleWaiter(r) PROVE Goal
  <2> DEFINE w == <<r, hand[r]>>
  <2>1. \/ UNCHANGED woken
        \/ /\ woken[w] = "unset"
           /\ \/ woken' = [woken EXCEPT ![w] = "delivered"]
              \/ woken' = [woken EXCEPT ![w] = "failed"]
    BY <1>3 DEF SettleWaiter
  <2>2. CASE hand[r] \in Items
    BY <2>1, <2>2 DEF Wakes, SETTLED_WAKES
  <2>3. CASE hand[r] \notin Items
    <3>1. w \notin RunIds \X Items
      BY <2>3
    <3> HIDE DEF w
    <3> QED
      BY <1>0, <2>1, <3>1
  <2> QED
    BY <2>2, <2>3
<1>4. ASSUME NEW p \in Processes, NEW r, Recording(p, r) PROVE UNCHANGED woken
  BY <1>4 DEF Recording, RecordSettle, RecordReceipt, RecordSkip, RecordRefused, index
<1>5. ASSUME NEW r \in RunIds, RunnerStep(r) \/ RunnerRaises(r) \/ RunnerCrash(r) PROVE Goal
  <2>1. CASE SettleWaiter(r)
    BY <1>3, <2>1
  <2>2. CASE Recording(r, r)
    BY <1>4, <2>2 DEF Processes
  <2>3. CASE ~SettleWaiter(r) /\ ~Recording(r, r)
    BY <1>5, <2>3 DEF RunnerStep, Acquire, ReadRecord, SayStarted, HeadOfQueue, TrySlot, Recheck, RecheckSettles,
       Launch, WriteResult, RunnerRecords, RunnerRecorded, PendingWaiters, WakeOne, RunnerExit,
       RunnerRaises, RunnerCrash, index
  <2> QED
    BY <2>1, <2>2, <2>3
<1>6. ASSUME NEW i \in Items, CallerStep(i) PROVE Goal
  <2>1. CASE \/ RecoverVisit(i) \/ Recovered(i) \/ Evaluate(i) \/ Spawn(i) \/ AwaitStarted(i) \/ FailedRead(i)
             \/ MarkFailed(i) \/ WaitChoose(i) \/ WaitRead(i) \/ WaitRecorded(i)
             \/ \E X \in Probes(i) : FailedProbe(i, X) \/ WaitProbe(i, X)
    BY <2>1 DEF RecoverVisit, Recovered, Evaluate, Spawn, AwaitStarted, FailedRead, MarkFailed, WaitChoose,
       WaitRead, WaitRecorded, FailedProbe, WaitProbe, index
  <2>2. CASE Recording(i, run[i])
    BY <1>4, <2>2 DEF Processes
  <2>3. CASE \E r \in RunIds, X \in Probes(i) : JoinRun(i, r, X) \/ WriteRun(i, r, X)
    BY <1>1, <2>3
  <2> QED
    BY <1>2, <1>6, <2>1, <2>2, <2>3 DEF CallerStep
<1>7. CASE UNCHANGED vars \/ Tick
  BY <1>7 DEF vars, Tick, index
<1>8. ASSUME NEW i \in Items, \/ CloseItem(i) \/ CallerCrash(i) \/ WaitBegin(i)
                              \/ \E k \in Keys, f \in SUBSET Options : RunBegin(i, k, f)
      PROVE  Goal
  BY <1>8 DEF CloseItem, CallerCrash, WaitBegin, RunBegin, Begin, index
<1> QED
  BY <1>5, <1>6, <1>7, <1>8 DEF Next

\* Whichever of settle_waiter and collect_waiters is recorded first stays, however
\* the runner and the waiter's calls interleave.
THEOREM SettledWakesStayAlways == Spec => SettledWakesStay
<1> DEFINE Stay == \A w \in RunIds \X Items : woken[w] \in SETTLED_WAKES => woken'[w] = woken[w]
<1>1. ASSUME TypeOK, [Next]_vars PROVE [Stay]_vars
  <2>1. woken \in [RunIds \X Items -> Wakes]
    BY <1>1 DEF TypeOK, IndexTypes
  <2> QED
    BY <1>1, <2>1, WakeSteps
<1> QED
  BY <1>1, TypeCorrect, PTL DEF Spec, SettledWakesStay
=============================================================================

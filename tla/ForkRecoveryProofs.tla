------------------------- MODULE ForkRecoveryProofs -------------------------
(***************************************************************************)
(* A transaction that stopped anywhere, or whose recovery did, can be      *)
(* rolled back (Recoverable).  RollInv says where the paths of one journal *)
(* are; here the whole tree is related to it: what the journal does not    *)
(* name is as it was before, what it names is on one of its two sides, and *)
(* the directories it names held nothing that it does not name.  The last  *)
(* needs a tree in which an entry is in a directory (TreeInv), kept        *)
(* through editors, failures and crashes, and what a preview looked at     *)
(* when it was prepared (PlansFit).                                        *)
(***************************************************************************)
EXTENDS ForkTransactionProofs

Live(j) == j.phase \notin Ended \cup {"torn"}

\* What is in a directory that is not there?
Grounded(tree, entries) == \A d \in Dirs : entries[d] # {} => tree[d] \in {Dir, Found}

\* A journal gives a path the kind it has.
KeepsKinds(j) == \A d \in Changed(j) : j.after[d] # Absent => (d \in Dirs <=> j.after[d] = Dir)

TreeInv ==
    /\ IsTree(disk) /\ Grounded(disk, extra)
    /\ \A i \in 1..MaxPreviews : IsTree(journals[i].before) /\ KeepsKinds(journals[i])

\* What Fits says of the tree it was asked about.
PlanFits(plan, seen) ==
    /\ ~plan.update => \A d \in Range(plan.order) : seen[d] = Absent
    /\ \A d \in Range(plan.order) \cap Dirs : \A c \in Children(d) : seen[c] # Absent => c \in Range(plan.order)

PlansFit == \A i \in DOMAIN previews : previews[i].kind = "apply" => PlanFits(previews[i].plan, previews[i].seen)

\* Where a transaction or its recovery left the tree.
AsLeft(j, tree, held) ==
    /\ \A d \in Dests \ Known(j) : tree[d] = j.before[d]
    /\ \A d \in Changed(j) :
          \/ tree[d] = j.before[d]
          \/ tree[d] = j.after[d] /\ (j.after[d] = Dir => j.before[d] = Absent)
    /\ \A d \in Range(j.parents) : tree[d] \in {Absent, Dir}
    /\ \A d \in j.restoring :
          d \in Changed(j) /\ Observe(j.before[d]) = Dir /\ (d \notin held => tree[d] = j.before[d])

\* The directories of a journal hold what it names, and a scratch file.
Enclosed(j, entries) ==
    \A d \in Known(j) \cap Dirs :
       /\ entries[d] \subseteq j.extra[d] \cup {"scratch"}
       /\ \A c \in Children(d) : j.before[c] # Absent => c \in Known(j)

AsPrepared(j, p) == \A d \in Known(j) : j.before[d] = p.seen[d]

Untouched ==
    touched = {} =>
       \A i \in 1..MaxPreviews : Live(journals[i]) =>
          /\ AsLeft(journals[i], disk, spare)
          /\ AsPrepared(journals[i], previews[i]) => Enclosed(journals[i], extra)

Prepareds == \A i \in 1..MaxPreviews : journals[i].phase # "none" => i \in DOMAIN previews

\* What an apply relies on: it makes directories the journal claims, and
\* nothing is being restored yet.
Making ==
    run # Idle /\ run.op = "apply" /\ Head(run.todo).do # "open" =>
       /\ Left(run.todo, "mkdir") \subseteq Claimed(Journal)
       /\ Journal.restoring = {}
       /\ Head(run.todo).do = "put" /\ run.step = "act" => Journal.after[On] # Dir

LeftInv == TreeInv /\ PlansFit /\ Prepareds /\ Untouched /\ Making

\* The same plan, and what it met.
SamePlan(j, k) ==
    /\ k.order = j.order /\ k.parents = j.parents /\ k.before = j.before /\ k.after = j.after
    /\ k.extra = j.extra

\* What is said of a journal depends on its plan and what it met.
LEMMA SamePlanMeans ==
    ASSUME NEW j, NEW k, SamePlan(j, k)
    PROVE  /\ Changed(k) = Changed(j) /\ Known(k) = Known(j) /\ Claimed(k) = Claimed(j)
           /\ KeepsKinds(j) => KeepsKinds(k)
           /\ \A e : Enclosed(k, e) <=> Enclosed(j, e)
           /\ \A p : AsPrepared(k, p) <=> AsPrepared(j, p)
<1>1. Changed(k) = Changed(j)
  BY DEF SamePlan, Changed
<1>2. Known(k) = Known(j)
  BY <1>1 DEF SamePlan, Known
<1>3. k.before = j.before /\ k.after = j.after /\ k.extra = j.extra /\ k.parents = j.parents
  BY DEF SamePlan
<1>4. Claimed(k) = Claimed(j)
  BY <1>1, <1>3 DEF Claimed
<1>5. KeepsKinds(j) => KeepsKinds(k)
  BY <1>1, <1>3 DEF KeepsKinds
<1>6. \A e : Enclosed(k, e) <=> Enclosed(j, e)
  BY <1>2, <1>3 DEF Enclosed
<1>7. \A p : AsPrepared(k, p) <=> AsPrepared(j, p)
  BY <1>2, <1>3 DEF AsPrepared
<1> QED
  BY <1>1, <1>2, <1>4, <1>5, <1>6, <1>7

-----------------------------------------------------------------------------
(* The tree                                                                *)

\* One path becomes v, as an action of a command or of an editor may do it.
Becomes(d, v) ==
    /\ disk' = [disk EXCEPT ![d] = v]
    /\ v # Absent => (d \in Dirs <=> v \in {Dir, Found}) /\ IsDir(Parent[d])
    /\ d \in Dirs /\ v = Absent /\ disk[d] # Absent => Empty(d)

\* One destination changes as the code changes it, and the tree is still one.
LEMMA BecomesTree ==
    ASSUME TypeInv, TreeInv, NEW d \in Dests, NEW v \in Entries, Becomes(d, v)
    PROVE  /\ IsTree(disk') /\ Grounded(disk', extra)
           /\ disk'[d] = v /\ \A c \in Dests : c # d => disk'[c] = disk[c]
<1>1. disk'[d] = v /\ \A c \in Dests : c # d => disk'[c] = disk[c]
  BY DEF Becomes, TypeInv, TypeOK
<1>2. /\ Dirs \subseteq Dests /\ Root \notin Dests /\ Absent \notin {Dir, Found}
      /\ \A c \in Dests : Parent[c] \in Dirs \cup {Root}
  BY ForkAssumption
<1>3. ASSUME NEW c \in Dests, disk'[c] # Absent
      PROVE  /\ c \in Dirs <=> disk'[c] \in {Dir, Found}
             /\ Parent[c] # Root => disk'[Parent[c]] \in {Dir, Found}
  <2>1. c \in Dirs <=> disk'[c] \in {Dir, Found}
    BY <1>1, <1>3 DEF Becomes, TreeInv, IsTree
  <2>2. ASSUME Parent[c] # Root PROVE disk[Parent[c]] \in {Dir, Found}
    <3>1. CASE c = d
      BY <1>1, <1>3, <2>2, <3>1 DEF Becomes, IsDir
    <3>2. CASE c # d
      BY <1>1, <1>3, <2>2, <3>2 DEF TreeInv, IsTree
    <3> QED
      BY <3>1, <3>2
  <2>3. ASSUME Parent[c] = d, d # Root PROVE v \in {Dir, Found}
    <3>1. d \in Dirs
      BY <1>2, <2>3
    <3>2. CASE c = d
      BY <1>1, <1>3, <3>1, <3>2 DEF Becomes
    <3>3. CASE c # d
      <4>1. disk[c] # Absent /\ c \in Children(d)
        BY <1>1, <1>3, <2>3, <3>3 DEF Children
      <4>2. disk[d] # Absent /\ ~Empty(d)
        BY <1>2, <2>2, <2>3, <4>1 DEF Empty
      <4> QED
        BY <3>1, <4>2 DEF Becomes
    <3> QED
      BY <3>2, <3>3
  <2> QED
    BY <1>1, <1>2, <2>1, <2>2, <2>3
<1>4. ASSUME NEW c \in Dirs, extra[c] # {} PROVE disk'[c] \in {Dir, Found}
  <2>1. disk[c] \in {Dir, Found} /\ ~Empty(c)
    BY <1>4 DEF TreeInv, Grounded, Empty
  <2> QED
    BY <1>1, <1>2, <2>1 DEF Becomes
<1> QED
  BY <1>1, <1>3, <1>4 DEF IsTree, Grounded

-----------------------------------------------------------------------------
(* What a command may make of a path of its journal                        *)

Moves(d, v) ==
    /\ Becomes(d, v)
    /\ \/ d \in Changed(Journal) /\ v = Journal.before[d]
       \/ /\ d \in Changed(Journal) /\ v = Journal.after[d] /\ Journal.restoring = {}
          /\ Journal.after[d] = Dir => Journal.before[d] = Absent
       \/ d \in Range(Journal.parents) /\ v \in {Absent, Dir}

Moved == disk' = disk \/ \E d \in Dests, v \in Entries : Moves(d, v)

\* So is it after any step of an apply or a recovery, which changes at most one.
LEMMA MovedTree ==
    ASSUME TypeInv, TreeInv, Moved
    PROVE  IsTree(disk') /\ Grounded(disk', extra)
<1>1. CASE disk' = disk
  BY <1>1 DEF TreeInv
<1>2. ASSUME NEW d \in Dests, NEW v \in Entries, Moves(d, v) PROVE IsTree(disk') /\ Grounded(disk', extra)
  BY <1>2, BecomesTree DEF Moves
<1> QED
  BY <1>1, <1>2 DEF Moved

\* The paths of a journal are in no two of its parts.
LEMMA ChangedOrParent ==
    ASSUME TypeInv, RollInv, run # Idle, Head(run.todo).do # "open"
    PROVE  /\ Changed(Journal) \cap Range(Journal.parents) = {}
           /\ Known(Journal) = Changed(Journal) \cup Range(Journal.parents) /\ Known(Journal) \subseteq Dests
           /\ \A d \in Range(Journal.parents) : Journal.before[d] = Absent /\ d \in Dirs
<1>1. WellFormed(Journal) /\ Journal \in JournalType /\ Changed(Journal) \subseteq Dests
  BY CommandAlone, Busy
<1>2. Range(Journal.parents) \subseteq Dirs /\ Dirs \subseteq Dests
  BY <1>1, RangeOf, ForkAssumption DEF JournalType
<1> QED
  BY <1>1, <1>2 DEF WellFormed, Known

\* A step moves one path between its two sides: the tree is as the journal left it.
LEMMA MovedLeft ==
    ASSUME TypeInv, TreeInv, RollInv, run # Idle, Head(run.todo).do # "open", Moved,
           AsLeft(Journal, disk, spare), NEW k, SamePlan(Journal, k),
           \A d \in spare \ spare' : disk'[d] = Journal.before[d],
           \A d \in k.restoring :
              d \in Journal.restoring \/ (d \in Changed(k) /\ Observe(k.before[d]) = Dir /\ d \in spare')
    PROVE  AsLeft(k, disk', spare')
<1> DEFINE j == Journal
<1>1. /\ Changed(k) = Changed(j) /\ Known(k) = Known(j) /\ k.parents = j.parents
      /\ k.before = j.before /\ k.after = j.after
  BY SamePlanMeans DEF SamePlan
<1>2. /\ Changed(j) \cap Range(j.parents) = {} /\ Known(j) = Changed(j) \cup Range(j.parents)
      /\ Known(j) \subseteq Dests
  BY ChangedOrParent
<1>3. AsLeft(j, disk, spare)
  OBVIOUS
<1>4. \A d \in k.restoring :
         /\ d \in Changed(k) /\ Observe(k.before[d]) = Dir
         /\ d \in spare' \/ d \in j.restoring
  BY <1>1, <1>3 DEF AsLeft
<1>5. CASE disk' = disk
  <2>1. \A d \in k.restoring : d \notin spare' => disk'[d] = k.before[d]
    BY <1>1, <1>3, <1>4, <1>5 DEF AsLeft
  <2> QED
    BY <1>1, <1>3, <1>4, <1>5, <2>1 DEF AsLeft
<1>6. ASSUME NEW d \in Dests, NEW v \in Entries, Moves(d, v) PROVE AsLeft(k, disk', spare')
  <2>1. disk'[d] = v /\ \A c \in Dests : c # d => disk'[c] = disk[c]
    BY <1>6, BecomesTree DEF Moves
  <2>2. \/ d \in Changed(j) /\ v = j.before[d]
        \/ /\ d \in Changed(j) /\ v = j.after[d] /\ j.restoring = {}
           /\ j.after[d] = Dir => j.before[d] = Absent
        \/ d \in Range(j.parents) /\ v \in {Absent, Dir}
    BY <1>6 DEF Moves
  <2> HIDE DEF j
  <2>3. \A c \in Dests \ Known(j) : disk'[c] = j.before[c]
    BY <1>2, <1>3, <2>1, <2>2 DEF AsLeft
  <2>4. \A c \in Changed(j) :
          \/ disk'[c] = j.before[c]
          \/ disk'[c] = j.after[c] /\ (j.after[c] = Dir => j.before[c] = Absent)
    BY <1>2, <1>3, <2>1, <2>2 DEF AsLeft
  <2>5. \A c \in Range(j.parents) : disk'[c] \in {Absent, Dir}
    BY <1>2, <1>3, <2>1, <2>2 DEF AsLeft
  <2>6. \A c \in k.restoring : c \notin spare' => disk'[c] = j.before[c]
    <3> SUFFICES ASSUME NEW c \in k.restoring, c \notin spare' PROVE disk'[c] = j.before[c]
      OBVIOUS
    <3>1. c \in Changed(j) /\ c \in j.restoring /\ c \in Dests
      BY <1>1, <1>2, <1>4
    <3>2. CASE c \in spare
      BY <3>2 DEF j
    <3>3. CASE c \notin spare
      BY <1>2, <1>3, <2>1, <2>2, <3>1, <3>3 DEF AsLeft
    <3> QED
      BY <3>2, <3>3
  <2> QED
    BY <1>1, <1>4, <2>3, <2>4, <2>5, <2>6 DEF AsLeft
<1> QED
  BY <1>5, <1>6 DEF Moved

-----------------------------------------------------------------------------
(* A step of a command that has its journal                                *)

\* The journal of such a command can be read and is the only unfinished one.
LEMMA CommandLive ==
    ASSUME TypeInv, EditsInv, RollInv, run # Idle, Head(run.todo).do # "open"
    PROVE  /\ Live(Journal) /\ Current \in 1..MaxPreviews
           /\ \A i \in 1..MaxPreviews : i # Current => journals[i].phase \in Ended
<1>1. Journal.phase \notin Ended /\ Incomplete = {Current}
  BY CommandAlone
<1>2. Kept(Journal) /\ Current \in 1..MaxPreviews
  BY CommandHas, Busy
<1> QED
  BY <1>1, <1>2 DEF Live, Kept, Incomplete

\* More in a directory: a scratch file at most.
Littered ==
    \/ extra' = extra
    \/ /\ disk' = disk
       /\ \E d \in Dirs : disk[d] \in {Dir, Found} /\ extra' = [extra EXCEPT ![d] = @ \cup {"scratch"}]

\* A scratch file left behind is in a directory that is there.
LEMMA LitteredTree ==
    ASSUME TypeInv, TreeInv, Moved, Littered
    PROVE  IsTree(disk') /\ Grounded(disk', extra')
<1>1. IsTree(disk') /\ Grounded(disk', extra)
  BY MovedTree
<1>2. ASSUME NEW d \in Dirs, disk' = disk, disk[d] \in {Dir, Found}, extra' = [extra EXCEPT ![d] = @ \cup {"scratch"}]
      PROVE  Grounded(disk', extra')
  <2>1. \A c \in Dirs : c # d => extra'[c] = extra[c]
    BY <1>2 DEF TypeInv, TypeOK
  <2> QED
    BY <1>1, <1>2, <2>1 DEF Grounded
<1> QED
  BY <1>1, <1>2 DEF Littered

\* A scratch file is the only thing a step adds to a directory.
LEMMA LitteredEnclosed ==
    ASSUME TypeInv, Littered, NEW j, Enclosed(j, extra)
    PROVE  Enclosed(j, extra')
<1>1. \A d \in Dirs : extra'[d] \subseteq extra[d] \cup {"scratch"}
  <2>1. ASSUME NEW c \in Dirs, extra' = [extra EXCEPT ![c] = @ \cup {"scratch"}]
        PROVE  \A d \in Dirs : extra'[d] \subseteq extra[d] \cup {"scratch"}
    BY <2>1 DEF TypeInv, TypeOK
  <2> QED
    BY <2>1 DEF Littered
<1> QED
  BY <1>1 DEF Enclosed

\* Every step of a journal that is open, and what it may save with it.
LEMMA RunsLeft ==
    ASSUME TypeInv, EditsInv, RollInv, LeftInv, run # Idle, Head(run.todo).do # "open",
           Moved, Littered, UNCHANGED <<previews, touched>>,
           \A d \in spare \ spare' : disk'[d] = Journal.before[d],
           NEW k \in JournalType, SamePlan(Journal, k), k.phase # "torn",
           (journals' = journals /\ k = Journal) \/ Persist(k),
           \A d \in k.restoring :
              d \in Journal.restoring \/ (d \in Changed(k) /\ Observe(k.before[d]) = Dir /\ d \in spare')
    PROVE  TreeInv' /\ PlansFit' /\ Prepareds' /\ Untouched'
<1> DEFINE c == Current
<1>1. /\ Live(Journal) /\ c \in 1..MaxPreviews /\ Journal = journals[c]
      /\ \A i \in 1..MaxPreviews : i # c => journals[i].phase \in Ended
  BY CommandLive DEF Journal
<1>2. journals'[c] = k /\ \A i \in 1..MaxPreviews : i # c => journals'[i] = journals[i]
  BY <1>1, PersistKeeps DEF Journal
<1> HIDE DEF c
<1>3. TreeInv'
  <2>1. IsTree(disk') /\ Grounded(disk', extra')
    BY LitteredTree DEF LeftInv
  <2>2. ASSUME NEW i \in 1..MaxPreviews PROVE IsTree(journals'[i].before) /\ KeepsKinds(journals'[i])
    <3>1. IsTree(journals[i].before) /\ KeepsKinds(journals[i])
      BY DEF LeftInv, TreeInv
    <3>2. k.before = Journal.before /\ (KeepsKinds(Journal) => KeepsKinds(k))
      BY SamePlanMeans DEF SamePlan
    <3>3. CASE i = c
      BY <1>1, <1>2, <3>1, <3>2, <3>3
    <3>4. CASE i # c
      BY <1>2, <3>1, <3>4
    <3> QED
      BY <3>3, <3>4
  <2> QED
    BY <2>1, <2>2 DEF TreeInv
<1>4. PlansFit'
  BY DEF LeftInv, PlansFit, PlanFits, Children
<1>5. Prepareds'
  <2>1. c \in DOMAIN previews
    BY <1>1 DEF LeftInv, Prepareds, Live, Ended
  <2> QED
    BY <1>1, <1>2, <2>1 DEF LeftInv, Prepareds
<1>6. Untouched'
  <2> SUFFICES ASSUME touched = {}, NEW i \in 1..MaxPreviews, Live(journals'[i])
               PROVE  /\ AsLeft(journals'[i], disk', spare')
                      /\ AsPrepared(journals'[i], previews[i]) => Enclosed(journals'[i], extra')
    BY DEF Untouched
  <2>1. i = c
    BY <1>1, <1>2 DEF Live
  <2>2. /\ AsLeft(Journal, disk, spare)
        /\ AsPrepared(Journal, previews[i]) => Enclosed(Journal, extra)
    BY <1>1, <2>1 DEF LeftInv, Untouched
  <2>3. AsLeft(k, disk', spare')
    BY <2>2, MovedLeft DEF LeftInv
  <2>4. AsPrepared(k, previews[i]) => Enclosed(k, extra')
    BY <2>2, SamePlanMeans, LitteredEnclosed
  <2> QED
    BY <1>2, <2>1, <2>3, <2>4
<1> QED
  BY <1>3, <1>4, <1>5, <1>6

\* The command goes on, looks again or ends.
LEMMA GoesOnMaking ==
    ASSUME TypeInv, RollInv, LeftInv, run # Idle, Head(run.todo).do # "open", previews' = previews,
           NEW k, journals'[Current] = k, SamePlan(Journal, k),
           run.op = "apply" => k.restoring = Journal.restoring,
           \/ run' = Idle
           \/ Advance /\ Head(run.todo).do \notin Ends
           \/ \E step \in {"check", "act", "note"} :
                 /\ Proceed(step)
                 /\ step = "act" /\ Head(run.todo).do = "put" => Journal.after[On] # Dir
    PROVE  Making'
<1>1. CASE run' = Idle
  BY <1>1 DEF Making
<1>2. Claimed(k) = Claimed(Journal) /\ Changed(k) = Changed(Journal) /\ k.after = Journal.after
  BY SamePlanMeans DEF SamePlan
<1>3. CASE Advance /\ Head(run.todo).do \notin Ends
  <2>1. run'.op = run.op /\ Current' = Current
    BY <1>2, <1>3, AdvanceKeeps
  <2>2. run.todo \in Seq(TaskType) /\ run.todo # <<>> /\ run \in RunType
    BY Busy DEF TypeInv, TypeOK, RunType
  <2>3. run'.todo = Tail(run.todo) /\ run'.step = "check"
    BY <1>3, <2>2 DEF Advance, RunType
  <2>4. Left(run'.todo, "mkdir") \subseteq Left(run.todo, "mkdir")
    BY <2>2, <2>3, LeftTail
  <2>5. Journal' = k
    BY <2>1 DEF Journal
  <2>6. Claimed(Journal') = Claimed(Journal) /\ (run.op = "apply" => Journal'.restoring = Journal.restoring)
    BY <1>2, <2>5
  <2> QED
    BY <2>1, <2>3, <2>4, <2>6 DEF LeftInv, Making, Claimed, Changed
<1>4. ASSUME NEW step \in {"check", "act", "note"}, Proceed(step),
             step = "act" /\ Head(run.todo).do = "put" => Journal.after[On] # Dir
      PROVE  Making'
  <2>1. run'.op = run.op /\ run'.todo = run.todo /\ run'.step = step /\ Current' = Current
    BY <1>2, <1>4, ProceedKeeps
  <2>2. Journal' = k /\ On' = On
    BY <2>1 DEF Journal, On
  <2>3. Claimed(Journal)' = Claimed(Journal)
    BY <1>2, <2>2 DEF Claimed, Changed
  <2> QED
    BY <1>2, <1>4, <2>1, <2>2, <2>3 DEF LeftInv, Making
<1> QED
  BY <1>1, <1>3, <1>4

\* How a step of a command ends: the command ends, goes on to the next task,
\* or to another step of this one.
Goes ==
    \/ run' = Idle
    \/ Advance /\ Head(run.todo).do \notin Ends
    \/ \E step \in {"check", "act", "note"} :
          /\ Proceed(step)
          /\ step = "act" /\ Head(run.todo).do = "put" => Journal.after[On] # Dir

\* A step that restores nothing.
LEMMA StepLeft ==
    ASSUME TypeInv, EditsInv, RollInv, LeftInv, run # Idle, Head(run.todo).do # "open",
           Moved, Littered, Goes, UNCHANGED <<spare, previews, touched>>,
           NEW k \in JournalType, SamePlan(Journal, k), k.phase # "torn", k.restoring = Journal.restoring,
           (journals' = journals /\ k = Journal) \/ Persist(k)
    PROVE  LeftInv'
<1>1. TreeInv' /\ PlansFit' /\ Prepareds' /\ Untouched'
  BY RunsLeft
<1>2. journals'[Current] = k
  BY PersistKeeps DEF Journal
<1>3. Making'
  BY <1>2, GoesOnMaking DEF Goes
<1> QED
  BY <1>1, <1>3 DEF LeftInv

\* And one that leaves the journal alone.
LEMMA QuietLeft ==
    ASSUME TypeInv, EditsInv, RollInv, LeftInv, run # Idle, Head(run.todo).do # "open",
           Moved, Littered, Goes, UNCHANGED <<spare, previews, touched, journals>>
    PROVE  LeftInv'
<1>1. Journal \in JournalType /\ Journal.phase # "torn"
  BY Busy, CommandLive DEF Live
<1> QED
  BY <1>1, StepLeft DEF SamePlan

\* The task a command is at: its path, and what the journal makes of it.
LEMMA AtPath ==
    ASSUME TypeInv, RollInv, run # Idle, Head(run.todo).do \in {"mkdir", "stage", "put", "unstage", "undo", "rmdir"}
    PROVE  /\ Head(run.todo).do # "open" /\ On \in Dests /\ Journal \in JournalType
           /\ Head(run.todo).do \notin Ends
           /\ Head(run.todo).do \in {"mkdir", "rmdir"} => On \in Dirs
           /\ Head(run.todo).do \in {"stage", "put", "unstage", "undo"} => On \in Changed(Journal)
           /\ On \in Left(run.todo, Head(run.todo).do)
<1>1. /\ Fitting(run.op, Head(run.todo), Changed(Journal)) /\ Changed(Journal) \subseteq Dests
      /\ Journal \in JournalType /\ Dirs \subseteq Dests
  BY Busy, ForkAssumption
<1>2. run.todo \in Seq(TaskType) /\ run.todo # <<>>
  BY Busy DEF TypeInv, TypeOK
<1>3. On \in Left(run.todo, Head(run.todo).do)
  BY <1>2, LeftTail DEF On
<1> QED
  BY <1>1, <1>3 DEF Fitting, On, Ends

\* A directory being made is a missing parent or a directory of the plan.
LEMMA MakesDirectory ==
    ASSUME TypeInv, EditsInv, RollInv, LeftInv, run # Idle, run.op = "apply", Head(run.todo).do = "mkdir"
    PROVE  /\ On \in Dirs /\ On \in Dests
           /\ \/ On \in Range(Journal.parents)
              \/ /\ On \in Changed(Journal) /\ Journal.before[On] = Absent /\ Journal.after[On] = Dir
                 /\ Journal.restoring = {}
<1>1. On \in Dirs /\ On \in Dests /\ On \in Left(run.todo, "mkdir")
  BY AtPath
<1>2. On \in Claimed(Journal) /\ Journal.restoring = {}
  BY <1>1 DEF LeftInv, Making
<1> QED
  BY <1>1, <1>2 DEF Claimed

\* Each step in turn: making a parent or a directory of the plan.
LEMMA MkdirLeft ==
    ASSUME TypeInv, EditsInv, RollInv, LeftInv, Mkdir
    PROVE  LeftInv'
<1>1. /\ run # Idle /\ run.op = "apply" /\ Head(run.todo).do = "mkdir"
      /\ UNCHANGED <<extra, spare, previews, touched>>
  BY DoingIsBusy DEF Mkdir
<1>2. Head(run.todo).do # "open" /\ Head(run.todo).do \notin Ends /\ Littered
  BY <1>1 DEF Ends, Littered
<1>3. CASE /\ disk[On] = Absent /\ IsDir(Parent[On]) /\ disk' = [disk EXCEPT ![On] = Dir]
           /\ Proceed("note") /\ UNCHANGED <<lock, journals>>
  <2>1. Moves(On, Dir)
    <3>1. Becomes(On, Dir)
      BY <1>1, <1>3, MakesDirectory, ForkAssumption DEF Becomes
    <3> QED
      BY <1>1, <3>1, MakesDirectory DEF Moves
  <2>2. Moved
    BY <1>1, <2>1, MakesDirectory, DirsEntries DEF Moved
  <2>3. Goes
    BY <1>3 DEF Goes
  <2> QED
    BY <1>1, <1>2, <1>3, <2>2, <2>3, QuietLeft
<1>4. CASE Abort /\ UNCHANGED <<disk, journals>>
  BY <1>1, <1>2, <1>4, QuietLeft DEF Abort, Goes, Moved
<1>5. CASE /\ Persist([Journal EXCEPT !.owned = @ \cup {On},
                                     !.completed = @ \cup ({On} \cap Changed(Journal))])
           /\ Advance /\ UNCHANGED <<disk, lock>>
  <2> DEFINE k == [Journal EXCEPT !.owned = @ \cup {On}, !.completed = @ \cup ({On} \cap Changed(Journal))]
  <2>1. Journal \in JournalType /\ Journal.phase # "torn" /\ On \in Dirs /\ On \in Dests
    BY <1>1, <1>2, Busy, CommandLive, MakesDirectory DEF Live
  <2>2. /\ k \in JournalType /\ SamePlan(Journal, k) /\ k.phase # "torn" /\ k.restoring = Journal.restoring
    BY <2>1 DEF JournalType, SamePlan
  <2>3. Persist(k)
    BY <1>5
  <2>4. Goes /\ Moved
    BY <1>2, <1>5 DEF Goes, Moved
  <2> HIDE DEF k
  <2> QED
    BY <1>1, <1>2, <2>2, <2>3, <2>4, StepLeft
<1> QED
  BY <1>3, <1>4, <1>5 DEF Mkdir

\* Staging changes no destination.
LEMMA StagingLeft ==
    ASSUME TypeInv, EditsInv, RollInv, LeftInv, Stage \/ Unstage
    PROVE  LeftInv'
<1>1. /\ run # Idle /\ Head(run.todo).do \in {"stage", "unstage"}
      /\ UNCHANGED <<disk, extra, spare, previews, touched, journals>>
      /\ Advance \/ run' = Idle
  BY DoingIsBusy DEF Stage, Unstage, Abort
<1>2. Head(run.todo).do # "open" /\ Littered /\ Moved /\ Goes
  BY <1>1 DEF Ends, Littered, Moved, Goes
<1> QED
  BY <1>1, <1>2, QuietLeft

\* The phase alone changes.
LEMMA StartApplyingLeft ==
    ASSUME TypeInv, EditsInv, RollInv, LeftInv, StartApplying
    PROVE  LeftInv'
<1>1. /\ run # Idle /\ Head(run.todo).do = "start" /\ Advance
      /\ UNCHANGED <<disk, extra, spare, previews, touched>>
  BY DoingIsBusy DEF StartApplying
<1>2. Head(run.todo).do # "open" /\ Littered /\ Moved /\ Goes
  BY <1>1 DEF Ends, Littered, Moved, Goes
<1> DEFINE k == [Journal EXCEPT !.phase = "applying"]
<1>3. Journal \in JournalType
  BY <1>1, Busy
<1>4. k \in JournalType /\ SamePlan(Journal, k) /\ k.phase # "torn" /\ k.restoring = Journal.restoring
  BY <1>3 DEF JournalType, SamePlan
<1>5. Persist(k)
  BY DEF StartApplying
<1> HIDE DEF k
<1> QED
  BY <1>1, <1>2, <1>4, <1>5, StepLeft

\* The end of a command: the journal is complete, or rolled back, or as it
\* was.
LEMMA EndingLeft ==
    ASSUME TypeInv, EditsInv, RollInv, LeftInv, Finish \/ Close
    PROVE  LeftInv'
<1>1. /\ run # Idle /\ Head(run.todo).do \in {"finish", "close"} /\ run' = Idle
      /\ UNCHANGED <<disk, extra, spare, previews, touched>>
  BY DoingIsBusy DEF Finish, Close, Abort
<1>2. Head(run.todo).do # "open" /\ Littered /\ Moved /\ Goes
  BY <1>1 DEF Ends, Littered, Moved, Goes
<1>3. Journal \in JournalType
  BY <1>1, Busy
<1>4. ASSUME NEW p \in {"complete", "rolled_back"}, Persist([Journal EXCEPT !.phase = p]) PROVE LeftInv'
  <2> DEFINE k == [Journal EXCEPT !.phase = p]
  <2>1. k \in JournalType /\ SamePlan(Journal, k) /\ k.phase # "torn" /\ k.restoring = Journal.restoring
    BY <1>3 DEF JournalType, SamePlan
  <2>2. Persist(k)
    BY <1>4
  <2> HIDE DEF k
  <2> QED
    BY <1>1, <1>2, <2>1, <2>2, StepLeft
<1>5. CASE UNCHANGED journals
  BY <1>1, <1>2, <1>5, QuietLeft
<1> QED
  BY <1>4, <1>5 DEF Finish, Close

\* A promotion moves a path to the plan's side.
LEMMA Promotes ==
    ASSUME TypeInv, EditsInv, RollInv, LeftInv, run # Idle, run.op = "apply", Head(run.todo).do = "put",
           run.step = "act", disk' = [disk EXCEPT ![On] = Journal.after[On]],
           Journal.after[On] # Absent => IsDir(Parent[On]),
           Journal.before[On] \in {Dir, Found} => Empty(On)
    PROVE  Moved
<1>1. On \in Dests /\ On \in Changed(Journal) /\ Journal \in JournalType /\ Current \in 1..MaxPreviews
      /\ Head(run.todo).do # "open"
  BY AtPath, Busy
<1>2. Journal.after[On] # Dir /\ Journal.restoring = {}
  BY <1>1 DEF LeftInv, Making
<1>3. Journal.before[On] # Absent \/ Journal.after[On] # Absent
  BY DEF EditsInv, CommandKnows, Looked
<1>4. IsTree(Journal.before) /\ KeepsKinds(Journal)
  BY <1>1 DEF LeftInv, TreeInv, Journal
<1>5. Journal.after[On] # Absent => On \notin Dirs /\ Journal.after[On] \notin {Dir, Found}
  <2>1. Journal.after[On] # Found
    BY <1>1, CommandAlone DEF WellFormed
  <2> QED
    BY <1>1, <1>2, <1>4, <2>1 DEF KeepsKinds
<1>6. On \in Dirs /\ Journal.after[On] = Absent => Empty(On)
  BY <1>1, <1>3, <1>4 DEF IsTree
<1>7. Becomes(On, Journal.after[On])
  BY <1>5, <1>6 DEF Becomes
<1>8. Moves(On, Journal.after[On])
  BY <1>1, <1>2, <1>7 DEF Moves
<1>9. Journal.after[On] \in Entries
  BY <1>1 DEF JournalType
<1> QED
  BY <1>1, <1>8, <1>9 DEF Moved

\* A path goes from what it was to what the plan says.
LEMMA PutLeft ==
    ASSUME TypeInv, EditsInv, RollInv, LeftInv, Put
    PROVE  LeftInv'
<1>1. /\ run # Idle /\ run.op = "apply" /\ Head(run.todo).do = "put"
      /\ UNCHANGED <<extra, spare, previews, touched>>
  BY DoingIsBusy DEF Put
<1>2. Head(run.todo).do # "open" /\ Head(run.todo).do \notin Ends /\ Littered
  BY <1>1 DEF Ends, Littered
<1>3. CASE /\ Proceed(IF Journal.after[On] = Dir \/ (Journal.after[On] = Absent /\ Journal.before[On] = Absent)
                      THEN "note" ELSE "act")
           /\ UNCHANGED <<disk, journals>>
  <2>1. Goes
    <3>1. CASE Proceed("note")
      BY <3>1 DEF Goes
    <3>2. CASE Proceed("act") /\ Journal.after[On] # Dir
      BY <3>2 DEF Goes
    <3> QED
      BY <1>3, <3>1, <3>2
  <2> QED
    BY <1>1, <1>2, <1>3, <2>1, QuietLeft DEF Moved
<1>4. CASE Abort /\ UNCHANGED <<disk, journals>>
  BY <1>1, <1>2, <1>4, QuietLeft DEF Abort, Goes, Moved
<1>5. CASE /\ run.step = "act"
           /\ Journal.after[On] # Absent => IsDir(Parent[On])
           /\ Journal.before[On] \in {Dir, Found} => Empty(On)
           /\ disk' = [disk EXCEPT ![On] = Journal.after[On]]
           /\ Proceed("note") /\ UNCHANGED journals
  <2>1. Moved
    BY <1>1, <1>5, Promotes
  <2>2. Goes
    BY <1>5 DEF Goes
  <2> QED
    BY <1>1, <1>2, <1>5, <2>1, <2>2, QuietLeft
<1>6. CASE Persist([Journal EXCEPT !.completed = @ \cup {On}]) /\ Advance /\ UNCHANGED disk
  <2> DEFINE k == [Journal EXCEPT !.completed = @ \cup {On}]
  <2>1. Journal \in JournalType /\ Journal.phase # "torn" /\ On \in Dests
    BY <1>1, <1>2, AtPath, CommandLive DEF Live
  <2>2. k \in JournalType /\ SamePlan(Journal, k) /\ k.phase # "torn" /\ k.restoring = Journal.restoring
    BY <2>1 DEF JournalType, SamePlan
  <2>3. Persist(k)
    BY <1>6
  <2>4. Goes /\ Moved
    BY <1>2, <1>6 DEF Goes, Moved
  <2> HIDE DEF k
  <2> QED
    BY <1>1, <1>2, <2>2, <2>3, <2>4, StepLeft
<1> QED
  BY <1>3, <1>4, <1>5, <1>6 DEF Put

-----------------------------------------------------------------------------
(* The way back                                                            *)

LEMMA PrepareDirectoriesLeft ==
    ASSUME TypeInv, EditsInv, RollInv, LeftInv, PrepareDirectories
    PROVE  LeftInv'
<1> DEFINE lost == {d \in Changed(Journal) \cap Dirs :
                       Observe(Journal.before[d]) = Dir /\ Preview.seen[d] = Absent} \ Journal.restoring
           k == [Journal EXCEPT !.restoring = @ \cup lost]
<1>1. /\ run # Idle /\ run.op = "recover" /\ Head(run.todo).do = "prepare" /\ Advance
      /\ UNCHANGED <<disk, extra, previews, touched>>
  BY DoingIsBusy DEF PrepareDirectories
<1>2. Head(run.todo).do # "open" /\ Littered /\ Moved /\ Goes
  BY <1>1 DEF Ends, Littered, Moved, Goes
<1>3. spare' = spare \cup lost /\ Persist(k)
  BY DEF PrepareDirectories
<1>4. Journal \in JournalType /\ Journal.phase # "torn"
  BY <1>1, <1>2, Busy, CommandLive DEF Live
<1>5. /\ k \in JournalType /\ SamePlan(Journal, k) /\ k.phase # "torn"
      /\ k.restoring = Journal.restoring \cup lost
  BY <1>4 DEF JournalType, SamePlan
<1>6. \A d \in lost : d \in Changed(k) /\ Observe(k.before[d]) = Dir
  BY <1>5, SamePlanMeans DEF SamePlan
<1> HIDE DEF k, lost
<1>7. TreeInv' /\ PlansFit' /\ Prepareds' /\ Untouched'
  <2>1. spare \ spare' = {}
    BY <1>3
  <2>2. \A d \in k.restoring :
           d \in Journal.restoring \/ (d \in Changed(k) /\ Observe(k.before[d]) = Dir /\ d \in spare')
    BY <1>3, <1>5, <1>6
  <2> QED
    BY <1>1, <1>2, <1>3, <1>5, <2>1, <2>2, RunsLeft
<1>8. Making'
  <2>1. journals'[Current] = k
    BY <1>1, <1>3, <1>5, PersistKeeps
  <2> QED
    BY <1>1, <1>2, <1>5, <2>1, GoesOnMaking DEF Goes
<1> QED
  BY <1>7, <1>8 DEF LeftInv

\* What an undo may do to its path.
LEMMA UndoMoves ==
    ASSUME TypeInv, EditsInv, RollInv, LeftInv, Undo
    PROVE  Moved /\ \A d \in spare \ spare' : disk'[d] = Journal.before[d]
<1>1. run # Idle /\ Head(run.todo).do = "undo"
  BY DoingIsBusy DEF Undo
<1>2. On \in Dests /\ On \in Changed(Journal) /\ Journal \in JournalType /\ Current \in 1..MaxPreviews
  BY <1>1, AtPath, Busy
<1>3. disk \in [Dests -> Entries] /\ IsTree(disk) /\ IsTree(Journal.before) /\ Journal.before \in [Dests -> Entries]
  BY <1>2 DEF LeftInv, TreeInv, Journal, TypeInv, TypeOK, JournalType
<1>4. CASE disk' = disk /\ spare' = spare
  BY <1>4 DEF Moved
<1>5. ASSUME disk' = [disk EXCEPT ![On] = Journal.before[On]],
             Journal.before[On] # Absent => IsDir(Parent[On]),
             On \in Dirs /\ Journal.before[On] = Absent /\ disk[On] # Absent => Empty(On)
      PROVE  Moved /\ disk'[On] = Journal.before[On]
  <2>1. Becomes(On, Journal.before[On])
    BY <1>2, <1>3, <1>5 DEF Becomes, IsTree
  <2>2. Moves(On, Journal.before[On]) /\ Journal.before[On] \in Entries
    BY <1>2, <1>3, <2>1 DEF Moves
  <2> QED
    BY <1>2, <1>3, <1>5, <2>2 DEF Moved
<1>6. CASE RestoreDirectory(Journal, On)
  <2>1. CASE /\ disk[On] = Absent /\ IsDir(Parent[On])
             /\ disk' = [disk EXCEPT ![On] = Journal.before[On]] /\ spare' = spare \ {On}
    BY <1>5, <2>1
  <2>2. CASE UNCHANGED <<disk, spare>>
    BY <1>4, <2>2
  <2> QED
    BY <1>6, <2>1, <2>2 DEF RestoreDirectory
<1>7. CASE UndoDirectory(Journal, On)
  <2>1. CASE /\ IF Journal.before[On] # Absent THEN disk[On] = Journal.before[On]
                ELSE disk[On] # Absent => Empty(On)
             /\ disk' = [disk EXCEPT ![On] = Journal.before[On]] /\ spare' = spare
    <3>1. CASE Journal.before[On] # Absent
      <4>1. disk' = disk
        BY <1>3, <2>1, <3>1
      <4> QED
        BY <1>4, <2>1, <4>1
    <3>2. CASE Journal.before[On] = Absent
      BY <1>5, <2>1, <3>2
    <3> QED
      BY <3>1, <3>2
  <2>2. CASE UNCHANGED <<disk, spare>>
    BY <1>4, <2>2
  <2> QED
    BY <1>7, <2>1, <2>2 DEF UndoDirectory
<1>8. CASE UndoFile(Journal, On) /\ On \notin Dirs
  <2>1. CASE /\ Journal.before[On] # Absent => IsDir(Parent[On])
             /\ disk' = [disk EXCEPT ![On] = Journal.before[On]] /\ spare' = spare
    BY <1>5, <1>8, <2>1
  <2>2. CASE UNCHANGED <<disk, spare>>
    BY <1>4, <2>2
  <2> QED
    BY <1>8, <2>1, <2>2 DEF UndoFile
<1> QED
  BY <1>6, <1>7, <1>8 DEF Undo, UndoChange

\* A path goes back, by way of its backup where it was a directory.
LEMMA UndoLeft ==
    ASSUME TypeInv, EditsInv, RollInv, LeftInv, Undo
    PROVE  LeftInv'
<1>1. /\ run # Idle /\ run.op = "recover" /\ Head(run.todo).do = "undo"
      /\ UNCHANGED <<extra, previews, touched, journals>>
  BY DoingIsBusy DEF Undo
<1>2. Head(run.todo).do # "open" /\ Head(run.todo).do \notin Ends /\ Littered
  BY <1>1 DEF Ends, Littered
<1>3. Goes
  BY <1>1, <1>2, UndoSteps DEF UndoStep, Goes, Abort
<1>4. Journal \in JournalType /\ Journal.phase # "torn" /\ SamePlan(Journal, Journal)
  BY <1>1, <1>2, Busy, CommandLive DEF Live, SamePlan
<1>5. TreeInv' /\ PlansFit' /\ Prepareds' /\ Untouched'
  BY <1>1, <1>2, <1>4, UndoMoves, RunsLeft
<1>6. Making'
  <2>1. journals'[Current] = Journal
    BY <1>1 DEF Journal
  <2> QED
    BY <1>1, <1>2, <1>3, <1>4, <2>1, GoesOnMaking DEF Goes
<1> QED
  BY <1>5, <1>6 DEF LeftInv

\* A parent the journal owns goes when it is empty.
LEMMA RemoveParentLeft ==
    ASSUME TypeInv, EditsInv, RollInv, LeftInv, RemoveParent
    PROVE  LeftInv'
<1>1. /\ run # Idle /\ run.op = "recover" /\ Head(run.todo).do = "rmdir"
      /\ UNCHANGED <<extra, spare, previews, touched, journals>>
  BY DoingIsBusy DEF RemoveParent
<1>2. Head(run.todo).do # "open" /\ Littered /\ On \in Dests
  BY <1>1, AtPath DEF Littered
<1>3. Goes
  BY <1>1 DEF RemoveParent, Abort, Goes, Ends
<1>4. Moved
  <2>1. CASE disk[On] = Absent \/ Empty(On)
    <3>1. On \in Range(Journal.parents)
      BY <1>1, AtPath DEF RollInv, Progress, Recovering
    <3>2. CASE disk' = [disk EXCEPT ![On] = Absent]
      <4>1. Becomes(On, Absent)
        BY <2>1, <3>2 DEF Becomes
      <4>2. Moves(On, Absent)
        BY <3>1, <4>1 DEF Moves
      <4> QED
        BY <1>2, <4>2, DirsEntries DEF Moved
    <3> QED
      BY <3>2 DEF RemoveParent, Moved
  <2>2. CASE ~(disk[On] = Absent \/ Empty(On))
    BY <2>2 DEF RemoveParent, Moved
  <2> QED
    BY <2>1, <2>2
<1> QED
  BY <1>1, <1>2, <1>3, <1>4, QuietLeft

-----------------------------------------------------------------------------
(* The journal is written                                                  *)

LEMMA SameLeft ==
    ASSUME LeftInv, UNCHANGED <<disk, extra, spare, previews, journals, touched>>, Making'
    PROVE  LeftInv'
BY DEF LeftInv, TreeInv, PlansFit, PlanFits, Children, Prepareds, Untouched

\* A journal opened now finds the tree as it writes it down.
LEMMA NewLeft ==
    ASSUME TypeInv, EditsInv, RollInv, LeftInv, run # Idle, Head(run.todo).do = "open",
           UNCHANGED <<disk, extra, spare, previews>>,
           NEW j \in JournalType, Persist(j), IsTree(j.before), KeepsKinds(j),
           Live(j) => /\ AsLeft(j, disk, spare)
                      /\ AsPrepared(j, Preview) => Enclosed(j, extra)
    PROVE  TreeInv' /\ PlansFit' /\ Prepareds' /\ Untouched'
<1>1. run.op = "apply" /\ Incomplete = {}
  BY OpenAlone
<1>2. Current = run.id /\ Current \in 1..MaxPreviews /\ Current \in DOMAIN previews /\ Preview = previews[Current]
  BY <1>1, Busy DEF Current, Preview
<1>3. journals'[Current] = j /\ \A i \in 1..MaxPreviews : i # Current => journals'[i] = journals[i]
  BY PersistKeeps
<1>4. TreeInv'
  BY <1>3 DEF LeftInv, TreeInv
<1>5. PlansFit'
  BY DEF LeftInv, PlansFit, PlanFits, Children
<1>6. Prepareds'
  BY <1>2, <1>3 DEF LeftInv, Prepareds
<1>7. Untouched'
  <2> SUFFICES ASSUME NEW i \in 1..MaxPreviews, Live(journals'[i])
               PROVE  /\ AsLeft(journals'[i], disk, spare)
                      /\ AsPrepared(journals'[i], previews[i]) => Enclosed(journals'[i], extra)
    BY DEF Untouched
  <2>1. i = Current
    BY <1>1, <1>3 DEF Live, Incomplete
  <2> QED
    BY <1>2, <1>3, <2>1
<1> QED
  BY <1>4, <1>5, <1>6, <1>7

\* The journal begins with the tree as it is, and, if it was prepared for
\* this tree, encloses it.
LEMMA PreparedLeft ==
    ASSUME TypeInv, LeftInv, run # Idle, run.op = "apply", Preview.plan \in Plans,
           Preview.plan.update => disk = Preview.seen
    PROVE  /\ AsLeft(Prepared(Preview.plan), disk, spare)
           /\ AsPrepared(Prepared(Preview.plan), Preview) => Enclosed(Prepared(Preview.plan), extra)
           /\ IsTree(Prepared(Preview.plan).before) /\ KeepsKinds(Prepared(Preview.plan))
<1> DEFINE plan == Preview.plan
           j == Prepared(plan)
<1>1. /\ j \in JournalType /\ Changed(j) = Range(plan.order) /\ j.before = disk /\ j.after = plan.after
      /\ j.parents = Missing(plan) /\ j.restoring = {}
  BY PreparedTyped
<1>2. j.extra = IF plan.update THEN extra ELSE [d \in Dirs |-> {}]
  BY DEF Prepared, NoJournal
<1>3. /\ Range(plan.order) \subseteq Dests /\ WellOrdered(plan)
      /\ Range(Missing(plan)) = Range(plan.parents) \cap {d \in Dirs : disk[d] = Absent}
  BY PlanTyped, MissingTyped, RangeOf
<1>4. PlanFits(plan, Preview.seen)
  BY Busy DEF LeftInv, PlansFit, Preview
<1>5. /\ IsTree(disk) /\ Grounded(disk, extra) /\ extra \in [Dirs -> SUBSET {"file", "scratch"}]
      /\ Dirs \subseteq Dests /\ Root \notin Dests /\ Absent \notin {Dir, Found}
  BY ForkAssumption DEF LeftInv, TreeInv, TypeInv, TypeOK
<1>6. plan.update => disk = Preview.seen
  OBVIOUS
<1>7. Known(j) = Range(plan.order) \cup Range(Missing(plan))
  BY <1>1 DEF Known
<1> HIDE DEF j, plan
<1>8. AsLeft(j, disk, spare)
  BY <1>1, <1>3 DEF AsLeft
<1>9. IsTree(j.before) /\ KeepsKinds(j)
  BY <1>1, <1>3, <1>5 DEF KeepsKinds, WellOrdered
<1>10. ASSUME AsPrepared(j, Preview) PROVE Enclosed(j, extra)
  <2> SUFFICES ASSUME NEW d \in Known(j) \cap Dirs
               PROVE  /\ extra[d] \subseteq j.extra[d] \cup {"scratch"}
                      /\ \A c \in Children(d) : disk[c] # Absent => c \in Known(j)
    BY <1>1 DEF Enclosed
  <2>1. disk[d] = Preview.seen[d]
    BY <1>1, <1>10 DEF AsPrepared
  <2>2. ~plan.update => disk[d] = Absent
    BY <1>3, <1>4, <1>7, <2>1 DEF PlanFits
  <2>3. extra[d] \subseteq j.extra[d] \cup {"scratch"}
    BY <1>2, <1>5, <2>2 DEF Grounded
  <2>4. ASSUME NEW c \in Children(d), disk[c] # Absent PROVE c \in Known(j)
    <3>1. c \in Dests /\ Parent[c] = d /\ d # Root
      BY <1>5 DEF Children
    <3>2. disk[d] \in {Dir, Found}
      BY <1>5, <2>4, <3>1 DEF IsTree
    <3>3. plan.update /\ d \in Range(plan.order)
      BY <1>3, <1>5, <1>7, <2>2, <3>2
    <3>4. Preview.seen[c] # Absent
      BY <1>6, <2>4, <3>3
    <3> QED
      BY <1>4, <1>7, <2>4, <3>3, <3>4 DEF PlanFits
  <2> QED
    BY <2>3, <2>4
<1> QED
  BY <1>8, <1>9, <1>10 DEF j, plan

\* Apply opens its journal: the two ways it does, and the ways it refuses.
LEMMA OpenLeft ==
    ASSUME TypeInv, EditsInv, RollInv, LeftInv, Open
    PROVE  LeftInv'
<1>1. /\ run # Idle /\ run.op = "apply" /\ Head(run.todo).do = "open"
      /\ UNCHANGED <<disk, extra, spare, previews>>
  BY DoingIsBusy DEF Open
<1>2. Preview.plan \in Plans /\ Current = run.id
  BY <1>1, Busy DEF PreviewType, Current
<1>3. CASE /\ Preview.plan.update => disk = Preview.seen
           /\ Persist(Prepared(Preview.plan)) /\ run' = [run EXCEPT !.todo = ApplyTasks(Preview.plan)]
  <2> DEFINE plan == Preview.plan
             j == Prepared(plan)
  <2>1. /\ j \in JournalType /\ j.before = disk /\ j.after = plan.after /\ Changed(j) = Range(plan.order)
        /\ j.parents = Missing(plan) /\ j.restoring = {}
    BY <1>2, PreparedTyped
  <2>2. TreeInv' /\ PlansFit' /\ Prepareds' /\ Untouched'
    BY <1>1, <1>2, <1>3, <2>1, PreparedLeft, NewLeft
  <2>3. run'.id = run.id /\ run'.op = "apply" /\ run'.todo = ApplyTasks(plan) /\ run'.step = run.step
    BY <1>1, <1>3 DEF TypeInv, TypeOK
  <2>4. Journal' = j
    <3>1. Current' = Current
      BY <1>1, <1>2, <2>3 DEF Current
    <3> QED
      BY <1>1, <1>3, <2>1, <3>1, PersistKeeps DEF Journal
  <2>5. run.step # "act"
    BY <1>1, OpenAlone
  <2>6. Left(ApplyTasks(plan), "mkdir") \subseteq Claimed(j)
    <3>1. Left(ApplyTasks(plan), "mkdir")
            = Range(Missing(plan)) \cup {d \in Range(plan.order) : plan.after[d] = Dir /\ disk[d] = Absent}
      BY <1>2, ApplyDoes
    <3>2. \A d \in Range(plan.order) : plan.after[d] = Dir => d \in Dirs
      BY <1>2, PlanTyped, RangeOf
    <3> QED
      BY <2>1, <3>1, <3>2 DEF Claimed
  <2>7. Making'
    <3> HIDE DEF j, plan
    <3> QED
      BY <2>1, <2>3, <2>4, <2>5, <2>6 DEF Making, Claimed, Changed
  <2> QED
    BY <2>2, <2>7 DEF LeftInv
<1>4. CASE Abort /\ UNCHANGED <<journals, touched>>
  BY <1>1, <1>4, SameLeft DEF Abort, Making
<1> QED
  BY <1>3, <1>4 DEF Open, Prepared

-----------------------------------------------------------------------------
(* Failures                                                                *)

\* The journal is torn.
LEMMA TornLeft ==
    ASSUME TypeInv, EditsInv, RollInv, LeftInv, run # Idle, run' = Idle, Head(run.todo).do = "open",
           UNCHANGED <<disk, extra, spare, previews>>, Persist([NoJournal EXCEPT !.phase = "torn"])
    PROVE  LeftInv'
<1> DEFINE k == [NoJournal EXCEPT !.phase = "torn"]
<1>1. NoJournal \in JournalType /\ Changed(NoJournal) = {} /\ NoJournal.before = Start /\ IsTree(Start)
  BY NoJournalTyped, ForkAssumption DEF NoJournal
<1>2. k \in JournalType /\ k.phase = "torn" /\ k.order = NoJournal.order /\ k.before = Start
  BY <1>1 DEF JournalType
<1>3. Persist(k)
  OBVIOUS
<1> HIDE DEF k
<1>4. KeepsKinds(k) /\ ~Live(k)
  BY <1>1, <1>2 DEF KeepsKinds, Changed, Live
<1>5. TreeInv' /\ PlansFit' /\ Prepareds' /\ Untouched'
  BY <1>1, <1>2, <1>3, <1>4, NewLeft
<1> QED
  BY <1>5 DEF LeftInv, Making

\* What a failed or interrupted step leaves.
LEMMA RemainsLeft ==
    ASSUME TypeInv, EditsInv, RollInv, LeftInv, run # Idle, run' = Idle,
           UNCHANGED <<spare, previews, touched>>, Remains(Head(run.todo).do), Littered,
           Head(run.todo).do = "open" => extra' = extra
    PROVE  LeftInv'
<1>1. Goes /\ Making'
  BY DEF Goes, Making
<1>2. CASE Head(run.todo).do = "open"
  <2>1. CASE UNCHANGED <<disk, journals>>
    BY <1>1, <1>2, <2>1, SameLeft
  <2>2. CASE Persist([NoJournal EXCEPT !.phase = "torn"]) /\ UNCHANGED disk
    BY <1>2, <2>2, TornLeft
  <2> QED
    BY <1>2, <2>1, <2>2 DEF Remains
<1>3. CASE Head(run.todo).do # "open" /\ UNCHANGED <<disk, journals>>
  BY <1>1, <1>3, QuietLeft DEF Moved
<1>4. CASE /\ Head(run.todo).do = "put" /\ run.step = "act" /\ Journal.before[On] = Absent
           /\ IsDir(Parent[On]) /\ disk' = [disk EXCEPT ![On] = Journal.after[On]] /\ UNCHANGED journals
  <2>1. run.op = "apply"
    BY <1>4, Busy DEF Fitting, TasksOf
  <2>2. Moved
    BY <1>4, <2>1, Promotes, ForkAssumption
  <2> QED
    BY <1>1, <1>4, <2>2, QuietLeft
<1> QED
  BY <1>2, <1>3, <1>4 DEF Remains

\* An error in the middle of a step leaves one of its sides.
LEMMA FaultLeft ==
    ASSUME TypeInv, EditsInv, RollInv, LeftInv, Fault
    PROVE  LeftInv'
<1>1. run # Idle /\ run' = Idle /\ UNCHANGED <<extra, spare, previews, touched>>
  BY DEF Fault, Abort
<1>2. CASE Remains(Head(run.todo).do)
  BY <1>1, <1>2, RemainsLeft DEF Littered
<1>3. CASE /\ Doing("apply", "mkdir")
           /\ disk' = [disk EXCEPT ![On] = IF @ = Dir /\ Empty(On) THEN Absent ELSE @]
           /\ UNCHANGED journals \/ Persist([Journal EXCEPT !.owned = @ \cup {On}])
  <2>1. run.op = "apply" /\ Head(run.todo).do = "mkdir" /\ Head(run.todo).do # "open"
    BY <1>3, DoingIsBusy
  <2>2. On \in Dirs /\ On \in Dests /\ disk \in [Dests -> Entries]
    BY <1>1, <2>1, MakesDirectory DEF TypeInv, TypeOK
  <2>3. Moved
    <3>1. CASE disk[On] = Dir /\ Empty(On)
      <4>1. Becomes(On, Absent)
        BY <1>3, <3>1 DEF Becomes
      <4>2. Moves(On, Absent)
        BY <1>1, <2>1, <4>1, MakesDirectory DEF Moves
      <4> QED
        BY <2>2, <4>2, DirsEntries DEF Moved
    <3>2. CASE ~(disk[On] = Dir /\ Empty(On))
      BY <1>3, <2>2, <3>2 DEF Moved
    <3> QED
      BY <3>1, <3>2
  <2>4. Littered /\ Goes
    BY <1>1 DEF Littered, Goes
  <2>5. CASE UNCHANGED journals
    BY <1>1, <2>1, <2>3, <2>4, <2>5, QuietLeft
  <2>6. CASE Persist([Journal EXCEPT !.owned = @ \cup {On}])
    <3> DEFINE k == [Journal EXCEPT !.owned = @ \cup {On}]
    <3>1. Journal \in JournalType /\ Journal.phase # "torn"
      BY <1>1, <2>1, Busy, CommandLive DEF Live
    <3>2. k \in JournalType /\ SamePlan(Journal, k) /\ k.phase # "torn" /\ k.restoring = Journal.restoring
      BY <2>2, <3>1 DEF JournalType, SamePlan
    <3>3. Persist(k)
      BY <2>6
    <3> HIDE DEF k
    <3> QED
      BY <1>1, <2>1, <2>3, <2>4, <3>2, <3>3, StepLeft
  <2> QED
    BY <1>3, <2>5, <2>6
<1> QED
  BY <1>2, <1>3 DEF Fault

\* So does a crash, with a scratch file perhaps.
LEMMA CrashLeft ==
    ASSUME TypeInv, EditsInv, RollInv, LeftInv, Crash
    PROVE  LeftInv'
<1>1. /\ run # Idle /\ run' = Idle /\ UNCHANGED <<spare, previews, touched>>
      /\ Remains(Head(run.todo).do)
  BY DEF Crash
<1>2. CASE ~HasScratch
  BY <1>1, <1>2, RemainsLeft DEF Crash, Littered
<1>3. CASE HasScratch
  <2>1. Head(run.todo).do = "undo" /\ Parent[On] # Root /\ IsDir(Parent[On])
    BY <1>3, DoingIsBusy DEF HasScratch
  <2>2. Parent[On] \in Dirs
    BY <1>1, <2>1, AtPath, ForkAssumption
  <2>3. disk' = disk
    BY <1>1, <2>1 DEF Remains
  <2>4. Littered
    BY <1>3, <2>1, <2>2, <2>3 DEF Crash, Littered, IsDir
  <2> QED
    BY <1>1, <2>1, <2>4, RemainsLeft
<1> QED
  BY <1>2, <1>3

-----------------------------------------------------------------------------
(* Before and beside the commands                                          *)

LEMMA LeftInit == Init => LeftInv
<1> SUFFICES ASSUME Init PROVE LeftInv
  OBVIOUS
<1>1. Changed(NoJournal) = {} /\ NoJournal.phase = "none" /\ NoJournal.before = Start
  BY NoJournalTyped DEF NoJournal
<1>2. journals = [i \in 1..MaxPreviews |-> NoJournal] /\ disk = Start /\ previews = <<>> /\ run = Idle
      /\ extra = [d \in Dirs |-> {}]
  BY DEF Init
<1>3. TreeInv
  BY <1>1, <1>2, ForkAssumption DEF TreeInv, Grounded, KeepsKinds
<1>4. PlansFit
  BY <1>2 DEF PlansFit
<1>5. Prepareds /\ Untouched
  BY <1>1, <1>2 DEF Prepareds, Untouched, Live, Ended
<1> QED
  BY <1>2, <1>3, <1>4, <1>5 DEF LeftInv, Making

\* A command begins.
LEMMA BeginsLeft ==
    ASSUME TypeInv, RollInv, LeftInv, NEW i \in DOMAIN previews, Apply(i) \/ ApplyRecovery(i)
    PROVE  LeftInv'
<1>1. PICK op, todo : Begin(op, i, todo) /\ (op = "apply" => todo = Task("open"))
  BY DEF Apply, ApplyRecovery
<1>2. /\ run' = [op |-> op, id |-> i, todo |-> todo, step |-> "check"]
      /\ UNCHANGED <<disk, extra, spare, previews, journals, touched>>
  BY <1>1 DEF Begin
<1>3. Making'
  <2>1. Head(Task("open")).do = "open"
    BY DEF Task
  <2> QED
    BY <1>1, <1>2, <2>1 DEF Making
<1> QED
  BY <1>2, <1>3, SameLeft

\* One more preview.
LEMMA PreviewLeft ==
    ASSUME TypeInv, LeftInv, NEW p \in PreviewType, Len(previews) < MaxPreviews, previews' = Append(previews, p),
           p.kind = "apply" => PlanFits(p.plan, p.seen),
           UNCHANGED <<disk, extra, spare, journals, run, touched>>
    PROVE  LeftInv'
<1>1. /\ \A i \in DOMAIN previews : i \in DOMAIN previews' /\ previews'[i] = previews[i]
      /\ DOMAIN previews' = DOMAIN previews \cup {Len(previews) + 1} /\ previews'[Len(previews) + 1] = p
      /\ run # Idle => Current' = Current
  BY PreviewKeeps
<1>2. TreeInv'
  BY DEF LeftInv, TreeInv
<1>3. PlansFit'
  <2>1. ASSUME NEW i \in DOMAIN previews', previews'[i].kind = "apply"
        PROVE  PlanFits(previews'[i].plan, previews'[i].seen)
    BY <1>1, <2>1 DEF LeftInv, PlansFit
  <2> QED
    BY <2>1 DEF PlansFit, PlanFits, Children
<1>4. Prepareds'
  BY <1>1 DEF LeftInv, Prepareds
<1>5. Untouched'
  <2>1. ASSUME NEW i \in 1..MaxPreviews, Live(journals[i]) PROVE previews'[i] = previews[i]
    BY <1>1, <2>1 DEF LeftInv, Prepareds, Live, Ended
  <2> QED
    BY <2>1 DEF LeftInv, Untouched
<1>6. Making'
  <2>1. run # Idle => Journal' = Journal /\ On' = On
    BY <1>1 DEF Journal, On
  <2> QED
    BY <2>1 DEF LeftInv, Making, Claimed, Changed
<1> QED
  BY <1>2, <1>3, <1>4, <1>5, <1>6 DEF LeftInv

\* A preview is prepared for a plan that fits the tree it looked at.
LEMMA PreparesLeft ==
    ASSUME TypeInv, LeftInv,
           (\E plan \in Plans : Prepare(plan)) \/ (\E i \in 1..MaxPreviews : PlanRollback(i))
    PROVE  LeftInv'
<1>1. ASSUME NEW plan \in Plans, Prepare(plan) PROVE LeftInv'
  <2> DEFINE p == [kind |-> "apply", plan |-> plan, seen |-> disk, extra |-> extra]
  <2>1. p \in PreviewType
    BY DEF PreviewType, TypeInv, TypeOK
  <2>2. PlanFits(plan, disk)
    BY <1>1 DEF Prepare, Fits, PlanFits
  <2>3. /\ Len(previews) < MaxPreviews /\ previews' = Append(previews, p)
        /\ UNCHANGED <<disk, extra, spare, journals, run, touched>>
    BY <1>1 DEF Prepare
  <2>4. p.kind = "apply" => PlanFits(p.plan, p.seen)
    BY <2>2
  <2> HIDE DEF p
  <2> QED
    BY <2>1, <2>3, <2>4, PreviewLeft
<1>2. ASSUME NEW i \in 1..MaxPreviews, PlanRollback(i) PROVE LeftInv'
  <2> DEFINE p == [kind |-> "recover", of |-> i, journal |-> journals[i], seen |-> disk, staged |-> staged]
  <2>1. p \in PreviewType /\ p.kind # "apply"
    BY DEF PreviewType, TypeInv, TypeOK
  <2>2. /\ Len(previews) < MaxPreviews /\ previews' = Append(previews, p)
        /\ UNCHANGED <<disk, extra, spare, journals, run, touched>>
    BY <1>2 DEF PlanRollback
  <2> HIDE DEF p
  <2> QED
    BY <2>1, <2>2, PreviewLeft
<1> QED
  BY <1>1, <1>2

\* An editor keeps the tree a tree, and touches what it changes.
LEMMA EditorsLeft ==
    ASSUME TypeInv, LeftInv,
           \/ \E d \in Dests, c \in Edits \cup {Absent} : EditFile(d, c)
           \/ \E d \in Dirs : EditDirectory(d) \/ EditExtra(d, {}) \/ EditExtra(d, {"file"})
    PROVE  LeftInv'
<1>1. UNCHANGED <<previews, journals, run, spare>> /\ touched' # {}
  BY DEF EditFile, EditDirectory, EditExtra
<1>2. IsTree(disk') /\ Grounded(disk', extra')
  <2>1. ASSUME NEW d \in Dests, NEW c \in Edits \cup {Absent}, EditFile(d, c)
        PROVE  IsTree(disk') /\ Grounded(disk', extra')
    <3>1. c \in Entries /\ c \notin {Dir, Found}
      BY DirsEntries, ForkAssumption
    <3>2. Becomes(d, c)
      BY <2>1, <3>1 DEF EditFile, Becomes
    <3> QED
      BY <2>1, <3>1, <3>2, BecomesTree DEF EditFile, LeftInv
  <2>2. ASSUME NEW d \in Dirs, EditDirectory(d) PROVE IsTree(disk') /\ Grounded(disk', extra')
    <3>1. /\ d \in Dests /\ d # Root /\ Found # Absent /\ Absent \in Entries /\ Found \in Entries
          /\ disk[d] # Absent => IsDir(d)
      BY DirsEntries, ForkAssumption DEF LeftInv, TreeInv, IsTree, IsDir
    <3>2. Becomes(d, IF IsDir(d) THEN Absent ELSE Found)
      BY <2>2, <3>1 DEF EditDirectory, Becomes
    <3> QED
      BY <2>2, <3>1, <3>2, BecomesTree DEF EditDirectory, LeftInv
  <2>3. ASSUME NEW d \in Dirs, NEW es \in {{}, {"file"}}, EditExtra(d, es) PROVE IsTree(disk') /\ Grounded(disk', extra')
    <3>1. disk[d] \in {Dir, Found} /\ disk' = disk /\ \A c \in Dirs : c # d => extra'[c] = extra[c]
      BY <2>3, ForkAssumption DEF EditExtra, IsDir, TypeInv, TypeOK
    <3> QED
      BY <3>1 DEF LeftInv, TreeInv, Grounded
  <2> QED
    BY <2>1, <2>2, <2>3
<1>3. TreeInv' /\ PlansFit' /\ Prepareds' /\ Untouched'
  BY <1>1, <1>2 DEF LeftInv, TreeInv, PlansFit, PlanFits, Children, Prepareds, Untouched
<1>4. Making'
  <2>1. Journal' = Journal /\ On' = On
    BY <1>1 DEF Journal, Current, Preview, On
  <2> QED
    BY <1>1, <2>1 DEF LeftInv, Making, Claimed, Changed
<1> QED
  BY <1>3, <1>4 DEF LeftInv

\* Every step of the program and of its surroundings preserves LeftInv.
LEMMA LeftNext == TypeInv /\ EditsInv /\ RollInv /\ LeftInv /\ [Next]_vars => LeftInv'
<1> SUFFICES ASSUME TypeInv, EditsInv, RollInv, LeftInv, [Next]_vars PROVE LeftInv'
  OBVIOUS
<1>1. CASE (\E plan \in Plans : Prepare(plan)) \/ (\E i \in 1..MaxPreviews : PlanRollback(i))
  BY <1>1, PreparesLeft
<1>2. CASE \E i \in DOMAIN previews : Apply(i) \/ ApplyRecovery(i)
  BY <1>2, BeginsLeft
<1>3. CASE Open \/ Mkdir \/ Stage \/ StartApplying \/ Put \/ Finish
  BY <1>3, OpenLeft, MkdirLeft, StagingLeft, StartApplyingLeft, PutLeft, EndingLeft
<1>4. CASE PrepareDirectories \/ Unstage \/ Undo \/ RemoveParent \/ Close
  BY <1>4, PrepareDirectoriesLeft, StagingLeft, UndoLeft, RemoveParentLeft, EndingLeft
<1>5. CASE Fault \/ Crash
  BY <1>5, FaultLeft, CrashLeft
<1>6. CASE RemoveLock \/ UNCHANGED vars
  <2>1. UNCHANGED <<disk, extra, spare, previews, journals, run, touched>>
    BY <1>6 DEF RemoveLock, vars
  <2>2. Making'
    <3>1. Journal' = Journal /\ On' = On
      BY <2>1 DEF Journal, Current, Preview, On
    <3> QED
      BY <2>1, <3>1 DEF LeftInv, Making, Claimed, Changed
  <2> QED
    BY <2>1, <2>2, SameLeft
<1>7. CASE \/ \E d \in Dests, c \in Edits \cup {Absent} : EditFile(d, c)
           \/ \E d \in Dirs : EditDirectory(d) \/ EditExtra(d, {}) \/ EditExtra(d, {"file"})
  BY <1>7, EditorsLeft
<1> QED
  BY <1>1, <1>2, <1>3, <1>4, <1>5, <1>6, <1>7 DEF Next

-----------------------------------------------------------------------------
(* What a rollback looks at                                                *)

\* A tree left so, with nothing of a crash in it, is one the recovery
\* accepts.
LEMMA LeftObserved ==
    ASSUME TypeInv, LeftInv, RollInv, NEW i \in 1..MaxPreviews, AsLeft(journals[i], disk, spare),
           Enclosed(journals[i], extra), ~Orphaned(journals[i])
    PROVE  Observations(journals[i])
<1> DEFINE j == journals[i]
<1>1. /\ j \in JournalType /\ WellFormed(j) /\ IsTree(j.before) /\ KeepsKinds(j) /\ IsTree(disk)
  BY DEF TypeInv, TypeOK, RollInv, AllWellFormed, LeftInv, TreeInv
<1>2. /\ Changed(j) \subseteq Dests /\ Range(j.parents) \subseteq Dirs /\ Dirs \subseteq Dests
      /\ Known(j) = Changed(j) \cup Range(j.parents)
  BY <1>1, RangeOf, ForkAssumption DEF JournalType, Changed, Known
<1>3. Absent \notin {Dir, Found} /\ Dir # Found /\ Root \notin Dests
  BY ForkAssumption
<1>4. AsLeft(j, disk, spare) /\ Enclosed(j, extra) /\ ~Orphaned(j)
  OBVIOUS
<1> HIDE DEF j
<1>5. OriginalAncestors(j)
  <2> SUFFICES ASSUME NEW d \in Ancestors, Observe(j.before[d]) = Dir
               PROVE  disk[d] = j.before[d] \/ (d \in Changed(j) /\ j.after[d] = Absent /\ disk[d] = Absent)
    BY DEF OriginalAncestors
  <2>1. d \in Dirs /\ d \in Dests
    BY <1>2, ForkAssumption DEF Ancestors
  <2>2. j.before[d] \in {Dir, Found}
    BY DEF Observe
  <2>3. CASE d \notin Known(j)
    BY <1>4, <2>1, <2>3 DEF AsLeft
  <2>4. CASE d \in Changed(j)
    BY <1>1, <1>3, <1>4, <2>1, <2>2, <2>4 DEF AsLeft, KeepsKinds
  <2>5. d \notin Range(j.parents)
    BY <1>1, <1>3, <2>2 DEF WellFormed
  <2> QED
    BY <1>2, <2>3, <2>4, <2>5
<1>6. \A d \in Claimed(j) : IsDir(d) => d \in j.owned /\ disk[d] = Dir
  <2> SUFFICES ASSUME NEW d \in Claimed(j), IsDir(d) PROVE d \in j.owned /\ disk[d] = Dir
    OBVIOUS
  <2>1. d \in j.owned
    BY <1>4 DEF Orphaned
  <2>2. d \in Dests /\ disk[d] \in {Dir, Found}
    BY <1>2, <1>3 DEF Claimed, IsDir
  <2>3. disk[d] = Dir
    <3>1. CASE d \in Range(j.parents)
      BY <1>3, <1>4, <2>2, <3>1 DEF AsLeft
    <3>2. CASE d \in Changed(j) /\ j.before[d] = Absent /\ j.after[d] = Dir
      BY <1>3, <1>4, <2>2, <3>2 DEF AsLeft
    <3> QED
      BY <3>1, <3>2 DEF Claimed
  <2> QED
    BY <2>1, <2>3
<1>7. \A d \in j.restoring : d \notin spare => disk[d] = j.before[d]
  BY <1>4 DEF AsLeft
<1>8. \A d \in Changed(j) : Observe(disk[d]) \in {Observe(j.before[d]), j.after[d]}
  BY <1>1, <1>4 DEF AsLeft, Observe, WellFormed
<1>9. \A d \in Changed(j) : staged[d] # "part"
  BY <1>4 DEF Orphaned
<1>10. \A d \in Known(j) \cap Dirs :
          IsDir(d) => /\ extra[d] \subseteq j.extra[d]
                      /\ \A c \in Children(d) : disk[c] # Absent => c \in Known(j)
  <2> SUFFICES ASSUME NEW d \in Known(j) \cap Dirs, IsDir(d)
               PROVE  /\ extra[d] \subseteq j.extra[d]
                      /\ \A c \in Children(d) : disk[c] # Absent => c \in Known(j)
    OBVIOUS
  <2>1. extra[d] \subseteq j.extra[d]
    BY <1>4 DEF Enclosed, Orphaned
  <2>2. ASSUME NEW c \in Children(d), disk[c] # Absent PROVE c \in Known(j)
    BY <1>4, <2>2 DEF AsLeft, Enclosed, Children
  <2> QED
    BY <2>1, <2>2
<1>11. Observations(j)
  BY <1>5, <1>6, <1>7, <1>8, <1>9, <1>10 DEF Observations
<1> QED
  BY <1>11 DEF j

\* A transaction that nobody disturbed and that did not finish can be rolled
\* back, wherever it or its recovery stopped, unless a crash left what no
\* recovery accepts (Recoverable): the tree outside the journal is as it
\* was, each path in it is on one of its sides, and the directories it made
\* or changes hold nothing else.
THEOREM RecoverableAlways == Spec => []Recoverable
<1>1. Spec => [](TypeInv /\ EditsInv /\ RollInv /\ LeftInv)
  BY TypeInit, TypeNext, EditsInit, EditsNext, RollInit, RollNext, LeftInit, LeftNext, PTL DEF Spec
<1>2. TypeInv /\ RollInv /\ LeftInv => Recoverable
  <2> SUFFICES ASSUME TypeInv, RollInv, LeftInv, NEW i \in Incomplete,
                      touched = {}, journals[i].phase # "torn",
                      \A d \in Known(journals[i]) : journals[i].before[d] = previews[i].seen[d],
                      ~Orphaned(journals[i])
               PROVE  Observations(journals[i])
    BY DEF Recoverable
  <2>1. i \in 1..MaxPreviews /\ Live(journals[i])
    BY DEF Incomplete, Live
  <2>2. AsLeft(journals[i], disk, spare) /\ Enclosed(journals[i], extra)
    BY <2>1 DEF LeftInv, Untouched, AsPrepared
  <2> QED
    BY <2>1, <2>2, LeftObserved
<1> QED
  BY <1>1, <1>2, PTL

=============================================================================

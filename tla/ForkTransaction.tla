-------------------------- MODULE ForkTransaction --------------------------
(***************************************************************************)
(* plugin-fork-io: a prepared change of forked content is applied path by  *)
(* path under an exclusive lock file and a durable journal                 *)
(* (transactions.py); a journal that did not finish is undone by an        *)
(* explicit recovery, itself prepared first (recovery.py).  Commands fail  *)
(* or die at any point, a dead command's lock is removed by hand, and      *)
(* editors who know no locks change the same paths.                        *)
(*                                                                         *)
(* The ownership lock is taken by every command and never waited for, so   *)
(* one command at a time is in progress and a refused one changes nothing. *)
(* A path's content is opaque; a directory is Dir, or Found when an editor *)
(* made it: the same to observe(), another identity to the rest.           *)
(***************************************************************************)
EXTENDS Naturals, Sequences, SequencesExt

CONSTANTS Dests,      \* the paths of content and tracking
          Dirs,       \* the directories among them
          Tracking,   \* the paths under the state root
          Parent,     \* the directory a path is in, or Root
          Root,       \* a directory nobody changes
          Plans,      \* what may be prepared: see PlanType
          Contents,   \* of files
          Edits,      \* contents an editor saves
          Absent, Dir, Found,
          Start,      \* the tree at first
          MaxPreviews, MaxEdits, MaxFaults, MaxCrashes   \* bounds

Entries == Contents \cup {Absent, Dir, Found}

\* The changes in the order _changes gives them, what each path shall hold,
\* the missing parents, and whether it is an update of what is there or a
\* new fork, whose destinations are free.
PlanType ==
    [order : Seq(Dests), after : [Dests -> Contents \cup {Absent, Dir}], parents : Seq(Dirs),
     update : BOOLEAN]

\* What a file system can hold: an entry is in a directory, and a path that
\* is of a directory holds nothing else.
IsTree(tree) ==
    \A d \in Dests : tree[d] # Absent =>
       /\ d \in Dirs <=> tree[d] \in {Dir, Found}
       /\ Parent[d] # Root => tree[Parent[d]] \in {Dir, Found}

\* The changes of tracking are files and come last; no parent is among the
\* changes; a directory is made or goes, and nothing else becomes one.
WellOrdered(p) ==
    /\ \A k, l \in 1..Len(p.order) : k < l /\ p.order[k] \in Tracking => p.order[l] \in Tracking
    /\ \A k \in 1..Len(p.order) : p.order[k] \in Tracking => p.order[k] \notin Dirs
    /\ \A d \in Dests : p.after[d] # Absent => (d \in Dirs <=> p.after[d] = Dir)
    /\ Range(p.order) \cap Range(p.parents) = {}

ASSUME ForkAssumption ==
    /\ Dirs \subseteq Dests /\ Tracking \subseteq Dests /\ Root \notin Dests
    /\ Parent \in [Dests -> Dirs \cup {Root}]
    /\ Plans \subseteq PlanType
    /\ \A p \in Plans : WellOrdered(p)
    /\ Edits \subseteq Contents
    /\ Contents \cap {Absent, Dir, Found} = {} /\ Absent # Dir /\ Absent # Found /\ Dir # Found
    /\ Start \in [Dests -> Entries] /\ IsTree(Start)
    /\ MaxPreviews \in Nat /\ MaxEdits \in Nat /\ MaxFaults \in Nat /\ MaxCrashes \in Nat

VARIABLES disk,       \* what each path holds
          extra,      \* entries of a directory that no plan names
          staged,     \* the staging file beside each path
          spare,      \* directories staged for a restoration
          lock,       \* "free", "held" or "stale"
          previews,   \* what was prepared, in order
          journals,   \* the transaction of each applied preview
          run,        \* the command in progress
          saved,      \* the last content an editor gave a path (history)
          touched,    \* paths edited since the last journal began (history)
          spent       \* edits, faults and crashes so far

vars == <<disk, extra, staged, spare, lock, previews, journals, run, saved, touched, spent>>

NoJournal ==
    [phase |-> "none", order |-> <<>>, parents |-> <<>>, before |-> Start, after |-> Start,
     extra |-> [d \in Dirs |-> {}], owned |-> {}, restoring |-> {}, completed |-> {}]

Idle == [op |-> "none", id |-> 0, todo |-> <<>>, step |-> "check"]

Init ==
    /\ disk = Start
    /\ extra = [d \in Dirs |-> {}]
    /\ staged = [d \in Dests |-> "none"]
    /\ spare = {}
    /\ lock = "free"
    /\ previews = <<>>
    /\ journals = [i \in 1..MaxPreviews |-> NoJournal]
    /\ run = Idle
    /\ saved = [d \in Dests |-> Absent]
    /\ touched = {}
    /\ spent = [edits |-> 0, faults |-> 0, crashes |-> 0]

Limit == [edits |-> MaxEdits, faults |-> MaxFaults, crashes |-> MaxCrashes]

Spend(what) ==
    /\ spent[what] < Limit[what]
    /\ spent' = [spent EXCEPT ![what] = @ + 1]

-----------------------------------------------------------------------------
(* The tree                                                                *)

\* observe: the identity of a directory is not part of what is seen.
Observe(entry) == IF entry = Found THEN Dir ELSE entry

IsDir(d) == d # Root => disk[d] \in {Dir, Found}

Children(d) == {c \in Dests : Parent[c] = d}

Empty(d) ==
    /\ extra[d] = {}
    /\ \A c \in Children(d) : disk[c] = Absent /\ staged[c] = "none"

Ancestors == {Parent[d] : d \in Dests} \ {Root}

-----------------------------------------------------------------------------
(* Journals                                                                *)

Ended == {"none", "complete", "rolled_back"}

\* incomplete: the journals that block every other mutation.  One that
\* cannot be read blocks everything, its own recovery too.
Incomplete == {i \in 1..MaxPreviews : journals[i].phase \notin Ended}

Readable == \A i \in 1..MaxPreviews : journals[i].phase # "torn"

Changed(j) == Range(j.order)

Known(j) == Changed(j) \cup Range(j.parents)

\* verify_original_ancestors: every directory there at first is still the
\* same one, unless the journal deletes it.
OriginalAncestors(j) ==
    \A d \in Ancestors :
       Observe(j.before[d]) = Dir =>
          \/ disk[d] = j.before[d]
          \/ d \in Changed(j) /\ j.after[d] = Absent /\ disk[d] = Absent

\* _verify_ancestors: and so is every directory the transaction made.
VerifyAncestors(j) == OriginalAncestors(j) /\ \A d \in j.owned : disk[d] = Dir

\* The directories a recovery must be able to call its own.
Claimed(j) ==
    Range(j.parents)
    \cup {d \in Changed(j) \cap Dirs : j.before[d] = Absent /\ j.after[d] = Dir}

\* Mutant: a change counts as made when the journal says it was.
ObservationsByProgress(j) ==
    \A d \in Changed(j) :
       Observe(disk[d]) = Observe(IF d \in j.completed THEN j.after[d] ELSE j.before[d])

\* _observations: everything the journal names is in a state the journal
\* knows, and the directories hold nothing else.
Observations(j) ==
    /\ OriginalAncestors(j)
    /\ \A d \in Claimed(j) : IsDir(d) => d \in j.owned /\ disk[d] = Dir
    /\ \A d \in j.restoring : d \notin spare => disk[d] = j.before[d]
    /\ \A d \in Changed(j) : Observe(disk[d]) \in {Observe(j.before[d]), j.after[d]}
    /\ \A d \in Changed(j) : staged[d] # "part"
    /\ \A d \in Known(j) \cap Dirs :
          IsDir(d) => /\ extra[d] \subseteq j.extra[d]
                      /\ \A c \in Children(d) : disk[c] # Absent => c \in Known(j)

-----------------------------------------------------------------------------
(* Preparing                                                               *)

\* A plan the preparation can come up with for the tree as it is: no path
\* changes between file and directory, a directory that is changed has all
\* it holds among the changes (those that stay as they are too), every path
\* gets its parents.
Fits(plan) ==
    LET changed == Range(plan.order)
    IN  /\ \A d \in changed \cap Dirs :
             /\ \A c \in Children(d) : disk[c] # Absent => c \in changed
             /\ plan.after[d] = Absent => extra[d] = {}
        /\ \A d \in changed : plan.after[d] # Absent =>
             IsDir(Parent[d]) \/ Parent[d] \in changed \cup Range(plan.parents)
        /\ \A d \in Range(plan.parents) : disk[d] = Absent
        /\ ~plan.update => \A d \in changed : disk[d] = Absent

\* A fork, an adoption or an accepted update is prepared without a lock.
Prepare(plan) ==
    /\ Len(previews) < MaxPreviews
    /\ Fits(plan)
    /\ previews' = Append(previews, [kind |-> "apply", plan |-> plan, seen |-> disk,
                                     extra |-> extra])
    /\ UNCHANGED <<disk, extra, staged, spare, lock, journals, run, saved, touched, spent>>

\* plan_rollback, also without a lock: the one incomplete journal is read
\* and every path it names observed.
PlanRollback(i) ==
    /\ Len(previews) < MaxPreviews
    /\ Readable /\ Incomplete = {i}
    /\ Observations(journals[i])
    /\ previews' = Append(previews, [kind |-> "recover", of |-> i, journal |-> journals[i],
                                     seen |-> disk, staged |-> staged])
    /\ UNCHANGED <<disk, extra, staged, spare, lock, journals, run, saved, touched, spent>>

-----------------------------------------------------------------------------
(* Commands: a list of tasks, each a check and what follows it             *)

Tasks(do, ds) == [k \in DOMAIN ds |-> [do |-> do, on |-> ds[k]]]

Task(do) == <<[do |-> do, on |-> Root]>>

\* The members of ds that are in S, in their order.  (SelectSeq, written out
\* so that it can be reasoned about.)
Chosen(ds, S) ==
    LET upto[k \in 0..Len(ds)] ==
          IF k = 0 THEN <<>>
          ELSE IF ds[k] \in S THEN Append(upto[k - 1], ds[k]) ELSE upto[k - 1]
    IN  upto[Len(ds)]

Files(order, after) == Chosen(order, {d \in Dests : after[d] \notin {Absent, Dir}})

\* The directories of the plan that are not there yet.
NewDirs(order, after) == Chosen(order, {d \in Dests : after[d] = Dir /\ disk[d] = Absent})

\* The parents that are missing when the command starts.
Missing(plan) == Chosen(plan.parents, {d \in Dirs : disk[d] = Absent})

\* Every change is promoted in order, tracking after content.
ApplyTasks(plan) ==
    Tasks("mkdir", Missing(plan))
    \o Tasks("mkdir", NewDirs(plan.order, plan.after))
    \o Tasks("stage", Files(plan.order, plan.after))
    \o Task("start") \o Tasks("put", plan.order) \o Task("finish")

\* Mutant: a recovery undoes the changes in the order they were made.
RecoveryTasksForward(j) ==
    Task("prepare") \o Tasks("unstage", Files(j.order, j.after))
    \o Tasks("undo", j.order) \o Tasks("rmdir", Reverse(j.parents)) \o Task("close")

\* Mutant: the parents the transaction made are left behind.
RecoveryTasksKeepParents(j) ==
    Task("prepare") \o Tasks("unstage", Reverse(Files(j.order, j.after)))
    \o Tasks("undo", Reverse(j.order)) \o Task("close")

RecoveryTasks(j) ==
    Task("prepare") \o Tasks("unstage", Reverse(Files(j.order, j.after)))
    \o Tasks("undo", Reverse(j.order)) \o Tasks("rmdir", Reverse(j.parents)) \o Task("close")

\* Begin command op on preview i: the lock file is created exclusively.
Begin(op, i, todo) ==
    /\ run = Idle /\ lock = "free"
    /\ lock' = "held"
    /\ run' = [op |-> op, id |-> i, todo |-> todo, step |-> "check"]
    /\ UNCHANGED <<disk, extra, staged, spare, previews, journals, saved, touched, spent>>

\* apply_preview: a preview is applied once, never beside an incomplete
\* journal, and only if revalidate finds everything as it was.
Apply(i) ==
    LET p == previews[i]
    IN  /\ p.kind = "apply"
        /\ journals[i].phase = "none"
        /\ Incomplete = {}
        /\ disk = p.seen /\ extra = p.extra
        /\ Begin("apply", i, Task("open"))

\* apply_recovery: the journal and all it names are as they were prepared.
ApplyRecovery(i) ==
    LET p == previews[i]
        j == journals[p.of]
    IN  /\ p.kind = "recover"
        /\ j.phase \notin Ended
        /\ j = p.journal
        /\ \A d \in Known(j) \cup Ancestors : disk[d] = p.seen[d]
        /\ Observations(j)
        /\ \A d \in Changed(j) : staged[d] = p.staged[d]
        /\ Begin("recover", i, RecoveryTasks(j))

Doing(op, do) == run.op = op /\ run.todo # <<>> /\ Head(run.todo).do = do

On == Head(run.todo).on

Preview == previews[run.id]

\* The journal the command works on.
Current == IF run.op = "recover" THEN Preview.of ELSE run.id

Journal == journals[Current]

Advance == run' = [run EXCEPT !.todo = Tail(@), !.step = "check"]

Proceed(step) == run' = [run EXCEPT !.step = step]

\* Mutant: the exception leaves the lock file.
AbortLocked ==
    /\ run' = Idle
    /\ UNCHANGED lock

\* An exception, or the end: the lock file is unlinked.
Abort ==
    /\ run' = Idle
    /\ lock' = "free"

Persist(j) == journals' = [journals EXCEPT ![Current] = j]

-----------------------------------------------------------------------------
(* Applying                                                                *)

\* _changes and the prepared journal, which is the intent and the backup.
\* An update compares the content once more with what the preview saw, and
\* its journal also names the files that stay as they are.
Open ==
    LET plan == Preview.plan
        same == disk = Preview.seen /\ extra = Preview.extra
    IN  /\ Doing("apply", "open")
        /\ \/ /\ plan.update => same
              /\ Persist([NoJournal EXCEPT !.phase = "prepared", !.order = plan.order,
                                           !.parents = Missing(plan), !.before = disk,
                                           !.after = plan.after,
                                           !.extra = IF plan.update THEN extra ELSE @])
              /\ touched' = {}
              /\ run' = [run EXCEPT !.todo = ApplyTasks(plan)]
              /\ UNCHANGED lock
           \/ /\ plan.update /\ ~same
              /\ Abort
              /\ UNCHANGED <<journals, touched>>
        /\ UNCHANGED <<disk, extra, staged, spare, previews, saved, spent>>

\* _make_directory: the directory first, its identity in the journal after.
Mkdir ==
    /\ Doing("apply", "mkdir")
    /\ \/ /\ run.step = "check"
          /\ VerifyAncestors(Journal) /\ disk[On] = Absent /\ IsDir(Parent[On])
          /\ disk' = [disk EXCEPT ![On] = Dir]
          /\ Proceed("note")
          /\ UNCHANGED <<lock, journals>>
       \/ /\ run.step = "check"
          /\ ~(VerifyAncestors(Journal) /\ disk[On] = Absent /\ IsDir(Parent[On]))
          /\ Abort
          /\ UNCHANGED <<disk, journals>>
       \/ /\ run.step = "note"
          /\ Persist([Journal EXCEPT !.owned = @ \cup {On},
                                     !.completed = @ \cup ({On} \cap Changed(Journal))])
          /\ Advance
          /\ UNCHANGED <<disk, lock>>
    /\ UNCHANGED <<extra, staged, spare, previews, saved, touched, spent>>

Stage ==
    /\ Doing("apply", "stage")
    /\ \/ /\ VerifyAncestors(Journal) /\ IsDir(Parent[On])
          /\ staged' = [staged EXCEPT ![On] = "whole"]
          /\ Advance
          /\ UNCHANGED lock
       \/ ~(VerifyAncestors(Journal) /\ IsDir(Parent[On])) /\ Abort /\ UNCHANGED staged
    /\ UNCHANGED <<disk, extra, spare, previews, journals, saved, touched, spent>>

StartApplying ==
    /\ Doing("apply", "start")
    /\ Persist([Journal EXCEPT !.phase = "applying"])
    /\ Advance
    /\ UNCHANGED <<disk, extra, staged, spare, lock, previews, saved, touched, spent>>

\* _verify_content: the content directories hold what they shall, no more.
VerifyContent(j) ==
    /\ \A d \in Changed(j) \ Tracking : Observe(disk[d]) = j.after[d]
    /\ \A d \in (Dirs \cap Changed(j)) \ Tracking : IsDir(d) => extra[d] = j.extra[d]

\* Before tracking is promoted, all that went before is looked at again.
Promotable(j, d) ==
    /\ VerifyAncestors(j)
    /\ d \in Tracking =>
          /\ VerifyContent(j)
          /\ \A c \in {j.order[k] : k \in {n \in DOMAIN j.order : d \in Range(SubSeq(j.order, n + 1, Len(j.order)))}} :
                Observe(disk[c]) = j.after[c]

\* Mutant: the destination is replaced whatever it has become.
CheckAnything(j, d) == TRUE

\* The destination is still what the journal has a backup of; a directory
\* is already there, made above or found.
Unmoved(j, d) ==
    Observe(disk[d]) = IF j.after[d] = Dir THEN Dir ELSE Observe(j.before[d])

Put ==
    LET j == Journal
        d == On
        isDir == j.before[d] \in {Dir, Found}
        fails == \/ j.after[d] # Absent /\ j.before[d] = Absent /\ disk[d] # Absent
                 \/ j.after[d] # Absent /\ ~(VerifyAncestors(j) /\ IsDir(Parent[d]))
                 \/ j.after[d] = Absent /\ disk[d] = Absent
                 \/ isDir /\ ~Empty(d)
    IN  /\ Doing("apply", "put")
        /\ \/ /\ run.step = "check"
              /\ Promotable(j, d) /\ Unmoved(j, d)
              /\ Proceed(IF j.after[d] = Dir \/ (j.after[d] = Absent /\ j.before[d] = Absent)
                         THEN "note" ELSE "act")
              /\ UNCHANGED <<disk, staged, lock, journals>>
           \/ /\ run.step = "check"
              /\ ~(Promotable(j, d) /\ Unmoved(j, d))
              /\ Abort
              /\ UNCHANGED <<disk, staged, journals>>
           \/ /\ run.step = "act" /\ ~fails
              /\ disk' = [disk EXCEPT ![d] = j.after[d]]
              /\ staged' = [staged EXCEPT ![d] = "none"]
              /\ Proceed("note")
              /\ UNCHANGED <<lock, journals>>
           \/ /\ run.step = "act" /\ fails
              /\ Abort
              /\ UNCHANGED <<disk, staged, journals>>
           \/ /\ run.step = "note"
              /\ Persist([j EXCEPT !.completed = @ \cup {d}])
              /\ Advance
              /\ UNCHANGED <<disk, staged, lock>>
        /\ UNCHANGED <<extra, spare, previews, saved, touched, spent>>

\* Everything is verified once more and the journal is complete.
Finish ==
    LET j == Journal
        whole == /\ \A d \in Changed(j) : Observe(disk[d]) = j.after[d]
                 /\ VerifyContent(j) /\ VerifyAncestors(j)
    IN  /\ Doing("apply", "finish")
        /\ IF whole THEN Persist([j EXCEPT !.phase = "complete"]) ELSE UNCHANGED journals
        /\ Abort
        /\ UNCHANGED <<disk, extra, staged, spare, previews, saved, touched, spent>>

-----------------------------------------------------------------------------
(* Recovering                                                              *)

\* _prepare_directories: every directory to restore is staged and named in
\* the journal before anything live is touched.
PrepareDirectories ==
    LET j == Journal
        lost == {d \in Changed(j) \cap Dirs :
                    Observe(j.before[d]) = Dir /\ Preview.seen[d] = Absent} \ j.restoring
    IN  /\ Doing("recover", "prepare")
        /\ spare' = spare \cup lost
        /\ Persist([j EXCEPT !.restoring = @ \cup lost])
        /\ Advance
        /\ UNCHANGED <<disk, extra, staged, lock, previews, saved, touched, spent>>

Unstage ==
    /\ Doing("recover", "unstage")
    /\ staged' = [staged EXCEPT ![On] = "none"]
    /\ Advance
    /\ UNCHANGED <<disk, extra, spare, lock, previews, journals, saved, touched, spent>>

\* A directory is put back: the staged one is moved to the free name, or is
\* there already.
RestoreDirectory(j, d) ==
    \/ /\ d \in spare /\ disk[d] = Absent /\ IsDir(Parent[d])
       /\ disk' = [disk EXCEPT ![d] = j.before[d]]
       /\ spare' = spare \ {d}
       /\ Advance
       /\ UNCHANGED lock
    \/ /\ d \notin spare /\ disk[d] = j.before[d]
       /\ Advance
       /\ UNCHANGED <<disk, spare, lock>>
    \/ /\ IF d \in spare THEN disk[d] # Absent \/ ~IsDir(Parent[d]) ELSE disk[d] # j.before[d]
       /\ Abort
       /\ UNCHANGED <<disk, spare>>

\* A directory the transaction made, or one that stays, by its identity.
UndoDirectory(j, d) ==
    LET ok == /\ Observe(disk[d]) = Observe(Preview.seen[d])
              /\ IF j.before[d] # Absent THEN disk[d] = j.before[d]
                 ELSE disk[d] # Absent => disk[d] = Dir /\ d \in j.owned /\ Empty(d)
    IN  \/ /\ ok
           /\ disk' = [disk EXCEPT ![d] = j.before[d]]
           /\ Advance
           /\ UNCHANGED <<spare, lock>>
        \/ ~ok /\ Abort /\ UNCHANGED <<disk, spare>>

\* promote: a file is looked at, its backup written beside it (or nothing),
\* looked at again, and replaced or unlinked.
UndoFile(j, d) ==
    LET expected == Preview.seen[d]
        fails == \/ j.before[d] # Absent /\ expected = Absent /\ disk[d] # Absent
                 \/ j.before[d] # Absent /\ ~IsDir(Parent[d])
                 \/ j.before[d] = Absent /\ disk[d] = Absent
    IN  \/ /\ run.step = "check" /\ disk[d] = expected
           /\ IF expected = Absent /\ j.before[d] = Absent THEN Advance ELSE Proceed("act")
           /\ UNCHANGED <<disk, spare, lock>>
        \/ run.step = "check" /\ disk[d] # expected /\ Abort /\ UNCHANGED <<disk, spare>>
        \/ /\ run.step = "act" /\ ~fails
           /\ disk' = [disk EXCEPT ![d] = j.before[d]]
           /\ Advance
           /\ UNCHANGED <<spare, lock>>
        \/ run.step = "act" /\ fails /\ Abort /\ UNCHANGED <<disk, spare>>

UndoChange(j, d) ==
    IF d \in j.restoring THEN RestoreDirectory(j, d)
    ELSE IF d \in Dirs THEN UndoDirectory(j, d)
    ELSE UndoFile(j, d)

Undo ==
    /\ Doing("recover", "undo")
    /\ UndoChange(Journal, On)
    /\ UNCHANGED <<extra, staged, previews, journals, saved, touched, spent>>

\* The missing parents the transaction had made go last.
RemoveParent ==
    /\ Doing("recover", "rmdir")
    /\ \/ /\ disk[On] = Absent \/ (disk[On] = Dir /\ On \in Journal.owned /\ Empty(On))
          /\ disk' = [disk EXCEPT ![On] = Absent]
          /\ Advance
          /\ UNCHANGED lock
       \/ /\ disk[On] # Absent /\ ~(disk[On] = Dir /\ On \in Journal.owned /\ Empty(On))
          /\ Abort
          /\ UNCHANGED disk
    /\ UNCHANGED <<extra, staged, spare, previews, journals, saved, touched, spent>>

\* The tree is observed a last time and the journal is rolled back.
Close ==
    /\ Doing("recover", "close")
    /\ IF Observations(Journal) THEN Persist([Journal EXCEPT !.phase = "rolled_back"])
       ELSE UNCHANGED journals
    /\ Abort
    /\ UNCHANGED <<disk, extra, staged, spare, previews, saved, touched, spent>>

-----------------------------------------------------------------------------
(* Failures                                                                *)

\* What a failed or interrupted write may leave of the task at hand.
Remains(do) ==
    \/ UNCHANGED <<disk, staged, journals>>
    \/ /\ do = "open"
       /\ Persist([NoJournal EXCEPT !.phase = "torn"])
       /\ UNCHANGED <<disk, staged>>
    \/ /\ do = "stage"
       /\ staged' = [staged EXCEPT ![On] = "part"]
       /\ UNCHANGED <<disk, journals>>
    \/ /\ do = "put" /\ run.step = "act" /\ disk[On] = Absent /\ Journal.before[On] = Absent
       /\ IsDir(Parent[On])
       /\ disk' = [disk EXCEPT ![On] = Journal.after[On]]
       /\ UNCHANGED <<staged, journals>>

\* A file operation raises.  A directory whose identity cannot be recorded
\* is removed again, if it is still empty.
Fault ==
    /\ run # Idle
    /\ Spend("faults")
    /\ \/ Remains(Head(run.todo).do) /\ ~(Doing("apply", "mkdir") /\ run.step = "note")
       \/ /\ Doing("apply", "mkdir") /\ run.step = "note"
          /\ disk' = [disk EXCEPT ![On] = IF @ = Dir /\ Empty(On) THEN Absent ELSE @]
          /\ \/ UNCHANGED journals
             \/ Persist([Journal EXCEPT !.owned = @ \cup {On}])
          /\ UNCHANGED staged
    /\ Abort
    /\ UNCHANGED <<extra, spare, previews, saved, touched>>

\* Whether the task at hand has a scratch file in its directory: the backup
\* promote is about to move into place.
HasScratch ==
    /\ Doing("recover", "undo") /\ run.step = "act"
    /\ Journal.before[On] # Absent
    /\ Parent[On] # Root /\ IsDir(Parent[On])

\* The process dies: nothing is cleaned up and the lock stays.
Crash ==
    /\ run # Idle
    /\ Spend("crashes")
    /\ Remains(Head(run.todo).do)
    /\ extra' = IF HasScratch THEN [extra EXCEPT ![Parent[On]] = @ \cup {"scratch"}] ELSE extra
    /\ run' = Idle
    /\ lock' = "stale"
    /\ UNCHANGED <<spare, previews, saved, touched>>

\* A person removes the lock of a dead process.
RemoveLock ==
    /\ lock = "stale"
    /\ lock' = "free"
    /\ UNCHANGED <<disk, extra, staged, spare, previews, journals, run, saved, touched, spent>>

-----------------------------------------------------------------------------
(* Editors                                                                 *)

\* The moment between the last look at a file and its replacement.  (A name
\* that was free is taken with link, which fails if it no longer is.)
InWindow(d) ==
    /\ run # Idle /\ run.step = "act" /\ On = d
    /\ (IF run.op = "apply" THEN Journal.before[d] ELSE Preview.seen[d]) # Absent

EditFile(d, c) ==
    /\ d \notin Dirs /\ c # disk[d] /\ IsDir(Parent[d])
    /\ Spend("edits")
    /\ disk' = [disk EXCEPT ![d] = c]
    /\ saved' = [saved EXCEPT ![d] = IF InWindow(d) THEN Absent ELSE c]
    /\ touched' = touched \cup {d}
    /\ UNCHANGED <<extra, staged, spare, lock, previews, journals, run>>

\* Someone makes a directory, or removes an empty one.
EditDirectory(d) ==
    /\ IsDir(Parent[d])
    /\ IsDir(d) => Empty(d)
    /\ Spend("edits")
    /\ disk' = [disk EXCEPT ![d] = IF IsDir(d) THEN Absent ELSE Found]
    /\ touched' = touched \cup {d}
    /\ UNCHANGED <<extra, staged, spare, lock, previews, journals, run, saved>>

\* A file nobody planned appears in a directory, or is taken away.
EditExtra(d, es) ==
    /\ IsDir(d) /\ es # extra[d]
    /\ Spend("edits")
    /\ extra' = [extra EXCEPT ![d] = es]
    /\ touched' = touched \cup {d}
    /\ UNCHANGED <<disk, staged, spare, lock, previews, journals, run, saved>>

Next ==
    \/ \E plan \in Plans : Prepare(plan)
    \/ \E i \in 1..MaxPreviews : PlanRollback(i)
    \/ \E i \in DOMAIN previews : Apply(i) \/ ApplyRecovery(i)
    \/ Open \/ Mkdir \/ Stage \/ StartApplying \/ Put \/ Finish
    \/ PrepareDirectories \/ Unstage \/ Undo \/ RemoveParent \/ Close
    \/ Fault \/ Crash \/ RemoveLock
    \/ \E d \in Dests, c \in Edits \cup {Absent} : EditFile(d, c)
    \/ \E d \in Dirs : EditDirectory(d) \/ EditExtra(d, {}) \/ EditExtra(d, {"file"})

Spec == Init /\ [][Next]_vars

-----------------------------------------------------------------------------
(* Properties                                                              *)

JournalType ==
    [phase : {"none", "torn", "prepared", "applying", "complete", "rolled_back"},
     order : Seq(Dests), parents : Seq(Dirs),
     before : [Dests -> Entries], after : [Dests -> Entries],
     extra : [Dirs -> SUBSET {"file", "scratch"}], owned : SUBSET Dirs, restoring : SUBSET Dirs, completed : SUBSET Dests]

PreviewType ==
    [kind : {"apply"}, plan : Plans, seen : [Dests -> Entries],
     extra : [Dirs -> SUBSET {"file", "scratch"}]]
    \cup [kind : {"recover"}, of : 1..MaxPreviews, journal : JournalType,
          seen : [Dests -> Entries], staged : [Dests -> {"none", "part", "whole"}]]

TaskType ==
    [do : {"open", "mkdir", "stage", "start", "put", "finish",
           "prepare", "unstage", "undo", "rmdir", "close"},
     on : Dests \cup {Root}]

\* The shape of the store, its journals and the running command.  A command
\* that returns, raises or aborts gives the lock back; one that dies leaves it
\* behind.
TypeOK ==
    /\ disk \in [Dests -> Entries]
    /\ extra \in [Dirs -> SUBSET {"file", "scratch"}]
    /\ staged \in [Dests -> {"none", "part", "whole"}]
    /\ spare \subseteq Dirs
    /\ lock \in (IF run = Idle THEN {"free", "stale"} ELSE {"held"})
    /\ previews \in Seq(PreviewType)
    /\ journals \in [1..MaxPreviews -> JournalType]
    /\ run \in [op : {"none", "apply", "recover"}, id : 0..MaxPreviews,
                todo : Seq(TaskType), step : {"check", "act", "note"}]
    /\ saved \in [Dests -> Entries]
    /\ touched \subseteq Dests
    /\ spent \in [edits : Nat, faults : Nat, crashes : Nat]

\* Whatever fails and wherever a command dies, the last thing a person saved
\* at a path is still there, or a journal keeps a copy of it: a transaction
\* and its recovery preserve the edits they do not know.  (One that is, to
\* the byte, what the transaction was to write is undone with it: the copy is
\* the journal's after.)
EditsKept ==
    \A d \in Dests : saved[d] # Absent =>
       \/ disk[d] = saved[d]
       \/ \E i \in 1..MaxPreviews :
             /\ journals[i].phase \notin {"none", "torn"}
             /\ d \in Changed(journals[i])
             /\ saved[d] \in {journals[i].before[d], journals[i].after[d]}

\* Tracking never says more than is there: while a journal is unfinished, on
\* the way forward, on the way back and after a crash of either, a promoted
\* tracking file means that all content is promoted.
TrackingLast ==
    \A i \in Incomplete :
       LET j == journals[i]
       IN  (\E t \in (Changed(j) \cap Tracking) \ touched :
               disk[t] = j.after[t] /\ j.before[t] # j.after[t])
           => \A d \in Changed(j) \ (Tracking \cup touched) : Observe(disk[d]) = j.after[d]

\* A journal is rolled back only when every path it names is as it was
\* before, wherever the transaction had stopped and however often the
\* recovery was interrupted.
RollbackRestores ==
    [][\A i \in 1..MaxPreviews :
         journals[i].phase # "rolled_back" /\ journals'[i].phase = "rolled_back" =>
            \A d \in Known(journals[i]) \ touched :
               disk'[d] = journals[i].before[d] /\ staged'[d] = "none"]_vars

\* What a crash can leave that no recovery accepts: a directory whose
\* identity is not in the journal yet, a staging file not written to its
\* end, the scratch file of an interrupted restoration.
Orphaned(j) ==
    \/ \E d \in Claimed(j) : IsDir(d) /\ d \notin j.owned
    \/ \E d \in Changed(j) : staged[d] = "part"
    \/ \E d \in Known(j) \cap Dirs : IsDir(d) /\ "scratch" \in extra[d] \ j.extra[d]

\* Failed journals stay available for explicit recovery: if no person
\* interferes, a rollback of an unfinished transaction can be prepared
\* whatever point it, or its recovery, had reached, but for the leftovers
\* above.  (A fork does not look at its destinations again between its
\* revalidation and its journal, whose before must be what was prepared.)
Recoverable ==
    \A i \in Incomplete :
       /\ run = Idle /\ touched = {} /\ journals[i].phase # "torn"
       /\ \A d \in Known(journals[i]) : journals[i].before[d] = previews[i].seen[d]
       => Observations(journals[i]) \/ Orphaned(journals[i])

\* A rollback that was interrupted can be prepared again.
Restartable ==
    [][run.op = "recover" /\ run' = Idle /\ touched = {} =>
         (\A i \in Incomplete : Observations(journals[i]))']_vars
=============================================================================

---------------------------- MODULE WorkMutation ----------------------------
(***************************************************************************)
(* The journaled application of a work mutation plan (gw_pipeline          *)
(* transactions.py).  Under the bundle and executor locks one mutation at  *)
(* a time goes through preflight, snapshot, a second preflight, the        *)
(* capture of the fingerprints it expects, its effects one by one, the     *)
(* validation of its postconditions and the terminal journal record; any   *)
(* exception leads to a rollback from the snapshot.  Editors that know no  *)
(* locks change members in between, file operations fail, the process      *)
(* dies.                                                                   *)
(*                                                                         *)
(* A member is an opaque name with a content; a fingerprint or a digest    *)
(* of a content is the content.  The checks and copies the code makes      *)
(* member by member are one step here: each reads one member, so an edit   *)
(* between two of them is an edit before or after all of them.             *)
(***************************************************************************)
EXTENDS Naturals, FiniteSets

CONSTANTS Members,    \* bundle-relative names
          Shapes,     \* what a planner may ask for: see ShapeType
          Edits,      \* contents an editor saves
          Old,        \* a content there at first
          Written,    \* the bytes a plan writes
          Dir,        \* a directory a plan makes
          Absent,     \* a name that is not there
          Start,      \* the bundle at first
          Retained,   \* RETAINED_TRANSACTIONS
          MaxMutations, MaxEdits, MaxFaults, MaxCrashes   \* bounds

Contents == Edits \cup {Old, Written, Dir}

Entries == Contents \cup {Absent}

\* A plan's effects, and the members whose digest the plan carries although
\* it does not write them (directory preconditions, move_plan.digests,
\* source_member preimages).
ShapeType ==
    [mkdirs : SUBSET Members, moves : SUBSET (Members \X Members),
     writes : SUBSET Members, deletes : SUBSET Members, checked : SUBSET Members]

ASSUME ConstantsAssumption ==
    /\ Shapes \subseteq ShapeType
    /\ Start \in [Members -> Entries]
    /\ Absent \notin Contents
    /\ Retained \in Nat
    /\ MaxMutations \in Nat /\ MaxEdits \in Nat
    /\ MaxFaults \in Nat /\ MaxCrashes \in Nat

VARIABLES live,       \* the bundle's directory tree
          tx,         \* the transaction in progress
          dirs,       \* the ended transactions' directories in the cache
          left,       \* quarantine entries nobody will look at again
          outcome,    \* of the last MutationApplication
          valued,     \* the content each member's last author gave it (history)
          forgotten,  \* members whose failed rollback's backup was pruned (history)
          spent       \* mutations, edits, faults, crashes so far

vars == <<live, tx, dirs, left, outcome, valued, forgotten, spent>>

Kinds == {"mkdir", "move", "write", "delete"}

Effect == [kind : Kinds, member : Members, dest : Members]

NoEffect == [kind |-> "none"]

Rank == [mkdir |-> 1, move |-> 2, write |-> 3, delete |-> 4]

Effects(shape) ==
         {[kind |-> "mkdir", member |-> m, dest |-> m] : m \in shape.mkdirs}
    \cup {[kind |-> "move", member |-> p[1], dest |-> p[2]] : p \in shape.moves}
    \cup {[kind |-> "write", member |-> m, dest |-> m] : m \in shape.writes}
    \cup {[kind |-> "delete", member |-> m, dest |-> m] : m \in shape.deletes}

\* The members of some effects.
Named(effects) == UNION {{e.member, e.dest} : e \in effects}

\* No two effects of a plan are about the same name: the preflight refuses a
\* name written twice, a destination taken twice or written too, and the
\* planners make only directories that nothing else in the plan names, and
\* move or delete nothing they write.
ASSUME EffectsAssumption ==
    \A s \in Shapes : \A e, f \in Effects(s) :
        e # f => {e.member, e.dest} \cap {f.member, f.dest} = {}

\* Mutant: the snapshot forgets that a move's destination was free.
SnapshotTargetsNoDest(shape, b) ==
    {e.member : e \in Effects(shape)} \ {m \in shape.mkdirs : b[m] # Absent}

\* What a rollback can restore: existing ensure-directories are not owned.
SnapshotTargets(shape, b) ==
    Named(Effects(shape)) \ {m \in shape.mkdirs : b[m] # Absent}

Idle ==
    [phase |-> "idle", shape |-> {}, seen |-> Start, snap |-> Start,
     want |-> Start, owned |-> {}, pending |-> {}, eff |-> NoEffect,
     step |-> "none", held |-> Absent, touched |-> {}, protected |-> {},
     attempted |-> FALSE, bad |-> FALSE, journal |-> "none",
     base |-> Start, late |-> {}]

Init ==
    /\ live = Start
    /\ tx = Idle
    /\ dirs = {}
    /\ left = {}
    /\ outcome = "none"
    /\ valued = Start
    /\ forgotten = {}
    /\ spent = [mutations |-> 0, edits |-> 0, faults |-> 0, crashes |-> 0]

Limit == [mutations |-> MaxMutations, edits |-> MaxEdits,
          faults |-> MaxFaults, crashes |-> MaxCrashes]

Spend(what) ==
    /\ spent[what] < Limit[what]
    /\ spent' = [spent EXCEPT ![what] = @ + 1]

-----------------------------------------------------------------------------
(* Planning, preflight, snapshot                                           *)

\* A planner reads the bundle, with no lock, and asks for a mutation; the
\* executor then takes the locks and opens the transaction directory.  It
\* moves and deletes what it sees, and onto free names.
Begin(shape) ==
    /\ tx.phase = "idle"
    /\ Spend("mutations")
    /\ \A m \in shape.deletes : live[m] # Absent
    /\ \A p \in shape.moves : live[p[1]] # Absent /\ live[p[2]] = Absent
    /\ tx' = [Idle EXCEPT !.phase = "planned", !.shape = {shape}, !.seen = live, !.base = live,
                          !.pending = Effects(shape), !.journal = "planned"]
    /\ UNCHANGED <<live, dirs, left, outcome, valued, forgotten>>

\* Every claim of the plan still holds: written and checked members hold the
\* bytes the planner saw, sources exist, destinations are free.
Preflight(shape) ==
    /\ \A m \in shape.writes \cup shape.checked : live[m] = tx.seen[m]
    /\ \A p \in shape.moves : live[p[1]] # Absent /\ live[p[2]] = Absent

\* Mutant: an effect that raised in custody is still being worked on.
FailingHolding(t) == [t EXCEPT !.phase = "failing", !.eff = NoEffect]

Failing(t) == [t EXCEPT !.phase = "failing", !.eff = NoEffect,
                        !.step = "none", !.held = Absent]

\* The exception handler of the executor is next; nothing else changed.
Raise ==
    /\ tx' = Failing(tx)
    /\ UNCHANGED <<live, left>>

\* The first preflight, then the snapshot of every member the plan owns.
Snapshot(shape) ==
    /\ tx.phase = "planned"
    /\ \/ /\ Preflight(shape)
          /\ tx' = [tx EXCEPT !.phase = "snapshotted", !.snap = live,
                              !.owned = SnapshotTargets(shape, live)]
          /\ UNCHANGED <<live, left>>
       \/ ~Preflight(shape) /\ Raise
    /\ UNCHANGED <<dirs, outcome, valued, forgotten, spent>>

\* Writes are staged and the whole preflight runs again.
Reverify(shape) ==
    /\ tx.phase = "snapshotted"
    /\ \/ /\ Preflight(shape)
          /\ tx' = [tx EXCEPT !.phase = "verified"]
          /\ UNCHANGED <<live, left>>
       \/ ~Preflight(shape) /\ Raise
    /\ UNCHANGED <<dirs, outcome, valued, forgotten, spent>>

\* After the baseline of the validation is loaded: the fingerprints that
\* moves and deletes will insist on, and the journal record "applying".
Capture ==
    /\ tx.phase = "verified"
    /\ tx' = [tx EXCEPT !.phase = "applying", !.want = live, !.journal = "applying"]
    /\ UNCHANGED <<live, dirs, left, outcome, valued, forgotten, spent>>

-----------------------------------------------------------------------------
(* Effects                                                                 *)

Done(t) == [t EXCEPT !.eff = NoEffect, !.step = "none", !.held = Absent]

\* e is the next effect: directories, then moves, writes and deletes.
IsNext(e) == \A f \in tx.pending : Rank[e.kind] <= Rank[f.kind]

\* What starting e means when it needs no custody: a directory made or found,
\* a new file linked, a delete of what was never there.
Simple(e, t) ==
    LET m == e.member
        made == IF e.kind = "mkdir" THEN Dir ELSE Written
    IN  \/ /\ e.kind = "mkdir" \/ (e.kind = "write" /\ tx.seen[m] = Absent)
           /\ live[m] = Absent
           /\ live' = [live EXCEPT ![m] = made]
           /\ tx' = [t EXCEPT !.touched = @ \cup {m}]
        \/ /\ \/ e.kind = "mkdir" /\ live[m] = Dir /\ \A s \in tx.shape : m \notin s.checked
              \/ e.kind = "delete" /\ live[m] = Absent /\ tx.want[m] = Absent
           /\ tx' = t
           /\ UNCHANGED live

\* The member is renamed to its quarantine name before anyone looks at it.
TakeCustody(e, t) ==
    LET m == e.member
    IN  /\ \/ e.kind \in {"move", "delete"}
           \/ e.kind = "write" /\ tx.seen[m] # Absent
        /\ live[m] # Absent
        /\ live' = [live EXCEPT ![m] = Absent]
        /\ tx' = [t EXCEPT !.eff = e, !.step = "check", !.held = live[m],
                           !.touched = @ \cup {m},
                           !.protected = IF e.kind = "move" THEN @ \cup {m, e.dest} ELSE @]

\* The name the effect needs is taken, or is gone.
Refused(e) ==
    LET m == e.member
    IN  \/ e.kind = "mkdir" /\ live[m] # Absent
           /\ (live[m] # Dir \/ \E s \in tx.shape : m \in s.checked)
        \/ e.kind = "write" /\ (tx.seen[m] = Absent) # (live[m] = Absent)
        \/ e.kind = "move" /\ live[m] = Absent
        \/ e.kind = "delete" /\ live[m] = Absent /\ tx.want[m] # Absent

StartEffect(e) ==
    /\ tx.phase = "applying" /\ tx.eff = NoEffect
    /\ IsNext(e)
    /\ LET t == [tx EXCEPT !.pending = @ \ {e}, !.attempted = TRUE]
       IN  \/ (Simple(e, t) \/ TakeCustody(e, t)) /\ UNCHANGED left
           \/ Refused(e) /\ tx' = Failing(t) /\ UNCHANGED <<live, left>>
    /\ UNCHANGED <<dirs, outcome, valued, forgotten, spent>>

\* The captured entry goes back to its name, unless an editor recreated it:
\* then the name is protected and the capture stays in quarantine.
RestoreCustody ==
    LET m == tx.eff.member
    IN  \/ /\ live[m] = Absent
           /\ live' = [live EXCEPT ![m] = tx.held]
           /\ tx' = [Failing(tx) EXCEPT !.touched = @ \ {m}]
           /\ UNCHANGED left
        \/ /\ live[m] # Absent
           /\ left' = left \cup {<<m, tx.held>>}
           /\ tx' = [Failing(tx) EXCEPT !.protected = @ \cup {m}]
           /\ UNCHANGED live

\* The exception is not caught before the executor's handler: the capture
\* stays in quarantine and nothing protects the name.
LeaveCustody ==
    /\ left' = left \cup {<<tx.eff.member, tx.held>>}
    /\ tx' = [Failing(tx) EXCEPT !.late = IF tx.step = "check" THEN @ \cup {tx.eff.member} ELSE @]
    /\ UNCHANGED live

\* A captured move is undone without overwriting anything.  At the
\* destination only the captured entry itself (perhaps edited in place) is
\* taken back.
RecoverMove ==
    LET s == tx.eff.member
        d == tx.eff.dest
        landed == tx.step = "seal"
        back == IF landed THEN live[d] ELSE tx.held
        freed == IF landed THEN [live EXCEPT ![d] = Absent] ELSE live
        prot == IF freed[d] = Absent THEN tx.protected \ {d} ELSE tx.protected
        touch == IF landed THEN tx.touched \ {d} ELSE tx.touched
    IN  \/ /\ landed /\ live[d] # tx.want[s]
           /\ Raise
        \/ /\ ~landed \/ live[d] # Absent
           /\ freed[s] = Absent
           /\ live' = [freed EXCEPT ![s] = back]
           /\ tx' = [Failing(tx) EXCEPT
                       !.protected = IF back = tx.want[s] THEN prot \ {s} ELSE prot,
                       !.touched = IF back = tx.want[s] THEN touch \ {s} ELSE touch]
           /\ UNCHANGED left
        \/ /\ ~landed \/ live[d] # Absent
           /\ freed[s] # Absent
           /\ live' = freed
           /\ left' = left \cup {<<s, back>>}
           /\ tx' = [Failing(tx) EXCEPT !.protected = prot, !.touched = touch]

\* The capture is what the plan (a write) or the capture step (a move, a
\* delete) expects, and no editor has recreated the name.  A delete of a
\* member that was absent at the capture has nothing to compare with.
CheckEffect ==
    LET m == tx.eff.member
        kind == tx.eff.kind
        same == tx.held = (IF kind = "write" THEN tx.seen[m] ELSE tx.want[m])
        recreated == kind # "write" /\ live[m] # Absent
    IN  /\ tx.phase = "applying" /\ tx.step = "check"
        /\ \/ /\ same /\ ~recreated
              /\ tx' = [tx EXCEPT !.step = "install"]
              /\ UNCHANGED <<live, left>>
           \/ kind = "move" /\ (~same \/ recreated) /\ RecoverMove
           \/ kind = "delete" /\ tx.want[m] = Absent /\ LeaveCustody
           \/ kind = "write" /\ ~same /\ RestoreCustody
           \/ kind = "delete" /\ tx.want[m] # Absent /\ (~same \/ recreated) /\ RestoreCustody
        /\ UNCHANGED <<dirs, outcome, valued, forgotten, spent>>

\* A write links its bytes to the free name, a move renames the capture to
\* the free destination, a delete unlinks the capture.
InstallEffect ==
    LET m == tx.eff.member
        d == tx.eff.dest
        kind == tx.eff.kind
    IN  /\ tx.phase = "applying" /\ tx.step = "install"
        /\ \/ /\ kind = "delete"
              /\ tx' = Done(tx)
              /\ UNCHANGED <<live, left>>
           \/ /\ kind = "write" /\ live[m] = Absent
              /\ live' = [live EXCEPT ![m] = Written]
              /\ tx' = [tx EXCEPT !.step = "seal"]
              /\ UNCHANGED left
           \/ /\ kind = "move" /\ live[d] = Absent
              /\ live' = [live EXCEPT ![d] = tx.held]
              /\ tx' = [tx EXCEPT !.step = "seal", !.held = Absent,
                                  !.touched = @ \cup {m, d}]
              /\ UNCHANGED left
           \/ kind = "write" /\ live[m] # Absent /\ RestoreCustody
           \/ kind = "move" /\ live[d] # Absent /\ RecoverMove
        /\ UNCHANGED <<dirs, outcome, valued, forgotten, spent>>

\* The installed name is looked at once more.  A name replaced since is
\* protected, one edited in place is not noticed, a missing one raises.
SealEffect ==
    LET m == tx.eff.member
        d == tx.eff.dest
        kind == tx.eff.kind
        moved == live[d] = tx.want[m] /\ live[m] = Absent
    IN  /\ tx.phase = "applying" /\ tx.step = "seal"
        /\ \/ /\ kind = "write" /\ live[m] # Absent
              /\ tx' = Done(tx)
              /\ UNCHANGED <<live, left>>
           \/ kind = "write" /\ live[m] \notin {Written, Absent} /\ RestoreCustody
           \/ kind = "write" /\ live[m] = Absent /\ LeaveCustody
           \/ /\ kind = "move" /\ moved
              /\ tx' = [Done(tx) EXCEPT !.protected = @ \ {m, d}]
              /\ UNCHANGED <<live, left>>
           \/ kind = "move" /\ ~moved /\ RecoverMove
        /\ UNCHANGED <<dirs, outcome, valued, forgotten, spent>>

\* A file operation of an effect, a journal append or a check before the
\* first effect raises.  Which handler sees it depends on the effect and on
\* how far it got.
Fault ==
    LET kind == tx.eff.kind
    IN  /\ Spend("faults")
        /\ \/ tx.phase \in {"planned", "snapshotted", "verified", "validating"} /\ Raise
           \/ tx.phase = "applying" /\ tx.eff = NoEffect /\ Raise
           \/ kind = "write" /\ tx.step = "check" /\ RestoreCustody
           \/ kind = "write" /\ tx.step \in {"install", "seal"} /\ LeaveCustody
           \/ kind = "delete" /\ tx.step = "check" /\ LeaveCustody
           \/ kind = "delete" /\ tx.step = "install" /\ RestoreCustody
           \/ kind = "move" /\ RecoverMove
        /\ UNCHANGED <<dirs, outcome, valued, forgotten>>

-----------------------------------------------------------------------------
(* Validation, the terminal record, pruning                                *)

EffectsLanded ==
    /\ tx.phase = "applying" /\ tx.eff = NoEffect /\ tx.pending = {}
    /\ tx' = [tx EXCEPT !.phase = "validating", !.journal = "validating"]
    /\ UNCHANGED <<live, dirs, left, outcome, valued, forgotten, spent>>

\* Whether the postconditions hold is for the validation rules to say.
PostconditionsFail ==
    /\ tx.phase = "validating"
    /\ Raise
    /\ UNCHANGED <<dirs, outcome, valued, forgotten, spent>>

Directory(t, state, complete) ==
    [id |-> spent.mutations, owned |-> t.owned, snap |-> t.snap,
     state |-> state, complete |-> complete]

\* Mutant: the sweep does not look at how a journal ends.
StaleAny(ds) == {d \in ds : Cardinality({e \in ds : e.id > d.id}) >= Retained}

\* The directories the sweep removes: beyond the newest few, every one whose
\* journal ends in "complete" or "rolled-back".
Stale(ds) ==
    LET terminal == {d \in ds : d.state \in {"complete", "rolled-back"}}
    IN  {d \in terminal : Cardinality({e \in terminal : e.id > d.id}) >= Retained}

\* History: the members of failed rollbacks among some directories.
Unrestored(ds) ==
    UNION {d.owned : d \in {e \in ds : e.state = "rolled-back" /\ ~e.complete}}

\* The record "complete" is durable (even if its append raised), the cache
\* is swept, the caller is told.
Complete(shape) ==
    /\ tx.phase = "validating"
    /\ LET ds == dirs \cup {Directory(tx, "complete", TRUE)}
       IN  /\ dirs' = ds \ Stale(ds)
           /\ forgotten' = forgotten \cup Unrestored(Stale(ds))
    /\ outcome' = "ok"
    /\ valued' = [m \in Members |-> IF m \in Named(Effects(shape)) THEN live[m] ELSE valued[m]]
    /\ tx' = Idle
    /\ UNCHANGED <<live, left, spent>>

-----------------------------------------------------------------------------
(* Rollback                                                                *)

\* The snapshot entries a rollback puts back.
Selected == (tx.touched \ tx.protected) \cap tx.owned

\* History: a member whose own editor raced for it is what the race left.
Settled ==
    [m \in Members |-> IF m \in tx.late /\ valued[m] = Absent THEN live[m] ELSE valued[m]]

\* The record "rolling-back", then every selected entry is removed.  A
\* failed removal stops the restore and is reported.
RemoveTouched ==
    /\ tx.phase = "failing"
    /\ \/ /\ live' = [m \in Members |-> IF m \in Selected THEN Absent ELSE live[m]]
          /\ tx' = [tx EXCEPT !.phase = "removed", !.journal = "rolling-back"]
          /\ UNCHANGED spent
       \/ \E gone \in SUBSET Selected :
             /\ Spend("faults")
             /\ live' = [m \in Members |-> IF m \in gone THEN Absent ELSE live[m]]
             /\ tx' = [tx EXCEPT !.phase = "restored", !.bad = TRUE,
                                 !.journal = "rolling-back"]
    /\ UNCHANGED <<dirs, left, outcome, valued, forgotten>>

\* The backups are created at their names, which must be free.
CopyBack ==
    LET missing == {m \in Selected : tx.snap[m] # Absent}
        copied(ms) == [m \in Members |-> IF m \in ms THEN tx.snap[m] ELSE live[m]]
    IN  /\ tx.phase = "removed"
        /\ \/ /\ \A m \in missing : live[m] = Absent
              /\ live' = copied(missing)
              /\ tx' = [tx EXCEPT !.phase = "restored"]
              /\ UNCHANGED spent
           \/ \E ms \in SUBSET {m \in missing : live[m] = Absent} :
                 /\ \/ (\E m \in missing : live[m] # Absent) /\ UNCHANGED spent
                    \/ Spend("faults")
                 /\ live' = copied(ms)
                 /\ tx' = [tx EXCEPT !.phase = "restored", !.bad = TRUE]
        /\ UNCHANGED <<dirs, left, outcome, valued, forgotten>>

\* Every protected name is a failure, and so is every other snapshot entry
\* that is not as it was; then the record "rolled-back", whose append may
\* fail too.
RolledBack ==
    LET unlike == {m \in tx.owned \ tx.protected : live[m] # tx.snap[m]}
        bad == tx.bad \/ (tx.attempted /\ (tx.protected # {} \/ unlike # {}))
    IN  /\ tx.phase = "restored"
        /\ \/ /\ dirs' = dirs \cup {Directory(tx, "rolled-back", ~bad)}
              /\ outcome' = IF bad THEN "broken" ELSE "clean"
              /\ UNCHANGED spent
           \/ /\ Spend("faults")
              /\ dirs' = dirs \cup {Directory(tx, "rolling-back", FALSE)}
              /\ outcome' = "broken"
        /\ valued' = Settled
        /\ tx' = Idle
        /\ UNCHANGED <<live, left, forgotten>>

-----------------------------------------------------------------------------
(* The environment                                                         *)

\* The process dies: its locks go with it, its journal ends where it was,
\* and what it had in custody stays in quarantine.
Crash ==
    /\ tx.phase # "idle"
    /\ Spend("crashes")
    /\ dirs' = dirs \cup {Directory(tx, tx.journal, FALSE)}
    /\ left' = IF tx.held = Absent THEN left ELSE left \cup {<<tx.eff.member, tx.held>>}
    /\ outcome' = "broken"
    /\ valued' = Settled
    /\ tx' = Idle
    /\ UNCHANGED <<live, forgotten>>

\* What the mutation has in its hands: the members of the effects it has
\* begun, those it moves or deletes from the snapshot to the capture of
\* their fingerprints (one raced for by then, until its effect begins: the
\* capture has what the race left), and the ensured directories it found in
\* place.
InHands ==
    UNION {Named(Effects(s) \ tx.pending)
           \cup {m \in s.deletes \cup {p[1] : p \in s.moves} :
                   \/ tx.phase \in {"snapshotted", "verified"}
                   \/ tx.phase = "applying" /\ m \in tx.late}
           \cup {m \in s.mkdirs \ tx.owned : tx.phase # "planned"}
           : s \in tx.shape}

\* An editor saves, creates or removes a file.
Edit(m, c) ==
    /\ c # live[m]
    /\ Spend("edits")
    /\ live' = [live EXCEPT ![m] = c]
    /\ \/ /\ m \in InHands
          /\ tx' = [tx EXCEPT !.late = @ \cup {m}]
          /\ valued' = [valued EXCEPT ![m] = IF live[m] = @ THEN Absent ELSE @]
       \/ /\ m \notin InHands
          /\ tx' = [tx EXCEPT !.base[m] = IF tx.phase = "idle" THEN @ ELSE c]
          /\ valued' = [valued EXCEPT ![m] = c]
    /\ UNCHANGED <<dirs, left, outcome, forgotten>>

Next ==
    \/ \E shape \in Shapes : Begin(shape)
    \/ \E shape \in tx.shape : Snapshot(shape) \/ Reverify(shape) \/ Complete(shape)
    \/ Capture
    \/ \E e \in tx.pending : StartEffect(e)
    \/ CheckEffect
    \/ InstallEffect
    \/ SealEffect
    \/ Fault
    \/ EffectsLanded
    \/ PostconditionsFail
    \/ RemoveTouched
    \/ CopyBack
    \/ RolledBack
    \/ Crash
    \/ \E m \in Members, c \in Edits \cup {Absent} : Edit(m, c)

Spec == Init /\ [][Next]_vars

-----------------------------------------------------------------------------
(* Properties                                                              *)

TxType ==
    [phase : {"idle", "planned", "snapshotted", "verified", "applying", "validating",
              "failing", "removed", "restored"},
     shape : SUBSET Shapes, seen : [Members -> Entries], snap : [Members -> Entries],
     want : [Members -> Entries], owned : SUBSET Members, pending : SUBSET Effect,
     eff : Effect \cup {NoEffect}, step : {"none", "check", "install", "seal"},
     held : Entries, touched : SUBSET Members, protected : SUBSET Members,
     attempted : BOOLEAN, bad : BOOLEAN,
     journal : {"none", "planned", "applying", "validating", "rolling-back"},
     base : [Members -> Entries], late : SUBSET Members]

DirType ==
    [id : Nat, owned : SUBSET Members, snap : [Members -> Entries],
     state : {"planned", "applying", "validating", "rolling-back", "rolled-back", "complete"},
     complete : BOOLEAN]

\* Every step leaves the executor between two effects with nothing in its
\* hands: what an effect took into custody was installed, put back or left in
\* quarantine (the finally and except arms of the three custody appliers).
TypeOK ==
    /\ live \in [Members -> Entries]
    /\ tx \in TxType
    /\ tx.eff = NoEffect => tx.step = "none" /\ tx.held = Absent
    /\ dirs \subseteq DirType
    /\ left \subseteq Members \X Entries
    /\ outcome \in {"none", "ok", "clean", "broken"}
    /\ valued \in [Members -> Entries]
    /\ forgotten \subseteq Members
    /\ spent \in [mutations : Nat, edits : Nat, faults : Nat, crashes : Nat]

\* Content c of member m can still be found by a person: under its name, in
\* quarantine, or in the backups of a transaction.
Kept(m, c) ==
    \/ live[m] = c
    \/ tx.held = c /\ tx.eff # NoEffect /\ tx.eff.member = m
    \/ <<m, c>> \in left
    \/ tx.phase # "idle" /\ m \in tx.owned /\ tx.snap[m] = c
    \/ \E d \in dirs : m \in d.owned /\ d.snap[m] = c

\* Whatever fails, and wherever the process dies, the last content each
\* member was given by a successful mutation, or by an editor who did not
\* race for it, survives: the custody protocol, the snapshot and the
\* journals that are not pruned leave it somewhere.  (Until the sweep that
\* ends a later mutation prunes the backups of a rollback that failed: those
\* members are in forgotten.)
NothingLost ==
    \A m \in Members \ forgotten : valued[m] # Absent => Kept(m, valued[m])

\* While a mutation runs the readers are promised the bundle it began with,
\* as changed by the editors that did not race for it.
Abstract == INSTANCE AtomicMutation
    WITH bundle <- IF tx.phase = "idle" THEN live ELSE tx.base,
         running <- tx.shape, late <- tx.late, edits <- spent.edits

\* Every effect of a plan lands, or none does, or the application says so:
\* the executor implements the atomic mutation ("either lands every effect
\* plus its targeted postconditions or restores the snapshot").
IsAtomic == Abstract!Spec
=============================================================================

------------------------- MODULE WorkMutationProofs -------------------------
(***************************************************************************)
(* The executor of work mutations implements the atomic mutation, and      *)
(* loses no content, for every bundle, every set of plans and any number   *)
(* of edits, faults and crashes.                                           *)
(***************************************************************************)
EXTENDS WorkMutation, TLAPS

\* Between two mutations the executor holds nothing, a mutation in progress has one
\* plan and an open journal, and only one that applies its effects is in the middle of
\* one.
Running ==
    /\ tx.phase = "idle" => tx = Idle
    /\ tx.phase # "idle" => tx.journal # "none" /\ \E s \in Shapes : tx.shape = {s}
    /\ tx.eff # NoEffect => tx.phase = "applying" /\ tx.step # "none"

TypeInv == TypeOK /\ Running

-----------------------------------------------------------------------------
LEMMA EffectsType ==
    ASSUME NEW s \in Shapes
    PROVE  /\ Effects(s) \subseteq Effect
           /\ s \in ShapeType
           /\ \A b : SnapshotTargets(s, b) \subseteq Members
<1>1. s \in ShapeType
  BY ConstantsAssumption
<1>2. Effects(s) \subseteq Effect
  BY <1>1 DEF Effects, Effect, ShapeType, Kinds
<1>3. Named(Effects(s)) \subseteq Members
  BY <1>2 DEF Named, Effect
<1> QED
  BY <1>1, <1>2, <1>3 DEF SnapshotTargets

LEMMA NotAnEffect == NoEffect \notin Effect
BY DEF NoEffect, Effect, Kinds

\* An effect under way is an effect of the plan.
LEMMA UnderWay ==
    ASSUME TypeOK, tx.step # "none" \/ tx.held # Absent
    PROVE  tx.eff \in Effect /\ tx.eff.member \in Members /\ tx.eff.dest \in Members
<1>1. tx.eff \in Effect
  BY DEF TypeOK, TxType
<1> QED
  BY <1>1 DEF Effect

LEMMA FailingType ==
    ASSUME NEW t \in TxType
    PROVE  Failing(t) \in TxType /\ Done(t) \in TxType
           /\ Failing(t).eff = NoEffect /\ Failing(t).step = "none" /\ Failing(t).held = Absent
BY ZenonT(40) DEF TxType, Failing, Done, Entries

LEMMA SpendType ==
    ASSUME TypeOK, NEW what \in {"mutations", "edits", "faults", "crashes"}, Spend(what)
    PROVE  spent' \in [mutations : Nat, edits : Nat, faults : Nat, crashes : Nat]
BY DEF TypeOK, Spend

LEMMA IdleType == Idle \in TxType
BY ConstantsAssumption DEF Idle, TxType, Entries

\* What the steps that end an effect in an exception leave of the types.
LEMMA RecoveryType ==
    ASSUME TypeInv, tx.step # "none", tx.phase = "applying",
           RestoreCustody \/ LeaveCustody \/ RecoverMove
    PROVE  /\ live' \in [Members -> Entries]
           /\ tx' \in TxType /\ tx'.eff = NoEffect /\ tx'.step = "none" /\ tx'.held = Absent
           /\ left' \subseteq Members \X Entries
           /\ tx'.phase = "failing" /\ tx'.journal = tx.journal /\ tx'.shape = tx.shape
<1>1. /\ tx \in TxType /\ live \in [Members -> Entries] /\ left \subseteq Members \X Entries
      /\ tx.held \in Entries
  BY DEF TypeInv, TypeOK, TxType
<1>2. tx.eff.member \in Members /\ tx.eff.dest \in Members /\ tx.eff \in Effect
  BY UnderWay DEF TypeInv
<1>3. Absent \in Entries
  BY DEF Entries
<1>4. CASE RestoreCustody
  <2>1. tx' \in {[Failing(tx) EXCEPT !.touched = @ \ {tx.eff.member}],
                 [Failing(tx) EXCEPT !.protected = @ \cup {tx.eff.member}]}
    BY <1>4 DEF RestoreCustody
  <2>2. /\ tx' \in TxType /\ tx'.eff = NoEffect /\ tx'.step = "none" /\ tx'.held = Absent
        /\ tx'.phase = "failing" /\ tx'.journal = tx.journal /\ tx'.shape = tx.shape
    <3>1. CASE tx' = [Failing(tx) EXCEPT !.touched = @ \ {tx.eff.member}]
      BY <1>1, <1>2, <1>3, <3>1 DEF Failing, TxType
    <3>2. CASE tx' = [Failing(tx) EXCEPT !.protected = @ \cup {tx.eff.member}]
      BY <1>1, <1>2, <1>3, <3>2 DEF Failing, TxType
    <3> QED
      BY <2>1, <3>1, <3>2
  <2> QED
    BY <1>1, <1>2, <1>4, <2>2 DEF RestoreCustody
<1>5. CASE LeaveCustody
  <2>1. /\ tx' \in TxType /\ tx'.eff = NoEffect /\ tx'.step = "none" /\ tx'.held = Absent
        /\ tx'.phase = "failing" /\ tx'.journal = tx.journal /\ tx'.shape = tx.shape
    <3>1. CASE tx' = [Failing(tx) EXCEPT !.late = @ \cup {tx.eff.member}]
      BY <1>1, <1>2, <1>3, <3>1 DEF Failing, TxType
    <3>2. CASE tx' = [Failing(tx) EXCEPT !.late = @]
      BY <1>1, <1>2, <1>3, <3>2 DEF Failing, TxType
    <3> QED
      BY <1>5, <3>1, <3>2 DEF LeaveCustody
  <2> QED
    BY <1>1, <1>2, <1>5, <2>1 DEF LeaveCustody
<1>6. CASE RecoverMove
  <2> DEFINE s == tx.eff.member
             d == tx.eff.dest
             landed == tx.step = "seal"
             back == IF landed THEN live[d] ELSE tx.held
             freed == IF landed THEN [live EXCEPT ![d] = Absent] ELSE live
             prot == IF freed[d] = Absent THEN tx.protected \ {d} ELSE tx.protected
             touch == IF landed THEN tx.touched \ {d} ELSE tx.touched
  <2>1. back \in Entries /\ freed \in [Members -> Entries]
    BY <1>1, <1>2, <1>3
  <2>2. prot \subseteq Members /\ touch \subseteq Members
    BY <1>1 DEF TxType
  <2>3. CASE Raise
    BY <1>1, <2>3, <1>3 DEF Raise, Failing, TxType
  <2>4. CASE /\ live' = [freed EXCEPT ![s] = back]
             /\ tx' = [Failing(tx) EXCEPT
                       !.protected = IF back = tx.want[s] THEN prot \ {s} ELSE prot,
                       !.touched = IF back = tx.want[s] THEN touch \ {s} ELSE touch]
             /\ UNCHANGED left
    <3> HIDE DEF freed, back, prot, touch
    <3> QED
      BY <1>1, <1>2, <1>3, <2>1, <2>2, <2>4 DEF Failing, TxType
  <2>5. CASE /\ live' = freed
             /\ left' = left \cup {<<s, back>>}
             /\ tx' = [Failing(tx) EXCEPT !.protected = prot, !.touched = touch]
    <3> HIDE DEF freed, back, prot, touch
    <3>1. /\ tx' \in TxType /\ tx'.eff = NoEffect /\ tx'.step = "none" /\ tx'.held = Absent
          /\ tx'.phase = "failing" /\ tx'.journal = tx.journal /\ tx'.shape = tx.shape
      BY <1>1, <1>3, <2>2, <2>5 DEF Failing, TxType
    <3> QED
      BY <1>1, <1>2, <2>1, <2>5, <3>1
  <2> QED
    BY <1>6, <2>3, <2>4, <2>5 DEF RecoverMove
<1> QED
  BY <1>4, <1>5, <1>6

LEMMA TypeInvInit == Init => TypeInv
BY ConstantsAssumption, IdleType DEF Init, TypeInv, TypeOK, Running, Idle

LEMMA TypeInvStep == TypeInv /\ [Next]_vars => TypeInv'
<1> SUFFICES ASSUME TypeInv, [Next]_vars PROVE TypeInv'
  OBVIOUS
<1> USE ConstantsAssumption
<1>a. /\ tx \in TxType /\ live \in [Members -> Entries] /\ left \subseteq Members \X Entries
      /\ (tx.eff = NoEffect => tx.step = "none" /\ tx.held = Absent)
      /\ dirs \subseteq DirType /\ outcome \in {"none", "ok", "clean", "broken"}
      /\ valued \in [Members -> Entries] /\ forgotten \subseteq Members
      /\ spent \in [mutations : Nat, edits : Nat, faults : Nat, crashes : Nat]
      /\ Running
  BY DEF TypeInv, TypeOK
<1>b. Absent \in Entries /\ Written \in Entries /\ Dir \in Entries
  BY DEF Entries, Contents
<1>c. \A s \in tx.shape : s \in Shapes /\ tx.phase # "idle"
  BY <1>a DEF TxType, Running, Idle
<1> DEFINE Rest == /\ dirs' \subseteq DirType /\ outcome' \in {"none", "ok", "clean", "broken"}
                   /\ valued' \in [Members -> Entries] /\ forgotten' \subseteq Members
                   /\ spent' \in [mutations : Nat, edits : Nat, faults : Nat, crashes : Nat]
           Disk == live' \in [Members -> Entries] /\ left' \subseteq Members \X Entries
           Tx == /\ tx' \in TxType
                 /\ tx'.eff = NoEffect => tx'.step = "none" /\ tx'.held = Absent
                 /\ tx'.eff # NoEffect => tx'.phase = "applying" /\ tx'.step # "none"
                 /\ tx.phase # "idle" /\ tx'.phase # "idle"
                 /\ tx'.journal \in {tx.journal, "planned", "applying", "validating", "rolling-back"}
                 /\ tx'.shape = tx.shape
<1>d. ASSUME Rest, Disk, Tx PROVE TypeInv'
  <2>1. Running'
    BY <1>a, <1>d DEF Running
  <2> QED
    BY <1>d, <2>1 DEF TypeInv, TypeOK
<1>e. ASSUME Rest, Disk, tx' = Idle PROVE TypeInv'
  <2>1. tx'.phase = "idle" /\ tx'.eff = NoEffect /\ tx'.step = "none" /\ tx'.held = Absent
    BY <1>e DEF Idle
  <2> QED
    BY <1>e, <2>1, IdleType DEF TypeInv, TypeOK, Running
<1>f. UNCHANGED <<dirs, outcome, valued, forgotten, spent>> => Rest
  BY <1>a
<1>g. ASSUME Raise, tx.phase # "idle" PROVE Disk /\ Tx
  BY <1>a, <1>b, <1>g DEF Raise, Failing, TxType
<1>h. ASSUME tx.step # "none", tx.phase = "applying", RestoreCustody \/ LeaveCustody \/ RecoverMove
      PROVE  Disk /\ Tx
  BY <1>a, <1>h, RecoveryType
<1>1. ASSUME NEW s \in Shapes, Begin(s) PROVE TypeInv'
  <2>1. Effects(s) \subseteq Effect
    BY EffectsType
  <2>2. tx' \in TxType
    BY <1>1, <1>a, <1>b, <2>1, ZenonT(40) DEF Begin, Idle, TxType
  <2>3. /\ tx'.eff = NoEffect /\ tx'.step = "none" /\ tx'.held = Absent /\ tx'.phase = "planned"
        /\ tx'.shape = {s} /\ tx'.journal = "planned"
    BY <1>1 DEF Begin, Idle
  <2>4. Rest /\ Disk
    BY <1>1, <1>a, SpendType DEF Begin, TypeInv
  <2> QED
    BY <2>2, <2>3, <2>4 DEF TypeInv, TypeOK, Running
<1>2. ASSUME NEW s \in tx.shape, Snapshot(s) PROVE TypeInv'
  <2>1. Rest
    BY <1>2, <1>f DEF Snapshot
  <2>2. SnapshotTargets(s, live) \subseteq Members
    BY <1>c, EffectsType
  <2>3. CASE Raise
    BY <1>2, <1>d, <1>g, <2>1, <2>3 DEF Snapshot
  <2>4. CASE ~Raise
    <3>1. /\ tx.phase = "planned" /\ UNCHANGED <<live, left>>
          /\ tx' = [tx EXCEPT !.phase = "snapshotted", !.snap = live,
                              !.owned = SnapshotTargets(s, live)]
      BY <1>2, <2>4 DEF Snapshot
    <3> QED
      BY <1>a, <1>d, <2>1, <2>2, <3>1 DEF TxType, Running
  <2> QED
    BY <2>3, <2>4
<1>3. ASSUME NEW s \in tx.shape, Reverify(s) PROVE TypeInv'
  <2>1. Rest
    BY <1>3, <1>f DEF Reverify
  <2>3. CASE Raise
    BY <1>3, <1>d, <1>g, <2>1, <2>3 DEF Reverify
  <2>4. CASE ~Raise
    BY <1>3, <1>a, <1>d, <2>1, <2>4 DEF Reverify, TxType, Running
  <2> QED
    BY <2>3, <2>4
<1>4. CASE Capture
  BY <1>4, <1>a, <1>d DEF Capture, TxType, Running
<1>5. ASSUME NEW e \in tx.pending, StartEffect(e) PROVE TypeInv'
  <2>1. Rest /\ left' = left /\ tx.phase = "applying" /\ tx.eff = NoEffect
    BY <1>5, <1>f DEF StartEffect
  <2> DEFINE t == [tx EXCEPT !.pending = @ \ {e}, !.attempted = TRUE]
  <2>2. /\ t \in TxType /\ t.eff = NoEffect /\ t.step = "none" /\ t.held = Absent
        /\ t.phase = "applying" /\ t.journal = tx.journal /\ t.shape = tx.shape
    BY <1>a, <2>1 DEF TxType
  <2>3. e \in Effect /\ e.member \in Members /\ e.dest \in Members
    <3>1. e \in Effect
      BY <1>a DEF TxType
    <3> QED
      BY <3>1 DEF Effect
  <2> HIDE DEF t
  <2>4. CASE Simple(e, t)
    BY <1>a, <1>b, <1>d, <2>1, <2>2, <2>3, <2>4 DEF Simple, TxType
  <2>5. CASE TakeCustody(e, t)
    <3>1. live' \in [Members -> Entries] /\ live[e.member] \in Entries
      BY <1>a, <1>b, <2>3, <2>5 DEF TakeCustody
    <3>2. tx' \in TxType /\ tx'.eff = e /\ tx'.step = "check" /\ tx'.phase = "applying" /\ tx'.journal = tx.journal
          /\ tx'.shape = tx.shape
      BY <2>2, <2>3, <2>5, <3>1, ZenonT(40) DEF TakeCustody, TxType
    <3>3. e # NoEffect
      BY <2>3, NotAnEffect
    <3> QED
      BY <1>a, <1>d, <2>1, <3>1, <3>2, <3>3
  <2>6. CASE tx' = Failing(t) /\ UNCHANGED <<live, left>>
    <3>1. tx' \in TxType /\ tx'.eff = NoEffect /\ tx'.step = "none" /\ tx'.held = Absent
      BY <2>2, <2>6, FailingType
    <3>2. tx'.phase = "failing" /\ tx'.journal = t.journal /\ tx'.shape = t.shape
      BY <2>2, <2>6 DEF Failing, TxType
    <3> QED
      BY <1>a, <1>d, <2>1, <2>2, <2>6, <3>1, <3>2
  <2> QED
    BY <1>5, <2>4, <2>5, <2>6 DEF StartEffect, t
<1>6. CASE CheckEffect
  <2>1. Rest /\ tx.phase = "applying" /\ tx.step = "check" /\ tx.eff # NoEffect
    BY <1>6, <1>a, <1>f DEF CheckEffect
  <2>2. CASE RestoreCustody \/ LeaveCustody \/ RecoverMove
    BY <1>d, <1>h, <2>1, <2>2
  <2>3. CASE tx' = [tx EXCEPT !.step = "install"] /\ UNCHANGED <<live, left>>
    BY <1>a, <1>d, <2>1, <2>3 DEF TxType
  <2> QED
    BY <1>6, <2>2, <2>3 DEF CheckEffect
<1>7. CASE InstallEffect
  <2>1. Rest /\ tx.phase = "applying" /\ tx.step = "install" /\ tx.eff # NoEffect
    BY <1>7, <1>a, <1>f DEF InstallEffect
  <2>2. tx.eff.member \in Members /\ tx.eff.dest \in Members /\ tx.held \in Entries
    BY <1>a, <2>1, UnderWay DEF TypeInv, TxType
  <2>3. CASE RestoreCustody \/ LeaveCustody \/ RecoverMove
    BY <1>d, <1>h, <2>1, <2>3
  <2>4. CASE tx' = Done(tx) /\ UNCHANGED <<live, left>>
    BY <1>a, <1>b, <1>d, <2>1, <2>4 DEF Done, TxType
  <2>5. CASE /\ live' = [live EXCEPT ![tx.eff.member] = Written]
             /\ tx' = [tx EXCEPT !.step = "seal"] /\ UNCHANGED left
    BY <1>a, <1>b, <1>d, <2>1, <2>2, <2>5 DEF TxType
  <2>6. CASE /\ live' = [live EXCEPT ![tx.eff.dest] = tx.held]
             /\ tx' = [tx EXCEPT !.step = "seal", !.held = Absent,
                                 !.touched = @ \cup {tx.eff.member, tx.eff.dest}]
             /\ UNCHANGED left
    BY <1>a, <1>b, <1>d, <2>1, <2>2, <2>6 DEF TxType
  <2> QED
    BY <1>7, <2>3, <2>4, <2>5, <2>6 DEF InstallEffect
<1>8. CASE SealEffect
  <2>1. Rest /\ tx.phase = "applying" /\ tx.step = "seal"
    BY <1>8, <1>f DEF SealEffect
  <2>2. CASE RestoreCustody \/ LeaveCustody \/ RecoverMove
    BY <1>d, <1>h, <2>1, <2>2
  <2>3. CASE tx' = Done(tx) /\ UNCHANGED <<live, left>>
    BY <1>a, <1>b, <1>d, <2>1, <2>3 DEF Done, TxType
  <2>4. CASE /\ tx' = [Done(tx) EXCEPT !.protected = @ \ {tx.eff.member, tx.eff.dest}]
             /\ UNCHANGED <<live, left>>
    BY <1>a, <1>b, <1>d, <2>1, <2>4 DEF Done, TxType
  <2> QED
    BY <1>8, <2>2, <2>3, <2>4 DEF SealEffect
<1>9. CASE Fault
  <2>1. Rest
    BY <1>9, <1>a, SpendType DEF Fault, TypeInv
  <2>2. CASE Raise /\ tx.phase # "idle"
    BY <1>d, <1>g, <2>1, <2>2
  <2>3. CASE tx.step # "none" /\ (RestoreCustody \/ LeaveCustody \/ RecoverMove)
    <3>1. tx.phase = "applying"
      BY <1>a, <2>3 DEF Running
    <3> QED
      BY <1>d, <1>h, <2>1, <2>3, <3>1
  <2>4. tx.eff.kind = "move" => tx.step # "none"
    BY <1>a DEF Running, NoEffect
  <2> QED
    BY <1>9, <2>2, <2>3, <2>4 DEF Fault
<1>10. CASE EffectsLanded
  BY <1>10, <1>a, <1>d DEF EffectsLanded, TxType
<1>11. CASE PostconditionsFail
  BY <1>11, <1>d, <1>f, <1>g DEF PostconditionsFail
<1>12. ASSUME NEW s \in tx.shape, Complete(s) PROVE TypeInv'
  <2>1. Directory(tx, "complete", TRUE) \in DirType
    BY <1>a DEF Directory, DirType, TxType
  <2> DEFINE ds == dirs \cup {Directory(tx, "complete", TRUE)}
  <2>2. ds \subseteq DirType
    BY <1>a, <2>1
  <2>3. dirs' \subseteq ds /\ forgotten' = forgotten \cup Unrestored(Stale(ds)) /\ Stale(ds) \subseteq ds
    BY <1>12 DEF Complete, Stale
  <2> HIDE DEF ds
  <2>4. Unrestored(Stale(ds)) \subseteq Members
    BY <2>2, <2>3 DEF Unrestored, DirType
  <2>5. Rest /\ Disk /\ tx' = Idle
    BY <1>12, <1>a, <2>2, <2>3, <2>4 DEF Complete
  <2> QED
    BY <1>e, <2>5
<1>13. CASE RemoveTouched
  <2>1. Rest
    BY <1>13, <1>a, SpendType DEF RemoveTouched, TypeInv
  <2> QED
    <3>1. /\ tx.phase = "failing" /\ left' = left
          /\ tx' \in {[tx EXCEPT !.phase = "removed", !.journal = "rolling-back"],
                      [tx EXCEPT !.phase = "restored", !.bad = TRUE, !.journal = "rolling-back"]}
      BY <1>13 DEF RemoveTouched
    <3>2. live' \in [Members -> Entries]
      BY <1>13, <1>a, <1>b DEF RemoveTouched
    <3>3. Tx
      <4>1. CASE tx' = [tx EXCEPT !.phase = "removed", !.journal = "rolling-back"]
        BY <1>a, <3>1, <4>1 DEF TxType, Running
      <4>2. CASE tx' = [tx EXCEPT !.phase = "restored", !.bad = TRUE, !.journal = "rolling-back"]
        BY <1>a, <3>1, <4>2 DEF TxType, Running
      <4> QED
        BY <3>1, <4>1, <4>2
    <3> QED
      BY <1>a, <1>d, <2>1, <3>1, <3>2, <3>3
<1>14. CASE CopyBack
  <2>1. Rest
    BY <1>14, <1>a, SpendType DEF CopyBack, TypeInv
  <2> QED
    <3>1. /\ tx.phase = "removed" /\ left' = left
          /\ tx' \in {[tx EXCEPT !.phase = "restored"],
                      [tx EXCEPT !.phase = "restored", !.bad = TRUE]}
      BY <1>14 DEF CopyBack
    <3>2. live' \in [Members -> Entries]
      <4>1. tx.snap \in [Members -> Entries]
        BY <1>a DEF TxType
      <4> QED
        BY <1>14, <1>a, <4>1 DEF CopyBack
    <3>3. Tx
      <4>1. CASE tx' = [tx EXCEPT !.phase = "restored"]
        BY <1>a, <3>1, <4>1 DEF TxType, Running
      <4>2. CASE tx' = [tx EXCEPT !.phase = "restored", !.bad = TRUE]
        BY <1>a, <3>1, <4>2 DEF TxType, Running
      <4> QED
        BY <3>1, <4>1, <4>2
    <3> QED
      BY <1>a, <1>d, <2>1, <3>1, <3>2, <3>3
<1>15. CASE RolledBack
  <2>1. \A c \in BOOLEAN : \A st \in {"rolled-back", "rolling-back"} : Directory(tx, st, c) \in DirType
    BY <1>a DEF Directory, DirType, TxType
  <2>2. valued' \in [Members -> Entries]
    BY <1>15, <1>a DEF RolledBack, Settled
  <2>3. Disk /\ tx' = Idle
    BY <1>15, <1>a DEF RolledBack
  <2>4. dirs' \subseteq DirType /\ outcome' \in {"clean", "broken"}
    BY <1>15, <1>a, <2>1 DEF RolledBack
  <2>5. spent' \in [mutations : Nat, edits : Nat, faults : Nat, crashes : Nat] /\ forgotten' = forgotten
    BY <1>15, <1>a, SpendType DEF RolledBack, TypeInv
  <2> QED
    BY <1>a, <1>e, <2>2, <2>3, <2>4, <2>5
<1>16. CASE Crash
  <2>1. tx.journal # "none"
    BY <1>16, <1>a DEF Crash, Running
  <2>2. Directory(tx, tx.journal, FALSE) \in DirType
    BY <1>a, <2>1 DEF Directory, DirType, TxType
  <2>3. left' \subseteq Members \X Entries
    <3>1. CASE tx.held = Absent
      BY <1>16, <1>a, <3>1 DEF Crash
    <3>2. CASE tx.held # Absent
      <4>1. tx.eff.member \in Members /\ tx.held \in Entries
        BY <1>a, <3>2, UnderWay DEF TypeInv, TxType
      <4> QED
        BY <1>16, <1>a, <4>1 DEF Crash
    <3> QED
      BY <3>1, <3>2
  <2>4. valued' \in [Members -> Entries]
    BY <1>16, <1>a DEF Crash, Settled
  <2>5. Rest /\ Disk /\ tx' = Idle
    BY <1>16, <1>a, <2>2, <2>3, <2>4, SpendType DEF Crash, TypeInv
  <2> QED
    BY <1>e, <2>5
<1>17. ASSUME NEW m \in Members, NEW c \in Edits \cup {Absent}, Edit(m, c) PROVE TypeInv'
  <2>1. c \in Entries
    BY DEF Entries, Contents
  <2>2. Rest /\ Disk
    BY <1>17, <1>a, <1>b, <2>1, SpendType DEF Edit, TypeInv
  <2>3. CASE tx.phase = "idle"
    <3>1. tx = Idle
      BY <1>a, <2>3 DEF Running
    <3>2. m \notin InHands
      BY <3>1 DEF InHands, Idle
    <3>3. tx' = [tx EXCEPT !.base[m] = tx.base[m]]
      BY <1>17, <2>3, <3>2 DEF Edit
    <3>4. tx' = Idle
      BY <3>1, <3>3 DEF Idle
    <3> QED
      BY <1>e, <2>2, <3>4
  <2>4. CASE tx.phase # "idle"
    <3>1. CASE tx' = [tx EXCEPT !.late = @ \cup {m}]
      BY <1>a, <1>d, <2>2, <2>4, <3>1 DEF TxType, Running
    <3>2. CASE tx' = [tx EXCEPT !.base[m] = c]
      BY <1>a, <1>d, <2>1, <2>2, <2>4, <3>2 DEF TxType, Running
    <3> QED
      BY <1>17, <2>4, <3>1, <3>2 DEF Edit
  <2> QED
    BY <2>3, <2>4
<1>18. CASE UNCHANGED vars
  BY <1>18, <1>a DEF vars, TypeInv, TypeOK, Running
<1> QED
  BY <1>1, <1>2, <1>3, <1>4, <1>5, <1>6, <1>7, <1>8, <1>9, <1>10, <1>11, <1>12, <1>13, <1>14, <1>15,
     <1>16, <1>17, <1>18 DEF Next

LEMMA TypeInvariant == Spec => []TypeInv
BY TypeInvInit, TypeInvStep, PTL DEF Spec

\* Every variable keeps its type, and between two effects the executor has nothing in
\* custody, whatever raised inside the last one.
THEOREM TypeCorrect == Spec => []TypeOK
<1>1. TypeInv => TypeOK
  BY DEF TypeInv
<1> QED
  BY <1>1, TypeInvariant, PTL

-----------------------------------------------------------------------------
(***************************************************************************)
(* The invariant of a mutation in progress.  A commit must find every      *)
(* effect landed and a clean rollback every member as the readers were     *)
(* promised it, so the invariant says for each member, unless an editor    *)
(* raced for it, which of three it is: untouched, in the middle of an      *)
(* effect, or changed by an effect and restorable.                         *)
(***************************************************************************)

Begun(s) == Effects(s) \ tx.pending

\* What the plan moves away or deletes.
Sources(s) == s.deletes \cup {p[1] : p \in s.moves}

\* What custody of e has to find.
Expected(e) == IF e.kind = "write" THEN tx.seen[e.member] ELSE tx.want[e.member]

InPlan(s) ==
    /\ tx.pending \subseteq Effects(s)
    /\ tx.eff # NoEffect => /\ tx.eff \in Begun(s) /\ tx.eff.kind # "mkdir"
                            /\ tx.eff.kind = "delete" => tx.step # "seal"
    /\ tx.phase \in {"planned", "snapshotted", "verified"} => ~tx.attempted
    /\ ~tx.attempted => tx.pending = Effects(s) /\ tx.touched = {} /\ tx.protected = {}
    /\ tx.phase = "validating" => tx.pending = {}
    /\ tx.touched \subseteq Named(Begun(s)) /\ tx.protected \subseteq Named(Begun(s))
    /\ \A p \in s.moves : p[1] # p[2]

\* The snapshot has what the plan was made for and what the capture found.
Snapshotted(s) ==
    /\ tx.phase \in {"snapshotted", "verified", "applying"} =>
         /\ tx.owned = SnapshotTargets(s, tx.snap)
         /\ \A m \in s.writes : tx.snap[m] = tx.seen[m]
         /\ \A p \in s.moves : tx.snap[p[2]] = Absent
         /\ \A m \in (s.mkdirs \ tx.owned) \ tx.late : live[m] # Absent
    /\ tx.phase \in {"snapshotted", "verified"} =>
         \A m \in Sources(s) \ tx.late : live[m] = tx.snap[m]
    /\ tx.phase = "applying" => \A m \in Sources(s) \ tx.late : tx.want[m] = tx.snap[m]

Untouched(s) ==
    \A m \in Members \ (tx.late \cup Named(Begun(s))) : live[m] = tx.base[m]

Landed(e) ==
    /\ e.kind = "mkdir" /\ e.member \notin tx.late =>
         live[e.member] = IF tx.base[e.member] = Absent THEN Dir ELSE tx.base[e.member]
    /\ e.kind = "write" /\ e.member \notin tx.late => live[e.member] = Written
    /\ e.kind \in {"move", "delete"} /\ e.member \notin tx.late => live[e.member] = Absent
    /\ e.kind = "move" /\ e.member \notin tx.late /\ e.dest \notin tx.late =>
         live[e.dest] = tx.base[e.member]

AllLanded(s) ==
    tx.phase \in {"applying", "validating"} => \A e \in Begun(s) \ {tx.eff} : Landed(e)

InCustody(e) ==
    /\ e.member \notin tx.late =>
         /\ live[e.member] = IF e.kind = "write" /\ tx.step = "seal" THEN Written ELSE Absent
         /\ ~(e.kind = "move" /\ tx.step = "seal") => tx.held = tx.base[e.member]
         /\ tx.step # "check" => tx.base[e.member] = Expected(e)
    /\ e.kind = "move" =>
         /\ e.member \in tx.protected /\ e.dest \in tx.protected
         /\ e.dest \notin tx.late =>
              /\ tx.step # "seal" => live[e.dest] = tx.base[e.dest] /\ e.dest \notin tx.touched
              /\ tx.step = "seal" => tx.base[e.dest] = Absent

Custody == tx.eff # NoEffect => InCustody(tx.eff)

Backed(m) == m \in tx.owned /\ tx.snap[m] = tx.base[m]

\* A rollback leaves m as promised, or says that it could not.
Recoverable(m) ==
    /\ m \in tx.touched \ tx.protected => Backed(m)
    /\ live[m] = tx.base[m] \/ m \in tx.protected \/ Backed(m)

Restorable ==
    \A m \in Members \ tx.late : ~(tx.step = "check" /\ m = tx.eff.member) => Recoverable(m)

InOrder(s) == InPlan(s) /\ Snapshotted(s) /\ Untouched(s) /\ AllLanded(s) /\ Custody /\ Restorable

MutationInv == \A s \in tx.shape : InOrder(s)

-----------------------------------------------------------------------------
(***************************************************************************)
(* Effects and their members.                                              *)
(***************************************************************************)

LEMMA EffectKinds ==
    ASSUME NEW s \in Shapes, NEW e \in Effects(s)
    PROVE  /\ e \in Effect /\ e.member \in Members /\ e.dest \in Members
           /\ e.kind \in Kinds /\ e # NoEffect
           /\ e.kind = "mkdir" <=> e.member \in s.mkdirs
           /\ e.kind = "mkdir" => e.dest = e.member
           /\ e.kind = "write" => e.member \in s.writes /\ e.dest = e.member
           /\ e.kind = "delete" => e.member \in s.deletes /\ e.dest = e.member
           /\ e.kind = "move" => <<e.member, e.dest>> \in s.moves
<1>1. e \in Effect /\ s \in ShapeType
  BY EffectsType
<1>2. e.member \in Members /\ e.dest \in Members /\ e.kind \in Kinds /\ e # NoEffect
  BY <1>1, NotAnEffect DEF Effect
<1>3. /\ e.kind = "mkdir" => e.member \in s.mkdirs /\ e.dest = e.member
      /\ e.kind = "write" => e.member \in s.writes /\ e.dest = e.member
      /\ e.kind = "delete" => e.member \in s.deletes /\ e.dest = e.member
  BY DEF Effects
<1>4. e.kind = "move" => <<e.member, e.dest>> \in s.moves
  <2> SUFFICES ASSUME e.kind = "move" PROVE <<e.member, e.dest>> \in s.moves
    OBVIOUS
  <2>1. PICK p \in s.moves : e = [kind |-> "move", member |-> p[1], dest |-> p[2]]
    BY DEF Effects
  <2>2. p = <<p[1], p[2]>>
    BY <1>1 DEF ShapeType
  <2> QED
    BY <2>1, <2>2
<1>5. e.member \in s.mkdirs => e.kind = "mkdir"
  <2> SUFFICES ASSUME e.member \in s.mkdirs PROVE e.kind = "mkdir"
    OBVIOUS
  <2> DEFINE f == [kind |-> "mkdir", member |-> e.member, dest |-> e.member]
  <2>1. f \in Effects(s) /\ f.member = e.member /\ f.kind = "mkdir"
    BY DEF Effects
  <2> HIDE DEF f
  <2>2. e = f
    BY <2>1, EffectsAssumption
  <2> QED
    BY <2>1, <2>2
<1> QED
  BY <1>1, <1>2, <1>3, <1>4, <1>5

LEMMA Apart ==
    ASSUME NEW s \in Shapes, NEW e \in Effects(s), NEW f \in Effects(s), e # f
    PROVE  e.member # f.member /\ e.member # f.dest /\ e.dest # f.member /\ e.dest # f.dest
BY EffectsAssumption

\* The effects a plan's parts stand for.
LEMMA EffectsOf ==
    ASSUME NEW s \in Shapes
    PROVE  /\ \A m \in s.mkdirs : \E e \in Effects(s) : e.kind = "mkdir" /\ e.member = m /\ e.dest = m
           /\ \A m \in s.writes : \E e \in Effects(s) : e.kind = "write" /\ e.member = m /\ e.dest = m
           /\ \A m \in s.deletes : \E e \in Effects(s) : e.kind = "delete" /\ e.member = m /\ e.dest = m
           /\ \A p \in s.moves : \E e \in Effects(s) : e.kind = "move" /\ e.member = p[1] /\ e.dest = p[2]
<1>1. ASSUME NEW m \in s.mkdirs PROVE \E e \in Effects(s) : e.kind = "mkdir" /\ e.member = m /\ e.dest = m
  <2>1. [kind |-> "mkdir", member |-> m, dest |-> m] \in Effects(s)
    BY DEF Effects
  <2> QED
    BY <2>1
<1>2. ASSUME NEW m \in s.writes PROVE \E e \in Effects(s) : e.kind = "write" /\ e.member = m /\ e.dest = m
  <2>1. [kind |-> "write", member |-> m, dest |-> m] \in Effects(s)
    BY DEF Effects
  <2> QED
    BY <2>1
<1>3. ASSUME NEW m \in s.deletes PROVE \E e \in Effects(s) : e.kind = "delete" /\ e.member = m /\ e.dest = m
  <2>1. [kind |-> "delete", member |-> m, dest |-> m] \in Effects(s)
    BY DEF Effects
  <2> QED
    BY <2>1
<1>4. ASSUME NEW p \in s.moves PROVE \E e \in Effects(s) : e.kind = "move" /\ e.member = p[1] /\ e.dest = p[2]
  <2>1. [kind |-> "move", member |-> p[1], dest |-> p[2]] \in Effects(s)
    BY DEF Effects
  <2> QED
    BY <2>1
<1> QED
  BY <1>1, <1>2, <1>3, <1>4

\* Everything but a directory found in place is in the snapshot.
LEMMA Owned ==
    ASSUME NEW s \in Shapes, NEW e \in Effects(s), NEW b
    PROVE  /\ e.kind # "mkdir" => e.member \in SnapshotTargets(s, b) /\ e.dest \in SnapshotTargets(s, b)
           /\ e.kind = "mkdir" => (e.member \in SnapshotTargets(s, b) <=> b[e.member] = Absent)
<1>1. e.member \in Named(Effects(s)) /\ e.dest \in Named(Effects(s))
  BY DEF Named
<1>2. e.kind = "mkdir" <=> e.member \in s.mkdirs
  BY EffectKinds
<1>3. ASSUME e.kind # "mkdir", e.dest \in s.mkdirs PROVE FALSE
  <2>1. PICK f \in Effects(s) : f.kind = "mkdir" /\ f.member = e.dest
    BY <1>3, EffectsOf
  <2>2. e = f
    BY <2>1, Apart
  <2> QED
    BY <1>3, <2>1, <2>2
<1> QED
  BY <1>1, <1>2, <1>3 DEF SnapshotTargets

\* The members of a begun effect are begun; those of a pending one are not.
LEMMA BegunMembers ==
    ASSUME NEW s \in Shapes, NEW e \in Effects(s)
    PROVE  /\ e \notin tx.pending => e.member \in Named(Begun(s)) /\ e.dest \in Named(Begun(s))
           /\ e \in tx.pending => e.member \notin Named(Begun(s)) /\ e.dest \notin Named(Begun(s))
<1>1. CASE e \notin tx.pending
  BY <1>1 DEF Named, Begun
<1>2. CASE e \in tx.pending
  <2>1. ASSUME NEW f \in Begun(s)
        PROVE  e.member # f.member /\ e.member # f.dest /\ e.dest # f.member /\ e.dest # f.dest
    BY <1>2, Apart DEF Begun
  <2> QED
    BY <1>2, <2>1 DEF Named
<1> QED
  BY <1>1, <1>2

-----------------------------------------------------------------------------
(***************************************************************************)
(* What the steps do to the transaction, field by field.                   *)
(***************************************************************************)

KeepPlan == tx'.shape = tx.shape /\ tx'.seen = tx.seen /\ tx'.base = tx.base

KeepSnapshot == tx'.snap = tx.snap /\ tx'.owned = tx.owned /\ tx'.want = tx.want

KeepWork == tx'.pending = tx.pending /\ tx'.attempted = tx.attempted

KeepMarks == tx'.touched = tx.touched /\ tx'.protected = tx.protected

Released == tx'.eff = NoEffect /\ tx'.step = "none" /\ tx'.held = Absent

Fails == tx'.phase = "failing" /\ KeepPlan /\ KeepSnapshot /\ KeepWork /\ Released

LEMMA RaiseEffect ==
    ASSUME TypeInv, Raise
    PROVE  Fails /\ KeepMarks /\ tx'.late = tx.late /\ live' = live
BY DEF TypeInv, TypeOK, TxType, Raise, Failing, Fails, KeepPlan, KeepSnapshot, KeepWork, KeepMarks,
       Released

\* The steps between effects: nothing is touched.
Quiet(s) ==
    /\ live' = live /\ KeepPlan /\ KeepWork /\ KeepMarks /\ tx'.late = tx.late
    /\ tx.eff = NoEffect /\ Released
    /\ \/ tx'.phase = "failing" /\ KeepSnapshot
       \/ /\ tx.phase = "planned" /\ tx'.phase = "snapshotted" /\ Preflight(s)
          /\ tx'.snap = live /\ tx'.owned = SnapshotTargets(s, live) /\ tx'.want = tx.want
       \/ tx.phase = "snapshotted" /\ tx'.phase = "verified" /\ KeepSnapshot
       \/ /\ tx.phase = "verified" /\ tx'.phase = "applying"
          /\ tx'.snap = tx.snap /\ tx'.owned = tx.owned /\ tx'.want = live
       \/ /\ tx.phase = "applying" /\ tx.pending = {} /\ tx'.phase = "validating" /\ KeepSnapshot

LEMMA QuietEffect ==
    ASSUME TypeInv, NEW s \in tx.shape,
           \/ Snapshot(s) \/ Reverify(s) \/ Capture \/ EffectsLanded \/ PostconditionsFail
           \/ Raise /\ tx.eff = NoEffect
    PROVE  Quiet(s)
<1>1. tx \in TxType /\ (tx.phase # "applying" => tx.eff = NoEffect)
      /\ (tx.eff = NoEffect => tx.step = "none" /\ tx.held = Absent)
  BY DEF TypeInv, TypeOK, Running
<1>2. CASE Raise /\ tx.eff = NoEffect
  BY <1>2, RaiseEffect DEF Quiet, Fails
<1>3. CASE PostconditionsFail
  BY <1>1, <1>2, <1>3 DEF PostconditionsFail
<1>4. CASE Snapshot(s)
  <2>1. CASE ~Raise
    <3>1. /\ tx.phase = "planned" /\ live' = live /\ Preflight(s)
          /\ tx' = [tx EXCEPT !.phase = "snapshotted", !.snap = live,
                              !.owned = SnapshotTargets(s, live)]
      BY <1>4, <2>1 DEF Snapshot
    <3> QED
      BY <1>1, <3>1 DEF TxType, Quiet, KeepPlan, KeepWork, KeepMarks, Released
  <2> QED
    BY <1>1, <1>2, <1>4, <2>1 DEF Snapshot
<1>5. CASE Reverify(s)
  <2>1. CASE ~Raise
    BY <1>1, <1>5, <2>1
       DEF Reverify, TxType, Quiet, KeepPlan, KeepWork, KeepMarks, Released, KeepSnapshot
  <2> QED
    BY <1>1, <1>2, <1>5, <2>1 DEF Reverify
<1>6. CASE Capture
  BY <1>1, <1>6 DEF Capture, TxType, Quiet, KeepPlan, KeepWork, KeepMarks, Released
<1>7. CASE EffectsLanded
  BY <1>1, <1>7
     DEF EffectsLanded, TxType, Quiet, KeepPlan, KeepWork, KeepMarks, Released, KeepSnapshot
<1> QED
  BY <1>2, <1>3, <1>4, <1>5, <1>6, <1>7

\* An effect that raises in custody.
LEMMA RestoreEffect ==
    ASSUME TypeInv, tx.step # "none", RestoreCustody
    PROVE  /\ Fails /\ tx'.late = tx.late
           /\ \/ /\ live[tx.eff.member] = Absent
                 /\ live' = [live EXCEPT ![tx.eff.member] = tx.held] /\ left' = left
                 /\ tx'.touched = tx.touched \ {tx.eff.member} /\ tx'.protected = tx.protected
              \/ /\ live[tx.eff.member] # Absent
                 /\ live' = live /\ left' = left \cup {<<tx.eff.member, tx.held>>}
                 /\ tx'.touched = tx.touched /\ tx'.protected = tx.protected \cup {tx.eff.member}
<1> USE DEF Fails, KeepPlan, KeepSnapshot, KeepWork, Released
<1>1. tx \in TxType
  BY DEF TypeInv, TypeOK
<1>2. CASE /\ live[tx.eff.member] = Absent
           /\ live' = [live EXCEPT ![tx.eff.member] = tx.held] /\ left' = left
           /\ tx' = [Failing(tx) EXCEPT !.touched = @ \ {tx.eff.member}]
  BY <1>1, <1>2 DEF Failing, TxType
<1>3. CASE /\ live[tx.eff.member] # Absent
           /\ live' = live /\ left' = left \cup {<<tx.eff.member, tx.held>>}
           /\ tx' = [Failing(tx) EXCEPT !.protected = @ \cup {tx.eff.member}]
  BY <1>1, <1>3 DEF Failing, TxType
<1> QED
  BY <1>2, <1>3 DEF RestoreCustody

LEMMA LeaveEffect ==
    ASSUME TypeInv, LeaveCustody
    PROVE  /\ Fails /\ KeepMarks /\ live' = live
           /\ left' = left \cup {<<tx.eff.member, tx.held>>}
           /\ tx'.late = IF tx.step = "check" THEN tx.late \cup {tx.eff.member} ELSE tx.late
<1>1. tx \in TxType
  BY DEF TypeInv, TypeOK
<1>2. live' = live /\ left' = left \cup {<<tx.eff.member, tx.held>>}
  BY DEF LeaveCustody
<1> USE DEF Fails, KeepPlan, KeepSnapshot, KeepWork, KeepMarks, Released
<1>3. CASE tx.step = "check"
  <2>1. tx' = [Failing(tx) EXCEPT !.late = @ \cup {tx.eff.member}]
    BY <1>3 DEF LeaveCustody
  <2> QED
    BY <1>1, <1>2, <1>3, <2>1 DEF Failing, TxType
<1>4. CASE tx.step # "check"
  <2>1. tx' = [Failing(tx) EXCEPT !.late = @]
    BY <1>4 DEF LeaveCustody
  <2> QED
    BY <1>1, <1>2, <1>4, <2>1 DEF Failing, TxType
<1> QED
  BY <1>3, <1>4

\* A move taken back: from custody, or from its destination.
TakesBack(m, d) ==
    \E back \in Entries :
      /\ back = IF tx.step = "seal" THEN live[d] ELSE tx.held
      /\ tx.step = "seal" => live[d] # Absent
      /\ \A x \in Members \ {m, d} : live'[x] = live[x]
      /\ live'[d] = IF tx.step = "seal" THEN Absent ELSE live[d]
      /\ live'[d] # Absent => d \in tx'.protected \/ d \notin tx.protected
      /\ tx'.touched \subseteq tx.touched /\ tx'.protected \subseteq tx.protected
      /\ \A x \in Members \ {m, d} : /\ x \in tx.touched => x \in tx'.touched
                                     /\ x \in tx.protected => x \in tx'.protected
      /\ tx.step = "seal" => d \notin tx'.touched
      /\ \/ /\ live[m] = Absent /\ live'[m] = back /\ left' = left
            /\ back = tx.want[m] => m \notin tx'.touched /\ m \notin tx'.protected
            /\ back # tx.want[m] => m \in tx'.protected \/ m \notin tx.protected
         \/ /\ live[m] # Absent /\ live'[m] = live[m]
            /\ left' = left \cup {<<m, back>>}
            /\ m \in tx'.protected \/ m \notin tx.protected

LEMMA RecoverEffect ==
    ASSUME TypeInv, tx.step # "none", RecoverMove, tx.eff.member # tx.eff.dest
    PROVE  /\ Fails /\ tx'.late = tx.late
           /\ \/ KeepMarks /\ live' = live /\ left' = left /\ tx.step = "seal"
              \/ TakesBack(tx.eff.member, tx.eff.dest)
<1> DEFINE m == tx.eff.member
           d == tx.eff.dest
<1> USE DEF Fails, KeepPlan, KeepSnapshot, KeepWork, Released, KeepMarks, TakesBack
<1>1. tx \in TxType /\ live \in [Members -> Entries] /\ tx.held \in Entries
  BY DEF TypeInv, TypeOK, TxType
<1>2. m \in Members /\ d \in Members
  BY UnderWay DEF TypeInv
<1> DEFINE landed == tx.step = "seal"
           back == IF landed THEN live[d] ELSE tx.held
           freed == IF landed THEN [live EXCEPT ![d] = Absent] ELSE live
           prot == IF freed[d] = Absent THEN tx.protected \ {d} ELSE tx.protected
           touch == IF landed THEN tx.touched \ {d} ELSE tx.touched
<1>3. back \in Entries
  BY <1>1, <1>2
<1>4. /\ \A x \in Members : freed[x] = IF landed /\ x = d THEN Absent ELSE live[x]
      /\ freed \in [Members -> Entries]
  BY <1>1, <1>2 DEF Entries
<1>5. CASE landed /\ Raise
  BY <1>5, RaiseEffect DEF Raise
<1>6. CASE /\ ~landed \/ live[d] # Absent
           /\ freed[m] = Absent
           /\ live' = [freed EXCEPT ![m] = back]
           /\ tx' = [Failing(tx) EXCEPT
                       !.protected = IF back = tx.want[m] THEN prot \ {m} ELSE prot,
                       !.touched = IF back = tx.want[m] THEN touch \ {m} ELSE touch]
           /\ left' = left
  <2>1. Fails /\ tx'.late = tx.late
    BY <1>1, <1>6 DEF Failing, TxType
  <2>2. /\ tx'.protected = IF back = tx.want[m] THEN prot \ {m} ELSE prot
        /\ tx'.touched = IF back = tx.want[m] THEN touch \ {m} ELSE touch
    <3> HIDE DEF prot, touch, back
    <3> QED
      BY <1>1, <1>6 DEF Failing, TxType
  <2>3. \A x \in Members : live'[x] = IF x = m THEN back ELSE freed[x]
    BY <1>2, <1>4, <1>6
  <2>4. live[m] = Absent
    BY <1>2, <1>4, <1>6
  <2>5. /\ tx'.touched \subseteq tx.touched /\ tx'.protected \subseteq tx.protected
        /\ \A x \in Members \ {m, d} : /\ x \in tx.touched => x \in tx'.touched
                                       /\ x \in tx.protected => x \in tx'.protected
        /\ landed => d \notin tx'.touched
        /\ back = tx.want[m] => m \notin tx'.touched /\ m \notin tx'.protected
        /\ back # tx.want[m] => m \in tx'.protected \/ m \notin tx.protected
    BY <1>2, <2>2
  <2>6. live'[d] # Absent => d \in tx'.protected \/ d \notin tx.protected
    BY <1>2, <1>4, <2>2, <2>3
  <2>7. TakesBack(m, d)
    BY <1>2, <1>3, <1>4, <1>6, <2>3, <2>4, <2>5, <2>6
  <2> QED
    BY <2>1, <2>7
<1>7. CASE /\ ~landed \/ live[d] # Absent
           /\ freed[m] # Absent
           /\ live' = freed
           /\ left' = left \cup {<<m, back>>}
           /\ tx' = [Failing(tx) EXCEPT !.protected = prot, !.touched = touch]
  <2>1. Fails /\ tx'.late = tx.late
    BY <1>1, <1>7 DEF Failing, TxType
  <2>2. tx'.protected = prot /\ tx'.touched = touch
    <3> HIDE DEF prot, touch, back
    <3> QED
      BY <1>1, <1>7 DEF Failing, TxType
  <2>3. live[m] # Absent /\ live'[m] = live[m]
    BY <1>2, <1>4, <1>7
  <2> QED
    BY <1>2, <1>3, <1>4, <1>7, <2>1, <2>2, <2>3
<1> QED
  BY <1>5, <1>6, <1>7 DEF RecoverMove

\* The first step of effect e.
Starts(e) ==
    /\ tx.phase = "applying" /\ tx.eff = NoEffect
    /\ KeepPlan /\ KeepSnapshot /\ tx'.late = tx.late
    /\ tx'.pending = tx.pending \ {e} /\ tx'.attempted = TRUE

Makes(e, made) ==
    /\ \/ e.kind = "mkdir" /\ made = Dir
       \/ e.kind = "write" /\ made = Written /\ tx.seen[e.member] = Absent
    /\ tx'.phase = "applying" /\ Released
    /\ live[e.member] = Absent /\ live' = [live EXCEPT ![e.member] = made]
    /\ tx'.touched = tx.touched \cup {e.member} /\ tx'.protected = tx.protected

FindsDone(e) ==
    /\ \/ e.kind = "mkdir" /\ live[e.member] = Dir
       \/ e.kind = "delete" /\ live[e.member] = Absent
    /\ tx'.phase = "applying" /\ Released /\ live' = live /\ KeepMarks

Takes(e) ==
    /\ e.kind # "mkdir" /\ live[e.member] # Absent
    /\ tx'.phase = "applying" /\ tx'.eff = e /\ tx'.step = "check" /\ tx'.held = live[e.member]
    /\ live' = [live EXCEPT ![e.member] = Absent]
    /\ tx'.touched = tx.touched \cup {e.member}
    /\ tx'.protected = IF e.kind = "move" THEN tx.protected \cup {e.member, e.dest} ELSE tx.protected

LEMMA StartsEffect ==
    ASSUME TypeInv, NEW e \in tx.pending, StartEffect(e)
    PROVE  /\ Starts(e) /\ left' = left
           /\ \/ \E made \in {Dir, Written} : Makes(e, made)
              \/ FindsDone(e)
              \/ Takes(e)
              \/ tx'.phase = "failing" /\ Released /\ live' = live /\ KeepMarks
<1> USE DEF KeepPlan, KeepSnapshot, KeepMarks, Released
<1>1. tx \in TxType /\ (tx.eff = NoEffect => tx.step = "none" /\ tx.held = Absent)
  BY DEF TypeInv, TypeOK
<1> DEFINE t == [tx EXCEPT !.pending = @ \ {e}, !.attempted = TRUE]
<1>2. /\ tx.phase = "applying" /\ tx.eff = NoEffect /\ left' = left
      /\ \/ Simple(e, t)
         \/ TakeCustody(e, t)
         \/ tx' = Failing(t) /\ live' = live
  BY DEF StartEffect
<1>3. /\ t \in TxType /\ t.phase = "applying" /\ t.eff = NoEffect /\ t.step = "none" /\ t.held = Absent
      /\ t.shape = tx.shape /\ t.seen = tx.seen /\ t.base = tx.base
      /\ t.snap = tx.snap /\ t.owned = tx.owned /\ t.want = tx.want /\ t.late = tx.late
      /\ t.touched = tx.touched /\ t.protected = tx.protected
      /\ t.pending = tx.pending \ {e} /\ t.attempted = TRUE
  BY <1>1, <1>2 DEF TxType
<1>4. e.kind \in Kinds
  BY <1>1 DEF TxType, Effect
<1> HIDE DEF t
<1>5. CASE Simple(e, t)
  <2>1. CASE /\ \/ e.kind = "mkdir" /\ live[e.member] = Dir
                \/ e.kind = "delete" /\ live[e.member] = Absent
             /\ tx' = t /\ live' = live
    BY <1>2, <1>3, <2>1 DEF Starts, FindsDone
  <2>2. CASE /\ e.kind = "mkdir" \/ (e.kind = "write" /\ tx.seen[e.member] = Absent)
             /\ live[e.member] = Absent
             /\ live' = [live EXCEPT ![e.member] = IF e.kind = "mkdir" THEN Dir ELSE Written]
             /\ tx' = [t EXCEPT !.touched = @ \cup {e.member}]
    <3>1. /\ tx'.phase = "applying" /\ tx'.eff = NoEffect /\ tx'.step = "none" /\ tx'.held = Absent
          /\ tx'.shape = tx.shape /\ tx'.seen = tx.seen /\ tx'.base = tx.base
          /\ tx'.snap = tx.snap /\ tx'.owned = tx.owned /\ tx'.want = tx.want /\ tx'.late = tx.late
          /\ tx'.touched = tx.touched \cup {e.member} /\ tx'.protected = tx.protected
          /\ tx'.pending = tx.pending \ {e} /\ tx'.attempted = TRUE
      BY <1>3, <2>2 DEF TxType
    <3>2. CASE e.kind = "mkdir"
      <4>1. Makes(e, Dir)
        BY <2>2, <3>1, <3>2 DEF Makes
      <4> QED
        BY <1>2, <3>1, <4>1 DEF Starts
    <3>3. CASE e.kind = "write" /\ tx.seen[e.member] = Absent
      <4>1. Makes(e, Written)
        BY <2>2, <3>1, <3>3 DEF Makes
      <4> QED
        BY <1>2, <3>1, <4>1 DEF Starts
    <3> QED
      BY <2>2, <3>2, <3>3
  <2> QED
    BY <1>5, <2>1, <2>2 DEF Simple
<1>6. CASE TakeCustody(e, t)
  <2>1. /\ tx'.phase = "applying" /\ tx'.eff = e /\ tx'.step = "check" /\ tx'.held = live[e.member]
        /\ tx'.shape = tx.shape /\ tx'.seen = tx.seen /\ tx'.base = tx.base
        /\ tx'.snap = tx.snap /\ tx'.owned = tx.owned /\ tx'.want = tx.want /\ tx'.late = tx.late
        /\ tx'.touched = tx.touched \cup {e.member}
        /\ tx'.pending = tx.pending \ {e} /\ tx'.attempted = TRUE
    BY <1>3, <1>6 DEF TakeCustody, TxType
  <2>2. tx'.protected = IF e.kind = "move" THEN tx.protected \cup {e.member, e.dest} ELSE tx.protected
    BY <1>3, <1>6 DEF TakeCustody, TxType
  <2> QED
    BY <1>2, <1>6, <2>1, <2>2 DEF TakeCustody, Starts, Takes
<1>7. CASE tx' = Failing(t) /\ live' = live
  <2>1. /\ tx'.phase = "failing" /\ tx'.eff = NoEffect /\ tx'.step = "none" /\ tx'.held = Absent
        /\ tx'.shape = tx.shape /\ tx'.seen = tx.seen /\ tx'.base = tx.base
        /\ tx'.snap = tx.snap /\ tx'.owned = tx.owned /\ tx'.want = tx.want /\ tx'.late = tx.late
        /\ tx'.touched = tx.touched /\ tx'.protected = tx.protected
        /\ tx'.pending = tx.pending \ {e} /\ tx'.attempted = TRUE
    BY <1>3, <1>7 DEF Failing, TxType
  <2> QED
    BY <1>2, <1>7, <2>1 DEF Starts
<1> QED
  BY <1>2, <1>5, <1>6, <1>7

\* The further steps of effect e = tx.eff.
Goes(e) ==
    /\ tx.phase = "applying" /\ tx'.phase = "applying" /\ e = tx.eff /\ tx.step # "none"
    /\ KeepPlan /\ KeepSnapshot /\ KeepWork /\ tx'.late = tx.late /\ left' = left

Finds(e) ==
    /\ tx.step = "check" /\ tx'.step = "install" /\ tx'.eff = e /\ tx'.held = tx.held
    /\ tx.held = Expected(e) /\ (e.kind # "write" => live[e.member] = Absent)
    /\ live' = live /\ KeepMarks

Deletes(e) == e.kind = "delete" /\ tx.step = "install" /\ Released /\ live' = live /\ KeepMarks

Writes(e) ==
    /\ e.kind = "write" /\ tx.step = "install" /\ tx'.step = "seal"
    /\ tx'.eff = e /\ tx'.held = tx.held /\ KeepMarks
    /\ live[e.member] = Absent /\ live' = [live EXCEPT ![e.member] = Written]

Moves(e) ==
    /\ e.kind = "move" /\ tx.step = "install" /\ tx'.step = "seal" /\ tx'.eff = e /\ tx'.held = Absent
    /\ live[e.dest] = Absent /\ live' = [live EXCEPT ![e.dest] = tx.held]
    /\ tx'.touched = tx.touched \cup {e.member, e.dest} /\ tx'.protected = tx.protected

SealsWrite(e) ==
    /\ e.kind = "write" /\ tx.step = "seal" /\ Released /\ live' = live /\ KeepMarks

SealsMove(e) ==
    /\ e.kind = "move" /\ tx.step = "seal" /\ Released /\ live' = live
    /\ live[e.dest] = tx.want[e.member] /\ live[e.member] = Absent
    /\ tx'.touched = tx.touched /\ tx'.protected = tx.protected \ {e.member, e.dest}

\* How an effect in custody ends in an exception.
Recovers ==
    /\ tx.step # "none" /\ tx.phase = "applying"
    /\ \/ tx.eff.kind \in {"write", "delete"} /\ (RestoreCustody \/ LeaveCustody)
       \/ tx.eff.kind = "move" /\ RecoverMove

LEMMA GoesEffect ==
    ASSUME TypeInv, CheckEffect \/ InstallEffect \/ SealEffect
    PROVE  \/ Recovers
           \/ /\ Goes(tx.eff)
              /\ \/ Finds(tx.eff) \/ Deletes(tx.eff) \/ Writes(tx.eff) \/ Moves(tx.eff)
                 \/ SealsWrite(tx.eff) \/ SealsMove(tx.eff)
<1> USE DEF KeepPlan, KeepSnapshot, KeepMarks, KeepWork, Released, Goes
<1>1. tx \in TxType
  BY DEF TypeInv, TypeOK
<1>2. CASE CheckEffect
  <2>1. CASE tx' = [tx EXCEPT !.step = "install"] /\ UNCHANGED <<live, left>>
             /\ tx.held = Expected(tx.eff) /\ (tx.eff.kind # "write" => live[tx.eff.member] = Absent)
    BY <1>1, <1>2, <2>1 DEF CheckEffect, TxType, Finds
  <2> QED
    BY <1>2, <2>1 DEF CheckEffect, Recovers, Expected
<1>3. CASE InstallEffect
  <2>1. CASE tx.eff.kind = "delete" /\ tx' = Done(tx) /\ UNCHANGED <<live, left>>
    BY <1>1, <1>3, <2>1 DEF InstallEffect, TxType, Deletes, Done
  <2>2. CASE /\ tx.eff.kind = "write" /\ live[tx.eff.member] = Absent
             /\ live' = [live EXCEPT ![tx.eff.member] = Written]
             /\ tx' = [tx EXCEPT !.step = "seal"] /\ UNCHANGED left
    BY <1>1, <1>3, <2>2 DEF InstallEffect, TxType, Writes
  <2>3. CASE /\ tx.eff.kind = "move" /\ live[tx.eff.dest] = Absent
             /\ live' = [live EXCEPT ![tx.eff.dest] = tx.held]
             /\ tx' = [tx EXCEPT !.step = "seal", !.held = Absent,
                                 !.touched = @ \cup {tx.eff.member, tx.eff.dest}]
             /\ UNCHANGED left
    BY <1>1, <1>3, <2>3 DEF InstallEffect, TxType, Moves
  <2> QED
    BY <1>3, <2>1, <2>2, <2>3 DEF InstallEffect, Recovers
<1>4. CASE SealEffect
  <2>1. CASE tx.eff.kind = "write" /\ tx' = Done(tx) /\ UNCHANGED <<live, left>>
    BY <1>1, <1>4, <2>1 DEF SealEffect, TxType, SealsWrite, Done
  <2>2. CASE /\ tx.eff.kind = "move" /\ live[tx.eff.dest] = tx.want[tx.eff.member]
             /\ live[tx.eff.member] = Absent
             /\ tx' = [Done(tx) EXCEPT !.protected = @ \ {tx.eff.member, tx.eff.dest}]
             /\ UNCHANGED <<live, left>>
    BY <1>1, <1>4, <2>2 DEF SealEffect, TxType, SealsMove, Done
  <2> QED
    BY <1>4, <2>1, <2>2 DEF SealEffect, Recovers
<1> QED
  BY <1>2, <1>3, <1>4

LEMMA FaultEffect ==
    ASSUME TypeInv, Fault
    PROVE  Recovers \/ (Raise /\ tx.eff = NoEffect /\ tx.phase # "idle")
<1>1. /\ tx.phase # "applying" => tx.eff = NoEffect
      /\ tx.eff # NoEffect => tx.phase = "applying" /\ tx.step # "none"
  BY DEF TypeInv, Running
<1>2. tx.eff.kind \in {"write", "delete", "move"} => tx.eff # NoEffect
  BY DEF NoEffect
<1> QED
  BY <1>1, <1>2 DEF Fault, Recovers

\* The rollback's two passes over the selected entries.
LEMMA RollbackEffect ==
    ASSUME TypeInv, RemoveTouched \/ CopyBack
    PROVE  /\ tx.phase \in {"failing", "removed"} /\ tx'.phase \in {"removed", "restored"}
           /\ KeepPlan /\ KeepSnapshot /\ KeepWork /\ KeepMarks /\ tx'.late = tx.late
           /\ tx.eff = NoEffect /\ Released /\ left' = left
           /\ \A m \in Members \ Selected : live'[m] = live[m]
<1> USE DEF KeepPlan, KeepSnapshot, KeepMarks, KeepWork, Released
<1>1. tx \in TxType /\ live \in [Members -> Entries] /\ (tx.phase # "applying" => tx.eff = NoEffect)
      /\ (tx.eff = NoEffect => tx.step = "none" /\ tx.held = Absent)
  BY DEF TypeInv, TypeOK, Running
<1>2. CASE RemoveTouched
  <2>1. /\ tx.phase = "failing" /\ left' = left
        /\ \A m \in Members \ Selected : live'[m] = live[m]
    BY <1>1, <1>2 DEF RemoveTouched
  <2>2. CASE tx' = [tx EXCEPT !.phase = "removed", !.journal = "rolling-back"]
    BY <1>1, <2>1, <2>2 DEF TxType
  <2>3. CASE tx' = [tx EXCEPT !.phase = "restored", !.bad = TRUE, !.journal = "rolling-back"]
    BY <1>1, <2>1, <2>3 DEF TxType
  <2> QED
    BY <1>2, <2>2, <2>3 DEF RemoveTouched
<1>3. CASE CopyBack
  <2>1. /\ tx.phase = "removed" /\ left' = left
        /\ \A m \in Members \ Selected : live'[m] = live[m]
    BY <1>1, <1>3 DEF CopyBack
  <2>2. CASE tx' = [tx EXCEPT !.phase = "restored"]
    BY <1>1, <2>1, <2>2 DEF TxType
  <2>3. CASE tx' = [tx EXCEPT !.phase = "restored", !.bad = TRUE]
    BY <1>1, <2>1, <2>3 DEF TxType
  <2> QED
    BY <1>3, <2>2, <2>3 DEF CopyBack
<1> QED
  BY <1>2, <1>3

LEMMA EditEffect ==
    ASSUME TypeInv, tx.phase # "idle", NEW m \in Members, NEW c \in Edits \cup {Absent}, Edit(m, c)
    PROVE  /\ tx'.phase = tx.phase /\ tx'.shape = tx.shape /\ tx'.seen = tx.seen
           /\ KeepSnapshot /\ KeepWork /\ KeepMarks
           /\ tx'.eff = tx.eff /\ tx'.step = tx.step /\ tx'.held = tx.held
           /\ live' = [live EXCEPT ![m] = c] /\ left' = left
           /\ \/ /\ m \in InHands /\ tx'.late = tx.late \cup {m} /\ tx'.base = tx.base
              \/ /\ m \notin InHands /\ tx'.late = tx.late /\ tx'.base = [tx.base EXCEPT ![m] = c]
<1> USE DEF KeepSnapshot, KeepMarks, KeepWork
<1>1. tx \in TxType
  BY DEF TypeInv, TypeOK
<1>2. live' = [live EXCEPT ![m] = c] /\ left' = left
  BY DEF Edit
<1>3. CASE m \in InHands /\ tx' = [tx EXCEPT !.late = @ \cup {m}]
  BY <1>1, <1>2, <1>3 DEF TxType
<1>4. CASE m \notin InHands /\ tx' = [tx EXCEPT !.base[m] = c]
  BY <1>1, <1>2, <1>4 DEF TxType
<1> QED
  BY <1>3, <1>4 DEF Edit

-----------------------------------------------------------------------------
(***************************************************************************)
(* Every step of a mutation keeps its invariant.                           *)
(***************************************************************************)

LEMMA NothingBegun ==
    ASSUME NEW s, InPlan(s), ~tx.attempted, Untouched(s)
    PROVE  /\ Begun(s) = {} /\ Named(Begun(s)) = {}
           /\ \A m \in Members \ tx.late : live[m] = tx.base[m]
<1>1. Begun(s) = {}
  BY DEF InPlan, Begun
<1>2. Named(Begun(s)) = {}
  BY <1>1 DEF Named
<1> QED
  BY <1>1, <1>2 DEF Untouched

LEMMA QuietKeeps ==
    ASSUME TypeInv, NEW s \in Shapes, InOrder(s), Quiet(s)
    PROVE  InOrder(s)'
<1> USE DEF InOrder
<1> USE DEF Quiet, KeepPlan, KeepWork, KeepMarks, KeepSnapshot, Released
<1>1. /\ live \in [Members -> Entries] /\ tx.step = "none"
      /\ tx.eff = NoEffect /\ tx'.eff = NoEffect
  BY DEF TypeInv, TypeOK
<1>2. Begun(s)' = Begun(s)
  BY DEF Begun
<1>3. InPlan(s)'
  BY <1>2 DEF InPlan
<1>4. Snapshotted(s)'
  <2>1. CASE tx'.phase \in {"failing", "validating"}
    BY <2>1 DEF Snapshotted
  <2>2. CASE tx.phase = "planned" /\ tx'.phase = "snapshotted"
    <3>1. /\ tx'.snap = live /\ tx'.owned = SnapshotTargets(s, live) /\ Preflight(s)
      BY <2>2
    <3>2. \A m \in s.mkdirs \ tx'.owned : live[m] # Absent
      <4> SUFFICES ASSUME NEW m \in s.mkdirs, m \notin tx'.owned PROVE live[m] # Absent
        OBVIOUS
      <4>1. PICK e \in Effects(s) : e.kind = "mkdir" /\ e.member = m
        BY EffectsOf
      <4> QED
        BY <3>1, <4>1, Owned
    <3> QED
      BY <2>2, <3>1, <3>2 DEF Snapshotted, Preflight
  <2>3. CASE tx.phase = "snapshotted" /\ tx'.phase = "verified"
    BY <2>3 DEF Snapshotted
  <2>4. CASE tx.phase = "verified" /\ tx'.phase = "applying"
    BY <2>4 DEF Snapshotted
  <2> QED
    BY <2>1, <2>2, <2>3, <2>4
<1>5. Untouched(s)'
  BY <1>2 DEF Untouched
<1>6. AllLanded(s)'
  <2>1. CASE ~tx.attempted
    BY <1>2, <2>1, NothingBegun DEF AllLanded
  <2>2. CASE tx.attempted
    <3>1. tx'.phase \in {"applying", "validating"} => tx.phase \in {"applying", "validating"}
      BY <2>2 DEF InPlan
    <3>2. \A e : Landed(e)' <=> Landed(e)
      BY DEF Landed
    <3> QED
      BY <1>1, <1>2, <3>1, <3>2 DEF AllLanded
  <2> QED
    BY <2>1, <2>2 DEF InPlan
<1>7. Custody'
  BY DEF Custody
<1>8. Restorable'
  <2> SUFFICES ASSUME NEW m \in Members \ tx.late PROVE Recoverable(m)'
    BY DEF Restorable
  <2>1. Recoverable(m)
    BY <1>1 DEF Restorable
  <2>2. CASE tx.phase = "planned"
    <3>1. ~tx.attempted /\ tx.touched = {} /\ live[m] = tx.base[m]
      BY <2>2, NothingBegun DEF InPlan
    <3> QED
      BY <3>1 DEF Recoverable
  <2>3. CASE tx'.snap = tx.snap /\ tx'.owned = tx.owned
    BY <2>1, <2>3 DEF Recoverable, Backed
  <2> QED
    BY <2>2, <2>3
<1> QED
  BY <1>3, <1>4, <1>5, <1>6, <1>7, <1>8

LEMMA StartsKeeps ==
    ASSUME TypeInv, NEW s \in Shapes, tx.shape = {s}, InOrder(s),
           NEW e \in tx.pending, StartEffect(e)
    PROVE  InOrder(s)'
<1> USE DEF InOrder, KeepPlan, KeepMarks, KeepSnapshot, Released
<1> DEFINE m == e.member
           d == e.dest
<1>1. /\ live \in [Members -> Entries] /\ tx.step = "none" /\ tx.late \subseteq Members
      /\ tx.touched \subseteq Members /\ tx.protected \subseteq Members /\ tx.eff = NoEffect
  BY StartsEffect DEF TypeInv, TypeOK, TxType, Starts
<1>2. /\ e \in Effects(s) /\ m \in Members /\ d \in Members /\ e.kind \in Kinds /\ e # NoEffect
      /\ e.kind = "mkdir" <=> m \in s.mkdirs
      /\ e.kind = "write" => m \in s.writes
      /\ e.kind # "move" => d = m
      /\ e.kind = "move" => <<m, d>> \in s.moves /\ m # d
  <2>1. e \in Effects(s)
    BY DEF InPlan
  <2>2. e.kind = "move" => m # d
    BY <2>1, EffectKinds DEF InPlan
  <2> QED
    BY <2>1, <2>2, EffectKinds DEF Kinds
<1>3. Starts(e)
  BY StartsEffect
<1>4. /\ Begun(s)' = Begun(s) \cup {e} /\ e \notin Begun(s)
      /\ Named(Begun(s))' = Named(Begun(s)) \cup {m, d}
  <2>1. Begun(s)' = Begun(s) \cup {e} /\ e \notin Begun(s)
    BY <1>2, <1>3 DEF Begun, Starts
  <2> QED
    BY <2>1 DEF Named
<1>5. /\ m \notin Named(Begun(s)) /\ d \notin Named(Begun(s))
      /\ m \notin tx.touched /\ m \notin tx.protected /\ d \notin tx.touched
      /\ m \notin tx.late => live[m] = tx.base[m]
      /\ d \notin tx.late => live[d] = tx.base[d]
  <2>1. m \notin Named(Begun(s)) /\ d \notin Named(Begun(s))
    BY <1>2, BegunMembers
  <2> QED
    BY <1>2, <2>1 DEF InPlan, Untouched
<1>6. /\ tx'.phase \in {"applying", "failing"}
      /\ tx'.touched \subseteq tx.touched \cup {m} /\ tx'.protected \subseteq tx.protected \cup {m, d}
      /\ tx'.eff \in {NoEffect, e} /\ (tx'.eff = e => Takes(e))
      /\ \A x \in Members \ {m} : live'[x] = live[x]
      /\ live'[m] = Absent => live[m] = Absent \/ Takes(e)
      /\ tx.touched \subseteq tx'.touched /\ tx.protected \subseteq tx'.protected
  <2>1. ASSUME NEW made \in {Dir, Written}, Makes(e, made)
        PROVE  /\ tx'.phase = "applying" /\ tx'.touched = tx.touched \cup {m}
               /\ tx'.protected = tx.protected /\ tx'.eff = NoEffect
               /\ \A x \in Members \ {m} : live'[x] = live[x]
               /\ live[m] = Absent
    BY <1>1, <1>2, <2>1 DEF Makes
  <2>2. CASE Takes(e)
    BY <1>1, <1>2, <2>2 DEF Takes
  <2>3. CASE live' = live /\ Released /\ KeepMarks /\ tx'.phase \in {"applying", "failing"}
    BY <1>1, <1>2, <2>3
  <2> QED
    BY <1>2, <2>1, <2>2, <2>3, StartsEffect DEF FindsDone
<1>7. InPlan(s)'
  BY <1>2, <1>3, <1>4, <1>5, <1>6 DEF InPlan, Starts, Takes
<1>8. Snapshotted(s)'
  <2>1. CASE tx'.phase = "failing"
    BY <2>1 DEF Snapshotted
  <2>2. CASE tx'.phase = "applying"
    <3>1. \A x \in (s.mkdirs \ tx.owned) \ tx.late : live'[x] # Absent
      <4> SUFFICES ASSUME NEW x \in (s.mkdirs \ tx.owned) \ tx.late PROVE live'[x] # Absent
        OBVIOUS
      <4>1. live[x] # Absent /\ x \in Members
        BY <1>3, EffectsType DEF Snapshotted, Starts, ShapeType
      <4>2. x = m => e.kind = "mkdir"
        BY <1>2
      <4> QED
        BY <1>6, <4>1, <4>2 DEF Takes
    <3> QED
      BY <1>3, <2>2, <3>1 DEF Snapshotted, Starts
  <2> QED
    BY <1>6, <2>1, <2>2
<1>9. Untouched(s)'
  BY <1>3, <1>4, <1>6 DEF Untouched, Starts
<1>10. AllLanded(s)'
  <2> SUFFICES ASSUME tx'.phase = "applying", NEW f \in Begun(s)', f # tx'.eff PROVE Landed(f)'
    BY <1>6 DEF AllLanded
  <2>1. CASE f # e
    <3>1. f \in Begun(s) /\ f \in Effects(s) /\ f # NoEffect
      BY <1>2, <1>4, <2>1, EffectKinds DEF Begun
    <3>2. f.member # m /\ f.dest # m /\ f.member \in Members /\ f.dest \in Members
      BY <1>2, <2>1, <3>1, Apart, EffectKinds
    <3>3. Landed(f)
      BY <1>1, <1>3, <3>1 DEF AllLanded, Starts
    <3> QED
      BY <1>3, <1>6, <3>2, <3>3 DEF Landed, Starts
  <2>2. CASE f = e
    <3>1. ~Takes(e)
      BY <2>2 DEF Takes
    <3>2. CASE FindsDone(e)
      BY <1>2, <1>3, <1>5, <2>2, <3>2 DEF Landed, Starts, FindsDone
    <3>3. ASSUME NEW made \in {Dir, Written}, Makes(e, made) PROVE Landed(f)'
      <4>1. live'[m] = made
        BY <1>1, <1>2, <3>3 DEF Makes
      <4> QED
        BY <1>2, <1>3, <1>5, <2>2, <3>3, <4>1 DEF Landed, Starts, Makes
    <3> QED
      BY <3>1, <3>2, <3>3, StartsEffect
  <2> QED
    BY <2>1, <2>2
<1>11. Custody'
  <2> SUFFICES ASSUME tx'.eff # NoEffect PROVE InCustody(tx.eff)'
    BY DEF Custody
  <2>1. Takes(e) /\ tx'.eff = e
    BY <1>6
  <2>2. live'[m] = Absent /\ (d # m => live'[d] = live[d])
    BY <1>1, <1>2, <2>1 DEF Takes
  <2>3. tx'.held = live[m] /\ tx'.step = "check" /\ tx'.base = tx.base /\ tx'.late = tx.late
    BY <1>3, <2>1 DEF Takes, Starts
  <2>4. e.kind = "move" => m \in tx'.protected /\ d \in tx'.protected /\ d \notin tx'.touched
    BY <1>2, <1>5, <2>1 DEF Takes
  <2>5. InCustody(e)'
    BY <1>2, <1>5, <2>2, <2>3, <2>4 DEF InCustody
  <2> QED
    BY <2>1, <2>5 DEF InCustody, Expected
<1>12. Restorable'
  <2> SUFFICES ASSUME NEW x \in Members, x \notin tx.late, ~(tx'.step = "check" /\ x = tx'.eff.member)
               PROVE  Recoverable(x)'
    BY <1>3 DEF Restorable, Starts
  <2>1. Recoverable(x)
    BY <1>1 DEF Restorable
  <2>2. CASE x # m
    BY <1>3, <1>6, <2>1, <2>2 DEF Recoverable, Backed, Starts
  <2>3. CASE x = m
    <3>1. ~Takes(e)
      BY <2>3 DEF Takes
    <3>2. CASE live' = live /\ KeepMarks
      BY <1>3, <2>1, <3>2 DEF Recoverable, Backed, Starts
    <3>3. ASSUME NEW made \in {Dir, Written}, Makes(e, made) PROVE Recoverable(x)'
      <4>1. live[m] = Absent /\ tx.base[m] = Absent /\ tx.phase = "applying"
        BY <1>3, <1>5, <2>3, <3>3 DEF Makes, Starts
      <4>2. tx.owned = SnapshotTargets(s, tx.snap)
        BY <4>1 DEF Snapshotted
      <4>3. CASE e.kind = "mkdir"
        <5>1. m \in tx.owned
          BY <1>2, <2>3, <4>1, <4>3 DEF Snapshotted
        <5> QED
          BY <1>2, <1>3, <2>3, <4>1, <4>2, <4>3, <5>1, Owned DEF Recoverable, Backed, Starts
      <4>4. CASE e.kind = "write"
        <5>1. tx.snap[m] = Absent
          BY <1>2, <3>3, <4>1, <4>4 DEF Snapshotted, Makes
        <5>2. m \in tx.owned
          BY <1>2, <4>2, <4>4, Owned
        <5> QED
          BY <1>3, <2>3, <4>1, <5>1, <5>2 DEF Recoverable, Backed, Starts
      <4> QED
        BY <3>3, <4>3, <4>4 DEF Makes
    <3> QED
      BY <3>1, <3>2, <3>3, StartsEffect DEF FindsDone
  <2> QED
    BY <2>2, <2>3
<1> QED
  BY <1>7, <1>8, <1>9, <1>10, <1>11, <1>12

\* An effect under way: its members are in the snapshot, and the name it took is restored
\* from there if custody found what was expected.
LEMMA InTheMiddle ==
    ASSUME TypeInv, NEW s \in Shapes, InPlan(s), Snapshotted(s), tx.step # "none",
           NEW e, e = tx.eff
    PROVE  /\ tx.phase = "applying" /\ e \in Begun(s) /\ e \in Effects(s) /\ e # NoEffect
           /\ e.member \in Members /\ e.dest \in Members /\ e.kind \in {"move", "write", "delete"}
           /\ e.kind # "move" => e.dest = e.member
           /\ e.kind = "move" => e.dest # e.member /\ tx.snap[e.dest] = Absent
           /\ e.member \in tx.owned /\ e.dest \in tx.owned /\ tx.attempted
           /\ e.member \in Named(Begun(s)) /\ e.dest \in Named(Begun(s))
           /\ e.member \notin tx.late => tx.snap[e.member] = Expected(e)
<1>1. tx.eff # NoEffect /\ tx.phase = "applying" /\ tx.attempted \in BOOLEAN
  BY DEF TypeInv, TypeOK, Running, TxType
<1>2. /\ e \in Begun(s) /\ e \in Effects(s) /\ e.kind # "mkdir" /\ e \notin tx.pending
      /\ e.kind = "delete" => tx.step # "seal"
  BY <1>1 DEF InPlan, Begun
<1>3. /\ e.member \in Members /\ e.dest \in Members /\ e.kind \in Kinds
      /\ e.kind = "write" => e.member \in s.writes /\ e.dest = e.member
      /\ e.kind = "delete" => e.member \in s.deletes /\ e.dest = e.member
      /\ e.kind = "move" => <<e.member, e.dest>> \in s.moves
  BY <1>2, EffectKinds
<1>4. e.kind \in {"move", "write", "delete"}
  BY <1>2, <1>3 DEF Kinds
<1>5. e.member \in tx.owned /\ e.dest \in tx.owned
  BY <1>1, <1>2, Owned DEF Snapshotted
<1>6. tx.attempted
  BY <1>2 DEF InPlan
<1>7. e.member \in Named(Begun(s)) /\ e.dest \in Named(Begun(s))
  BY <1>2, BegunMembers
<1>8. e.kind = "move" => e.dest # e.member /\ tx.snap[e.dest] = Absent
  BY <1>1, <1>3 DEF InPlan, Snapshotted
<1>9. e.kind # "write" => e.member \in Sources(s)
  BY <1>3, <1>4 DEF Sources
<1>10. e.member \notin tx.late => tx.snap[e.member] = Expected(e)
  BY <1>1, <1>3, <1>4, <1>9 DEF Snapshotted, Expected
<1> QED
  BY <1>1, <1>2, <1>3, <1>4, <1>5, <1>6, <1>7, <1>8, <1>10

LEMMA GoesKeeps ==
    ASSUME TypeInv, NEW s \in Shapes, InOrder(s), NEW e, e = tx.eff, Goes(e),
           Finds(e) \/ Deletes(e) \/ Writes(e) \/ Moves(e) \/ SealsWrite(e) \/ SealsMove(e)
    PROVE  InOrder(s)'
<1> USE DEF InOrder, KeepPlan, KeepMarks, KeepSnapshot, KeepWork, Released, Goes
<1> DEFINE m == e.member
           d == e.dest
<1>1. /\ live \in [Members -> Entries] /\ tx.step # "none" /\ InCustody(e)
  BY DEF TypeInv, TypeOK, Custody, Running
<1>2. /\ e \in Begun(s) /\ e \in Effects(s) /\ e # NoEffect
      /\ m \in Members /\ d \in Members /\ e.kind \in {"move", "write", "delete"}
      /\ e.kind # "move" => d = m
      /\ e.kind = "move" => d # m /\ tx.snap[d] = Absent
      /\ m \in tx.owned /\ d \in tx.owned /\ tx.attempted
      /\ m \in Named(Begun(s)) /\ d \in Named(Begun(s))
      /\ m \notin tx.late => tx.snap[m] = Expected(e)
  BY <1>1, InTheMiddle
<1>3. /\ Begun(s)' = Begun(s) /\ Expected(e)' = Expected(e)
  BY DEF Begun, Expected
<1>4. /\ \A x \in Members \ {m, d} : live'[x] = live[x]
      /\ tx'.touched \subseteq tx.touched \cup {m, d} /\ tx'.protected \subseteq tx.protected
      /\ \A x \in Members \ {m, d} : x \in tx.protected => x \in tx'.protected
      /\ tx'.eff \in {e, NoEffect} /\ (e.kind = "delete" => tx'.step # "seal")
      /\ tx'.step # "check"
  <2>1. CASE live' = live /\ KeepMarks
    BY <1>2, <2>1 DEF Finds, Deletes, Writes, Moves, SealsWrite, SealsMove
  <2>2. CASE Writes(e)
    BY <1>1, <1>2, <2>2 DEF Writes
  <2>3. CASE Moves(e)
    BY <1>1, <1>2, <2>3 DEF Moves
  <2>4. CASE SealsMove(e)
    BY <1>1, <1>2, <2>4 DEF SealsMove
  <2> QED
    BY <2>1, <2>2, <2>3, <2>4 DEF Finds, Deletes, SealsWrite
<1>5. InPlan(s)'
  BY <1>2, <1>3, <1>4 DEF InPlan
<1>6. Snapshotted(s)'
  <2>1. \A x \in s.mkdirs \ tx.owned : live'[x] = live[x]
    BY <1>2, <1>4, EffectsType DEF ShapeType
  <2> QED
    BY <2>1 DEF Snapshotted
<1>7. Untouched(s)'
  BY <1>2, <1>3, <1>4 DEF Untouched
<1>8. tx'.eff = NoEffect => Landed(e)'
  <2> SUFFICES ASSUME tx'.eff = NoEffect PROVE Landed(e)'
    OBVIOUS
  <2>1. CASE Deletes(e)
    BY <1>1, <1>2, <2>1 DEF Deletes, InCustody, Landed
  <2>2. CASE SealsWrite(e)
    BY <1>1, <1>2, <2>2 DEF SealsWrite, InCustody, Landed
  <2>3. CASE SealsMove(e)
    BY <1>1, <1>2, <2>3 DEF SealsMove, InCustody, Landed, Expected
  <2> QED
    BY <1>2, <2>1, <2>2, <2>3 DEF Finds, Writes, Moves
<1>9. AllLanded(s)'
  <2> SUFFICES ASSUME NEW f \in Begun(s), f # tx'.eff PROVE Landed(f)'
    BY <1>3 DEF AllLanded
  <2>1. CASE f = e
    BY <1>4, <1>8, <2>1
  <2>2. CASE f # e
    <3>1. f \in Effects(s) /\ Landed(f)
      BY <2>2 DEF Begun, AllLanded
    <3>2. /\ f.member \notin {m, d} /\ f.dest \notin {m, d}
          /\ f.member \in Members /\ f.dest \in Members
      BY <1>2, <2>2, <3>1, Apart, EffectKinds
    <3> QED
      BY <1>4, <3>1, <3>2 DEF Landed
  <2> QED
    BY <2>1, <2>2
<1>10. Custody'
  <2> SUFFICES ASSUME tx'.eff = e PROVE InCustody(e)'
    BY <1>4 DEF Custody, InCustody, Expected
  <2>1. CASE Finds(e)
    BY <1>1, <1>2, <1>3, <2>1 DEF Finds, InCustody
  <2>2. CASE Writes(e)
    <3>1. live'[m] = Written
      BY <1>1, <1>2, <2>2 DEF Writes
    <3> QED
      BY <1>1, <1>2, <1>3, <2>2, <3>1 DEF Writes, InCustody
  <2>3. CASE Moves(e)
    <3>1. live'[m] = live[m]
      BY <1>1, <1>2, <2>3 DEF Moves
    <3> QED
      BY <1>1, <1>2, <1>3, <2>3, <3>1 DEF Moves, InCustody
  <2> QED
    BY <1>2, <2>1, <2>2, <2>3 DEF Deletes, SealsWrite, SealsMove
<1>11. Restorable'
  <2> SUFFICES ASSUME NEW x \in Members, x \notin tx.late PROVE Recoverable(x)'
    BY <1>4 DEF Restorable
  <2>1. x # m => Recoverable(x)
    BY DEF Restorable
  <2>2. CASE x \notin {m, d}
    BY <1>4, <2>1, <2>2 DEF Recoverable, Backed
  <2>3. CASE x = m /\ tx'.step # "none" /\ ~Moves(e)
    <3>1. tx.base[m] = Expected(e)
      BY <1>1, <2>3 DEF Finds, Writes, Deletes, SealsWrite, SealsMove, InCustody
    <3> QED
      BY <1>2, <2>3, <3>1 DEF Recoverable, Backed
  <2>4. CASE x \in {m, d} /\ Moves(e)
    BY <1>1, <2>4 DEF Moves, InCustody, Recoverable
  <2>5. CASE x \in {m, d} /\ (Deletes(e) \/ SealsWrite(e))
    <3>1. Recoverable(x)
      BY <2>5 DEF Restorable, Deletes, SealsWrite
    <3> QED
      BY <2>5, <3>1 DEF Deletes, SealsWrite, Recoverable, Backed
  <2>6. CASE x = m /\ SealsMove(e)
    BY <1>1, <1>2, <2>6 DEF SealsMove, InCustody, Recoverable, Backed
  <2>7. CASE x = d /\ x # m /\ SealsMove(e)
    BY <1>1, <1>2, <2>7 DEF SealsMove, InCustody, Recoverable, Backed
  <2>8. CASE x = d /\ x # m /\ (Finds(e) \/ Writes(e))
    BY <1>2, <2>1, <2>8 DEF Finds, Writes, Recoverable, Backed
  <2> QED
    BY <2>2, <2>3, <2>4, <2>5, <2>6, <2>7, <2>8 DEF Finds, Writes
<1> QED
  BY <1>5, <1>6, <1>7, <1>9, <1>10, <1>11

LEMMA RecoversKeeps ==
    ASSUME TypeInv, NEW s \in Shapes, InOrder(s), Recovers
    PROVE  InOrder(s)'
<1> USE DEF InOrder, KeepPlan, KeepMarks, KeepSnapshot, KeepWork, Released, Fails
<1> DEFINE e == tx.eff
           m == e.member
           d == e.dest
<1>1. /\ live \in [Members -> Entries] /\ tx.step # "none"
      /\ tx.touched \subseteq Members /\ tx.protected \subseteq Members
  BY DEF TypeInv, TypeOK, TxType, Recovers
<1>2. /\ e \in Begun(s) /\ e # NoEffect /\ m \in Members /\ d \in Members
      /\ e.kind # "move" => d = m
      /\ e.kind = "move" => d # m
      /\ tx.attempted /\ m \in Named(Begun(s)) /\ d \in Named(Begun(s))
  BY <1>1, InTheMiddle
<1>3. InCustody(e)
  BY <1>2 DEF Custody
<1>taken. ASSUME e.kind = "move", RecoverMove
      PROVE  /\ Fails /\ tx'.late = tx.late
             /\ (KeepMarks /\ live' = live /\ tx.step = "seal") \/ TakesBack(m, d)
  BY <1>1, <1>2, <1>taken, RecoverEffect
<1>4. Fails
  BY <1>1, <1>taken, RestoreEffect, LeaveEffect DEF Recovers
<1>5. /\ \A x \in Members \ {m, d} : live'[x] = live[x]
      /\ tx'.touched \subseteq tx.touched /\ tx'.protected \subseteq tx.protected \cup {m}
      /\ \A x \in Members \ {m, d} : x \in tx.protected => x \in tx'.protected
      /\ tx.late \subseteq tx'.late
  <2>1. CASE RestoreCustody
    <3>1. CASE /\ live' = [live EXCEPT ![m] = tx.held]
               /\ tx'.touched = tx.touched \ {m} /\ tx'.protected = tx.protected /\ tx'.late = tx.late
      BY <1>1, <1>2, <3>1
    <3>2. CASE live' = live /\ tx'.touched = tx.touched /\ tx'.protected = tx.protected \cup {m}
               /\ tx'.late = tx.late
      BY <3>2
    <3> QED
      BY <1>1, <2>1, <3>1, <3>2, RestoreEffect
  <2>2. CASE LeaveCustody
    BY <2>2, LeaveEffect
  <2>3. CASE e.kind = "move" /\ RecoverMove
    BY <1>taken, <2>3 DEF TakesBack
  <2> QED
    BY <2>1, <2>2, <2>3 DEF Recovers
<1>6. Begun(s)' = Begun(s)
  BY <1>4 DEF Begun
<1>7. InPlan(s)' /\ Untouched(s)'
  BY <1>2, <1>4, <1>5, <1>6 DEF InPlan, Untouched
<1>8. Snapshotted(s)' /\ AllLanded(s)' /\ Custody'
  BY <1>4 DEF Snapshotted, AllLanded, Custody
<1>9. Restorable'
  <2> SUFFICES ASSUME NEW x \in Members, x \notin tx'.late PROVE Recoverable(x)'
    BY DEF Restorable
  <2>1. x \notin tx.late /\ (x # m \/ tx.step # "check" => Recoverable(x))
    BY <1>5 DEF Restorable
  <2>2. CASE x \notin {m, d}
    BY <1>4, <1>5, <2>1, <2>2 DEF Recoverable, Backed
  <2>3. CASE x = m /\ e.kind # "move" /\ RestoreCustody
    <3>1. CASE live' = [live EXCEPT ![m] = tx.held] /\ tx'.touched = tx.touched \ {m}
      BY <1>1, <1>2, <1>3, <1>4, <2>1, <2>3, <3>1 DEF Recoverable, InCustody
    <3>2. CASE tx'.protected = tx.protected \cup {m}
      BY <2>3, <3>2 DEF Recoverable
    <3> QED
      BY <1>1, <2>3, <3>1, <3>2, RestoreEffect
  <2>4. CASE x = m /\ e.kind # "move" /\ LeaveCustody
    <3>1. tx.step # "check" /\ live' = live /\ KeepMarks
      BY <2>4, LeaveEffect
    <3> QED
      BY <1>4, <2>1, <3>1 DEF Recoverable, Backed
  <2>5. CASE e.kind = "move" /\ RecoverMove /\ KeepMarks /\ live' = live /\ tx.step = "seal"
    BY <1>4, <2>1, <2>5 DEF Recoverable, Backed
  <2>6. CASE e.kind = "move" /\ RecoverMove /\ ~(KeepMarks /\ live' = live /\ tx.step = "seal") /\ x = d
    <3>1. /\ live'[d] = IF tx.step = "seal" THEN Absent ELSE live[d]
          /\ tx.step = "seal" => d \notin tx'.touched
          /\ tx'.touched \subseteq tx.touched
      BY <1>taken, <2>6 DEF TakesBack
    <3> QED
      BY <1>3, <1>4, <2>1, <2>6, <3>1 DEF Recoverable, InCustody
  <2>7. CASE e.kind = "move" /\ RecoverMove /\ ~(KeepMarks /\ live' = live /\ tx.step = "seal") /\ x = m
    <3>1. PICK back \in Entries :
            /\ back = IF tx.step = "seal" THEN live[d] ELSE tx.held
            /\ \/ /\ live[m] = Absent /\ live'[m] = back
                  /\ back = tx.want[m] => m \notin tx'.touched /\ m \notin tx'.protected
                  /\ back # tx.want[m] => m \in tx'.protected \/ m \notin tx.protected
               \/ live[m] # Absent
      BY <1>taken, <2>7 DEF TakesBack
    <3>2. /\ live[m] = Absent /\ m \in tx.protected
          /\ tx.step # "seal" => tx.held = tx.base[m]
          /\ tx.step = "seal" => tx.base[m] = tx.want[m]
      BY <1>3, <2>1, <2>7 DEF InCustody, Expected
    <3>3. CASE back = tx.want[m]
      BY <1>4, <2>7, <3>1, <3>2, <3>3 DEF Recoverable
    <3>4. CASE back # tx.want[m]
      BY <2>7, <3>1, <3>2, <3>4 DEF Recoverable
    <3> QED
      BY <3>3, <3>4
  <2> QED
    BY <1>2, <2>2, <2>3, <2>4, <2>5, <2>6, <2>7 DEF Recovers
<1> QED
  BY <1>7, <1>8, <1>9

LEMMA RollbackKeeps ==
    ASSUME TypeInv, NEW s \in Shapes, InOrder(s), RemoveTouched \/ CopyBack
    PROVE  InOrder(s)'
<1> USE DEF InOrder, KeepPlan, KeepMarks, KeepSnapshot, KeepWork, Released
<1>1. /\ tx.phase \in {"failing", "removed"} /\ tx'.phase \in {"removed", "restored"}
      /\ KeepPlan /\ KeepSnapshot /\ KeepWork /\ KeepMarks /\ tx'.late = tx.late
      /\ tx.eff = NoEffect /\ Released /\ tx.step = "none"
      /\ \A m \in Members \ Selected : live'[m] = live[m]
  BY RollbackEffect DEF TypeInv, TypeOK
<1>2. Begun(s)' = Begun(s) /\ Selected \subseteq Named(Begun(s))
  BY <1>1 DEF Begun, Selected, InPlan
<1>3. InPlan(s)' /\ Untouched(s)'
  BY <1>1, <1>2 DEF InPlan, Untouched
<1>4. Snapshotted(s)' /\ AllLanded(s)' /\ Custody'
  BY <1>1 DEF Snapshotted, AllLanded, Custody
<1>5. Restorable'
  <2> SUFFICES ASSUME NEW x \in Members, x \notin tx.late PROVE Recoverable(x)'
    BY <1>1 DEF Restorable
  <2>1. Recoverable(x)
    BY <1>1 DEF Restorable
  <2> QED
    BY <1>1, <2>1 DEF Recoverable, Backed, Selected
<1> QED
  BY <1>3, <1>4, <1>5

\* What an editor outside the mutation's hands leaves alone.
LEMMA OutOfHands ==
    ASSUME NEW s, tx.shape = {s}, InPlan(s), NEW m, m \notin InHands
    PROVE  /\ m \notin Named(Begun(s)) /\ m \notin tx.touched /\ m \notin tx.protected
           /\ \A f \in Begun(s) : f.member # m /\ f.dest # m
           /\ tx.phase \in {"snapshotted", "verified"} => m \notin Sources(s)
           /\ tx.phase # "planned" => m \notin s.mkdirs \ tx.owned
<1>1. m \notin Named(Begun(s))
  BY DEF InHands, Begun
<1>2. \A f \in Begun(s) : f.member # m /\ f.dest # m
  BY <1>1 DEF Named
<1>3. tx.phase \in {"snapshotted", "verified"} => m \notin Sources(s)
  BY DEF InHands, Sources
<1>4. tx.phase # "planned" => m \notin s.mkdirs \ tx.owned
  BY DEF InHands
<1> QED
  BY <1>1, <1>2, <1>3, <1>4 DEF InPlan

LEMMA EditKeeps ==
    ASSUME TypeInv, NEW s \in Shapes, tx.shape = {s}, tx.phase # "idle", InOrder(s),
           NEW m \in Members, NEW c \in Edits \cup {Absent}, Edit(m, c)
    PROVE  InOrder(s)'
<1> USE DEF InOrder, KeepMarks, KeepSnapshot, KeepWork
<1>1. /\ tx'.phase = tx.phase /\ tx'.shape = tx.shape /\ tx'.seen = tx.seen
      /\ KeepSnapshot /\ KeepWork /\ KeepMarks
      /\ tx'.eff = tx.eff /\ tx'.step = tx.step /\ tx'.held = tx.held
  BY EditEffect
<1>2. /\ \A x \in Members \ {m} : live'[x] = live[x] /\ tx'.base[x] = tx.base[x]
      /\ live'[m] = c
      /\ \/ m \in tx'.late /\ tx.late \subseteq tx'.late /\ tx'.base = tx.base
         \/ m \notin InHands /\ tx'.late = tx.late /\ tx'.base[m] = c
  <2>1. live \in [Members -> Entries] /\ tx.base \in [Members -> Entries]
    BY DEF TypeInv, TypeOK, TxType
  <2>2. /\ live' = [live EXCEPT ![m] = c]
        /\ \/ m \in InHands /\ tx'.late = tx.late \cup {m} /\ tx'.base = tx.base
           \/ m \notin InHands /\ tx'.late = tx.late /\ tx'.base = [tx.base EXCEPT ![m] = c]
    BY EditEffect
  <2> QED
    BY <2>1, <2>2
<1>3. Begun(s)' = Begun(s)
  BY <1>1 DEF Begun
<1>4. \A f \in Begun(s) : f.member \in Members /\ f.dest \in Members
  BY EffectKinds DEF Begun
<1>5. tx.eff # NoEffect => tx.eff \in Begun(s)
  BY DEF InPlan
<1>6. s.mkdirs \subseteq Members /\ Sources(s) \subseteq Members
  BY EffectsType DEF ShapeType, Sources
<1>7. InPlan(s)'
  BY <1>1, <1>3 DEF InPlan
<1>8. CASE m \in tx'.late /\ tx.late \subseteq tx'.late /\ tx'.base = tx.base
  <2>1. Snapshotted(s)'
    BY <1>1, <1>2, <1>6, <1>8 DEF Snapshotted
  <2>2. Untouched(s)'
    BY <1>2, <1>3, <1>8 DEF Untouched
  <2>3. AllLanded(s)'
    <3> SUFFICES ASSUME tx.phase \in {"applying", "validating"}, NEW f \in Begun(s), f # tx.eff
                 PROVE  Landed(f)'
      BY <1>1, <1>3 DEF AllLanded
    <3> QED
      BY <1>2, <1>4, <1>8 DEF AllLanded, Landed
  <2>4. Custody'
    <3> SUFFICES ASSUME tx.eff # NoEffect, NEW e, e = tx.eff PROVE InCustody(e)'
      BY <1>1 DEF Custody, InCustody, Expected
    <3>1. InCustody(e) /\ e.member \in Members /\ e.dest \in Members
      BY <1>4, <1>5 DEF Custody
    <3> QED
      BY <1>1, <1>2, <1>8, <3>1 DEF InCustody, Expected
  <2>5. Restorable'
    BY <1>1, <1>2, <1>8 DEF Restorable, Recoverable, Backed
  <2> QED
    BY <1>7, <2>1, <2>2, <2>3, <2>4, <2>5
<1>9. CASE m \notin InHands /\ tx'.late = tx.late /\ tx'.base[m] = c
  <2>1. /\ m \notin Named(Begun(s)) /\ m \notin tx.touched
        /\ \A f \in Begun(s) : f.member # m /\ f.dest # m
        /\ tx.phase \in {"snapshotted", "verified"} => m \notin Sources(s)
        /\ tx.phase # "planned" => m \notin s.mkdirs \ tx.owned
    BY <1>9, OutOfHands
  <2>2. Snapshotted(s)'
    BY <1>1, <1>2, <1>6, <1>9, <2>1 DEF Snapshotted
  <2>3. Untouched(s)'
    BY <1>2, <1>3, <1>9 DEF Untouched
  <2>4. AllLanded(s)'
    <3> SUFFICES ASSUME tx.phase \in {"applying", "validating"}, NEW f \in Begun(s), f # tx.eff
                 PROVE  Landed(f)'
      BY <1>1, <1>3 DEF AllLanded
    <3> QED
      BY <1>2, <1>4, <1>9, <2>1 DEF AllLanded, Landed
  <2>5. Custody'
    <3> SUFFICES ASSUME tx.eff # NoEffect, NEW e, e = tx.eff PROVE InCustody(e)'
      BY <1>1 DEF Custody, InCustody, Expected
    <3>1. InCustody(e) /\ e.member \in Members \ {m} /\ e.dest \in Members \ {m}
      BY <1>4, <1>5, <2>1 DEF Custody
    <3> QED
      BY <1>1, <1>2, <1>9, <3>1 DEF InCustody, Expected
  <2>6. Restorable'
    <3> SUFFICES ASSUME NEW x \in Members, x \notin tx.late, ~(tx.step = "check" /\ x = tx.eff.member)
                 PROVE  Recoverable(x)'
      BY <1>1, <1>9 DEF Restorable
    <3>1. Recoverable(x)
      BY DEF Restorable
    <3>2. CASE x = m
      BY <1>1, <1>2, <1>9, <2>1, <3>2 DEF Recoverable
    <3>3. CASE x # m
      BY <1>1, <1>2, <3>1, <3>3 DEF Recoverable, Backed
    <3> QED
      BY <3>2, <3>3
  <2> QED
    BY <1>7, <2>2, <2>3, <2>4, <2>5, <2>6
<1> QED
  BY <1>2, <1>8, <1>9

LEMMA BeginKeeps ==
    ASSUME TypeInv, NEW s \in Shapes, Begin(s)
    PROVE  tx'.shape = {s} /\ InOrder(s)'
<1> USE DEF InOrder
<1>1. /\ tx'.phase = "planned" /\ tx'.shape = {s} /\ tx'.base = live /\ live' = live
      /\ tx'.pending = Effects(s) /\ tx'.eff = NoEffect /\ tx'.attempted = FALSE
      /\ tx'.touched = {} /\ tx'.protected = {} /\ tx'.late = {}
  BY DEF Begin, Idle
<1>2. Begun(s)' = {}
  BY <1>1 DEF Begun
<1>3. \A p \in s.moves : p[1] # p[2]
  BY DEF Begin
<1>4. InPlan(s)'
  BY <1>1, <1>2, <1>3 DEF InPlan
<1>5. Snapshotted(s)' /\ Untouched(s)' /\ AllLanded(s)' /\ Custody'
  BY <1>1 DEF Snapshotted, Untouched, AllLanded, Custody
<1>6. Restorable'
  BY <1>1 DEF Restorable, Recoverable
<1> QED
  BY <1>1, <1>4, <1>5, <1>6

LEMMA MutationInvStep ==
    ASSUME TypeInv, MutationInv, [Next]_vars
    PROVE  MutationInv'
<1> USE DEF MutationInv
<1>1. ASSUME NEW s \in Shapes, Begin(s) PROVE MutationInv'
  BY <1>1, BeginKeeps
<1>2. CASE tx.phase = "idle"
  <2>1. tx = Idle
    BY <1>2 DEF TypeInv, Running
  <2>2. CASE \E m \in Members, c \in Edits \cup {Absent} : Edit(m, c)
    <3>1. PICK m \in Members, c \in Edits \cup {Absent} : Edit(m, c)
      BY <2>2
    <3>2. m \notin InHands
      BY <2>1 DEF InHands, Idle
    <3>3. tx'.shape = {}
      BY <2>1, <3>1, <3>2 DEF Edit, Idle
    <3> QED
      BY <3>3
  <2>3. CASE UNCHANGED vars
    BY <2>1, <2>3 DEF vars, Idle
  <2>4. /\ tx.eff = NoEffect /\ tx.step = "none" /\ tx.shape = {} /\ tx.pending = {}
    BY <2>1 DEF Idle
  <2>5. ~Fault
    BY <1>2, <2>4 DEF Fault, NoEffect
  <2> QED
    BY <1>1, <1>2, <2>2, <2>3, <2>4, <2>5
       DEF Next, Capture, StartEffect, CheckEffect, InstallEffect, SealEffect, EffectsLanded,
           PostconditionsFail, RemoveTouched, CopyBack, RolledBack, Crash
<1>3. CASE tx.phase # "idle"
  <2>1. PICK s \in Shapes : tx.shape = {s}
    BY <1>3 DEF TypeInv, Running
  <2>2. InOrder(s)
    BY <2>1
  <2>3. CASE InOrder(s)' /\ tx'.shape = tx.shape
    BY <2>1, <2>3
  <2>4. CASE tx' = Idle
    BY <2>4 DEF Idle
  <2>5. CASE \/ Snapshot(s) \/ Reverify(s) \/ Capture \/ EffectsLanded \/ PostconditionsFail
             \/ Raise /\ tx.eff = NoEffect
    <3>1. Quiet(s)
      BY <2>1, <2>5, QuietEffect
    <3> QED
      BY <2>2, <2>3, <3>1, QuietKeeps DEF Quiet, KeepPlan
  <2>6. ASSUME NEW e \in tx.pending, StartEffect(e) PROVE MutationInv'
    <3>1. tx'.shape = tx.shape
      BY <2>6, StartsEffect DEF Starts, KeepPlan
    <3> QED
      BY <2>1, <2>2, <2>3, <2>6, <3>1, StartsKeeps
  <2>7. CASE Recovers
    <3>1. tx.step # "none" /\ (tx.eff.kind = "move" => tx.eff.member # tx.eff.dest)
      <4>1. tx.step # "none"
        BY <2>7 DEF Recovers
      <4> QED
        BY <2>2, <4>1, InTheMiddle DEF InOrder
    <3>2. tx'.shape = tx.shape
      BY <2>7, <3>1, RestoreEffect, LeaveEffect, RecoverEffect DEF Recovers, Fails, KeepPlan
    <3> QED
      BY <2>2, <2>3, <2>7, <3>2, RecoversKeeps
  <2>8. CASE CheckEffect \/ InstallEffect \/ SealEffect
    <3>1. CASE ~Recovers
      <4>1. Goes(tx.eff) /\ tx'.shape = tx.shape
        BY <2>8, <3>1, GoesEffect DEF Goes, KeepPlan
      <4>2. InOrder(s)'
        BY <2>2, <2>8, <3>1, GoesEffect, GoesKeeps
      <4> QED
        BY <2>3, <4>1, <4>2
    <3> QED
      BY <2>7, <3>1
  <2>9. CASE Fault
    BY <2>5, <2>7, <2>9, FaultEffect
  <2>10. CASE RemoveTouched \/ CopyBack
    <3>1. tx'.shape = tx.shape
      BY <2>10, RollbackEffect DEF KeepPlan
    <3> QED
      BY <2>2, <2>3, <2>10, <3>1, RollbackKeeps
  <2>11. CASE Complete(s) \/ RolledBack \/ Crash
    BY <2>4, <2>11 DEF Complete, RolledBack, Crash
  <2>12. ASSUME NEW m \in Members, NEW c \in Edits \cup {Absent}, Edit(m, c) PROVE MutationInv'
    <3>1. tx'.shape = tx.shape
      BY <1>3, <2>12, EditEffect
    <3> QED
      BY <1>3, <2>1, <2>2, <2>3, <2>12, <3>1, EditKeeps
  <2>13. CASE UNCHANGED vars
    BY <2>13 DEF vars, InOrder, InPlan, Snapshotted, Untouched, AllLanded, Landed, Custody, InCustody,
                 Expected, Restorable, Recoverable, Backed, Begun
  <2> QED
    BY <1>1, <2>1, <2>5, <2>6, <2>8, <2>9, <2>10, <2>11, <2>12, <2>13 DEF Next
<1> QED
  BY <1>2, <1>3

LEMMA MutationInvariant == Spec => []MutationInv
<1>1. Init => MutationInv
  BY DEF Init, MutationInv, Idle
<1> QED
  BY <1>1, TypeInvariant, MutationInvStep, PTL DEF Spec

-----------------------------------------------------------------------------
(***************************************************************************)
(* The refinement.  Of the steps of a mutation the readers see its         *)
(* beginning, its end, and the edits; every other step stutters.           *)
(***************************************************************************)

LEMMA InitRefines == Init => Abstract!Init
BY DEF Init, Idle, Abstract!Init

\* When every effect has landed the bundle is the one the plan promised.
LEMMA CommitRefines ==
    ASSUME TypeInv, NEW s \in Shapes, tx.shape = {s}, InOrder(s), Complete(s)
    PROVE  Abstract!Commit
<1>1. /\ tx.phase = "validating" /\ outcome' = "ok" /\ tx' = Idle /\ live' = live /\ spent' = spent
  BY DEF Complete
<1>2. live \in [Members -> Entries] /\ tx.eff = NoEffect
  BY <1>1 DEF TypeInv, TypeOK, Running
<1>3. Begun(s) = Effects(s)
  BY <1>1 DEF InOrder, InPlan, Begun
<1>4. \A e \in Effects(s) : Landed(e)
  BY <1>1, <1>2, <1>3, EffectKinds DEF InOrder, AllLanded
<1> DEFINE raced == tx.late \cup {p[2] : p \in {q \in s.moves : q[1] \in tx.late}}
<1>5. ASSUME NEW m \in Members, m \notin raced PROVE live[m] = Abstract!Applied(s, tx.base)[m]
  <2>1. m \notin tx.late /\ \A p \in s.moves : p[2] = m => p[1] \notin tx.late
    BY <1>5
  <2> DEFINE comes == \E r \in Members : <<r, m>> \in s.moves
             goes == \E d \in Members : <<m, d>> \in s.moves
             from == CHOOSE r \in Members : <<r, m>> \in s.moves
  <2>2. Abstract!Applied(s, tx.base)[m] =
          IF m \in s.deletes THEN Absent
          ELSE IF m \in s.writes THEN Written
          ELSE IF comes THEN tx.base[from]
          ELSE IF goes THEN Absent
          ELSE IF m \in s.mkdirs /\ tx.base[m] = Absent THEN Dir
          ELSE tx.base[m]
    BY DEF Abstract!Applied
  <2>3. m \in s.deletes => live[m] = Absent
    BY <1>4, <2>1, EffectsOf DEF Landed
  <2>4. m \in s.writes => live[m] = Written
    BY <1>4, <2>1, EffectsOf DEF Landed
  <2>5. comes => live[m] = tx.base[from]
    <3> SUFFICES ASSUME comes PROVE live[m] = tx.base[from]
      OBVIOUS
    <3>1. from \in Members /\ <<from, m>> \in s.moves
      OBVIOUS
    <3> HIDE DEF from
    <3>2. from \notin tx.late
      BY <2>1, <3>1
    <3>3. PICK e \in Effects(s) : e.kind = "move" /\ e.member = from /\ e.dest = m
      BY <3>1, EffectsOf
    <3> QED
      BY <1>4, <2>1, <3>2, <3>3 DEF Landed
  <2>6. goes => live[m] = Absent
    <3> SUFFICES ASSUME NEW d \in Members, <<m, d>> \in s.moves PROVE live[m] = Absent
      OBVIOUS
    <3>1. PICK e \in Effects(s) : e.kind = "move" /\ e.member = m /\ e.dest = d
      BY EffectsOf
    <3> QED
      BY <1>4, <2>1, <3>1 DEF Landed
  <2>7. m \in s.mkdirs => live[m] = IF tx.base[m] = Absent THEN Dir ELSE tx.base[m]
    BY <1>4, <2>1, EffectsOf DEF Landed
  <2>8. CASE m \in Named(Effects(s))
    <3>1. PICK e \in Effects(s) : m \in {e.member, e.dest}
      BY <2>8 DEF Named
    <3>2. m \in s.deletes \/ m \in s.writes \/ m \in s.mkdirs \/ comes \/ goes
      <4>1. /\ e.member \in Members /\ e.dest \in Members
            /\ e.kind \in {"mkdir", "move", "write", "delete"}
            /\ e.kind = "mkdir" => e.member \in s.mkdirs /\ e.dest = e.member
            /\ e.kind = "write" => e.member \in s.writes /\ e.dest = e.member
            /\ e.kind = "delete" => e.member \in s.deletes /\ e.dest = e.member
            /\ e.kind = "move" => <<e.member, e.dest>> \in s.moves
        BY EffectKinds DEF Kinds
      <4> QED
        BY <3>1, <4>1
    <3> HIDE DEF comes, goes, from
    <3> QED
      BY <2>2, <2>3, <2>4, <2>5, <2>6, <2>7, <3>2
  <2>9. CASE m \notin Named(Effects(s))
    <3>1. live[m] = tx.base[m]
      BY <1>3, <2>1, <2>9 DEF InOrder, Untouched
    <3>2. \A e \in Effects(s) : m # e.member /\ m # e.dest
      BY <2>9 DEF Named
    <3>3. m \notin s.deletes /\ m \notin s.writes /\ m \notin s.mkdirs
      BY <3>2, EffectsOf
    <3>4. ~comes
      <4> SUFFICES ASSUME NEW r \in Members, <<r, m>> \in s.moves PROVE FALSE
        OBVIOUS
      <4>1. PICK e \in Effects(s) : e.dest = <<r, m>>[2]
        BY EffectsOf
      <4> QED
        BY <3>2, <4>1
    <3>5. ~goes
      <4> SUFFICES ASSUME NEW d \in Members, <<m, d>> \in s.moves PROVE FALSE
        OBVIOUS
      <4>1. PICK e \in Effects(s) : e.member = <<m, d>>[1]
        BY EffectsOf
      <4> QED
        BY <3>2, <4>1
    <3> HIDE DEF comes, goes, from
    <3> QED
      BY <2>2, <3>1, <3>3, <3>4, <3>5
  <2> QED
    BY <2>8, <2>9
<1>6. Abstract!End("ok")
  BY <1>1 DEF Abstract!End, Idle
<1>7. Abstract!Promised(Abstract!Applied(s, tx.base), raced)
  <2> HIDE DEF raced
  <2> QED
    BY <1>1, <1>2, <1>5 DEF Abstract!Promised, Idle, Entries
<1> QED
  BY <1>1, <1>6, <1>7 DEF Abstract!Commit

\* A rollback that reports no failure left every member as it was promised.
LEMMA RolledBackRefines ==
    ASSUME TypeInv, NEW s \in Shapes, tx.shape = {s}, InOrder(s), RolledBack
    PROVE  Abstract!Abort \/ Abstract!Break
<1>1. /\ tx.phase = "restored" /\ tx' = Idle /\ live' = live /\ outcome' \in {"clean", "broken"}
      /\ spent'.edits = spent.edits
  BY DEF RolledBack, Spend, TypeInv, TypeOK
<1>2. live \in [Members -> Entries] /\ tx.eff = NoEffect /\ tx.step = "none" /\ tx.attempted \in BOOLEAN
  BY <1>1 DEF TypeInv, TypeOK, Running, TxType
<1>3. Abstract!End(outcome')
  BY <1>1 DEF Abstract!End, Idle
<1>4. CASE outcome' = "broken"
  BY <1>1, <1>2, <1>3, <1>4 DEF Abstract!Break, Idle, Entries
<1>5. CASE outcome' = "clean"
  <2>1. tx.attempted => tx.protected = {} /\ \A m \in tx.owned : live[m] = tx.snap[m]
    BY <1>5 DEF RolledBack
  <2>2. ASSUME NEW m \in Members \ tx.late PROVE live[m] = tx.base[m]
    <3>1. CASE ~tx.attempted
      BY <3>1, NothingBegun DEF InOrder
    <3>2. CASE tx.attempted
      <4>1. Recoverable(m)
        BY <1>2 DEF InOrder, Restorable
      <4> QED
        BY <2>1, <3>2, <4>1 DEF Recoverable, Backed
    <3> QED
      BY <1>2, <3>1, <3>2
  <2>3. Abstract!Promised(tx.base, tx.late)
    BY <1>1, <1>2, <2>2 DEF Abstract!Promised, Idle, Entries
  <2> QED
    BY <1>1, <1>3, <1>5, <2>3 DEF Abstract!Abort
<1> QED
  BY <1>1, <1>4, <1>5

LEMMA StepRefines ==
    ASSUME TypeInv, TypeInv', MutationInv, [Next]_vars
    PROVE  [Abstract!Next]_(Abstract!vars)
<1>1. /\ live \in [Members -> Entries] /\ tx \in TxType
      /\ spent \in [mutations : Nat, edits : Nat, faults : Nat, crashes : Nat]
  BY DEF TypeInv, TypeOK
<1>2. ASSUME NEW s \in Shapes, Begin(s) PROVE Abstract!Begin(s)
  <2>1. tx = Idle
    BY <1>2 DEF Begin, TypeInv, Running
  <2>2. /\ tx'.phase = "planned" /\ tx'.shape = {s} /\ tx'.base = live /\ tx'.late = {}
        /\ outcome' = outcome
    BY <1>2 DEF Begin, Idle
  <2>3. spent'.edits = spent.edits
    BY <1>1, <1>2 DEF Begin, Spend
  <2> QED
    BY <2>1, <2>2, <2>3 DEF Abstract!Begin, Idle
<1>3. ASSUME NEW m \in Members, NEW c \in Edits \cup {Absent}, Edit(m, c)
      PROVE  Abstract!Next
  <2>1. /\ live' = [live EXCEPT ![m] = c] /\ outcome' = outcome /\ spent'.edits = spent.edits + 1
        /\ c \in Contents \cup {Absent}
    BY <1>1, <1>3 DEF Edit, Spend, Contents
  <2>2. CASE tx.phase = "idle"
    <3>1. tx = Idle
      BY <2>2 DEF TypeInv, Running
    <3>2. m \notin InHands
      BY <3>1 DEF InHands, Idle
    <3>3. tx'.phase = "idle" /\ tx'.shape = tx.shape /\ tx'.late = tx.late
      BY <1>3, <3>1, <3>2 DEF Edit, Idle
    <3>4. Abstract!Edit(m, c)
      BY <2>1, <2>2, <3>3 DEF Abstract!Edit
    <3> QED
      BY <2>1, <3>4 DEF Abstract!Next
  <2>3. CASE tx.phase # "idle"
    <3>1. tx.shape # {}
      BY <2>3 DEF TypeInv, Running
    <3>2. tx'.phase = tx.phase /\ tx'.shape = tx.shape
      BY <1>3, <2>3, EditEffect
    <3>3. CASE tx'.late = tx.late \cup {m} /\ tx'.base = tx.base
      <4>1. Abstract!Race(m)
        BY <2>1, <2>3, <3>1, <3>2, <3>3 DEF Abstract!Race
      <4> QED
        BY <4>1 DEF Abstract!Next
    <3>4. CASE tx'.late = tx.late /\ tx'.base = [tx.base EXCEPT ![m] = c]
      <4>1. Abstract!Edit(m, c)
        BY <2>1, <2>3, <3>2, <3>4 DEF Abstract!Edit
      <4> QED
        BY <2>1, <4>1 DEF Abstract!Next
    <3> QED
      BY <1>3, <2>3, <3>3, <3>4, EditEffect
  <2> QED
    BY <2>2, <2>3
<1>4. CASE UNCHANGED vars
  BY <1>4 DEF vars, Abstract!vars
<1>5. CASE Next /\ tx.phase # "idle" /\ ~(\E m \in Members, c \in Edits \cup {Absent} : Edit(m, c))
  <2>1. PICK s \in Shapes : tx.shape = {s}
    BY <1>5 DEF TypeInv, Running
  <2>2. InOrder(s)
    BY <2>1 DEF MutationInv
  <2>3. CASE /\ tx'.phase # "idle" /\ tx'.shape = tx.shape /\ tx'.base = tx.base /\ tx'.late = tx.late
             /\ outcome' = outcome /\ spent'.edits = spent.edits
    BY <1>5, <2>3 DEF Abstract!vars
  <2>4. ASSUME Spend("faults") PROVE spent'.edits = spent.edits
    BY <1>1, <2>4 DEF Spend
  <2>5. CASE Snapshot(s) \/ Reverify(s) \/ Capture \/ EffectsLanded \/ PostconditionsFail
    <3>1. Quiet(s)
      BY <2>1, <2>5, QuietEffect
    <3>2. outcome' = outcome /\ spent' = spent
      BY <2>5 DEF Snapshot, Reverify, Capture, EffectsLanded, PostconditionsFail
    <3> QED
      BY <2>3, <3>1, <3>2 DEF Quiet, KeepPlan
  <2>6. ASSUME NEW e \in tx.pending, StartEffect(e) PROVE UNCHANGED Abstract!vars
    <3>1. /\ tx'.phase \in {"applying", "failing"} /\ KeepPlan /\ tx'.late = tx.late
          /\ outcome' = outcome /\ spent' = spent
      BY <2>6, StartsEffect DEF StartEffect, Starts, Makes, FindsDone, Takes
    <3> QED
      BY <1>5, <3>1 DEF KeepPlan, Abstract!vars
  <2>7. ASSUME Recovers, outcome' = outcome, spent'.edits = spent.edits
        PROVE  [Abstract!Next]_(Abstract!vars)
    <3>1. /\ tx.step # "none" /\ tx.eff.member \in Members
          /\ tx.eff.kind = "move" => tx.eff.member # tx.eff.dest
      <4>1. tx.step # "none"
        BY <2>7 DEF Recovers
      <4> QED
        BY <2>2, <4>1, InTheMiddle DEF InOrder
    <3>2. /\ Fails
          /\ tx'.late = tx.late \/ tx'.late = tx.late \cup {tx.eff.member}
      BY <2>7, <3>1, RestoreEffect, LeaveEffect, RecoverEffect DEF Recovers
    <3>3. CASE tx'.late = tx.late
      BY <2>3, <2>7, <3>2, <3>3 DEF Fails, KeepPlan
    <3>4. CASE tx'.late = tx.late \cup {tx.eff.member}
      <4>1. Abstract!Race(tx.eff.member)
        BY <1>5, <2>1, <2>7, <3>2, <3>4 DEF Abstract!Race, Fails, KeepPlan
      <4> QED
        BY <3>1, <4>1 DEF Abstract!Next
    <3> QED
      BY <3>2, <3>3, <3>4
  <2>8. CASE CheckEffect \/ InstallEffect \/ SealEffect
    <3>1. outcome' = outcome /\ spent' = spent
      BY <2>8 DEF CheckEffect, InstallEffect, SealEffect
    <3>2. CASE Recovers
      BY <2>7, <3>1, <3>2
    <3>3. CASE Goes(tx.eff)
      BY <2>3, <3>1, <3>3 DEF Goes, KeepPlan
    <3> QED
      BY <2>8, <3>2, <3>3, GoesEffect
  <2>9. CASE Fault
    <3>1. outcome' = outcome /\ spent'.edits = spent.edits
      BY <2>4, <2>9 DEF Fault
    <3>2. CASE Raise
      BY <2>3, <3>1, <3>2, RaiseEffect DEF Fails, KeepPlan
    <3> QED
      BY <2>7, <2>9, <3>1, <3>2, FaultEffect
  <2>10. CASE RemoveTouched \/ CopyBack
    <3>1. outcome' = outcome /\ spent'.edits = spent.edits
      BY <2>4, <2>10 DEF RemoveTouched, CopyBack
    <3> QED
      BY <2>3, <2>10, <3>1, RollbackEffect DEF KeepPlan
  <2>11. CASE Complete(s)
    BY <2>1, <2>2, <2>11, CommitRefines DEF Abstract!Next
  <2>12. CASE RolledBack
    BY <2>1, <2>2, <2>12, RolledBackRefines DEF Abstract!Next
  <2>13. CASE Crash
    <3>1. tx' = Idle /\ live' = live /\ outcome' = "broken" /\ spent'.edits = spent.edits
      BY <1>1, <2>13 DEF Crash, Spend
    <3>2. Abstract!Break
      BY <1>1, <2>1, <3>1 DEF Abstract!Break, Abstract!End, Idle, Entries
    <3> QED
      BY <3>2 DEF Abstract!Next
  <2> QED
    BY <1>5, <2>1, <2>5, <2>6, <2>8, <2>9, <2>10, <2>11, <2>12, <2>13 DEF Next, Begin
<1>6. CASE Next /\ tx.phase = "idle" /\ ~(\E m \in Members, c \in Edits \cup {Absent} : Edit(m, c))
  <2>1. /\ tx.eff = NoEffect /\ tx.step = "none" /\ tx.shape = {} /\ tx.pending = {}
    BY <1>6 DEF TypeInv, Running, Idle
  <2>2. ~Fault
    BY <1>6, <2>1 DEF Fault, NoEffect
  <2>3. \E s \in Shapes : Begin(s)
    BY <1>6, <2>1, <2>2
       DEF Next, Capture, StartEffect, CheckEffect, InstallEffect, SealEffect, EffectsLanded,
           PostconditionsFail, RemoveTouched, CopyBack, RolledBack, Crash
  <2> QED
    BY <1>2, <2>3 DEF Abstract!Next
<1> QED
  BY <1>3, <1>4, <1>5, <1>6

\* The executor implements the atomic mutation, for every bundle and every set of plans:
\* a reported success has every effect of its plan in place, a rollback reported clean
\* left every member as it was, and whatever else happens is reported as broken.
THEOREM Implements == Spec => IsAtomic
<1>1. TypeInv /\ TypeInv' /\ MutationInv /\ [Next]_vars => [Abstract!Next]_(Abstract!vars)
  BY StepRefines
<1>2. Init => Abstract!Init
  BY InitRefines
<1> QED
  BY <1>1, <1>2, TypeInvariant, MutationInvariant, PTL DEF Spec, IsAtomic, Abstract!Spec

-----------------------------------------------------------------------------
(***************************************************************************)
(* Nothing is lost.  The content a member was last given is safe (in       *)
(* quarantine, or in a snapshot that outlives the mutation), or it is      *)
(* under its name and no rollback will take it from there, or it is in     *)
(* custody and not yet looked at.  What waits to be moved or deleted must  *)
(* be in the snapshot unless the capture does not match: otherwise the     *)
(* effect would go through and destroy the only copy.                      *)
(***************************************************************************)

\* A directory that no sweep removes unnoticed.
Lasting(d) == d.state \notin {"complete", "rolled-back"} \/ (d.state = "rolled-back" /\ ~d.complete)

Safe(m, v) ==
    \/ <<m, v>> \in left
    \/ \E d \in dirs : Lasting(d) /\ m \in d.owned /\ d.snap[m] = v
    \/ tx.attempted /\ m \in tx.owned /\ tx.snap[m] = v

\* m is still to be moved away or deleted.
Doomed(m) == \E e \in tx.pending : e.kind \in {"move", "delete"} /\ e.member = m

InPlace(m, v) ==
    /\ live[m] = v
    /\ m \notin tx.touched \/ m \in tx.protected \/ m \notin tx.owned
    /\ ~(tx.step = "seal" /\ tx.eff.kind = "move" /\ m = tx.eff.dest)
    /\ tx.phase \in {"snapshotted", "verified"} /\ Doomed(m) => v = tx.snap[m]
    /\ tx.phase = "applying" /\ Doomed(m) => v = tx.snap[m] \/ v # tx.want[m]

Unseen(m, v) ==
    /\ tx.step = "check" /\ tx.eff.member = m /\ tx.held = v
    /\ tx.eff.kind = "write" \/ v = tx.snap[m] \/ v # tx.want[m]

HasIt(m, v) == Safe(m, v) \/ InPlace(m, v) \/ Unseen(m, v)

KeptInv ==
    /\ \A s \in tx.shape : tx.owned \subseteq Named(Effects(s))
    /\ \A m \in Members \ forgotten :
         valued[m] # Absent => HasIt(m, valued[m])

LEMMA QuietHas ==
    ASSUME TypeInv, NEW s \in Shapes, InOrder(s), Quiet(s), left' = left, dirs' = dirs,
           NEW m \in Members, NEW v, v # Absent, HasIt(m, v)
    PROVE  HasIt(m, v)'
<1> USE DEF Quiet, KeepPlan, KeepWork, KeepMarks, KeepSnapshot, Released
<1>1. tx.step = "none" /\ tx.eff = NoEffect /\ tx.attempted \in BOOLEAN /\ ~Unseen(m, v)
  BY DEF TypeInv, TypeOK, TxType, Unseen
<1>2. CASE Safe(m, v)
  <2>1. tx.attempted => tx.phase # "planned"
    BY DEF InOrder, InPlan
  <2>2. Safe(m, v)'
    BY <1>2, <2>1 DEF Safe
  <2> QED
    BY <2>2 DEF HasIt
<1>3. CASE InPlace(m, v)
  <2>1. Doomed(m)' <=> Doomed(m)
    BY DEF Doomed
  <2>2. tx.phase = "planned" => tx.touched = {}
    BY DEF InOrder, InPlan
  <2>3. InPlace(m, v)'
    BY <1>1, <1>3, <2>1, <2>2 DEF InPlace
  <2> QED
    BY <2>3 DEF HasIt
<1> QED
  BY <1>1, <1>2, <1>3 DEF HasIt

LEMMA StartsHas ==
    ASSUME TypeInv, NEW s \in Shapes, InOrder(s), NEW e \in tx.pending, StartEffect(e),
           NEW m \in Members, NEW v, v # Absent, HasIt(m, v)
    PROVE  HasIt(m, v)'
<1> USE DEF KeepPlan, KeepMarks, KeepSnapshot, Released
<1>1. tx.step = "none" /\ ~Unseen(m, v) /\ live \in [Members -> Entries]
  BY StartsEffect DEF TypeInv, TypeOK, Starts, Unseen
<1>2. Starts(e) /\ left' = left /\ dirs' = dirs
  BY StartsEffect DEF StartEffect
<1>3. CASE Safe(m, v)
  BY <1>2, <1>3 DEF HasIt, Safe, Starts
<1>4. CASE InPlace(m, v)
  <2>1. Doomed(m)' => Doomed(m)
    BY <1>2 DEF Doomed, Starts
  <2>2. e \in Effects(s) /\ e.member \in Members /\ e.kind \in Kinds
    BY EffectKinds DEF InOrder, InPlan
  <2>3. CASE Takes(e) /\ m = e.member
    <3>1. Unseen(m, v)'
      <4>1. e.kind \in {"move", "delete"} => Doomed(m)
        BY <2>3 DEF Doomed
      <4>2. e.kind = "write" \/ v = tx.snap[m] \/ v # tx.want[m]
        BY <1>2, <1>4, <2>2, <2>3, <4>1 DEF InPlace, Takes, Kinds, Starts
      <4> QED
        BY <1>2, <1>4, <2>3, <4>2 DEF Unseen, Takes, InPlace, Starts
    <3> QED
      BY <3>1 DEF HasIt
  <2>4. CASE /\ live'[m] = live[m]
             /\ m \in tx'.touched => m \in tx.touched
             /\ tx.protected \subseteq tx'.protected /\ tx'.step # "seal"
             /\ tx'.phase \in {"applying", "failing"}
    <3>1. InPlace(m, v)'
      BY <1>2, <1>4, <2>1, <2>4 DEF InPlace, Starts
    <3> QED
      BY <3>1 DEF HasIt
  <2>5. ASSUME NEW made \in {Dir, Written}, Makes(e, made) PROVE HasIt(m, v)'
    <3>1. m # e.member
      BY <1>4, <2>5 DEF Makes, InPlace
    <3> QED
      BY <1>1, <2>4, <2>5, <3>1 DEF Makes
  <2>6. CASE Takes(e) /\ m # e.member
    BY <1>1, <2>4, <2>6 DEF Takes
  <2>7. CASE live' = live /\ KeepMarks /\ Released /\ tx'.phase \in {"applying", "failing"}
    BY <2>4, <2>7
  <2> QED
    BY <2>3, <2>5, <2>6, <2>7, StartsEffect DEF FindsDone
<1> QED
  BY <1>1, <1>3, <1>4 DEF HasIt

LEMMA GoesHas ==
    ASSUME TypeInv, NEW s \in Shapes, InOrder(s), NEW e, e = tx.eff, Goes(e), dirs' = dirs,
           Finds(e) \/ Deletes(e) \/ Writes(e) \/ Moves(e) \/ SealsWrite(e) \/ SealsMove(e),
           NEW m \in Members, NEW v, v # Absent, HasIt(m, v)
    PROVE  HasIt(m, v)'
<1> USE DEF KeepPlan, KeepMarks, KeepSnapshot, KeepWork, Released, Goes
<1>1. /\ live \in [Members -> Entries] /\ InCustody(e) /\ tx.attempted
      /\ e # NoEffect /\ e.member \in Members /\ e.dest \in Members
      /\ e.kind \in {"move", "write", "delete"}
      /\ e.kind # "move" => e.dest = e.member
      /\ e.kind = "move" => e.dest # e.member
      /\ e.member \in tx.owned
      /\ e.kind = "write" => tx.snap[e.member] = tx.seen[e.member]
  <2>1. e # NoEffect /\ tx.phase = "applying" /\ e \in Effects(s)
    BY InTheMiddle DEF InOrder
  <2>2. e.kind = "write" => tx.snap[e.member] = tx.seen[e.member]
    BY <2>1, EffectKinds DEF InOrder, Snapshotted
  <2> QED
    BY <2>1, <2>2, InTheMiddle DEF InOrder, TypeInv, TypeOK, Custody
<1>2. CASE Safe(m, v)
  BY <1>2 DEF HasIt, Safe
<1>3. CASE Unseen(m, v)
  <2>1. Finds(e)
    BY <1>3 DEF Unseen, Deletes, Writes, Moves, SealsWrite, SealsMove
  <2>2. m = e.member /\ v = tx.snap[m]
    BY <1>1, <1>3, <2>1 DEF Unseen, Finds, Expected
  <2> QED
    BY <1>1, <2>2 DEF HasIt, Safe
<1>4. CASE InPlace(m, v)
  <2>1. Doomed(m)' <=> Doomed(m)
    BY DEF Doomed
  <2>2. CASE /\ live'[m] = v
             /\ m \in tx'.touched => m \in tx.touched \/ m \in tx'.protected
             /\ m \in tx.protected => m \in tx'.protected
             /\ ~(tx'.step = "seal" /\ tx'.eff.kind = "move" /\ m = tx'.eff.dest)
    <3>1. InPlace(m, v)'
      BY <1>4, <2>1, <2>2 DEF InPlace
    <3> QED
      BY <3>1 DEF HasIt
  <2>3. CASE Finds(e) \/ Deletes(e) \/ SealsWrite(e)
    BY <1>4, <2>2, <2>3 DEF InPlace, Finds, Deletes, SealsWrite
  <2>4. CASE Writes(e)
    <3>1. m # e.member
      BY <1>4, <2>4 DEF InPlace, Writes
    <3> QED
      BY <1>1, <1>4, <2>2, <2>4, <3>1 DEF InPlace, Writes
  <2>5. CASE Moves(e)
    <3>1. m # e.dest
      BY <1>4, <2>5 DEF InPlace, Moves
    <3>2. live'[m] = v
      BY <1>1, <1>4, <2>5, <3>1 DEF InPlace, Moves
    <3>3. e.member \in tx.protected
      BY <1>1, <2>5 DEF InCustody, Moves
    <3> QED
      BY <2>2, <2>5, <3>1, <3>2, <3>3 DEF Moves
  <2>6. CASE SealsMove(e)
    <3>1. m # e.dest /\ m # e.member
      BY <1>4, <2>6 DEF InPlace, SealsMove
    <3> QED
      BY <1>4, <2>2, <2>6, <3>1 DEF InPlace, SealsMove
  <2> QED
    BY <2>3, <2>4, <2>5, <2>6
<1> QED
  BY <1>2, <1>3, <1>4 DEF HasIt

LEMMA RecoversHas ==
    ASSUME TypeInv, NEW s \in Shapes, InOrder(s), Recovers, dirs' = dirs,
           NEW m \in Members, NEW v, v # Absent, HasIt(m, v)
    PROVE  HasIt(m, v)'
<1> USE DEF KeepPlan, KeepMarks, KeepSnapshot, KeepWork, Released, Fails
<1> DEFINE e == tx.eff
<1>1. /\ live \in [Members -> Entries] /\ tx.step # "none" /\ InCustody(e)
      /\ e.member \in Members /\ e.dest \in Members
      /\ e.kind # "move" => e.dest = e.member
      /\ e.kind = "move" => e.dest # e.member
  <2>1. tx.step # "none"
    BY DEF Recovers
  <2>2. e # NoEffect
    BY <2>1, InTheMiddle DEF InOrder
  <2> QED
    BY <2>1, <2>2, InTheMiddle DEF InOrder, TypeInv, TypeOK, Custody
<1>2. ASSUME e.kind = "move", RecoverMove
      PROVE  /\ Fails /\ tx'.late = tx.late
             /\ \/ KeepMarks /\ live' = live /\ left' = left /\ tx.step = "seal"
                \/ TakesBack(e.member, e.dest)
  BY <1>1, <1>2, RecoverEffect
<1>3. Fails /\ left \subseteq left'
  <2>1. CASE RestoreCustody
    BY <1>1, <2>1, RestoreEffect
  <2>2. CASE LeaveCustody
    BY <2>2, LeaveEffect
  <2>3. CASE e.kind = "move" /\ RecoverMove
    BY <1>2, <2>3 DEF TakesBack
  <2> QED
    BY <2>1, <2>2, <2>3 DEF Recovers
<1>4. ASSUME live'[m] = v, m \in tx'.touched => m \in tx.touched,
             m \in tx.touched /\ m \in tx.owned /\ m \notin tx.protected => m \notin tx'.touched,
             m \in tx.protected => m \in tx'.protected \/ m \notin tx'.touched
      PROVE  HasIt(m, v)'
  <2>1. InPlace(m, v)'
    BY <1>3, <1>4 DEF InPlace
  <2> QED
    BY <2>1 DEF HasIt
<1>5. CASE Safe(m, v)
  BY <1>3, <1>5 DEF HasIt, Safe
<1>6. CASE InPlace(m, v)
  <2>1. live[m] = v /\ ~(m \in tx.touched /\ m \in tx.owned /\ m \notin tx.protected)
    BY <1>6 DEF InPlace
  <2>2. CASE RestoreCustody
    <3>1. CASE /\ live[e.member] = Absent /\ live' = [live EXCEPT ![e.member] = tx.held]
               /\ tx'.touched = tx.touched \ {e.member} /\ tx'.protected = tx.protected
      <4>1. m # e.member
        BY <2>1, <3>1
      <4> QED
        BY <1>1, <1>4, <2>1, <3>1, <4>1
    <3>2. CASE /\ live' = live /\ tx'.touched = tx.touched
               /\ tx'.protected = tx.protected \cup {e.member}
      BY <1>4, <2>1, <3>2
    <3> QED
      BY <1>1, <2>2, <3>1, <3>2, RestoreEffect
  <2>3. CASE LeaveCustody
    BY <1>4, <2>1, <2>3, LeaveEffect
  <2>4. CASE e.kind = "move" /\ KeepMarks /\ live' = live
    BY <1>4, <2>1, <2>4
  <2>5. CASE e.kind = "move" /\ TakesBack(e.member, e.dest)
    <3>1. CASE m \notin {e.member, e.dest}
      BY <1>4, <2>1, <2>5, <3>1 DEF TakesBack
    <3>2. CASE m = e.member
      <4>1. live'[m] = live[m] /\ m \in tx.protected /\ m \in tx'.protected
        BY <1>1, <2>1, <2>5, <3>2 DEF TakesBack, InCustody
      <4>2. tx'.touched \subseteq tx.touched
        BY <2>5 DEF TakesBack
      <4> QED
        BY <1>4, <2>1, <4>1, <4>2
    <3>3. CASE m = e.dest
      <4>1. tx.step # "seal"
        BY <1>6, <2>5, <3>3 DEF InPlace
      <4>2. live'[m] = live[m] /\ m \in tx.protected /\ m \in tx'.protected
        BY <1>1, <2>1, <2>5, <3>3, <4>1 DEF TakesBack, InCustody
      <4>3. tx'.touched \subseteq tx.touched
        BY <2>5 DEF TakesBack
      <4> QED
        BY <1>4, <2>1, <4>2, <4>3
    <3> QED
      BY <3>1, <3>2, <3>3
  <2> QED
    BY <1>2, <2>2, <2>3, <2>4, <2>5 DEF Recovers
<1>7. CASE Unseen(m, v)
  <2>1. m = e.member /\ v = tx.held /\ tx.step = "check"
    BY <1>7 DEF Unseen
  <2>2. CASE <<m, v>> \in left'
    BY <2>2 DEF HasIt, Safe
  <2>3. ASSUME live'[m] = v, m \notin tx'.touched \/ m \in tx'.protected PROVE HasIt(m, v)'
    <3>1. InPlace(m, v)'
      BY <1>3, <2>3 DEF InPlace
    <3> QED
      BY <3>1 DEF HasIt
  <2>4. CASE RestoreCustody
    <3>1. CASE live' = [live EXCEPT ![m] = tx.held] /\ tx'.touched = tx.touched \ {m}
      BY <1>1, <2>1, <2>3, <3>1
    <3>2. CASE left' = left \cup {<<m, tx.held>>}
      BY <2>1, <2>2, <3>2
    <3> QED
      BY <1>1, <2>1, <2>4, <3>1, <3>2, RestoreEffect
  <2>5. CASE LeaveCustody
    BY <2>1, <2>2, <2>5, LeaveEffect
  <2>6. CASE e.kind = "move" /\ TakesBack(e.member, e.dest)
    <3>1. m \in tx.protected
      BY <1>1, <2>1, <2>6 DEF InCustody
    <3>2. \/ live'[m] = v /\ (m \notin tx'.touched \/ m \in tx'.protected)
          \/ <<m, v>> \in left'
      BY <2>1, <2>6, <3>1 DEF TakesBack
    <3> QED
      BY <2>2, <2>3, <3>2
  <2> QED
    BY <1>2, <2>1, <2>4, <2>5, <2>6 DEF Recovers
<1> QED
  BY <1>5, <1>6, <1>7 DEF HasIt

LEMMA RollbackHas ==
    ASSUME TypeInv, RemoveTouched \/ CopyBack,
           NEW m \in Members, NEW v, v # Absent, HasIt(m, v)
    PROVE  HasIt(m, v)'
<1> USE DEF KeepPlan, KeepMarks, KeepSnapshot, KeepWork, Released
<1>1. /\ tx.phase \in {"failing", "removed"} /\ tx'.phase \in {"removed", "restored"}
      /\ KeepSnapshot /\ KeepWork /\ KeepMarks
      /\ Released /\ left' = left /\ tx.step = "none"
      /\ \A x \in Members \ Selected : live'[x] = live[x]
  BY RollbackEffect DEF TypeInv, TypeOK
<1>2. dirs' = dirs
  BY DEF RemoveTouched, CopyBack
<1>3. CASE Safe(m, v)
  BY <1>1, <1>2, <1>3 DEF HasIt, Safe
<1>4. CASE InPlace(m, v)
  <2>1. m \notin Selected
    BY <1>4 DEF InPlace, Selected
  <2>2. InPlace(m, v)'
    BY <1>1, <1>4, <2>1 DEF InPlace
  <2> QED
    BY <2>2 DEF HasIt
<1> QED
  BY <1>1, <1>3, <1>4 DEF HasIt, Unseen

\* Between two mutations the content is under its name or safe.
LEMMA AtRest ==
    ASSUME tx' = Idle, NEW m \in Members, NEW v,
           \/ live'[m] = v
           \/ <<m, v>> \in left'
           \/ \E d \in dirs' : Lasting(d) /\ m \in d.owned /\ d.snap[m] = v
    PROVE  HasIt(m, v)'
<1>1. CASE live'[m] = v
  <2>1. InPlace(m, v)'
    BY <1>1 DEF InPlace, Idle
  <2> QED
    BY <2>1 DEF HasIt
<1>2. CASE live'[m] # v
  BY <1>2 DEF HasIt, Safe, Lasting
<1> QED
  BY <1>1, <1>2

LEMMA WasAtRest ==
    ASSUME tx = Idle, NEW m \in Members, NEW v, v # Absent, HasIt(m, v)
    PROVE  \/ live[m] = v
           \/ <<m, v>> \in left
           \/ \E d \in dirs : Lasting(d) /\ m \in d.owned /\ d.snap[m] = v
BY DEF HasIt, Safe, InPlace, Unseen, Idle

\* A success: what the plan did not name is where it was; a sweep that takes the last
\* copy of something is remembered.
LEMMA CompleteHas ==
    ASSUME TypeInv, NEW s \in Shapes, tx.shape = {s}, KeptInv, Complete(s),
           NEW m \in Members \ forgotten', NEW v, v = valued'[m], v # Absent
    PROVE  HasIt(m, v)'
<1>1. /\ tx' = Idle /\ live' = live /\ left' = left /\ tx.phase = "validating"
      /\ forgotten \subseteq forgotten'
  BY DEF Complete
<1>2. CASE m \in Named(Effects(s))
  <2>1. valued'[m] = live[m]
    BY <1>2 DEF Complete
  <2> QED
    BY <1>1, <2>1, AtRest
<1>3. CASE m \notin Named(Effects(s))
  <2>1. v = valued[m] /\ m \notin tx.owned
    BY <1>3 DEF Complete, KeptInv
  <2>2. HasIt(m, v) /\ tx.step = "none"
    BY <1>1, <2>1 DEF KeptInv, TypeInv, TypeOK, Running
  <2>3. \/ live[m] = v
        \/ <<m, v>> \in left
        \/ \E d \in dirs : Lasting(d) /\ m \in d.owned /\ d.snap[m] = v
    BY <2>1, <2>2 DEF HasIt, Safe, InPlace, Unseen
  <2>4. ASSUME NEW d \in dirs, Lasting(d), m \in d.owned PROVE d \in dirs'
    <3> DEFINE ds == dirs \cup {Directory(tx, "complete", TRUE)}
    <3>1. dirs' = ds \ Stale(ds) /\ forgotten' = forgotten \cup Unrestored(Stale(ds))
      BY DEF Complete
    <3>2. ASSUME d \in Stale(ds) PROVE FALSE
      <4>1. d.state \in {"complete", "rolled-back"}
        BY <3>2 DEF Stale
      <4>2. d.state = "rolled-back" /\ ~d.complete
        BY <2>4, <4>1 DEF Lasting
      <4>3. m \in Unrestored(Stale(ds))
        BY <2>4, <3>2, <4>2 DEF Unrestored
      <4> QED
        BY <3>1, <4>3
    <3> QED
      BY <3>1, <3>2
  <2> QED
    BY <1>1, <2>3, <2>4, AtRest
<1> QED
  BY <1>2, <1>3

\* A rollback: the snapshot stays in the cache unless every member is as it was.
LEMMA RolledBackHas ==
    ASSUME TypeInv, KeptInv, RolledBack,
           NEW m \in Members \ forgotten', NEW v, v = valued'[m], v # Absent
    PROVE  HasIt(m, v)'
<1>1. /\ tx' = Idle /\ live' = live /\ left' = left /\ forgotten' = forgotten /\ dirs \subseteq dirs'
      /\ tx.phase = "restored" /\ valued' = Settled
  BY DEF RolledBack
<1>2. tx.step = "none"
  BY <1>1 DEF TypeInv, TypeOK, Running
<1>3. v = live[m] \/ v = valued[m]
  BY <1>1 DEF Settled
<1>4. CASE v = live[m]
  BY <1>1, <1>4, AtRest
<1>5. CASE v = valued[m] /\ v # live[m]
  <2>1. HasIt(m, v)
    BY <1>1, <1>5 DEF KeptInv
  <2>2. Safe(m, v)
    BY <1>2, <1>5, <2>1 DEF HasIt, InPlace, Unseen
  <2>3. CASE tx.attempted /\ m \in tx.owned /\ tx.snap[m] = v
    <3>1. \E d \in {Directory(tx, "rolled-back", FALSE), Directory(tx, "rolling-back", FALSE)} :
            d \in dirs'
      <4>1. CASE outcome' = "clean"
        <5>1. live[m] = tx.snap[m]
          BY <2>3, <4>1 DEF RolledBack
        <5> QED
          BY <1>5, <2>3, <5>1
      <4>2. CASE outcome' # "clean"
        BY <4>2 DEF RolledBack
      <4> QED
        BY <4>1, <4>2
    <3>2. \A d \in {Directory(tx, "rolled-back", FALSE), Directory(tx, "rolling-back", FALSE)} :
            Lasting(d) /\ m \in d.owned /\ d.snap[m] = v
      BY <2>3 DEF Directory, Lasting
    <3> QED
      BY <1>1, <3>1, <3>2, AtRest
  <2> QED
    BY <1>1, <2>2, <2>3, AtRest DEF Safe
<1> QED
  BY <1>3, <1>4, <1>5

LEMMA CrashHas ==
    ASSUME TypeInv, KeptInv, Crash,
           NEW m \in Members \ forgotten', NEW v, v = valued'[m], v # Absent
    PROVE  HasIt(m, v)'
<1>1. /\ tx' = Idle /\ live' = live /\ forgotten' = forgotten /\ valued' = Settled
      /\ dirs' = dirs \cup {Directory(tx, tx.journal, FALSE)}
      /\ left' = IF tx.held = Absent THEN left ELSE left \cup {<<tx.eff.member, tx.held>>}
  BY DEF Crash
<1>2. tx.journal \notin {"complete", "rolled-back"}
  BY DEF TypeInv, TypeOK, TxType
<1>3. v = live[m] \/ v = valued[m]
  BY <1>1 DEF Settled
<1>4. CASE v = live[m]
  BY <1>1, <1>4, AtRest
<1>5. CASE v = valued[m] /\ v # live[m]
  <2>1. Safe(m, v) \/ Unseen(m, v)
    BY <1>1, <1>5 DEF KeptInv, HasIt, InPlace
  <2>2. CASE Unseen(m, v)
    BY <1>1, <2>2, AtRest DEF Unseen
  <2>3. CASE tx.attempted /\ m \in tx.owned /\ tx.snap[m] = v
    <3> DEFINE d == Directory(tx, tx.journal, FALSE)
    <3>1. d \in dirs' /\ Lasting(d) /\ m \in d.owned /\ d.snap[m] = v
      BY <1>1, <1>2, <2>3 DEF Directory, Lasting
    <3> QED
      BY <1>1, <3>1, AtRest
  <2>4. CASE <<m, v>> \in left
    BY <1>1, <2>4, AtRest
  <2>5. CASE \E d \in dirs : Lasting(d) /\ m \in d.owned /\ d.snap[m] = v
    BY <1>1, <2>5, AtRest
  <2> QED
    BY <2>1, <2>2, <2>3, <2>4, <2>5 DEF Safe
<1> QED
  BY <1>3, <1>4, <1>5

\* An editor who races for a member gives up what he overwrites; one who does not finds
\* his content where he put it.
LEMMA EditHas ==
    ASSUME TypeInv, MutationInv, KeptInv, NEW x \in Members, NEW c \in Edits \cup {Absent}, Edit(x, c),
           NEW m \in Members \ forgotten', NEW v, v = valued'[m], v # Absent
    PROVE  HasIt(m, v)'
<1> USE DEF KeepMarks, KeepSnapshot, KeepWork
<1>1. /\ live' = [live EXCEPT ![x] = c] /\ left' = left /\ dirs' = dirs /\ forgotten' = forgotten
      /\ \/ x \in InHands /\ valued' = [valued EXCEPT ![x] = IF live[x] = @ THEN Absent ELSE @]
         \/ x \notin InHands /\ valued' = [valued EXCEPT ![x] = c]
  BY DEF Edit
<1>2. live \in [Members -> Entries] /\ valued \in [Members -> Entries]
  BY DEF TypeInv, TypeOK
<1>3. \/ m # x /\ v = valued[m] /\ live'[m] = live[m]
      \/ m = x /\ x \in InHands /\ v = valued[m] /\ v # live[m]
      \/ m = x /\ x \notin InHands /\ live'[m] = v
  BY <1>1, <1>2
<1>4. v = valued[m] => HasIt(m, v)
  BY <1>1 DEF KeptInv
<1>5. CASE tx.phase = "idle"
  <2>1. tx = Idle
    BY <1>5 DEF TypeInv, Running
  <2>2. x \notin InHands
    BY <2>1 DEF InHands, Idle
  <2>3. tx' = [tx EXCEPT !.base[x] = tx.base[x]]
    BY <1>5, <2>2 DEF Edit
  <2>4. tx' = Idle
    BY <2>1, <2>3, ConstantsAssumption DEF Idle
  <2>5. CASE m = x
    BY <1>3, <2>2, <2>4, <2>5, AtRest
  <2>6. CASE m # x
    BY <1>1, <1>3, <1>4, <2>1, <2>4, <2>6, AtRest, WasAtRest
  <2> QED
    BY <2>5, <2>6
<1>6. CASE tx.phase # "idle"
  <2>1. PICK s \in Shapes : tx.shape = {s} /\ InOrder(s)
    BY <1>6 DEF TypeInv, Running, MutationInv
  <2>2. /\ tx'.phase = tx.phase /\ KeepSnapshot /\ KeepWork /\ KeepMarks
        /\ tx'.eff = tx.eff /\ tx'.step = tx.step /\ tx'.held = tx.held
    BY <1>6, EditEffect
  <2>3. Doomed(m)' <=> Doomed(m)
    BY <2>2 DEF Doomed
  <2>4. ASSUME v = valued[m], Safe(m, v) \/ Unseen(m, v) PROVE HasIt(m, v)'
    <3>1. CASE Safe(m, v)
      BY <1>1, <2>2, <3>1 DEF HasIt, Safe
    <3>2. CASE Unseen(m, v)
      BY <2>2, <3>2 DEF HasIt, Unseen
    <3> QED
      BY <2>4, <3>1, <3>2
  <2>5. CASE v = valued[m] /\ InPlace(m, v) /\ m # x
    <3>1. InPlace(m, v)'
      BY <1>3, <2>2, <2>3, <2>5 DEF InPlace
    <3> QED
      BY <3>1 DEF HasIt
  <2>6. CASE m = x /\ x \notin InHands
    <3>1. /\ m \notin tx.touched /\ (tx.phase \in {"snapshotted", "verified"} => m \notin Sources(s))
          /\ \A f \in Begun(s) : f.dest # m
      BY <2>1, <2>6, OutOfHands DEF InOrder
    <3>2. tx.step = "seal" => m # tx.eff.dest
      BY <2>1, <3>1, InTheMiddle DEF InOrder
    <3>3. Doomed(m) => m \in Sources(s)
      <4> SUFFICES ASSUME NEW e \in tx.pending, e.kind \in {"move", "delete"}, e.member = m
                   PROVE  m \in Sources(s)
        BY DEF Doomed
      <4>1. e \in Effects(s)
        BY <2>1 DEF InOrder, InPlan
      <4>2. /\ e.kind = "delete" => m \in s.deletes
            /\ e.kind = "move" => <<m, e.dest>> \in s.moves
        BY <4>1, EffectKinds
      <4> QED
        BY <4>2 DEF Sources
    <3>4. tx.phase = "applying" /\ m \in Sources(s) => tx.want[m] = tx.snap[m]
      <4>1. ASSUME tx.phase = "applying", m \in Sources(s) PROVE m \notin tx.late
        BY <2>1, <2>6, <4>1 DEF InHands, Sources
      <4> QED
        BY <2>1, <4>1 DEF InOrder, Snapshotted
    <3>5. InPlace(m, v)'
      BY <1>3, <2>2, <2>3, <2>6, <3>1, <3>2, <3>3, <3>4 DEF InPlace
    <3> QED
      BY <3>5 DEF HasIt
  <2>7. CASE m = x /\ x \in InHands
    <3>1. ~InPlace(m, v) /\ v = valued[m]
      BY <1>3, <2>7 DEF InPlace
    <3> QED
      BY <1>4, <2>4, <3>1 DEF HasIt
  <2> QED
    BY <1>3, <1>4, <2>4, <2>5, <2>6, <2>7 DEF HasIt
<1> QED
  BY <1>5, <1>6

LEMMA KeptInvStep ==
    ASSUME TypeInv, MutationInv, KeptInv, [Next]_vars
    PROVE  KeptInv'
<1>1. ASSUME NEW s \in Shapes, tx'.shape \subseteq {s}, tx'.owned \subseteq Named(Effects(s)),
             \A m \in Members \ forgotten' : \A v : v = valued'[m] /\ v # Absent => HasIt(m, v)'
      PROVE  KeptInv'
  BY <1>1 DEF KeptInv, HasIt, Safe, InPlace, Unseen, Doomed
<1>2. ASSUME tx' = Idle,
             \A m \in Members \ forgotten' : \A v : v = valued'[m] /\ v # Absent => HasIt(m, v)'
      PROVE  KeptInv'
  BY <1>2 DEF KeptInv, HasIt, Safe, InPlace, Unseen, Doomed, Idle
<1>3. CASE tx.phase # "idle" /\ Next
  <2>1. PICK s \in Shapes : tx.shape = {s} /\ InOrder(s)
    BY <1>3 DEF TypeInv, Running, MutationInv
  <2>2. tx.owned \subseteq Named(Effects(s))
    BY <2>1 DEF KeptInv
  <2>3. \A m \in Members \ forgotten : \A v : v = valued[m] /\ v # Absent => HasIt(m, v)
    BY DEF KeptInv
  <2>4. ASSUME tx'.shape = tx.shape, tx'.owned \subseteq Named(Effects(s)),
               valued' = valued, forgotten' = forgotten,
               \A m \in Members : \A v : v # Absent /\ HasIt(m, v) => HasIt(m, v)'
        PROVE  KeptInv'
    BY <1>1, <2>1, <2>3, <2>4
  <2>5. ASSUME Quiet(s), left' = left, dirs' = dirs, valued' = valued, forgotten' = forgotten
        PROVE  KeptInv'
    <3>1. tx'.owned \subseteq Named(Effects(s)) /\ tx'.shape = tx.shape
      BY <2>2, <2>5 DEF Quiet, KeepPlan, KeepSnapshot, SnapshotTargets
    <3> QED
      BY <2>1, <2>4, <2>5, <3>1, QuietHas
  <2>6. CASE Snapshot(s) \/ Reverify(s) \/ Capture \/ EffectsLanded \/ PostconditionsFail
    <3>1. Quiet(s)
      BY <2>1, <2>6, QuietEffect
    <3>2. left' = left /\ dirs' = dirs /\ valued' = valued /\ forgotten' = forgotten
      BY <2>6 DEF Snapshot, Reverify, Capture, EffectsLanded, PostconditionsFail, Raise
    <3> QED
      BY <2>5, <3>1, <3>2
  <2>7. ASSUME NEW e \in tx.pending, StartEffect(e) PROVE KeptInv'
    <3>1. tx'.shape = tx.shape /\ tx'.owned = tx.owned /\ valued' = valued /\ forgotten' = forgotten
      BY <2>7, StartsEffect DEF Starts, KeepPlan, KeepSnapshot, StartEffect
    <3>2. \A m \in Members : \A v : v # Absent /\ HasIt(m, v) => HasIt(m, v)'
      BY <2>1, <2>7, StartsHas
    <3> QED
      BY <2>2, <2>4, <3>1, <3>2
  <2>8. ASSUME Recovers, dirs' = dirs, valued' = valued, forgotten' = forgotten PROVE KeptInv'
    <3>1. tx.step # "none" /\ (tx.eff.kind = "move" => tx.eff.member # tx.eff.dest)
      <4>1. tx.step # "none"
        BY <2>8 DEF Recovers
      <4> QED
        BY <2>1, <4>1, InTheMiddle DEF InOrder
    <3>2. Fails
      BY <2>8, <3>1, RestoreEffect, LeaveEffect, RecoverEffect DEF Recovers
    <3>3. tx'.shape = tx.shape /\ tx'.owned = tx.owned
      BY <3>2 DEF Fails, KeepPlan, KeepSnapshot
    <3> QED
      BY <2>1, <2>2, <2>4, <2>8, <3>3, RecoversHas
  <2>9. CASE CheckEffect \/ InstallEffect \/ SealEffect
    <3>1. dirs' = dirs /\ valued' = valued /\ forgotten' = forgotten
      BY <2>9 DEF CheckEffect, InstallEffect, SealEffect
    <3>2. CASE ~Recovers
      <4>1. Goes(tx.eff) /\ tx'.shape = tx.shape /\ tx'.owned = tx.owned
        BY <2>9, <3>2, GoesEffect DEF Goes, KeepPlan, KeepSnapshot
      <4>2. \A m \in Members : \A v : v # Absent /\ HasIt(m, v) => HasIt(m, v)'
        BY <2>1, <2>9, <3>1, <3>2, GoesEffect, GoesHas
      <4> QED
        BY <2>2, <2>4, <3>1, <4>1, <4>2
    <3> QED
      BY <2>8, <3>1, <3>2
  <2>10. CASE Fault
    <3>1. dirs' = dirs /\ valued' = valued /\ forgotten' = forgotten
      BY <2>10 DEF Fault
    <3>2. CASE Raise /\ tx.eff = NoEffect
      <4>1. Quiet(s) /\ left' = left
        BY <2>1, <3>2, QuietEffect DEF Raise
      <4> QED
        BY <2>5, <3>1, <4>1
    <3> QED
      BY <2>8, <2>10, <3>1, <3>2, FaultEffect
  <2>11. CASE RemoveTouched \/ CopyBack
    <3>1. tx'.shape = tx.shape /\ tx'.owned = tx.owned
      BY <2>11, RollbackEffect DEF KeepPlan, KeepSnapshot
    <3>2. valued' = valued /\ forgotten' = forgotten
      BY <2>11 DEF RemoveTouched, CopyBack
    <3> QED
      BY <2>2, <2>4, <2>11, <3>1, <3>2, RollbackHas
  <2>12. CASE Complete(s)
    <3>1. tx' = Idle
      BY <2>12 DEF Complete
    <3> QED
      BY <1>2, <2>1, <2>12, <3>1, CompleteHas
  <2>13. CASE RolledBack
    <3>1. tx' = Idle
      BY <2>13 DEF RolledBack
    <3> QED
      BY <1>2, <2>13, <3>1, RolledBackHas
  <2>14. CASE Crash
    <3>1. tx' = Idle
      BY <2>14 DEF Crash
    <3> QED
      BY <1>2, <2>14, <3>1, CrashHas
  <2>15. ASSUME NEW x \in Members, NEW c \in Edits \cup {Absent}, Edit(x, c) PROVE KeptInv'
    <3>1. tx'.shape = tx.shape /\ tx'.owned = tx.owned
      BY <1>3, <2>15, EditEffect DEF KeepSnapshot
    <3> QED
      BY <1>1, <2>1, <2>2, <2>15, <3>1, EditHas
  <2> QED
    BY <1>3, <2>1, <2>6, <2>7, <2>9, <2>10, <2>11, <2>12, <2>13, <2>14, <2>15 DEF Next, Begin
<1>4. CASE tx.phase = "idle" /\ Next
  <2>1. tx = Idle
    BY <1>4 DEF TypeInv, Running
  <2>2. /\ tx.eff = NoEffect /\ tx.step = "none" /\ tx.shape = {} /\ tx.pending = {}
    BY <2>1 DEF Idle
  <2>3. ~Fault
    BY <1>4, <2>2 DEF Fault, NoEffect
  <2>4. ASSUME NEW x \in Members, NEW c \in Edits \cup {Absent}, Edit(x, c) PROVE KeptInv'
    <3>1. x \notin InHands
      BY <2>1 DEF InHands, Idle
    <3>2. tx'.shape = {}
      BY <2>1, <2>4, <3>1 DEF Edit, Idle
    <3>3. \A m \in Members \ forgotten' : \A v : v = valued'[m] /\ v # Absent => HasIt(m, v)'
      BY <2>4, EditHas
    <3> QED
      BY <3>2, <3>3 DEF KeptInv, HasIt, Safe, InPlace, Unseen, Doomed
  <2>5. ASSUME NEW s \in Shapes, Begin(s) PROVE KeptInv'
    <3>1. /\ tx'.phase = "planned" /\ tx'.shape = {s} /\ tx'.owned = {} /\ tx'.step = "none"
          /\ tx'.touched = {} /\ tx'.attempted = FALSE
          /\ UNCHANGED <<live, dirs, left, valued, forgotten>>
      BY <2>5 DEF Begin, Idle
    <3>2. ASSUME NEW m \in Members \ forgotten, NEW v, v = valued[m], v # Absent PROVE HasIt(m, v)'
      <4>1. \/ live[m] = v
            \/ <<m, v>> \in left
            \/ \E d \in dirs : Lasting(d) /\ m \in d.owned /\ d.snap[m] = v
        BY <2>1, <3>2, WasAtRest DEF KeptInv
      <4> QED
        BY <3>1, <4>1 DEF HasIt, Safe, InPlace, Lasting
    <3> QED
      BY <1>1, <3>1, <3>2
  <2> QED
    BY <1>4, <2>2, <2>3, <2>4, <2>5
       DEF Next, Capture, StartEffect, CheckEffect, InstallEffect, SealEffect, EffectsLanded,
           PostconditionsFail, RemoveTouched, CopyBack, RolledBack, Crash
<1>5. CASE UNCHANGED vars
  BY <1>5 DEF vars, KeptInv, HasIt, Safe, InPlace, Unseen, Doomed
<1> QED
  BY <1>3, <1>4, <1>5

\* No content given by a successful mutation, or by an editor who did not race for it, is
\* ever lost, whatever raises and wherever the process dies, for every number of members,
\* plans and retained directories.
THEOREM NothingLostAlways == Spec => []NothingLost
<1>1. Init => KeptInv
  <2> SUFFICES ASSUME Init PROVE KeptInv
    OBVIOUS
  <2>1. tx.shape = {} /\ tx.touched = {} /\ tx.phase = "idle" /\ tx.step = "none" /\ valued = live
    BY DEF Init, Idle
  <2> QED
    BY <2>1 DEF KeptInv, HasIt, InPlace
<1>2. TypeInv /\ KeptInv => NothingLost
  <2> SUFFICES ASSUME TypeInv, KeptInv, NEW m \in Members \ forgotten, valued[m] # Absent
               PROVE  Kept(m, valued[m])
    BY DEF NothingLost
  <2>1. HasIt(m, valued[m])
    BY DEF KeptInv
  <2>2. CASE Safe(m, valued[m])
    <3>1. tx.attempted => tx.phase # "idle"
      BY DEF TypeInv, Running, Idle
    <3> QED
      BY <2>2, <3>1 DEF Safe, Kept
  <2>3. CASE InPlace(m, valued[m])
    BY <2>3 DEF InPlace, Kept
  <2>4. CASE Unseen(m, valued[m])
    <3>1. tx.eff # NoEffect
      BY <2>4 DEF Unseen, TypeInv, TypeOK
    <3> QED
      BY <2>4, <3>1 DEF Unseen, Kept
  <2> QED
    BY <2>1, <2>2, <2>3, <2>4 DEF HasIt
<1> QED
  BY <1>1, <1>2, KeptInvStep, TypeInvariant, MutationInvariant, PTL DEF Spec

=============================================================================

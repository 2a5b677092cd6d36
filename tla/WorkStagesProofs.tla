-------------------------- MODULE WorkStagesProofs --------------------------
(***************************************************************************)
(* For any items, types, sizes, processes and bounds: a held item stays    *)
(* where it is, and the two locks never leave everyone waiting.  HeldStays *)
(* is about single steps; what makes it true is what a command knows       *)
(* between its reads and its write: the owner it locked is still the       *)
(* owner, and no entry for its path has come into that ledger (Planned),   *)
(* because whoever files one needs the same lock (Exclusive).  And no      *)
(* row of the routing table leaves a page whose status does not admit its  *)
(* phase, which is carried from the plan to the write by GoodInv. From     *)
(* such a page the table always leads on (NoDeadEnd). The types need that  *)
(* the paths are a tree, which a reparent keeps (TypeInv).                 *)
(***************************************************************************)
EXTENDS WorkStages, SequenceTheorems, FiniteSetTheorems, WellFoundedInduction, TLAPS

Path == Seq(Items) \ {<<>>}

\* A page is a record of its six fields.
IsPage(pg) ==
  pg \in [path : Path, type : {pg.type}, phase : {pg.phase},
          status : {pg.status}, effort : {pg.effort}, stale : {pg.stale}]

IsProc(pr) ==
  /\ pr \in [pc : {"idle", "lock", "bundle", "write"}, path : {pr.path}, cand : {pr.cand},
             tries : {pr.tries}, ask : {pr.ask}, plan : {pr.plan}]
  /\ pr.pc # "idle" => pr.path \in Path
  /\ pr.pc = "lock" => pr.ask.op \in {"advance", "hold", "answer"}

Shape ==
  /\ page = [i \in Items |-> page[i]]
  /\ \A i \in Items : IsPage(page[i])
  /\ proc = [p \in Procs |-> proc[p]]
  /\ \A p \in Procs : IsProc(proc[p])

Working(p) == proc[p].pc \in {"bundle", "write"}
Owning(p) == Working(p) /\ proc[p].plan.op \in {"page", "ledger"}

\* What a command that waits for the bundle lock, or has it, can rely on.
Planned(p) ==
  Working(p) =>
    /\ proc[p].plan.op \in {"page", "ledger", "move"}
    /\ proc[p].plan.op = "page" =>
         /\ IsPage(proc[p].plan.after)
         /\ proc[p].plan.after.type = proc[p].plan.before.type
         /\ proc[p].plan.before.path = proc[p].path
         /\ InLedger(proc[p].cand, proc[p].path) = {}
    /\ proc[p].plan.op = "ledger" =>
         \A d \in proc[p].plan.after \ proc[p].plan.before : d.path = proc[p].path
    /\ proc[p].plan.op = "move" => proc[p].plan.under \in Path
    /\ Owning(p) => proc[p].cand = Owner(proc[p].path)

Exclusive ==
  \A p, q \in Procs : Owning(p) /\ Owning(q) /\ proc[p].cand = proc[q].cand => p = q

IInv == Shape /\ (\A p \in Procs : Planned(p)) /\ Exclusive

-----------------------------------------------------------------------------

LEMMA IdleIsProc == IsProc(Idle) /\ Idle.pc = "idle"
BY DEF IsProc, Idle

LEMMA InitIInv == Init => IInv
<1> SUFFICES ASSUME Init PROVE IInv
  OBVIOUS
<1>1. \A i \in Items : <<i>> \in Path
  BY DEF Path
<1>2. page = [i \in Items |-> page[i]] /\ \A i \in Items : IsPage(page[i])
  BY <1>1 DEF Init, IsPage
<1>3. proc = [p \in Procs |-> proc[p]] /\ \A p \in Procs : proc[p] = Idle
  BY DEF Init
<1>5. Shape
  BY <1>2, <1>3, IdleIsProc DEF Shape
<1>6. \A p \in Procs : ~Working(p)
  BY <1>3, IdleIsProc DEF Working
<1> QED
  BY <1>5, <1>6 DEF IInv, Planned, Exclusive, Owning

\* The owner of a path depends on the types of its items only.
LEMMA OwnerKept ==
  ASSUME NEW path \in Path, \A i \in Items : page'[i].type = page[i].type
  PROVE  Owner(path)' = Owner(path)
<1> DEFINE F(S) == IF S = {} THEN path ELSE SubSeq(path, 1, CHOOSE k \in S : \A l \in S : l <= k)
<1>1. \A k \in 1..Len(path) : path[k] \in Items
  BY DEF Path
<1>2. {k \in 1..Len(path) : page'[path[k]].type \in ParentTypes}
        = {k \in 1..Len(path) : page[path[k]].type \in ParentTypes}
  BY <1>1
<1>3. Owner(path) = F({k \in 1..Len(path) : page[path[k]].type \in ParentTypes})
  BY Zenon DEF Owner
<1>4. Owner(path)' = F({k \in 1..Len(path) : page'[path[k]].type \in ParentTypes})
  BY Zenon DEF Owner
<1> HIDE DEF F
<1> QED
  BY <1>2, <1>3, <1>4, Zenon

LEMMA OwnerSame ==
  ASSUME page' = page, NEW path
  PROVE  Owner(path)' = Owner(path)
<1> DEFINE F(S) == IF S = {} THEN path ELSE SubSeq(path, 1, CHOOSE k \in S : \A l \in S : l <= k)
<1>1. {k \in 1..Len(path) : page'[path[k]].type \in ParentTypes}
        = {k \in 1..Len(path) : page[path[k]].type \in ParentTypes}
  OBVIOUS
<1>2. Owner(path) = F({k \in 1..Len(path) : page[path[k]].type \in ParentTypes})
  BY Zenon DEF Owner
<1>3. Owner(path)' = F({k \in 1..Len(path) : page'[path[k]].type \in ParentTypes})
  BY Zenon DEF Owner
<1> HIDE DEF F
<1> QED
  BY <1>1, <1>2, <1>3, Zenon

\* A step of one process that keeps every page and the ledger: the facts of
\* the others stay.
LEMMA OthersKeep ==
  ASSUME IInv, UNCHANGED <<page, ledger>>, NEW p \in Procs,
         proc' = [q \in Procs |-> IF q = p THEN proc'[p] ELSE proc[q]],
         IsProc(proc'[p]), Planned(p)',
         Owning(p)' => \A q \in Procs \ {p} : Owning(q) => proc[q].cand # proc'[p].cand
  PROVE  IInv'
<1> USE DEF IInv
<1>1. \A q \in Procs : q # p => proc'[q] = proc[q]
  OBVIOUS
<1>2. Shape'
  BY <1>1 DEF Shape
<1>3. \A q \in Procs : q # p => (Planned(q)' <=> Planned(q)) /\ (Owning(q)' <=> Owning(q))
  BY <1>1, OwnerSame DEF Planned, Owning, Working, InLedger
<1>4. Exclusive'
  BY <1>1, <1>3 DEF Exclusive
<1> QED
  BY <1>2, <1>3, <1>4

\* Asking puts a process before the owner's lock.
LEMMA AskKeeps ==
  ASSUME IInv, NEW p \in Procs, NEW i \in Items, NEW ask,
         ask.op \in {"advance", "hold", "answer"}, Ask(p, i, ask), UNCHANGED <<page, ledger>>
  PROVE  IInv'
<1> DEFINE new == [Idle EXCEPT !.pc = "lock", !.path = page[i].path,
                               !.cand = Owner(page[i].path), !.tries = 1, !.ask = ask]
<1>1. proc' = [proc EXCEPT ![p] = new]
  BY DEF Ask
<1>2. proc' = [q \in Procs |-> IF q = p THEN proc'[p] ELSE proc[q]] /\ proc'[p] = new
  BY <1>1 DEF IInv, Shape
<1>3. new.pc = "lock" /\ IsProc(new)
  BY IdleIsProc DEF IInv, Shape, IsProc, IsPage
<1> HIDE DEF new
<1>4. IsProc(proc'[p]) /\ ~Working(p)'
  BY <1>2, <1>3 DEF Working
<1> QED
  BY <1>2, <1>4, OthersKeep DEF Planned, Owning

\* A process that goes idle gives its locks back.
LEMMA IdleKeeps ==
  ASSUME IInv, NEW p \in Procs, proc' = [proc EXCEPT ![p] = Idle], UNCHANGED <<page, ledger>>
  PROVE  IInv'
<1>1. proc' = [q \in Procs |-> IF q = p THEN proc'[p] ELSE proc[q]] /\ proc'[p] = Idle
  BY DEF IInv, Shape
<1>2. IsProc(proc'[p]) /\ ~Working(p)'
  BY <1>1, IdleIsProc DEF Working
<1> QED
  BY <1>1, <1>2, OthersKeep DEF Planned, Owning

\* What a plan for path, made under the lock of owner, says.
Sound(plan, owner, path) ==
  /\ plan.op \in {"page", "ledger"}
  /\ plan.op = "page" => /\ IsPage(plan.after) /\ plan.after.type = plan.before.type
                         /\ plan.before.path = path /\ InLedger(owner, path) = {}
  /\ plan.op = "ledger" => \A d \in plan.after \ plan.before : d.path = path

\* A plan made under the owner's lock knows what it needs.
LEMMA PlanFacts ==
  ASSUME NEW i \in Items, NEW owner, NEW path, NEW ask, NEW args, NEW plan,
         Shape, page[i].path = path, ask.op \in {"advance", "hold", "answer"},
         plan = PlanFor(i, owner, path, ask, args), plan # NoPlan
  PROVE  Sound(plan, owner, path)
<1> USE DEF Sound
<1>1. CASE ask.op = "advance"
  <2> DEFINE route == Route(i, Sized(i, args), InLedger(owner, path) # {})
             move == Pick(i, args, route)
  <2>1. /\ Meets(i, args, route, move)
        /\ plan = [op |-> "page", item |-> i, before |-> page[i], after |-> Advanced(i, args, move)]
    BY <1>1, Zenon DEF PlanFor
  <2>2. IsPage(Advanced(i, args, move)) /\ Advanced(i, args, move).type = page[i].type
    <3>1. IsPage(page[i])
      BY DEF Shape
    <3> HIDE DEF move
    <3> QED
      BY <3>1 DEF Advanced, IsPage
  <2>3. InLedger(owner, path) = {}
    <3> SUFFICES ASSUME InLedger(owner, path) # {} PROVE FALSE
      OBVIOUS
    <3>1. route.blocker \in {"done", "terminal", "hold"}
      BY DEF Route, Blocked
    <3>2. move = NoMove
      <4> HIDE DEF route
      <4> QED
        BY <3>1 DEF Pick
    <3>3. "never" \in move.requires
      BY <3>2 DEF NoMove, Move
    <3> QED
      <4> HIDE DEF route, move
      <4> QED
        BY <3>3, <2>1 DEF Meets
  <2> HIDE DEF route, move
  <2>5. IsPage(plan.after) /\ plan.after.type = page[i].type
    BY <2>1, <2>2
  <2> QED
    BY <2>1, <2>3, <2>5
<1>2. CASE ask.op = "hold"
  <2> DEFINE at == owner[Len(owner)]
             before == {d \in ledger : d.at = at}
             new == [at |-> at, path |-> path, phase |-> ask.phase, shape |-> ask.shape, id |-> ask.id]
  <2>1. plan = [op |-> "ledger", item |-> at, before |-> before, after |-> before \cup {new}]
    BY <1>2, Zenon DEF PlanFor
  <2> QED
    BY <2>1
<1>3. CASE ask.op = "answer"
  <2> DEFINE at == owner[Len(owner)]
             before == {d \in ledger : d.at = at}
  <2>1. plan = [op |-> "ledger", item |-> at, before |-> before,
                after |-> {d \in before : d.id # ask.id}]
    BY <1>3, Zenon DEF PlanFor
  <2> QED
    BY <2>1
<1> QED
  BY <1>1, <1>2, <1>3

\* The outcomes of Enter: give up, try another owner, or plan.
LEMMA EnterOutcomes ==
  ASSUME Shape, NEW p \in Procs, NEW args, Enter(p, args)
  PROVE  \/ proc' = [proc EXCEPT ![p] = Idle]
         \/ /\ proc[p].tries < MaxOwnerAttempts
            /\ \E owner : proc' = [proc EXCEPT ![p] = [proc[p] EXCEPT !.cand = owner, !.tries = proc[p].tries + 1]]
         \/ \E i \in At(proc[p].path) : \E plan :
              /\ proc[p].cand = Owner(proc[p].path)
              /\ plan = PlanFor(i, proc[p].cand, proc[p].path, proc[p].ask, args) /\ plan # NoPlan
              /\ proc' = [proc EXCEPT ![p] =
                            [proc[p] EXCEPT !.pc = "bundle", !.ask = NoPlan, !.tries = 0, !.plan = plan]]
<1> DEFINE path == proc[p].path
           owner == Owner(path)
           i == CHOOSE x \in At(path) : TRUE
           plan == PlanFor(i, owner, path, proc[p].ask, args)
           again == [proc[p] EXCEPT !.cand = owner, !.tries = proc[p].tries + 1]
           next == [proc[p] EXCEPT !.pc = "bundle", !.ask = NoPlan, !.tries = 0, !.plan = plan]
<1>1. proc' = [proc EXCEPT ![p] =
                 IF At(path) = {} THEN Idle
                 ELSE IF owner # proc[p].cand
                      THEN IF proc[p].tries < MaxOwnerAttempts THEN again ELSE Idle
                 ELSE IF plan = NoPlan THEN Idle ELSE next]
  BY Zenon DEF Enter
<1>2. At(path) # {} => i \in At(path)
  OBVIOUS
<1> HIDE DEF owner, i, plan, again, next
<1>3. CASE At(path) # {} /\ owner = proc[p].cand /\ plan # NoPlan
  <2>1. proc' = [proc EXCEPT ![p] = next]
    BY <1>1, <1>3
  <2>2. plan = PlanFor(i, proc[p].cand, proc[p].path, proc[p].ask, args)
    BY <1>3, Zenon DEF plan
  <2> QED
    BY <1>2, <1>3, <2>1, <2>2, Zenon DEF owner, next
<1>4. CASE At(path) # {} /\ owner # proc[p].cand /\ proc[p].tries < MaxOwnerAttempts
  <2>1. proc' = [proc EXCEPT ![p] = again]
    BY <1>1, <1>4
  <2> QED
    BY <1>4, <2>1, Zenon DEF again
<1>5. CASE ~(At(path) # {} /\ owner = proc[p].cand /\ plan # NoPlan)
            /\ ~(At(path) # {} /\ owner # proc[p].cand /\ proc[p].tries < MaxOwnerAttempts)
  <2>1. proc' = [proc EXCEPT ![p] = Idle]
    BY <1>1, <1>5
  <2> QED
    BY <2>1
<1> QED
  BY <1>3, <1>4, <1>5

LEMMA EnterKeeps ==
  ASSUME IInv, NEW p \in Procs, NEW args, Enter(p, args)
  PROVE  IInv'
<1>1. proc[p].pc = "lock" /\ ~Locked(proc[p].cand) /\ page' = page /\ ledger' = ledger
  BY DEF Enter
<1>2. IsProc(proc[p]) /\ proc = [q \in Procs |-> proc[q]] /\ Shape
  BY <1>1 DEF IInv, Shape
<1>3. CASE proc' = [proc EXCEPT ![p] = Idle]
  BY <1>1, <1>3, IdleKeeps
<1>4. ASSUME NEW owner,
             proc' = [proc EXCEPT ![p] = [proc[p] EXCEPT !.cand = owner, !.tries = proc[p].tries + 1]]
      PROVE  IInv'
  <2> DEFINE new == [proc[p] EXCEPT !.cand = owner, !.tries = proc[p].tries + 1]
  <2>1. IsProc(new) /\ new.pc = "lock"
    BY <1>1, <1>2 DEF IsProc
  <2> HIDE DEF new
  <2>2. proc' = [q \in Procs |-> IF q = p THEN proc'[p] ELSE proc[q]] /\ proc'[p] = new
    BY <1>2, <1>4 DEF new
  <2>3. IsProc(proc'[p]) /\ ~Working(p)'
    BY <2>1, <2>2 DEF Working
  <2> QED
    BY <1>1, <2>2, <2>3, OthersKeep DEF Planned, Owning
<1>5. ASSUME NEW i \in At(proc[p].path), NEW plan, proc[p].cand = Owner(proc[p].path),
             plan = PlanFor(i, proc[p].cand, proc[p].path, proc[p].ask, args), plan # NoPlan,
             proc' = [proc EXCEPT ![p] =
                        [proc[p] EXCEPT !.pc = "bundle", !.ask = NoPlan, !.tries = 0, !.plan = plan]]
      PROVE  IInv'
  <2>1. PICK path, owner, ask : path = proc[p].path /\ owner = proc[p].cand /\ ask = proc[p].ask
    OBVIOUS
  <2>2. i \in Items /\ page[i].path = path /\ path \in Path /\ owner = Owner(path)
    BY <1>1, <1>2, <1>5, <2>1 DEF At, IsProc
  <2>3. ask.op \in {"advance", "hold", "answer"} /\ plan = PlanFor(i, owner, path, ask, args)
    BY <1>1, <1>2, <1>5, <2>1 DEF IsProc
  <2>4. Sound(plan, owner, path)
    <3>1. plan # NoPlan /\ Shape /\ i \in Items /\ page[i].path = path
      BY <1>2, <1>5, <2>2
    <3> QED
      BY <2>3, <3>1, PlanFacts
  <2> DEFINE new == [proc[p] EXCEPT !.pc = "bundle", !.ask = NoPlan, !.tries = 0, !.plan = plan]
  <2>5. IsProc(new) /\ new.pc = "bundle" /\ new.path = path /\ new.cand = owner /\ new.plan = plan
    BY <1>2, <2>1, <2>2 DEF IsProc
  <2> HIDE DEF new
  <2>6. proc' = [q \in Procs |-> IF q = p THEN proc'[p] ELSE proc[q]] /\ proc'[p] = new
    BY <1>2, <1>5 DEF new
  <2>7. Owner(path)' = owner
    BY <1>1, <2>2, OwnerSame
  <2>8. Planned(p)'
    BY <1>1, <2>4, <2>5, <2>6, <2>7 DEF Sound, Planned, Working, Owning, InLedger
  <2>9. ASSUME NEW q \in Procs, q # p, Owning(q)
        PROVE  proc[q].cand # proc'[p].cand
    <3>1. proc'[p].cand = proc[p].cand
      BY <2>1, <2>5, <2>6
    <3>2. proc[q].pc \in {"bundle", "write"}
      BY <2>9 DEF Owning, Working
    <3> QED
      BY <1>1, <3>1, <3>2 DEF Locked
  <2> QED
    BY <1>1, <2>5, <2>6, <2>8, <2>9, OthersKeep
<1>6. \/ proc' = [proc EXCEPT ![p] = Idle]
      \/ \E owner : proc' = [proc EXCEPT ![p] = [proc[p] EXCEPT !.cand = owner, !.tries = proc[p].tries + 1]]
      \/ \E i \in At(proc[p].path) : \E plan :
           /\ proc[p].cand = Owner(proc[p].path)
           /\ plan = PlanFor(i, proc[p].cand, proc[p].path, proc[p].ask, args) /\ plan # NoPlan
           /\ proc' = [proc EXCEPT ![p] =
                         [proc[p] EXCEPT !.pc = "bundle", !.ask = NoPlan, !.tries = 0, !.plan = plan]]
  BY <1>2, EnterOutcomes
<1> QED
  BY <1>3, <1>4, <1>5, <1>6

LEMMA ReparentKeeps ==
  ASSUME IInv, NEW p \in Procs, NEW i \in Items, NEW dest \in Items, BeginReparent(p, i, dest)
  PROVE  IInv'
<1> DEFINE plan == [op |-> "move", item |-> i, before |-> Seen(i), dest |-> dest,
                    under |-> page[dest].path]
           new == [Idle EXCEPT !.pc = "bundle", !.path = page[i].path, !.plan = plan]
<1>1. proc' = [proc EXCEPT ![p] = new] /\ page' = page /\ ledger' = ledger
  BY DEF BeginReparent
<1>2. proc' = [q \in Procs |-> IF q = p THEN proc'[p] ELSE proc[q]] /\ proc'[p] = new
  BY <1>1 DEF IInv, Shape
<1>3. page[i].path \in Path /\ page[dest].path \in Path
  BY DEF IInv, Shape, IsPage
<1> HIDE DEF plan
<1>4. IsProc(new) /\ new.plan = plan
  BY <1>3, IdleIsProc DEF IsProc
<1> HIDE DEF new
<1>5. Planned(p)' /\ ~Owning(p)'
  BY <1>2, <1>3, <1>4 DEF Planned, Owning, Working, plan
<1> QED
  BY <1>1, <1>2, <1>4, <1>5, OthersKeep

LEMMA TakeBundleKeeps ==
  ASSUME IInv, NEW p \in Procs, TakeBundle(p)
  PROVE  IInv'
<1> DEFINE new == [proc[p] EXCEPT !.pc = "write"]
<1>1. IsProc(proc[p]) /\ proc = [q \in Procs |-> proc[q]] /\ proc[p].pc = "bundle"
  BY DEF IInv, Shape, TakeBundle
<1>2. /\ IsProc(new) /\ new.pc = "write" /\ new.path = proc[p].path /\ new.cand = proc[p].cand
      /\ new.plan = proc[p].plan
  BY <1>1 DEF IsProc
<1> HIDE DEF new
<1>3. /\ proc' = [q \in Procs |-> IF q = p THEN proc'[p] ELSE proc[q]] /\ proc'[p] = new
      /\ page' = page /\ ledger' = ledger
  BY <1>1 DEF TakeBundle, new
<1>4. IsProc(proc'[p]) /\ proc'[p].cand = proc[p].cand
  BY <1>2, <1>3
<1>5. Planned(p)' /\ (Owning(p)' <=> Owning(p))
  BY <1>1, <1>2, <1>3, OwnerSame DEF Planned, Owning, Working, IInv, InLedger
<1> QED
  BY <1>1, <1>3, <1>4, <1>5, OthersKeep DEF IInv, Exclusive

-----------------------------------------------------------------------------
\* A written page is the planned one, of the same type; a moved page changes
\* its path only.
LEMMA WritePages ==
  ASSUME IInv, NEW p \in Procs, Write(p)
  PROVE  /\ page' = [i \in Items |-> page'[i]]
         /\ \A i \in Items : IsPage(page'[i]) /\ page'[i].type = page[i].type
<1> DEFINE plan == proc[p].plan
           ok == Fresh(p) /\ Valid(plan)
           from == proc[p].path
<1>1. /\ Working(p) /\ Planned(p) /\ from \in Path
      /\ page = [i \in Items |-> page[i]] /\ \A i \in Items : IsPage(page[i])
  BY DEF Write, IInv, Shape, IsProc, Working
<1>2. CASE ok /\ plan.op = "page"
  <2>1. page' = [page EXCEPT ![plan.item] = plan.after]
    BY <1>2 DEF Write
  <2>2. page[plan.item] = plan.before
    BY <1>2 DEF Fresh
  <2>3. IsPage(plan.after) /\ plan.after.type = plan.before.type
    BY <1>1, <1>2 DEF Planned
  <2> QED
    BY <1>1, <2>1, <2>2, <2>3
<1>3. CASE ok /\ plan.op = "move"
  <2>1. page' = [j \in Items |-> IF j \in Subtree(plan.item)
                                 THEN [page[j] EXCEPT !.path = Rebased(j, from, plan.under)]
                                 ELSE page[j]]
    BY <1>3 DEF Write
  <2>2. plan.under \in Path
    BY <1>1, <1>3 DEF Planned
  <2>3. ASSUME NEW j \in Items
        PROVE  Rebased(j, from, plan.under) \in Path
    <3>1. page[j].path \in Seq(Items) /\ Len(from) \in Nat \ {0}
      BY <1>1, <2>3, EmptySeq DEF IsPage, Path
    <3>2. SubSeq(page[j].path, Len(from), Len(page[j].path)) \in Seq(Items)
      BY <3>1
    <3>3. \A s \in Seq(Items) : plan.under \o s \in Path
      <4> TAKE s \in Seq(Items)
      <4>1. plan.under \o s \in Seq(Items) /\ Len(plan.under \o s) = Len(plan.under) + Len(s)
        BY <2>2 DEF Path
      <4>2. Len(plan.under) \in Nat \ {0} /\ Len(s) \in Nat /\ Len(<<>>) = 0
        BY <2>2 DEF Path
      <4> QED
        BY <4>1, <4>2 DEF Path
    <3> QED
      BY <3>2, <3>3 DEF Rebased
  <2>4. ASSUME NEW j \in Items
        PROVE  LET pg == [page[j] EXCEPT !.path = Rebased(j, from, plan.under)]
               IN  IsPage(pg) /\ pg.type = page[j].type
    BY <1>1, <2>3 DEF IsPage
  <2> QED
    BY <1>1, <2>1, <2>4
<1>4. CASE ~(ok /\ plan.op = "page") /\ ~(ok /\ plan.op = "move")
  BY <1>1, <1>4 DEF Write
<1> QED
  BY <1>2, <1>3, <1>4

LEMMA WriteKeeps ==
  ASSUME IInv, NEW p \in Procs, Write(p)
  PROVE  IInv'
<1> DEFINE plan == proc[p].plan
<1>1. /\ page' = [i \in Items |-> page'[i]]
      /\ \A i \in Items : IsPage(page'[i]) /\ page'[i].type = page[i].type
  BY WritePages
<1>2. /\ proc' = [q \in Procs |-> IF q = p THEN Idle ELSE proc[q]]
      /\ \A q \in Procs : IsProc(proc[q]) /\ Planned(q)
      /\ proc[p].pc = "write"
  BY DEF Write, IInv, Shape
<1>3. Shape'
  BY <1>1, <1>2, IdleIsProc DEF Shape
<1>5. ~Working(p)' /\ \A q \in Procs : q # p => proc'[q] = proc[q]
  BY <1>2, IdleIsProc DEF Working
<1>6. \A q \in Procs : (Working(q)' => q # p /\ Working(q)) /\ (Owning(q)' => q # p /\ Owning(q))
  BY <1>5 DEF Working, Owning
<1>7. Exclusive'
  BY <1>5, <1>6 DEF Exclusive, IInv
<1>8. ASSUME NEW q \in Procs, Working(q)'
      PROVE  Planned(q)'
  <2>1. q # p /\ Working(q) /\ proc'[q] = proc[q] /\ Planned(q) /\ proc[q].path \in Path
    BY <1>2, <1>5, <1>6, <1>8 DEF IsProc, Working
  <2>2. Owner(proc[q].path)' = Owner(proc[q].path)
    BY <1>1, <2>1, OwnerKept
  <2>3. ASSUME proc[q].plan.op = "page"
        PROVE  InLedger(proc[q].cand, proc[q].path)' = {}
    <3>1. InLedger(proc[q].cand, proc[q].path) = {} /\ Owning(q) /\ proc[q].cand = Owner(proc[q].path)
      BY <2>1, <2>3 DEF Planned, Owning
    <3>2. CASE ledger' = ledger
      BY <2>1, <3>1, <3>2 DEF InLedger
    <3>3. CASE Fresh(p) /\ plan.op = "ledger" /\ ledger' = (ledger \ plan.before) \cup plan.after
      <4>1. Owning(p) /\ Planned(p) /\ proc[p].cand = Owner(proc[p].path)
        BY <1>2, <3>3 DEF Owning, Working, Planned
      <4>2. plan.before \subseteq ledger
        BY <3>3 DEF Fresh
      <4>3. \A d \in ledger' : d \in ledger \/ d.path = proc[p].path
        BY <3>3, <4>1, <4>2 DEF Planned, Owning
      <4>4. proc[p].path # proc[q].path
        BY <2>1, <3>1, <4>1 DEF IInv, Exclusive
      <4> QED
        BY <2>1, <3>1, <4>3, <4>4 DEF InLedger
    <3>4. \/ ledger' = ledger
          \/ Fresh(p) /\ plan.op = "ledger" /\ ledger' = (ledger \ plan.before) \cup plan.after
      BY DEF Write
    <3> QED
      BY <3>2, <3>3, <3>4
  <2> QED
    BY <2>1, <2>2, <2>3, <1>8 DEF Planned, Working, Owning, InLedger
<1>9. \A q \in Procs : Planned(q)'
  BY <1>8 DEF Planned
<1> QED
  BY <1>3, <1>7, <1>9 DEF IInv

\* A person's edit changes neither type nor path.
LEMMA EditKeeps ==
  ASSUME IInv, NEW i \in Items, EditStatus(i) \/ SiblingLands(i)
  PROVE  IInv' /\ \A j \in Items : page'[j].phase = page[j].phase
<1>1. \A j \in Items : IsPage(page[j]) /\ page = [k \in Items |-> page[k]]
  BY DEF IInv, Shape
<1>2. PICK pg : /\ page' = [page EXCEPT ![i] = pg] /\ IsPage(pg) /\ pg.type = page[i].type
                /\ pg.phase = page[i].phase
  <2>1. CASE EditStatus(i)
    <3> DEFINE pg == [page[i] EXCEPT !.status = IF @ = "wontfix" THEN "open" ELSE "wontfix"]
    <3>1. page' = [page EXCEPT ![i] = pg]
      BY <2>1, <1>1 DEF EditStatus
    <3>2. IsPage(pg) /\ pg.type = page[i].type /\ pg.phase = page[i].phase
      BY <1>1 DEF IsPage
    <3> QED
      BY <3>1, <3>2
  <2>2. CASE SiblingLands(i)
    <3> DEFINE pg == [page[i] EXCEPT !.stale = TRUE]
    <3>1. page' = [page EXCEPT ![i] = pg]
      BY <2>2, <1>1 DEF SiblingLands
    <3>2. IsPage(pg) /\ pg.type = page[i].type /\ pg.phase = page[i].phase
      BY <1>1 DEF IsPage
    <3> QED
      BY <3>1, <3>2
  <2> QED
    BY <2>1, <2>2
<1>3. /\ page' = [j \in Items |-> page'[j]]
      /\ \A j \in Items : IsPage(page'[j]) /\ page'[j].type = page[j].type /\ page'[j].phase = page[j].phase
  BY <1>1, <1>2
<1>4. proc' = proc /\ ledger' = ledger
  BY DEF EditStatus, SiblingLands
<1>5. Shape'
  BY <1>3, <1>4 DEF Shape, IInv
<1>6. Exclusive'
  BY <1>4 DEF Exclusive, Owning, Working, IInv
<1>7. ASSUME NEW q \in Procs
      PROVE  Planned(q)'
  <2>1. Working(q) => Owner(proc[q].path)' = Owner(proc[q].path)
    <3> HAVE Working(q)
    <3>1. proc[q].path \in Path
      BY DEF IInv, Shape, IsProc, Working
    <3> QED
      BY <1>3, <1>4, <3>1, OwnerKept
  <2> QED
    BY <1>4, <2>1 DEF Planned, Working, Owning, InLedger, IInv
<1> QED
  BY <1>3, <1>5, <1>6, <1>7 DEF IInv

LEMMA StepIInv == IInv /\ [Next]_vars => IInv'
<1> SUFFICES ASSUME IInv, [Next]_vars PROVE IInv'
  OBVIOUS
<1>1. CASE UNCHANGED vars
  BY <1>1, OwnerSame DEF IInv, Shape, Planned, Exclusive, Owning, Working, InLedger, vars
<1>2. ASSUME NEW p \in Procs, NEW i \in Items, BeginAdvance(p, i) PROVE IInv'
  BY <1>2, AskKeeps DEF BeginAdvance
<1>3. ASSUME NEW p \in Procs, NEW i \in Items, NEW shape, BeginHold(p, i, shape) PROVE IInv'
  BY <1>3, AskKeeps DEF BeginHold
<1>4. ASSUME NEW p \in Procs, NEW i \in Items, NEW d, BeginAnswer(p, i, d) PROVE IInv'
  BY <1>4, AskKeeps DEF BeginAnswer
<1> QED
  BY <1>1, <1>2, <1>3, <1>4, ReparentKeeps, EnterKeeps, TakeBundleKeeps, WriteKeeps, EditKeeps DEF Next

LEMMA Inductive == Spec => []IInv
BY InitIInv, StepIInv, PTL DEF Spec

\* A write changes no phase of an item that is held.
LEMMA WriteStays ==
  ASSUME IInv, NEW p \in Procs, Write(p), NEW i \in Items, Held(page[i].path)
  PROVE  page'[i].phase = page[i].phase
<1> DEFINE plan == proc[p].plan
           ok == Fresh(p) /\ Valid(plan)
<1>1. /\ page = [j \in Items |-> page[j]] /\ IsPage(page[i])
      /\ Planned(p) /\ Working(p)
  BY DEF IInv, Shape, Write, Working
<1>2. CASE ok /\ plan.op = "page"
  <2>1. page' = [page EXCEPT ![plan.item] = plan.after]
    BY <1>2 DEF Write
  <2>2. CASE i = plan.item
    <3>1. page[i] = plan.before
      BY <1>2, <2>2 DEF Fresh
    <3>2. page[i].path = proc[p].path /\ InLedger(Owner(proc[p].path), proc[p].path) = {}
      BY <1>1, <1>2, <3>1 DEF Planned, Owning
    <3> QED
      BY <3>2 DEF Held
  <2>3. CASE i # plan.item
    BY <1>1, <2>1, <2>3
  <2> QED
    BY <2>2, <2>3
<1>3. CASE ok /\ plan.op = "move"
  <2>1. page'[i] = (IF i \in Subtree(plan.item)
                    THEN [page[i] EXCEPT !.path = Rebased(i, proc[p].path, plan.under)] ELSE page[i])
    BY <1>3 DEF Write
  <2> QED
    BY <1>1, <2>1 DEF IsPage
<1>4. CASE ~(ok /\ plan.op = "page") /\ ~(ok /\ plan.op = "move")
  BY <1>4 DEF Write
<1> QED
  BY <1>2, <1>3, <1>4

\* A held item stays in its phase, whichever advances, holds, answers and moves
\* are between their reads and their writes (locked_decision_owner, hold_in).
THEOREM HeldStaysAlways == Spec => HeldStays
<1> DEFINE Stays == \A i \in Items : Held(page[i].path) => page'[i].phase = page[i].phase
<1>1. IInv /\ [Next]_vars => [Stays]_vars
  <2> SUFFICES ASSUME IInv, Next, NEW i \in Items, Held(page[i].path)
               PROVE  page'[i].phase = page[i].phase
    BY DEF vars
  <2>1. ASSUME NEW p \in Procs, NEW j \in Items,
               \/ BeginAdvance(p, j)
               \/ \E shape \in {"skip", "park"} : BeginHold(p, j, shape)
               \/ \E d \in ledger : BeginAnswer(p, j, d)
               \/ \E dest \in Items : BeginReparent(p, j, dest)
        PROVE  page' = page
    BY <2>1 DEF BeginAdvance, BeginHold, BeginAnswer, BeginReparent
  <2>2. ASSUME NEW p \in Procs, NEW args, Enter(p, args) \/ TakeBundle(p)
        PROVE  page' = page
    BY <2>2 DEF Enter, TakeBundle
  <2> QED
    BY <2>1, <2>2, WriteStays, EditKeeps DEF Next
<1> QED
  BY Inductive, <1>1, PTL DEF Spec, HeldStays

\* No set of commands waits for itself: the bundle lock is only waited for with
\* the owner's lock in hand, and never the other way round (bundle_lock.py).
THEOREM SomeoneProceedsAlways == Spec => []SomeoneProceeds
<1>1. IInv => SomeoneProceeds
  <2> SUFFICES ASSUME IInv, NEW p \in Procs, proc[p].pc # "idle"
               PROVE  \E q \in Procs : /\ proc[q].pc # "idle"
                                       /\ proc[q].pc = "lock" => ~Locked(proc[q].cand)
                                       /\ proc[q].pc = "bundle" => ~BundleHeld
    BY DEF SomeoneProceeds
  <2>1. \A q \in Procs : proc[q].pc \in {"idle", "lock", "bundle", "write"}
    BY DEF IInv, Shape, IsProc
  <2>2. CASE \E q \in Procs : proc[q].pc = "write"
    BY <2>2
  <2>3. CASE ~(\E q \in Procs : proc[q].pc = "write") /\ \E q \in Procs : proc[q].pc = "bundle"
    BY <2>3 DEF BundleHeld
  <2>4. CASE ~(\E q \in Procs : proc[q].pc = "write") /\ ~(\E q \in Procs : proc[q].pc = "bundle")
    BY <2>1, <2>4 DEF Locked, BundleHeld
  <2> QED
    BY <2>2, <2>3, <2>4
<1> QED
  BY Inductive, <1>1, PTL
-----------------------------------------------------------------------------
(* Coherent pages: every transition the table offers leads from an         *)
(* admissible phase and status to another, whatever the item's type,       *)
(* effort, children and ledger are.                                        *)

StageNames == {"design", "plan", "execute", "finish"}

Admits(phase, status) ==
  /\ phase \in StageNames \cup {"done", "none"} /\ status \in Statuses \ {"mitigated"}
  /\ phase = "none" => status \in {"open", "wontfix"}
  /\ phase # "none" =>
       /\ status = "accepted" => phase \in {"execute", "finish", "done"}
       /\ status = "in-progress" => phase \in {"execute", "finish"}
       /\ status = "resolved" => phase = "done"

Good(pg) == Admits(pg.phase, pg.status)

\* A page stays good if the move is made.
Keeps(pg, move) ==
  Admits(IF move.phase = "keep" THEN pg.phase ELSE move.phase,
         IF move.status = "keep" THEN pg.status ELSE move.status)

LEMMA GoodIsCoherent ==
  ASSUME NEW pg, Good(pg)
  PROVE  Coherent(pg)
BY DEF Good, Admits, Coherent

Tables == {<<"execute", "finish">>, <<"plan", "execute", "finish">>,
           <<"design", "execute", "finish">>, <<"design", "plan", "execute", "finish">>}

LEMMA StagesOfTable ==
  ASSUME NEW type, NEW effort
  PROVE  StagesOf(type, effort) \in Tables
BY DEF StagesOf, Tables, Stages

LEMMA Ranks ==
  /\ Rank("design") = 1 /\ Rank("plan") = 2 /\ Rank("execute") = 3 /\ Rank("finish") = 4
<1>1. Stages[1] = "design" /\ Stages[2] = "plan" /\ Stages[3] = "execute" /\ Stages[4] = "finish"
  BY DEF Stages
<1>2. \A k \in 1..4 : k = 1 \/ k = 2 \/ k = 3 \/ k = 4
  OBVIOUS
<1>3. \A phase : phase # "done" => Rank(phase) = CHOOSE k \in 1..4 : Stages[k] = phase
  BY DEF Rank
<1> QED
  BY <1>1, <1>2, <1>3

\* What is at a place of a table, and which phase follows it.
On(stages, stage) == \E k \in 1..Len(stages) : stages[k] = stage

Follows(stage, next) ==
  /\ stage = "design" => next \in {"plan", "execute"}
  /\ stage = "plan" => next = "execute"
  /\ stage = "execute" => next = "finish"
  /\ stage = "finish" => next = "done"

LEMMA AfterFollows ==
  ASSUME NEW stages \in Tables, NEW stage \in StageNames, On(stages, stage)
  PROVE  Follows(stage, After(stages, stage))
<1> DEFINE k == CHOOSE n \in 1..Len(stages) : stages[n] = stage
<1>1. k \in 1..Len(stages) /\ stages[k] = stage
  BY DEF On
<1>2. After(stages, stage) = IF k < Len(stages) THEN stages[k + 1] ELSE "done"
  BY DEF After
<1> HIDE DEF k
<1>3. CASE stages = <<"execute", "finish">>
  BY <1>1, <1>2, <1>3 DEF Follows, StageNames
<1>4. CASE stages = <<"plan", "execute", "finish">>
  BY <1>1, <1>2, <1>4 DEF Follows, StageNames
<1>5. CASE stages = <<"design", "execute", "finish">>
  BY <1>1, <1>2, <1>5 DEF Follows, StageNames
<1>6. CASE stages = <<"design", "plan", "execute", "finish">>
  BY <1>1, <1>2, <1>6 DEF Follows, StageNames
<1> QED
  BY <1>3, <1>4, <1>5, <1>6 DEF Tables

\* _locate finds a stage of the path: the phase itself unless it is off.
LEMMA LocateFacts ==
  ASSUME NEW stages \in Tables, NEW phase \in StageNames \cup {"none"}
  PROVE  /\ Locate(stages, phase).stage \in StageNames
         /\ On(stages, Locate(stages, phase).stage)
         /\ Locate(stages, phase).off \in BOOLEAN
         /\ Locate(stages, phase).off =>
              phase \in {"design", "plan"} /\ Rank(Locate(stages, phase).stage) > Rank(phase)
         /\ ~Locate(stages, phase).off => phase \in {"none", Locate(stages, phase).stage}
<1> DEFINE on == {k \in 1..Len(stages) : stages[k] = phase}
           later == {k \in 1..Len(stages) : Rank(stages[k]) > Rank(phase)}
           first == CHOOSE k \in later : \A l \in later : k <= l
<1>1. /\ Len(stages) \in Nat \ {0} /\ \A k \in 1..Len(stages) : stages[k] \in StageNames
      /\ On(stages, "execute") /\ On(stages, "finish")
  <2>1. CASE stages = <<"execute", "finish">>
    BY <2>1 DEF StageNames, On
  <2>2. CASE stages = <<"plan", "execute", "finish">>
    BY <2>2 DEF StageNames, On
  <2>3. CASE stages = <<"design", "execute", "finish">>
    BY <2>3 DEF StageNames, On
  <2>4. CASE stages = <<"design", "plan", "execute", "finish">>
    BY <2>4 DEF StageNames, On
  <2> QED
    BY <2>1, <2>2, <2>3, <2>4 DEF Tables
<1>2. Locate(stages, phase) = IF phase = "none" THEN [stage |-> stages[1], off |-> FALSE]
                              ELSE IF on # {} THEN [stage |-> phase, off |-> FALSE]
                              ELSE [stage |-> stages[first], off |-> TRUE]
  BY DEF Locate
<1>3. CASE phase = "none"
  BY <1>1, <1>2, <1>3 DEF On
<1>4. CASE phase # "none" /\ on # {}
  BY <1>1, <1>2, <1>4 DEF On
<1>5. CASE phase # "none" /\ on = {}
  <2>1. phase \in {"design", "plan"}
    BY <1>1, <1>5 DEF On, StageNames
  <2>2. first \in later
    <3>1. \E k \in later : \A l \in later : k <= l
      <4>1. CASE stages = <<"execute", "finish">>
        BY <2>1, <4>1, Ranks
      <4>2. CASE stages = <<"plan", "execute", "finish">>
        BY <2>1, <1>5, <4>2, Ranks
      <4>3. CASE stages = <<"design", "execute", "finish">>
        <5>1. phase = "plan"
          BY <1>5, <2>1, <4>3
        <5>2. later = {2, 3}
          BY <4>3, <5>1, Ranks
        <5> QED
          BY <5>2
      <4>4. CASE stages = <<"design", "plan", "execute", "finish">>
        BY <2>1, <1>5, <4>4
      <4> QED
        BY <4>1, <4>2, <4>3, <4>4 DEF Tables
    <3> HIDE DEF later
    <3> QED
      BY <3>1
  <2> HIDE DEF first
  <2> QED
    BY <1>1, <1>2, <1>5, <2>1, <2>2 DEF On
<1> QED
  BY <1>3, <1>4, <1>5

\* A page that a route goes on with, at a stage.
Going(i, stage) ==
  /\ page[i].phase \in {"none", stage}
  /\ page[i].status \in {"open", "accepted", "in-progress"}
  /\ page[i].phase \in {"none", "design", "plan"} => page[i].status = "open"

LEMMA NoMoveKeeps ==
  ASSUME NEW pg, Good(pg)
  PROVE  Keeps(pg, NoMove)
BY DEF Keeps, NoMove, Move, Good

LEMMA ReturnKeeps ==
  ASSUME NEW pg
  PROVE  Keeps(pg, ReturnToExecute)
BY DEF Keeps, ReturnToExecute, Move, Admits, StageNames, Statuses

LEMMA DispatchKeeps ==
  ASSUME NEW i \in Items, NEW stage \in StageNames, Good(page[i]), Going(i, stage)
  PROVE  Keeps(page[i], OnDispatch(i, stage))
<1>1. \/ OnDispatch(i, stage) = NoMove
      \/ OnDispatch(i, stage) = Move(stage, "keep", {})
      \/ stage = "execute" /\ OnDispatch(i, stage) = Move(stage, "in-progress", {"owner"})
      \/ /\ stage = "execute" /\ page[i].phase = stage
         /\ OnDispatch(i, stage) = Move("keep", "in-progress", {"owner"})
  BY DEF OnDispatch, Going
<1>2. ASSUME NEW st \in {"keep", "in-progress"}, NEW ph \in {"keep", stage}, NEW r,
             st = "in-progress" => stage = "execute", ph = "keep" => page[i].phase = stage
      PROVE  Keeps(page[i], Move(ph, st, r))
  <2>1. Move(ph, st, r).phase = ph /\ Move(ph, st, r).status = st
    BY DEF Move
  <2> QED
    BY <1>2, <2>1 DEF Keeps, Admits, Good, Going, StageNames, Statuses, Terminal
<1>3. Keeps(page[i], NoMove)
  BY NoMoveKeeps
<1>4. Keeps(page[i], Move(stage, "keep", {}))
  BY <1>2 DEF StageNames
<1>5. stage = "execute" => Keeps(page[i], Move(stage, "in-progress", {"owner"}))
  BY <1>2
<1>6. stage = "execute" /\ page[i].phase = stage => Keeps(page[i], Move("keep", "in-progress", {"owner"}))
  BY <1>2
<1> QED
  BY <1>1, <1>3, <1>4, <1>5, <1>6

LEMMA CompleteKeeps ==
  ASSUME NEW i \in Items, NEW stage \in StageNames, NEW effort, NEW nexts, Good(page[i]), Going(i, stage),
         \A n \in nexts : Follows(stage, n), nexts # {}
  PROVE  Keeps(page[i], OnComplete(i, stage, effort, nexts))
<1>1. CASE stage = "plan" /\ page[i].phase # "none" /\ page[i].stale
  <2>1. OnComplete(i, stage, effort, nexts) = Move("plan", "keep", {})
    BY <1>1 DEF OnComplete
  <2> QED
    BY <1>1, <2>1 DEF Keeps, Move, Admits, Good, Going, StageNames
<1>2. CASE ~(stage = "plan" /\ page[i].phase # "none" /\ page[i].stale)
  <2> DEFINE next == IF Cardinality(nexts) = 1 THEN CHOOSE n \in nexts : TRUE ELSE "keep"
             r == Requires(i, stage, effort, Cardinality(nexts) > 1)
  <2>1. OnComplete(i, stage, effort, nexts) = Move(next, Completed(stage, next), r)
    BY <1>2 DEF OnComplete
  <2>2. Follows(stage, next) \/ (next = "keep" /\ stage = "design")
    <3>1. (CHOOSE n \in nexts : TRUE) \in nexts
      OBVIOUS
    <3>2. CASE Cardinality(nexts) = 1
      BY <3>1, <3>2
    <3>3. CASE Cardinality(nexts) # 1
      <4>1. ~\E x : nexts = {x}
        BY <3>3, FS_Singleton
      <4>2. stage = "design"
        BY <4>1 DEF Follows, StageNames
      <4> QED
        BY <3>3, <4>2
    <3> QED
      BY <3>2, <3>3
  <2> HIDE DEF next, r
  <2>3. /\ Move(next, Completed(stage, next), r).phase = next
        /\ Move(next, Completed(stage, next), r).status = Completed(stage, next)
    BY DEF Move
  <2>4. CASE next = "keep" /\ stage = "design"
    <3>1. Completed(stage, next) = "keep"
      BY <2>4 DEF Completed
    <3> QED
      BY <2>1, <2>3, <2>4, <3>1 DEF Keeps, Good
  <2>5. CASE Follows(stage, next)
    <3>1. next \in {"plan", "execute", "finish", "done"}
      BY <2>5 DEF Follows, StageNames
    <3>2. /\ stage = "design" => Completed(stage, next) = IF next = "execute" THEN "accepted" ELSE "keep"
          /\ stage = "plan" => Completed(stage, next) = "accepted"
          /\ stage = "execute" => Completed(stage, next) = "keep"
          /\ stage = "finish" => Completed(stage, next) = "resolved"
      BY DEF Completed
    <3> QED
      BY <2>1, <2>3, <2>5, <3>1, <3>2 DEF Keeps, Admits, Good, Going, Follows, StageNames, Statuses, Terminal
  <2> QED
    BY <2>2, <2>4, <2>5
<1> QED
  BY <1>1, <1>2

\* All four transitions of a route.
AllKeep(i, route) ==
  /\ Keeps(page[i], route.dispatch) /\ Keeps(page[i], route.complete)
  /\ Keeps(page[i], route.return) /\ Keeps(page[i], route.repair)

LEMMA BlockedKeeps ==
  ASSUME NEW i, Good(page[i]), NEW kind
  PROVE  AllKeep(i, Blocked(kind))
BY NoMoveKeeps DEF AllKeep, Blocked

LEMMA EmitKeeps ==
  ASSUME NEW i \in Items, NEW stage \in StageNames, NEW effort, NEW nexts, Good(page[i]), Going(i, stage),
         \A n \in nexts : Follows(stage, n), nexts # {}
  PROVE  AllKeep(i, Emit(i, stage, effort, nexts))
<1> DEFINE parent == page[i].type \in Decomposing
           return == IF stage = "finish" THEN ReturnToExecute ELSE NoMove
           done == [Blocked("none") EXCEPT !.return = return]
           last == Move(CHOOSE n \in nexts : TRUE, "keep", {})
           over == Move("done", "resolved", {})
           dispatch == OnDispatch(i, stage)
           complete == OnComplete(i, stage, effort, nexts)
<1>1. Keeps(page[i], return) /\ Keeps(page[i], NoMove)
  BY NoMoveKeeps, ReturnKeeps
<1>2. Keeps(page[i], dispatch) /\ Keeps(page[i], complete)
  BY DispatchKeeps, CompleteKeeps
<1>3. stage = "execute" => Keeps(page[i], last)
  <2> HAVE stage = "execute"
  <2>1. (CHOOSE n \in nexts : TRUE) = "finish"
    BY DEF Follows
  <2>2. last.phase = "finish" /\ last.status = "keep"
    BY <2>1 DEF Move
  <2> QED
    BY <2>2 DEF Keeps, Admits, Good, Going, StageNames
<1>4. Keeps(page[i], over)
  BY DEF Keeps, Admits, Move, StageNames, Statuses, Terminal
<1> HIDE DEF return, last, over, dispatch, complete
<1>5. /\ done.dispatch = NoMove /\ done.complete = NoMove /\ done.return = return /\ done.repair = NoMove
      /\ done = [blocker |-> "none", dispatch |-> NoMove, complete |-> NoMove, return |-> return, repair |-> NoMove]
  BY DEF Blocked
<1> HIDE DEF done
<1>6. \/ \E kind : Emit(i, stage, effort, nexts) = Blocked(kind)
      \/ stage = "execute" /\ Emit(i, stage, effort, nexts) = [done EXCEPT !.complete = last]
      \/ Emit(i, stage, effort, nexts) = [done EXCEPT !.blocker = "waiting-on-children", !.repair = return]
      \/ Emit(i, stage, effort, nexts) = [done EXCEPT !.complete = over]
      \/ Emit(i, stage, effort, nexts) = [done EXCEPT !.dispatch = dispatch, !.complete = complete]
  BY Zenon DEF Emit, done, return, last, over, dispatch, complete
<1>7. /\ stage = "execute" => AllKeep(i, [done EXCEPT !.complete = last])
      /\ AllKeep(i, [done EXCEPT !.blocker = "waiting-on-children", !.repair = return])
      /\ AllKeep(i, [done EXCEPT !.complete = over])
      /\ AllKeep(i, [done EXCEPT !.dispatch = dispatch, !.complete = complete])
  BY <1>1, <1>2, <1>3, <1>4, <1>5 DEF AllKeep
<1> QED
  BY <1>6, <1>7, BlockedKeeps

\* route offers nothing that leaves a good page incoherent.
LEMMA RouteKeeps ==
  ASSUME NEW i \in Items, NEW effort, NEW held, Good(page[i])
  PROVE  AllKeep(i, Route(i, effort, held))
<1> DEFINE phase == page[i].phase
           candidates == Candidates(page[i].type, effort)
           located == {Locate(s, phase) : s \in candidates}
           here == CHOOSE l \in located : TRUE
           nexts == {After(s, here.stage) : s \in candidates}
<1>1. CASE \E kind : Route(i, effort, held) = Blocked(kind)
  BY <1>1, BlockedKeeps
<1>2. CASE /\ phase # "done" /\ page[i].status \notin Terminal \cup {"mitigated"}
           /\ phase = "none" => page[i].status = "open"
           /\ ~(Cardinality(located) > 1)
           /\ Route(i, effort, held) =
                IF here.off THEN [Blocked("phase-off-path") EXCEPT !.repair = Move(here.stage, "keep", {})]
                ELSE Emit(i, here.stage, effort, nexts)
  <2>1. /\ phase \in StageNames \cup {"none"} /\ page[i].status \in {"open", "accepted", "in-progress"}
        /\ phase \in {"none", "design", "plan"} => page[i].status = "open"
    BY <1>2 DEF Good, Admits, Statuses
  <2>2. candidates # {} /\ candidates \subseteq Tables
    BY StagesOfTable DEF Candidates, Efforts
  <2>3. \A s \in candidates : Locate(s, phase) = here
    <3>1. \A s, t \in candidates : Locate(s, phase) = Locate(t, phase)
      <4>1. CASE effort # "none"
        BY <4>1 DEF Candidates
      <4>2. CASE effort = "none"
        <5> DEFINE a == Locate(StagesOf(page[i].type, "small"), phase)
                   b == Locate(StagesOf(page[i].type, "large"), phase)
        <5>1. candidates = {StagesOf(page[i].type, "small"), StagesOf(page[i].type, "large")}
          BY <4>2 DEF Candidates, Efforts
        <5>2. located = {a, b}
          BY <5>1
        <5> HIDE DEF a, b, located
        <5>3. a = b
          <6> SUFFICES ASSUME a # b PROVE FALSE
            OBVIOUS
          <6>1. IsFiniteSet({b}) /\ Cardinality({b}) = 1
            BY FS_Singleton
          <6>2. Cardinality({b} \cup {a}) = 2
            BY <6>1, FS_AddElement
          <6>3. {b} \cup {a} = located
            BY <5>2
          <6> QED
            BY <1>2, <6>2, <6>3
        <5> QED
          BY <5>1, <5>3 DEF a, b
      <4> QED
        BY <4>1, <4>2
    <3>2. here \in located
      BY <2>2
    <3> HIDE DEF here
    <3> QED
      BY <3>1, <3>2
  <2>4. PICK s \in candidates : TRUE
    BY <2>2
  <2>5. /\ here.stage \in StageNames /\ here.off \in BOOLEAN
        /\ here.off => phase \in {"design", "plan"}
        /\ ~here.off => phase \in {"none", here.stage}
    <3>1. s \in Tables /\ phase \in StageNames \cup {"none"} /\ Locate(s, phase) = here
      BY <2>1, <2>2, <2>3, <2>4
    <3> HIDE DEF here, phase, candidates, located
    <3> QED
      BY <3>1, LocateFacts
  <2>6. \A t \in candidates : On(t, here.stage)
    BY <2>1, <2>2, <2>3, LocateFacts
  <2>7. nexts # {} /\ \A n \in nexts : Follows(here.stage, n)
    BY <2>2, <2>4, <2>5, <2>6, AfterFollows
  <2> HIDE DEF phase, here, nexts, located, candidates
  <2>8. CASE here.off
    <3> DEFINE repair == Move(here.stage, "keep", {})
    <3>1. Keeps(page[i], repair)
      <4>1. repair.phase = here.stage /\ repair.status = "keep" /\ page[i].status = "open"
        BY <2>1, <2>5, <2>8 DEF Move
      <4> QED
        BY <2>5, <4>1 DEF Keeps, Admits, StageNames, Statuses
    <3> HIDE DEF repair
    <3>2. /\ Route(i, effort, held) = [Blocked("phase-off-path") EXCEPT !.repair = repair]
          /\ AllKeep(i, Blocked("phase-off-path"))
      BY <1>2, <2>8, BlockedKeeps DEF repair
    <3> QED
      BY <3>1, <3>2 DEF AllKeep, Blocked
  <2>9. CASE ~here.off
    <3>1. Going(i, here.stage)
      BY <2>1, <2>5, <2>9 DEF Going, phase
    <3> QED
      BY <1>2, <2>5, <2>7, <2>9, <3>1, EmitKeeps
  <2> QED
    BY <2>8, <2>9
<1> HIDE DEF candidates
<1>3. \/ \E kind : Route(i, effort, held) = Blocked(kind)
      \/ /\ phase # "done" /\ page[i].status \notin Terminal \cup {"mitigated"}
         /\ phase = "none" => page[i].status = "open"
         /\ ~(Cardinality(located) > 1)
         /\ Route(i, effort, held) =
              IF here.off THEN [Blocked("phase-off-path") EXCEPT !.repair = Move(here.stage, "keep", {})]
              ELSE Emit(i, here.stage, effort, nexts)
  BY Zenon DEF Route, candidates
<1> QED
  BY <1>1, <1>2, <1>3

\* A planned page is as good as the page the plan was made from.
GoodPlan(plan) == plan.op = "page" /\ Good(plan.before) => Good(plan.after)

LEMMA PlansAreGood ==
  ASSUME NEW i \in Items, NEW owner, NEW path, NEW ask, NEW args, NEW plan,
         Shape, Good(page[i]), ask.op \in {"advance", "hold", "answer"},
         plan = PlanFor(i, owner, path, ask, args), plan # NoPlan
  PROVE  GoodPlan(plan)
<1>1. CASE ask.op = "advance"
  <2> DEFINE route == Route(i, Sized(i, args), InLedger(owner, path) # {})
             move == Pick(i, args, route)
  <2>1. plan = [op |-> "page", item |-> i, before |-> page[i], after |-> Advanced(i, args, move)]
    BY <1>1, Zenon DEF PlanFor
  <2>2. AllKeep(i, route) /\ Keeps(page[i], NoMove)
    BY RouteKeeps, NoMoveKeeps
  <2> HIDE DEF route
  <2>3. Keeps(page[i], move)
    BY <2>2 DEF Pick, AllKeep
  <2> HIDE DEF move
  <2>4. IsPage(page[i])
    BY DEF Shape
  <2>5. /\ Advanced(i, args, move).phase = IF move.phase = "keep" THEN page[i].phase ELSE move.phase
        /\ Advanced(i, args, move).status = IF move.status = "keep" THEN page[i].status ELSE move.status
    BY <2>4 DEF Advanced, IsPage
  <2>6. Good(Advanced(i, args, move))
    BY <2>3, <2>5 DEF Keeps, Good
  <2> QED
    BY <2>1, <2>6 DEF GoodPlan
<1>2. CASE ask.op = "hold"
  <2>1. plan.op = "ledger"
    BY <1>2 DEF PlanFor
  <2> QED
    BY <2>1 DEF GoodPlan
<1>3. CASE ask.op = "answer"
  <2>1. plan.op = "ledger"
    BY <1>3 DEF PlanFor
  <2> QED
    BY <2>1 DEF GoodPlan
<1> QED
  BY <1>1, <1>2, <1>3

GoodInv ==
  /\ \A i \in Items : Good(page[i])
  /\ \A p \in Procs : Working(p) => GoodPlan(proc[p].plan)

LEMMA InitGood == Init => GoodInv
<1> SUFFICES ASSUME Init PROVE GoodInv
  OBVIOUS
<1>1. \A i \in Items : page[i].phase = "none" /\ page[i].status = "open"
  BY DEF Init
<1>2. \A p \in Procs : ~Working(p)
  BY IdleIsProc DEF Init, Working
<1> QED
  BY <1>1, <1>2 DEF GoodInv, Good, Admits, Statuses

\* One process changes what it runs, the pages stay.
LEMMA OneGood ==
  ASSUME GoodInv, page' = page, NEW p \in Procs, NEW new,
         Shape, proc' = [proc EXCEPT ![p] = new],
         new.pc \in {"bundle", "write"} => GoodPlan(new.plan)
  PROVE  GoodInv'
<1>1. \A q \in Procs : proc'[q] = IF q = p THEN new ELSE proc[q]
  BY DEF Shape
<1> QED
  BY <1>1 DEF GoodInv, Working, GoodPlan, Good

LEMMA BeginsGood ==
  ASSUME IInv, GoodInv, NEW p \in Procs, NEW i \in Items,
         \/ BeginAdvance(p, i)
         \/ \E shape \in {"skip", "park"} : BeginHold(p, i, shape)
         \/ \E d \in ledger : BeginAnswer(p, i, d)
         \/ \E dest \in Items : BeginReparent(p, i, dest)
  PROVE  GoodInv'
<1>1. Shape
  BY DEF IInv
<1>2. ASSUME NEW ask, Ask(p, i, ask), page' = page PROVE GoodInv'
  <2> DEFINE new == [Idle EXCEPT !.pc = "lock", !.path = page[i].path,
                                 !.cand = Owner(page[i].path), !.tries = 1, !.ask = ask]
  <2>1. proc' = [proc EXCEPT ![p] = new]
    BY <1>2 DEF Ask
  <2>2. new.pc = "lock"
    BY DEF Idle
  <2> HIDE DEF new
  <2> QED
    BY <1>1, <1>2, <2>1, <2>2, OneGood
<1>3. ASSUME NEW dest \in Items, BeginReparent(p, i, dest) PROVE GoodInv'
  <2> DEFINE plan == [op |-> "move", item |-> i, before |-> Seen(i), dest |-> dest,
                      under |-> page[dest].path]
             new == [Idle EXCEPT !.pc = "bundle", !.path = page[i].path, !.plan = plan]
  <2>1. proc' = [proc EXCEPT ![p] = new] /\ page' = page
    BY <1>3 DEF BeginReparent
  <2>2. GoodPlan(plan)
    BY DEF GoodPlan
  <2> HIDE DEF plan
  <2>3. new.plan = plan
    BY DEF Idle
  <2> HIDE DEF new
  <2> QED
    BY <1>1, <2>1, <2>2, <2>3, OneGood
<1> QED
  BY <1>2, <1>3 DEF BeginAdvance, BeginHold, BeginAnswer

LEMMA EnterGood ==
  ASSUME IInv, GoodInv, NEW p \in Procs, NEW args, Enter(p, args)
  PROVE  GoodInv'
<1>1. proc[p].pc = "lock" /\ page' = page /\ Shape /\ IsProc(proc[p])
  BY DEF Enter, IInv, Shape
<1>2. CASE proc' = [proc EXCEPT ![p] = Idle]
  <2>1. Idle.pc = "idle"
    BY DEF Idle
  <2> QED
    BY <1>1, <1>2, <2>1, OneGood
<1>3. ASSUME NEW owner,
             proc' = [proc EXCEPT ![p] = [proc[p] EXCEPT !.cand = owner, !.tries = proc[p].tries + 1]]
      PROVE  GoodInv'
  <2> DEFINE new == [proc[p] EXCEPT !.cand = owner, !.tries = proc[p].tries + 1]
  <2>1. new.pc = "lock"
    BY <1>1 DEF IsProc
  <2> HIDE DEF new
  <2> QED
    BY <1>1, <1>3, <2>1, OneGood DEF new
<1>4. ASSUME NEW i \in At(proc[p].path), NEW plan,
             plan = PlanFor(i, proc[p].cand, proc[p].path, proc[p].ask, args), plan # NoPlan,
             proc' = [proc EXCEPT ![p] =
                        [proc[p] EXCEPT !.pc = "bundle", !.ask = NoPlan, !.tries = 0, !.plan = plan]]
      PROVE  GoodInv'
  <2>1. i \in Items /\ Good(page[i]) /\ proc[p].ask.op \in {"advance", "hold", "answer"}
    BY <1>1, <1>4 DEF At, GoodInv, IsProc
  <2>2. PICK owner, path, ask : owner = proc[p].cand /\ path = proc[p].path /\ ask = proc[p].ask
    OBVIOUS
  <2>3. plan = PlanFor(i, owner, path, ask, args) /\ ask.op \in {"advance", "hold", "answer"}
    BY <1>4, <2>1, <2>2
  <2>4. GoodPlan(plan)
    <3>1. plan # NoPlan
      BY <1>4
    <3> QED
      BY <1>1, <2>1, <2>3, <3>1, PlansAreGood
  <2> DEFINE new == [proc[p] EXCEPT !.pc = "bundle", !.ask = NoPlan, !.tries = 0, !.plan = plan]
  <2>5. new.plan = plan
    BY <1>1 DEF IsProc
  <2> HIDE DEF new
  <2>6. proc' = [proc EXCEPT ![p] = new]
    BY <1>4 DEF new
  <2> QED
    BY <1>1, <2>4, <2>5, <2>6, OneGood
<1>5. \/ proc' = [proc EXCEPT ![p] = Idle]
      \/ \E owner : proc' = [proc EXCEPT ![p] = [proc[p] EXCEPT !.cand = owner, !.tries = proc[p].tries + 1]]
      \/ \E i \in At(proc[p].path) : \E plan :
           /\ proc[p].cand = Owner(proc[p].path)
           /\ plan = PlanFor(i, proc[p].cand, proc[p].path, proc[p].ask, args) /\ plan # NoPlan
           /\ proc' = [proc EXCEPT ![p] =
                         [proc[p] EXCEPT !.pc = "bundle", !.ask = NoPlan, !.tries = 0, !.plan = plan]]
  BY <1>1, EnterOutcomes
<1> QED
  BY <1>2, <1>3, <1>4, <1>5

LEMMA WriteGood ==
  ASSUME IInv, GoodInv, NEW p \in Procs, Write(p)
  PROVE  GoodInv'
<1> DEFINE plan == proc[p].plan
           ok == Fresh(p) /\ Valid(plan)
<1>1. /\ page = [j \in Items |-> page[j]] /\ \A j \in Items : IsPage(page[j]) /\ Good(page[j])
      /\ Working(p) /\ GoodPlan(plan)
  BY DEF IInv, Shape, Write, Working, GoodInv
<1>2. \A i \in Items : Good(page'[i])
  <2>1. CASE ok /\ plan.op = "page"
    <3>1. page' = [page EXCEPT ![plan.item] = plan.after]
      BY <2>1 DEF Write
    <3>2. page[plan.item] = plan.before
      BY <2>1 DEF Fresh
    <3>3. ASSUME NEW i \in Items PROVE Good(page'[i])
      <4>1. CASE i = plan.item
        <5>1. Good(plan.after) /\ page'[i] = plan.after
          BY <1>1, <2>1, <3>1, <3>2, <4>1 DEF GoodPlan
        <5> QED
          BY <5>1
      <4>2. CASE i # plan.item
        <5>1. page'[i] = page[i]
          BY <1>1, <3>1, <4>2
        <5> QED
          BY <1>1, <5>1
      <4> QED
        BY <4>1, <4>2
    <3> QED
      BY <3>3
  <2>2. CASE ok /\ plan.op = "move"
    <3>1. \A j \in Items : page'[j] = IF j \in Subtree(plan.item)
                                      THEN [page[j] EXCEPT !.path = Rebased(j, proc[p].path, plan.under)]
                                      ELSE page[j]
      BY <2>2 DEF Write
    <3>2. \A j \in Items : page'[j].phase = page[j].phase /\ page'[j].status = page[j].status
      BY <1>1, <3>1 DEF IsPage
    <3> QED
      BY <1>1, <3>2 DEF Good
  <2>3. CASE ~(ok /\ plan.op = "page") /\ ~(ok /\ plan.op = "move")
    <3>1. page' = page
      BY <2>3 DEF Write
    <3> QED
      BY <1>1, <3>1
  <2> QED
    BY <2>1, <2>2, <2>3
<1>3. \A q \in Procs : proc'[q] = IF q = p THEN Idle ELSE proc[q]
  BY DEF Write, IInv, Shape
<1>4. \A q \in Procs : Working(q)' => Working(q) /\ proc'[q] = proc[q]
  BY <1>3, IdleIsProc DEF Working
<1> QED
  BY <1>2, <1>4 DEF GoodInv, GoodPlan, Good

LEMMA EditGood ==
  ASSUME IInv, GoodInv, NEW i \in Items, EditStatus(i) \/ SiblingLands(i)
  PROVE  GoodInv'
<1>1. proc' = proc /\ page = [k \in Items |-> page[k]] /\ IsPage(page[i])
  BY DEF EditStatus, SiblingLands, IInv, Shape
<1>2. \A j \in Items : j # i => page'[j] = page[j]
  BY <1>1 DEF EditStatus, SiblingLands
<1>3. /\ page'[i].phase = page[i].phase
      /\ page'[i].status \in {page[i].status, "open", "wontfix"}
  <2>1. CASE EditStatus(i)
    <3>1. page'[i] = [page[i] EXCEPT !.status = IF page[i].status = "wontfix" THEN "open" ELSE "wontfix"]
      BY <1>1, <2>1 DEF EditStatus
    <3> QED
      BY <1>1, <3>1 DEF IsPage
  <2>2. CASE SiblingLands(i)
    <3>1. page'[i] = [page[i] EXCEPT !.stale = TRUE]
      BY <1>1, <2>2 DEF SiblingLands
    <3> QED
      BY <1>1, <3>1 DEF IsPage
  <2> QED
    BY <2>1, <2>2
<1>4. Good(page[i]) => Good(page'[i])
  BY <1>3 DEF Good, Admits, Statuses, Terminal
<1> QED
  BY <1>1, <1>2, <1>4 DEF GoodInv, Working, GoodPlan, Good

LEMMA GoodAlways == Spec => []GoodInv
<1>1. IInv /\ GoodInv /\ [Next]_vars => GoodInv'
  <2> SUFFICES ASSUME IInv, GoodInv, [Next]_vars PROVE GoodInv'
    OBVIOUS
  <2>1. CASE UNCHANGED vars
    BY <2>1 DEF GoodInv, Working, GoodPlan, Good, vars
  <2>2. ASSUME NEW p \in Procs, TakeBundle(p) PROVE GoodInv'
    <3> DEFINE new == [proc[p] EXCEPT !.pc = "write"]
    <3>1. Shape /\ IsProc(proc[p]) /\ Working(p) /\ page' = page
      BY <2>2 DEF IInv, Shape, TakeBundle, Working
    <3>2. new.plan = proc[p].plan /\ GoodPlan(proc[p].plan)
      BY <3>1 DEF IsProc, GoodInv
    <3>3. proc' = [proc EXCEPT ![p] = new]
      BY <2>2, <3>1 DEF TakeBundle, Shape
    <3> HIDE DEF new
    <3> QED
      BY <3>1, <3>2, <3>3, OneGood
  <2> QED
    BY <2>1, <2>2, BeginsGood, EnterGood, WriteGood, EditGood DEF Next
<1> QED
  BY Inductive, InitGood, <1>1, PTL DEF Spec

\* Whatever sequence of advances, sizes, returns, moves, closings, reopenings
\* and stale specs led to it, a page's status admits its phase: no row of the
\* routing table (_emit, _on_dispatch, _locate) breaks that.
THEOREM CoherentAlways == Spec => []CoherentPages
<1>1. GoodInv => CoherentPages
  BY GoodIsCoherent DEF GoodInv, CoherentPages
<1> QED
  BY GoodAlways, <1>1, PTL

-----------------------------------------------------------------------------
(* No dead end: what an advance of a ready item finds in the table.        *)

LEMMA Progresses ==
  ASSUME NEW pg
  PROVE  /\ pg.phase = "none" => Progress(pg) = 0
         /\ pg.phase = "design" => Progress(pg) = 1
         /\ pg.phase = "plan" => Progress(pg) = IF pg.stale THEN 2 ELSE 3
         /\ pg.phase = "execute" => Progress(pg) = IF pg.status = "in-progress" THEN 5 ELSE 4
         /\ pg.phase = "finish" => Progress(pg) = 6
         /\ pg.phase = "done" => Progress(pg) = 7
<1>1. Rank("finish") = 4 /\ Rank("done") = 5
  BY Ranks DEF Rank
<1> QED
  BY <1>1 DEF Progress

\* The page a move leaves.
LEMMA AdvancedFields ==
  ASSUME NEW i, IsPage(page[i]), NEW args, NEW move
  PROVE  LET after == Advanced(i, args, move) IN
         /\ after.phase = IF move.phase = "keep" THEN page[i].phase ELSE move.phase
         /\ after.status = IF move.status = "keep" THEN page[i].status ELSE move.status
         /\ move.phase = "plan" => ~after.stale
BY DEF Advanced, IsPage

\* A move that can be made now and leads on.
Onward(i, size, move) ==
  /\ move.requires \subseteq {"owner", "resolved_in", "children-terminal"}
  /\ Progress(Advanced(i, Full(size), move)) > Progress(page[i])

LEMMA OnwardMove ==
  ASSUME NEW i \in Items, NEW size, NEW ph, NEW st, NEW r, IsPage(page[i]),
         r \subseteq {"owner", "resolved_in", "children-terminal"},
         LET after == Advanced(i, Full(size), Move(ph, st, r)) IN Progress(after) > Progress(page[i])
  PROVE  Onward(i, size, Move(ph, st, r))
BY DEF Onward, Move

\* The dispatch or the completion of a stage the item is at.
LEMMA StageOnward ==
  ASSUME NEW i \in Items, NEW size \in Efforts, NEW stage \in StageNames, NEW next,
         IsPage(page[i]), Good(page[i]), Going(i, stage), Follows(stage, next)
  PROVE  /\ OnDispatch(i, stage) # NoMove => Onward(i, size, OnDispatch(i, stage))
         /\ OnDispatch(i, stage) = NoMove => Onward(i, size, OnComplete(i, stage, size, {next}))
<1> DEFINE pg == page[i]
<1>1. ASSUME NEW ph, NEW st, NEW r PROVE Move(ph, st, r).phase = ph /\ Move(ph, st, r).status = st
                                          /\ Move(ph, st, r).requires = r
  BY DEF Move
<1>2. CASE pg.phase = "none"
  <2>1. PICK st \in {"keep", "in-progress"}, r \in {{}, {"owner"}} : OnDispatch(i, stage) = Move(stage, st, r)
    BY <1>2 DEF OnDispatch
  <2>2. OnDispatch(i, stage) # NoMove
    BY <1>1, <2>1 DEF NoMove, StageNames
  <2>3. Advanced(i, Full(size), Move(stage, st, r)).phase = stage
    BY <1>1, AdvancedFields DEF StageNames
  <2>4. Progress(pg) = 0 /\ Progress(Advanced(i, Full(size), Move(stage, st, r))) > 0
    BY <1>2, <2>3, Progresses DEF StageNames
  <2> QED
    BY <2>1, <2>2, <2>4, OnwardMove
<1>3. CASE pg.phase = stage /\ stage = "execute" /\ pg.status # "in-progress"
  <2> DEFINE m == Move("keep", "in-progress", {"owner"})
  <2>1. OnDispatch(i, stage) = m
    BY <1>3 DEF OnDispatch
  <2>2. m # NoMove
    BY <1>1 DEF NoMove
  <2>3. Advanced(i, Full(size), m).phase = "execute" /\ Advanced(i, Full(size), m).status = "in-progress"
    BY <1>1, <1>3, AdvancedFields
  <2>4. Progress(pg) = 4 /\ Progress(Advanced(i, Full(size), m)) = 5
    BY <1>3, <2>3, Progresses
  <2> QED
    BY <2>1, <2>2, <2>4, OnwardMove
<1>4. CASE pg.phase = stage /\ ~(stage = "execute" /\ pg.status # "in-progress")
  <2>1. OnDispatch(i, stage) = NoMove
    BY <1>4 DEF OnDispatch, StageNames
  <2>2. CASE stage = "plan" /\ pg.stale
    <3>1. OnComplete(i, stage, size, {next}) = Move("plan", "keep", {})
      BY <1>4, <2>2 DEF OnComplete
    <3>2. Advanced(i, Full(size), Move("plan", "keep", {})).phase = "plan"
          /\ ~Advanced(i, Full(size), Move("plan", "keep", {})).stale
      BY <1>1, AdvancedFields
    <3>3. Progress(pg) = 2 /\ Progress(Advanced(i, Full(size), Move("plan", "keep", {}))) = 3
      BY <1>4, <2>2, <3>2, Progresses
    <3> QED
      BY <2>1, <3>1, <3>3, OnwardMove
  <2>3. CASE ~(stage = "plan" /\ pg.stale)
    <3>1. Cardinality({next}) = 1 /\ (CHOOSE n \in {next} : TRUE) = next
      BY FS_Singleton
    <3>2. PICK st, r : st = Completed(stage, next) /\ r = Requires(i, stage, size, Cardinality({next}) > 1)
      OBVIOUS
    <3>3. OnComplete(i, stage, size, {next}) = Move(next, st, r)
      <4>1. OnComplete(i, stage, size, {next}) =
                                                 Move(next, Completed(stage, next),
                                                      Requires(i, stage, size, Cardinality({next}) > 1))
        BY <2>3, <3>1, Zenon DEF OnComplete
      <4> QED
        BY <3>2, <4>1
    <3>4. r \subseteq {"owner", "resolved_in", "children-terminal"}
      BY <3>2 DEF Requires, Efforts
    <3>5. next \in {"plan", "execute", "finish", "done"}
      BY DEF Follows, StageNames
    <3> DEFINE m == Move(next, st, r)
    <3>6. m.phase = next
      BY <1>1
    <3> HIDE DEF m
    <3>7. PICK after : after = Advanced(i, Full(size), m)
      OBVIOUS
    <3>8. after.phase = next /\ (next = "plan" => ~after.stale)
      BY <3>5, <3>6, <3>7, AdvancedFields
    <3>9. Progress(after) > Progress(pg)
      <4>1. /\ next = "plan" => Progress(after) = 3
            /\ next = "execute" => Progress(after) \in {4, 5}
            /\ next = "finish" => Progress(after) = 6
            /\ next = "done" => Progress(after) = 7
        BY <3>8, Progresses
      <4>2. /\ stage = "design" => Progress(pg) = 1
            /\ stage = "plan" => Progress(pg) \in {2, 3}
            /\ stage = "execute" => Progress(pg) \in {4, 5}
            /\ stage = "finish" => Progress(pg) = 6
        BY <1>4, Progresses
      <4> QED
        BY <3>5, <4>1, <4>2 DEF Follows, StageNames
    <3> QED
      BY <2>1, <3>3, <3>4, <3>7, <3>9, OnwardMove DEF m
  <2> QED
    BY <2>2, <2>3
<1> QED
  BY <1>2, <1>3, <1>4 DEF Going

\* What route offers a ready item that is sized.
LEMMA ReadyRoute ==
  ASSUME NEW i \in Items, NEW size \in Efforts, Shape, Good(page[i]), Ready(i)
  PROVE  Onward(i, size, Pick(i, Full(size), Route(i, size, FALSE)))
<1> DEFINE phase == page[i].phase
           route == Route(i, size, FALSE)
<1>1. PICK s : s = StagesOf(page[i].type, size)
  OBVIOUS
<1>2. s \in Tables /\ Candidates(page[i].type, size) = {s}
  BY <1>1, StagesOfTable DEF Candidates, Efforts
<1>3. /\ IsPage(page[i])
      /\ phase \in StageNames \cup {"none"} /\ page[i].status \in {"open", "accepted", "in-progress"}
      /\ phase \in {"none", "design", "plan"} => page[i].status = "open"
  BY DEF Shape, Ready, Good, Admits, Statuses, Terminal
<1>4. PICK here : here = Locate(s, phase)
  OBVIOUS
<1>5. /\ here.stage \in StageNames /\ On(s, here.stage) /\ here.off \in BOOLEAN
      /\ here.off => phase \in {"design", "plan"} /\ Rank(here.stage) > Rank(phase)
      /\ ~here.off => phase \in {"none", here.stage}
  BY <1>2, <1>3, <1>4, LocateFacts
<1>6. PICK next : next = After(s, here.stage)
  OBVIOUS
<1>7. Follows(here.stage, next)
  BY <1>2, <1>5, <1>6, AfterFollows
<1>8. route = IF here.off THEN [Blocked("phase-off-path") EXCEPT !.repair = Move(here.stage, "keep", {})]
              ELSE Emit(i, here.stage, size, {next})
  <2> DEFINE candidates == Candidates(page[i].type, size)
             located == {Locate(c, phase) : c \in candidates}
             first == CHOOSE l \in located : TRUE
  <2>1. located = {here} /\ first = here /\ {After(c, here.stage) : c \in candidates} = {next}
    BY <1>2, <1>4, <1>6
  <2>2. ~(Cardinality(located) > 1)
    BY <2>1, FS_Singleton
  <2>3. /\ phase # "done" /\ page[i].status \notin Terminal \cup {"mitigated"}
        /\ ~(phase = "none" /\ page[i].status # "open")
    BY <1>3 DEF StageNames, Terminal
  <2>4. route = IF first.off THEN [Blocked("phase-off-path") EXCEPT !.repair = Move(first.stage, "keep", {})]
                ELSE Emit(i, first.stage, size, {After(c, first.stage) : c \in candidates})
    <3> HIDE DEF candidates
    <3> QED
      BY <2>2, <2>3, Zenon DEF Route, candidates
  <2> HIDE DEF candidates, located, first, route
  <2> QED
    BY <2>1, <2>4
<1>9. ~Full(size).return
  BY DEF Full, Args
<1>10. CASE here.off
  <2> DEFINE m == Move(here.stage, "keep", {})
  <2>1. Pick(i, Full(size), route) = m
    <3>1. route.blocker = "phase-off-path" /\ route.repair = m
      BY <1>8, <1>10 DEF Blocked
    <3> HIDE DEF route, m
    <3> QED
      BY <1>9, <3>1 DEF Pick
  <2>2. PICK after : after = Advanced(i, Full(size), m)
    OBVIOUS
  <2>3. m.phase = here.stage /\ m.status = "keep"
    BY DEF Move
  <2> HIDE DEF m
  <2>4. after.phase = here.stage /\ (here.stage = "plan" => ~after.stale)
    BY <1>3, <1>5, <2>2, <2>3, AdvancedFields DEF StageNames
  <2>5. \/ phase = "design" /\ here.stage \in {"plan", "execute", "finish"}
        \/ phase = "plan" /\ here.stage \in {"execute", "finish"}
    BY <1>5, <1>10, Ranks DEF StageNames
  <2>6. Progress(after) > Progress(page[i])
    <3>1. /\ phase = "design" => Progress(page[i]) = 1
          /\ phase = "plan" => Progress(page[i]) \in {2, 3}
      BY Progresses
    <3>2. /\ here.stage = "plan" => Progress(after) = 3
          /\ here.stage = "execute" => Progress(after) \in {4, 5}
          /\ here.stage = "finish" => Progress(after) = 6
      BY <2>4, Progresses
    <3> QED
      BY <2>5, <3>1, <3>2
  <2> QED
    BY <1>3, <2>1, <2>2, <2>6, OnwardMove DEF m
<1>11. CASE ~here.off
  <2> DEFINE stage == here.stage
             parent == page[i].type \in Decomposing
             return == IF stage = "finish" THEN ReturnToExecute ELSE NoMove
             done == [Blocked("none") EXCEPT !.return = return]
  <2>1. route = Emit(i, stage, size, {next}) /\ Open(i) = {} /\ Going(i, stage)
    BY <1>3, <1>5, <1>8, <1>11 DEF Ready, Going
  <2>2. parent /\ stage \in {"execute", "finish"} => phase = stage /\ Children(i) # {}
    <3> HAVE parent /\ stage \in {"execute", "finish"}
    <3>1. s = Stages
      BY <1>1 DEF StagesOf, Decomposing, BugLike
    <3>2. phase # "none"
      BY <1>4, <3>1 DEF Locate, Stages
    <3> QED
      BY <1>5, <1>11, <3>2 DEF Ready
  <2> HIDE DEF route, return
  <2>3. done = [blocker |-> "none", dispatch |-> NoMove, complete |-> NoMove, return |-> return, repair |-> NoMove]
    BY DEF Blocked
  <2> HIDE DEF done
  <2>4. CASE parent /\ stage = "execute"
    <3> DEFINE m == Move("finish", "keep", {})
    <3>1. (CHOOSE n \in {next} : TRUE) = "finish"
      BY <1>7, <2>4 DEF Follows
    <3>2. route = [done EXCEPT !.complete = m]
      BY <2>1, <2>2, <2>4, <3>1 DEF Emit, done, return
    <3>3. m.phase = "finish"
      BY DEF Move
    <3> HIDE DEF m
    <3>4. Pick(i, Full(size), route) = m
      BY <1>9, <2>3, <3>2 DEF Pick
    <3>5. Advanced(i, Full(size), m).phase = "finish"
      BY <1>3, <3>3, AdvancedFields
    <3>6. Progress(page[i]) \in {4, 5} /\ Progress(Advanced(i, Full(size), m)) = 6
      BY <2>2, <2>4, <3>5, Progresses
    <3>7. Progress(Advanced(i, Full(size), m)) > Progress(page[i])
      BY <3>6
    <3>8. Onward(i, size, m)
      BY <1>3, <3>7, OnwardMove DEF m
    <3> QED
      BY <3>4, <3>8 DEF route
  <2>5. CASE parent /\ stage = "finish" /\ i \notin HasCode
    <3> DEFINE m == Move("done", "resolved", {})
    <3>1. route = [done EXCEPT !.complete = m]
      BY <2>1, <2>5 DEF Emit, done, return
    <3>2. m.phase = "done"
      BY DEF Move
    <3> HIDE DEF m
    <3>3. Pick(i, Full(size), route) = m
      BY <1>9, <2>3, <3>1 DEF Pick
    <3>4. Advanced(i, Full(size), m).phase = "done"
      BY <1>3, <3>2, AdvancedFields
    <3>5. Progress(page[i]) = 6 /\ Progress(Advanced(i, Full(size), m)) = 7
      BY <2>2, <2>5, <3>4, Progresses
    <3>6. Progress(Advanced(i, Full(size), m)) > Progress(page[i])
      BY <3>5
    <3>7. Onward(i, size, m)
      BY <1>3, <3>6, OnwardMove DEF m
    <3> QED
      BY <3>3, <3>7 DEF route
  <2>6. CASE ~(parent /\ stage = "execute") /\ ~(parent /\ stage = "finish" /\ i \notin HasCode)
    <3>1. PICK dispatch, complete : dispatch = OnDispatch(i, stage) /\ complete = OnComplete(i, stage, size, {next})
      OBVIOUS
    <3>2. route = [done EXCEPT !.dispatch = dispatch, !.complete = complete]
      BY <2>1, <2>6, <3>1 DEF Emit, done, return
    <3>3. Pick(i, Full(size), route) = IF dispatch # NoMove THEN dispatch ELSE complete
      BY <1>9, <2>3, <3>2 DEF Pick
    <3>4. /\ dispatch # NoMove => Onward(i, size, dispatch)
          /\ dispatch = NoMove => Onward(i, size, complete)
      BY <1>3, <1>5, <1>7, <2>1, <3>1, StageOnward
    <3> QED
      BY <3>3, <3>4 DEF route
  <2> QED
    BY <2>4, <2>5, <2>6
<1> QED
  BY <1>5, <1>10, <1>11

\* The pipeline has no dead end: in every state the commands can reach, an advance
\* of a ready item that brings a size, an owner and its evidence is planned, passes
\* the postconditions and leads on (route, _emit, advance).
THEOREM NoDeadEndAlways == Spec => []NoDeadEnd
<1>1. IInv /\ GoodInv => NoDeadEnd
  <2> SUFFICES ASSUME IInv, GoodInv, NEW i \in Items, Ready(i), NEW size \in Sizes[i], NEW plan,
                      plan = PlanFor(i, Owner(page[i].path), page[i].path, [op |-> "advance"], Full(size))
               PROVE  plan # NoPlan /\ Valid(plan) /\ Progress(plan.after) > Progress(page[i])
    BY DEF NoDeadEnd
  <2>1. Shape /\ Good(page[i]) /\ size \in Efforts /\ size # "none"
    BY SizesAssumption DEF IInv, GoodInv, Efforts
  <2> DEFINE args == Full(size)
             route == Route(i, size, FALSE)
             move == Pick(i, args, route)
  <2>2. Onward(i, size, move)
    BY <2>1, ReadyRoute
  <2>3. args.effort = size /\ args.given /\ args.proven
    BY DEF Full, Args
  <2>4. Sized(i, args) = size /\ (InLedger(Owner(page[i].path), page[i].path) # {}) = FALSE
    BY <2>1, <2>3 DEF Sized, Ready, Held
  <2>5. Meets(i, args, route, move)
    <3> HIDE DEF args, route, move
    <3> QED
      BY <2>2, <2>3 DEF Meets, Onward, Ready
  <2>6. plan = [op |-> "page", item |-> i, before |-> page[i], after |-> Advanced(i, args, move)]
    <3>1. plan = IF ~Meets(i, args, route, move) THEN NoPlan
                 ELSE [op |-> "page", item |-> i, before |-> page[i], after |-> Advanced(i, args, move)]
      <4> DEFINE h == InLedger(Owner(page[i].path), page[i].path) # {}
      <4>1. plan = IF ~Meets(i, args, Route(i, Sized(i, args), h), Pick(i, args, Route(i, Sized(i, args), h))) THEN NoPlan
                   ELSE [op |-> "page", item |-> i, before |-> page[i],
                         after |-> Advanced(i, args, Pick(i, args, Route(i, Sized(i, args), h)))]
        BY Zenon DEF PlanFor
      <4>2. h = FALSE
        BY <2>4
      <4> HIDE DEF h, args
      <4> QED
        BY <2>4, <4>1, <4>2
    <3> HIDE DEF args, route, move
    <3> QED
      BY <2>5, <3>1
  <2> HIDE DEF route, move
  <2>7. Progress(Advanced(i, args, move)) > Progress(page[i])
    BY <2>2 DEF Onward
  <2>8. Valid(plan)
    <3>1. plan.op = "page" /\ plan.item = i /\ \A d \in ledger : d.at # i
      BY <2>6 DEF Ready
    <3> QED
      BY <3>1 DEF Valid
  <2> HIDE DEF args
  <2> QED
    BY <2>6, <2>7, <2>8 DEF NoPlan
<1> QED
  BY Inductive, GoodAlways, <1>1, PTL

-----------------------------------------------------------------------------
(* Types.  The paths form a tree, and a move of a subtree to a place       *)
(* outside of it leaves a tree: this is what _subtree_mapping must do.     *)

\* The path of every item ends in the item, and its prefixes are the paths of the
\* items on it.
IsTree(P) ==
  /\ P \in [Items -> Path]
  /\ \A j \in Items : /\ P[j][Len(P[j])] = j
                      /\ \A k \in 1..Len(P[j]) : P[P[j][k]] = SubSeq(P[j], 1, k)

\* Prefixes element by element.
Leads(s, t) == Len(s) <= Len(t) /\ \A k \in 1..Len(s) : s[k] = t[k]

LEMMA PathFacts ==
  ASSUME NEW s \in Path
  PROVE  s \in Seq(Items) /\ Len(s) \in Nat \ {0} /\ \A k \in 1..Len(s) : s[k] \in Items
BY EmptySeq, ElementOfSeq DEF Path

LEMMA FirstOf ==
  ASSUME NEW s \in Path, NEW k \in 1..Len(s)
  PROVE  /\ SubSeq(s, 1, k) \in Path /\ Len(SubSeq(s, 1, k)) = k
         /\ \A l \in 1..k : SubSeq(s, 1, k)[l] = s[l]
<1>1. Len(s) \in Nat /\ \A l \in 1..k : s[l] \in Items
  BY PathFacts
<1>2. /\ SubSeq(s, 1, k) \in Seq(Items) /\ Len(SubSeq(s, 1, k)) = IF 1 <= k THEN k - 1 + 1 ELSE 0
      /\ \A l \in 1..(k - 1 + 1) : SubSeq(s, 1, k)[l] = s[1 + l - 1]
  BY <1>1, SubSeqProperties
<1>3. Len(SubSeq(s, 1, k)) = k /\ \A l \in 1..k : SubSeq(s, 1, k)[l] = s[l]
  BY <1>1, <1>2
<1> QED
  BY <1>2, <1>3, EmptySeq DEF Path

LEMMA UnderLeads ==
  ASSUME NEW s \in Path, NEW t \in Path
  PROVE  Under(s, t) \/ s = t <=> Leads(s, t)
<1>1. Len(s) \in Nat \ {0} /\ Len(t) \in Nat \ {0} /\ s \in Seq(Items) /\ t \in Seq(Items)
  BY PathFacts
<1>2. ASSUME Leads(s, t), Len(s) = Len(t) PROVE s = t
  BY <1>1, <1>2, SeqEqual DEF Leads
<1>3. ASSUME Len(s) < Len(t) PROVE SubSeq(t, 1, Len(s)) = s <=> Leads(s, t)
  <2>1. Len(s) \in 1..Len(t)
    BY <1>1, <1>3
  <2>2. /\ SubSeq(t, 1, Len(s)) \in Seq(Items) /\ Len(SubSeq(t, 1, Len(s))) = Len(s)
        /\ \A l \in 1..Len(s) : SubSeq(t, 1, Len(s))[l] = t[l]
    BY <2>1, FirstOf DEF Path
  <2>3. ASSUME Leads(s, t) PROVE SubSeq(t, 1, Len(s)) = s
    BY <1>1, <2>2, <2>3, SeqEqual DEF Leads
  <2> QED
    BY <1>1, <1>3, <2>2, <2>3 DEF Leads
<1> QED
  BY <1>1, <1>2, <1>3 DEF Under, Leads

\* A tree element by element.
LEMMA TreeFacts ==
  ASSUME NEW P, IsTree(P), NEW j \in Items, NEW k \in 1..Len(P[j])
  PROVE  /\ P[j] \in Path /\ P[j][k] \in Items
         /\ P[P[j][k]] \in Path /\ Len(P[P[j][k]]) = k
         /\ \A l \in 1..k : P[P[j][k]][l] = P[j][l]
<1>1. P[j] \in Path
  BY DEF IsTree
<1>2. P[j][k] \in Items /\ P[P[j][k]] = SubSeq(P[j], 1, k)
  BY <1>1, PathFacts DEF IsTree
<1>3. PICK s : s = P[j]
  OBVIOUS
<1>4. /\ SubSeq(s, 1, k) \in Path /\ Len(SubSeq(s, 1, k)) = k
      /\ \A l \in 1..k : SubSeq(s, 1, k)[l] = s[l]
  BY <1>1, <1>3, FirstOf
<1> QED
  BY <1>1, <1>2, <1>3, <1>4

\* No item is twice on a path, which is therefore no longer than there are items.
LEMMA TreePaths ==
  ASSUME NEW P, IsTree(P), NEW j \in Items
  PROVE  P[j] \in Paths
<1> DEFINE s == P[j]
           n == Len(P[j])
<1>1. s \in Path /\ n \in Nat \ {0} /\ s \in [1..n -> Items] /\ DOMAIN s = 1..n
  BY PathFacts, LenProperties DEF IsTree, Path
<1>2. ASSUME NEW k \in 1..n, NEW l \in 1..n, s[k] = s[l] PROVE k = l
  <2>1. Len(P[P[j][k]]) = k /\ Len(P[P[j][l]]) = l
    BY TreeFacts
  <2> QED
    BY <1>2, <2>1
<1>3. s \in Injection(1..n, Items)
  BY <1>1, <1>2 DEF Injection, IsInjective
<1>4. Cardinality(1..n) <= Cardinality(Items)
  BY <1>3, FS_Injection, BoundsAssumption
<1>5. Cardinality(1..n) = n /\ Cardinality(Items) \in Nat
  <2>1. PICK m \in Nat : m = n /\ m # 0
    BY <1>1
  <2>2. Cardinality(1..m) = IF 1 > m THEN 0 ELSE m - 1 + 1
    BY <2>1, FS_Interval
  <2> QED
    BY <2>1, <2>2, FS_CardinalityType, BoundsAssumption
<1>6. n \in 1..Cardinality(Items)
  BY <1>1, <1>4, <1>5
<1> HIDE DEF s, n
<1> QED
  BY <1>1, <1>2, <1>6 DEF Paths, s


\* The new path of an item of a moved subtree, element by element.
Rehung(from, to, s, new) ==
  /\ new \in Path /\ Len(new) = Len(to) + Len(s) - Len(from) + 1 /\ Len(from) <= Len(s)
  /\ \A m \in 1..Len(new) : /\ m <= Len(to) => new[m] = to[m]
                            /\ m > Len(to) => new[m] = s[m - Len(to) + Len(from) - 1]

LEMMA RebasedFacts ==
  ASSUME NEW from \in Path, NEW to \in Path, NEW s \in Path, Leads(from, s)
  PROVE  Rehung(from, to, s, to \o SubSeq(s, Len(from), Len(s)))
<1>0. PICK new : new = to \o SubSeq(s, Len(from), Len(s))
  OBVIOUS
<1>1. /\ Len(from) \in Nat \ {0} /\ Len(to) \in Nat \ {0} /\ Len(s) \in Nat \ {0} /\ Len(from) <= Len(s)
      /\ to \in Seq(Items) /\ \A k \in Len(from)..Len(s) : s[k] \in Items
  BY PathFacts DEF Leads
<1>2. PICK a, b, tail : a = Len(from) /\ b = Len(s) /\ tail = SubSeq(s, a, b)
  OBVIOUS
<1>3. /\ tail \in Seq(Items) /\ Len(tail) = b - a + 1
      /\ \A k \in 1..(b - a + 1) : tail[k] = s[a + k - 1]
  BY <1>1, <1>2, SubSeqProperties
<1>4. /\ new \in Seq(Items) /\ Len(new) = Len(to) + Len(tail)
      /\ \A k \in 1..(Len(to) + Len(tail)) : new[k] = IF k <= Len(to) THEN to[k] ELSE tail[k - Len(to)]
  BY <1>0, <1>1, <1>2, <1>3, ConcatProperties
<1>5. Len(new) = Len(to) + Len(s) - Len(from) + 1
  BY <1>1, <1>2, <1>3, <1>4
<1>6. ASSUME NEW m \in 1..Len(new)
      PROVE  /\ m <= Len(to) => new[m] = to[m]
             /\ m > Len(to) => new[m] = s[m - Len(to) + Len(from) - 1]
  <2>1. CASE m <= Len(to)
    BY <1>1, <1>3, <1>4, <2>1
  <2>2. CASE m > Len(to)
    <3>1. PICK k : k = m - Len(to)
      OBVIOUS
    <3>2. k \in 1..(b - a + 1) /\ new[m] = tail[k]
      BY <1>1, <1>2, <1>3, <1>4, <1>6, <2>2, <3>1
    <3>3. new[m] = s[a + k - 1] /\ a + k - 1 = m - Len(to) + Len(from) - 1
      BY <1>1, <1>2, <1>3, <3>1, <3>2
    <3> QED
      BY <1>1, <2>2, <3>3
  <2> QED
    BY <1>1, <2>1, <2>2
<1>7. new \in Path
  BY <1>1, <1>4, <1>5, EmptySeq DEF Path
<1> QED
  BY <1>0, <1>1, <1>5, <1>6, <1>7 DEF Rehung

\* Two paths of one length with the same elements.
LEMMA SamePath ==
  ASSUME NEW s \in Path, NEW t \in Path, NEW k \in 1..Len(t), Len(s) = k,
         \A l \in 1..k : s[l] = t[l]
  PROVE  s = SubSeq(t, 1, k)
<1>1. /\ SubSeq(t, 1, k) \in Seq(Items) /\ Len(SubSeq(t, 1, k)) = k
      /\ \A l \in 1..k : SubSeq(t, 1, k)[l] = t[l]
  BY FirstOf DEF Path
<1> QED
  BY <1>1, PathFacts, SeqEqual

\* S is a subtree: it holds an item if it holds one on its path, and the items on the
\* paths of its items from the length of its root's path on.
Branch(P, S, from) ==
  \A j \in Items : \A k \in 1..Len(P[j]) :
    /\ P[j][k] \in S => j \in S
    /\ j \in S /\ Len(from) <= k => P[j][k] \in S

\* Q is P with that subtree below `to`.
Regrown(P, Q, S, from, to) ==
  /\ \A j \in Items \ S : Q[j] = P[j]
  /\ \A j \in S : Rehung(from, to, P[j], Q[j])

LEMMA RegrownTree ==
  ASSUME NEW P, IsTree(P), NEW dest \in Items, NEW from \in Path, NEW to \in Path, to = P[dest],
         NEW S \in SUBSET Items, Branch(P, S, from), dest \notin S,
         NEW Q \in [Items -> Path], Regrown(P, Q, S, from, to)
  PROVE  IsTree(Q)
<1>2. /\ Len(from) \in Nat \ {0} /\ Len(to) \in Nat \ {0}
      /\ \A j \in Items : Len(P[j]) \in Nat \ {0} /\ Len(Q[j]) \in Nat \ {0} /\ Q[j] \in Path
  BY PathFacts DEF IsTree
<1>7. ASSUME NEW j \in Items, j \notin S
      PROVE  /\ Q[j][Len(Q[j])] = j
             /\ \A k \in 1..Len(Q[j]) : Q[Q[j][k]] = SubSeq(Q[j], 1, k)
  <2>1. Q[j] = P[j]
    BY <1>7 DEF Regrown
  <2>2. ASSUME NEW k \in 1..Len(P[j]) PROVE Q[P[j][k]] = SubSeq(P[j], 1, k)
    <3>1. P[j][k] \in Items /\ P[j][k] \notin S
      BY <1>7, TreeFacts DEF Branch
    <3> QED
      BY <3>1 DEF Regrown, IsTree
  <2> QED
    BY <2>1, <2>2 DEF IsTree
<1>8. ASSUME NEW j \in Items, j \in S
      PROVE  /\ Q[j][Len(Q[j])] = j
             /\ \A m \in 1..Len(Q[j]) : Q[Q[j][m]] = SubSeq(Q[j], 1, m)
  <2>0. PICK a, b, c, e : a = Len(from) /\ b = Len(to) /\ c = Len(P[j]) /\ e = Len(Q[j])
    OBVIOUS
  <2>1. /\ a \in Nat \ {0} /\ b \in Nat \ {0} /\ c \in Nat \ {0} /\ e = b + c - a + 1 /\ a <= c
        /\ \A m \in 1..e : /\ m <= b => Q[j][m] = to[m]
                           /\ m > b => Q[j][m] = P[j][m - b + a - 1]
    BY <1>2, <1>8, <2>0 DEF Regrown, Rehung
  <2>2. Q[j][e] = j
    <3>1. e \in 1..e /\ e > b /\ e - b + a - 1 = c
      BY <2>1
    <3>2. Q[j][e] = P[j][c]
      BY <2>1, <3>1
    <3> QED
      BY <2>0, <3>2 DEF IsTree
  <2>3. ASSUME NEW m \in 1..e, m <= b PROVE Q[Q[j][m]] = SubSeq(Q[j], 1, m)
    <3>1. PICK x : x = to[m]
      OBVIOUS
    <3>2. m \in 1..b /\ Q[j][m] = x
      BY <2>1, <2>3, <3>1
    <3>3. x \in Items /\ x \notin S /\ Len(P[x]) = m /\ \A l \in 1..m : P[x][l] = to[l]
      BY <2>0, <3>1, <3>2, TreeFacts DEF Branch
    <3>4. Q[x] = P[x] /\ Q[x] \in Path /\ Q[j] \in Path
      BY <1>2, <3>3 DEF Regrown
    <3>5. ASSUME NEW l \in 1..m PROVE Q[x][l] = Q[j][l]
      <4>1. l \in 1..e /\ l <= b
        BY <2>1, <2>3, <3>5
      <4> QED
        BY <2>1, <3>3, <3>4, <4>1
    <3>6. Q[x] = SubSeq(Q[j], 1, m)
      BY <2>0, <2>3, <3>3, <3>4, <3>5, SamePath
    <3> QED
      BY <3>2, <3>6
  <2>4. ASSUME NEW m \in 1..e, m > b PROVE Q[Q[j][m]] = SubSeq(Q[j], 1, m)
    <3>1. PICK n, x : n = m - b + a - 1 /\ x = P[j][n]
      OBVIOUS
    <3>2. n \in 1..c /\ a <= n /\ Q[j][m] = x
      BY <2>1, <2>4, <3>1
    <3>3. x \in Items /\ Len(P[x]) = n /\ \A l \in 1..n : P[x][l] = P[j][l]
      <4>1. n \in 1..Len(P[j]) /\ x = P[j][n]
        BY <2>0, <3>1, <3>2
      <4> QED
        BY <4>1, TreeFacts
    <3>4. x \in S
      <4>1. n \in 1..Len(P[j]) /\ Len(from) <= n /\ x = P[j][n]
        BY <2>0, <3>1, <3>2
      <4> QED
        BY <1>8, <4>1 DEF Branch
    <3>5. /\ Q[x] \in Path /\ Q[j] \in Path /\ Len(Q[x]) = b + n - a + 1
          /\ \A l \in 1..Len(Q[x]) : /\ l <= b => Q[x][l] = to[l]
                                     /\ l > b => Q[x][l] = P[x][l - b + a - 1]
      BY <1>2, <2>0, <3>3, <3>4 DEF Regrown, Rehung
    <3>6. Len(Q[x]) = m
      BY <2>1, <2>4, <3>1, <3>2, <3>5
    <3>7. ASSUME NEW l \in 1..m PROVE Q[x][l] = Q[j][l]
      <4>1. l \in 1..e /\ l \in 1..Len(Q[x])
        BY <2>1, <2>4, <3>6, <3>7
      <4>2. CASE l <= b
        BY <2>1, <3>5, <4>1, <4>2
      <4>3. CASE l > b
        <5>1. PICK h : h = l - b + a - 1
          OBVIOUS
        <5>2. h \in 1..n
          BY <2>1, <2>4, <3>1, <3>7, <4>3, <5>1
        <5>3. Q[x][l] = P[x][h] /\ Q[j][l] = P[j][h]
          BY <2>1, <3>5, <4>1, <4>3, <5>1
        <5> QED
          BY <3>3, <5>2, <5>3
      <4> QED
        BY <2>1, <4>2, <4>3
    <3>8. Q[x] = SubSeq(Q[j], 1, m)
      BY <2>0, <2>4, <3>5, <3>6, <3>7, SamePath
    <3> QED
      BY <3>2, <3>8
  <2> QED
    <3>1. \A m \in 1..e : m <= b \/ m > b
      BY <2>1
    <3> QED
      BY <2>0, <2>2, <2>3, <2>4, <3>1
<1> QED
  BY <1>7, <1>8 DEF IsTree

Below(P, from) == {j \in Items : Leads(from, P[j])}

Rehang(P, S, from, to) ==
  [j \in Items |-> IF j \in S THEN to \o SubSeq(P[j], Len(from), Len(P[j])) ELSE P[j]]

\* A subtree moved below an item outside of it: the paths are a tree again.
LEMMA MovedTree ==
  ASSUME NEW P, IsTree(P), NEW i \in Items, NEW dest \in Items, NEW from, NEW to, from = P[i], to = P[dest],
         dest \notin Below(P, from)
  PROVE  IsTree(Rehang(P, Below(P, from), from, to))
<1>0. PICK S, Q : S = Below(P, from) /\ Q = Rehang(P, S, from, to)
  OBVIOUS
<1>8. /\ S = {j \in Items : Leads(from, P[j])} /\ dest \notin S
       /\ Q = [j \in Items |-> IF j \in S THEN to \o SubSeq(P[j], Len(from), Len(P[j])) ELSE P[j]]
  BY <1>0, Zenon DEF Below, Rehang
<1>1. from \in Path /\ to \in Path /\ \A j \in Items : P[j] \in Path
  BY DEF IsTree
<1>2. Branch(P, S, from)
  <2> SUFFICES ASSUME NEW j \in Items, NEW k \in 1..Len(P[j])
               PROVE  /\ P[j][k] \in S => j \in S
                      /\ j \in S /\ Len(from) <= k => P[j][k] \in S
    BY DEF Branch
  <2>1. PICK s, x : s = P[j] /\ x = P[j][k]
    OBVIOUS
  <2>2. /\ x \in Items /\ Len(P[x]) = k /\ \A l \in 1..k : P[x][l] = s[l]
        /\ Len(s) \in Nat \ {0} /\ Len(from) \in Nat \ {0} /\ k \in 1..Len(s)
    BY <1>1, <2>1, TreeFacts, PathFacts
  <2>3. Leads(from, P[x]) => Leads(from, s)
    BY <2>2 DEF Leads
  <2>4. Leads(from, s) /\ Len(from) <= k => Leads(from, P[x])
    BY <2>2 DEF Leads
  <2> QED
    BY <1>8, <2>1, <2>2, <2>3, <2>4
<1>3. ASSUME NEW j \in S
      PROVE  Rehung(from, to, P[j], Q[j])
  <2>1. PICK s : s = P[j]
    OBVIOUS
  <2>2. s \in Path /\ Leads(from, s) /\ Q[j] = to \o SubSeq(s, Len(from), Len(s))
    BY <1>8, <1>1, <2>1
  <2>3. Rehung(from, to, s, to \o SubSeq(s, Len(from), Len(s)))
    BY <1>1, <2>2, RebasedFacts, Zenon
  <2> QED
    BY <2>1, <2>2, <2>3, Zenon
<1>4. \A j \in Items \ S : Q[j] = P[j]
  BY <1>8
<1>5. S \in SUBSET Items /\ Q \in [Items -> Path]
  BY <1>8, <1>1, <1>3, <1>4 DEF Rehung
<1>6. Regrown(P, Q, S, from, to)
  BY <1>3, <1>4, Zenon DEF Regrown
<1>7. IsTree(Q)
  BY <1>8, <1>1, <1>2, <1>5, <1>6, RegrownTree, Zenon
<1> QED
  BY <1>0, <1>7, Zenon


Tree == IsTree([j \in Items |-> page[j].path])

PageTypes == \A i \in Items : page[i].type \in Kind[i] /\ page[i].effort \in Efforts \cup {"none"}

Entry(d) == d.at \in Items /\ d.path \in Paths /\ d.id \in 1..MaxHolds

\* What a plan made for a path may write, and what a move read.
PlanTypes(plan, path) ==
  /\ plan.op = "page" => /\ plan.after.path = plan.before.path
                         /\ plan.after.effort \in Efforts \cup {"none", plan.before.effort}
  /\ plan.op = "ledger" => \A d \in plan.after : Entry(d)
  /\ plan.op = "move" => /\ plan.item \in Items /\ plan.dest \in Items
                         /\ plan.item \in DOMAIN plan.before.pages
                         /\ plan.dest \notin DOMAIN plan.before.pages
                         /\ plan.before.pages[plan.item].path = path

ProcTypes(pr) ==
  /\ pr.tries \in 0..MaxOwnerAttempts
  /\ pr.pc # "idle" => pr.path \in Paths
  /\ pr.pc \in {"idle", "lock"} => pr.plan = NoPlan
  /\ pr.pc = "lock" /\ pr.ask.op = "hold" => pr.ask.id \in 1..MaxHolds
  /\ pr.pc \in {"bundle", "write"} => PlanTypes(pr.plan, pr.path)

TypeInv ==
  /\ Tree
  /\ PageTypes
  /\ \A d \in ledger : Entry(d)
  /\ \A p \in Procs : ProcTypes(proc[p])
  /\ filed \in 0..MaxHolds /\ events \in 0..MaxEvents


LEMMA Greatest ==
  ASSUME NEW n \in Nat, NEW A \in SUBSET (1..n), A # {}
  PROVE  \E k \in A : \A l \in A : l <= k
<1> DEFINE B == {n - k : k \in A}
<1>0. \A k \in A : k \in Nat /\ n - k \in Nat
  OBVIOUS
<1>1. B \subseteq Nat /\ B # {}
  BY <1>0
<1>2. PICK m \in B : \A l \in B : ~(<<l, m>> \in OpToRel(<, Nat))
  BY <1>1, NatLessThanWellFounded, WFMin
<1>3. \A l \in B : l < m => <<l, m>> \in OpToRel(<, Nat)
  BY <1>1 DEF OpToRel
<1>4. PICK k \in A : m = n - k
  BY <1>2
<1>5. \A l \in A : n - l \in B
  OBVIOUS
<1> HIDE DEF B
<1>6. ASSUME NEW l \in A PROVE l <= k
  <2>1. n - l \in B /\ ~(n - l < m)
    BY <1>2, <1>3, <1>5
  <2>2. l \in Nat /\ k \in Nat /\ n - l \in Nat /\ n - k \in Nat
    BY <1>0
  <2> QED
    BY <1>4, <2>1, <2>2
<1> QED
  BY <1>6

\* The owner of a path is on it: its ledger belongs to an item.
LEMMA OwnerIsPath ==
  ASSUME NEW path \in Path
  PROVE  Owner(path) \in Path
<1> DEFINE parents == {k \in 1..Len(path) : page[path[k]].type \in ParentTypes}
           last == CHOOSE k \in parents : \A l \in parents : l <= k
<1>1. Owner(path) = IF parents = {} THEN path ELSE SubSeq(path, 1, last)
  BY DEF Owner
<1>2. parents # {} => last \in 1..Len(path)
  <2> HAVE parents # {}
  <2>1. Len(path) \in Nat /\ parents \in SUBSET (1..Len(path))
    BY PathFacts
  <2> HIDE DEF parents
  <2>2. \E k \in parents : \A l \in parents : l <= k
    BY <2>1, Greatest
  <2> QED
    BY <2>1, <2>2
<1> HIDE DEF parents, last
<1> QED
  BY <1>1, <1>2, FirstOf

LEMMA PathsOfItems ==
  ASSUME Tree, NEW i \in Items
  PROVE  page[i].path \in Paths /\ page[i].path \in Path
<1>1. PICK P : P = [j \in Items |-> page[j].path]
  OBVIOUS
<1>2. IsTree(P) /\ P[i] = page[i].path
  BY <1>1 DEF Tree
<1> QED
  BY <1>2, TreePaths DEF IsTree

LEMMA IdleTypes == ProcTypes(Idle)
BY DEF ProcTypes, Idle, MaxOwnerAttempts

LEMMA InitTypes == Init => TypeInv
<1> SUFFICES ASSUME Init PROVE TypeInv
  OBVIOUS
<1>1. PICK P : P = [j \in Items |-> page[j].path]
  OBVIOUS
<1>2. \A j \in Items : P[j] = <<j>> /\ page[j].type \in Kind[j] /\ page[j].effort = "none"
  BY <1>1 DEF Init
<1>3. \A j \in Items : <<j>> \in Path /\ Len(<<j>>) = 1 /\ <<j>>[1] = j
  BY DEF Path
<1>4. ASSUME NEW j \in Items PROVE SubSeq(P[j], 1, 1) = P[j]
  <2>1. P[j] \in Path /\ Len(P[j]) = 1
    BY <1>2, <1>3, Zenon
  <2>2. PICK s : s = P[j]
    OBVIOUS
  <2>3. s \in Path /\ Len(s) = 1
    BY <2>1, <2>2, Zenon
  <2>4. 1 \in 1..1
    OBVIOUS
  <2>5. s = SubSeq(s, 1, 1)
    BY <2>3, <2>4, SamePath
  <2> QED
    BY <2>2, <2>5, Zenon
<1>5. IsTree(P)
  <2>1. P \in [Items -> Path]
    BY <1>1, <1>2, <1>3
  <2>2. \A j \in Items : Len(P[j]) = 1 /\ P[j][1] = j
    BY <1>2, <1>3
  <2>3. ASSUME NEW j \in Items, NEW k \in 1..Len(P[j]) PROVE P[P[j][k]] = SubSeq(P[j], 1, k)
    <3>0. Len(P[j]) = 1
      BY <2>2, Zenon
    <3>1. k = 1
      BY <2>3, <3>0
    <3> QED
      BY <1>4, <2>2, <3>1
  <2> QED
    BY <2>1, <2>2, <2>3 DEF IsTree
<1>6. \A p \in Procs : ProcTypes(proc[p])
  BY IdleTypes DEF Init
<1> QED
  BY <1>1, <1>2, <1>5, <1>6, BoundsAssumption DEF TypeInv, Tree, PageTypes, Init

\* One process changes what it runs, pages and ledgers stay.
LEMMA OneTyped ==
  ASSUME IInv, TypeInv, page' = page, ledger' = ledger, NEW p \in Procs, NEW new,
         proc' = [proc EXCEPT ![p] = new], ProcTypes(new),
         filed' \in 0..MaxHolds, events' \in 0..MaxEvents
  PROVE  TypeInv'
<1>1. \A q \in Procs : proc'[q] = IF q = p THEN new ELSE proc[q]
  BY DEF IInv, Shape
<1>2. \A q \in Procs : ProcTypes(proc'[q])
  BY <1>1 DEF TypeInv
<1> QED
  BY <1>2 DEF TypeInv, Tree, PageTypes

LEMMA BeginsTyped ==
  ASSUME IInv, TypeInv, NEW p \in Procs, NEW i \in Items,
         \/ BeginAdvance(p, i)
         \/ \E shape \in {"skip", "park"} : BeginHold(p, i, shape)
         \/ \E d \in ledger : BeginAnswer(p, i, d)
         \/ \E dest \in Items : BeginReparent(p, i, dest)
  PROVE  TypeInv'
<1>1. /\ page[i].path \in Paths
      /\ filed \in 0..MaxHolds /\ events \in 0..MaxEvents
  BY PathsOfItems DEF TypeInv
<1>2. ASSUME NEW ask, Ask(p, i, ask), ask.op = "hold" => ask.id \in 1..MaxHolds,
             page' = page, ledger' = ledger, filed' \in 0..MaxHolds, events' \in 0..MaxEvents
      PROVE  TypeInv'
  <2> DEFINE new == [Idle EXCEPT !.pc = "lock", !.path = page[i].path,
                                 !.cand = Owner(page[i].path), !.tries = 1, !.ask = ask]
  <2>1. proc' = [proc EXCEPT ![p] = new]
    BY <1>2 DEF Ask
  <2>2. new.pc = "lock" /\ new.path = page[i].path /\ new.tries = 1 /\ new.ask = ask /\ new.plan = NoPlan
    BY DEF Idle
  <2> HIDE DEF new
  <2>3. ProcTypes(new)
    BY <1>1, <1>2, <2>2 DEF ProcTypes, MaxOwnerAttempts
  <2> QED
    BY <1>2, <2>1, <2>3, OneTyped
<1>3. CASE BeginAdvance(p, i)
  BY <1>1, <1>2, <1>3 DEF BeginAdvance
<1>4. ASSUME NEW shape \in {"skip", "park"}, BeginHold(p, i, shape) PROVE TypeInv'
  <2>1. filed' \in 1..MaxHolds
    BY <1>1, <1>4, BoundsAssumption DEF BeginHold
  <2>2. PICK n : n = filed'
    OBVIOUS
  <2> DEFINE ask == [op |-> "hold", phase |-> page[i].phase, shape |-> shape, id |-> n]
  <2>3. /\ Ask(p, i, ask) /\ page' = page /\ ledger' = ledger
        /\ filed' \in 0..MaxHolds /\ events' \in 0..MaxEvents
    BY <1>1, <1>4, <2>1, <2>2 DEF BeginHold
  <2>4. ask.id \in 1..MaxHolds
    BY <2>1, <2>2
  <2> HIDE DEF ask
  <2> QED
    BY <1>2, <2>3, <2>4
<1>5. ASSUME NEW d \in ledger, BeginAnswer(p, i, d) PROVE TypeInv'
  BY <1>1, <1>2, <1>5 DEF BeginAnswer
<1>6. ASSUME NEW dest \in Items, BeginReparent(p, i, dest) PROVE TypeInv'
  <2>1. PICK seen : seen = Seen(i)
    OBVIOUS
  <2> DEFINE plan == [op |-> "move", item |-> i, before |-> seen, dest |-> dest, under |-> page[dest].path]
             new == [Idle EXCEPT !.pc = "bundle", !.path = page[i].path, !.plan = plan]
  <2>2. /\ proc' = [proc EXCEPT ![p] = new] /\ page' = page /\ ledger' = ledger
        /\ filed' \in 0..MaxHolds /\ events' \in 0..MaxEvents /\ dest \notin Subtree(i)
    BY <1>1, <1>6, <2>1 DEF BeginReparent
  <2>3. DOMAIN seen.pages = Subtree(i) /\ i \in Subtree(i) /\ seen.pages[i] = page[i]
    BY <2>1 DEF Seen, Subtree
  <2>4. PlanTypes(plan, page[i].path)
    BY <2>2, <2>3 DEF PlanTypes
  <2> HIDE DEF plan
  <2>5. new.pc = "bundle" /\ new.path = page[i].path /\ new.tries = 0 /\ new.plan = plan
    BY DEF Idle
  <2> HIDE DEF new
  <2>6. ProcTypes(new)
    BY <1>1, <2>4, <2>5 DEF ProcTypes, MaxOwnerAttempts
  <2> QED
    BY <2>2, <2>6, OneTyped
<1> QED
  BY <1>3, <1>4, <1>5, <1>6


LEMMA ArgsSized ==
  ASSUME NEW args \in UNION {ArgSet(i) : i \in Items}
  PROVE  args.effort \in Efforts \cup {"none"}
<1>1. PICK i \in Items : args \in ArgSet(i)
  OBVIOUS
<1>2. Sizes[i] \subseteq Efforts
  BY SizesAssumption
<1> QED
  BY <1>1, <1>2 DEF ArgSet, Bare, Full, Args

\* A plan made under the owner's lock writes what has its type.
LEMMA PlansAreTyped ==
  ASSUME NEW i \in Items, NEW owner \in Path, NEW path \in Paths, NEW ask, NEW args, NEW plan,
         Shape, \A d \in ledger : Entry(d), ask.op \in {"advance", "hold", "answer"},
         ask.op = "hold" => ask.id \in 1..MaxHolds, args.effort \in Efforts \cup {"none"},
         plan = PlanFor(i, owner, path, ask, args), plan # NoPlan
  PROVE  PlanTypes(plan, path)
<1>1. PICK at, before : at = owner[Len(owner)] /\ before = {d \in ledger : d.at = at}
  OBVIOUS
<1>2. at \in Items /\ \A d \in before : Entry(d)
  BY <1>1, PathFacts
<1>3. CASE ask.op = "advance"
  <2> DEFINE move == Pick(i, args, Route(i, Sized(i, args), InLedger(owner, path) # {}))
  <2>1. plan = [op |-> "page", item |-> i, before |-> page[i], after |-> Advanced(i, args, move)]
    BY <1>3, Zenon DEF PlanFor
  <2>2. IsPage(page[i])
    BY DEF Shape
  <2> HIDE DEF move
  <2>3. /\ Advanced(i, args, move).path = page[i].path
        /\ Advanced(i, args, move).effort = IF args.effort = "none" THEN page[i].effort ELSE args.effort
    BY <2>2 DEF Advanced, IsPage
  <2>4. PICK after : after = Advanced(i, args, move)
    OBVIOUS
  <2>5. plan.op = "page" /\ plan.before = page[i] /\ plan.after = after
    BY <2>1, <2>4
  <2>6. after.path = page[i].path /\ after.effort \in Efforts \cup {"none", page[i].effort}
    BY <2>3, <2>4
  <2> QED
    BY <2>5, <2>6 DEF PlanTypes
<1>4. CASE ask.op = "hold"
  <2> DEFINE d == [at |-> at, path |-> path, phase |-> ask.phase, shape |-> ask.shape, id |-> ask.id]
  <2>1. plan = [op |-> "ledger", item |-> at, before |-> before, after |-> before \cup {d}]
    BY <1>1, <1>4, Zenon DEF PlanFor
  <2>2. Entry(d)
    BY <1>2, <1>4 DEF Entry
  <2> HIDE DEF d
  <2> QED
    BY <1>2, <2>1, <2>2 DEF PlanTypes
<1>5. CASE ask.op = "answer"
  <2>1. plan = [op |-> "ledger", item |-> at, before |-> before, after |-> {d \in before : d.id # ask.id}]
    BY <1>1, <1>5, Zenon DEF PlanFor
  <2> QED
    BY <1>2, <2>1 DEF PlanTypes
<1> QED
  BY <1>3, <1>4, <1>5

LEMMA EnterTyped ==
  ASSUME IInv, TypeInv, NEW p \in Procs, NEW args \in UNION {ArgSet(i) : i \in Items}, Enter(p, args)
  PROVE  TypeInv'
<1>1. /\ proc[p].pc = "lock" /\ page' = page /\ ledger' = ledger /\ Shape /\ IsProc(proc[p])
      /\ ProcTypes(proc[p]) /\ \A d \in ledger : Entry(d)
      /\ filed' \in 0..MaxHolds
  BY DEF Enter, IInv, Shape, TypeInv
<1>2. events' \in 0..MaxEvents
  <2>1. events \in 0..MaxEvents
    BY DEF TypeInv
  <2>2. Disturb \/ UNCHANGED events
    BY DEF Enter
  <2> QED
    BY <2>1, <2>2, BoundsAssumption DEF Disturb
<1>3. CASE proc' = [proc EXCEPT ![p] = Idle]
  BY <1>1, <1>2, <1>3, IdleTypes, OneTyped
<1>4. ASSUME NEW owner, proc[p].tries < MaxOwnerAttempts,
             proc' = [proc EXCEPT ![p] = [proc[p] EXCEPT !.cand = owner, !.tries = proc[p].tries + 1]]
      PROVE  TypeInv'
  <2> DEFINE new == [proc[p] EXCEPT !.cand = owner, !.tries = proc[p].tries + 1]
  <2>1. /\ new.pc = proc[p].pc /\ new.path = proc[p].path /\ new.ask = proc[p].ask /\ new.plan = proc[p].plan
        /\ new.tries = proc[p].tries + 1
    BY <1>1 DEF IsProc
  <2> HIDE DEF new
  <2>2. ProcTypes(new)
    BY <1>1, <1>4, <2>1 DEF ProcTypes, MaxOwnerAttempts
  <2>3. proc' = [proc EXCEPT ![p] = new]
    BY <1>4 DEF new
  <2> QED
    BY <1>1, <1>2, <2>2, <2>3, OneTyped
<1>5. ASSUME NEW i \in At(proc[p].path), NEW plan, proc[p].cand = Owner(proc[p].path),
             plan = PlanFor(i, proc[p].cand, proc[p].path, proc[p].ask, args), plan # NoPlan,
             proc' = [proc EXCEPT ![p] =
                        [proc[p] EXCEPT !.pc = "bundle", !.ask = NoPlan, !.tries = 0, !.plan = plan]]
      PROVE  TypeInv'
  <2>1. PICK owner, path, ask : owner = proc[p].cand /\ path = proc[p].path /\ ask = proc[p].ask
    OBVIOUS
  <2>2. /\ i \in Items /\ path \in Path /\ path \in Paths /\ ask.op \in {"advance", "hold", "answer"}
        /\ ask.op = "hold" => ask.id \in 1..MaxHolds
    BY <1>1, <1>5, <2>1 DEF At, IsProc, ProcTypes
  <2>3. owner \in Path
    BY <1>5, <2>1, <2>2, OwnerIsPath
  <2>4. PlanTypes(plan, path)
    <3>1. plan = PlanFor(i, owner, path, ask, args) /\ plan # NoPlan
      BY <1>5, <2>1
    <3>2. args.effort \in Efforts \cup {"none"}
      BY ArgsSized
    <3> QED
      BY <1>1, <2>2, <2>3, <3>1, <3>2, PlansAreTyped
  <2> DEFINE new == [proc[p] EXCEPT !.pc = "bundle", !.ask = NoPlan, !.tries = 0, !.plan = plan]
  <2>5. new.pc = "bundle" /\ new.path = path /\ new.tries = 0 /\ new.plan = plan
    BY <1>1, <2>1 DEF IsProc
  <2> HIDE DEF new
  <2>6. ProcTypes(new)
    BY <2>2, <2>4, <2>5 DEF ProcTypes, MaxOwnerAttempts
  <2>7. proc' = [proc EXCEPT ![p] = new]
    BY <1>5 DEF new
  <2> QED
    BY <1>1, <1>2, <2>6, <2>7, OneTyped
<1>6. \/ proc' = [proc EXCEPT ![p] = Idle]
      \/ /\ proc[p].tries < MaxOwnerAttempts
         /\ \E owner : proc' = [proc EXCEPT ![p] = [proc[p] EXCEPT !.cand = owner, !.tries = proc[p].tries + 1]]
      \/ \E i \in At(proc[p].path) : \E plan :
           /\ proc[p].cand = Owner(proc[p].path)
           /\ plan = PlanFor(i, proc[p].cand, proc[p].path, proc[p].ask, args) /\ plan # NoPlan
           /\ proc' = [proc EXCEPT ![p] =
                         [proc[p] EXCEPT !.pc = "bundle", !.ask = NoPlan, !.tries = 0, !.plan = plan]]
  BY <1>1, EnterOutcomes
<1> QED
  BY <1>3, <1>4, <1>5, <1>6

LEMMA TakeBundleTyped ==
  ASSUME IInv, TypeInv, NEW p \in Procs, TakeBundle(p)
  PROVE  TypeInv'
<1> DEFINE new == [proc[p] EXCEPT !.pc = "write"]
<1>1. /\ Shape /\ IsProc(proc[p]) /\ ProcTypes(proc[p]) /\ proc[p].pc = "bundle"
      /\ page' = page /\ ledger' = ledger /\ filed' \in 0..MaxHolds /\ events' \in 0..MaxEvents
  BY DEF IInv, Shape, TakeBundle, TypeInv
<1>2. /\ new.pc = "write" /\ new.path = proc[p].path /\ new.plan = proc[p].plan /\ new.tries = proc[p].tries
  BY <1>1 DEF IsProc
<1>3. proc' = [proc EXCEPT ![p] = new]
  BY <1>1 DEF TakeBundle, Shape
<1> HIDE DEF new
<1>4. ProcTypes(new)
  BY <1>1, <1>2 DEF ProcTypes
<1> QED
  BY <1>1, <1>3, <1>4, OneTyped

LEMMA EditTyped ==
  ASSUME IInv, TypeInv, NEW i \in Items, EditStatus(i) \/ SiblingLands(i)
  PROVE  TypeInv'
<1>1. /\ proc' = proc /\ ledger' = ledger /\ filed' = filed /\ Disturb
      /\ page = [k \in Items |-> page[k]] /\ IsPage(page[i])
  BY DEF EditStatus, SiblingLands, IInv, Shape
<1>2. \A j \in Items : j # i => page'[j] = page[j]
  BY <1>1 DEF EditStatus, SiblingLands
<1>3. page'[i].path = page[i].path /\ page'[i].type = page[i].type /\ page'[i].effort = page[i].effort
  <2>1. CASE EditStatus(i)
    <3>1. page'[i] = [page[i] EXCEPT !.status = IF page[i].status = "wontfix" THEN "open" ELSE "wontfix"]
      BY <1>1, <2>1 DEF EditStatus
    <3> QED
      BY <1>1, <3>1 DEF IsPage
  <2>2. CASE SiblingLands(i)
    <3>1. page'[i] = [page[i] EXCEPT !.stale = TRUE]
      BY <1>1, <2>2 DEF SiblingLands
    <3> QED
      BY <1>1, <3>1 DEF IsPage
  <2> QED
    BY <2>1, <2>2
<1>4. [j \in Items |-> page'[j].path] = [j \in Items |-> page[j].path]
  BY <1>2, <1>3
<1>5. Tree'
  BY <1>4 DEF Tree, TypeInv
<1>6. PageTypes'
  BY <1>2, <1>3 DEF PageTypes, TypeInv
<1>7. events' \in 0..MaxEvents
  BY <1>1, BoundsAssumption DEF Disturb, TypeInv
<1> QED
  BY <1>1, <1>5, <1>6, <1>7 DEF TypeInv


\* A moved subtree: what the move read is what it writes over, so its root and its
\* destination are where the plan has them.
LEMMA MoveTyped ==
  ASSUME IInv, TypeInv, NEW p \in Procs, Write(p), Fresh(p), Valid(proc[p].plan), proc[p].plan.op = "move"
  PROVE  Tree'
<1>1. PICK plan, from, to, i, dest, P, S :
         /\ plan = proc[p].plan /\ from = proc[p].path /\ to = plan.under /\ i = plan.item /\ dest = plan.dest
         /\ P = [j \in Items |-> page[j].path] /\ S = {j \in Items : Leads(from, P[j])}
  OBVIOUS
<1>2. /\ i \in Items /\ dest \in Items /\ i \in DOMAIN plan.before.pages /\ dest \notin DOMAIN plan.before.pages
      /\ plan.before.pages[i].path = from
  BY <1>1 DEF TypeInv, ProcTypes, PlanTypes, Write
<1>3. Seen(i) = plan.before /\ page[dest].path = to
  BY <1>1 DEF Fresh
<1>4. DOMAIN Seen(i).pages = Subtree(i) /\ i \in Subtree(i) /\ Seen(i).pages[i] = page[i]
  BY DEF Seen, Subtree
<1>5. page[i].path = from /\ dest \notin Subtree(i)
  BY <1>2, <1>3, <1>4
<1>6. IsTree(P) /\ P[i] = from /\ P[dest] = to /\ \A j \in Items : P[j] = page[j].path
  BY <1>1, <1>2, <1>3, <1>5 DEF Tree, TypeInv
<1>7. \A j \in Items : j \in Subtree(i) <=> j \in S
  <2> TAKE j \in Items
  <2>1. P[j] \in Path /\ from \in Path
    BY <1>2, <1>6 DEF IsTree
  <2>2. P[j] = from => j = i
    BY <1>2, <1>6 DEF IsTree
  <2>3. j \in Subtree(i) <=> j = i \/ Under(from, P[j])
    BY <1>5, <1>6 DEF Subtree, Children
  <2>4. Under(from, P[j]) \/ from = P[j] <=> Leads(from, P[j])
    BY <2>1, UnderLeads
  <2> QED
    BY <1>1, <1>6, <2>2, <2>3, <2>4
<1>12. PICK Q : Q = Rehang(P, Below(P, from), from, to)
  OBVIOUS
<1>8. Q = [j \in Items |-> IF j \in S THEN to \o SubSeq(P[j], Len(from), Len(P[j])) ELSE P[j]]
  BY <1>1, <1>12, Zenon DEF Rehang, Below
<1>9. IsTree(Q)
  <2>1. dest \notin Below(P, from)
    BY <1>1, <1>2, <1>5, <1>7 DEF Below
  <2> QED
    BY <1>2, <1>6, <1>12, <2>1, MovedTree
<1>10. ASSUME NEW j \in Items PROVE page'[j].path = Q[j]
  <2>1. page'[j] = IF j \in Subtree(i) THEN [page[j] EXCEPT !.path = Rebased(j, from, to)] ELSE page[j]
    BY <1>1 DEF Write
  <2>2. IsPage(page[j])
    BY DEF IInv, Shape
  <2>3. CASE j \in S
    <3>1. PICK new : new = Rebased(j, from, to)
      OBVIOUS
    <3>2. page'[j] = [page[j] EXCEPT !.path = new]
      BY <1>7, <2>1, <2>3, <3>1
    <3>3. page'[j].path = new
      BY <2>2, <3>2 DEF IsPage
    <3>4. new = to \o SubSeq(P[j], Len(from), Len(P[j]))
      BY <1>6, <3>1, Zenon DEF Rebased
    <3> QED
      BY <1>8, <2>3, <3>3, <3>4, Zenon
  <2>4. CASE j \notin S
    BY <1>6, <1>7, <1>8, <2>1, <2>4
  <2> QED
    BY <2>3, <2>4
<1>11. Q = [j \in Items |-> page'[j].path]
  <2>1. Q = [j \in Items |-> Q[j]]
    BY <1>8
  <2> QED
    BY <1>10, <2>1, Zenon
<1> QED
  BY <1>9, <1>11, Zenon DEF Tree

LEMMA WriteTyped ==
  ASSUME IInv, TypeInv, NEW p \in Procs, Write(p)
  PROVE  TypeInv'
<1> DEFINE plan == proc[p].plan
           ok == Fresh(p) /\ Valid(plan)
<1>1. /\ page = [j \in Items |-> page[j]] /\ \A j \in Items : IsPage(page[j])
      /\ proc[p].pc = "write" /\ Working(p) /\ Planned(p) /\ PlanTypes(plan, proc[p].path)
      /\ filed' \in 0..MaxHolds /\ events' \in 0..MaxEvents
  BY DEF IInv, Shape, Write, TypeInv, ProcTypes, Working
<1>2. \A q \in Procs : ProcTypes(proc'[q])
  <2>1. \A q \in Procs : proc'[q] = IF q = p THEN Idle ELSE proc[q]
    BY DEF Write, IInv, Shape
  <2> QED
    BY <2>1, IdleTypes DEF TypeInv
<1>3. \A d \in ledger' : Entry(d)
  <2>1. ledger' = ledger \/ (plan.op = "ledger" /\ ledger' = (ledger \ plan.before) \cup plan.after)
    BY DEF Write
  <2> QED
    BY <1>1, <2>1 DEF TypeInv, PlanTypes
<1>4. Tree' /\ PageTypes'
  <2>1. CASE ok /\ plan.op = "page"
    <3>1. page' = [page EXCEPT ![plan.item] = plan.after]
      BY <2>1 DEF Write
    <3>2. page[plan.item] = plan.before
      BY <2>1 DEF Fresh
    <3>3. /\ plan.after.path = plan.before.path /\ plan.after.type = plan.before.type
          /\ plan.after.effort \in Efforts \cup {"none", plan.before.effort}
      BY <1>1, <2>1 DEF PlanTypes, Planned
    <3>4. \A j \in Items : /\ page'[j].path = page[j].path /\ page'[j].type = page[j].type
                           /\ page'[j].effort \in Efforts \cup {"none", page[j].effort}
      BY <1>1, <3>1, <3>2, <3>3
    <3>5. [j \in Items |-> page'[j].path] = [j \in Items |-> page[j].path]
      BY <3>4
    <3> QED
      BY <3>4, <3>5 DEF Tree, PageTypes, TypeInv
  <2>2. CASE ok /\ plan.op = "move"
    <3>1. page' = [j \in Items |-> IF j \in Subtree(plan.item)
                                   THEN [page[j] EXCEPT !.path = Rebased(j, proc[p].path, plan.under)]
                                   ELSE page[j]]
      BY <2>2 DEF Write
    <3>2. \A j \in Items : page'[j].type = page[j].type /\ page'[j].effort = page[j].effort
      BY <1>1, <3>1 DEF IsPage
    <3> QED
      BY <2>2, <3>2, MoveTyped DEF PageTypes, TypeInv
  <2>3. CASE ~(ok /\ plan.op = "page") /\ ~(ok /\ plan.op = "move")
    <3>1. page' = page
      BY <2>3 DEF Write
    <3> QED
      BY <3>1 DEF Tree, PageTypes, TypeInv
  <2> QED
    BY <2>1, <2>2, <2>3
<1> QED
  BY <1>1, <1>2, <1>3, <1>4 DEF TypeInv

\* In every state: the pages lie in a tree whatever subtrees were moved while other
\* commands were between their reads and their writes, the ledgers' entries are of
\* items, and a process has a plan exactly while it waits for the bundle lock or has it.
THEOREM TypeCorrect == Spec => []TypeOK
<1>1. IInv /\ TypeInv /\ [Next]_vars => TypeInv'
  <2> SUFFICES ASSUME IInv, TypeInv, [Next]_vars PROVE TypeInv'
    OBVIOUS
  <2>1. CASE UNCHANGED vars
    BY <2>1 DEF TypeInv, Tree, PageTypes, vars
  <2> QED
    BY <2>1, BeginsTyped, EnterTyped, TakeBundleTyped, WriteTyped, EditTyped DEF Next
<1>2. IInv /\ GoodInv /\ TypeInv => TypeOK
  <2> SUFFICES ASSUME IInv, GoodInv, TypeInv PROVE TypeOK
    OBVIOUS
  <2>1. ASSUME NEW i \in Items
        PROVE  /\ page[i].path \in Paths /\ page[i].path[Len(page[i].path)] = i
               /\ \A k \in 1..Len(page[i].path) : page[page[i].path[k]].path = SubSeq(page[i].path, 1, k)
    <3>1. PICK P : P = [j \in Items |-> page[j].path]
      OBVIOUS
    <3>2. IsTree(P) /\ \A j \in Items : P[j] = page[j].path
      BY <3>1 DEF TypeInv, Tree
    <3>3. \A k \in 1..Len(P[i]) : P[i][k] \in Items
      BY <3>2, PathFacts DEF IsTree
    <3> QED
      BY <3>2, <3>3, TreePaths DEF IsTree
  <2>2. ASSUME NEW i \in Items
        PROVE  page[i].phase \in Phases \cup {"none"} /\ page[i].status \in Statuses
    <3>1. StageNames \subseteq {Stages[k] : k \in 1..4}
      <4>1. Stages[1] = "design" /\ Stages[2] = "plan" /\ Stages[3] = "execute" /\ Stages[4] = "finish"
        BY DEF Stages
      <4>2. 1 \in 1..4 /\ 2 \in 1..4 /\ 3 \in 1..4 /\ 4 \in 1..4
        OBVIOUS
      <4> QED
        BY <4>1, <4>2, Zenon DEF StageNames
    <3>2. Admits(page[i].phase, page[i].status)
      BY DEF GoodInv, Good
    <3> QED
      BY <3>1, <3>2 DEF Admits, Phases
  <2>3. ASSUME NEW p \in Procs
        PROVE  /\ proc[p].pc \in {"idle", "lock", "bundle", "write"}
               /\ proc[p].tries \in 0..MaxOwnerAttempts
               /\ proc[p].pc \in {"bundle", "write"} <=> proc[p].plan # NoPlan
    <3>1. IsProc(proc[p]) /\ ProcTypes(proc[p]) /\ Planned(p)
      BY DEF IInv, Shape, TypeInv
    <3>2. proc[p].pc \in {"idle", "lock", "bundle", "write"}
      BY <3>1 DEF IsProc
    <3>3. Working(p) => proc[p].plan.op # "none"
      BY <3>1 DEF Planned
    <3>4. NoPlan.op = "none"
      BY DEF NoPlan
    <3> QED
      BY <3>1, <3>2, <3>3, <3>4 DEF ProcTypes, Working
  <2> QED
    BY <2>1, <2>2, <2>3 DEF TypeOK, TypeInv, PageTypes, Entry
<1> QED
  BY Inductive, GoodAlways, InitTypes, <1>1, <1>2, PTL DEF Spec

=============================================================================

----------------------------- MODULE WorkStages -----------------------------
(***************************************************************************)
(* The stages of a work item: the routing table (work_tracker_okf pipeline *)
(* and workflow), the one mutation point of phase and status (advance,     *)
(* gw_orchestrate.stage_advance), the holds an open decision puts on an    *)
(* item (decisions, holds), reparenting, and the two locks these commands  *)
(* take: the decision owner's lock (gw_pipeline.decision_owner) and the    *)
(* bundle lock under which apply_mutation compares and writes.             *)
(*                                                                         *)
(* A page lives at a path, the sequence of the items from its root to      *)
(* itself; commands name paths, ledgers lie in the directory of the item   *)
(* that owns them and move with it.                                        *)
(***************************************************************************)
EXTENDS Naturals, Sequences, FiniteSets

CONSTANTS
  Items,       \* the work items
  Kind,        \* Kind[i]: the types item i may have
  Sizes,       \* Sizes[i]: the efforts callers give item i
  HasCode,     \* the items whose `affects` name code (has_branch)
  Procs,       \* processes that run gw commands
  MaxHolds,    \* bound on the holds filed
  MaxEvents    \* bound on returns, edits and stale specs together

VARIABLES
  page,        \* [Items -> frontmatter and place of its page]
  ledger,      \* the open entries of every decisions ledger
  proc,        \* [Procs -> the command a process runs]
  filed,       \* the holds commands were asked to file so far
  events       \* the returns, edits and stale specs so far

vars == <<page, ledger, proc, filed, events>>

ParentTypes == {"Release", "Epic", "Feature"}
Decomposing == {"Release", "Epic"}
BugLike == {"Bug", "TechDebt", "TestGap"}
Types == ParentTypes \cup BugLike \cup {"Spike"}
Terminal == {"resolved", "wontfix", "superseded"}
Statuses == Terminal \cup {"open", "accepted", "in-progress", "mitigated"}
Stages == <<"design", "plan", "execute", "finish">>
Phases == {Stages[k] : k \in 1..4} \cup {"done"}
Efforts == {"small", "large"}      \* the sizes the packaged rules tell apart

ASSUME KindAssumption == Kind \in [Items -> SUBSET Types]
ASSUME SizesAssumption == Sizes \in [Items -> (SUBSET Efforts) \ {{}}]
ASSUME BoundsAssumption == IsFiniteSet(Items) /\ MaxHolds \in Nat /\ MaxEvents \in Nat

-----------------------------------------------------------------------------
(* Places.                                                                 *)

\* Where an item is: its path is a prefix of its descendants' paths.
Under(path, q) == Len(path) < Len(q) /\ SubSeq(q, 1, Len(path)) = path

At(path) == {i \in Items : page[i].path = path}

\* decision_owner: the nearest Release, Epic or Feature of a path, or the
\* item itself.
Owner(path) ==
  LET parents == {k \in 1..Len(path) : page[path[k]].type \in ParentTypes}
  IN  IF parents = {} THEN path
      ELSE SubSeq(path, 1, CHOOSE k \in parents : \A l \in parents : l <= k)

\* active_nonterminal_descendants and child_rollup.
Children(i) == {j \in Items : Under(page[i].path, page[j].path)}
Open(i) == {j \in Children(i) : page[j].status \notin Terminal}

\* hold_in: the open entries of the owner's ledger that name this path.
InLedger(owner, path) == {d \in ledger : d.at = owner[Len(owner)] /\ d.path = path}
Held(path) == InLedger(Owner(path), path) # {}

-----------------------------------------------------------------------------
(* The routing table.                                                      *)

\* resolve_path over the packaged rules, the last matching rule first.
StagesOf(type, effort) ==
  CASE type = "TestGap" /\ effort = "small" -> <<"execute", "finish">>
    [] type = "TestGap" /\ effort # "small" -> <<"plan", "execute", "finish">>
    [] type \in BugLike \ {"TestGap"} /\ effort = "small" -> <<"design", "execute", "finish">>
    [] OTHER -> Stages

\* One candidate path for each size the item may yet get.
Candidates(type, effort) ==
  {StagesOf(type, e) : e \in IF effort = "none" THEN Efforts ELSE {effort}}

Rank(phase) == IF phase = "done" THEN 5 ELSE CHOOSE k \in 1..4 : Stages[k] = phase

\* _locate: the stage to run now, and whether the phase was off the path.
Locate(stages, phase) ==
  LET on == {k \in 1..Len(stages) : stages[k] = phase}
      later == {k \in 1..Len(stages) : Rank(stages[k]) > Rank(phase)}
  IN  IF phase = "none" THEN [stage |-> stages[1], off |-> FALSE]
      ELSE IF on # {} THEN [stage |-> phase, off |-> FALSE]
      ELSE [stage |-> stages[CHOOSE k \in later : \A l \in later : k <= l], off |-> TRUE]

\* _after: the next phase of the path.
After(stages, stage) ==
  LET k == CHOOSE n \in 1..Len(stages) : stages[n] = stage
  IN  IF k < Len(stages) THEN stages[k + 1] ELSE "done"

\* A transition: "keep" leaves a field alone.
Move(phase, status, requires) == [phase |-> phase, status |-> status, requires |-> requires]
NoMove == Move("keep", "keep", {"never"})

\* A route: the blocker, and the transitions offered.
Blocked(kind) ==
  [blocker |-> kind, dispatch |-> NoMove, complete |-> NoMove, return |-> NoMove, repair |-> NoMove]
ReturnToExecute == Move("execute", "in-progress", {})

\* Mutant: execute is entered again although it is in progress.
OnDispatchAgain(i, stage) ==
  IF page[i].phase = "none" THEN Move(stage, "keep", {})
  ELSE IF stage = "execute" THEN Move("keep", "in-progress", {"owner"})
  ELSE NoMove

\* _on_dispatch: entering sets the phase; execute starts as in-progress.
OnDispatch(i, stage) ==
  LET enters == stage = "execute" /\ page[i].status # "in-progress"
      status == IF enters THEN "in-progress" ELSE "keep"
      requires == IF enters THEN {"owner"} ELSE {}
  IN  IF page[i].phase = "none" THEN Move(stage, status, requires)
      ELSE IF enters THEN Move("keep", status, requires)
      ELSE NoMove

\* The status a completed stage leaves: a path that skips plan enters execute
\* as accepted too.
Completed(stage, next) ==
  CASE stage = "plan" -> "accepted"
    [] stage = "finish" -> "resolved"
    [] stage = "design" /\ next = "execute" -> "accepted"
    [] OTHER -> "keep"

\* What completing a stage needs.
Requires(i, stage, effort, forked) ==
  (IF stage = "finish" THEN {"resolved_in"} ELSE {})
    \cup (IF effort = "none" /\ (stage = "design" \/ forked) THEN {"effort"} ELSE {})
    \cup (IF stage \in {"execute", "finish"} /\ page[i].type \in ParentTypes \ Decomposing
               /\ Open(i) # {}
          THEN {"children-terminal"} ELSE {})

\* Mutant: a stale spec sends the plan back, and records it as accepted.
OnCompleteStale(i, stage, effort, nexts) ==
  IF stage = "plan" /\ page[i].stale
  THEN Move("plan", "accepted", {})
  ELSE LET next == IF Cardinality(nexts) = 1 THEN CHOOSE n \in nexts : TRUE ELSE "keep"
       IN  Move(next, Completed(stage, next), Requires(i, stage, effort, Cardinality(nexts) > 1))

\* The completion the row offers; a stale spec keeps a planned item at plan.
OnComplete(i, stage, effort, nexts) ==
  IF stage = "plan" /\ page[i].phase # "none" /\ page[i].stale
  THEN Move("plan", "keep", {})
  ELSE LET next == IF Cardinality(nexts) = 1 THEN CHOOSE n \in nexts : TRUE ELSE "keep"
       IN  Move(next, Completed(stage, next), Requires(i, stage, effort, Cardinality(nexts) > 1))

\* _emit: the transitions of the row, behind its child gate.
Emit(i, stage, effort, nexts) ==
  LET parent == page[i].type \in Decomposing
      return == IF stage = "finish" THEN ReturnToExecute ELSE NoMove
      done == [Blocked("none") EXCEPT !.return = return]
  IN  IF parent /\ stage = "execute" /\ Children(i) = {} THEN Blocked("no-children")
      ELSE IF parent /\ stage = "execute" /\ Open(i) # {} THEN Blocked("waiting-on-children")
      ELSE IF parent /\ stage = "execute"
           THEN [done EXCEPT !.complete = Move(CHOOSE n \in nexts : TRUE, "keep", {})]
      ELSE IF parent /\ stage = "finish" /\ Open(i) # {}
           THEN [done EXCEPT !.blocker = "waiting-on-children", !.repair = return]
      ELSE IF parent /\ stage = "finish" /\ i \notin HasCode
           THEN [done EXCEPT !.complete = Move("done", "resolved", {})]
      ELSE [done EXCEPT !.dispatch = OnDispatch(i, stage),
                        !.complete = OnComplete(i, stage, effort, nexts)]

\* route: the gates in their order.
Route(i, effort, held) ==
  LET candidates == Candidates(page[i].type, effort)
      located == {Locate(s, page[i].phase) : s \in candidates}
      here == CHOOSE l \in located : TRUE
  IN  IF page[i].phase = "done" THEN Blocked("done")
      ELSE IF page[i].status \in Terminal \cup {"mitigated"} THEN Blocked("terminal")
      ELSE IF held THEN Blocked("hold")
      ELSE IF page[i].phase = "none" /\ page[i].status # "open" THEN Blocked("invalid-entry")
      ELSE IF Cardinality(located) > 1 THEN Blocked("effort-required")
      ELSE IF here.off
           THEN [Blocked("phase-off-path") EXCEPT !.repair = Move(here.stage, "keep", {})]
      ELSE Emit(i, here.stage, effort, {After(s, here.stage) : s \in candidates})

-----------------------------------------------------------------------------
(* advance: which transition a command gets.                               *)

\* The arguments of gw work advance. `given`: owner and resolved_in are given,
\* or on the page already; `proven`: what the gates one band up observe
\* (artifacts, commits, receipts, finish evidence) lets a completion pass.
Args(effort, given, proven, return) ==
  [effort |-> effort, given |-> given, proven |-> proven, return |-> return]
Bare == Args("none", FALSE, FALSE, FALSE)
Full(effort) == Args(effort, TRUE, TRUE, FALSE)
ArgSet(i) == {Bare, Args("none", FALSE, TRUE, TRUE)} \cup {Full(e) : e \in Sizes[i]}

Sized(i, args) == IF args.effort = "none" THEN page[i].effort ELSE args.effort

Pick(i, args, route) ==
  IF route.blocker = "phase-off-path" /\ ~args.return THEN route.repair
  ELSE IF route.blocker # "none" THEN NoMove
  ELSE IF args.return THEN route.return
  ELSE IF route.dispatch # NoMove THEN route.dispatch
  ELSE route.complete

Meets(i, args, route, move) ==
  /\ move.requires \cap {"never", "effort"} = {}
  /\ (page[i].type \in ParentTypes /\ move.status = "resolved") \/ "children-terminal" \in move.requires
        => Open(i) = {}
  /\ move.requires \cap {"owner", "resolved_in"} # {} => args.given
  /\ move \in {route.complete, route.return} \ {route.dispatch, route.repair} => args.proven

Advanced(i, args, move) ==
  [page[i] EXCEPT
     !.phase = IF move.phase = "keep" THEN @ ELSE move.phase,
     !.status = IF move.status = "keep" THEN @ ELSE move.status,
     !.effort = IF args.effort = "none" THEN @ ELSE args.effort,
     !.stale = @ /\ move.phase # "plan"]

-----------------------------------------------------------------------------
(* Commands.  A process reads, takes the owner's lock, reads again and     *)
(* plans, takes the bundle lock, and writes if nothing it read has changed.*)

NoPlan == [op |-> "none"]
Idle == [pc |-> "idle", path |-> <<>>, cand |-> <<>>, tries |-> 0, ask |-> NoPlan, plan |-> NoPlan]
MaxOwnerAttempts == 3

\* Mutant: a command that waits for an owner's lock counts as one that has it.
LockedByWaiters(owner) == \E q \in Procs : proc[q].pc # "idle" /\ proc[q].cand = owner

Locked(owner) == \E q \in Procs : proc[q].pc \in {"bundle", "write"} /\ proc[q].cand = owner
BundleHeld == \E q \in Procs : proc[q].pc = "write"

\* Every page is an open root that has not entered the pipeline.
Init ==
  /\ page \in [Items -> [path : {<<i>> : i \in Items}, type : Types, phase : {"none"},
                         status : {"open"}, effort : {"none"}, stale : {FALSE}]]
  /\ \A i \in Items : page[i].path = <<i>> /\ page[i].type \in Kind[i]
  /\ ledger = {}
  /\ proc = [p \in Procs |-> Idle]
  /\ filed = 0
  /\ events = 0

Disturb == events < MaxEvents /\ events' = events + 1

\* locked_decision_owner reads the owner before it takes its lock.
Ask(p, i, ask) ==
  /\ proc[p].pc = "idle"
  /\ proc' = [proc EXCEPT ![p] = [Idle EXCEPT !.pc = "lock", !.path = page[i].path,
                                              !.cand = Owner(page[i].path), !.tries = 1, !.ask = ask]]

\* run_stage_advance.
BeginAdvance(p, i) ==
  /\ Ask(p, i, [op |-> "advance"])
  /\ UNCHANGED <<page, ledger, filed, events>>

\* run_decision_add --hold, with the phase its caller has seen.
BeginHold(p, i, shape) ==
  /\ filed < MaxHolds
  /\ filed' = filed + 1
  /\ Ask(p, i, [op |-> "hold", phase |-> page[i].phase, shape |-> shape, id |-> filed'])
  /\ UNCHANGED <<page, ledger, events>>

\* run_decision_answer, of an entry its caller has seen.
BeginAnswer(p, i, d) ==
  /\ d \in ledger
  /\ Ask(p, i, [op |-> "answer", id |-> d.id])
  /\ UNCHANGED <<page, ledger, filed, events>>

\* What a command decides on what it reads under the owner's lock; NoPlan
\* refuses.
PlanFor(i, owner, path, ask, args) ==
  LET at == owner[Len(owner)]
      before == {d \in ledger : d.at = at}
  IN  CASE ask.op = "advance" ->
             LET route == Route(i, Sized(i, args), InLedger(owner, path) # {})
                 move == Pick(i, args, route)
             IN  IF ~Meets(i, args, route, move) THEN NoPlan
                 ELSE [op |-> "page", item |-> i, before |-> page[i],
                       after |-> Advanced(i, args, move)]
        [] ask.op = "hold" ->
             IF \/ page[i].status \in Terminal \/ page[i].phase = "done"
                \/ page[i].phase # ask.phase
                \/ ask.shape = "park" /\ page[i].phase = "none"
             THEN NoPlan
             ELSE [op |-> "ledger", item |-> at, before |-> before,
                   after |-> before \cup {[at |-> at, path |-> path, phase |-> ask.phase,
                                           shape |-> ask.shape, id |-> ask.id]}]
        [] ask.op = "answer" ->
             IF \A d \in before : d.id # ask.id THEN NoPlan
             ELSE [op |-> "ledger", item |-> at, before |-> before,
                   after |-> {d \in before : d.id # ask.id}]

\* Mutant: the owner's lock is not taken, only its ledger is read.
EnterUnlocked(p, args) ==
  /\ proc[p].pc = "lock"
  /\ At(proc[p].path) # {}
  /\ LET plan == PlanFor(CHOOSE i \in At(proc[p].path) : TRUE, proc[p].cand, proc[p].path, proc[p].ask, args)
     IN  proc' = [proc EXCEPT ![p] = IF plan = NoPlan THEN Idle
                                     ELSE [@ EXCEPT !.pc = "bundle", !.ask = NoPlan, !.tries = 0, !.plan = plan]]
  /\ UNCHANGED <<page, ledger, filed, events>>

\* The owner's lock is free: take it, resolve the owner again, and plan. A
\* path that is gone raises; an owner that changed is tried again, at most
\* MaxOwnerAttempts times.
Enter(p, args) ==
  /\ proc[p].pc = "lock"
  /\ args # Bare => proc[p].ask.op = "advance" /\ \A i \in At(proc[p].path) : args \in ArgSet(i)
  /\ ~Locked(proc[p].cand)
  /\ LET path == proc[p].path
         owner == Owner(path)
         plan == PlanFor(CHOOSE i \in At(path) : TRUE, owner, path, proc[p].ask, args)
         again == [proc[p] EXCEPT !.cand = owner, !.tries = proc[p].tries + 1]
         next == [proc[p] EXCEPT !.pc = "bundle", !.ask = NoPlan, !.tries = 0, !.plan = plan]
     IN  proc' = [proc EXCEPT ![p] =
           IF At(path) = {} THEN Idle
           ELSE IF owner # proc[p].cand
                THEN IF proc[p].tries < MaxOwnerAttempts THEN again ELSE Idle
           ELSE IF plan = NoPlan THEN Idle ELSE next]
  /\ IF args.return THEN Disturb ELSE UNCHANGED events
  /\ UNCHANGED <<page, ledger, filed>>

\* The items of a subtree, and what a move of it reads.
Subtree(i) == {i} \cup Children(i)
Seen(i) ==
  [pages |-> [j \in Subtree(i) |-> page[j]], entries |-> {d \in ledger : d.at \in Subtree(i)}]

\* run_reparent plans without a lock.
BeginReparent(p, i, dest) ==
  /\ proc[p].pc = "idle"
  /\ page[dest].type \in ParentTypes
  /\ page[dest].status \notin Terminal
  /\ dest \notin Subtree(i)
  /\ \A j \in Subtree(i) : page[j].type # "Release"
  /\ page[i].path # Append(page[dest].path, i)
  /\ proc' = [proc EXCEPT ![p] =
       [Idle EXCEPT !.pc = "bundle", !.path = page[i].path,
                    !.plan = [op |-> "move", item |-> i, before |-> Seen(i),
                              dest |-> dest, under |-> page[dest].path]]]
  /\ UNCHANGED <<page, ledger, filed, events>>

\* apply_mutation waits for the bundle lock.
TakeBundle(p) ==
  /\ proc[p].pc = "bundle"
  /\ ~BundleHeld
  /\ proc' = [proc EXCEPT ![p].pc = "write"]
  /\ UNCHANGED <<page, ledger, filed, events>>

\* The preflight: every preimage is what the plan read.
Fresh(p) ==
  LET plan == proc[p].plan
  IN  CASE plan.op = "page" -> page[plan.item] = plan.before
        [] plan.op = "ledger" -> /\ page[plan.item].path = proc[p].cand
                                 /\ {d \in ledger : d.at = plan.item} = plan.before
        [] plan.op = "move" -> Seen(plan.item) = plan.before /\ page[plan.dest].path = plan.under

\* The postconditions: an item enters finish with no open decision in its
\* ledger, and a park's checkpoint lies where its entry says.
Valid(plan) ==
  CASE plan.op = "page" ->
         plan.after.phase = "finish" /\ plan.before.phase # "finish"
           => \A d \in ledger : d.at # plan.item
    [] plan.op = "ledger" -> TRUE
    [] plan.op = "move" -> \A d \in plan.before.entries : d.shape # "park"

\* Mutant: the moved root loses its own name.
RebasedShort(i, from, to) == to \o SubSeq(page[i].path, Len(from) + 1, Len(page[i].path))

\* _subtree_mapping: the new path of an item below a moved root.
Rebased(i, from, to) == to \o SubSeq(page[i].path, Len(from), Len(page[i].path))

\* apply_mutation under the bundle lock: all of the plan, or none of it; then
\* both locks are released.
Write(p) ==
  /\ proc[p].pc = "write"
  /\ LET plan == proc[p].plan
         ok == Fresh(p) /\ Valid(plan)
         from == proc[p].path
     IN  /\ page' = IF ok /\ plan.op = "page" THEN [page EXCEPT ![plan.item] = plan.after]
                    ELSE IF ok /\ plan.op = "move"
                    THEN [j \in Items |-> IF j \in Subtree(plan.item)
                                          THEN [page[j] EXCEPT !.path = Rebased(j, from, plan.under)]
                                          ELSE page[j]]
                    ELSE page
         /\ ledger' = IF ok /\ plan.op = "ledger"
                      THEN (ledger \ plan.before) \cup plan.after ELSE ledger
  /\ proc' = [proc EXCEPT ![p] = Idle]
  /\ UNCHANGED <<filed, events>>

\* A person edits work_status: closes an item, or reopens one.
EditStatus(i) ==
  /\ Disturb
  /\ page[i].phase # "done"
  /\ page' = [page EXCEPT ![i].status = IF @ = "wontfix" THEN "open" ELSE "wontfix"]
  /\ UNCHANGED <<ledger, proc, filed>>

\* A sibling lands whose affects overlap: the spec of a planned item is stale.
SiblingLands(i) ==
  /\ Disturb
  /\ page[i].phase = "plan" /\ ~page[i].stale
  /\ page' = [page EXCEPT ![i].stale = TRUE]
  /\ UNCHANGED <<ledger, proc, filed>>

Next ==
  \/ \E p \in Procs, i \in Items :
       \/ BeginAdvance(p, i)
       \/ \E shape \in {"skip", "park"} : BeginHold(p, i, shape)
       \/ \E d \in ledger : BeginAnswer(p, i, d)
       \/ \E dest \in Items : BeginReparent(p, i, dest)
  \/ \E p \in Procs : (\E args \in UNION {ArgSet(i) : i \in Items} : Enter(p, args)) \/ TakeBundle(p) \/ Write(p)
  \/ \E i \in Items : EditStatus(i) \/ SiblingLands(i)

Spec == Init /\ [][Next]_vars

-----------------------------------------------------------------------------
(* Properties.                                                             *)

Paths == {s \in UNION {[1..n -> Items] : n \in 1..Cardinality(Items)} :
            \A k, l \in DOMAIN s : s[k] = s[l] => k = l}

\* The shape of the state: pages at paths that end in their own item below
\* the path of their parent, ledger entries at items, and a command in a lock
\* or at work that has what it needs there.
TypeOK ==
  /\ \A i \in Items :
       /\ page[i].path \in Paths /\ page[i].path[Len(page[i].path)] = i
       /\ page[i].type \in Kind[i] /\ page[i].phase \in Phases \cup {"none"}
       /\ page[i].status \in Statuses /\ page[i].effort \in Efforts \cup {"none"}
       /\ \A k \in 1..Len(page[i].path) : page[page[i].path[k]].path = SubSeq(page[i].path, 1, k)
  /\ \A d \in ledger : d.at \in Items /\ d.path \in Paths /\ d.id \in 1..MaxHolds
  /\ \A p \in Procs :
       /\ proc[p].pc \in {"idle", "lock", "bundle", "write"}
       /\ proc[p].tries \in 0..MaxOwnerAttempts
       /\ proc[p].pc \in {"bundle", "write"} <=> proc[p].plan # NoPlan
  /\ filed \in 0..MaxHolds
  /\ events \in 0..MaxEvents

\* A held item stays where it is: no step changes the phase of an item while
\* its owner's ledger has an open decision that names it, whichever commands
\* are between their reads and their writes.
HeldStays ==
  [][\A i \in Items : Held(page[i].path) => page'[i].phase = page[i].phase]_vars

\* phase_compat: the phases a status admits.
Coherent(pg) ==
  CASE pg.phase = "none" -> TRUE
    [] pg.phase # "none" /\ pg.status = "accepted" -> pg.phase \in {"execute", "finish", "done"}
    [] pg.phase # "none" /\ pg.status = "in-progress" -> pg.phase \in {"execute", "finish"}
    [] pg.phase # "none" /\ pg.status = "resolved" -> pg.phase = "done"
    [] OTHER -> TRUE

\* The table and the edits never leave a page whose status does not admit its
\* phase (state.phase-status-incoherent).
CoherentPages == \A i \in Items : Coherent(page[i])

\* Nobody waits for everybody: while a command runs, one of the commands has
\* the lock it waits for free, or waits for none.
SomeoneProceeds ==
  (\E p \in Procs : proc[p].pc # "idle")
    => \E q \in Procs : /\ proc[q].pc # "idle"
                        /\ proc[q].pc = "lock" => ~Locked(proc[q].cand)
                        /\ proc[q].pc = "bundle" => ~BundleHeld

\* How far a page is: the phases in their order, execute in two parts, and a
\* plan whose spec is stale behind one whose spec is not.
Progress(pg) ==
  CASE pg.phase = "none" -> 0
    [] pg.phase = "plan" /\ pg.stale -> 2
    [] pg.phase = "execute" /\ pg.status = "in-progress" -> 5
    [] pg.phase \in {"finish", "done"} -> 2 + Rank(pg.phase)
    [] pg.phase = "plan" /\ ~pg.stale -> 3
    [] pg.phase = "execute" /\ pg.status # "in-progress" -> 4
    [] pg.phase = "design" -> 1

\* An item a driver may expect to move: nothing holds or closes it, its
\* children are closed, and its ledger asks nothing.
Ready(i) ==
  /\ page[i].phase # "done" /\ page[i].status \notin Terminal
  /\ ~Held(page[i].path)
  /\ Open(i) = {} /\ \A d \in ledger : d.at # i
  /\ page[i].type \in Decomposing => Children(i) # {} \/ page[i].phase \notin {"execute", "finish"}

\* The pipeline has no dead end: whatever the sequence of advances, sizes,
\* moves, reopenings and stale specs that led here, an advance of a ready item
\* that has what its stage asks for is not refused, would be written, and
\* brings the item nearer to done.
NoDeadEnd ==
  \A i \in Items : Ready(i) =>
    \A size \in Sizes[i] :
      LET plan == PlanFor(i, Owner(page[i].path), page[i].path, [op |-> "advance"], Full(size))
      IN  plan # NoPlan /\ Valid(plan) /\ Progress(plan.after) > Progress(page[i])
=============================================================================

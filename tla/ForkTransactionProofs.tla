----------------------- MODULE ForkTransactionProofs -----------------------
(***************************************************************************)
(* The transactions of a fork store, for every set of paths and plans and  *)
(* any number of commands, edits, faults and crashes.                      *)
(*                                                                         *)
(* TypeInv adds to the types that the tasks left fit the command. EditsInv *)
(* says what a command knows between its look at a path and its            *)
(* replacement: what it is about to remove is in a journal. RollInv ties   *)
(* the tasks left to the tree: what is no longer to be undone is restored, *)
(* what is no longer to be put is promoted, and tracking comes last.       *)
(***************************************************************************)
EXTENDS ForkTransaction, SequenceTheorems, WellFoundedInduction, TLAPS

-----------------------------------------------------------------------------
(***************************************************************************)
(* Sequences.  What Chosen computes is proved by the least-number          *)
(* principle.                                                              *)
(***************************************************************************)

LEMMA LeastNumber ==
    ASSUME NEW A \in SUBSET Nat, A # {}
    PROVE  \E n \in A : \A k \in A : n <= k
<1>1. PICK n \in A : \A k \in A : ~(<<k, n>> \in OpToRel(<, Nat))
  BY NatLessThanWellFounded, WFMin
<1>2. \A k \in A : k < n => <<k, n>> \in OpToRel(<, Nat)
  BY DEF OpToRel
<1>3. \A k \in A : ~(k < n)
  BY <1>1, <1>2
<1> QED
  BY <1>3

\* f is the recursive function of Chosen up to n.
Steps(f, s, S, n) ==
    f = [k \in 0..n |-> IF k = 0 THEN <<>>
                        ELSE IF s[k] \in S THEN Append(f[k - 1], s[k]) ELSE f[k - 1]]

LEMMA StepsExist ==
    ASSUME NEW s, NEW S, NEW n \in Nat
    PROVE  \E f : Steps(f, s, S, n)
<1> DEFINE A == {k \in Nat : ~\E f : Steps(f, s, S, k)}
<1> SUFFICES ASSUME A # {} PROVE FALSE
  OBVIOUS
<1>1. PICK m \in A : \A k \in A : m <= k
  BY LeastNumber
<1>2. CASE m = 0
  <2>1. Steps([k \in 0..0 |-> <<>>], s, S, 0)
    BY DEF Steps
  <2> QED
    BY <1>1, <1>2, <2>1
<1>3. CASE m # 0
  <2>1. PICK f : Steps(f, s, S, m - 1)
    BY <1>1, <1>3
  <2> DEFINE last == IF s[m] \in S THEN Append(f[m - 1], s[m]) ELSE f[m - 1]
             g == [k \in 0..m |-> IF k = m THEN last ELSE f[k]]
  <2>2. \A k \in 0..(m - 1) : f[k] = IF k = 0 THEN <<>>
                                     ELSE IF s[k] \in S THEN Append(f[k - 1], s[k]) ELSE f[k - 1]
    BY <2>1 DEF Steps
  <2>3. ASSUME NEW k \in 0..m
        PROVE  g[k] = IF k = 0 THEN <<>>
                      ELSE IF s[k] \in S THEN Append(g[k - 1], s[k]) ELSE g[k - 1]
    <3> HIDE DEF last
    <3>1. CASE k = m
      <4>1. g[k] = last /\ g[k - 1] = f[k - 1]
        BY <1>1, <1>3, <3>1
      <4> QED
        BY <1>3, <3>1, <4>1 DEF last
    <3>2. CASE k # m
      <4>1. g[k] = f[k] /\ k \in 0..(m - 1)
        BY <1>1, <1>3, <3>2
      <4>2. k # 0 => g[k - 1] = f[k - 1]
        BY <1>1, <1>3, <3>2
      <4> HIDE DEF g
      <4> QED
        BY <2>2, <4>1, <4>2
    <3> QED
      BY <3>1, <3>2
  <2>4. Steps(g, s, S, m)
    <3>1. g = [k \in 0..m |-> g[k]]
      OBVIOUS
    <3> HIDE DEF g
    <3> QED
      BY <2>3, <3>1 DEF Steps
  <2> QED
    BY <1>1, <2>4
<1> QED
  BY <1>2, <1>3

\* Chosen keeps the members of S and no others.
LEMMA ChosenRange ==
    ASSUME NEW T, NEW s \in Seq(T), NEW S
    PROVE  Chosen(s, S) \in Seq(T \cap S) /\ Range(Chosen(s, S)) = Range(s) \cap S
<1> DEFINE f == CHOOSE f : Steps(f, s, S, Len(s))
           Good(k) == /\ f[k] \in Seq(T \cap S)
                      /\ \A d : (\E i \in DOMAIN f[k] : f[k][i] = d)
                                <=> d \in S /\ \E i \in 1..k : s[i] = d
<1>1. Len(s) \in Nat /\ DOMAIN s = 1..Len(s) /\ \A k \in 1..Len(s) : s[k] \in T
  OBVIOUS
<1>2. Steps(f, s, S, Len(s))
  BY <1>1, StepsExist
<1>3. Chosen(s, S) = f[Len(s)]
  BY DEF Chosen, Steps
<1>4. \A k \in 0..Len(s) : f[k] = IF k = 0 THEN <<>>
                                  ELSE IF s[k] \in S THEN Append(f[k - 1], s[k]) ELSE f[k - 1]
  <2> HIDE DEF f
  <2> QED
    BY <1>2 DEF Steps
<1> HIDE DEF f
<1> DEFINE A == {k \in 0..Len(s) : ~Good(k)}
<1>5. A = {}
  <2> SUFFICES ASSUME A # {} PROVE FALSE
    OBVIOUS
  <2>0. A \in SUBSET Nat
    BY <1>1
  <2>1. PICK m \in A : \A k \in A : m <= k
    <3> HIDE DEF A
    <3> QED
      BY <2>0, LeastNumber
  <2>a. m \in 0..Len(s) /\ m \in Nat /\ ~Good(m) /\ \A k \in 0..Len(s) : ~Good(k) => m <= k
    <3>1. m \in A /\ m \in Nat
      BY <2>0, <2>1
    <3>2. \A k \in 0..Len(s) : ~Good(k) => k \in A
      OBVIOUS
    <3> QED
      BY <2>1, <3>1, <3>2
  <2>2. CASE m = 0
    <3>1. f[0] = <<>>
      BY <1>1, <1>4
    <3>2. Good(0)
      BY <3>1
    <3> QED
      BY <2>a, <2>2, <3>2
  <2>3. CASE m # 0
    <3>1. m - 1 \in 0..Len(s) /\ m \in 1..Len(s)
      BY <1>1, <2>a, <2>3
    <3>2. Good(m - 1)
      <4> HIDE DEF Good
      <4> QED
        BY <2>a, <3>1
    <3>3. CASE s[m] \notin S
      <4>1. f[m] = f[m - 1]
        BY <1>4, <3>1, <3>3
      <4>2. \A d : d \in S => ((\E i \in 1..(m - 1) : s[i] = d) <=> \E i \in 1..m : s[i] = d)
        BY <3>1, <3>3
      <4> QED
        BY <2>a, <3>2, <4>1, <4>2
    <3>4. CASE s[m] \in S
      <4>1. f[m] = Append(f[m - 1], s[m])
        <5>1. m \in 0..Len(s) /\ m # 0
          BY <2>a, <2>3
        <5> QED
          BY <1>4, <5>1, <3>4
      <4>2. s[m] \in T \cap S
        BY <1>1, <3>1, <3>4
      <4> DEFINE g == f[m - 1]
      <4>3. g \in Seq(T \cap S)
        BY <3>2
      <4>4. /\ f[m] \in Seq(T \cap S) /\ Len(f[m]) = Len(g) + 1
            /\ \A i \in 1..Len(g) : f[m][i] = g[i]
            /\ f[m][Len(g) + 1] = s[m]
        <5> HIDE DEF g
        <5> QED
          BY <4>1, <4>2, <4>3, AppendProperties DEF g
      <4>5. \A d : (\E i \in DOMAIN g : g[i] = d) <=> d \in S /\ \E i \in 1..(m - 1) : s[i] = d
        BY <3>2
      <4> HIDE DEF g
      <4>6. DOMAIN g = 1..Len(g) /\ DOMAIN f[m] = 1..(Len(g) + 1) /\ Len(g) \in Nat
        BY <4>3, <4>4
      <4>7. \A d : (\E i \in DOMAIN f[m] : f[m][i] = d) <=> d = s[m] \/ \E i \in DOMAIN g : g[i] = d
        BY <4>4, <4>6
      <4>8. \A d : (\E i \in 1..m : s[i] = d) <=> d = s[m] \/ \E i \in 1..(m - 1) : s[i] = d
        BY <3>1
      <4>9. Good(m)
        BY <3>4, <4>4, <4>5, <4>7, <4>8
      <4> QED
        BY <2>a, <4>9
    <3> QED
      BY <3>3, <3>4
  <2> QED
    BY <2>2, <2>3
<1>6. Good(Len(s))
  BY <1>1, <1>5
<1>7. Range(f[Len(s)]) = Range(s) \cap S
  BY <1>1, <1>6 DEF Range
<1> QED
  BY <1>3, <1>6, <1>7

LEMMA ReverseRange ==
    ASSUME NEW T, NEW s \in Seq(T)
    PROVE  Reverse(s) \in Seq(T) /\ Range(Reverse(s)) = Range(s) /\ Range(s) \subseteq T
<1>1. Len(s) \in Nat /\ DOMAIN s = 1..Len(s) /\ \A k \in 1..Len(s) : s[k] \in T
  OBVIOUS
<1>2. \A k \in 1..Len(s) : (Len(s) - k) + 1 \in 1..Len(s) /\ (Len(s) - ((Len(s) - k) + 1)) + 1 = k
  BY <1>1
<1>3. Reverse(s) = [k \in 1..Len(s) |-> s[(Len(s) - k) + 1]]
  BY DEF Reverse
<1>4. Reverse(s) \in Seq(T)
  BY <1>1, <1>2, <1>3
<1>5. Range(s) \subseteq T /\ Range(s) = {s[k] : k \in 1..Len(s)}
  BY <1>1 DEF Range
<1>6. Range(Reverse(s)) = {s[(Len(s) - k) + 1] : k \in 1..Len(s)}
  BY <1>3 DEF Range
<1>7. {s[(Len(s) - k) + 1] : k \in 1..Len(s)} \subseteq {s[k] : k \in 1..Len(s)}
  BY <1>2
<1>8. ASSUME NEW k \in 1..Len(s)
      PROVE  s[k] \in {s[(Len(s) - i) + 1] : i \in 1..Len(s)}
  BY <1>2
<1> QED
  BY <1>4, <1>5, <1>6, <1>7, <1>8

-----------------------------------------------------------------------------
(***************************************************************************)
(* Type correctness, with what a command in progress can rely on: its      *)
(* preview, and a list of tasks that are of its kind, name paths of the    *)
(* journal, and end with the task that ends the command.                   *)
(***************************************************************************)

TasksOf(op) ==
    IF op = "apply" THEN {"open", "mkdir", "stage", "start", "put", "finish"}
    ELSE IF op = "opened" THEN {"mkdir", "stage", "start", "put", "finish"}
    ELSE {"prepare", "unstage", "undo", "rmdir", "close"}

Ends == {"open", "finish", "close"}

Fitting(op, t, changed) ==
    /\ t.do \in TasksOf(op)
    /\ t.do \in {"mkdir", "rmdir"} => t.on \in Dirs
    /\ t.do \in {"stage", "put", "unstage", "undo"} => t.on \in changed

AllFit(op, todo, changed) ==
    /\ todo \in Seq(TaskType)
    /\ \A k \in 1..Len(todo) : Fitting(op, todo[k], changed)

TodoFits(op, todo, changed) ==
    /\ AllFit(op, todo, changed)
    /\ todo # <<>>
    /\ todo[Len(todo)].do \in Ends

Running ==
    /\ Len(previews) <= MaxPreviews
    /\ run # Idle =>
         /\ run.id \in DOMAIN previews
         /\ run.op = previews[run.id].kind
         /\ TodoFits(run.op, run.todo, Changed(Journal))

TypeInv == TypeOK /\ Running

LEMMA TailFits ==
    ASSUME NEW op, NEW todo, NEW changed, TodoFits(op, todo, changed), Head(todo).do \notin Ends
    PROVE  TodoFits(op, Tail(todo), changed)
<1>1. todo \in Seq(TaskType) /\ Len(todo) \in Nat /\ Len(todo) # 0 /\ Head(todo) = todo[1]
  BY DEF TodoFits, AllFit
<1>2. Len(todo) # 1
  BY <1>1 DEF TodoFits
<1>3. /\ Tail(todo) \in Seq(TaskType) /\ Len(Tail(todo)) = Len(todo) - 1
      /\ \A k \in 1..(Len(todo) - 1) : Tail(todo)[k] = todo[k + 1]
  BY <1>1
<1>4. \A k \in 1..(Len(todo) - 1) : k + 1 \in 1..Len(todo)
  BY <1>1
<1>5. Tail(todo) # <<>>
  <2>1. Len(Tail(todo)) # 0
    BY <1>1, <1>2, <1>3
  <2>2. Len(<<>>) = 0
    OBVIOUS
  <2> QED
    BY <2>1, <2>2
<1>6. Len(todo) - 1 \in 1..(Len(todo) - 1) /\ (Len(todo) - 1) + 1 = Len(todo)
  <2>1. \A n \in Nat : n # 0 /\ n # 1 => n - 1 \in 1..(n - 1) /\ (n - 1) + 1 = n
    OBVIOUS
  <2> QED
    BY <1>1, <1>2, <2>1
<1>7. \A k \in 1..(Len(todo) - 1) : Fitting(op, Tail(todo)[k], changed)
  BY <1>3, <1>4 DEF TodoFits, AllFit
<1>8. Tail(todo)[Len(Tail(todo))].do \in Ends
  BY <1>3, <1>6 DEF TodoFits
<1> QED
  BY <1>3, <1>5, <1>7, <1>8 DEF TodoFits, AllFit

LEMMA ConcatFits ==
    ASSUME NEW op, NEW s, NEW t, NEW changed, AllFit(op, s, changed), AllFit(op, t, changed)
    PROVE  /\ AllFit(op, s \o t, changed)
           /\ t # <<>> => (s \o t)[Len(s \o t)] = t[Len(t)] /\ s \o t # <<>>
<1>1. s \in Seq(TaskType) /\ t \in Seq(TaskType) /\ Len(s) \in Nat /\ Len(t) \in Nat
  BY DEF AllFit
<1>2. /\ s \o t \in Seq(TaskType) /\ Len(s \o t) = Len(s) + Len(t)
      /\ \A k \in 1..(Len(s) + Len(t)) : (s \o t)[k] = IF k <= Len(s) THEN s[k] ELSE t[k - Len(s)]
  BY <1>1
<1>3. \A k \in 1..(Len(s) + Len(t)) : IF k <= Len(s) THEN k \in 1..Len(s) ELSE k - Len(s) \in 1..Len(t)
  BY <1>1
<1>4. ASSUME NEW k \in 1..Len(s \o t) PROVE Fitting(op, (s \o t)[k], changed)
  BY <1>2, <1>3 DEF AllFit
<1>5. ASSUME t # <<>> PROVE (s \o t)[Len(s \o t)] = t[Len(t)] /\ s \o t # <<>>
  <2>1. Len(t) # 0
    BY <1>1, <1>5
  <2>2. Len(s) + Len(t) \in 1..(Len(s) + Len(t)) /\ ~(Len(s) + Len(t) <= Len(s))
        /\ (Len(s) + Len(t)) - Len(s) = Len(t)
    BY <1>1, <2>1
  <2> QED
    BY <1>1, <1>2, <2>1, <2>2
<1> QED
  BY <1>2, <1>4, <1>5 DEF AllFit

LEMMA TasksFit ==
    ASSUME NEW op, NEW do, NEW ds \in Seq(Dests), NEW changed,
           do \in TasksOf(op),
           do \in {"mkdir", "rmdir"} => Range(ds) \subseteq Dirs,
           do \in {"stage", "put", "unstage", "undo"} => Range(ds) \subseteq changed
    PROVE  AllFit(op, Tasks(do, ds), changed)
<1>1. DOMAIN ds = 1..Len(ds) /\ Len(ds) \in Nat /\ \A k \in 1..Len(ds) : ds[k] \in Dests /\ ds[k] \in Range(ds)
  BY DEF Range
<1>2. \A k \in 1..Len(ds) : [do |-> do, on |-> ds[k]] \in TaskType
  BY <1>1 DEF TaskType, TasksOf
<1>3. Tasks(do, ds) \in Seq(TaskType) /\ Len(Tasks(do, ds)) = Len(ds)
      /\ \A k \in 1..Len(ds) : Tasks(do, ds)[k] = [do |-> do, on |-> ds[k]]
  BY <1>1, <1>2 DEF Tasks
<1> QED
  <2>1. \A k \in 1..Len(ds) : Fitting(op, [do |-> do, on |-> ds[k]], changed)
    BY <1>1 DEF Fitting
  <2> QED
    BY <1>3, <2>1 DEF AllFit

LEMMA TaskFits ==
    ASSUME NEW op, NEW do, NEW changed, do \in TasksOf(op), do \in {"open", "start", "finish", "prepare", "close"}
    PROVE  /\ AllFit(op, Task(do), changed)
           /\ Task(do) # <<>> /\ Len(Task(do)) = 1 /\ Task(do)[1].do = do
<1>1. [do |-> do, on |-> Root] \in TaskType
  BY DEF TaskType
<1>2. Task(do) \in Seq(TaskType) /\ Len(Task(do)) = 1 /\ Task(do)[1] = [do |-> do, on |-> Root]
  BY <1>1 DEF Task
<1> QED
  <2>1. Fitting(op, [do |-> do, on |-> Root], changed)
    BY DEF Fitting
  <2> QED
    <3>1. \A k \in 1..1 : Fitting(op, Task(do)[k], changed)
      BY <1>2, <2>1
    <3>2. Task(do) # <<>>
      BY DEF Task
    <3> QED
      BY <1>2, <3>1, <3>2 DEF AllFit

LEMMA RangeOf ==
    ASSUME NEW T, NEW s \in Seq(T)
    PROVE  Range(s) = {s[k] : k \in 1..Len(s)} /\ Range(s) \subseteq T
<1>1. DOMAIN s = 1..Len(s) /\ \A k \in 1..Len(s) : s[k] \in T
  OBVIOUS
<1> QED
  BY <1>1 DEF Range

LEMMA FilesRange ==
    ASSUME NEW order \in Seq(Dests), NEW S
    PROVE  /\ Chosen(order, S) \in Seq(Dests)
           /\ Range(Chosen(order, S)) = Range(order) \cap S
<1>1. Chosen(order, S) \in Seq(Dests \cap S) /\ Range(Chosen(order, S)) = Range(order) \cap S
  BY ChosenRange
<1> QED
  BY <1>1, SeqMonotonic

LEMMA PlanTyped ==
    ASSUME NEW plan \in Plans
    PROVE  /\ plan.order \in Seq(Dests) /\ plan.parents \in Seq(Dirs) /\ plan.after \in [Dests -> Entries]
           /\ \A d \in Dests : plan.after[d] # Found /\ (plan.after[d] = Dir => d \in Dirs)
           /\ WellOrdered(plan)
<1>1. plan \in PlanType /\ WellOrdered(plan)
  BY ForkAssumption
<1>2. plan.after \in [Dests -> Contents \cup {Absent, Dir}]
  BY <1>1 DEF PlanType
<1>3. plan.after \in [Dests -> Entries] /\ \A d \in Dests : plan.after[d] # Found
  BY <1>2, ForkAssumption DEF Entries
<1>4. \A d \in Dests : plan.after[d] = Dir => d \in Dirs
  BY <1>1, ForkAssumption DEF WellOrdered
<1> QED
  BY <1>1, <1>3, <1>4 DEF PlanType

LEMMA MissingTyped ==
    ASSUME NEW plan \in Plans
    PROVE  /\ Missing(plan) \in Seq(Dirs) /\ Missing(plan) \in Seq(Dests)
           /\ Range(Missing(plan)) = Range(plan.parents) \cap {d \in Dirs : disk[d] = Absent}
<1>1. /\ Missing(plan) \in Seq(Dirs \cap {d \in Dirs : disk[d] = Absent})
      /\ Range(Missing(plan)) = Range(plan.parents) \cap {d \in Dirs : disk[d] = Absent}
  BY PlanTyped, ChosenRange DEF Missing
<1>2. Dirs \cap {d \in Dirs : disk[d] = Absent} \subseteq Dirs /\ Dirs \subseteq Dests
  BY ForkAssumption
<1> QED
  BY <1>1, <1>2, SeqMonotonic

LEMMA ApplyTasksFit ==
    ASSUME NEW plan \in Plans
    PROVE  /\ TodoFits("apply", ApplyTasks(plan), Range(plan.order))
           /\ \A k \in 1..Len(ApplyTasks(plan)) : ApplyTasks(plan)[k].do # "open"
<1> DEFINE new == NewDirs(plan.order, plan.after)
           files == Files(plan.order, plan.after)
           ch == Range(plan.order)
<1>1. plan.order \in Seq(Dests) /\ plan.parents \in Seq(Dirs) /\ plan.after \in [Dests -> Entries]
  BY PlanTyped
<1>2. Missing(plan) \in Seq(Dests) /\ Range(Missing(plan)) \subseteq Dirs
  BY MissingTyped
<1>3. new \in Seq(Dests) /\ Range(new) \subseteq Dirs
  <2>1. Range(new) = ch \cap {d \in Dests : plan.after[d] = Dir /\ disk[d] = Absent} /\ new \in Seq(Dests)
    BY <1>1, FilesRange DEF NewDirs
  <2> QED
    BY <2>1, PlanTyped
<1>4. files \in Seq(Dests) /\ Range(files) \subseteq ch
  BY <1>1, FilesRange DEF Files
<1> HIDE DEF new, files
<1>5. AllFit("opened", Tasks("mkdir", Missing(plan)), ch)
  BY <1>2, TasksFit DEF TasksOf
<1>6. AllFit("opened", Tasks("mkdir", new), ch)
  BY <1>3, TasksFit DEF TasksOf
<1>7. AllFit("opened", Tasks("stage", files), ch)
  BY <1>4, TasksFit DEF TasksOf
<1>8. AllFit("opened", Tasks("put", plan.order), ch)
  BY <1>1, TasksFit DEF TasksOf
<1>9. AllFit("opened", Task("start"), ch)
  BY TaskFits DEF TasksOf
<1>10. AllFit("opened", Task("finish"), ch) /\ Task("finish") # <<>> /\ Len(Task("finish")) = 1
       /\ Task("finish")[1].do = "finish"
  BY TaskFits DEF TasksOf
<1>11. AllFit("opened", Tasks("mkdir", Missing(plan)) \o Tasks("mkdir", new), ch)
  BY <1>5, <1>6, ConcatFits
<1>12. AllFit("opened", Tasks("mkdir", Missing(plan)) \o Tasks("mkdir", new) \o Tasks("stage", files), ch)
  BY <1>11, <1>7, ConcatFits
<1>13. AllFit("opened", Tasks("mkdir", Missing(plan)) \o Tasks("mkdir", new) \o Tasks("stage", files)
                       \o Task("start"), ch)
  BY <1>12, <1>9, ConcatFits
<1> DEFINE all == Tasks("mkdir", Missing(plan)) \o Tasks("mkdir", new) \o Tasks("stage", files)
                  \o Task("start") \o Tasks("put", plan.order)
<1>14. AllFit("opened", all, ch)
  BY <1>13, <1>8, ConcatFits
<1>15. ApplyTasks(plan) = all \o Task("finish")
  BY DEF ApplyTasks, new, files
<1> HIDE DEF all
<1>16. /\ AllFit("opened", all \o Task("finish"), ch)
       /\ (all \o Task("finish"))[Len(all \o Task("finish"))] = Task("finish")[1]
       /\ all \o Task("finish") # <<>>
  BY <1>14, <1>10, ConcatFits
<1>17. TodoFits("opened", ApplyTasks(plan), ch)
  BY <1>10, <1>15, <1>16 DEF TodoFits, Ends
<1>18. ASSUME NEW t, Fitting("opened", t, ch) PROVE Fitting("apply", t, ch) /\ t.do # "open"
  BY <1>18 DEF Fitting, TasksOf
<1> QED
  BY <1>17, <1>18 DEF TodoFits, AllFit

LEMMA RecoveryTasksFit ==
    ASSUME NEW j \in JournalType
    PROVE  TodoFits("recover", RecoveryTasks(j), Changed(j))
<1> DEFINE files == Reverse(Files(j.order, j.after))
           ch == Changed(j)
<1>1. j.order \in Seq(Dests) /\ j.parents \in Seq(Dirs)
  BY DEF JournalType
<1>2. Reverse(j.parents) \in Seq(Dests) /\ Range(Reverse(j.parents)) \subseteq Dirs
  <2>1. Reverse(j.parents) \in Seq(Dirs) /\ Range(Reverse(j.parents)) \subseteq Dirs
    BY <1>1, ReverseRange
  <2>2. Dirs \subseteq Dests
    BY ForkAssumption
  <2> QED
    BY <2>1, <2>2, SeqMonotonic
<1>3. Reverse(j.order) \in Seq(Dests) /\ Range(Reverse(j.order)) = ch
  BY <1>1, ReverseRange DEF Changed
<1>4. files \in Seq(Dests) /\ Range(files) \subseteq ch
  <2>1. Files(j.order, j.after) \in Seq(Dests) /\ Range(Files(j.order, j.after)) \subseteq ch
    BY <1>1, FilesRange DEF Files, Changed
  <2> QED
    BY <2>1, ReverseRange
<1> HIDE DEF files
<1>5. AllFit("recover", Tasks("unstage", files), ch)
  BY <1>4, TasksFit DEF TasksOf
<1>6. AllFit("recover", Tasks("undo", Reverse(j.order)), ch)
  BY <1>3, TasksFit DEF TasksOf
<1>7. AllFit("recover", Tasks("rmdir", Reverse(j.parents)), ch)
  BY <1>2, TasksFit DEF TasksOf
<1>8. AllFit("recover", Task("prepare"), ch)
  BY TaskFits DEF TasksOf
<1>9. AllFit("recover", Task("close"), ch) /\ Task("close") # <<>> /\ Len(Task("close")) = 1
      /\ Task("close")[1].do = "close"
  BY TaskFits DEF TasksOf
<1>10. AllFit("recover", Task("prepare") \o Tasks("unstage", files), ch)
  BY <1>5, <1>8, ConcatFits
<1>11. AllFit("recover", Task("prepare") \o Tasks("unstage", files) \o Tasks("undo", Reverse(j.order)), ch)
  BY <1>10, <1>6, ConcatFits
<1> DEFINE all == Task("prepare") \o Tasks("unstage", files) \o Tasks("undo", Reverse(j.order))
                  \o Tasks("rmdir", Reverse(j.parents))
<1>12. AllFit("recover", all, ch)
  BY <1>11, <1>7, ConcatFits
<1>13. RecoveryTasks(j) = all \o Task("close")
  BY DEF RecoveryTasks, files
<1> HIDE DEF all
<1>14. /\ AllFit("recover", all \o Task("close"), ch)
       /\ (all \o Task("close"))[Len(all \o Task("close"))] = Task("close")[1]
       /\ all \o Task("close") # <<>>
  BY <1>12, <1>9, ConcatFits
<1> QED
  BY <1>9, <1>13, <1>14 DEF TodoFits, Ends

RunType ==
    [op : {"none", "apply", "recover"}, id : 0..MaxPreviews,
     todo : Seq(TaskType), step : {"check", "act", "note"}]

\* What a command in progress has at hand.
LEMMA Busy ==
    ASSUME TypeInv, run # Idle
    PROVE  /\ run.op \in {"apply", "recover"} /\ Preview.kind = run.op /\ Preview \in PreviewType
           /\ run.id \in DOMAIN previews /\ run.id \in 1..MaxPreviews
           /\ Current \in 1..MaxPreviews /\ Journal \in JournalType /\ Changed(Journal) \subseteq Dests
           /\ run.todo # <<>> /\ Head(run.todo) \in TaskType
           /\ Fitting(run.op, Head(run.todo), Changed(Journal))
<1>1. /\ Preview.kind = run.op /\ Preview \in PreviewType
      /\ run.id \in DOMAIN previews /\ run.id \in 1..MaxPreviews
  <2>1. run.id \in DOMAIN previews /\ Preview.kind = run.op /\ Len(previews) <= MaxPreviews
    BY DEF TypeInv, Running, Preview
  <2>2. previews \in Seq(PreviewType) /\ MaxPreviews \in Nat
    BY ForkAssumption DEF TypeInv, TypeOK
  <2>3. Preview \in PreviewType /\ run.id \in 1..Len(previews) /\ Len(previews) \in Nat
    BY <2>1, <2>2 DEF Preview
  <2> QED
    BY <2>1, <2>2, <2>3
<1>2. run.op \in {"apply", "recover"} /\ (run.op = "recover" => Preview.of \in 1..MaxPreviews)
  BY <1>1 DEF PreviewType
<1>3. Current \in 1..MaxPreviews
  BY <1>1, <1>2 DEF Current
<1>4. Journal \in JournalType
  BY <1>3 DEF Journal, TypeInv, TypeOK
<1>5. Changed(Journal) \subseteq Dests
  BY <1>4, RangeOf DEF Changed, JournalType
<1>6. TodoFits(run.op, run.todo, Changed(Journal))
  BY DEF TypeInv, Running
<1>7. /\ run.todo # <<>> /\ Head(run.todo) \in TaskType
      /\ Fitting(run.op, Head(run.todo), Changed(Journal))
  <2>1. run.todo \in Seq(TaskType) /\ run.todo # <<>>
    BY <1>6 DEF TodoFits, AllFit
  <2>2. 1 \in 1..Len(run.todo) /\ Head(run.todo) = run.todo[1] /\ run.todo[1] \in TaskType
    BY <2>1
  <2> QED
    BY <1>6, <2>1, <2>2 DEF TodoFits, AllFit
<1> QED
  BY <1>1, <1>2, <1>3, <1>4, <1>5, <1>7

LEMMA DoingIsBusy ==
    ASSUME NEW op, NEW do, Doing(op, do)
    PROVE  run # Idle /\ run.op = op /\ Head(run.todo).do = do
BY DEF Doing, Idle

LEMMA AdvanceKeeps ==
    ASSUME TypeInv, run # Idle, Head(run.todo).do \notin Ends, Advance, previews' = previews,
           Changed(journals'[Current]) = Changed(Journal)
    PROVE  run' \in RunType /\ run' # Idle /\ Running' /\ run'.op = run.op /\ run'.id = run.id /\ Current' = Current
<1>1. run \in RunType /\ run.op # "none" /\ run.op \in {"apply", "recover"}
  BY Busy DEF TypeInv, TypeOK, RunType
<1>2. run' = [run EXCEPT !.todo = Tail(run.todo), !.step = "check"]
  BY DEF Advance
<1>3. TodoFits(run.op, Tail(run.todo), Changed(Journal))
  <2>1. TodoFits(run.op, run.todo, Changed(Journal))
    BY DEF TypeInv, Running
  <2> QED
    BY <2>1, TailFits
<1>4. run' \in RunType /\ run'.op = run.op /\ run'.id = run.id /\ run'.todo = Tail(run.todo)
  BY <1>1, <1>2, <1>3 DEF RunType, TodoFits, AllFit
<1>5. run' # Idle
  BY <1>1, <1>4 DEF Idle
<1>6. Current' = Current
  BY <1>4 DEF Current, Preview
<1>7. Running'
  <2>1. TodoFits(run.op, run.todo, Changed(Journal))'
    BY <1>3, <1>4, <1>6 DEF Journal
  <2>2. run'.id \in DOMAIN previews' /\ run'.op = previews'[run'.id].kind /\ Len(previews') <= MaxPreviews
    BY <1>4 DEF TypeInv, Running
  <2> QED
    BY <2>1, <2>2 DEF Running
<1> QED
  BY <1>4, <1>5, <1>6, <1>7

LEMMA ProceedKeeps ==
    ASSUME TypeInv, run # Idle, NEW step \in {"check", "act", "note"}, Proceed(step), previews' = previews,
           Changed(journals'[Current]) = Changed(Journal)
    PROVE  run' \in RunType /\ run' # Idle /\ Running' /\ run'.op = run.op /\ run'.id = run.id
           /\ run'.todo = run.todo /\ run'.step = step /\ Current' = Current
<1>1. run \in RunType /\ run.op # "none"
  BY Busy DEF TypeInv, TypeOK, RunType
<1>2. run' = [run EXCEPT !.step = step]
  BY DEF Proceed
<1>3. run' \in RunType /\ run'.op = run.op /\ run'.id = run.id /\ run'.todo = run.todo /\ run'.step = step
  BY <1>1, <1>2 DEF RunType
<1>4. run' # Idle
  BY <1>1, <1>3 DEF Idle
<1>5. Current' = Current
  BY <1>3 DEF Current, Preview
<1>6. Running'
  <2>1. TodoFits(run.op, run.todo, Changed(Journal))'
    BY <1>3, <1>5 DEF Journal, TypeInv, Running
  <2>2. run'.id \in DOMAIN previews' /\ run'.op = previews'[run'.id].kind /\ Len(previews') <= MaxPreviews
    BY <1>3 DEF TypeInv, Running
  <2> QED
    BY <2>1, <2>2 DEF Running
<1> QED
  BY <1>3, <1>4, <1>5, <1>6

LEMMA StopKeeps ==
    ASSUME TypeInv, run' = Idle, previews' = previews
    PROVE  run' \in RunType /\ Running'
<1>1. Idle \in RunType
  BY ForkAssumption DEF Idle, RunType
<1>2. Running'
  BY DEF TypeInv, Running
<1> QED
  BY <1>1, <1>2

LEMMA PersistKeeps ==
    ASSUME TypeInv, run # Idle, NEW j \in JournalType, Persist(j)
    PROVE  /\ journals' \in [1..MaxPreviews -> JournalType] /\ journals'[Current] = j
           /\ \A i \in 1..MaxPreviews : i # Current => journals'[i] = journals[i]
<1>1. Current \in 1..MaxPreviews /\ journals \in [1..MaxPreviews -> JournalType]
  BY Busy DEF TypeInv, TypeOK
<1> QED
  BY <1>1 DEF Persist

LEMMA NoJournalTyped ==
    NoJournal \in JournalType /\ Changed(NoJournal) = {} /\ NoJournal.phase = "none"
<1>1. <<>> \in Seq(Dests) /\ <<>> \in Seq(Dirs)
  OBVIOUS
<1>2. [d \in Dirs |-> {}] \in [Dirs -> SUBSET {"file", "scratch"}]
  OBVIOUS
<1>3. NoJournal \in JournalType /\ NoJournal.phase = "none"
  BY <1>1, <1>2, ForkAssumption DEF NoJournal, JournalType
<1> QED
  BY <1>3 DEF NoJournal, Changed, Range

LEMMA TypeInit == Init => TypeInv
<1> SUFFICES ASSUME Init PROVE TypeInv
  OBVIOUS
<1> USE ForkAssumption
<1>1. journals \in [1..MaxPreviews -> JournalType]
  BY NoJournalTyped DEF Init
<1>2. run \in RunType
  BY DEF Init, Idle, RunType
<1>3. TypeOK
  BY <1>1, <1>2 DEF Init, TypeOK, RunType, Entries
<1>4. Running
  BY DEF Init, Running
<1> QED
  BY <1>3, <1>4 DEF TypeInv

\* One more preview, and nothing else: what the command in progress holds
\* is as it was.
LEMMA PreviewKeeps ==
    ASSUME TypeInv, NEW p \in PreviewType, Len(previews) < MaxPreviews, previews' = Append(previews, p),
           run' = run, journals' = journals
    PROVE  /\ previews' \in Seq(PreviewType) /\ Running'
           /\ \A i \in DOMAIN previews : i \in DOMAIN previews' /\ previews'[i] = previews[i]
           /\ DOMAIN previews' = DOMAIN previews \cup {Len(previews) + 1}
           /\ previews'[Len(previews) + 1] = p
           /\ run # Idle => Current' = Current /\ Preview' = Preview
<1>1. previews \in Seq(PreviewType) /\ Len(previews) \in Nat /\ MaxPreviews \in Nat /\ DOMAIN previews = 1..Len(previews)
  BY ForkAssumption DEF TypeInv, TypeOK
<1>2. /\ previews' \in Seq(PreviewType) /\ Len(previews') = Len(previews) + 1
      /\ \A i \in 1..Len(previews) : previews'[i] = previews[i]
      /\ previews'[Len(previews) + 1] = p
      /\ DOMAIN previews' = 1..(Len(previews) + 1)
  BY <1>1
<1>3. \A i \in DOMAIN previews : i \in DOMAIN previews' /\ previews'[i] = previews[i]
  BY <1>1, <1>2
<1>4. DOMAIN previews' = DOMAIN previews \cup {Len(previews) + 1}
  BY <1>1, <1>2
<1>5. ASSUME run # Idle PROVE Current' = Current /\ Preview' = Preview
  <2>1. run.id \in DOMAIN previews
    BY <1>5 DEF TypeInv, Running
  <2>2. Preview' = Preview
    BY <1>3, <2>1 DEF Preview
  <2> QED
    BY <2>2 DEF Current
<1>6. Running'
  <2>1. Len(previews') <= MaxPreviews
    BY <1>1, <1>2
  <2>2. ASSUME run # Idle
        PROVE  /\ run.id \in DOMAIN previews' /\ run.op = previews'[run.id].kind
               /\ TodoFits(run.op, run.todo, Changed(Journal))'
    <3>1. /\ run.id \in DOMAIN previews /\ run.op = previews[run.id].kind
          /\ TodoFits(run.op, run.todo, Changed(Journal))
      BY <2>2 DEF TypeInv, Running
    <3>2. Journal' = Journal
      BY <1>5, <2>2 DEF Journal
    <3> QED
      BY <1>3, <3>1, <3>2
  <2> QED
    BY <2>1, <2>2 DEF Running
<1> QED
  BY <1>2, <1>3, <1>4, <1>5, <1>6

LEMMA PrepareType ==
    ASSUME TypeInv, NEW plan \in Plans, Prepare(plan)
    PROVE  TypeInv'
<1> DEFINE p == [kind |-> "apply", plan |-> plan, seen |-> disk, extra |-> extra]
<1>1. p \in PreviewType
  BY DEF PreviewType, TypeInv, TypeOK
<1>2. Len(previews) < MaxPreviews /\ previews' = Append(previews, p) /\ run' = run /\ journals' = journals
  BY DEF Prepare
<1>3. previews' \in Seq(PreviewType) /\ Running'
  <2> HIDE DEF p
  <2> QED
    BY <1>1, <1>2, PreviewKeeps
<1> QED
  BY <1>3 DEF Prepare, TypeInv, TypeOK

LEMMA PlanRollbackType ==
    ASSUME TypeInv, NEW i \in 1..MaxPreviews, PlanRollback(i)
    PROVE  TypeInv'
<1> DEFINE p == [kind |-> "recover", of |-> i, journal |-> journals[i], seen |-> disk, staged |-> staged]
<1>1. p \in PreviewType
  BY DEF PreviewType, TypeInv, TypeOK
<1>2. Len(previews) < MaxPreviews /\ previews' = Append(previews, p) /\ run' = run /\ journals' = journals
  BY DEF PlanRollback
<1>3. previews' \in Seq(PreviewType) /\ Running'
  <2> HIDE DEF p
  <2> QED
    BY <1>1, <1>2, PreviewKeeps
<1> QED
  BY <1>3 DEF PlanRollback, TypeInv, TypeOK

LEMMA BeginKeeps ==
    ASSUME TypeInv, NEW i \in DOMAIN previews, NEW op \in {"apply", "recover"}, NEW todo,
           op = previews[i].kind, Begin(op, i, todo),
           TodoFits(op, todo, Changed(journals[IF op = "recover" THEN previews[i].of ELSE i]))
    PROVE  /\ TypeInv' /\ run' = [op |-> op, id |-> i, todo |-> todo, step |-> "check"]
           /\ run' # Idle /\ Current' = (IF op = "recover" THEN previews[i].of ELSE i)
<1>1. run' = [op |-> op, id |-> i, todo |-> todo, step |-> "check"] /\ lock' = "held"
  BY DEF Begin
<1>2. i \in 1..MaxPreviews
  <2>1. previews \in Seq(PreviewType) /\ Len(previews) <= MaxPreviews /\ MaxPreviews \in Nat
    BY ForkAssumption DEF TypeInv, TypeOK, Running
  <2> QED
    BY <2>1
<1>3. run' \in RunType /\ run' # Idle /\ run'.id = i /\ run'.op = op /\ run'.todo = todo
  BY <1>1, <1>2 DEF RunType, TodoFits, AllFit, Idle
<1>4. previews' = previews /\ journals' = journals
  BY DEF Begin
<1>5. Current' = IF op = "recover" THEN previews[i].of ELSE i
  BY <1>3, <1>4 DEF Current, Preview
<1>6. Running'
  BY <1>3, <1>4, <1>5 DEF TypeInv, Running, Journal
<1>7. TypeOK'
  BY <1>1, <1>3 DEF Begin, TypeInv, TypeOK, RunType
<1> QED
  BY <1>1, <1>3, <1>5, <1>6, <1>7 DEF TypeInv

LEMMA ApplyType ==
    ASSUME TypeInv, NEW i \in DOMAIN previews, Apply(i)
    PROVE  TypeInv' /\ run' = [op |-> "apply", id |-> i, todo |-> Task("open"), step |-> "check"]
           /\ run' # Idle /\ Current' = i
<1>1. previews[i].kind = "apply" /\ Begin("apply", i, Task("open"))
  BY DEF Apply
<1>2. TodoFits("apply", Task("open"), Changed(journals[i]))
  BY TaskFits DEF TodoFits, Ends, TasksOf
<1> QED
  BY <1>1, <1>2, BeginKeeps

LEMMA ApplyRecoveryType ==
    ASSUME TypeInv, NEW i \in DOMAIN previews, ApplyRecovery(i)
    PROVE  /\ TypeInv' /\ run' # Idle /\ Current' = previews[i].of
           /\ run' = [op |-> "recover", id |-> i, todo |-> RecoveryTasks(journals[previews[i].of]), step |-> "check"]
<1>1. previews[i].kind = "recover" /\ Begin("recover", i, RecoveryTasks(journals[previews[i].of]))
  BY DEF ApplyRecovery
<1>2. previews[i] \in PreviewType
  BY DEF TypeInv, TypeOK
<1>3. previews[i].of \in 1..MaxPreviews
  BY <1>1, <1>2 DEF PreviewType
<1>4. journals[previews[i].of] \in JournalType
  BY <1>3 DEF TypeInv, TypeOK
<1>5. TodoFits("recover", RecoveryTasks(journals[previews[i].of]), Changed(journals[previews[i].of]))
  BY <1>4, RecoveryTasksFit
<1> QED
  BY <1>1, <1>5, BeginKeeps

\* The prepared journal.
Prepared(plan) ==
    [NoJournal EXCEPT !.phase = "prepared", !.order = plan.order, !.parents = Missing(plan),
                      !.before = disk, !.after = plan.after, !.extra = IF plan.update THEN extra ELSE @]

LEMMA PreparedRecord ==
    ASSUME NEW o \in Seq(Dests), NEW p \in Seq(Dirs), NEW bf \in [Dests -> Entries], NEW af \in [Dests -> Entries],
           NEW e \in [Dirs -> SUBSET {"file", "scratch"}]
    PROVE  [NoJournal EXCEPT !.phase = "prepared", !.order = o, !.parents = p, !.before = bf, !.after = af,
                             !.extra = e] \in JournalType
BY NoJournalTyped DEF JournalType

LEMMA PreparedTyped ==
    ASSUME TypeInv, NEW plan \in Plans
    PROVE  /\ Prepared(plan) \in JournalType /\ Changed(Prepared(plan)) = Range(plan.order)
           /\ Prepared(plan).phase = "prepared" /\ Prepared(plan).before = disk
           /\ Prepared(plan).after = plan.after /\ Prepared(plan).order = plan.order
           /\ Prepared(plan).parents = Missing(plan)
           /\ Prepared(plan).owned = {} /\ Prepared(plan).restoring = {} /\ Prepared(plan).completed = {}
<1>1. plan.order \in Seq(Dests) /\ Missing(plan) \in Seq(Dirs) /\ plan.after \in [Dests -> Entries]
  BY PlanTyped, MissingTyped
<1>2. disk \in [Dests -> Entries] /\ extra \in [Dirs -> SUBSET {"file", "scratch"}]
  BY DEF TypeInv, TypeOK
<1>3. NoJournal.extra \in [Dirs -> SUBSET {"file", "scratch"}]
  BY DEF NoJournal
<1>4. Prepared(plan) \in JournalType
  <2>1. (IF plan.update THEN extra ELSE NoJournal.extra) \in [Dirs -> SUBSET {"file", "scratch"}]
    BY <1>2, <1>3
  <2> DEFINE e == IF plan.update THEN extra ELSE NoJournal.extra
  <2>2. Prepared(plan) = [NoJournal EXCEPT !.phase = "prepared", !.order = plan.order,
             !.parents = Missing(plan), !.before = disk, !.after = plan.after, !.extra = e]
    BY DEF Prepared, NoJournal
  <2> HIDE DEF e
  <2>3. e \in [Dirs -> SUBSET {"file", "scratch"}]
    BY <2>1 DEF e
  <2> QED
    <3>1. [NoJournal EXCEPT !.phase = "prepared", !.order = plan.order,
             !.parents = Missing(plan), !.before = disk, !.after = plan.after, !.extra = e] \in JournalType
      BY <1>1, <1>2, <2>3, PreparedRecord, Zenon
    <3> QED
      BY <2>2, <3>1
<1> QED
  BY <1>4 DEF Prepared, NoJournal, Changed

LEMMA OpenType ==
    ASSUME TypeInv, Open
    PROVE  TypeInv'
<1>1. run # Idle /\ run.op = "apply" /\ Head(run.todo).do = "open"
  BY DoingIsBusy DEF Open
<1>2. Preview.plan \in Plans /\ Current = run.id
  BY <1>1, Busy DEF PreviewType, Current
<1>3. CASE /\ Persist(Prepared(Preview.plan)) /\ touched' = {} /\ UNCHANGED lock
           /\ run' = [run EXCEPT !.todo = ApplyTasks(Preview.plan)]
  <2>1. /\ journals' \in [1..MaxPreviews -> JournalType]
        /\ journals'[Current] = Prepared(Preview.plan)
    BY <1>1, <1>2, <1>3, PersistKeeps, PreparedTyped
  <2>2. TodoFits("apply", ApplyTasks(Preview.plan), Changed(journals'[Current]))
    BY <1>2, <2>1, PreparedTyped, ApplyTasksFit
  <2>3. run' \in RunType /\ run' # Idle /\ run'.op = run.op /\ run'.id = run.id /\ run'.todo = ApplyTasks(Preview.plan)
    <3>1. run \in RunType
      BY DEF TypeInv, TypeOK, RunType
    <3>2. ApplyTasks(Preview.plan) \in Seq(TaskType)
      BY <2>2 DEF TodoFits, AllFit
    <3> HIDE DEF ApplyTasks, Preview
    <3> QED
      BY <1>1, <1>3, <3>1, <3>2 DEF RunType, Idle
  <2>4. previews' = previews
    BY DEF Open
  <2>5. Current' = Current
    BY <1>1, <2>3, <2>4 DEF Current, Preview
  <2>6. Running'
    BY <1>1, <2>2, <2>3, <2>4, <2>5 DEF TypeInv, Running, Journal
  <2> QED
    BY <1>1, <1>3, <2>1, <2>3, <2>6 DEF Open, TypeInv, TypeOK, RunType
<1>4. CASE Abort /\ UNCHANGED <<journals, touched>>
  <2>1. run' \in RunType /\ Running' /\ run' = Idle /\ lock' = "free"
    BY <1>4, StopKeeps DEF Abort, Open
  <2> QED
    BY <1>4, <2>1 DEF Open, TypeInv, TypeOK, RunType
<1> QED
  BY <1>3, <1>4 DEF Open, Prepared

\* The tree after a change of one path.
LEMMA DiskKeeps ==
    ASSUME TypeInv, NEW d, NEW e \in Entries, disk' = [disk EXCEPT ![d] = e]
    PROVE  disk' \in [Dests -> Entries]
BY DEF TypeInv, TypeOK

LEMMA DirsEntries == Absent \in Entries /\ Dir \in Entries /\ Found \in Entries /\ Edits \subseteq Entries
BY ForkAssumption DEF Entries

LEMMA MkdirType ==
    ASSUME TypeInv, Mkdir
    PROVE  TypeInv'
<1>1. run # Idle /\ run.op = "apply" /\ Head(run.todo).do = "mkdir" /\ previews' = previews
  BY DoingIsBusy DEF Mkdir
<1>2. On \in Dirs /\ Journal \in JournalType /\ On \in Dests
  BY <1>1, Busy, ForkAssumption DEF Fitting, On
<1>3. lock = "held"
  BY <1>1 DEF TypeInv, TypeOK
<1>4. CASE /\ disk' = [disk EXCEPT ![On] = Dir]
           /\ Proceed("note")
           /\ UNCHANGED <<lock, journals>>
  <2>1. run' \in RunType /\ run' # Idle /\ Running'
    BY <1>1, <1>4, ProceedKeeps DEF Journal
  <2>2. disk' \in [Dests -> Entries]
    BY <1>4, DiskKeeps, DirsEntries
  <2> QED
    BY <1>3, <1>4, <2>1, <2>2 DEF Mkdir, TypeInv, TypeOK, RunType
<1>5. CASE Abort /\ UNCHANGED <<disk, journals>>
  <2>1. run' \in RunType /\ Running' /\ run' = Idle /\ lock' = "free"
    BY <1>1, <1>5, StopKeeps DEF Abort
  <2> QED
    BY <1>5, <2>1 DEF Mkdir, TypeInv, TypeOK, RunType
<1>6. CASE /\ Persist([Journal EXCEPT !.owned = @ \cup {On},
                                     !.completed = @ \cup ({On} \cap Changed(Journal))])
           /\ Advance
           /\ UNCHANGED <<disk, lock>>
  <2> DEFINE k == [Journal EXCEPT !.owned = @ \cup {On}, !.completed = @ \cup ({On} \cap Changed(Journal))]
  <2>1. k \in JournalType /\ Changed(k) = Changed(Journal)
    BY <1>2 DEF JournalType, Changed
  <2> HIDE DEF k
  <2>2. journals' \in [1..MaxPreviews -> JournalType] /\ journals'[Current] = k
    BY <1>1, <1>6, <2>1, PersistKeeps DEF k
  <2>3. run' \in RunType /\ run' # Idle /\ Running'
    BY <1>1, <1>6, <2>1, <2>2, AdvanceKeeps DEF Ends
  <2> QED
    BY <1>3, <1>6, <2>2, <2>3 DEF Mkdir, TypeInv, TypeOK, RunType
<1> QED
  BY <1>4, <1>5, <1>6 DEF Mkdir

LEMMA StageType ==
    ASSUME TypeInv, Stage
    PROVE  TypeInv'
<1>1. run # Idle /\ run.op = "apply" /\ Head(run.todo).do = "stage" /\ previews' = previews /\ journals' = journals
  BY DoingIsBusy DEF Stage
<1>2. lock = "held"
  BY <1>1 DEF TypeInv, TypeOK
<1>3. CASE staged' = [staged EXCEPT ![On] = "whole"] /\ Advance /\ UNCHANGED lock
  <2>1. run' \in RunType /\ run' # Idle /\ Running'
    BY <1>1, <1>3, AdvanceKeeps DEF Ends, Journal
  <2>2. staged' \in [Dests -> {"none", "part", "whole"}]
    BY <1>3 DEF TypeInv, TypeOK
  <2> QED
    BY <1>2, <1>3, <2>1, <2>2 DEF Stage, TypeInv, TypeOK, RunType
<1>4. CASE Abort /\ UNCHANGED staged
  <2>1. run' \in RunType /\ Running' /\ run' = Idle /\ lock' = "free"
    BY <1>1, <1>4, StopKeeps DEF Abort
  <2> QED
    BY <1>4, <2>1 DEF Stage, TypeInv, TypeOK, RunType
<1> QED
  BY <1>3, <1>4 DEF Stage

LEMMA StartApplyingType ==
    ASSUME TypeInv, StartApplying
    PROVE  TypeInv'
<1>1. run # Idle /\ run.op = "apply" /\ Head(run.todo).do = "start" /\ previews' = previews
  BY DoingIsBusy DEF StartApplying
<1>2. lock = "held" /\ Journal \in JournalType
  BY <1>1, Busy DEF TypeInv, TypeOK
<1> DEFINE k == [Journal EXCEPT !.phase = "applying"]
<1>3. k \in JournalType /\ Changed(k) = Changed(Journal)
  BY <1>2 DEF JournalType, Changed
<1> HIDE DEF k
<1>4. journals' \in [1..MaxPreviews -> JournalType] /\ journals'[Current] = k
  BY <1>1, <1>3, PersistKeeps DEF k, StartApplying
<1>5. run' \in RunType /\ run' # Idle /\ Running'
  BY <1>1, <1>3, <1>4, AdvanceKeeps DEF Ends, StartApplying
<1> QED
  BY <1>2, <1>4, <1>5 DEF StartApplying, TypeInv, TypeOK, RunType

LEMMA PutType ==
    ASSUME TypeInv, Put
    PROVE  TypeInv'
<1>1. run # Idle /\ run.op = "apply" /\ Head(run.todo).do = "put" /\ previews' = previews
  BY DoingIsBusy DEF Put
<1>2. On \in Changed(Journal) /\ Journal \in JournalType /\ On \in Dests /\ lock = "held"
  BY <1>1, Busy DEF Fitting, On, TypeInv, TypeOK
<1>3. CASE /\ Proceed(IF Journal.after[On] = Dir \/ (Journal.after[On] = Absent /\ Journal.before[On] = Absent)
                         THEN "note" ELSE "act")
           /\ UNCHANGED <<disk, staged, lock, journals>>
  <2>1. run' \in RunType /\ run' # Idle /\ Running'
    <3>1. (IF Journal.after[On] = Dir \/ (Journal.after[On] = Absent /\ Journal.before[On] = Absent)
                         THEN "note" ELSE "act") \in {"check", "act", "note"}
      OBVIOUS
    <3> QED
      BY <1>1, <1>3, <3>1, ProceedKeeps DEF Journal
  <2> QED
    BY <1>2, <1>3, <2>1 DEF Put, TypeInv, TypeOK, RunType
<1>4. CASE Abort /\ UNCHANGED <<disk, staged, journals>>
  <2>1. run' \in RunType /\ Running' /\ run' = Idle /\ lock' = "free"
    BY <1>1, <1>4, StopKeeps DEF Abort
  <2> QED
    BY <1>4, <2>1 DEF Put, TypeInv, TypeOK, RunType
<1>5. CASE /\ disk' = [disk EXCEPT ![On] = Journal.after[On]]
           /\ staged' = [staged EXCEPT ![On] = "none"]
           /\ Proceed("note")
           /\ UNCHANGED <<lock, journals>>
  <2>1. run' \in RunType /\ run' # Idle /\ Running'
    BY <1>1, <1>5, ProceedKeeps DEF Journal
  <2>2. disk' \in [Dests -> Entries]
    BY <1>2, <1>5, DiskKeeps DEF JournalType
  <2>3. staged' \in [Dests -> {"none", "part", "whole"}]
    BY <1>5 DEF TypeInv, TypeOK
  <2> QED
    BY <1>2, <1>5, <2>1, <2>2, <2>3 DEF Put, TypeInv, TypeOK, RunType
<1>6. CASE /\ Persist([Journal EXCEPT !.completed = @ \cup {On}])
           /\ Advance
           /\ UNCHANGED <<disk, staged, lock>>
  <2> DEFINE k == [Journal EXCEPT !.completed = @ \cup {On}]
  <2>1. k \in JournalType /\ Changed(k) = Changed(Journal)
    BY <1>2 DEF JournalType, Changed
  <2> HIDE DEF k
  <2>2. journals' \in [1..MaxPreviews -> JournalType] /\ journals'[Current] = k
    BY <1>1, <1>6, <2>1, PersistKeeps DEF k
  <2>3. run' \in RunType /\ run' # Idle /\ Running'
    BY <1>1, <1>6, <2>1, <2>2, AdvanceKeeps DEF Ends
  <2> QED
    BY <1>2, <1>6, <2>2, <2>3 DEF Put, TypeInv, TypeOK, RunType
<1> QED
  BY <1>3, <1>4, <1>5, <1>6 DEF Put

LEMMA FinishType ==
    ASSUME TypeInv, Finish
    PROVE  TypeInv'
<1>1. run # Idle /\ previews' = previews
  BY DoingIsBusy DEF Finish
<1>2. Journal \in JournalType
  BY <1>1, Busy
<1>3. [Journal EXCEPT !.phase = "complete"] \in JournalType
  BY <1>2 DEF JournalType
<1>4. journals' \in [1..MaxPreviews -> JournalType]
  <2>1. CASE Persist([Journal EXCEPT !.phase = "complete"])
    BY <1>1, <1>3, <2>1, PersistKeeps
  <2>2. CASE UNCHANGED journals
    BY <2>2 DEF TypeInv, TypeOK
  <2> QED
    BY <2>1, <2>2 DEF Finish
<1>5. run' \in RunType /\ Running' /\ run' = Idle /\ lock' = "free"
  BY <1>1, StopKeeps DEF Abort, Finish
<1> QED
  BY <1>4, <1>5 DEF Finish, TypeInv, TypeOK, RunType

LEMMA PrepareDirectoriesType ==
    ASSUME TypeInv, PrepareDirectories
    PROVE  TypeInv'
<1>1. run # Idle /\ run.op = "recover" /\ Head(run.todo).do = "prepare" /\ previews' = previews
  BY DoingIsBusy DEF PrepareDirectories
<1>2. lock = "held" /\ Journal \in JournalType
  BY <1>1, Busy DEF TypeInv, TypeOK
<1> DEFINE lost == {d \in Changed(Journal) \cap Dirs :
                       Observe(Journal.before[d]) = Dir /\ Preview.seen[d] = Absent} \ Journal.restoring
           k == [Journal EXCEPT !.restoring = @ \cup lost]
<1>3. lost \subseteq Dirs
  OBVIOUS
<1>4. spare' = spare \cup lost /\ Persist(k) /\ Advance
  BY DEF PrepareDirectories
<1> HIDE DEF lost
<1>5. k \in JournalType /\ Changed(k) = Changed(Journal)
  BY <1>2, <1>3 DEF JournalType, Changed
<1> HIDE DEF k
<1>6. journals' \in [1..MaxPreviews -> JournalType] /\ journals'[Current] = k
  BY <1>1, <1>4, <1>5, PersistKeeps
<1>7. run' \in RunType /\ run' # Idle /\ Running'
  BY <1>1, <1>4, <1>5, <1>6, AdvanceKeeps DEF Ends
<1> QED
  BY <1>2, <1>3, <1>4, <1>6, <1>7 DEF PrepareDirectories, TypeInv, TypeOK, RunType

LEMMA UnstageType ==
    ASSUME TypeInv, Unstage
    PROVE  TypeInv'
<1>1. run # Idle /\ Head(run.todo).do = "unstage" /\ previews' = previews /\ journals' = journals
  BY DoingIsBusy DEF Unstage
<1>2. lock = "held"
  BY <1>1 DEF TypeInv, TypeOK
<1>3. run' \in RunType /\ run' # Idle /\ Running'
  BY <1>1, AdvanceKeeps DEF Ends, Journal, Unstage
<1>4. staged' \in [Dests -> {"none", "part", "whole"}]
  BY DEF Unstage, TypeInv, TypeOK
<1> QED
  BY <1>2, <1>3, <1>4 DEF Unstage, TypeInv, TypeOK, RunType

\* The ways an undo can end.
UndoStep ==
    \/ /\ Advance /\ UNCHANGED lock /\ spare' \subseteq spare
       /\ disk' = disk \/ disk' = [disk EXCEPT ![On] = Journal.before[On]]
    \/ Proceed("act") /\ UNCHANGED <<disk, spare, lock>>
    \/ Abort /\ UNCHANGED <<disk, spare>>

LEMMA UndoSteps ==
    ASSUME Undo
    PROVE  UndoStep
<1>1. CASE RestoreDirectory(Journal, On)
  BY <1>1 DEF RestoreDirectory, UndoStep
<1>2. CASE UndoDirectory(Journal, On)
  BY <1>2 DEF UndoDirectory, UndoStep
<1>3. CASE UndoFile(Journal, On)
  BY <1>3 DEF UndoFile, UndoStep
<1> QED
  BY <1>1, <1>2, <1>3 DEF Undo, UndoChange

LEMMA UndoType ==
    ASSUME TypeInv, Undo
    PROVE  TypeInv'
<1>1. run # Idle /\ run.op = "recover" /\ Head(run.todo).do = "undo" /\ previews' = previews /\ journals' = journals
  BY DoingIsBusy DEF Undo
<1>2. On \in Dests /\ Journal \in JournalType /\ lock = "held"
  BY <1>1, Busy DEF Fitting, On, TypeInv, TypeOK
<1>3. CASE /\ Advance /\ UNCHANGED lock /\ spare' \subseteq spare
           /\ disk' = disk \/ disk' = [disk EXCEPT ![On] = Journal.before[On]]
  <2>1. run' \in RunType /\ run' # Idle /\ Running'
    BY <1>1, <1>3, AdvanceKeeps DEF Ends, Journal
  <2>2. disk' \in [Dests -> Entries]
    <3>1. CASE disk' = disk
      BY <3>1 DEF TypeInv, TypeOK
    <3>2. CASE disk' = [disk EXCEPT ![On] = Journal.before[On]]
      BY <1>2, <3>2, DiskKeeps DEF JournalType
    <3> QED
      BY <1>3, <3>1, <3>2
  <2> QED
    BY <1>2, <1>3, <2>1, <2>2 DEF Undo, TypeInv, TypeOK, RunType
<1>4. CASE Proceed("act") /\ UNCHANGED <<disk, spare, lock>>
  <2>1. run' \in RunType /\ run' # Idle /\ Running'
    BY <1>1, <1>4, ProceedKeeps DEF Journal
  <2> QED
    BY <1>2, <1>4, <2>1 DEF Undo, TypeInv, TypeOK, RunType
<1>5. CASE Abort /\ UNCHANGED <<disk, spare>>
  <2>1. run' \in RunType /\ Running' /\ run' = Idle /\ lock' = "free"
    BY <1>1, <1>5, StopKeeps DEF Abort
  <2> QED
    BY <1>5, <2>1 DEF Undo, TypeInv, TypeOK, RunType
<1> QED
  BY <1>3, <1>4, <1>5, UndoSteps DEF UndoStep

LEMMA RemoveParentType ==
    ASSUME TypeInv, RemoveParent
    PROVE  TypeInv'
<1>1. run # Idle /\ Head(run.todo).do = "rmdir" /\ previews' = previews /\ journals' = journals
  BY DoingIsBusy DEF RemoveParent
<1>2. lock = "held"
  BY <1>1 DEF TypeInv, TypeOK
<1>3. CASE disk' = [disk EXCEPT ![On] = Absent] /\ Advance /\ UNCHANGED lock
  <2>1. run' \in RunType /\ run' # Idle /\ Running'
    BY <1>1, <1>3, AdvanceKeeps DEF Ends, Journal
  <2>2. disk' \in [Dests -> Entries]
    BY <1>3, DiskKeeps, DirsEntries
  <2> QED
    BY <1>2, <1>3, <2>1, <2>2 DEF RemoveParent, TypeInv, TypeOK, RunType
<1>4. CASE Abort /\ UNCHANGED disk
  <2>1. run' \in RunType /\ Running' /\ run' = Idle /\ lock' = "free"
    BY <1>1, <1>4, StopKeeps DEF Abort
  <2> QED
    BY <1>4, <2>1 DEF RemoveParent, TypeInv, TypeOK, RunType
<1> QED
  BY <1>3, <1>4 DEF RemoveParent

LEMMA CloseType ==
    ASSUME TypeInv, Close
    PROVE  TypeInv'
<1>1. run # Idle /\ previews' = previews
  BY DoingIsBusy DEF Close
<1>2. Journal \in JournalType
  BY <1>1, Busy
<1>3. [Journal EXCEPT !.phase = "rolled_back"] \in JournalType
  BY <1>2 DEF JournalType
<1>4. journals' \in [1..MaxPreviews -> JournalType]
  <2>1. CASE Persist([Journal EXCEPT !.phase = "rolled_back"])
    BY <1>1, <1>3, <2>1, PersistKeeps
  <2>2. CASE UNCHANGED journals
    BY <2>2 DEF TypeInv, TypeOK
  <2> QED
    BY <2>1, <2>2 DEF Close
<1>5. run' \in RunType /\ Running' /\ run' = Idle /\ lock' = "free"
  BY <1>1, StopKeeps DEF Abort, Close
<1> QED
  BY <1>4, <1>5 DEF Close, TypeInv, TypeOK, RunType

LEMMA RemainsKeeps ==
    ASSUME TypeInv, run # Idle, Remains(Head(run.todo).do)
    PROVE  /\ disk' \in [Dests -> Entries] /\ staged' \in [Dests -> {"none", "part", "whole"}]
           /\ journals' \in [1..MaxPreviews -> JournalType]
<1>1. /\ disk \in [Dests -> Entries] /\ staged \in [Dests -> {"none", "part", "whole"}]
      /\ journals \in [1..MaxPreviews -> JournalType] /\ Journal \in JournalType
      /\ Fitting(run.op, Head(run.todo), Changed(Journal)) /\ Changed(Journal) \subseteq Dests
  BY Busy DEF TypeInv, TypeOK
<1>2. CASE UNCHANGED <<disk, staged, journals>>
  BY <1>1, <1>2
<1>3. CASE Persist([NoJournal EXCEPT !.phase = "torn"]) /\ UNCHANGED <<disk, staged>>
  <2>1. [NoJournal EXCEPT !.phase = "torn"] \in JournalType
    BY NoJournalTyped DEF JournalType
  <2> QED
    BY <1>1, <1>3, <2>1, PersistKeeps
<1>4. CASE staged' = [staged EXCEPT ![On] = "part"] /\ UNCHANGED <<disk, journals>>
  BY <1>1, <1>4
<1>5. CASE /\ Head(run.todo).do = "put"
           /\ disk' = [disk EXCEPT ![On] = Journal.after[On]] /\ UNCHANGED <<staged, journals>>
  <2>1. On \in Dests
    BY <1>1, <1>5 DEF Fitting, On
  <2> QED
    BY <1>1, <1>5, <2>1, DiskKeeps DEF JournalType
<1> QED
  BY <1>2, <1>3, <1>4, <1>5 DEF Remains

LEMMA SpendKeeps ==
    ASSUME TypeInv, NEW what \in {"edits", "faults", "crashes"}, Spend(what)
    PROVE  spent' \in [edits : Nat, faults : Nat, crashes : Nat]
<1>1. /\ spent \in [edits : Nat, faults : Nat, crashes : Nat] /\ spent[what] + 1 \in Nat
      /\ spent' = [spent EXCEPT ![what] = spent[what] + 1]
  <2>1. spent \in [edits : Nat, faults : Nat, crashes : Nat]
    BY DEF TypeInv, TypeOK
  <2> QED
    BY <2>1 DEF Spend
<1> QED
  BY <1>1

LEMMA FaultType ==
    ASSUME TypeInv, Fault
    PROVE  TypeInv'
<1>1. run # Idle /\ previews' = previews
  BY DEF Fault
<1>2. run' \in RunType /\ Running' /\ run' = Idle /\ lock' = "free"
  BY <1>1, StopKeeps DEF Abort, Fault
<1>3. spent' \in [edits : Nat, faults : Nat, crashes : Nat]
  BY SpendKeeps DEF Fault
<1>4. /\ disk' \in [Dests -> Entries] /\ staged' \in [Dests -> {"none", "part", "whole"}]
      /\ journals' \in [1..MaxPreviews -> JournalType]
  <2>1. CASE Remains(Head(run.todo).do)
    BY <1>1, <2>1, RemainsKeeps
  <2>2. CASE /\ Doing("apply", "mkdir")
             /\ disk' = [disk EXCEPT ![On] = IF @ = Dir /\ Empty(On) THEN Absent ELSE @]
             /\ \/ UNCHANGED journals
                \/ Persist([Journal EXCEPT !.owned = @ \cup {On}])
             /\ UNCHANGED staged
    <3>1. run.op = "apply" /\ Head(run.todo).do = "mkdir"
      BY <2>2, DoingIsBusy
    <3>2. On \in Dirs /\ On \in Dests /\ Journal \in JournalType
      BY <1>1, <3>1, Busy, ForkAssumption DEF Fitting, On
    <3>3. disk' \in [Dests -> Entries]
      <4>1. disk \in [Dests -> Entries]
        BY DEF TypeInv, TypeOK
      <4>2. (IF disk[On] = Dir /\ Empty(On) THEN Absent ELSE disk[On]) \in Entries
        BY <3>2, <4>1, DirsEntries
      <4>3. disk' = [disk EXCEPT ![On] = IF disk[On] = Dir /\ Empty(On) THEN Absent ELSE disk[On]]
        BY <2>2
      <4> QED
        BY <4>2, <4>3, DiskKeeps
    <3>4. journals' \in [1..MaxPreviews -> JournalType]
      <4>1. [Journal EXCEPT !.owned = @ \cup {On}] \in JournalType
        BY <3>2 DEF JournalType
      <4>2. CASE UNCHANGED journals
        BY <4>2 DEF TypeInv, TypeOK
      <4>3. CASE Persist([Journal EXCEPT !.owned = @ \cup {On}])
        BY <1>1, <4>1, <4>3, PersistKeeps
      <4> QED
        BY <2>2, <4>2, <4>3
    <3> QED
      BY <2>2, <3>3, <3>4 DEF TypeInv, TypeOK
  <2> QED
    BY <2>1, <2>2 DEF Fault
<1> QED
  BY <1>2, <1>3, <1>4 DEF Fault, TypeInv, TypeOK, RunType

LEMMA CrashType ==
    ASSUME TypeInv, Crash
    PROVE  TypeInv'
<1>1. run # Idle /\ previews' = previews /\ run' = Idle /\ lock' = "stale"
  BY DEF Crash
<1>2. run' \in RunType /\ Running'
  BY <1>1, StopKeeps
<1>3. spent' \in [edits : Nat, faults : Nat, crashes : Nat]
  BY SpendKeeps DEF Crash
<1>4. /\ disk' \in [Dests -> Entries] /\ staged' \in [Dests -> {"none", "part", "whole"}]
      /\ journals' \in [1..MaxPreviews -> JournalType]
  BY <1>1, RemainsKeeps DEF Crash
<1>5. extra' \in [Dirs -> SUBSET {"file", "scratch"}]
  <2>1. extra \in [Dirs -> SUBSET {"file", "scratch"}]
    BY DEF TypeInv, TypeOK
  <2>2. CASE extra' = [extra EXCEPT ![Parent[On]] = @ \cup {"scratch"}]
    BY <2>1, <2>2
  <2> QED
    BY <2>1, <2>2 DEF Crash
<1> QED
  BY <1>1, <1>2, <1>3, <1>4, <1>5 DEF Crash, TypeInv, TypeOK, RunType

\* What leaves the command, its preview and the journals alone.
LEMMA OutsideKeeps ==
    ASSUME TypeInv, UNCHANGED <<run, previews, journals>>
    PROVE  Running' /\ Current' = Current /\ Preview' = Preview /\ Journal' = Journal /\ On' = On
BY DEF TypeInv, Running, Journal, Current, Preview, On

LEMMA EditsType ==
    ASSUME TypeInv,
           \/ RemoveLock
           \/ \E d \in Dests, c \in Edits \cup {Absent} : EditFile(d, c)
           \/ \E d \in Dirs : EditDirectory(d) \/ EditExtra(d, {}) \/ EditExtra(d, {"file"})
    PROVE  TypeInv'
<1>1. CASE RemoveLock
  <2>1. Running' /\ (run = Idle)
    BY <1>1, OutsideKeeps DEF RemoveLock, TypeInv, TypeOK
  <2> QED
    BY <1>1, <2>1 DEF RemoveLock, TypeInv, TypeOK
<1>2. ASSUME NEW d \in Dests, NEW c \in Edits \cup {Absent}, EditFile(d, c) PROVE TypeInv'
  <2>1. Running'
    BY <1>2, OutsideKeeps DEF EditFile
  <2>2. c \in Entries /\ Absent \in Entries
    BY DirsEntries
  <2>3. disk' \in [Dests -> Entries] /\ spent' \in [edits : Nat, faults : Nat, crashes : Nat]
    BY <1>2, <2>2, DiskKeeps, SpendKeeps DEF EditFile
  <2>4. saved' \in [Dests -> Entries]
    <3>1. (IF InWindow(d) THEN Absent ELSE c) \in Entries
      BY <2>2
    <3> QED
      BY <1>2, <3>1 DEF EditFile, TypeInv, TypeOK
  <2> QED
    BY <1>2, <2>1, <2>3, <2>4 DEF EditFile, TypeInv, TypeOK
<1>3. ASSUME NEW d \in Dirs, EditDirectory(d) PROVE TypeInv'
  <2>1. Running'
    BY <1>3, OutsideKeeps DEF EditDirectory
  <2>2. (IF IsDir(d) THEN Absent ELSE Found) \in Entries
    BY DirsEntries
  <2>3. disk' \in [Dests -> Entries] /\ spent' \in [edits : Nat, faults : Nat, crashes : Nat]
    BY <1>3, <2>2, DiskKeeps, SpendKeeps DEF EditDirectory
  <2> QED
    BY <1>3, <2>1, <2>3, ForkAssumption DEF EditDirectory, TypeInv, TypeOK
<1>4. ASSUME NEW d \in Dirs, NEW es \in {{}, {"file"}}, EditExtra(d, es) PROVE TypeInv'
  <2>1. Running'
    BY <1>4, OutsideKeeps DEF EditExtra
  <2>2. extra' \in [Dirs -> SUBSET {"file", "scratch"}] /\ spent' \in [edits : Nat, faults : Nat, crashes : Nat]
    BY <1>4, SpendKeeps DEF EditExtra, TypeInv, TypeOK
  <2> QED
    BY <1>4, <2>1, <2>2, ForkAssumption DEF EditExtra, TypeInv, TypeOK
<1> QED
  BY <1>1, <1>2, <1>3, <1>4

LEMMA TypeStutter ==
    ASSUME TypeInv, UNCHANGED vars
    PROVE  TypeInv'
<1>1. Running'
  BY OutsideKeeps DEF vars
<1> QED
  BY <1>1 DEF vars, TypeInv, TypeOK

LEMMA TypeNext == TypeInv /\ [Next]_vars => TypeInv'
<1> SUFFICES ASSUME TypeInv, [Next]_vars PROVE TypeInv'
  OBVIOUS
<1>1. ASSUME NEW plan \in Plans, Prepare(plan) PROVE TypeInv'
  BY <1>1, PrepareType
<1>2. ASSUME NEW i \in 1..MaxPreviews, PlanRollback(i) PROVE TypeInv'
  BY <1>2, PlanRollbackType
<1>3. ASSUME NEW i \in DOMAIN previews, Apply(i) PROVE TypeInv'
  BY <1>3, ApplyType
<1>4. ASSUME NEW i \in DOMAIN previews, ApplyRecovery(i) PROVE TypeInv'
  BY <1>4, ApplyRecoveryType
<1> QED
  BY <1>1, <1>2, <1>3, <1>4, OpenType, MkdirType, StageType, StartApplyingType, PutType, FinishType,
     PrepareDirectoriesType, UnstageType, UndoType, RemoveParentType, CloseType, FaultType, CrashType,
     EditsType, TypeStutter
  DEF Next

\* The shape of the store, its journals and the command in progress, and
\* the lock that a command gives back unless it dies (TypeOK), whatever the
\* paths, plans, edits, faults and crashes.
THEOREM TypeCorrect == Spec => []TypeOK
<1>1. Spec => []TypeInv
  BY TypeInit, TypeNext, PTL DEF Spec
<1>2. TypeInv => TypeOK
  BY DEF TypeInv
<1> QED
  BY <1>1, <1>2, PTL

-----------------------------------------------------------------------------
(***************************************************************************)
(* No edit is lost.  A command overwrites or removes a file only when what *)
(* it last saw there is in its journal: an apply because it found the      *)
(* journal's before, a recovery because what it was prepared for is one of *)
(* the journal's two sides.  Between that look and the replacement the     *)
(* promise is carried by the step "act" (Looked); a name that was free is  *)
(* not overwritten at all.  And a journal, once it can be read, keeps      *)
(* what it has.                                                            *)
(***************************************************************************)

Kept(j) == j.phase \notin {"none", "torn"}

InJournal(js, d, v) ==
    \E i \in 1..MaxPreviews :
       Kept(js[i]) /\ d \in Changed(js[i]) /\ v \in {js[i].before[d], js[i].after[d]}

\* What the command saw at the path it works on.
Expected == IF run.op = "apply" THEN Journal.before[On] ELSE Preview.seen[On]

Looked ==
    run.step = "act" =>
       /\ Head(run.todo).do \in {"put", "undo"}
       /\ Expected # Absent /\ saved[On] # Absent => InJournal(journals, On, saved[On])
       /\ Journal.before[On] # Absent
          \/ (IF run.op = "apply" THEN Journal.after[On] ELSE Preview.seen[On]) # Absent

Journaled ==
    \/ run.op = "apply" /\ run.todo = Task("open") /\ Journal.phase = "none"
    \/ Kept(Journal) /\ \A k \in 1..Len(run.todo) : run.todo[k].do # "open"

KnownSides ==
    run.op = "recover" =>
       \A d \in Changed(Journal) :
          Observe(Preview.seen[d]) \in {Observe(Journal.before[d]), Journal.after[d]}

SavedType == \A d \in Dests : saved[d] \in Edits \cup {Absent} /\ (d \in Dirs => saved[d] = Absent)

SavedKept == \A d \in Dests : saved[d] # Absent => disk[d] = saved[d] \/ InJournal(journals, d, saved[d])

PreviewsKept == \A i \in DOMAIN previews : previews[i].kind = "recover" => Kept(previews[i].journal)

CommandKnows == run # Idle => Looked /\ Journaled /\ KnownSides

EditsInv == SavedType /\ SavedKept /\ PreviewsKept /\ CommandKnows

\* k is j with more in it.
Grown(j, k) == Kept(k) /\ k.order = j.order /\ k.before = j.before /\ k.after = j.after

Grow(js, ks) == \A i \in 1..MaxPreviews : Kept(js[i]) => Grown(js[i], ks[i])

LEMMA GrowKeeps ==
    ASSUME NEW js, NEW ks, Grow(js, ks), NEW d, NEW v, InJournal(js, d, v)
    PROVE  InJournal(ks, d, v)
<1>1. PICK i \in 1..MaxPreviews :
         Kept(js[i]) /\ d \in Changed(js[i]) /\ v \in {js[i].before[d], js[i].after[d]}
  BY DEF InJournal
<1>2. Grown(js[i], ks[i])
  BY <1>1 DEF Grow
<1>3. Kept(ks[i]) /\ d \in Changed(ks[i]) /\ v \in {ks[i].before[d], ks[i].after[d]}
  BY <1>1, <1>2 DEF Grown, Changed
<1> QED
  BY <1>3 DEF InJournal

LEMMA GrowSame == ASSUME NEW js PROVE Grow(js, js)
BY DEF Grow, Grown

LEMMA PersistGrows ==
    ASSUME TypeInv, run # Idle, NEW j \in JournalType, Persist(j), Kept(Journal) => Grown(Journal, j)
    PROVE  Grow(journals, journals')
<1>1. /\ journals'[Current] = j /\ Current \in 1..MaxPreviews
      /\ \A i \in 1..MaxPreviews : i # Current => journals'[i] = journals[i]
  BY PersistKeeps, Busy
<1> QED
  BY <1>1 DEF Grow, Grown, Journal

\* A command leaves alone what was saved last, or has it in a journal.
LEMMA SavedStays ==
    ASSUME TypeInv, EditsInv, saved' = saved, Grow(journals, journals'),
           \A d \in Dests \ Dirs :
              \/ disk'[d] = disk[d] \/ disk[d] # saved[d] \/ saved[d] = Absent
              \/ InJournal(journals, d, saved[d])
    PROVE  SavedType' /\ SavedKept'
<1>1. SavedType'
  BY DEF EditsInv, SavedType
<1>2. ASSUME NEW d \in Dests, saved[d] # Absent
      PROVE  disk'[d] = saved[d] \/ InJournal(journals', d, saved[d])
  <2>1. d \notin Dirs
    BY <1>2 DEF EditsInv, SavedType
  <2>2. disk[d] = saved[d] \/ InJournal(journals, d, saved[d])
    BY <1>2 DEF EditsInv, SavedKept
  <2>3. CASE InJournal(journals, d, saved[d])
    BY <2>3, GrowKeeps
  <2>4. CASE disk[d] = saved[d] /\ disk'[d] = disk[d]
    BY <2>4
  <2> QED
    BY <1>2, <2>1, <2>2, <2>3, <2>4
<1>3. SavedKept'
  BY <1>2 DEF SavedKept
<1> QED
  BY <1>1, <1>3

LEMMA CommandHas ==
    ASSUME TypeInv, EditsInv, run # Idle, Head(run.todo).do # "open"
    PROVE  Kept(Journal) /\ \A k \in 1..Len(run.todo) : run.todo[k].do # "open"
<1>1. Head(Task("open")).do = "open"
  BY DEF Task
<1> QED
  BY <1>1 DEF EditsInv, CommandKnows, Journaled

LEMMA AdvanceKnows ==
    ASSUME TypeInv, EditsInv, run # Idle, Head(run.todo).do \notin Ends, Advance, previews' = previews,
           Grown(Journal, journals'[Current])
    PROVE  PreviewsKept' /\ CommandKnows'
<1>1. Kept(Journal) /\ \A k \in 1..Len(run.todo) : run.todo[k].do # "open"
  BY CommandHas DEF Ends
<1>2. Current' = Current /\ run'.op = run.op /\ run'.id = run.id /\ run' # Idle
  BY AdvanceKeeps DEF Grown, Changed
<1>3. run'.step = "check" /\ run'.todo = Tail(run.todo)
  BY DEF Advance, TypeInv, TypeOK
<1>4. Preview' = Preview /\ Journal' = journals'[Current]
  BY <1>2 DEF Preview, Journal
<1>5. \A k \in 1..Len(Tail(run.todo)) : Tail(run.todo)[k].do # "open"
  <2>1. run.todo \in Seq(TaskType) /\ run.todo # <<>>
    BY Busy DEF TypeInv, TypeOK
  <2>2. Len(Tail(run.todo)) = Len(run.todo) - 1 /\ Len(run.todo) \in Nat
        /\ \A k \in 1..(Len(run.todo) - 1) : Tail(run.todo)[k] = run.todo[k + 1]
    BY <2>1
  <2>3. \A k \in 1..(Len(run.todo) - 1) : k + 1 \in 1..Len(run.todo)
    BY <2>2
  <2> QED
    BY <1>1, <2>2, <2>3
<1>6. Journaled'
  BY <1>3, <1>4, <1>5 DEF Journaled, Grown
<1>7. Looked'
  BY <1>3 DEF Looked
<1>8. KnownSides'
  BY <1>2, <1>4 DEF KnownSides, EditsInv, CommandKnows, Grown, Changed
<1>9. PreviewsKept'
  BY DEF EditsInv, PreviewsKept
<1> QED
  BY <1>6, <1>7, <1>8, <1>9 DEF CommandKnows

LEMMA ProceedKnows ==
    ASSUME TypeInv, EditsInv, run # Idle, Head(run.todo).do # "open", NEW step \in {"act", "note"}, Proceed(step),
           UNCHANGED <<previews, journals, saved>>,
           step = "act" =>
             /\ Head(run.todo).do \in {"put", "undo"}
             /\ Expected # Absent /\ saved[On] # Absent => InJournal(journals, On, saved[On])
             /\ Journal.before[On] # Absent
                \/ (IF run.op = "apply" THEN Journal.after[On] ELSE Preview.seen[On]) # Absent
    PROVE  PreviewsKept' /\ CommandKnows'
<1>1. /\ Current' = Current /\ run'.op = run.op /\ run'.id = run.id /\ run' # Idle
      /\ run'.todo = run.todo /\ run'.step = step
  BY ProceedKeeps DEF Journal
<1>2. Preview' = Preview /\ Journal' = Journal /\ On' = On /\ Expected' = Expected
  BY <1>1 DEF Preview, Journal, On, Expected
<1>3. Journaled'
  BY <1>1, <1>2 DEF Journaled, EditsInv, CommandKnows
<1>4. Looked'
  BY <1>1, <1>2 DEF Looked
<1>5. KnownSides'
  BY <1>1, <1>2 DEF KnownSides, EditsInv, CommandKnows
<1>6. PreviewsKept'
  BY DEF EditsInv, PreviewsKept
<1> QED
  BY <1>3, <1>4, <1>5, <1>6 DEF CommandKnows

LEMMA StopKnows ==
    ASSUME EditsInv, run' = Idle, previews' = previews
    PROVE  PreviewsKept' /\ CommandKnows'
BY DEF EditsInv, PreviewsKept, CommandKnows

LEMMA EditsInit == Init => EditsInv
<1> SUFFICES ASSUME Init PROVE EditsInv
  OBVIOUS
<1>1. SavedType /\ SavedKept
  BY DEF Init, SavedType, SavedKept
<1>2. PreviewsKept /\ CommandKnows
  BY DEF Init, PreviewsKept, CommandKnows
<1> QED
  BY <1>1, <1>2 DEF EditsInv

\* What changes neither tree, journals nor command.
LEMMA CommandSame ==
    ASSUME TypeInv, EditsInv, UNCHANGED <<run, journals, saved>>,
           run # Idle => Current' = Current /\ Preview' = Preview
    PROVE  CommandKnows'
<1> SUFFICES ASSUME run # Idle PROVE Looked' /\ Journaled' /\ KnownSides'
  BY DEF CommandKnows
<1>1. Preview' = Preview /\ Journal' = Journal /\ On' = On /\ Expected' = Expected
  BY DEF Journal, On, Expected
<1>2. Looked /\ Journaled /\ KnownSides
  BY DEF EditsInv, CommandKnows
<1> QED
  BY <1>1, <1>2 DEF Looked, Journaled, KnownSides

LEMMA PreparesEdits ==
    ASSUME TypeInv, EditsInv,
           (\E plan \in Plans : Prepare(plan)) \/ (\E i \in 1..MaxPreviews : PlanRollback(i))
    PROVE  EditsInv'
<1>1. ASSUME NEW p \in PreviewType, Len(previews) < MaxPreviews, previews' = Append(previews, p),
             UNCHANGED <<disk, run, journals, saved>>, p.kind = "recover" => Kept(p.journal)
      PROVE  EditsInv'
  <2>1. /\ \A i \in DOMAIN previews : previews'[i] = previews[i]
        /\ DOMAIN previews' = DOMAIN previews \cup {Len(previews) + 1}
        /\ previews'[Len(previews) + 1] = p
        /\ run # Idle => Current' = Current /\ Preview' = Preview
    BY <1>1, PreviewKeeps
  <2>2. SavedType' /\ SavedKept'
    BY <1>1, SavedStays, GrowSame
  <2>3. PreviewsKept'
    BY <1>1, <2>1 DEF EditsInv, PreviewsKept
  <2>4. CommandKnows'
    BY <1>1, <2>1, CommandSame
  <2> QED
    BY <2>2, <2>3, <2>4 DEF EditsInv
<1>2. ASSUME NEW plan \in Plans, Prepare(plan) PROVE EditsInv'
  <2> DEFINE p == [kind |-> "apply", plan |-> plan, seen |-> disk, extra |-> extra]
  <2>1. p \in PreviewType /\ p.kind # "recover"
    BY DEF PreviewType, TypeInv, TypeOK
  <2>2. Len(previews) < MaxPreviews /\ previews' = Append(previews, p) /\ UNCHANGED <<disk, run, journals, saved>>
    BY <1>2 DEF Prepare
  <2> HIDE DEF p
  <2> QED
    BY <1>1, <2>1, <2>2
<1>3. ASSUME NEW i \in 1..MaxPreviews, PlanRollback(i) PROVE EditsInv'
  <2> DEFINE p == [kind |-> "recover", of |-> i, journal |-> journals[i], seen |-> disk, staged |-> staged]
  <2>1. p \in PreviewType /\ p.journal = journals[i]
    BY DEF PreviewType, TypeInv, TypeOK
  <2>2. Len(previews) < MaxPreviews /\ previews' = Append(previews, p) /\ UNCHANGED <<disk, run, journals, saved>>
    BY <1>3 DEF PlanRollback
  <2>3. Kept(journals[i])
    BY <1>3 DEF PlanRollback, Readable, Incomplete, Ended, Kept
  <2> HIDE DEF p
  <2> QED
    BY <1>1, <2>1, <2>2, <2>3
<1> QED
  BY <1>2, <1>3

LEMMA BeginsEdits ==
    ASSUME TypeInv, EditsInv, NEW i \in DOMAIN previews, Apply(i) \/ ApplyRecovery(i)
    PROVE  EditsInv'
<1>1. UNCHANGED <<disk, journals, saved, previews>>
  BY DEF Apply, ApplyRecovery, Begin
<1>2. SavedType' /\ SavedKept'
  BY <1>1, SavedStays, GrowSame
<1>3. PreviewsKept'
  BY <1>1 DEF EditsInv, PreviewsKept
<1>4. CASE Apply(i)
  <2>1. run' = [op |-> "apply", id |-> i, todo |-> Task("open"), step |-> "check"] /\ Current' = i
    BY <1>4, ApplyType
  <2>2. Journal' = journals[i] /\ journals[i].phase = "none"
    BY <1>1, <1>4, <2>1 DEF Journal, Apply
  <2>3. CommandKnows'
    BY <2>1, <2>2 DEF CommandKnows, Looked, Journaled, KnownSides
  <2> QED
    BY <1>2, <1>3, <2>3 DEF EditsInv
<1>5. CASE ApplyRecovery(i)
  <2> DEFINE p == previews[i]
             j == journals[p.of]
  <2>1. /\ run' = [op |-> "recover", id |-> i, todo |-> RecoveryTasks(j), step |-> "check"]
        /\ Current' = p.of
    BY <1>5, ApplyRecoveryType
  <2>2. p.kind = "recover" /\ j = p.journal /\ Observations(j)
        /\ \A d \in Known(j) \cup Ancestors : disk[d] = p.seen[d]
    BY <1>5 DEF ApplyRecovery
  <2>3. Journal' = j /\ Preview' = p
    BY <1>1, <2>1 DEF Journal, Preview
  <2>4. Kept(j)
    BY <2>2 DEF EditsInv, PreviewsKept
  <2>5. j \in JournalType
    <3>1. p \in PreviewType
      BY DEF TypeInv, TypeOK
    <3> QED
      BY <2>2, <3>1 DEF PreviewType
  <2>6. \A k \in 1..Len(RecoveryTasks(j)) : RecoveryTasks(j)[k].do # "open"
    BY <2>5, RecoveryTasksFit DEF TodoFits, AllFit, Fitting, TasksOf
  <2>7. \A d \in Changed(j) : Observe(p.seen[d]) \in {Observe(j.before[d]), j.after[d]}
    BY <2>2 DEF Observations, Known
  <2> HIDE DEF p, j
  <2>8. Looked' /\ Journaled' /\ KnownSides'
    <3>1. run'.step = "check" /\ run'.todo = RecoveryTasks(j)
      BY <2>1
    <3> QED
      BY <2>3, <2>4, <2>6, <2>7, <3>1 DEF Looked, Journaled, KnownSides
  <2> QED
    BY <1>2, <1>3, <2>8 DEF EditsInv, CommandKnows
<1> QED
  BY <1>4, <1>5

LEMMA OpenEdits ==
    ASSUME TypeInv, EditsInv, Open
    PROVE  EditsInv'
<1>1. run # Idle /\ run.op = "apply" /\ Head(run.todo).do = "open" /\ UNCHANGED <<disk, saved, previews>>
  BY DoingIsBusy DEF Open
<1>2. Journal.phase = "none"
  <2>1. ~(\A k \in 1..Len(run.todo) : run.todo[k].do # "open")
    <3>1. run.todo \in Seq(TaskType) /\ run.todo # <<>>
      BY <1>1, Busy DEF TypeInv, TypeOK
    <3>2. 1 \in 1..Len(run.todo) /\ Head(run.todo) = run.todo[1]
      BY <3>1
    <3> QED
      BY <1>1, <3>2
  <2> QED
    BY <1>1, <2>1 DEF EditsInv, CommandKnows, Journaled
<1>3. Preview.plan \in Plans
  BY <1>1, Busy DEF PreviewType
<1>4. CASE Persist(Prepared(Preview.plan)) /\ run' = [run EXCEPT !.todo = ApplyTasks(Preview.plan)]
  <2>1. Prepared(Preview.plan) \in JournalType /\ Prepared(Preview.plan).phase = "prepared"
    BY <1>3, PreparedTyped
  <2>2. journals'[Current] = Prepared(Preview.plan)
    BY <1>1, <1>4, <2>1, PersistKeeps
  <2>3. Grow(journals, journals')
    BY <1>1, <1>2, <1>4, <2>1, PersistGrows DEF Kept
  <2>4. SavedType' /\ SavedKept'
    BY <1>1, <2>3, SavedStays
  <2>5. PreviewsKept'
    BY <1>1 DEF EditsInv, PreviewsKept
  <2>6. run.step # "act"
    BY <1>1 DEF EditsInv, CommandKnows, Looked
  <2>7. run'.step # "act" /\ run'.op = "apply" /\ run'.id = run.id /\ run'.todo = ApplyTasks(Preview.plan)
    BY <1>1, <1>4, <2>6 DEF TypeInv, TypeOK
  <2>8. Current' = Current
    BY <1>1, <2>7 DEF Current
  <2>9. \A k \in 1..Len(ApplyTasks(Preview.plan)) : ApplyTasks(Preview.plan)[k].do # "open"
    BY <1>3, ApplyTasksFit
  <2>10. Looked' /\ Journaled' /\ KnownSides'
    BY <2>1, <2>2, <2>7, <2>8, <2>9 DEF Looked, Journaled, KnownSides, Journal, Kept
  <2> QED
    BY <2>4, <2>5, <2>10 DEF EditsInv, CommandKnows
<1>5. CASE Abort /\ UNCHANGED journals
  BY <1>1, <1>5, SavedStays, StopKnows, GrowSame DEF Abort, EditsInv
<1> QED
  BY <1>4, <1>5 DEF Open, Prepared

LEMMA MkdirEdits ==
    ASSUME TypeInv, EditsInv, Mkdir
    PROVE  EditsInv'
<1>1. run # Idle /\ run.op = "apply" /\ Head(run.todo).do = "mkdir" /\ UNCHANGED <<saved, previews>>
  BY DoingIsBusy DEF Mkdir
<1>2. On \in Dirs /\ Journal \in JournalType /\ Kept(Journal)
  BY <1>1, Busy, CommandHas DEF Fitting, On
<1>3. CASE disk' = [disk EXCEPT ![On] = Dir] /\ Proceed("note") /\ UNCHANGED <<lock, journals>>
  <2>1. \A d \in Dests \ Dirs : disk'[d] = disk[d]
    BY <1>2, <1>3 DEF TypeInv, TypeOK
  <2>2. SavedType' /\ SavedKept'
    BY <1>1, <1>3, <2>1, SavedStays, GrowSame
  <2>3. PreviewsKept' /\ CommandKnows'
    BY <1>1, <1>3, ProceedKnows
  <2> QED
    BY <2>2, <2>3 DEF EditsInv
<1>4. CASE Abort /\ UNCHANGED <<disk, journals>>
  BY <1>1, <1>4, SavedStays, StopKnows, GrowSame DEF Abort, EditsInv
<1>5. CASE /\ Persist([Journal EXCEPT !.owned = @ \cup {On},
                                     !.completed = @ \cup ({On} \cap Changed(Journal))])
           /\ Advance
           /\ UNCHANGED <<disk, lock>>
  <2> DEFINE k == [Journal EXCEPT !.owned = @ \cup {On}, !.completed = @ \cup ({On} \cap Changed(Journal))]
  <2>1. k \in JournalType
    BY <1>1, <1>2, Busy DEF JournalType
  <2>2. Grown(Journal, k)
    BY <1>2 DEF JournalType, Grown, Kept
  <2> HIDE DEF k
  <2>3. journals'[Current] = k /\ Grow(journals, journals')
    BY <1>1, <1>5, <2>1, <2>2, PersistKeeps, PersistGrows DEF k
  <2>4. SavedType' /\ SavedKept'
    BY <1>1, <1>5, <2>3, SavedStays
  <2>5. PreviewsKept' /\ CommandKnows'
    BY <1>1, <1>5, <2>2, <2>3, AdvanceKnows DEF Ends
  <2> QED
    BY <2>4, <2>5 DEF EditsInv
<1> QED
  BY <1>3, <1>4, <1>5 DEF Mkdir

LEMMA StageEdits ==
    ASSUME TypeInv, EditsInv, Stage \/ Unstage
    PROVE  EditsInv'
<1>1. /\ run # Idle /\ Head(run.todo).do \in {"stage", "unstage"} 
      /\ UNCHANGED <<disk, journals, saved, previews>>
  BY DoingIsBusy DEF Stage, Unstage
<1>2. SavedType' /\ SavedKept'
  BY <1>1, SavedStays, GrowSame
<1>3. CASE Advance
  <2>1. Kept(Journal)
    BY <1>1, CommandHas
  <2>2. Grown(Journal, journals'[Current])
    BY <1>1, <2>1 DEF Grown, Journal
  <2> QED
    BY <1>1, <1>2, <1>3, <2>2, AdvanceKnows DEF Ends, EditsInv
<1>4. CASE Abort
  BY <1>1, <1>2, <1>4, StopKnows DEF Abort, EditsInv
<1> QED
  BY <1>3, <1>4 DEF Stage, Unstage

LEMMA StartApplyingEdits ==
    ASSUME TypeInv, EditsInv, StartApplying
    PROVE  EditsInv'
<1>1. run # Idle /\ Head(run.todo).do = "start" /\ UNCHANGED <<disk, saved, previews>>
  BY DoingIsBusy DEF StartApplying
<1>2. Journal \in JournalType /\ Kept(Journal)
  BY <1>1, Busy, CommandHas
<1> DEFINE k == [Journal EXCEPT !.phase = "applying"]
<1>3. k \in JournalType /\ Grown(Journal, k)
  BY <1>2 DEF JournalType, Grown, Kept
<1> HIDE DEF k
<1>4. journals'[Current] = k /\ Grow(journals, journals')
  BY <1>1, <1>3, PersistKeeps, PersistGrows DEF k, StartApplying
<1>5. SavedType' /\ SavedKept'
  BY <1>1, <1>4, SavedStays
<1>6. PreviewsKept' /\ CommandKnows'
  BY <1>1, <1>3, <1>4, AdvanceKnows DEF Ends, StartApplying
<1> QED
  BY <1>5, <1>6 DEF EditsInv

\* observe() tells an edit from everything else.
LEMMA ObserveEdit ==
    ASSUME NEW v \in Edits, NEW e, Observe(e) = Observe(v)
    PROVE  e = v
BY ForkAssumption DEF Observe

LEMMA PutEdits ==
    ASSUME TypeInv, EditsInv, Put
    PROVE  EditsInv'
<1>1. run # Idle /\ run.op = "apply" /\ Head(run.todo).do = "put" /\ UNCHANGED <<saved, previews>>
  BY DoingIsBusy DEF Put
<1>2. On \in Changed(Journal) /\ Journal \in JournalType /\ Kept(Journal) /\ On \in Dests
      /\ Current \in 1..MaxPreviews
  BY <1>1, Busy, CommandHas DEF Fitting, On
<1>3. CASE /\ Promotable(Journal, On) /\ Unmoved(Journal, On)
           /\ Proceed(IF Journal.after[On] = Dir \/ (Journal.after[On] = Absent /\ Journal.before[On] = Absent)
                      THEN "note" ELSE "act")
           /\ UNCHANGED <<disk, staged, lock, journals>>
  <2> DEFINE step == IF Journal.after[On] = Dir \/ (Journal.after[On] = Absent /\ Journal.before[On] = Absent)
                     THEN "note" ELSE "act"
  <2>1. SavedType' /\ SavedKept'
    BY <1>1, <1>3, SavedStays, GrowSame
  <2>2. step \in {"act", "note"}
    OBVIOUS
  <2>3. ASSUME step = "act", saved[On] # Absent PROVE InJournal(journals, On, saved[On])
    <3>1. disk[On] = saved[On] \/ InJournal(journals, On, saved[On])
      BY <1>2, <2>3 DEF EditsInv, SavedKept
    <3>2. CASE disk[On] = saved[On]
      <4>1. Observe(Journal.before[On]) = Observe(saved[On])
        BY <1>3, <2>3, <3>2 DEF Unmoved
      <4>2. saved[On] \in Edits
        BY <1>2, <2>3 DEF EditsInv, SavedType
      <4>3. Journal.before[On] = saved[On]
        BY <4>1, <4>2, ObserveEdit
      <4> QED
        BY <1>2, <4>3 DEF InJournal, Journal
    <3> QED
      BY <3>1, <3>2
  <2>4. step = "act" => Journal.before[On] # Absent \/ Journal.after[On] # Absent
    OBVIOUS
  <2> HIDE DEF step
  <2>5. PreviewsKept' /\ CommandKnows'
    BY <1>1, <1>3, <2>2, <2>3, <2>4, ProceedKnows DEF step
  <2> QED
    BY <2>1, <2>5 DEF EditsInv
<1>4. CASE Abort /\ UNCHANGED <<disk, staged, journals>>
  BY <1>1, <1>4, SavedStays, StopKnows, GrowSame DEF Abort, EditsInv
<1>5. CASE /\ run.step = "act"
           /\ ~(Journal.after[On] # Absent /\ Journal.before[On] = Absent /\ disk[On] # Absent)
           /\ disk' = [disk EXCEPT ![On] = Journal.after[On]]
           /\ Proceed("note")
           /\ UNCHANGED <<lock, journals>>
  <2>1. \A d \in Dests : d # On => disk'[d] = disk[d]
    BY <1>5 DEF TypeInv, TypeOK
  <2>2. disk[On] # saved[On] \/ saved[On] = Absent \/ InJournal(journals, On, saved[On])
    <3>1. Looked
      BY <1>1 DEF EditsInv, CommandKnows
    <3>2. CASE Journal.before[On] = Absent
      BY <1>1, <1>5, <3>1, <3>2 DEF Looked
    <3>3. CASE Journal.before[On] # Absent
      BY <1>1, <1>5, <3>1, <3>3 DEF Looked, Expected
    <3> QED
      BY <3>2, <3>3
  <2>3. SavedType' /\ SavedKept'
    BY <1>1, <1>5, <2>1, <2>2, SavedStays, GrowSame
  <2>4. PreviewsKept' /\ CommandKnows'
    BY <1>1, <1>5, ProceedKnows
  <2> QED
    BY <2>3, <2>4 DEF EditsInv
<1>6. CASE /\ Persist([Journal EXCEPT !.completed = @ \cup {On}])
           /\ Advance
           /\ UNCHANGED <<disk, staged, lock>>
  <2> DEFINE k == [Journal EXCEPT !.completed = @ \cup {On}]
  <2>1. k \in JournalType /\ Grown(Journal, k)
    BY <1>2 DEF JournalType, Grown, Kept
  <2> HIDE DEF k
  <2>2. journals'[Current] = k /\ Grow(journals, journals')
    BY <1>1, <1>6, <2>1, PersistKeeps, PersistGrows DEF k
  <2>3. SavedType' /\ SavedKept'
    BY <1>1, <1>6, <2>2, SavedStays
  <2>4. PreviewsKept' /\ CommandKnows'
    BY <1>1, <1>6, <2>1, <2>2, AdvanceKnows DEF Ends
  <2> QED
    BY <2>3, <2>4 DEF EditsInv
<1> QED
  BY <1>3, <1>4, <1>5, <1>6 DEF Put

LEMMA EndsEdits ==
    ASSUME TypeInv, EditsInv, Finish \/ Close
    PROVE  EditsInv'
<1>1. /\ run # Idle /\ Head(run.todo).do \in {"finish", "close"} /\ Abort
      /\ UNCHANGED <<disk, saved, previews>>
  BY DoingIsBusy DEF Finish, Close
<1>2. Journal \in JournalType /\ Kept(Journal)
  BY <1>1, Busy, CommandHas
<1>3. Grow(journals, journals')
  <2>1. CASE UNCHANGED journals
    BY <2>1, GrowSame
  <2>2. CASE Persist([Journal EXCEPT !.phase = "complete"])
    <3>1. [Journal EXCEPT !.phase = "complete"] \in JournalType /\ Grown(Journal, [Journal EXCEPT !.phase = "complete"])
      BY <1>2 DEF JournalType, Grown, Kept
    <3> QED
      BY <1>1, <2>2, <3>1, PersistGrows
  <2>3. CASE Persist([Journal EXCEPT !.phase = "rolled_back"])
    <3>1. [Journal EXCEPT !.phase = "rolled_back"] \in JournalType /\ Grown(Journal, [Journal EXCEPT !.phase = "rolled_back"])
      BY <1>2 DEF JournalType, Grown, Kept
    <3> QED
      BY <1>1, <2>3, <3>1, PersistGrows
  <2> QED
    BY <2>1, <2>2, <2>3 DEF Finish, Close
<1> QED
  BY <1>1, <1>3, SavedStays, StopKnows DEF Abort, EditsInv

LEMMA PrepareDirectoriesEdits ==
    ASSUME TypeInv, EditsInv, PrepareDirectories
    PROVE  EditsInv'
<1>1. run # Idle /\ Head(run.todo).do = "prepare" /\ UNCHANGED <<disk, saved, previews>>
  BY DoingIsBusy DEF PrepareDirectories
<1>2. Journal \in JournalType /\ Kept(Journal)
  BY <1>1, Busy, CommandHas
<1> DEFINE lost == {d \in Changed(Journal) \cap Dirs :
                       Observe(Journal.before[d]) = Dir /\ Preview.seen[d] = Absent} \ Journal.restoring
           k == [Journal EXCEPT !.restoring = @ \cup lost]
<1>3. lost \subseteq Dirs /\ Persist(k) /\ Advance
  BY DEF PrepareDirectories
<1> HIDE DEF lost
<1>4. k \in JournalType /\ Grown(Journal, k)
  BY <1>2, <1>3 DEF JournalType, Grown, Kept
<1> HIDE DEF k
<1>5. journals'[Current] = k /\ Grow(journals, journals')
  BY <1>1, <1>3, <1>4, PersistKeeps, PersistGrows
<1>6. SavedType' /\ SavedKept'
  BY <1>1, <1>5, SavedStays
<1>7. PreviewsKept' /\ CommandKnows'
  BY <1>1, <1>3, <1>4, <1>5, AdvanceKnows DEF Ends
<1> QED
  BY <1>6, <1>7 DEF EditsInv

\* A recovery that changed one path, and goes on to the next task.
LEMMA UndoneEdits ==
    ASSUME TypeInv, EditsInv, run # Idle, Head(run.todo).do \in {"undo", "rmdir"}, Advance,
           UNCHANGED <<saved, previews, journals>>,
           \A d \in Dests \ Dirs :
              \/ disk'[d] = disk[d] \/ disk[d] # saved[d] \/ saved[d] = Absent
              \/ InJournal(journals, d, saved[d])
    PROVE  EditsInv'
<1>1. Kept(Journal)
  BY CommandHas
<1>2. Grown(Journal, journals'[Current])
  BY <1>1 DEF Grown, Journal
<1>3. SavedType' /\ SavedKept'
  BY SavedStays, GrowSame
<1>4. PreviewsKept' /\ CommandKnows'
  BY <1>2, AdvanceKnows DEF Ends
<1> QED
  BY <1>3, <1>4 DEF EditsInv

LEMMA UndoEdits ==
    ASSUME TypeInv, EditsInv, Undo
    PROVE  EditsInv'
<1>1. run # Idle /\ run.op = "recover" /\ Head(run.todo).do = "undo" /\ UNCHANGED <<saved, previews, journals>>
  BY DoingIsBusy DEF Undo
<1>2. /\ On \in Changed(Journal) /\ Journal \in JournalType /\ Kept(Journal) /\ On \in Dests
      /\ Current \in 1..MaxPreviews
  BY <1>1, Busy, CommandHas DEF Fitting, On
<1>3. Looked /\ KnownSides
  BY <1>1 DEF EditsInv, CommandKnows
<1>4. CASE Abort /\ UNCHANGED disk
  BY <1>1, <1>4, SavedStays, StopKnows, GrowSame DEF Abort, EditsInv
<1>5. CASE On \in Dirs
  <2>1. \/ Advance /\ (disk' = disk \/ disk' = [disk EXCEPT ![On] = Journal.before[On]])
        \/ Abort /\ UNCHANGED disk
    <3>1. On \in Journal.restoring \/ On \in Dirs
      BY <1>5
    <3> QED
      BY <3>1 DEF Undo, UndoChange, RestoreDirectory, UndoDirectory
  <2>2. CASE Advance /\ (disk' = disk \/ disk' = [disk EXCEPT ![On] = Journal.before[On]])
    <3>1. \A d \in Dests \ Dirs : disk'[d] = disk[d]
      BY <1>5, <2>2 DEF TypeInv, TypeOK
    <3> QED
      BY <1>1, <2>2, <3>1, UndoneEdits
  <2> QED
    BY <1>4, <2>1, <2>2
<1>6. CASE On \notin Dirs
  <2>1. UndoFile(Journal, On)
    <3>1. On \notin Journal.restoring
      BY <1>2, <1>6 DEF JournalType
    <3> QED
      BY <1>6, <3>1 DEF Undo, UndoChange
  <2>2. CASE Advance /\ disk' = disk
    BY <1>1, <2>2, UndoneEdits
  <2>3. CASE /\ disk[On] = Preview.seen[On]
             /\ ~(Preview.seen[On] = Absent /\ Journal.before[On] = Absent)
             /\ Proceed("act") /\ UNCHANGED <<disk, spare, lock>>
    <3>1. ASSUME Expected # Absent, saved[On] # Absent PROVE InJournal(journals, On, saved[On])
      <4>1. disk[On] = saved[On] \/ InJournal(journals, On, saved[On])
        BY <1>2, <3>1 DEF EditsInv, SavedKept
      <4>2. CASE disk[On] = saved[On]
        <5>1. saved[On] \in Edits
          BY <1>2, <3>1 DEF EditsInv, SavedType
        <5>2. Observe(saved[On]) \in {Observe(Journal.before[On]), Journal.after[On]}
          BY <1>1, <1>2, <1>3, <2>3, <4>2 DEF KnownSides
        <5>3. Observe(saved[On]) = saved[On]
          BY <5>1, ForkAssumption DEF Observe
        <5>4. saved[On] \in {Journal.before[On], Journal.after[On]}
          BY <5>1, <5>2, <5>3, ObserveEdit
        <5> QED
          BY <1>2, <5>4 DEF InJournal, Journal
      <4> QED
        BY <4>1, <4>2
    <3>2. SavedType' /\ SavedKept'
      BY <1>1, <2>3, SavedStays, GrowSame
    <3>3. PreviewsKept' /\ CommandKnows'
      BY <1>1, <2>3, <3>1, ProceedKnows
    <3> QED
      BY <3>2, <3>3 DEF EditsInv
  <2>4. CASE /\ run.step = "act" /\ Advance /\ disk' = [disk EXCEPT ![On] = Journal.before[On]]
             /\ ~(Journal.before[On] # Absent /\ Preview.seen[On] = Absent /\ disk[On] # Absent)
    <3>1. \A d \in Dests : d # On => disk'[d] = disk[d]
      BY <2>4 DEF TypeInv, TypeOK
    <3>2. disk[On] # saved[On] \/ saved[On] = Absent \/ InJournal(journals, On, saved[On])
      <4>1. CASE Preview.seen[On] = Absent
        BY <1>1, <1>3, <2>4, <4>1 DEF Looked
      <4>2. CASE Preview.seen[On] # Absent
        BY <1>1, <1>3, <2>4, <4>2 DEF Looked, Expected
      <4> QED
        BY <4>1, <4>2
    <3> QED
      BY <1>1, <2>4, <3>1, <3>2, UndoneEdits
  <2> QED
    BY <1>4, <2>1, <2>2, <2>3, <2>4 DEF UndoFile
<1> QED
  BY <1>5, <1>6

LEMMA RemoveParentEdits ==
    ASSUME TypeInv, EditsInv, RemoveParent
    PROVE  EditsInv'
<1>1. run # Idle /\ Head(run.todo).do = "rmdir" /\ UNCHANGED <<saved, previews, journals>>
  BY DoingIsBusy DEF RemoveParent
<1>2. On \in Dirs
  BY <1>1, Busy DEF Fitting, On
<1>3. CASE disk' = [disk EXCEPT ![On] = Absent] /\ Advance
  <2>1. \A d \in Dests \ Dirs : disk'[d] = disk[d]
    BY <1>2, <1>3 DEF TypeInv, TypeOK
  <2> QED
    BY <1>1, <1>3, <2>1, UndoneEdits
<1>4. CASE Abort /\ UNCHANGED disk
  BY <1>1, <1>4, SavedStays, StopKnows, GrowSame DEF Abort, EditsInv
<1> QED
  BY <1>3, <1>4 DEF RemoveParent

LEMMA RemainsEdits ==
    ASSUME TypeInv, EditsInv, run # Idle, Remains(Head(run.todo).do)
    PROVE  /\ Grow(journals, journals')
           /\ \A d \in Dests \ Dirs : disk'[d] = disk[d] \/ disk[d] # saved[d] \/ saved[d] = Absent
<1>1. CASE UNCHANGED <<disk, staged, journals>>
  BY <1>1, GrowSame
<1>2. CASE Head(run.todo).do = "open" /\ Persist([NoJournal EXCEPT !.phase = "torn"]) /\ UNCHANGED <<disk, staged>>
  <2>1. [NoJournal EXCEPT !.phase = "torn"] \in JournalType
    BY NoJournalTyped DEF JournalType
  <2>2. ~Kept(Journal)
    <3>1. run.todo \in Seq(TaskType) /\ run.todo # <<>>
      BY Busy DEF TypeInv, TypeOK
    <3>2. 1 \in 1..Len(run.todo) /\ Head(run.todo) = run.todo[1]
      BY <3>1
    <3> QED
      BY <1>2, <3>2 DEF EditsInv, CommandKnows, Journaled, Kept
  <2>3. Grow(journals, journals')
    BY <1>2, <2>1, <2>2, PersistGrows
  <2> QED
    BY <1>2, <2>3
<1>3. CASE staged' = [staged EXCEPT ![On] = "part"] /\ UNCHANGED <<disk, journals>>
  BY <1>3, GrowSame
<1>4. CASE /\ disk[On] = Absent
           /\ disk' = [disk EXCEPT ![On] = Journal.after[On]] /\ UNCHANGED <<staged, journals>>
  <2>1. \A d \in Dests : d # On => disk'[d] = disk[d]
    BY <1>4 DEF TypeInv, TypeOK
  <2> QED
    BY <1>4, <2>1, GrowSame
<1> QED
  BY <1>1, <1>2, <1>3, <1>4 DEF Remains

LEMMA FailuresEdits ==
    ASSUME TypeInv, EditsInv, Fault \/ Crash
    PROVE  EditsInv'
<1>1. run # Idle /\ run' = Idle /\ UNCHANGED <<saved, previews>>
  BY DEF Fault, Crash, Abort
<1>2. PreviewsKept' /\ CommandKnows'
  BY <1>1, StopKnows
<1>3. CASE Remains(Head(run.todo).do)
  BY <1>1, <1>2, <1>3, RemainsEdits, SavedStays DEF EditsInv
<1>4. CASE /\ Doing("apply", "mkdir")
           /\ disk' = [disk EXCEPT ![On] = IF @ = Dir /\ Empty(On) THEN Absent ELSE @]
           /\ \/ UNCHANGED journals
              \/ Persist([Journal EXCEPT !.owned = @ \cup {On}])
  <2>1. run.op = "apply" /\ Head(run.todo).do = "mkdir"
    BY <1>4, DoingIsBusy
  <2>2. On \in Dirs /\ Journal \in JournalType /\ Kept(Journal)
    BY <1>1, <2>1, Busy, CommandHas DEF Fitting, On
  <2>3. \A d \in Dests \ Dirs : disk'[d] = disk[d]
    BY <1>4, <2>2 DEF TypeInv, TypeOK
  <2> DEFINE k == [Journal EXCEPT !.owned = @ \cup {On}]
  <2>4. k \in JournalType /\ Grown(Journal, k)
    BY <2>2 DEF JournalType, Grown, Kept
  <2> HIDE DEF k
  <2>5. Grow(journals, journals')
    <3>1. CASE UNCHANGED journals
      BY <3>1, GrowSame
    <3>2. CASE Persist(k)
      BY <1>1, <2>4, <3>2, PersistGrows
    <3> QED
      BY <1>4, <3>1, <3>2 DEF k
  <2> QED
    BY <1>1, <1>2, <2>3, <2>5, SavedStays DEF EditsInv
<1> QED
  BY <1>3, <1>4 DEF Fault, Crash

LEMMA EditorsEdits ==
    ASSUME TypeInv, EditsInv,
           \/ RemoveLock
           \/ \E d \in Dests, c \in Edits \cup {Absent} : EditFile(d, c)
           \/ \E d \in Dirs : EditDirectory(d) \/ EditExtra(d, {}) \/ EditExtra(d, {"file"})
           \/ UNCHANGED vars
    PROVE  EditsInv'
<1>1. UNCHANGED <<run, previews, journals>>
  BY DEF RemoveLock, EditFile, EditDirectory, EditExtra, vars
<1>2. PreviewsKept'
  BY <1>1 DEF EditsInv, PreviewsKept
<1>3. Current' = Current /\ Preview' = Preview /\ Journal' = Journal /\ On' = On /\ Expected' = Expected
  BY <1>1 DEF Current, Preview, Journal, On, Expected
<1>4. ASSUME saved' = saved, \A d \in Dests \ Dirs : disk'[d] = disk[d] PROVE EditsInv'
  <2>1. SavedType' /\ SavedKept'
    BY <1>1, <1>4, SavedStays, GrowSame
  <2>2. CommandKnows'
    BY <1>1, <1>3, <1>4, CommandSame
  <2> QED
    BY <1>2, <2>1, <2>2 DEF EditsInv
<1>5. CASE RemoveLock \/ UNCHANGED vars
  BY <1>4, <1>5 DEF RemoveLock, vars
<1>6. ASSUME NEW d \in Dirs, EditDirectory(d) PROVE EditsInv'
  <2>1. \A c \in Dests \ Dirs : disk'[c] = disk[c]
    BY <1>6 DEF EditDirectory, TypeInv, TypeOK
  <2> QED
    BY <1>4, <1>6, <2>1 DEF EditDirectory
<1>7. ASSUME NEW d \in Dirs, NEW es, EditExtra(d, es) PROVE EditsInv'
  BY <1>4, <1>7 DEF EditExtra
<1>8. ASSUME NEW d \in Dests, NEW c \in Edits \cup {Absent}, EditFile(d, c) PROVE EditsInv'
  <2> DEFINE v == IF InWindow(d) THEN Absent ELSE c
  <2>1. saved' = [saved EXCEPT ![d] = v] /\ disk' = [disk EXCEPT ![d] = c] /\ d \notin Dirs
    BY <1>8 DEF EditFile
  <2>2. v \in Edits \cup {Absent} /\ v \in {Absent, c}
    OBVIOUS
  <2>3. InWindow(d) => v = Absent
    OBVIOUS
  <2> HIDE DEF v
  <2>4. /\ saved'[d] = v /\ \A e \in Dests : e # d => saved'[e] = saved[e]
        /\ disk'[d] = c /\ \A e \in Dests : e # d => disk'[e] = disk[e]
    BY <2>1 DEF TypeInv, TypeOK
  <2>5. SavedType'
    BY <2>1, <2>2, <2>4 DEF EditsInv, SavedType
  <2>6. SavedKept'
    BY <1>1, <2>2, <2>4 DEF EditsInv, SavedKept
  <2>7. CommandKnows'
    <3> SUFFICES ASSUME run # Idle PROVE Looked' /\ Journaled' /\ KnownSides'
      BY <1>1 DEF CommandKnows
    <3>1. Looked /\ Journaled /\ KnownSides
      BY DEF EditsInv, CommandKnows
    <3>2. Journaled' /\ KnownSides'
      BY <1>1, <1>3, <3>1 DEF Journaled, KnownSides
    <3>3. ASSUME run.step = "act", Expected # Absent, saved'[On] # Absent
          PROVE  InJournal(journals, On, saved'[On])
      <4>1. d # On
        BY <2>3, <2>4, <3>3 DEF InWindow, Expected
      <4>2. On \in Dests
        BY <3>1, <3>3, Busy DEF Looked, On, Fitting
      <4> QED
        BY <2>4, <3>1, <3>3, <4>1, <4>2 DEF Looked
    <3>4. Looked'
      BY <1>1, <1>3, <3>1, <3>3 DEF Looked
    <3> QED
      BY <3>2, <3>4
  <2> QED
    BY <1>2, <2>5, <2>6, <2>7 DEF EditsInv
<1> QED
  BY <1>5, <1>6, <1>7, <1>8

LEMMA EditsNext == TypeInv /\ EditsInv /\ [Next]_vars => EditsInv'
<1> SUFFICES ASSUME TypeInv, EditsInv, [Next]_vars PROVE EditsInv'
  OBVIOUS
<1>1. ASSUME NEW i \in DOMAIN previews, Apply(i) \/ ApplyRecovery(i) PROVE EditsInv'
  BY <1>1, BeginsEdits
<1> QED
  BY <1>1, PreparesEdits, OpenEdits, MkdirEdits, StageEdits, StartApplyingEdits, PutEdits, EndsEdits,
     PrepareDirectoriesEdits, UndoEdits, RemoveParentEdits, FailuresEdits, EditorsEdits
  DEF Next

\* Whatever fails and wherever a command dies, the last thing a person
\* saved at a path is still there or in a journal (EditsKept): an apply and
\* a recovery never overwrite an edit they have not seen, but for the
\* window between their last look and the replacement.
THEOREM EditsKeptAlways == Spec => []EditsKept
<1>1. Spec => [](TypeInv /\ EditsInv)
  BY TypeInit, TypeNext, EditsInit, EditsNext, PTL DEF Spec
<1>2. EditsInv => EditsKept
  BY DEF EditsInv, SavedKept, EditsKept, InJournal, Kept
<1> QED
  BY <1>1, <1>2, PTL

-----------------------------------------------------------------------------
(***************************************************************************)
(* Rollback, and tracking last.  One journal at a time is unfinished, and  *)
(* what a command has done follows from the tasks it has left: a path      *)
(* whose undo is no longer to do is as it was before, a staging file is    *)
(* one that is still to be promoted.  The tasks are sorted: nothing is     *)
(* promoted before everything is staged, and no content is undone before   *)
(* all tracking is.                                                        *)
(***************************************************************************)

Left(todo, do) == {todo[k].on : k \in {n \in 1..Len(todo) : todo[n].do = do}}

Rank(t) ==
    IF t.do = "put" THEN 2
    ELSE IF t.do = "undo" THEN (IF t.on \in Tracking THEN 2 ELSE 3)
    ELSE IF t.do = "rmdir" THEN 4
    ELSE IF t.do \in {"finish", "close"} THEN 5
    ELSE 1

Sorted(s) == \A k, l \in 1..Len(s) : k <= l => Rank(s[k]) <= Rank(s[l])

\* What a journal has from its plan.
WellFormed(j) ==
    /\ \A k, l \in 1..Len(j.order) : k < l /\ j.order[k] \in Tracking => j.order[l] \in Tracking
    /\ \A k \in 1..Len(j.order) : j.order[k] \in Tracking => j.order[k] \notin Dirs
    /\ Changed(j) \cap Range(j.parents) = {}
    /\ \A d \in Range(j.parents) : j.before[d] = Absent
    /\ \A d \in Changed(j) : j.after[d] # Found

FilesOf(j) == {d \in Changed(j) : j.after[d] \notin {Absent, Dir}}

OneAtATime ==
    /\ \A i, k \in Incomplete : i = k
    /\ run # Idle => Incomplete \subseteq {Current}

StagedKnown ==
    \A d \in Dests : staged[d] # "none" => \E i \in Incomplete : d \in FilesOf(journals[i])

\* All content is as the plan wants it.
Promoted(j) == \A d \in Changed(j) \ (Tracking \cup touched) : Observe(disk[d]) = j.after[d]

Applying ==
    run.op = "apply" =>
       /\ Head(run.todo).do # "open" => Journal.phase \notin Ended
       /\ \A d \in Dests : staged[d] # "none" => d \in Left(run.todo, "put")
       /\ Left(run.todo, "stage") \subseteq Left(run.todo, "put") \cap FilesOf(Journal)
       /\ Head(run.todo).do = "put" /\ run.step = "note" => staged[On] = "none"
       /\ Rank(Head(run.todo)) = 1 /\ Head(run.todo).do # "open" =>
            \A d \in Changed(Journal) \ (Dirs \cup touched) : disk[d] = Journal.before[d]
       /\ run.step = "act" /\ On \in Tracking => Promoted(Journal)

Recovering ==
    run.op = "recover" =>
       /\ Journal.phase \notin Ended
       /\ Left(run.todo, "rmdir") \subseteq Range(Journal.parents)
       /\ \A d \in Changed(Journal) \ (touched \cup Left(run.todo, "undo")) : disk[d] = Journal.before[d]
       /\ \A d \in Range(Journal.parents) \ (touched \cup Left(run.todo, "rmdir")) : disk[d] = Absent
       /\ \A d \in Dests : staged[d] # "none" => d \in Left(run.todo, "unstage")

AllWellFormed == \A i \in 1..MaxPreviews : WellFormed(journals[i])

Progress == run # Idle => Sorted(run.todo) /\ Applying /\ Recovering

RollInv == AllWellFormed /\ OneAtATime /\ StagedKnown /\ TrackingLast /\ Progress

LEMMA LeftIs ==
    ASSUME NEW s, NEW do, NEW d
    PROVE  d \in Left(s, do) <=> \E k \in 1..Len(s) : s[k].do = do /\ s[k].on = d
BY DEF Left

LEMMA LeftTail ==
    ASSUME NEW s \in Seq(TaskType), s # <<>>, NEW do, NEW d
    PROVE  d \in Left(s, do) <=> d \in Left(Tail(s), do) \/ (Head(s).do = do /\ Head(s).on = d)
<1>1. /\ Len(s) \in Nat /\ Len(s) # 0 /\ Head(s) = s[1] /\ Len(Tail(s)) = Len(s) - 1
      /\ \A k \in 1..(Len(s) - 1) : Tail(s)[k] = s[k + 1]
  OBVIOUS
<1>2. ASSUME NEW k \in 1..Len(s), s[k].do = do, s[k].on = d, k # 1
      PROVE  k - 1 \in 1..Len(Tail(s)) /\ Tail(s)[k - 1] = s[k]
  <2>1. k - 1 \in 1..(Len(s) - 1) /\ (k - 1) + 1 = k
    BY <1>1, <1>2
  <2> QED
    BY <1>1, <2>1
<1>3. ASSUME NEW k \in 1..Len(Tail(s)) PROVE k + 1 \in 1..Len(s) /\ Tail(s)[k] = s[k + 1]
  BY <1>1
<1>4. 1 \in 1..Len(s)
  BY <1>1
<1>5. ASSUME d \in Left(s, do) PROVE d \in Left(Tail(s), do) \/ (Head(s).do = do /\ Head(s).on = d)
  <2>1. PICK k \in 1..Len(s) : s[k].do = do /\ s[k].on = d
    BY <1>5, LeftIs
  <2>2. CASE k # 1
    BY <1>2, <2>1, <2>2, LeftIs
  <2> QED
    BY <1>1, <2>1, <2>2
<1>6. ASSUME d \in Left(Tail(s), do) PROVE d \in Left(s, do)
  <2>1. PICK k \in 1..Len(Tail(s)) : Tail(s)[k].do = do /\ Tail(s)[k].on = d
    BY <1>6 DEF Left
  <2> QED
    BY <1>3, <2>1, LeftIs
<1>7. ASSUME Head(s).do = do, Head(s).on = d PROVE d \in Left(s, do)
  BY <1>1, <1>4, <1>7, LeftIs
<1> QED
  BY <1>5, <1>6, <1>7

LEMMA LeftConcat ==
    ASSUME NEW s \in Seq(TaskType), NEW t \in Seq(TaskType), NEW do
    PROVE  Left(s \o t, do) = Left(s, do) \cup Left(t, do)
<1>1. /\ Len(s) \in Nat /\ Len(t) \in Nat /\ Len(s \o t) = Len(s) + Len(t)
      /\ \A k \in 1..(Len(s) + Len(t)) : (s \o t)[k] = IF k <= Len(s) THEN s[k] ELSE t[k - Len(s)]
  OBVIOUS
<1>2. ASSUME NEW d \in Left(s \o t, do) PROVE d \in Left(s, do) \cup Left(t, do)
  <2>1. PICK k \in 1..(Len(s) + Len(t)) : (s \o t)[k].do = do /\ (s \o t)[k].on = d
    BY <1>1 DEF Left
  <2>2. IF k <= Len(s) THEN k \in 1..Len(s) ELSE k - Len(s) \in 1..Len(t)
    BY <1>1
  <2>3. CASE k <= Len(s)
    BY <1>1, <2>1, <2>2, <2>3, LeftIs
  <2>4. CASE ~(k <= Len(s))
    BY <1>1, <2>1, <2>2, <2>4, LeftIs
  <2> QED
    BY <2>3, <2>4
<1>3. ASSUME NEW d \in Left(s, do) PROVE d \in Left(s \o t, do)
  <2>1. PICK k \in 1..Len(s) : s[k].do = do /\ s[k].on = d
    BY LeftIs
  <2>2. k \in 1..(Len(s) + Len(t)) /\ k <= Len(s)
    BY <1>1
  <2>3. k \in 1..Len(s \o t) /\ (s \o t)[k] = s[k]
    BY <1>1, <2>2
  <2>4. (s \o t)[k].do = do /\ (s \o t)[k].on = d
    BY <2>1, <2>3
  <2> QED
    BY <2>3, <2>4, LeftIs, Zenon
<1>4. ASSUME NEW d \in Left(t, do) PROVE d \in Left(s \o t, do)
  <2>1. PICK k \in 1..Len(t) : t[k].do = do /\ t[k].on = d
    BY LeftIs
  <2>2. k + Len(s) \in 1..(Len(s) + Len(t)) /\ ~(k + Len(s) <= Len(s)) /\ (k + Len(s)) - Len(s) = k
    BY <1>1
  <2>3. (s \o t)[k + Len(s)] = t[k]
    BY <1>1, <2>2
  <2> QED
    BY <1>1, <2>1, <2>2, <2>3, LeftIs
<1> QED
  BY <1>2, <1>3, <1>4

LEMMA LeftTasks ==
    ASSUME NEW do, NEW ds \in Seq(Dests), NEW x
    PROVE  Left(Tasks(do, ds), x) = IF x = do THEN Range(ds) ELSE {}
<1>1. Len(ds) \in Nat /\ DOMAIN ds = 1..Len(ds)
  OBVIOUS
<1>2. Tasks(do, ds) = [k \in 1..Len(ds) |-> [do |-> do, on |-> ds[k]]]
  BY <1>1 DEF Tasks
<1>3. Len(Tasks(do, ds)) = Len(ds) /\ \A k \in 1..Len(ds) : Tasks(do, ds)[k].do = do /\ Tasks(do, ds)[k].on = ds[k]
  BY <1>1, <1>2
<1>4. Range(ds) = {ds[k] : k \in 1..Len(ds)}
  BY <1>1 DEF Range
<1> QED
  BY <1>3, <1>4 DEF Left

LEMMA LeftTask ==
    ASSUME NEW do, NEW x, x # do
    PROVE  Left(Task(do), x) = {}
<1>1. Len(Task(do)) = 1 /\ Task(do)[1].do = do
  BY DEF Task
<1>2. \A k \in 1..1 : Task(do)[k].do # x
  BY <1>1
<1> QED
  BY <1>1, <1>2 DEF Left

LEMMA RankNat == ASSUME NEW t PROVE Rank(t) \in 1..5
BY DEF Rank

LEMMA SortedTail ==
    ASSUME NEW s \in Seq(TaskType), s # <<>>, Sorted(s)
    PROVE  /\ Sorted(Tail(s))
           /\ \A k \in 1..Len(s) : Rank(Head(s)) <= Rank(s[k])
           /\ \A k \in 1..Len(Tail(s)) : Rank(Head(s)) <= Rank(Tail(s)[k])
<1>1. /\ Len(s) \in Nat /\ Len(s) # 0 /\ Head(s) = s[1] /\ Len(Tail(s)) = Len(s) - 1
      /\ \A k \in 1..(Len(s) - 1) : Tail(s)[k] = s[k + 1]
  OBVIOUS
<1>2. \A k \in 1..(Len(s) - 1) : k + 1 \in 1..Len(s)
  BY <1>1
<1>3. \A k, l \in 1..(Len(s) - 1) : k <= l => k + 1 <= l + 1
  BY <1>1
<1>4. Sorted(Tail(s))
  BY <1>1, <1>2, <1>3 DEF Sorted
<1>5. 1 \in 1..Len(s) /\ \A k \in 1..Len(s) : 1 <= k
  BY <1>1
<1>6. \A k \in 1..Len(s) : Rank(Head(s)) <= Rank(s[k])
  BY <1>1, <1>5 DEF Sorted
<1> QED
  BY <1>1, <1>2, <1>4, <1>6

\* s is sorted, with ranks from lo to hi.
Ranked(s, lo, hi) ==
    s \in Seq(TaskType) /\ Sorted(s) /\ \A k \in 1..Len(s) : lo <= Rank(s[k]) /\ Rank(s[k]) <= hi

LEMMA RankedConcat ==
    ASSUME NEW s, NEW t, NEW a \in Nat, NEW b \in Nat, NEW c \in Nat, a <= b, b <= c,
           Ranked(s, a, b), Ranked(t, b, c)
    PROVE  Ranked(s \o t, a, c)
<1>1. s \in Seq(TaskType) /\ t \in Seq(TaskType)
  BY DEF Ranked
<1>2. /\ Len(s) \in Nat /\ Len(t) \in Nat /\ Len(s \o t) = Len(s) + Len(t) /\ s \o t \in Seq(TaskType)
      /\ \A k \in 1..(Len(s) + Len(t)) : (s \o t)[k] = IF k <= Len(s) THEN s[k] ELSE t[k - Len(s)]
  BY <1>1
<1>3. \A k \in 1..(Len(s) + Len(t)) : IF k <= Len(s) THEN k \in 1..Len(s) ELSE k - Len(s) \in 1..Len(t)
  BY <1>2
<1>4. \A k \in 1..Len(s) : Rank(s[k]) \in Nat /\ a <= Rank(s[k]) /\ Rank(s[k]) <= b
  BY RankNat DEF Ranked
<1>5. \A k \in 1..Len(t) : Rank(t[k]) \in Nat /\ b <= Rank(t[k]) /\ Rank(t[k]) <= c
  BY RankNat DEF Ranked
<1>6. ASSUME NEW k \in 1..(Len(s) + Len(t)) PROVE a <= Rank((s \o t)[k]) /\ Rank((s \o t)[k]) <= c
  <2>1. CASE k <= Len(s)
    BY <1>2, <1>3, <1>4, <2>1
  <2>2. CASE ~(k <= Len(s))
    BY <1>2, <1>3, <1>5, <2>2
  <2> QED
    BY <2>1, <2>2
<1>7. ASSUME NEW k \in 1..(Len(s) + Len(t)), NEW l \in 1..(Len(s) + Len(t)), k <= l
      PROVE  Rank((s \o t)[k]) <= Rank((s \o t)[l])
  <2>1. CASE l <= Len(s)
    <3>1. k <= Len(s)
      BY <1>2, <1>7, <2>1
    <3> QED
      BY <1>2, <1>3, <1>7, <2>1, <3>1 DEF Ranked, Sorted
  <2>2. CASE ~(k <= Len(s))
    <3>1. ~(l <= Len(s)) /\ k - Len(s) <= l - Len(s)
      BY <1>2, <1>7, <2>2
    <3> QED
      BY <1>2, <1>3, <1>7, <2>2, <3>1 DEF Ranked, Sorted
  <2>3. CASE k <= Len(s) /\ ~(l <= Len(s))
    <3>1. (s \o t)[k] = s[k] /\ k \in 1..Len(s) /\ (s \o t)[l] = t[l - Len(s)] /\ l - Len(s) \in 1..Len(t)
      BY <1>2, <1>3, <2>3
    <3>2. Rank(s[k]) \in Nat /\ Rank(s[k]) <= b /\ Rank(t[l - Len(s)]) \in Nat /\ b <= Rank(t[l - Len(s)])
      BY <1>4, <1>5, <3>1
    <3> QED
      BY <3>1, <3>2
  <2> QED
    BY <2>1, <2>2, <2>3
<1> QED
  BY <1>2, <1>6, <1>7 DEF Ranked, Sorted

LEMMA RankedTasks ==
    ASSUME NEW do, NEW ds \in Seq(Dests), NEW r \in Nat, Tasks(do, ds) \in Seq(TaskType),
           \A d : Rank([do |-> do, on |-> d]) = r
    PROVE  Ranked(Tasks(do, ds), r, r)
<1>1. Len(ds) \in Nat /\ DOMAIN ds = 1..Len(ds)
  OBVIOUS
<1>2. Tasks(do, ds) = [k \in 1..Len(ds) |-> [do |-> do, on |-> ds[k]]]
  BY <1>1 DEF Tasks
<1>3. Len(Tasks(do, ds)) = Len(ds) /\ \A k \in 1..Len(ds) : Rank(Tasks(do, ds)[k]) = r
  BY <1>1, <1>2
<1> QED
  BY <1>3 DEF Ranked, Sorted

LEMMA RankedTask ==
    ASSUME NEW do, NEW r \in Nat, Task(do) \in Seq(TaskType), Rank([do |-> do, on |-> Root]) = r
    PROVE  Ranked(Task(do), r, r)
<1>1. Len(Task(do)) = 1 /\ Task(do)[1] = [do |-> do, on |-> Root]
  BY DEF Task
<1>2. \A k \in 1..1 : Rank(Task(do)[k]) = r
  BY <1>1
<1> QED
  BY <1>1, <1>2 DEF Ranked, Sorted

LEMMA RankedWider ==
    ASSUME NEW s, NEW a \in Nat, NEW b \in Nat, NEW c \in Nat, NEW e \in Nat, Ranked(s, a, b), c <= a, b <= e
    PROVE  Ranked(s, c, e)
<1>1. \A k \in 1..Len(s) : Rank(s[k]) \in Nat
  BY RankNat
<1> QED
  BY <1>1 DEF Ranked

\* A recovery undoes tracking first.
LEMMA RankedUndo ==
    ASSUME NEW j \in JournalType, WellFormed(j), Tasks("undo", Reverse(j.order)) \in Seq(TaskType)
    PROVE  Ranked(Tasks("undo", Reverse(j.order)), 2, 3)
<1> DEFINE o == j.order
           n == Len(o)
           u == Tasks("undo", Reverse(o))
<1>1. o \in Seq(Dests) /\ n \in Nat
  BY DEF JournalType
<1>2. Reverse(o) = [k \in 1..n |-> o[(n - k) + 1]]
  BY DEF Reverse
<1>3. DOMAIN Reverse(o) = 1..n
  BY <1>2
<1>4. u = [k \in 1..n |-> [do |-> "undo", on |-> o[(n - k) + 1]]]
  BY <1>2, <1>3 DEF Tasks
<1>5. Len(u) = n
  <2>1. DOMAIN u = 1..n
    BY <1>4
  <2> QED
    BY <1>1, <2>1
<1>6. \A k \in 1..n : Rank(u[k]) = IF o[(n - k) + 1] \in Tracking THEN 2 ELSE 3
  BY <1>4 DEF Rank
<1>7. ASSUME NEW k \in 1..n, NEW l \in 1..n, k <= l PROVE Rank(u[k]) <= Rank(u[l])
  <2>1. CASE k = l
    BY <1>6, <2>1
  <2>2. CASE k # l
    <3>1. (n - l) + 1 \in 1..n /\ (n - k) + 1 \in 1..n /\ (n - l) + 1 < (n - k) + 1
      BY <1>1, <1>7, <2>2
    <3>2. o[(n - l) + 1] \in Tracking => o[(n - k) + 1] \in Tracking
      BY <3>1 DEF WellFormed
    <3> QED
      BY <1>6, <3>2
  <2> QED
    BY <2>1, <2>2
<1> HIDE DEF u, n
<1> QED
  <2>1. \A k \in 1..n : 2 <= Rank(u[k]) /\ Rank(u[k]) <= 3
    BY <1>6
  <2>2. u \in Seq(TaskType) /\ Sorted(u)
    BY <1>5, <1>7 DEF Sorted, u
  <2>3. Ranked(u, 2, 3)
    BY <1>5, <2>1, <2>2 DEF Ranked
  <2> QED
    BY <2>3 DEF u

LEMMA TasksTyped ==
    ASSUME NEW do \in TasksOf("apply") \cup TasksOf("recover"), NEW ds \in Seq(Dests)
    PROVE  Tasks(do, ds) \in Seq(TaskType)
<1>1. DOMAIN ds = 1..Len(ds) /\ Len(ds) \in Nat /\ \A k \in 1..Len(ds) : ds[k] \in Dests
  OBVIOUS
<1>2. \A k \in 1..Len(ds) : [do |-> do, on |-> ds[k]] \in TaskType
  BY <1>1 DEF TaskType, TasksOf
<1> QED
  BY <1>1, <1>2 DEF Tasks

LEMMA TaskTyped ==
    ASSUME NEW do \in {"open", "start", "finish", "prepare", "close"}
    PROVE  Task(do) \in Seq(TaskType)
<1>1. [do |-> do, on |-> Root] \in TaskType
  BY DEF TaskType
<1> QED
  BY <1>1 DEF Task

LEMMA ApplyDoes ==
    ASSUME NEW plan \in Plans
    PROVE  /\ Sorted(ApplyTasks(plan))
           /\ Left(ApplyTasks(plan), "put") = Range(plan.order)
           /\ Left(ApplyTasks(plan), "stage") = {d \in Range(plan.order) : plan.after[d] \notin {Absent, Dir}}
           /\ Left(ApplyTasks(plan), "mkdir")
                 = Range(Missing(plan)) \cup {d \in Range(plan.order) : plan.after[d] = Dir /\ disk[d] = Absent}
<1> DEFINE new == NewDirs(plan.order, plan.after)
           files == Files(plan.order, plan.after)
<1>1. plan.order \in Seq(Dests) /\ Missing(plan) \in Seq(Dests)
  BY PlanTyped, MissingTyped
<1>2. new \in Seq(Dests) /\ Range(new) = {d \in Range(plan.order) : plan.after[d] = Dir /\ disk[d] = Absent}
  <2>1. new \in Seq(Dests) /\ Range(new) = Range(plan.order) \cap {d \in Dests : plan.after[d] = Dir /\ disk[d] = Absent}
    BY <1>1, FilesRange DEF NewDirs
  <2>2. Range(plan.order) \subseteq Dests
    BY <1>1, RangeOf
  <2> QED
    BY <2>1, <2>2
<1>3. files \in Seq(Dests) /\ Range(files) = {d \in Range(plan.order) : plan.after[d] \notin {Absent, Dir}}
  <2>1. files \in Seq(Dests) /\ Range(files) = Range(plan.order) \cap {d \in Dests : plan.after[d] \notin {Absent, Dir}}
    BY <1>1, FilesRange DEF Files
  <2>2. Range(plan.order) \subseteq Dests
    BY <1>1, RangeOf
  <2> QED
    BY <2>1, <2>2
<1> DEFINE a == Tasks("mkdir", Missing(plan))
           b == Tasks("mkdir", new)
           c == Tasks("stage", files)
           s == Task("start")
           p == Tasks("put", plan.order)
           f == Task("finish")
<1>4. ApplyTasks(plan) = a \o b \o c \o s \o p \o f
  BY DEF ApplyTasks
<1> HIDE DEF new, files
<1>5. /\ a \in Seq(TaskType) /\ b \in Seq(TaskType) /\ c \in Seq(TaskType)
      /\ s \in Seq(TaskType) /\ p \in Seq(TaskType) /\ f \in Seq(TaskType)
  BY <1>1, <1>2, <1>3, TasksTyped, TaskTyped DEF TasksOf
<1>6. /\ Ranked(a, 1, 1) /\ Ranked(b, 1, 1) /\ Ranked(c, 1, 1)
  BY <1>1, <1>2, <1>3, <1>5, RankedTasks DEF Rank
<1>7. Ranked(s, 1, 1) /\ Ranked(f, 5, 5)
  BY <1>5, RankedTask DEF Rank
<1>8. Ranked(p, 2, 2)
  BY <1>1, <1>5, RankedTasks DEF Rank
<1>9. Left(p, "put") = Range(plan.order) /\ Left(c, "stage") = Range(files)
  BY <1>1, <1>3, LeftTasks
<1>10. /\ Left(a, "put") = {} /\ Left(b, "put") = {} /\ Left(c, "put") = {}
       /\ Left(a, "stage") = {} /\ Left(b, "stage") = {} /\ Left(p, "stage") = {}
  BY <1>1, <1>2, <1>3, LeftTasks
<1>11. /\ Left(s, "put") = {} /\ Left(f, "put") = {} /\ Left(s, "stage") = {} /\ Left(f, "stage") = {}
  BY LeftTask
<1>12. /\ Left(a, "mkdir") = Range(Missing(plan)) /\ Left(b, "mkdir") = Range(new) /\ Left(c, "mkdir") = {}
       /\ Left(s, "mkdir") = {} /\ Left(p, "mkdir") = {} /\ Left(f, "mkdir") = {}
  BY <1>1, <1>2, <1>3, LeftTasks, LeftTask
<1> HIDE DEF a, b, c, s, p, f
<1>13. /\ a \o b \in Seq(TaskType) /\ a \o b \o c \in Seq(TaskType) /\ a \o b \o c \o s \in Seq(TaskType)
       /\ a \o b \o c \o s \o p \in Seq(TaskType)
  BY <1>5
<1>14. Sorted(ApplyTasks(plan))
  <2>1. Ranked(a \o b, 1, 1)
    BY <1>6, RankedConcat
  <2>2. Ranked(a \o b \o c, 1, 1)
    BY <1>6, <2>1, RankedConcat
  <2>3. Ranked(a \o b \o c \o s, 1, 2)
    <3>1. Ranked(a \o b \o c \o s, 1, 1)
      BY <1>7, <2>2, RankedConcat
    <3> QED
      BY <3>1, RankedWider
  <2>4. Ranked(a \o b \o c \o s \o p, 1, 5)
    <3>1. Ranked(a \o b \o c \o s \o p, 1, 2)
      BY <1>8, <2>3, RankedConcat
    <3> QED
      BY <3>1, RankedWider
  <2>5. Ranked(a \o b \o c \o s \o p \o f, 1, 5)
    BY <1>7, <2>4, RankedConcat
  <2> QED
    BY <1>4, <2>5 DEF Ranked
<1>15. \A x : Left(ApplyTasks(plan), x)
              = Left(a, x) \cup Left(b, x) \cup Left(c, x) \cup Left(s, x) \cup Left(p, x) \cup Left(f, x)
  <2> TAKE x
  <2> DEFINE ab == a \o b
             abc == ab \o c
             abcs == abc \o s
             most == abcs \o p
  <2>0. ab \in Seq(TaskType) /\ abc \in Seq(TaskType) /\ abcs \in Seq(TaskType) /\ most \in Seq(TaskType)
    BY <1>13
  <2>1. Left(ab, x) = Left(a, x) \cup Left(b, x)
    BY <1>5, LeftConcat
  <2> HIDE DEF ab
  <2>2. Left(abc, x) = Left(ab, x) \cup Left(c, x)
    BY <1>5, <2>0, LeftConcat
  <2> HIDE DEF abc
  <2>3. Left(abcs, x) = Left(abc, x) \cup Left(s, x)
    BY <1>5, <2>0, LeftConcat
  <2> HIDE DEF abcs
  <2>4. Left(most, x) = Left(abcs, x) \cup Left(p, x)
    BY <1>5, <2>0, LeftConcat
  <2> HIDE DEF most
  <2>5. Left(most \o f, x) = Left(most, x) \cup Left(f, x)
    BY <1>5, <2>0, LeftConcat
  <2>6. ApplyTasks(plan) = most \o f
    BY <1>4 DEF ab, abc, abcs, most
  <2> QED
    BY <2>1, <2>2, <2>3, <2>4, <2>5, <2>6
<1>16. Left(ApplyTasks(plan), "put") = Range(plan.order)
  BY <1>9, <1>10, <1>11, <1>15
<1>17. Left(ApplyTasks(plan), "stage") = Range(files)
  BY <1>9, <1>10, <1>11, <1>15
<1>18. Left(ApplyTasks(plan), "mkdir") = Range(Missing(plan)) \cup Range(new)
  BY <1>12, <1>15
<1> QED
  BY <1>2, <1>3, <1>14, <1>16, <1>17, <1>18

LEMMA RecoveryDoes ==
    ASSUME NEW j \in JournalType, WellFormed(j)
    PROVE  /\ Sorted(RecoveryTasks(j))
           /\ Left(RecoveryTasks(j), "undo") = Changed(j)
           /\ Left(RecoveryTasks(j), "rmdir") = Range(j.parents)
           /\ Left(RecoveryTasks(j), "unstage") = FilesOf(j)
<1> DEFINE files == Reverse(Files(j.order, j.after))
<1>1. j.order \in Seq(Dests) /\ j.parents \in Seq(Dirs) /\ j.parents \in Seq(Dests)
  <2>1. j.order \in Seq(Dests) /\ j.parents \in Seq(Dirs) /\ Dirs \subseteq Dests
    BY ForkAssumption DEF JournalType
  <2> QED
    BY <2>1, SeqMonotonic
<1>2. Reverse(j.order) \in Seq(Dests) /\ Range(Reverse(j.order)) = Changed(j) /\ Changed(j) \subseteq Dests
  BY <1>1, ReverseRange DEF Changed
<1>3. Reverse(j.parents) \in Seq(Dests) /\ Range(Reverse(j.parents)) = Range(j.parents)
  BY <1>1, ReverseRange
<1>4. files \in Seq(Dests) /\ Range(files) = FilesOf(j)
  <2>1. /\ Files(j.order, j.after) \in Seq(Dests)
        /\ Range(Files(j.order, j.after)) = Changed(j) \cap {d \in Dests : j.after[d] \notin {Absent, Dir}}
    BY <1>1, FilesRange DEF Files, Changed
  <2>2. files \in Seq(Dests) /\ Range(files) = Range(Files(j.order, j.after))
    BY <2>1, ReverseRange
  <2> QED
    BY <1>2, <2>1, <2>2 DEF FilesOf
<1> DEFINE a == Task("prepare")
           b == Tasks("unstage", files)
           c == Tasks("undo", Reverse(j.order))
           e == Tasks("rmdir", Reverse(j.parents))
           f == Task("close")
<1>5. RecoveryTasks(j) = a \o b \o c \o e \o f
  BY DEF RecoveryTasks
<1> HIDE DEF files
<1>6. /\ a \in Seq(TaskType) /\ b \in Seq(TaskType) /\ c \in Seq(TaskType)
      /\ e \in Seq(TaskType) /\ f \in Seq(TaskType)
  BY <1>2, <1>3, <1>4, TasksTyped, TaskTyped DEF TasksOf
<1>7. Ranked(a, 1, 1) /\ Ranked(f, 5, 5)
  BY <1>6, RankedTask DEF Rank
<1>8. Ranked(b, 1, 1) /\ Ranked(e, 4, 4)
  BY <1>3, <1>4, <1>6, RankedTasks DEF Rank
<1>9. Ranked(c, 2, 3)
  BY <1>6, RankedUndo
<1>10. Left(b, "unstage") = FilesOf(j) /\ Left(c, "undo") = Changed(j) /\ Left(e, "rmdir") = Range(j.parents)
  BY <1>2, <1>3, <1>4, LeftTasks
<1>11. /\ Left(b, "undo") = {} /\ Left(b, "rmdir") = {}
       /\ Left(c, "unstage") = {} /\ Left(c, "rmdir") = {}
       /\ Left(e, "unstage") = {} /\ Left(e, "undo") = {}
  BY <1>2, <1>3, <1>4, LeftTasks
<1>12. \A x \in {"undo", "rmdir", "unstage"} : Left(a, x) = {} /\ Left(f, x) = {}
  BY LeftTask
<1> HIDE DEF a, b, c, e, f
<1>13. /\ a \o b \in Seq(TaskType) /\ a \o b \o c \in Seq(TaskType) /\ a \o b \o c \o e \in Seq(TaskType)
  BY <1>6
<1>14. Sorted(RecoveryTasks(j))
  <2>1. Ranked(a \o b, 1, 2)
    <3>1. Ranked(a \o b, 1, 1)
      BY <1>7, <1>8, RankedConcat
    <3> QED
      BY <3>1, RankedWider
  <2>2. Ranked(a \o b \o c, 1, 4)
    <3>1. Ranked(a \o b \o c, 1, 3)
      BY <1>9, <2>1, RankedConcat
    <3> QED
      BY <3>1, RankedWider
  <2>3. Ranked(a \o b \o c \o e, 1, 5)
    <3>1. Ranked(a \o b \o c \o e, 1, 4)
      BY <1>8, <2>2, RankedConcat
    <3> QED
      BY <3>1, RankedWider
  <2>4. Ranked(a \o b \o c \o e \o f, 1, 5)
    BY <1>7, <2>3, RankedConcat
  <2> QED
    BY <1>5, <2>4 DEF Ranked
<1>15. \A x : Left(RecoveryTasks(j), x)
              = Left(a, x) \cup Left(b, x) \cup Left(c, x) \cup Left(e, x) \cup Left(f, x)
  <2> TAKE x
  <2> DEFINE ab == a \o b
             abc == ab \o c
             most == abc \o e
  <2>0. ab \in Seq(TaskType) /\ abc \in Seq(TaskType) /\ most \in Seq(TaskType)
    BY <1>13
  <2>1. Left(ab, x) = Left(a, x) \cup Left(b, x)
    BY <1>6, LeftConcat
  <2> HIDE DEF ab
  <2>2. Left(abc, x) = Left(ab, x) \cup Left(c, x)
    BY <1>6, <2>0, LeftConcat
  <2> HIDE DEF abc
  <2>3. Left(most, x) = Left(abc, x) \cup Left(e, x)
    BY <1>6, <2>0, LeftConcat
  <2> HIDE DEF most
  <2>4. Left(most \o f, x) = Left(most, x) \cup Left(f, x)
    BY <1>6, <2>0, LeftConcat
  <2>5. RecoveryTasks(j) = most \o f
    BY <1>5 DEF ab, abc, most
  <2> QED
    BY <2>1, <2>2, <2>3, <2>4, <2>5
<1> QED
  BY <1>10, <1>11, <1>12, <1>14, <1>15

\* The same journals, but for what they record of their progress.
Alike(js, ks) ==
    \A i \in 1..MaxPreviews :
       /\ ks[i].order = js[i].order /\ ks[i].parents = js[i].parents
       /\ ks[i].before = js[i].before /\ ks[i].after = js[i].after
       /\ ks[i].phase \in Ended <=> js[i].phase \in Ended

LEMMA AlikeSame == ASSUME NEW js PROVE Alike(js, js)
BY DEF Alike

LEMMA PersistAlike ==
    ASSUME TypeInv, run # Idle, NEW j \in JournalType, Persist(j),
           j.order = Journal.order, j.parents = Journal.parents, j.before = Journal.before, j.after = Journal.after,
           j.phase \in Ended <=> Journal.phase \in Ended
    PROVE  Alike(journals, journals')
<1>1. /\ journals'[Current] = j /\ Current \in 1..MaxPreviews
      /\ \A i \in 1..MaxPreviews : i # Current => journals'[i] = journals[i]
  BY PersistKeeps, Busy
<1> QED
  BY <1>1 DEF Alike, Journal

LEMMA AlikeMeans ==
    ASSUME Alike(journals, journals')
    PROVE  /\ Incomplete' = Incomplete
           /\ \A i \in 1..MaxPreviews : /\ Changed(journals'[i]) = Changed(journals[i])
                                        /\ FilesOf(journals'[i]) = FilesOf(journals[i])
           /\ AllWellFormed => AllWellFormed'
<1>1. Incomplete' = Incomplete
  BY DEF Alike, Incomplete
<1>2. ASSUME NEW i \in 1..MaxPreviews
      PROVE  /\ Changed(journals'[i]) = Changed(journals[i]) /\ FilesOf(journals'[i]) = FilesOf(journals[i])
             /\ WellFormed(journals[i]) => WellFormed(journals'[i])
  <2>1. /\ journals'[i].order = journals[i].order /\ journals'[i].parents = journals[i].parents
        /\ journals'[i].before = journals[i].before /\ journals'[i].after = journals[i].after
    BY DEF Alike
  <2>2. Changed(journals'[i]) = Changed(journals[i])
    BY <2>1 DEF Changed
  <2> QED
    BY <2>1, <2>2 DEF FilesOf, WellFormed
<1> QED
  BY <1>1, <1>2 DEF AllWellFormed

\* Whose command it is, and which journal is unfinished, stay.
LEMMA FrameKeeps ==
    ASSUME TypeInv, RollInv, Alike(journals, journals'),
           run' = Idle \/ (run # Idle /\ Current' = Current)
    PROVE  AllWellFormed' /\ OneAtATime'
<1>1. Incomplete' = Incomplete /\ AllWellFormed'
  BY AlikeMeans DEF RollInv
<1> QED
  BY <1>1 DEF RollInv, OneAtATime

LEMMA StagedStays ==
    ASSUME TypeInv, RollInv, Alike(journals, journals'),
           \A d \in Dests : staged'[d] # "none" =>
              staged[d] # "none" \/ \E i \in Incomplete : d \in FilesOf(journals[i])
    PROVE  StagedKnown'
<1> SUFFICES ASSUME NEW d \in Dests, staged'[d] # "none"
             PROVE  \E i \in Incomplete' : d \in FilesOf(journals'[i])
  BY DEF StagedKnown
<1>1. PICK i \in Incomplete : d \in FilesOf(journals[i])
  BY DEF RollInv, StagedKnown
<1>2. i \in 1..MaxPreviews
  BY DEF Incomplete
<1> QED
  BY <1>1, <1>2, AlikeMeans

\* A tracking file of j is promoted.
Tracked(j) ==
    \E t \in (Changed(j) \cap Tracking) \ touched : disk[t] = j.after[t] /\ j.before[t] # j.after[t]

LEMMA TrackingIs == TrackingLast <=> \A i \in Incomplete : Tracked(journals[i]) => Promoted(journals[i])
BY DEF TrackingLast, Tracked, Promoted

LEMMA TrackingIsNext ==
    TrackingLast' <=> \A i \in Incomplete' :
       (\E t \in (Changed(journals'[i]) \cap Tracking) \ touched' :
           disk'[t] = journals'[i].after[t] /\ journals'[i].before[t] # journals'[i].after[t])
       => \A d \in Changed(journals'[i]) \ (Tracking \cup touched') : Observe(disk'[d]) = journals'[i].after[d]
BY DEF TrackingLast

\* Only touched paths have changed.
LEMMA TrackingStays ==
    ASSUME TypeInv, RollInv, Alike(journals, journals'), touched \subseteq touched',
           \A d \in Dests \ touched' : disk'[d] = disk[d]
    PROVE  TrackingLast'
<1>1. Incomplete' = Incomplete
  BY AlikeMeans
<1>2. ASSUME NEW i \in Incomplete,
             NEW t \in (Changed(journals'[i]) \cap Tracking) \ touched',
             disk'[t] = journals'[i].after[t], journals'[i].before[t] # journals'[i].after[t],
             NEW d \in Changed(journals'[i]) \ (Tracking \cup touched')
      PROVE  Observe(disk'[d]) = journals'[i].after[d]
  <2>1. i \in 1..MaxPreviews
    BY DEF Incomplete
  <2>2. /\ Changed(journals'[i]) = Changed(journals[i])
        /\ journals'[i].before = journals[i].before /\ journals'[i].after = journals[i].after
    BY <2>1, AlikeMeans DEF Alike
  <2>3. Changed(journals[i]) \subseteq Dests
    <3>1. journals[i].order \in Seq(Dests)
      BY <2>1 DEF TypeInv, TypeOK, JournalType
    <3> QED
      BY <3>1, RangeOf DEF Changed
  <2>4. disk'[t] = disk[t] /\ disk'[d] = disk[d] /\ t \notin touched /\ d \notin touched
    BY <2>2, <2>3
  <2>5. Tracked(journals[i])
    BY <1>2, <2>2, <2>4 DEF Tracked
  <2>6. Promoted(journals[i])
    BY <2>5, TrackingIs DEF RollInv
  <2> QED
    BY <2>2, <2>4, <2>6 DEF Promoted
<1> QED
  BY <1>1, <1>2, TrackingIsNext

\* The command has changed the tree: it is about its own journal.
LEMMA TrackingStep ==
    ASSUME TypeInv, RollInv, run # Idle, Alike(journals, journals'), touched' = touched,
           NEW j, j = Journal,
           (\E t \in (Changed(j) \cap Tracking) \ touched : disk'[t] = j.after[t] /\ j.before[t] # j.after[t])
           => \A d \in Changed(j) \ (Tracking \cup touched) : Observe(disk'[d]) = j.after[d]
    PROVE  TrackingLast'
<1>1. Incomplete' = Incomplete /\ Incomplete \subseteq {Current} /\ Current \in 1..MaxPreviews
  BY AlikeMeans, Busy DEF RollInv, OneAtATime
<1>2. /\ Changed(journals'[Current]) = Changed(j)
      /\ journals'[Current].before = j.before /\ journals'[Current].after = j.after
  BY <1>1, AlikeMeans DEF Alike, Journal
<1> QED
  BY <1>1, <1>2, TrackingIsNext

LEMMA AdvanceRolls ==
    ASSUME TypeInv, RollInv, run # Idle, Head(run.todo).do \notin Ends, Advance, previews' = previews,
           touched' = touched, Alike(journals, journals'), NEW j, j = Journal, NEW on, on = On,
           \A d \in Dests : staged'[d] # "none" => staged[d] # "none" \/ d \in Left(run.todo, "stage"),
           Head(run.todo).do \in {"put", "unstage"} => staged'[on] = "none",
           Rank(Head(run.todo)) = 1 => \A d \in Dests \ Dirs : disk'[d] = disk[d],
           run.op = "recover" =>
             /\ \A d \in Dests : d # on \/ Head(run.todo).do \notin {"undo", "rmdir"} => disk'[d] = disk[d]
             /\ Head(run.todo).do = "undo" => disk'[on] = j.before[on]
             /\ Head(run.todo).do = "rmdir" => disk'[on] = Absent
             /\ Left(run.todo, "stage") = {}
    PROVE  Progress'
<1> DEFINE s == run.todo
<1>1. s \in Seq(TaskType) /\ s # <<>> /\ Current \in 1..MaxPreviews /\ j \in JournalType /\ Changed(j) \subseteq Dests
  BY Busy DEF TypeInv, TypeOK
<1>2. /\ Changed(journals'[Current]) = Changed(j) /\ FilesOf(journals'[Current]) = FilesOf(j)
      /\ journals'[Current].before = j.before /\ journals'[Current].after = j.after
      /\ journals'[Current].parents = j.parents
      /\ journals'[Current].phase \in Ended <=> j.phase \in Ended
  BY <1>1, AlikeMeans DEF Alike, Journal
<1>3. Current' = Current /\ run'.op = run.op /\ run' # Idle
  BY <1>2, AdvanceKeeps
<1>4. run'.step = "check" /\ run'.todo = Tail(s)
  BY DEF Advance, TypeInv, TypeOK
<1>5. Journal' = journals'[Current]
  BY <1>3 DEF Journal
<1>6. Sorted(s) /\ Applying /\ Recovering
  BY DEF RollInv, Progress
<1>7. Sorted(Tail(s)) /\ (\A k \in 1..Len(Tail(s)) : Rank(Head(s)) <= Rank(Tail(s)[k]))
  BY <1>1, <1>6, SortedTail
<1>8. \A do, d : d \in Left(s, do) <=> d \in Left(Tail(s), do) \/ (Head(s).do = do /\ on = d)
  BY <1>1, LeftTail DEF On
<1> HIDE DEF s
<1>9. ASSUME run.op = "apply"
      PROVE  /\ j.phase \notin Ended
             /\ \A d \in Dests : staged'[d] # "none" => d \in Left(Tail(s), "put")
             /\ Left(Tail(s), "stage") \subseteq Left(Tail(s), "put") \cap FilesOf(j)
             /\ Rank(Head(Tail(s))) = 1 => \A d \in Changed(j) \ (Dirs \cup touched) : disk'[d] = j.before[d]
  <2>1. /\ j.phase \notin Ended
        /\ \A d \in Dests : staged[d] # "none" => d \in Left(s, "put")
        /\ Left(s, "stage") \subseteq Left(s, "put") \cap FilesOf(j)
        /\ Rank(Head(s)) = 1 => \A d \in Changed(j) \ (Dirs \cup touched) : disk[d] = j.before[d]
    BY <1>6, <1>9 DEF Applying, Ends, s
  <2>2. ASSUME NEW d \in Dests, staged'[d] # "none" PROVE d \in Left(Tail(s), "put")
    <3>1. d \in Left(s, "put")
      BY <2>1, <2>2 DEF s
    <3> QED
      BY <1>8, <2>2, <3>1 DEF s
  <2>3. ASSUME NEW d \in Left(Tail(s), "stage") PROVE d \in Left(Tail(s), "put") \cap FilesOf(j)
    <3>1. d \in Left(s, "put") /\ d \in FilesOf(j)
      BY <1>8, <2>1
    <3>2. Head(s).do # "put"
      <4>1. PICK k \in 1..Len(Tail(s)) : Tail(s)[k].do = "stage"
        BY DEF Left
      <4>2. Rank(Tail(s)[k]) = 1 /\ Rank(Head(s)) <= 1
        BY <1>7, <4>1 DEF Rank
      <4> QED
        BY <4>2 DEF Rank
    <3> QED
      BY <1>8, <3>1, <3>2
  <2>4. ASSUME Rank(Head(Tail(s))) = 1, NEW d \in Changed(j) \ (Dirs \cup touched) PROVE disk'[d] = j.before[d]
    <3>1. Tail(s) # <<>> /\ Tail(s) \in Seq(TaskType)
      <4>1. TodoFits(run.op, s, Changed(Journal))
        BY DEF TypeInv, Running, s
      <4>2. TodoFits(run.op, Tail(s), Changed(Journal))
        BY <4>1, TailFits DEF s
      <4> QED
        BY <4>2 DEF TodoFits, AllFit
    <3>2. Head(Tail(s)) = Tail(s)[1] /\ 1 \in 1..Len(Tail(s))
      BY <3>1
    <3>3. Rank(Head(s)) <= 1 /\ Rank(Head(s)) \in 1..5
      BY <1>7, <2>4, <3>2, RankNat
    <3>4. Rank(Head(s)) = 1
      BY <3>3
    <3> QED
      BY <1>1, <2>1, <3>4 DEF s
  <2> QED
    BY <2>1, <2>2, <2>3, <2>4
<1>10. ASSUME run.op = "recover"
       PROVE  /\ j.phase \notin Ended
              /\ Left(Tail(s), "rmdir") \subseteq Range(j.parents)
              /\ \A d \in Changed(j) \ (touched \cup Left(Tail(s), "undo")) : disk'[d] = j.before[d]
              /\ \A d \in Range(j.parents) \ (touched \cup Left(Tail(s), "rmdir")) : disk'[d] = Absent
              /\ \A d \in Dests : staged'[d] # "none" => d \in Left(Tail(s), "unstage")
  <2>1. /\ j.phase \notin Ended
        /\ Left(s, "rmdir") \subseteq Range(j.parents)
        /\ \A d \in Changed(j) \ (touched \cup Left(s, "undo")) : disk[d] = j.before[d]
        /\ \A d \in Range(j.parents) \ (touched \cup Left(s, "rmdir")) : disk[d] = Absent
        /\ \A d \in Dests : staged[d] # "none" => d \in Left(s, "unstage")
    BY <1>6, <1>10 DEF Recovering, s
  <2>2. WellFormed(j)
    BY <1>1 DEF RollInv, AllWellFormed, Journal
  <2>3. Range(j.parents) \subseteq Dests
    <3>1. j.parents \in Seq(Dirs) /\ Dirs \subseteq Dests
      BY <1>1, ForkAssumption DEF JournalType
    <3> QED
      BY <3>1, RangeOf
  <2>4. ASSUME NEW d \in Changed(j) \ (touched \cup Left(Tail(s), "undo")) PROVE disk'[d] = j.before[d]
    <3>1. CASE Head(s).do = "undo" /\ on = d
      BY <1>10, <3>1 DEF s
    <3>2. CASE ~(Head(s).do = "undo" /\ on = d)
      <4>1. d \notin Left(s, "undo")
        BY <1>8, <3>2
      <4>2. disk[d] = j.before[d]
        BY <2>1, <4>1
      <4>3. ~(Head(s).do = "rmdir" /\ on = d)
        <5>1. ASSUME Head(s).do = "rmdir", on = d PROVE FALSE
          <6>1. d \in Range(j.parents)
            BY <1>8, <2>1, <5>1
          <6> QED
            BY <2>2, <6>1 DEF WellFormed
        <5> QED
          BY <5>1
      <4>4. disk'[d] = disk[d]
        BY <1>1, <1>10, <3>2, <4>3 DEF s
      <4> QED
        BY <4>2, <4>4
    <3> QED
      BY <3>1, <3>2
  <2>5. ASSUME NEW d \in Range(j.parents) \ (touched \cup Left(Tail(s), "rmdir")) PROVE disk'[d] = Absent
    <3>1. CASE Head(s).do = "rmdir" /\ on = d
      BY <1>10, <3>1 DEF s
    <3>2. CASE ~(Head(s).do = "rmdir" /\ on = d)
      <4>1. d \notin Left(s, "rmdir")
        BY <1>8, <3>2
      <4>2. disk[d] = Absent
        BY <2>1, <4>1
      <4>3. ~(Head(s).do = "undo" /\ on = d)
        <5>1. ASSUME Head(s).do = "undo", on = d PROVE FALSE
          <6>1. d \in Changed(j)
            BY <5>1, Busy DEF Fitting, On, s
          <6> QED
            BY <2>2, <6>1 DEF WellFormed
        <5> QED
          BY <5>1
      <4>4. disk'[d] = disk[d]
        BY <1>10, <2>3, <3>2, <4>3 DEF s
      <4> QED
        BY <4>2, <4>4
    <3> QED
      BY <3>1, <3>2
  <2>6. ASSUME NEW d \in Dests, staged'[d] # "none" PROVE d \in Left(Tail(s), "unstage")
    <3>1. staged[d] # "none"
      BY <1>10, <2>6 DEF s
    <3> QED
      BY <1>8, <2>1, <2>6, <3>1 DEF s
  <2> QED
    BY <1>8, <2>1, <2>4, <2>5, <2>6
<1>11. Applying'
  BY <1>2, <1>3, <1>4, <1>5, <1>9 DEF Applying
<1>12. Recovering'
  BY <1>2, <1>3, <1>4, <1>5, <1>10 DEF Recovering
<1> QED
  BY <1>4, <1>7, <1>11, <1>12 DEF Progress

LEMMA ProceedRolls ==
    ASSUME TypeInv, RollInv, run # Idle, NEW step \in {"act", "note"}, Proceed(step),
           UNCHANGED <<previews, touched, journals>>, NEW j, j = Journal, NEW on, on = On,
           \A d \in Dests : staged'[d] # "none" => staged[d] # "none",
           Head(run.todo).do = "put" /\ step = "note" => staged'[on] = "none",
           Rank(Head(run.todo)) = 1 => \A d \in Dests \ Dirs : disk'[d] = disk[d],
           run.op = "apply" /\ step = "act" /\ on \in Tracking =>
              \A d \in Changed(j) \ (Tracking \cup touched) : Observe(disk'[d]) = j.after[d],
           run.op = "recover" => disk' = disk
    PROVE  Progress'
<1>1. Current' = Current /\ run'.op = run.op /\ run' # Idle /\ run'.todo = run.todo /\ run'.step = step
  BY ProceedKeeps DEF Journal
<1>2. Journal' = j /\ On' = on
  BY <1>1 DEF Journal, On
<1>3. Sorted(run.todo) /\ Applying /\ Recovering /\ Changed(j) \subseteq Dests
  BY Busy DEF RollInv, Progress
<1>4. Applying'
  BY <1>1, <1>2, <1>3 DEF Applying, Promoted
<1>5. Recovering'
  BY <1>1, <1>2, <1>3 DEF Recovering
<1> QED
  BY <1>1, <1>3, <1>4, <1>5 DEF Progress

\* The sorted list: what is over once a task of a later rank is at hand.
LEMMA SortedLeft ==
    ASSUME NEW s \in Seq(TaskType), s # <<>>, Sorted(s)
    PROVE  /\ Rank(Head(s)) = 5 => \A do \in {"put", "stage", "unstage", "undo", "rmdir"} : Left(s, do) = {}
           /\ Rank(Head(s)) >= 3 => \A d \in Left(s, "undo") : d \notin Tracking
<1>1. \A k \in 1..Len(s) : Rank(Head(s)) <= Rank(s[k])
  <2>1. Head(s) = s[1] /\ 1 \in 1..Len(s) /\ \A k \in 1..Len(s) : 1 <= k
    OBVIOUS
  <2> QED
    BY <2>1 DEF Sorted
<1>2. ASSUME Rank(Head(s)) = 5, NEW do \in {"put", "stage", "unstage", "undo", "rmdir"}, NEW d \in Left(s, do)
      PROVE  FALSE
  <2>1. PICK k \in 1..Len(s) : s[k].do = do
    BY <1>2 DEF Left
  <2>2. Rank(s[k]) \in 1..4
    BY <1>2, <2>1 DEF Rank
  <2> QED
    BY <1>1, <1>2, <2>2
<1>3. ASSUME Rank(Head(s)) >= 3, NEW d \in Left(s, "undo"), d \in Tracking PROVE FALSE
  <2>1. PICK k \in 1..Len(s) : s[k].do = "undo" /\ s[k].on = d
    BY <1>3 DEF Left
  <2>2. Rank(s[k]) = 2 /\ Rank(Head(s)) \in 1..5
    BY <1>3, <2>1, RankNat DEF Rank
  <2> QED
    BY <1>1, <1>3, <2>2
<1> QED
  BY <1>2, <1>3

LEMMA RollInit == Init => RollInv
<1> SUFFICES ASSUME Init PROVE RollInv
  OBVIOUS
<1>1. \A i \in 1..MaxPreviews : journals[i] = NoJournal
  BY DEF Init
<1>2. Incomplete = {} /\ run = Idle
  BY <1>1, NoJournalTyped DEF Init, Incomplete, Ended
<1>3. WellFormed(NoJournal)
  <2>1. NoJournal.order = <<>> /\ NoJournal.parents = <<>>
    BY DEF NoJournal
  <2>2. Range(NoJournal.parents) = {} /\ Len(NoJournal.order) = 0
    BY <2>1 DEF Range
  <2> QED
    BY <2>2, NoJournalTyped DEF WellFormed
<1>4. StagedKnown
  BY DEF Init, StagedKnown
<1> QED
  BY <1>1, <1>2, <1>3, <1>4 DEF RollInv, AllWellFormed, OneAtATime, TrackingLast, Progress

\* The command stops, or none was there.
LEMMA StopRolls ==
    ASSUME TypeInv, RollInv, run' = Idle, Alike(journals, journals'), TrackingLast',
           \A d \in Dests : staged'[d] # "none" =>
              staged[d] # "none" \/ \E i \in Incomplete : d \in FilesOf(journals[i])
    PROVE  RollInv'
<1>1. AllWellFormed' /\ OneAtATime'
  BY FrameKeeps
<1>2. StagedKnown'
  BY StagedStays
<1>3. Progress'
  BY DEF Progress
<1> QED
  BY <1>1, <1>2, <1>3 DEF RollInv

\* It stops with nothing changed.
LEMMA AbortRolls ==
    ASSUME TypeInv, RollInv, run' = Idle, Alike(journals, journals'), UNCHANGED <<disk, staged, touched>>
    PROVE  RollInv'
<1>1. TrackingLast'
  BY TrackingStays
<1> QED
  BY <1>1, StopRolls

\* It goes on with its own journal.
LEMMA GoesRolls ==
    ASSUME TypeInv, RollInv, run # Idle, run' # Idle, Current' = Current, Alike(journals, journals'),
           TrackingLast', Progress',
           \A d \in Dests : staged'[d] # "none" =>
              staged[d] # "none" \/ \E i \in Incomplete : d \in FilesOf(journals[i])
    PROVE  RollInv'
<1>1. AllWellFormed' /\ OneAtATime'
  BY FrameKeeps
<1>2. StagedKnown'
  BY StagedStays
<1> QED
  BY <1>1, <1>2 DEF RollInv

LEMMA PreparesRolls ==
    ASSUME TypeInv, RollInv,
           (\E plan \in Plans : Prepare(plan)) \/ (\E i \in 1..MaxPreviews : PlanRollback(i))
    PROVE  RollInv'
<1>1. UNCHANGED <<disk, staged, journals, run, touched>>
  BY DEF Prepare, PlanRollback
<1>2. PICK p \in PreviewType : Len(previews) < MaxPreviews /\ previews' = Append(previews, p)
  <2>1. CASE \E plan \in Plans : Prepare(plan)
    <3>1. PICK plan \in Plans : Prepare(plan)
      BY <2>1
    <3>2. [kind |-> "apply", plan |-> plan, seen |-> disk, extra |-> extra] \in PreviewType
      BY DEF PreviewType, TypeInv, TypeOK
    <3> QED
      BY <3>1, <3>2 DEF Prepare
  <2>2. CASE \E i \in 1..MaxPreviews : PlanRollback(i)
    <3>1. PICK i \in 1..MaxPreviews : PlanRollback(i)
      BY <2>2
    <3>2. [kind |-> "recover", of |-> i, journal |-> journals[i], seen |-> disk, staged |-> staged] \in PreviewType
      BY DEF PreviewType, TypeInv, TypeOK
    <3> QED
      BY <3>1, <3>2 DEF PlanRollback
  <2> QED
    BY <2>1, <2>2
<1>3. run # Idle => Current' = Current
  BY <1>1, <1>2, PreviewKeeps
<1>4. AllWellFormed' /\ OneAtATime'
  BY <1>1, <1>3 DEF RollInv, AllWellFormed, OneAtATime, Incomplete
<1>5. StagedKnown' /\ TrackingLast'
  BY <1>1 DEF RollInv, StagedKnown, TrackingLast, Incomplete
<1>6. Progress'
  <2> SUFFICES ASSUME run # Idle PROVE Sorted(run.todo) /\ Applying' /\ Recovering'
    BY <1>1 DEF Progress
  <2>1. Journal' = Journal /\ On' = On
    BY <1>1, <1>3 DEF Journal, On
  <2>2. Sorted(run.todo) /\ Applying /\ Recovering
    BY DEF RollInv, Progress
  <2> QED
    BY <1>1, <2>1, <2>2 DEF Applying, Recovering, Promoted
<1> QED
  BY <1>4, <1>5, <1>6 DEF RollInv

\* With no unfinished journal nothing is staged.
LEMMA NothingStaged ==
    ASSUME RollInv, Incomplete = {}
    PROVE  \A d \in Dests : staged[d] = "none"
BY DEF RollInv, StagedKnown

LEMMA TaskSorted == ASSUME NEW do PROVE Sorted(Task(do)) /\ Head(Task(do)).do = do
<1>1. Len(Task(do)) = 1 /\ Head(Task(do)).do = do
  BY DEF Task
<1>2. \A k, l \in 1..1 : k <= l => Rank(Task(do)[k]) <= Rank(Task(do)[l])
  <2>1. \A k \in 1..1 : k = 1
    OBVIOUS
  <2>2. Rank(Task(do)[1]) \in 1..5
    BY RankNat
  <2> QED
    BY <2>1, <2>2
<1> QED
  BY <1>1, <1>2 DEF Sorted

LEMMA BeginsRolls ==
    ASSUME TypeInv, RollInv, NEW i \in DOMAIN previews, Apply(i) \/ ApplyRecovery(i)
    PROVE  RollInv'
<1>1. UNCHANGED <<disk, staged, journals, previews, touched>>
  BY DEF Apply, ApplyRecovery, Begin
<1>2. AllWellFormed' /\ StagedKnown' /\ TrackingLast' /\ Incomplete' = Incomplete
  BY <1>1 DEF RollInv, AllWellFormed, StagedKnown, TrackingLast, Incomplete
<1>3. CASE Apply(i)
  <2>1. run' = [op |-> "apply", id |-> i, todo |-> Task("open"), step |-> "check"] /\ Current' = i
    BY <1>3, ApplyType
  <2>2. Incomplete = {}
    BY <1>3 DEF Apply
  <2>3. OneAtATime'
    BY <1>2, <2>2 DEF OneAtATime
  <2>4. Sorted(Task("open")) /\ Head(Task("open")).do = "open" /\ Left(Task("open"), "stage") = {}
    BY TaskSorted, LeftTask
  <2>5. run'.op = "apply" /\ run'.todo = Task("open") /\ run'.step = "check"
    BY <2>1
  <2>6. Applying'
    BY <1>1, <2>2, <2>4, <2>5, NothingStaged DEF Applying
  <2>7. Recovering'
    BY <2>5 DEF Recovering
  <2> QED
    BY <1>2, <2>3, <2>4, <2>5, <2>6, <2>7 DEF RollInv, Progress
<1>4. CASE ApplyRecovery(i)
  <2> DEFINE n == previews[i].of
             j == journals[n]
  <2>1. run' = [op |-> "recover", id |-> i, todo |-> RecoveryTasks(j), step |-> "check"] /\ Current' = n
    BY <1>4, ApplyRecoveryType
  <2>2. j.phase \notin Ended /\ n \in 1..MaxPreviews /\ j \in JournalType
    <3>1. previews[i].kind = "recover" /\ previews[i] \in PreviewType /\ j.phase \notin Ended
      BY <1>4 DEF ApplyRecovery, TypeInv, TypeOK
    <3>2. n \in 1..MaxPreviews
      BY <3>1 DEF PreviewType
    <3> QED
      BY <3>1, <3>2 DEF TypeInv, TypeOK
  <2>3. Incomplete = {n}
    BY <2>2 DEF Incomplete, RollInv, OneAtATime
  <2>4. Journal' = j
    BY <1>1, <2>1 DEF Journal
  <2> HIDE DEF n
  <2>5. OneAtATime'
    BY <1>2, <2>1, <2>3 DEF OneAtATime
  <2>6. WellFormed(j)
    BY <2>2 DEF RollInv, AllWellFormed
  <2>7. \A d \in Dests : staged[d] # "none" => d \in FilesOf(j)
    BY <2>3 DEF RollInv, StagedKnown
  <2> HIDE DEF j
  <2>8. run'.op = "recover" /\ run'.todo = RecoveryTasks(j) /\ run'.step = "check"
    BY <2>1
  <2>9. /\ Sorted(RecoveryTasks(j)) /\ Left(RecoveryTasks(j), "undo") = Changed(j)
        /\ Left(RecoveryTasks(j), "rmdir") = Range(j.parents) /\ Left(RecoveryTasks(j), "unstage") = FilesOf(j)
    BY <2>2, <2>6, RecoveryDoes
  <2>10. Recovering'
    BY <1>1, <2>2, <2>4, <2>7, <2>8, <2>9 DEF Recovering
  <2>11. Applying'
    BY <2>8 DEF Applying
  <2> QED
    BY <1>2, <2>5, <2>8, <2>9, <2>10, <2>11 DEF RollInv, Progress
<1> QED
  BY <1>3, <1>4

\* Before the journal is there no journal is unfinished.
LEMMA OpenAlone ==
    ASSUME TypeInv, EditsInv, RollInv, run # Idle, Head(run.todo).do = "open"
    PROVE  Incomplete = {} /\ Journal.phase = "none" /\ run.op = "apply" /\ run.step # "act"
<1>1. Journal.phase = "none" /\ run.op = "apply"
  <2>1. ~(\A k \in 1..Len(run.todo) : run.todo[k].do # "open")
    <3>1. run.todo \in Seq(TaskType) /\ run.todo # <<>>
      BY Busy DEF TypeInv, TypeOK
    <3>2. 1 \in 1..Len(run.todo) /\ Head(run.todo) = run.todo[1]
      BY <3>1
    <3> QED
      BY <3>2
  <2> QED
    BY <2>1 DEF EditsInv, CommandKnows, Journaled
<1>2. Incomplete \subseteq {Current}
  BY DEF RollInv, OneAtATime
<1>3. Current \notin Incomplete
  BY <1>1 DEF Incomplete, Journal, Ended
<1>4. run.step # "act"
  BY DEF EditsInv, CommandKnows, Looked
<1> QED
  BY <1>1, <1>2, <1>3, <1>4

LEMMA PreparedWellFormed ==
    ASSUME TypeInv, NEW plan \in Plans
    PROVE  WellFormed(Prepared(plan))
<1>1. /\ Changed(Prepared(plan)) = Range(plan.order) /\ Prepared(plan).before = disk
      /\ Prepared(plan).after = plan.after /\ Prepared(plan).order = plan.order
      /\ Prepared(plan).parents = Missing(plan)
  BY PreparedTyped
<1>2. WellOrdered(plan) /\ (\A d \in Dests : plan.after[d] # Found) /\ Range(plan.order) \subseteq Dests
  BY PlanTyped, RangeOf
<1>3. Range(Missing(plan)) = Range(plan.parents) \cap {d \in Dirs : disk[d] = Absent}
  BY MissingTyped
<1> QED
  BY <1>1, <1>2, <1>3 DEF WellFormed, WellOrdered

\* The one unfinished journal is new.
LEMMA NewJournal ==
    ASSUME TypeInv, EditsInv, RollInv, run # Idle, Head(run.todo).do = "open",
           NEW j \in JournalType, WellFormed(j), Persist(j), j.phase \notin Ended, staged' = staged,
           run' = Idle \/ Current' = Current,
           \A t \in (Changed(j) \cap Tracking) \ touched' : ~(disk'[t] = j.after[t] /\ j.before[t] # j.after[t])
    PROVE  AllWellFormed' /\ OneAtATime' /\ StagedKnown' /\ TrackingLast'
<1>1. Incomplete = {} /\ Current \in 1..MaxPreviews
  BY OpenAlone, Busy
<1>2. journals'[Current] = j /\ \A i \in 1..MaxPreviews : i # Current => journals'[i] = journals[i]
  BY PersistKeeps
<1>3. Incomplete' = {Current}
  BY <1>1, <1>2 DEF Incomplete
<1>4. AllWellFormed'
  BY <1>1, <1>2 DEF RollInv, AllWellFormed
<1>5. OneAtATime'
  BY <1>3 DEF OneAtATime
<1>6. StagedKnown'
  BY <1>1, NothingStaged DEF StagedKnown
<1>7. TrackingLast'
  BY <1>2, <1>3, TrackingIsNext
<1> QED
  BY <1>4, <1>5, <1>6, <1>7

LEMMA OpenRolls ==
    ASSUME TypeInv, EditsInv, RollInv, Open
    PROVE  RollInv'
<1>1. /\ run # Idle /\ run.op = "apply" /\ Head(run.todo).do = "open"
      /\ UNCHANGED <<disk, staged, previews>>
  BY DoingIsBusy DEF Open
<1>2. Preview.plan \in Plans
  BY <1>1, Busy DEF PreviewType
<1>3. CASE Persist(Prepared(Preview.plan)) /\ touched' = {} /\ run' = [run EXCEPT !.todo = ApplyTasks(Preview.plan)]
  <2> DEFINE plan == Preview.plan
             j == Prepared(plan)
  <2>1. /\ j \in JournalType /\ WellFormed(j) /\ j.phase = "prepared" /\ j.before = disk /\ j.after = plan.after
        /\ Changed(j) = Range(plan.order)
    BY <1>2, PreparedTyped, PreparedWellFormed
  <2>2. run'.op = "apply" /\ run'.id = run.id /\ run'.todo = ApplyTasks(plan) /\ run'.step = run.step
    BY <1>1, <1>3 DEF TypeInv, TypeOK
  <2>3. Current' = Current /\ run' # Idle
    BY <1>1, <2>2 DEF Current, Idle
  <2>4. journals'[Current] = j
    BY <1>1, <1>3, <2>1, PersistKeeps
  <2>5. /\ Sorted(ApplyTasks(plan)) /\ Left(ApplyTasks(plan), "put") = Changed(j)
        /\ Left(ApplyTasks(plan), "stage") = FilesOf(j)
    BY <1>2, <2>1, ApplyDoes DEF FilesOf
  <2>6. Journal' = j
    BY <2>3, <2>4 DEF Journal
  <2>7. Incomplete = {} /\ run.step # "act"
    BY <1>1, OpenAlone
  <2>8. FilesOf(j) \subseteq Changed(j) /\ Changed(j) \subseteq Dests
    BY <1>2, <2>1, PlanTyped, RangeOf DEF FilesOf
  <2>9. Persist(j)
    BY <1>3
  <2> HIDE DEF j, plan
  <2>10. AllWellFormed' /\ OneAtATime' /\ StagedKnown' /\ TrackingLast'
    <3>1. j.phase \notin Ended
      BY <2>1 DEF Ended
    <3>2. \A t \in (Changed(j) \cap Tracking) \ touched' : ~(disk'[t] = j.after[t] /\ j.before[t] # j.after[t])
      BY <1>1, <2>1
    <3> QED
      BY <1>1, <2>1, <2>3, <2>9, <3>1, <3>2, NewJournal
  <2>11. Applying'
    <3>1. \A d \in Dests : staged'[d] = "none"
      BY <1>1, <2>7, NothingStaged
    <3>2. On' \in Dests => staged'[On'] = "none"
      BY <3>1
    <3>3. Head(run'.todo).do = "put" => On' \in Dests
      <4>1. TypeInv'
        BY OpenType
      <4>2. TodoFits(run'.op, run'.todo, Changed(j))
        BY <2>3, <2>6, <4>1 DEF TypeInv, Running
      <4>3. run'.todo \in Seq(TaskType) /\ run'.todo # <<>> /\ \A k \in 1..Len(run'.todo) : Fitting(run'.op, run'.todo[k], Changed(j))
        BY <4>2 DEF TodoFits, AllFit
      <4>4. 1 \in 1..Len(run'.todo) /\ Head(run'.todo) = run'.todo[1]
        BY <4>3
      <4> QED
        BY <2>8, <4>3, <4>4 DEF Fitting, On
    <3>4. \A d \in Changed(j) : disk'[d] = j.before[d]
      BY <1>1, <2>1
    <3> QED
      BY <2>1, <2>2, <2>5, <2>6, <2>7, <2>8, <3>1, <3>2, <3>3, <3>4 DEF Applying, Ended
  <2>12. Recovering'
    BY <2>2 DEF Recovering
  <2> QED
    BY <2>2, <2>5, <2>10, <2>11, <2>12 DEF RollInv, Progress
<1>4. CASE Abort /\ UNCHANGED <<journals, touched>>
  BY <1>1, <1>4, AbortRolls, AlikeSame DEF Abort
<1> QED
  BY <1>3, <1>4 DEF Open, Prepared

\* The journal of a command that has one is unfinished, and is the only one.
LEMMA CommandAlone ==
    ASSUME TypeInv, RollInv, run # Idle, Head(run.todo).do # "open"
    PROVE  Journal.phase \notin Ended /\ Incomplete = {Current} /\ WellFormed(Journal)
<1>1. Applying /\ Recovering /\ run.op \in {"apply", "recover"} /\ Current \in 1..MaxPreviews
  BY Busy DEF RollInv, Progress
<1>2. Journal.phase \notin Ended
  BY <1>1 DEF Applying, Recovering
<1> QED
  BY <1>1, <1>2 DEF RollInv, OneAtATime, Incomplete, Journal, AllWellFormed

LEMMA RecoverStages ==
    ASSUME TypeInv, run # Idle, run.op = "recover"
    PROVE  Left(run.todo, "stage") = {}
<1>1. \A k \in 1..Len(run.todo) : run.todo[k].do # "stage"
  BY DEF TypeInv, Running, TodoFits, AllFit, Fitting, TasksOf
<1> QED
  BY <1>1 DEF Left

\* No tracking is promoted while directories are made and files staged.
LEMMA EarlyTracking ==
    ASSUME TypeInv, RollInv, run # Idle, run.op = "apply", Rank(Head(run.todo)) = 1, Head(run.todo).do # "open",
           Alike(journals, journals'), touched' = touched, \A d \in Dests \ Dirs : disk'[d] = disk[d]
    PROVE  TrackingLast'
<1> DEFINE j == Journal
<1>1. WellFormed(j) /\ Changed(j) \subseteq Dests /\ j.order \in Seq(Dests)
  BY CommandAlone, Busy DEF JournalType
<1>2. \A d \in Changed(j) \ (Dirs \cup touched) : disk[d] = j.before[d]
  BY DEF RollInv, Progress, Applying
<1> HIDE DEF j
<1>3. \A t \in Changed(j) \cap Tracking : t \notin Dirs
  <2>1. \A t \in Changed(j) : \E k \in 1..Len(j.order) : t = j.order[k]
    BY <1>1 DEF Changed, Range
  <2> QED
    BY <1>1, <2>1 DEF WellFormed
<1>4. ~ \E t \in (Changed(j) \cap Tracking) \ touched : disk'[t] = j.after[t] /\ j.before[t] # j.after[t]
  BY <1>1, <1>2, <1>3
<1> QED
  BY <1>4, TrackingStep DEF j

LEMMA MkdirRolls ==
    ASSUME TypeInv, EditsInv, RollInv, Mkdir
    PROVE  RollInv'
<1>1. /\ run # Idle /\ run.op = "apply" /\ Head(run.todo).do = "mkdir"
      /\ UNCHANGED <<staged, previews, touched>>
  BY DoingIsBusy DEF Mkdir
<1>2. On \in Dirs /\ Journal \in JournalType /\ On \in Dests /\ Rank(Head(run.todo)) = 1
  BY <1>1, Busy, ForkAssumption DEF Fitting, On, Rank
<1>3. CASE disk' = [disk EXCEPT ![On] = Dir] /\ Proceed("note") /\ UNCHANGED journals
  <2>1. \A d \in Dests \ Dirs : disk'[d] = disk[d]
    BY <1>2, <1>3 DEF TypeInv, TypeOK
  <2>2. Progress'
    BY <1>1, <1>2, <1>3, <2>1, ProceedRolls
  <2>3. TrackingLast'
    BY <1>1, <1>2, <1>3, <2>1, EarlyTracking, AlikeSame
  <2>4. run' # Idle /\ Current' = Current
    BY <1>1, <1>3, ProceedKeeps DEF Journal
  <2> QED
    BY <1>1, <1>3, <2>2, <2>3, <2>4, GoesRolls, AlikeSame
<1>4. CASE Abort /\ UNCHANGED <<disk, journals>>
  BY <1>1, <1>4, AbortRolls, AlikeSame DEF Abort
<1>5. CASE /\ Persist([Journal EXCEPT !.owned = @ \cup {On},
                                     !.completed = @ \cup ({On} \cap Changed(Journal))])
           /\ Advance /\ UNCHANGED disk
  <2> DEFINE k == [Journal EXCEPT !.owned = @ \cup {On}, !.completed = @ \cup ({On} \cap Changed(Journal))]
  <2>1. /\ k \in JournalType /\ Changed(k) = Changed(Journal) /\ k.order = Journal.order /\ k.parents = Journal.parents
        /\ k.before = Journal.before /\ k.after = Journal.after /\ k.phase = Journal.phase
    BY <1>2 DEF JournalType, Changed
  <2>2. Persist(k)
    BY <1>5
  <2> HIDE DEF k
  <2>3. Alike(journals, journals') /\ journals'[Current] = k
    BY <1>1, <2>1, <2>2, PersistAlike, PersistKeeps
  <2>4. Progress'
    BY <1>1, <1>2, <1>5, <2>3, AdvanceRolls DEF Ends
  <2>5. TrackingLast'
    BY <1>1, <1>5, <2>3, TrackingStays
  <2>6. run' # Idle /\ Current' = Current
    BY <1>1, <1>5, <2>1, <2>3, AdvanceKeeps DEF Ends
  <2> QED
    BY <1>1, <2>3, <2>4, <2>5, <2>6, GoesRolls
<1> QED
  BY <1>3, <1>4, <1>5 DEF Mkdir

LEMMA StageRolls ==
    ASSUME TypeInv, EditsInv, RollInv, Stage
    PROVE  RollInv'
<1>1. /\ run # Idle /\ run.op = "apply" /\ Head(run.todo).do = "stage"
      /\ UNCHANGED <<disk, journals, previews, touched>>
  BY DoingIsBusy DEF Stage
<1>2. CASE staged' = [staged EXCEPT ![On] = "whole"] /\ Advance
  <2>1. On \in Left(run.todo, "stage")
    <3>1. run.todo \in Seq(TaskType) /\ run.todo # <<>>
      BY <1>1, Busy DEF TypeInv, TypeOK
    <3> QED
      BY <1>1, <3>1, LeftTail DEF On
  <2>2. On \in FilesOf(Journal) /\ Incomplete = {Current}
    BY <1>1, <2>1, CommandAlone DEF RollInv, Progress, Applying
  <2>3. \A d \in Dests : d # On => staged'[d] = staged[d]
    BY <1>2 DEF TypeInv, TypeOK
  <2>4. Progress'
    BY <1>1, <1>2, <2>1, <2>3, AdvanceRolls, AlikeSame DEF Ends
  <2>5. TrackingLast'
    BY <1>1, TrackingStays, AlikeSame
  <2>6. run' # Idle /\ Current' = Current
    BY <1>1, <1>2, AdvanceKeeps DEF Ends, Journal
  <2>7. \A d \in Dests : staged'[d] # "none" =>
              staged[d] # "none" \/ \E i \in Incomplete : d \in FilesOf(journals[i])
    BY <2>2, <2>3 DEF Journal
  <2> QED
    BY <1>1, <2>4, <2>5, <2>6, <2>7, GoesRolls, AlikeSame
<1>3. CASE Abort /\ UNCHANGED staged
  BY <1>1, <1>3, AbortRolls, AlikeSame DEF Abort
<1> QED
  BY <1>2, <1>3 DEF Stage

LEMMA StartApplyingRolls ==
    ASSUME TypeInv, EditsInv, RollInv, StartApplying
    PROVE  RollInv'
<1>1. /\ run # Idle /\ run.op = "apply" /\ Head(run.todo).do = "start" /\ Advance
      /\ UNCHANGED <<disk, staged, previews, touched>>
  BY DoingIsBusy DEF StartApplying
<1> DEFINE k == [Journal EXCEPT !.phase = "applying"]
<1>2. Journal \in JournalType /\ Journal.phase \notin Ended
  BY <1>1, Busy, CommandAlone
<1>3. /\ k \in JournalType /\ Changed(k) = Changed(Journal) /\ k.order = Journal.order /\ k.parents = Journal.parents
      /\ k.before = Journal.before /\ k.after = Journal.after /\ k.phase \notin Ended
  BY <1>2 DEF JournalType, Changed, Ended
<1>4. Persist(k)
  BY DEF StartApplying
<1> HIDE DEF k
<1>5. Alike(journals, journals') /\ journals'[Current] = k
  BY <1>1, <1>2, <1>3, <1>4, PersistAlike, PersistKeeps
<1>6. Progress'
  BY <1>1, <1>5, AdvanceRolls DEF Ends
<1>7. TrackingLast'
  BY <1>1, <1>5, TrackingStays
<1>8. run' # Idle /\ Current' = Current
  BY <1>1, <1>3, <1>5, AdvanceKeeps DEF Ends
<1> QED
  BY <1>1, <1>5, <1>6, <1>7, <1>8, GoesRolls

LEMMA PutCheckRolls ==
    ASSUME TypeInv, EditsInv, RollInv, run # Idle, run.op = "apply", Head(run.todo).do = "put",
           UNCHANGED <<disk, staged, journals, previews, touched>>, NEW j, j = Journal, NEW d, d = On,
           Promotable(j, d),
           NEW step, step = (IF j.after[d] = Dir \/ (j.after[d] = Absent /\ j.before[d] = Absent)
                             THEN "note" ELSE "act"),
           Proceed(step)
    PROVE  RollInv'
<1>1. step \in {"act", "note"} /\ Rank(Head(run.todo)) = 2 /\ d \in Dests
  BY Busy DEF Rank, Fitting, On
<1>2. step = "note" => staged[d] = "none"
  <2>1. Incomplete = {Current}
    BY CommandAlone
  <2>2. step = "note" => d \notin FilesOf(j)
    BY DEF FilesOf
  <2> QED
    BY <1>1, <2>1, <2>2 DEF RollInv, StagedKnown, Journal
<1>3. d \in Tracking => \A c \in Changed(j) \ (Tracking \cup touched) : Observe(disk[c]) = j.after[c]
  BY DEF Promotable, VerifyContent
<1>4. Progress'
  BY <1>1, <1>2, <1>3, ProceedRolls
<1>5. TrackingLast'
  BY TrackingStays, AlikeSame
<1>6. run' # Idle /\ Current' = Current
  BY <1>1, ProceedKeeps DEF Journal
<1> QED
  BY <1>4, <1>5, <1>6, GoesRolls, AlikeSame

\* A promotion: tracking when all content is there, content before tracking.
LEMMA PutTracking ==
    ASSUME TypeInv, RollInv, run # Idle, run.op = "apply", Head(run.todo).do = "put", run.step = "act",
           journals' = journals, touched' = touched, NEW j, j = Journal, NEW d, d = On,
           disk' = [disk EXCEPT ![d] = j.after[d]]
    PROVE  TrackingLast'
<1>1. d \in Dests /\ d \in Changed(j) /\ Changed(j) \subseteq Dests
  BY Busy DEF Fitting, On
<1>2. disk'[d] = j.after[d] /\ \A c \in Dests : c # d => disk'[c] = disk[c]
  BY <1>1 DEF TypeInv, TypeOK
<1>3. WellFormed(j) /\ Incomplete = {Current}
  BY CommandAlone
<1>4. Observe(j.after[d]) = j.after[d]
  BY <1>1, <1>3 DEF WellFormed, Observe
<1>5. ASSUME NEW t \in (Changed(j) \cap Tracking) \ touched, disk'[t] = j.after[t], j.before[t] # j.after[t],
             NEW c \in Changed(j) \ (Tracking \cup touched)
      PROVE  Observe(disk'[c]) = j.after[c]
  <2>1. Promoted(j)
    <3>1. CASE d \in Tracking
      BY <3>1 DEF RollInv, Progress, Applying
    <3>2. CASE d \notin Tracking
      <4>1. disk[t] = j.after[t]
        BY <1>1, <1>2, <1>5, <3>2
      <4>2. Tracked(j)
        BY <1>5, <4>1 DEF Tracked
      <4> QED
        BY <1>3, <4>2, TrackingIs DEF RollInv, Journal
    <3> QED
      BY <3>1, <3>2
  <2> QED
    BY <1>1, <1>2, <1>4, <2>1 DEF Promoted
<1> QED
  BY <1>5, TrackingStep, AlikeSame

LEMMA PutActRolls ==
    ASSUME TypeInv, EditsInv, RollInv, run # Idle, run.op = "apply", Head(run.todo).do = "put", run.step = "act",
           UNCHANGED <<journals, previews, touched>>, NEW j, j = Journal, NEW d, d = On,
           disk' = [disk EXCEPT ![d] = j.after[d]], staged' = [staged EXCEPT ![d] = "none"], Proceed("note")
    PROVE  RollInv'
<1>1. Rank(Head(run.todo)) = 2 /\ d \in Dests
  BY Busy DEF Rank, Fitting, On
<1>2. staged'[d] = "none" /\ \A c \in Dests : c # d => staged'[c] = staged[c]
  BY <1>1 DEF TypeInv, TypeOK
<1>3. Progress'
  BY <1>1, <1>2, ProceedRolls
<1>4. TrackingLast'
  BY PutTracking
<1>5. run' # Idle /\ Current' = Current
  BY ProceedKeeps DEF Journal
<1> QED
  BY <1>2, <1>3, <1>4, <1>5, GoesRolls, AlikeSame

LEMMA PutRolls ==
    ASSUME TypeInv, EditsInv, RollInv, Put
    PROVE  RollInv'
<1>1. run # Idle /\ run.op = "apply" /\ Head(run.todo).do = "put" /\ UNCHANGED <<previews, touched>>
  BY DoingIsBusy DEF Put
<1>2. CASE /\ Promotable(Journal, On)
           /\ Proceed(IF Journal.after[On] = Dir \/ (Journal.after[On] = Absent /\ Journal.before[On] = Absent)
                         THEN "note" ELSE "act")
           /\ UNCHANGED <<disk, staged, lock, journals>>
  BY <1>1, <1>2, PutCheckRolls
<1>3. CASE Abort /\ UNCHANGED <<disk, staged, journals>>
  BY <1>1, <1>3, AbortRolls, AlikeSame DEF Abort
<1>4. CASE /\ run.step = "act" /\ disk' = [disk EXCEPT ![On] = Journal.after[On]]
           /\ staged' = [staged EXCEPT ![On] = "none"] /\ Proceed("note") /\ UNCHANGED <<lock, journals>>
  BY <1>1, <1>4, PutActRolls
<1>5. CASE /\ run.step = "note" /\ Persist([Journal EXCEPT !.completed = @ \cup {On}])
           /\ Advance /\ UNCHANGED <<disk, staged, lock>>
  <2> DEFINE k == [Journal EXCEPT !.completed = @ \cup {On}]
  <2>1. Journal \in JournalType /\ On \in Dests /\ Rank(Head(run.todo)) = 2
    BY <1>1, Busy DEF Fitting, On, Rank
  <2>2. /\ k \in JournalType /\ Changed(k) = Changed(Journal) /\ k.order = Journal.order /\ k.parents = Journal.parents
        /\ k.before = Journal.before /\ k.after = Journal.after /\ k.phase = Journal.phase
    BY <2>1 DEF JournalType, Changed
  <2>3. Persist(k)
    BY <1>5
  <2> HIDE DEF k
  <2>4. Alike(journals, journals') /\ journals'[Current] = k
    BY <1>1, <2>2, <2>3, PersistAlike, PersistKeeps
  <2>5. staged'[On] = "none"
    BY <1>1, <1>5 DEF RollInv, Progress, Applying
  <2>6. Progress'
    BY <1>1, <1>5, <2>1, <2>4, <2>5, AdvanceRolls DEF Ends
  <2>7. TrackingLast'
    BY <1>1, <1>5, <2>4, TrackingStays
  <2>8. run' # Idle /\ Current' = Current
    BY <1>1, <1>5, <2>2, <2>4, AdvanceKeeps DEF Ends
  <2> QED
    BY <1>1, <1>5, <2>4, <2>6, <2>7, <2>8, GoesRolls
<1> QED
  BY <1>2, <1>3, <1>4, <1>5 DEF Put

\* The journal is finished, and nothing is staged.
LEMMA EndRolls ==
    ASSUME TypeInv, RollInv, run # Idle, Head(run.todo).do \in {"finish", "close"}, run' = Idle,
           staged' = staged, NEW phase \in {"complete", "rolled_back"}, Persist([Journal EXCEPT !.phase = phase])
    PROVE  RollInv' /\ (\A d \in Dests : staged[d] = "none")
<1> DEFINE k == [Journal EXCEPT !.phase = phase]
<1>1. Journal \in JournalType /\ Incomplete = {Current} /\ WellFormed(Journal) /\ Current \in 1..MaxPreviews
  BY Busy, CommandAlone
<1>2. /\ k \in JournalType /\ k.order = Journal.order /\ k.parents = Journal.parents
      /\ k.before = Journal.before /\ k.after = Journal.after /\ k.phase \in Ended
  BY <1>1 DEF JournalType, Ended
<1>3. Persist(k)
  OBVIOUS
<1> HIDE DEF k
<1>4. journals'[Current] = k /\ \A i \in 1..MaxPreviews : i # Current => journals'[i] = journals[i]
  BY <1>2, <1>3, PersistKeeps
<1>5. Incomplete' = {}
  BY <1>1, <1>2, <1>4 DEF Incomplete
<1>6. AllWellFormed'
  <2>1. WellFormed(k)
    BY <1>1, <1>2 DEF WellFormed, Changed
  <2> QED
    BY <1>4, <2>1 DEF RollInv, AllWellFormed
<1>7. \A d \in Dests : staged[d] = "none"
  <2>1. run.todo \in Seq(TaskType) /\ run.todo # <<>> /\ run.op \in {"apply", "recover"}
    BY Busy DEF TypeInv, TypeOK
  <2>2. Sorted(run.todo) /\ Rank(Head(run.todo)) = 5
    BY DEF RollInv, Progress, Rank
  <2>3. Left(run.todo, "put") = {} /\ Left(run.todo, "unstage") = {}
    BY <2>1, <2>2, SortedLeft
  <2> QED
    BY <2>1, <2>3 DEF RollInv, Progress, Applying, Recovering
<1>8. OneAtATime' /\ StagedKnown' /\ TrackingLast' /\ Progress'
  BY <1>5, <1>7 DEF OneAtATime, StagedKnown, TrackingLast, Progress
<1> QED
  BY <1>6, <1>7, <1>8 DEF RollInv

LEMMA FinishRolls ==
    ASSUME TypeInv, EditsInv, RollInv, Finish
    PROVE  RollInv'
<1>1. /\ run # Idle /\ Head(run.todo).do = "finish" /\ run' = Idle
      /\ UNCHANGED <<disk, staged, touched>>
  BY DoingIsBusy DEF Finish, Abort
<1>2. CASE Persist([Journal EXCEPT !.phase = "complete"])
  BY <1>1, <1>2, EndRolls
<1>3. CASE UNCHANGED journals
  BY <1>1, <1>3, AbortRolls, AlikeSame
<1> QED
  BY <1>2, <1>3 DEF Finish

LEMMA CloseRolls ==
    ASSUME TypeInv, EditsInv, RollInv, Close
    PROVE  RollInv'
<1>1. /\ run # Idle /\ Head(run.todo).do = "close" /\ run' = Idle
      /\ UNCHANGED <<disk, staged, touched>>
  BY DoingIsBusy DEF Close, Abort
<1>2. CASE Persist([Journal EXCEPT !.phase = "rolled_back"])
  BY <1>1, <1>2, EndRolls
<1>3. CASE UNCHANGED journals
  BY <1>1, <1>3, AbortRolls, AlikeSame
<1> QED
  BY <1>2, <1>3 DEF Close

LEMMA PrepareDirectoriesRolls ==
    ASSUME TypeInv, EditsInv, RollInv, PrepareDirectories
    PROVE  RollInv'
<1>1. /\ run # Idle /\ run.op = "recover" /\ Head(run.todo).do = "prepare" /\ Advance
      /\ UNCHANGED <<disk, staged, previews, touched>>
  BY DoingIsBusy DEF PrepareDirectories
<1>2. Journal \in JournalType
  BY <1>1, Busy
<1> DEFINE lost == {d \in Changed(Journal) \cap Dirs :
                       Observe(Journal.before[d]) = Dir /\ Preview.seen[d] = Absent} \ Journal.restoring
           k == [Journal EXCEPT !.restoring = @ \cup lost]
<1>3. lost \subseteq Dirs /\ Persist(k)
  BY DEF PrepareDirectories
<1> HIDE DEF lost
<1>4. /\ k \in JournalType /\ Changed(k) = Changed(Journal) /\ k.order = Journal.order /\ k.parents = Journal.parents
      /\ k.before = Journal.before /\ k.after = Journal.after /\ k.phase = Journal.phase
  BY <1>2, <1>3 DEF JournalType, Changed
<1> HIDE DEF k
<1>5. Alike(journals, journals') /\ journals'[Current] = k
  BY <1>1, <1>3, <1>4, PersistAlike, PersistKeeps
<1>6. Progress'
  BY <1>1, <1>5, AdvanceRolls, RecoverStages DEF Ends
<1>7. TrackingLast'
  BY <1>1, <1>5, TrackingStays
<1>8. run' # Idle /\ Current' = Current
  BY <1>1, <1>4, <1>5, AdvanceKeeps DEF Ends
<1> QED
  BY <1>1, <1>5, <1>6, <1>7, <1>8, GoesRolls

LEMMA UnstageRolls ==
    ASSUME TypeInv, EditsInv, RollInv, Unstage
    PROVE  RollInv'
<1>1. /\ run # Idle /\ run.op = "recover" /\ Head(run.todo).do = "unstage" /\ Advance
      /\ UNCHANGED <<disk, journals, previews, touched>> /\ staged' = [staged EXCEPT ![On] = "none"]
  BY DoingIsBusy DEF Unstage
<1>2. On \in Dests /\ staged'[On] = "none" /\ \A d \in Dests : d # On => staged'[d] = staged[d]
  <2>1. On \in Dests
    BY <1>1, Busy DEF Fitting, On
  <2> QED
    BY <1>1, <2>1 DEF TypeInv, TypeOK
<1>3. Progress'
  BY <1>1, <1>2, AdvanceRolls, RecoverStages, AlikeSame DEF Ends
<1>4. TrackingLast'
  BY <1>1, TrackingStays, AlikeSame
<1>5. run' # Idle /\ Current' = Current
  BY <1>1, AdvanceKeeps DEF Ends, Journal
<1> QED
  BY <1>1, <1>2, <1>3, <1>4, <1>5, GoesRolls, AlikeSame

\* An undo that goes on to the next leaves the path as it was before.
LEMMA UndoEnds ==
    ASSUME TypeInv, Undo
    PROVE  \/ /\ Advance /\ disk'[On] = Journal.before[On]
              /\ \A d \in Dests : d # On => disk'[d] = disk[d]
           \/ Proceed("act") /\ UNCHANGED disk
           \/ Abort /\ UNCHANGED disk
<1>1. On \in Dests
  BY DoingIsBusy, Busy DEF Undo, Fitting, On
<1> DEFINE e == [disk EXCEPT ![On] = Journal.before[On]]
<1>2. e[On] = Journal.before[On] /\ \A d \in Dests : d # On => e[d] = disk[d]
  BY <1>1 DEF TypeInv, TypeOK
<1>3. CASE RestoreDirectory(Journal, On)
  <2>1. \/ disk' = e /\ Advance
        \/ disk[On] = Journal.before[On] /\ Advance /\ UNCHANGED disk
        \/ Abort /\ UNCHANGED disk
    BY <1>3 DEF RestoreDirectory
  <2> HIDE DEF e
  <2> QED
    BY <1>2, <2>1
<1>4. CASE UndoDirectory(Journal, On)
  <2>1. \/ disk' = e /\ Advance
        \/ Abort /\ UNCHANGED disk
    BY <1>4 DEF UndoDirectory
  <2> HIDE DEF e
  <2> QED
    BY <1>2, <2>1
<1>5. CASE UndoFile(Journal, On)
  <2>1. \/ disk' = e /\ Advance
        \/ disk[On] = Journal.before[On] /\ Advance /\ UNCHANGED disk
        \/ Proceed("act") /\ UNCHANGED disk
        \/ Abort /\ UNCHANGED disk
    BY <1>5 DEF UndoFile
  <2> HIDE DEF e
  <2> QED
    BY <1>2, <2>1
<1> QED
  BY <1>3, <1>4, <1>5 DEF Undo, UndoChange

LEMMA UndoRolls ==
    ASSUME TypeInv, EditsInv, RollInv, Undo
    PROVE  RollInv'
<1>1. /\ run # Idle /\ run.op = "recover" /\ Head(run.todo).do = "undo"
      /\ UNCHANGED <<staged, journals, previews, touched>>
  BY DoingIsBusy DEF Undo
<1>2. CASE Abort /\ UNCHANGED disk
  BY <1>1, <1>2, AbortRolls, AlikeSame DEF Abort
<1>3. CASE Proceed("act") /\ UNCHANGED disk
  <2>1. Progress'
    BY <1>1, <1>3, ProceedRolls
  <2>2. TrackingLast'
    BY <1>1, <1>3, TrackingStays, AlikeSame
  <2>3. run' # Idle /\ Current' = Current
    BY <1>1, <1>3, ProceedKeeps DEF Journal
  <2> QED
    BY <1>1, <2>1, <2>2, <2>3, GoesRolls, AlikeSame
<1>4. CASE Advance /\ disk'[On] = Journal.before[On] /\ \A d \in Dests : d # On => disk'[d] = disk[d]
  <2> DEFINE j == Journal
             d == On
             s == run.todo
  <2>1. d \in Dests /\ d \in Changed(j) /\ Changed(j) \subseteq Dests /\ s \in Seq(TaskType) /\ s # <<>>
    BY <1>1, Busy DEF Fitting, On, TypeInv, TypeOK
  <2>2. Progress'
    BY <1>1, <1>4, AdvanceRolls, RecoverStages, AlikeSame DEF Ends, Rank
  <2>3. run' # Idle /\ Current' = Current
    BY <1>1, <1>4, AdvanceKeeps DEF Ends, Journal
  <2>4. TrackingLast'
    <3>1. Incomplete = {Current}
      BY <1>1, CommandAlone
    <3>2. ASSUME NEW t \in (Changed(j) \cap Tracking) \ touched, disk'[t] = j.after[t], j.before[t] # j.after[t],
                 NEW c \in Changed(j) \ (Tracking \cup touched)
          PROVE  Observe(disk'[c]) = j.after[c]
      <4>1. disk'[d] = j.before[d] /\ \A b \in Dests : b # d => disk'[b] = disk[b]
        BY <1>4
      <4>2. t # d /\ disk[t] = j.after[t]
        BY <2>1, <3>2, <4>1
      <4>3. CASE d \in Tracking
        <5>1. Tracked(j)
          BY <3>2, <4>2 DEF Tracked
        <5>2. Promoted(j)
          BY <3>1, <5>1, TrackingIs DEF RollInv, Journal
        <5> QED
          BY <2>1, <4>1, <4>3, <5>2 DEF Promoted
      <4>4. CASE d \notin Tracking
        <5>1. Rank(Head(s)) = 3 /\ Sorted(s)
          BY <1>1, <4>4 DEF Rank, On, RollInv, Progress
        <5>2. t \notin Left(s, "undo")
          BY <2>1, <5>1, SortedLeft
        <5>3. disk[t] = j.before[t]
          BY <1>1, <5>2 DEF RollInv, Progress, Recovering
        <5> QED
          BY <3>2, <4>2, <5>3
      <4> QED
        BY <4>3, <4>4
    <3> HIDE DEF j
    <3> QED
      BY <1>1, <3>2, TrackingStep, AlikeSame DEF j
  <2> QED
    BY <1>1, <2>2, <2>3, <2>4, GoesRolls, AlikeSame
<1> QED
  BY <1>2, <1>3, <1>4, UndoEnds

LEMMA RemoveParentRolls ==
    ASSUME TypeInv, EditsInv, RollInv, RemoveParent
    PROVE  RollInv'
<1>1. /\ run # Idle /\ run.op = "recover" /\ Head(run.todo).do = "rmdir"
      /\ UNCHANGED <<staged, journals, previews, touched>>
  BY DoingIsBusy DEF RemoveParent
<1>2. CASE Abort /\ UNCHANGED disk
  BY <1>1, <1>2, AbortRolls, AlikeSame DEF Abort
<1>3. CASE Advance /\ disk' = [disk EXCEPT ![On] = Absent]
  <2> DEFINE j == Journal
             d == On
  <2>1. /\ d \in Dests /\ Changed(j) \subseteq Dests /\ run.todo \in Seq(TaskType) /\ run.todo # <<>>
        /\ WellFormed(j) /\ Incomplete = {Current}
    BY <1>1, Busy, CommandAlone, ForkAssumption DEF Fitting, On, TypeInv, TypeOK
  <2>2. disk'[d] = Absent /\ \A b \in Dests : b # d => disk'[b] = disk[b]
    BY <1>3, <2>1 DEF TypeInv, TypeOK
  <2>3. Progress'
    BY <1>1, <1>3, <2>2, AdvanceRolls, RecoverStages, AlikeSame DEF Ends, Rank
  <2>4. run' # Idle /\ Current' = Current
    BY <1>1, <1>3, AdvanceKeeps DEF Ends, Journal
  <2>5. d \notin Changed(j)
    <3>1. d \in Left(run.todo, "rmdir")
      BY <1>1, <2>1, LeftTail DEF On
    <3>2. d \in Range(j.parents)
      BY <1>1, <3>1 DEF RollInv, Progress, Recovering
    <3> QED
      BY <2>1, <3>2 DEF WellFormed
  <2>6. TrackingLast'
    <3>1. Tracked(j) => Promoted(j)
      BY <2>1, TrackingIs DEF RollInv, Journal
    <3>2. \A c \in Changed(j) : disk'[c] = disk[c]
      BY <2>1, <2>2, <2>5
    <3> HIDE DEF j
    <3>3. (\E t \in (Changed(j) \cap Tracking) \ touched : disk'[t] = j.after[t] /\ j.before[t] # j.after[t])
           => \A c \in Changed(j) \ (Tracking \cup touched) : Observe(disk'[c]) = j.after[c]
      BY <3>1, <3>2 DEF Tracked, Promoted
    <3> QED
      BY <1>1, <3>3, TrackingStep, AlikeSame DEF j
  <2> QED
    BY <1>1, <2>3, <2>4, <2>6, GoesRolls, AlikeSame
<1> QED
  BY <1>2, <1>3 DEF RemoveParent

\* What a failure or a crash leaves of the task at hand.
LEMMA RemainsRolls ==
    ASSUME TypeInv, EditsInv, RollInv, run # Idle, run' = Idle, UNCHANGED <<previews, touched>>,
           Remains(Head(run.todo).do)
    PROVE  RollInv'
<1>1. CASE UNCHANGED <<disk, staged, journals>>
  BY <1>1, AbortRolls, AlikeSame
<1>2. CASE Head(run.todo).do = "open" /\ Persist([NoJournal EXCEPT !.phase = "torn"]) /\ UNCHANGED <<disk, staged>>
  <2> DEFINE k == [NoJournal EXCEPT !.phase = "torn"]
  <2>1. k \in JournalType /\ k.phase \notin Ended /\ k.order = <<>> /\ k.parents = <<>>
    <3>1. NoJournal \in JournalType
      BY NoJournalTyped
    <3>2. k \in JournalType /\ k.phase = "torn"
      BY <3>1 DEF JournalType
    <3> QED
      BY <3>2 DEF Ended, NoJournal
  <2>2. Persist(k)
    BY <1>2
  <2> HIDE DEF k
  <2>3. Changed(k) = {} /\ Range(k.parents) = {} /\ Len(k.order) = 0
    BY <2>1 DEF Changed, Range
  <2>4. WellFormed(k)
    BY <2>3 DEF WellFormed
  <2>5. AllWellFormed' /\ OneAtATime' /\ StagedKnown' /\ TrackingLast'
    BY <1>2, <2>1, <2>2, <2>3, <2>4, NewJournal
  <2> QED
    BY <2>5 DEF RollInv, Progress
<1>3. CASE /\ Head(run.todo).do = "stage" /\ staged' = [staged EXCEPT ![On] = "part"]
           /\ UNCHANGED <<disk, journals>>
  <2>1. run.todo \in Seq(TaskType) /\ run.todo # <<>> /\ run.op = "apply"
    BY <1>3, Busy DEF TypeInv, TypeOK, Fitting, TasksOf
  <2>2. On \in Left(run.todo, "stage")
    BY <1>3, <2>1, LeftTail DEF On
  <2>3. On \in FilesOf(Journal) /\ Incomplete = {Current}
    BY <1>3, <2>1, <2>2, CommandAlone DEF RollInv, Progress, Applying
  <2>4. \A d \in Dests : d # On => staged'[d] = staged[d]
    BY <1>3 DEF TypeInv, TypeOK
  <2>5. TrackingLast'
    BY <1>3, TrackingStays, AlikeSame
  <2> QED
    BY <1>3, <2>3, <2>4, <2>5, StopRolls, AlikeSame DEF Journal
<1>4. CASE /\ Head(run.todo).do = "put" /\ run.step = "act"
           /\ disk' = [disk EXCEPT ![On] = Journal.after[On]] /\ UNCHANGED <<staged, journals>>
  <2>1. run.op = "apply"
    BY <1>4, Busy DEF Fitting, TasksOf
  <2>2. TrackingLast'
    BY <1>4, <2>1, PutTracking
  <2> QED
    BY <1>4, <2>2, StopRolls, AlikeSame
<1> QED
  BY <1>1, <1>2, <1>3, <1>4 DEF Remains

LEMMA FailuresRoll ==
    ASSUME TypeInv, EditsInv, RollInv, Fault \/ Crash
    PROVE  RollInv'
<1>1. run # Idle /\ run' = Idle /\ UNCHANGED <<previews, touched>>
  BY DEF Fault, Crash, Abort
<1>2. CASE Remains(Head(run.todo).do)
  BY <1>1, <1>2, RemainsRolls
<1>3. CASE /\ Doing("apply", "mkdir") /\ UNCHANGED staged
           /\ disk' = [disk EXCEPT ![On] = IF @ = Dir /\ Empty(On) THEN Absent ELSE @]
           /\ UNCHANGED journals \/ Persist([Journal EXCEPT !.owned = @ \cup {On}])
  <2>1. run.op = "apply" /\ Head(run.todo).do = "mkdir" /\ Rank(Head(run.todo)) = 1
    BY <1>3, DoingIsBusy DEF Rank
  <2>2. On \in Dirs /\ Journal \in JournalType
    BY <1>1, <2>1, Busy DEF Fitting, On
  <2>3. \A d \in Dests \ Dirs : disk'[d] = disk[d]
    BY <1>3, <2>2 DEF TypeInv, TypeOK
  <2>4. Alike(journals, journals')
    <3>1. CASE UNCHANGED journals
      BY <3>1, AlikeSame
    <3>2. CASE Persist([Journal EXCEPT !.owned = @ \cup {On}])
      <4> DEFINE k == [Journal EXCEPT !.owned = @ \cup {On}]
      <4>1. /\ k \in JournalType /\ k.order = Journal.order /\ k.parents = Journal.parents
            /\ k.before = Journal.before /\ k.after = Journal.after /\ k.phase = Journal.phase
        BY <2>2 DEF JournalType
      <4>2. Persist(k)
        BY <3>2
      <4> HIDE DEF k
      <4> QED
        BY <1>1, <4>1, <4>2, PersistAlike
    <3> QED
      BY <1>3, <3>1, <3>2
  <2>5. TrackingLast'
    BY <1>1, <2>1, <2>3, <2>4, EarlyTracking
  <2> QED
    BY <1>1, <1>3, <2>4, <2>5, StopRolls
<1> QED
  BY <1>2, <1>3 DEF Fault, Crash

\* The command's world is as it was, but for what an editor touched.
LEMMA OutsideRolls ==
    ASSUME TypeInv, RollInv, UNCHANGED <<staged, journals, run, previews>>, touched \subseteq touched',
           \A d \in Dests \ touched' : disk'[d] = disk[d]
    PROVE  RollInv'
<1>1. TrackingLast'
  BY TrackingStays, AlikeSame
<1>2. AllWellFormed' /\ OneAtATime' /\ StagedKnown'
  BY DEF RollInv, AllWellFormed, OneAtATime, StagedKnown, Incomplete, Current, Preview
<1>3. Progress'
  <2> SUFFICES ASSUME run # Idle PROVE Sorted(run.todo) /\ Applying' /\ Recovering'
    BY DEF Progress
  <2>1. Journal' = Journal /\ On' = On
    BY DEF Journal, Current, Preview, On
  <2>2. Sorted(run.todo) /\ Applying /\ Recovering
    BY DEF RollInv, Progress
  <2>3. Changed(Journal) \subseteq Dests /\ Range(Journal.parents) \subseteq Dests
    <3>1. Journal.parents \in Seq(Dirs) /\ Dirs \subseteq Dests
      BY Busy, ForkAssumption DEF JournalType
    <3> QED
      BY <3>1, Busy, RangeOf
  <2>4. Applying'
    BY <2>1, <2>2, <2>3 DEF Applying, Promoted
  <2>5. Recovering'
    BY <2>1, <2>2, <2>3 DEF Recovering
  <2> QED
    BY <2>2, <2>4, <2>5
<1> QED
  BY <1>1, <1>2, <1>3 DEF RollInv

LEMMA EditorsRoll ==
    ASSUME TypeInv, RollInv,
           \/ RemoveLock \/ UNCHANGED vars
           \/ \E d \in Dests, c \in Edits \cup {Absent} : EditFile(d, c)
           \/ \E d \in Dirs : EditDirectory(d) \/ EditExtra(d, {}) \/ EditExtra(d, {"file"})
    PROVE  RollInv'
<1>1. UNCHANGED <<staged, journals, run, previews>> /\ touched \subseteq touched'
  BY DEF RemoveLock, EditFile, EditDirectory, EditExtra, vars
<1>2. \A d \in Dests \ touched' : disk'[d] = disk[d]
  <2>1. CASE disk' = disk
    BY <2>1
  <2>2. CASE \E d, c : disk' = [disk EXCEPT ![d] = c] /\ touched' = touched \cup {d}
    BY <2>2 DEF TypeInv, TypeOK
  <2> QED
    BY <2>1, <2>2 DEF RemoveLock, EditFile, EditDirectory, EditExtra, vars
<1> QED
  BY <1>1, <1>2, OutsideRolls

LEMMA RollNext == TypeInv /\ EditsInv /\ RollInv /\ [Next]_vars => RollInv'
<1> SUFFICES ASSUME TypeInv, EditsInv, RollInv, [Next]_vars PROVE RollInv'
  OBVIOUS
<1>1. CASE (\E plan \in Plans : Prepare(plan)) \/ (\E i \in 1..MaxPreviews : PlanRollback(i))
  BY <1>1, PreparesRolls
<1>2. CASE \E i \in DOMAIN previews : Apply(i) \/ ApplyRecovery(i)
  BY <1>2, BeginsRolls
<1>3. CASE Open \/ Mkdir \/ Stage \/ StartApplying \/ Put \/ Finish
  BY <1>3, OpenRolls, MkdirRolls, StageRolls, StartApplyingRolls, PutRolls, FinishRolls
<1>4. CASE PrepareDirectories \/ Unstage \/ Undo \/ RemoveParent \/ Close
  BY <1>4, PrepareDirectoriesRolls, UnstageRolls, UndoRolls, RemoveParentRolls, CloseRolls
<1>5. CASE Fault \/ Crash
  BY <1>5, FailuresRoll
<1>6. CASE \/ RemoveLock \/ UNCHANGED vars
           \/ \E d \in Dests, c \in Edits \cup {Absent} : EditFile(d, c)
           \/ \E d \in Dirs : EditDirectory(d) \/ EditExtra(d, {}) \/ EditExtra(d, {"file"})
  BY <1>6, EditorsRoll
<1> QED
  BY <1>1, <1>2, <1>3, <1>4, <1>5, <1>6 DEF Next

\* While a journal is unfinished a promoted tracking file means that all
\* content is promoted (TrackingLast): on the way forward tracking is put
\* last and only after the content was looked at again, on the way back it
\* is undone first, and neither a failure nor a crash changes the order.
THEOREM TrackingLastAlways == Spec => []TrackingLast
<1>1. Spec => [](TypeInv /\ EditsInv /\ RollInv)
  BY TypeInit, TypeNext, EditsInit, EditsNext, RollInit, RollNext, PTL DEF Spec
<1>2. RollInv => TrackingLast
  BY DEF RollInv
<1> QED
  BY <1>1, <1>2, PTL

\* Nothing but the end of a recovery rolls a journal back.
LEMMA OnlyCloseRollsBack ==
    ASSUME TypeInv, EditsInv, RollInv, [Next]_vars, ~Close, NEW i \in 1..MaxPreviews,
           journals'[i].phase = "rolled_back"
    PROVE  journals[i].phase = "rolled_back"
<1>1. CASE journals' = journals
  BY <1>1
<1>2. ASSUME run # Idle, NEW k \in JournalType, Persist(k), k.phase \in {Journal.phase, "torn", "prepared", "applying", "complete"}
      PROVE  journals[i].phase = "rolled_back"
  <2>1. journals'[Current] = k /\ (i # Current => journals'[i] = journals[i])
    BY <1>2, PersistKeeps
  <2> QED
    BY <1>2, <2>1 DEF Journal
<1>3. CASE Open
  <2>1. run # Idle /\ run.op = "apply"
    BY <1>3, DoingIsBusy DEF Open
  <2>2. Preview.plan \in Plans
    BY <2>1, Busy DEF PreviewType
  <2>3. journals' = journals \/ Persist(Prepared(Preview.plan))
    BY <1>3 DEF Open, Prepared
  <2> QED
    BY <1>1, <1>2, <2>1, <2>2, <2>3, PreparedTyped
<1>4. ASSUME run # Idle, NEW S, NEW T, S \subseteq Dirs, T \subseteq Dests,
             Persist([Journal EXCEPT !.owned = S, !.completed = T])
      PROVE  journals[i].phase = "rolled_back"
  <2> DEFINE k == [Journal EXCEPT !.owned = S, !.completed = T]
  <2>1. k \in JournalType /\ k.phase = Journal.phase
    BY <1>4, Busy DEF JournalType
  <2>2. Persist(k)
    BY <1>4
  <2> HIDE DEF k
  <2> QED
    BY <1>2, <1>4, <2>1, <2>2
<1>5. ASSUME run # Idle, NEW p \in {"torn", "applying", "complete"}, Persist([Journal EXCEPT !.phase = p])
      PROVE  journals[i].phase = "rolled_back"
  <2> DEFINE k == [Journal EXCEPT !.phase = p]
  <2>1. k \in JournalType /\ k.phase = p
    BY <1>5, Busy DEF JournalType
  <2>2. Persist(k)
    BY <1>5
  <2> HIDE DEF k
  <2> QED
    BY <1>2, <1>5, <2>1, <2>2
<1>6. CASE Mkdir
  <2>1. run # Idle /\ On \in Dirs /\ On \in Dests /\ Journal \in JournalType
    <3>1. run # Idle /\ Head(run.todo).do = "mkdir"
      BY <1>6, DoingIsBusy DEF Mkdir
    <3> QED
      BY <3>1, Busy, ForkAssumption DEF Fitting, On
  <2>2. \/ journals' = journals
        \/ Persist([Journal EXCEPT !.owned = Journal.owned \cup {On},
                                   !.completed = Journal.completed \cup ({On} \cap Changed(Journal))])
    BY <1>6, <2>1 DEF Mkdir, JournalType
  <2>3. Journal.owned \cup {On} \subseteq Dirs /\ Journal.completed \cup ({On} \cap Changed(Journal)) \subseteq Dests
    BY <2>1 DEF JournalType
  <2> QED
    BY <1>1, <1>4, <2>1, <2>2, <2>3
<1>7. CASE StartApplying
  BY <1>5, <1>7, DoingIsBusy DEF StartApplying
<1>8. CASE Put
  <2>1. run # Idle /\ On \in Dests /\ Journal \in JournalType
    <3>1. run # Idle /\ Head(run.todo).do = "put"
      BY <1>8, DoingIsBusy DEF Put
    <3> QED
      BY <3>1, Busy DEF Fitting, On
  <2>2. journals' = journals \/ Persist([Journal EXCEPT !.completed = @ \cup {On}])
    BY <1>8 DEF Put
  <2> DEFINE k == [Journal EXCEPT !.completed = @ \cup {On}]
  <2>3. k \in JournalType /\ k.phase = Journal.phase
    BY <2>1 DEF JournalType
  <2>4. journals' = journals \/ Persist(k)
    BY <2>2
  <2> HIDE DEF k
  <2> QED
    BY <1>1, <1>2, <2>1, <2>3, <2>4
<1>9. CASE Finish
  <2>1. journals' = journals \/ Persist([Journal EXCEPT !.phase = "complete"])
    BY <1>9 DEF Finish
  <2> QED
    BY <1>1, <1>5, <1>9, <2>1, DoingIsBusy DEF Finish
<1>10. CASE PrepareDirectories
  <2>1. run # Idle /\ Journal \in JournalType
    BY <1>10, DoingIsBusy, Busy DEF PrepareDirectories
  <2> DEFINE lost == {d \in Changed(Journal) \cap Dirs :
                         Observe(Journal.before[d]) = Dir /\ Preview.seen[d] = Absent} \ Journal.restoring
             k == [Journal EXCEPT !.restoring = @ \cup lost]
  <2>2. Persist(k) /\ lost \subseteq Dirs
    BY <1>10 DEF PrepareDirectories
  <2> HIDE DEF lost
  <2>3. k \in JournalType /\ k.phase = Journal.phase
    BY <2>1, <2>2 DEF JournalType
  <2> HIDE DEF k
  <2> QED
    BY <1>2, <2>1, <2>2, <2>3
<1>11. CASE Fault \/ Crash
  <2>1. run # Idle
    BY <1>11 DEF Fault, Crash
  <2>2. Journal \in JournalType /\ NoJournal \in JournalType
    BY <2>1, Busy, NoJournalTyped
  <2> DEFINE k == [NoJournal EXCEPT !.phase = "torn"]
             l == [Journal EXCEPT !.owned = @ \cup {On}]
  <2>3. k \in JournalType /\ k.phase = "torn"
    BY <2>2 DEF JournalType
  <2>4. journals' = journals \/ Persist(k) \/ (Doing("apply", "mkdir") /\ Persist(l))
    BY <1>11 DEF Fault, Crash, Remains
  <2>5. Doing("apply", "mkdir") => l \in JournalType /\ l.phase = Journal.phase
    <3>1. Doing("apply", "mkdir") => On \in Dirs
      BY <2>1, DoingIsBusy, Busy DEF Fitting, On
    <3> QED
      BY <2>2, <3>1 DEF JournalType
  <2> HIDE DEF k, l
  <2> QED
    BY <1>1, <1>2, <2>1, <2>3, <2>4, <2>5
<1> QED
  <2>1. \/ journals' = journals \/ Open \/ Mkdir \/ StartApplying \/ Put \/ Finish
        \/ PrepareDirectories \/ Fault \/ Crash
    BY DEF Next, Prepare, PlanRollback, Apply, ApplyRecovery, Begin, Stage, Unstage, Undo, RemoveParent,
       RemoveLock, EditFile, EditDirectory, EditExtra, vars
  <2> QED
    BY <1>1, <1>3, <1>6, <1>7, <1>8, <1>9, <1>10, <1>11, <2>1

LEMMA RollbackStep ==
    ASSUME TypeInv, EditsInv, RollInv, [Next]_vars, NEW i \in 1..MaxPreviews,
           journals[i].phase # "rolled_back", journals'[i].phase = "rolled_back"
    PROVE  \A d \in Known(journals[i]) \ touched : disk'[d] = journals[i].before[d] /\ staged'[d] = "none"
<1>1. Close
  BY OnlyCloseRollsBack
<1>2. /\ run # Idle /\ run.op = "recover" /\ Head(run.todo).do = "close" /\ run' = Idle
      /\ UNCHANGED <<disk, staged>>
  BY <1>1, DoingIsBusy DEF Close, Abort
<1>3. Persist([Journal EXCEPT !.phase = "rolled_back"])
  BY <1>1 DEF Close
<1>4. \A d \in Dests : staged[d] = "none"
  BY <1>2, <1>3, EndRolls
<1>5. i = Current
  <2>1. Current \in 1..MaxPreviews /\ journals \in [1..MaxPreviews -> JournalType]
    BY <1>2, Busy DEF TypeInv, TypeOK
  <2> QED
    BY <1>3, <2>1 DEF Persist
<1> DEFINE j == Journal
<1>6. j = journals[i] /\ WellFormed(j) /\ Changed(j) \subseteq Dests /\ j \in JournalType
  BY <1>2, <1>5, Busy, CommandAlone DEF Journal
<1>7. Left(run.todo, "undo") = {} /\ Left(run.todo, "rmdir") = {}
  <2>1. run.todo \in Seq(TaskType) /\ run.todo # <<>>
    BY <1>2, Busy DEF TypeInv, TypeOK
  <2>2. Sorted(run.todo) /\ Rank(Head(run.todo)) = 5
    BY <1>2 DEF RollInv, Progress, Rank
  <2> QED
    BY <2>1, <2>2, SortedLeft
<1>8. /\ \A d \in Changed(j) \ touched : disk[d] = j.before[d]
      /\ \A d \in Range(j.parents) \ touched : disk[d] = Absent
  BY <1>2, <1>7 DEF RollInv, Progress, Recovering
<1>9. Known(j) = Changed(j) \cup Range(j.parents) /\ Range(j.parents) \subseteq Dests
  <2>1. j.parents \in Seq(Dirs) /\ Dirs \subseteq Dests
    BY <1>6, ForkAssumption DEF JournalType
  <2> QED
    BY <2>1, RangeOf DEF Known
<1> HIDE DEF j
<1> QED
  BY <1>2, <1>4, <1>6, <1>8, <1>9 DEF WellFormed

\* A journal is rolled back only when every path it names and nobody touched
\* is as it was before and has no staging file (RollbackRestores), wherever
\* the transaction had stopped and however often its recovery had.
THEOREM RollbackRestoresAlways == Spec => RollbackRestores
<1>1. Spec => [](TypeInv /\ EditsInv /\ RollInv)
  BY TypeInit, TypeNext, EditsInit, EditsNext, RollInit, RollNext, PTL DEF Spec
<1>2. TypeInv /\ EditsInv /\ RollInv /\ [Next]_vars =>
        [\A i \in 1..MaxPreviews :
           journals[i].phase # "rolled_back" /\ journals'[i].phase = "rolled_back" =>
              \A d \in Known(journals[i]) \ touched :
                 disk'[d] = journals[i].before[d] /\ staged'[d] = "none"]_vars
  BY RollbackStep
<1> QED
  BY <1>1, <1>2, PTL DEF Spec, RollbackRestores

=============================================================================

-------------------------- MODULE ServeReadsProofs --------------------------
(***************************************************************************)
(* Proofs about ServeReads, for any number of handlers, threads, layouts,  *)
(* edits, applies and failures: the types of the variables, and that a     *)
(* stamped reply shows what was announced up to its stamp by frames and by *)
(* the replies of applies.                                                 *)
(***************************************************************************)
EXTENDS ServeReads, TLAPS

-----------------------------------------------------------------------------
(***************************************************************************)
(* The operators on ReadState.                                             *)
(***************************************************************************)

\* What _advance_locked changes, and that it changes nothing else.
LEMMA AdvancedFacts ==
  ASSUME NEW s \in ReadState
  PROVE  /\ Advanced(s) \in ReadState
         /\ Advanced(s).gen = s.gen + 1
         /\ Advanced(s).slot = NoSlot
         /\ Advanced(s).identity = s.identity
         /\ Advanced(s).stale = s.stale
         /\ Advanced(s).base = s.base
         /\ Advanced(s).epoch = s.epoch
  <1>1. s.gen + 1 \in Nat /\ NoSlot \in Slot
    BY DEF ReadState, NoSlot, Slot
  <1>2. Advanced(s) \in ReadState
    BY <1>1 DEF Advanced, ReadState
  <1> QED BY <1>2 DEF Advanced, ReadState

\* What _stale_locked changes, and that it changes nothing else.
LEMMA StaledFacts ==
  ASSUME NEW s \in ReadState
  PROVE  /\ Staled(s) \in ReadState
         /\ Staled(s).gen = s.gen
         /\ Staled(s).slot = s.slot
         /\ Staled(s).identity = s.identity
         /\ Staled(s).stale = TRUE
         /\ Staled(s).base = s.base
         /\ Staled(s).epoch = s.epoch + 1
  <1>1. s.epoch + 1 \in Nat /\ TRUE \in BOOLEAN
    BY DEF ReadState
  <1>2. Staled(s) \in ReadState
    BY <1>1 DEF Staled, ReadState
  <1> QED BY <1>2 DEF Staled, ReadState

\* _adopt_locked gives the identity, or takes another's place and invalidates.
LEMMA AdoptedFacts ==
  ASSUME NEW s \in ReadState, NEW i \in Layouts
  PROVE  /\ Adopted(s, i) \in ReadState
         /\ Adopted(s, i).identity = i
         /\ s.identity \in {NoLayout, i} =>
              /\ Adopted(s, i).gen = s.gen
              /\ Adopted(s, i).slot = s.slot
              /\ Adopted(s, i).stale = s.stale
              /\ Adopted(s, i).base = s.base
              /\ Adopted(s, i).epoch = s.epoch
         /\ s.identity \notin {NoLayout, i} =>
              /\ Adopted(s, i).gen = s.gen + 1
              /\ Adopted(s, i).slot = NoSlot
              /\ Adopted(s, i).stale = TRUE
              /\ Adopted(s, i).base = NoRevision
              /\ Adopted(s, i).epoch = s.epoch + 1
  <1> DEFINE t == [s EXCEPT !.identity = i, !.base = NoRevision]
  <1>1. CASE s.identity = NoLayout
    BY <1>1 DEF Adopted, ReadState
  <1>2. CASE s.identity # NoLayout /\ s.identity = i
    BY <1>2 DEF Adopted, ReadState
  <1>3. CASE s.identity \notin {NoLayout, i}
    <2>1. t \in ReadState /\ t.identity = i /\ t.base = NoRevision /\ t.gen = s.gen
          /\ t.epoch = s.epoch
      BY DEF ReadState, NoRevision, Revision
    <2>2. Adopted(s, i) = Advanced(Staled(t))
      BY <1>3 DEF Adopted
    <2> HIDE DEF t
    <2>3. Staled(t) \in ReadState
      BY <2>1, StaledFacts
    <2>4. /\ Staled(t).gen = t.gen /\ Staled(t).identity = t.identity
          /\ Staled(t).base = t.base /\ Staled(t).epoch = t.epoch + 1
          /\ Staled(t).stale = TRUE
      BY <2>1, StaledFacts
    <2>5. /\ Adopted(s, i) \in ReadState
          /\ Adopted(s, i).gen = Staled(t).gen + 1
          /\ Adopted(s, i).slot = NoSlot
          /\ Adopted(s, i).identity = Staled(t).identity
          /\ Adopted(s, i).stale = Staled(t).stale
          /\ Adopted(s, i).base = Staled(t).base
          /\ Adopted(s, i).epoch = Staled(t).epoch
      BY <2>2, <2>3, AdvancedFacts
    <2> QED BY <1>3, <2>1, <2>4, <2>5
  <1> QED BY <1>1, <1>2, <1>3

\* A token records the identity, the generation and the epoch.
LEMMA TokenFacts ==
  ASSUME NEW s \in ReadState
  PROVE  /\ TokenOf(s) \in Token
         /\ TokenOf(s).id = s.identity
         /\ TokenOf(s).gen = s.gen
         /\ TokenOf(s).epoch = s.epoch
  BY DEF TokenOf, Token, ReadState

\* A current token names the identity, the generation and the epoch.
LEMMA CurrentFacts ==
  ASSUME NEW s \in ReadState, NEW t \in Token
  PROVE  Current(s, t) <=> t.id = s.identity /\ t.gen = s.gen /\ t.epoch = s.epoch
  BY DEF Current, TokenOf, Token, ReadState

\* A build settles the baseline or leaves the state alone.
LEMMA BuiltFacts ==
  ASSUME NEW s \in ReadState, NEW q \in Reader
  PROVE  LET b == BuiltState(s, q)
             settles == Current(s, q.token) /\ q.rec /\ q.out.how = "index"
         IN  /\ b \in ReadState
             /\ b.gen = s.gen /\ b.identity = s.identity
             /\ b.slot = s.slot /\ b.epoch = s.epoch
             /\ settles => b.base = q.out.rev /\ b.stale = FALSE
             /\ ~settles => b = s
  BY DEF BuiltState, ReadState, Reader, Outcome

\* A future that completes changes the slot of its key and nothing else.
LEMMA CompletedFacts ==
  ASSUME NEW s \in ReadState, NEW t \in Token, NEW st \in {"done", "failed"},
         NEW at \in Nat
  PROVE  LET c == Completed(s, t, st, at)
             mine == s.slot.state = "pending" /\ s.slot.id = t.id /\ s.slot.gen = t.gen
         IN  /\ c \in ReadState
             /\ c.gen = s.gen /\ c.identity = s.identity /\ c.epoch = s.epoch
             /\ c.base = s.base /\ c.stale = s.stale
             /\ mine => c.slot.state = st /\ c.slot.at = at /\ c.slot.id = s.slot.id
                        /\ c.slot.gen = s.slot.gen
             /\ ~mine => c = s
  BY DEF Completed, ReadState, Slot

\* The three ends of _reconcile.
LEMMA ReconciledFacts ==
  ASSUME NEW s \in ReadState, NEW w \in Worker
  PROVE  LET c == Reconciled(s, w) IN
         /\ c \in ReadState
         /\ c.identity = s.identity
         /\ c.epoch \in {s.epoch, s.epoch + 1}
         /\ ~Current(s, w.token) => c = s
         /\ Current(s, w.token) /\ (Config(w.job) \/ w.out.how # "index") =>
              /\ c.gen = s.gen + 1 /\ c.slot = NoSlot
              /\ c.base = s.base
              /\ s.stale => c.stale
              /\ ~Config(w.job) => c.stale
         /\ Current(s, w.token) /\ ~Config(w.job) /\ w.out.how = "index" =>
              /\ c.base = w.out.rev /\ c.stale = FALSE
              /\ w.out.rev # s.base => c.gen = s.gen + 1 /\ c.slot = NoSlot
              /\ w.out.rev = s.base => c.gen = s.gen /\ c.slot = s.slot
  <1> DEFINE t == [s EXCEPT !.base = w.out.rev, !.stale = FALSE]
  <1>1. t \in ReadState /\ t.base = w.out.rev /\ t.stale = FALSE /\ t.gen = s.gen
        /\ t.slot = s.slot /\ t.identity = s.identity /\ t.epoch = s.epoch
    BY DEF ReadState, Worker, Outcome
  <1>2. CASE ~Current(s, w.token)
    BY <1>2 DEF Reconciled, ReadState
  <1>3. CASE Current(s, w.token) /\ Config(w.job)
    BY <1>3, AdvancedFacts DEF Reconciled, ReadState
  <1>4. CASE Current(s, w.token) /\ ~Config(w.job) /\ w.out.how # "index"
    <2>1. Staled(s) \in ReadState /\ Reconciled(s, w) = Advanced(Staled(s))
      BY <1>4, StaledFacts DEF Reconciled
    <2>2. /\ Staled(s).gen = s.gen /\ Staled(s).identity = s.identity
          /\ Staled(s).base = s.base /\ Staled(s).epoch = s.epoch + 1
          /\ Staled(s).stale = TRUE
      BY StaledFacts
    <2>3. LET c == Reconciled(s, w) IN
          /\ c \in ReadState /\ c.gen = Staled(s).gen + 1 /\ c.slot = NoSlot
          /\ c.identity = Staled(s).identity /\ c.stale = Staled(s).stale
          /\ c.base = Staled(s).base /\ c.epoch = Staled(s).epoch
      BY <2>1, AdvancedFacts
    <2> QED BY <1>4, <2>2, <2>3
  <1>5. CASE Current(s, w.token) /\ ~Config(w.job) /\ w.out.how = "index"
    <2>1. Reconciled(s, w) = IF w.out.rev # s.base THEN Advanced(t) ELSE t
      BY <1>5 DEF Reconciled
    <2> HIDE DEF t
    <2> QED BY <1>1, <1>5, <2>1, AdvancedFacts DEF ReadState
  <1> QED BY <1>2, <1>3, <1>4, <1>5

-----------------------------------------------------------------------------
(***************************************************************************)
(* Types.                                                                  *)
(***************************************************************************)
TypeFiles ==
    /\ history \in Seq(Nat) /\ history # <<>>
    /\ layout \in Layouts /\ watched \in Layouts
    /\ enabled \in BOOLEAN
    /\ index \in [Layouts -> [rev : Nat, at : Nat]]

TypeThreads ==
    /\ rs \in ReadState
    /\ op \in Readers \cup Workers \cup {Nobody}
    /\ rd \in [Readers -> Reader]
    /\ wk \in [Workers -> Worker]

TypeWatch ==
    /\ raw \subseteq Loops
    /\ lp \in [Loops -> {"idle", "queued", "running"}]
    /\ flushing \in Threads \cup {Nobody}
    /\ watcher \in {"up", "ending", "stopped", "marked", "down"}

TypeClients ==
    /\ dirty \subseteq Readers
    /\ announced \subseteq Frame /\ acks \subseteq Frame

TypeBounds == applies \in Nat /\ configs \in Nat /\ faults \in Nat /\ errors \in Nat

\* The type invariant in five parts.
LEMMA TypeParts == TypeOK <=> TypeFiles /\ TypeThreads /\ TypeWatch /\ TypeClients /\ TypeBounds
  BY DEF TypeOK, TypeFiles, TypeThreads, TypeWatch, TypeClients, TypeBounds

\* The version is a positive number, and an edit adds one.
LEMMA VersionType ==
  ASSUME TypeOK
  PROVE  Version \in Nat /\ Version > 0
  BY DEF TypeOK, Version

\* The index after an open, and what a reconcile leaves in it.
LEMMA RefreshedFacts ==
  ASSUME TypeOK, NEW i \in Layouts, NEW rec \in BOOLEAN
  PROVE  LET n == Refreshed(i, rec) IN
         /\ n \in [rev : Nat, at : Nat]
         /\ n.rev > 0
         /\ n = index[i] \/ (n.rev = index[i].rev + 1 /\ n.at = Version)
         /\ rec /\ n = index[i] => history[n.at] = history[Version]
         /\ index[i].rev = 0 => n.at = Version
  BY VersionType DEF Refreshed, TypeOK

\* What an open answers.
LEMMA OutcomeFacts ==
  ASSUME TypeOK, NEW i \in Layouts, NEW rec \in BOOLEAN, NEW o \in Outcomes(i, rec)
  PROVE  /\ o \in Outcome
         /\ o.how = "index" => /\ o.at = Refreshed(i, rec).at
                               /\ o.rev = [db |-> i, rev |-> Refreshed(i, rec).rev]
         /\ o.how # "index" => o.at = Version
  <1>1. Refreshed(i, rec) \in [rev : Nat, at : Nat]
    BY RefreshedFacts
  <1>2. Version \in Nat
    BY VersionType
  <1> QED BY <1>1, <1>2 DEF Outcomes, Outcome, Revision, NoRevision

\* An open keeps the types and touches one index.
LEMMA OpensFacts ==
  ASSUME TypeOK, NEW i \in Layouts, NEW rec \in BOOLEAN, NEW o, Opens(i, rec, o)
  PROVE  /\ o \in Outcome
         /\ index' \in [Layouts -> [rev : Nat, at : Nat]]
         /\ index' = [index EXCEPT ![i] = Refreshed(i, rec)] \/ index' = index
         /\ o.how = "index" => index' = [index EXCEPT ![i] = Refreshed(i, rec)]
         /\ faults' \in Nat
  <1>1. o \in Outcome
    BY OutcomeFacts DEF Opens
  <1>2. Refreshed(i, rec) \in [rev : Nat, at : Nat]
    BY RefreshedFacts
  <1>3. index \in [Layouts -> [rev : Nat, at : Nat]] /\ faults \in Nat
    BY DEF TypeOK
  <1>4. \/ index' = [index EXCEPT ![i] = Refreshed(i, rec)]
        \/ index' = index /\ o.how # "index"
    BY DEF Opens
  <1>5. faults' \in Nat
    BY <1>3 DEF Opens
  <1> QED BY <1>1, <1>2, <1>3, <1>4, <1>5

\* The five parts of the next state give its type invariant.
LEMMA TypeJoin ==
    TypeFiles' /\ TypeThreads' /\ TypeWatch' /\ TypeClients' /\ TypeBounds' => TypeOK'
  BY DEF TypeOK, TypeFiles, TypeThreads, TypeWatch, TypeClients, TypeBounds

\* A handler's request.
LEMMA RequestType ==
  ASSUME TypeOK, NEW r \in Readers, Request(r)
  PROVE  TypeOK'
  <1>0. TypeFiles /\ TypeThreads /\ TypeWatch /\ TypeClients /\ TypeBounds
    BY TypeParts
  <1>1. [rd[r] EXCEPT !.pc = "layout", !.lay = layout] \in Reader
    BY <1>0 DEF TypeFiles, TypeThreads, Reader
  <1>2. TypeThreads'
    BY <1>0, <1>1 DEF TypeThreads, Request
  <1>3. TypeFiles' /\ TypeWatch' /\ TypeClients' /\ TypeBounds'
    BY <1>0 DEF TypeFiles, TypeWatch, TypeClients, TypeBounds, Request, files, watch, bounds
  <1> QED BY <1>2, <1>3, TypeJoin

\* session() under the lock.
LEMMA SessionType ==
  ASSUME TypeOK, NEW r \in Readers, Session(r)
  PROVE  TypeOK'
  <1> DEFINE s == Adopted(rs, rd[r].lay)
             joined == [rd[r] EXCEPT !.token = TokenOf(s)]
             pending == [state |-> "pending", id |-> s.identity, gen |-> s.gen, at |-> 0]
  <1>0. TypeFiles /\ TypeThreads /\ TypeWatch /\ TypeClients /\ TypeBounds
    BY TypeParts
  <1>1. rs \in ReadState /\ rd[r] \in Reader /\ rd[r].lay \in Layouts
    BY <1>0 DEF TypeThreads, Reader
  <1>2. s \in ReadState
    BY <1>1, AdoptedFacts
  <1>3. TokenOf(s) \in Token
    BY <1>2, TokenFacts
  <1>4. /\ s.gen \in Nat /\ s.identity \in Layouts \cup {NoLayout}
        /\ s.stale \in BOOLEAN /\ s.slot \in Slot /\ s.slot.at \in Nat
    BY <1>2 DEF ReadState, Slot
  <1>5. joined \in Reader
    BY <1>1, <1>3 DEF Reader
  <1>6. rd' \in [Readers -> Reader]
    <2>1. [joined EXCEPT !.pc = "build", !.rec = s.stale] \in Reader
      BY <1>4, <1>5 DEF Reader
    <2>2. [joined EXCEPT !.pc = "wait"] \in Reader /\ [joined EXCEPT !.pc = "fresh"] \in Reader
      BY <1>5 DEF Reader
    <2>3. [joined EXCEPT !.pc = "got", !.at = s.slot.at, !.memo = TRUE] \in Reader
      <3>1. TRUE \in BOOLEAN
        OBVIOUS
      <3> QED BY <1>4, <1>5, <3>1 DEF Reader
    <2>4. rd \in [Readers -> Reader]
      BY <1>0 DEF TypeThreads
    <2>5. PICK q \in {[joined EXCEPT !.pc = "build", !.rec = s.stale],
                      [joined EXCEPT !.pc = "wait"], [joined EXCEPT !.pc = "fresh"],
                      [joined EXCEPT !.pc = "got", !.at = s.slot.at, !.memo = TRUE]} :
            rd' = [rd EXCEPT ![r] = q]
      <3> HIDE DEF s, joined
      <3> QED BY DEF Session, s, joined
    <2> HIDE DEF s, joined
    <2> QED BY <2>1, <2>2, <2>3, <2>4, <2>5
  <1>7. rs' \in ReadState
    <2>1. pending \in Slot
      BY <1>4 DEF Slot
    <2>2. [s EXCEPT !.slot = pending] \in ReadState
      BY <1>2, <2>1 DEF ReadState
    <2>3. rs' \in {[s EXCEPT !.slot = pending], s}
      BY DEF Session
    <2> QED BY <1>2, <2>2, <2>3
  <1>8. TypeThreads'
    BY <1>0, <1>6, <1>7 DEF TypeThreads, Session
  <1>9. TypeFiles' /\ TypeWatch' /\ TypeClients' /\ TypeBounds'
    BY <1>0 DEF TypeFiles, TypeWatch, TypeClients, TypeBounds, Session, files, watch,
                clients, bounds
  <1> QED BY <1>8, <1>9, TypeJoin

\* A builder opens the index.
LEMMA BuildOpenType ==
  ASSUME TypeOK, NEW r \in Readers, BuildOpen(r)
  PROVE  TypeOK'
  <1>0. TypeFiles /\ TypeThreads /\ TypeWatch /\ TypeClients /\ TypeBounds
    BY TypeParts
  <1>1. rd[r] \in Reader /\ rd[r].lay \in Layouts /\ rd[r].rec \in BOOLEAN
    BY <1>0 DEF TypeThreads, Reader
  <1>2. PICK o : /\ Opens(rd[r].lay, rd[r].rec, o)
                 /\ rd' = [rd EXCEPT ![r] = [@ EXCEPT !.pc = "opened", !.out = o]]
    BY DEF BuildOpen
  <1>3. o \in Outcome /\ index' \in [Layouts -> [rev : Nat, at : Nat]] /\ faults' \in Nat
    BY <1>1, <1>2, OpensFacts
  <1>4. [rd[r] EXCEPT !.pc = "opened", !.out = o] \in Reader
    BY <1>1, <1>3 DEF Reader
  <1>5. TypeThreads'
    BY <1>0, <1>2, <1>4 DEF TypeThreads, BuildOpen
  <1>6. TypeFiles' /\ TypeBounds'
    BY <1>0, <1>3 DEF TypeFiles, TypeBounds, BuildOpen, watch
  <1>7. TypeWatch' /\ TypeClients'
    BY <1>0 DEF TypeWatch, TypeClients, BuildOpen, watch, clients
  <1> QED BY <1>5, <1>6, <1>7, TypeJoin

\* A builder hands the snapshot on.
LEMMA BuildFinishType ==
  ASSUME TypeOK, NEW r \in Readers, BuildFinish(r)
  PROVE  TypeOK'
  <1>0. TypeFiles /\ TypeThreads /\ TypeWatch /\ TypeClients /\ TypeBounds
    BY TypeParts
  <1>1. /\ rs \in ReadState /\ rd[r] \in Reader /\ rd[r].token \in Token
        /\ rd[r].out.at \in Nat
    BY <1>0 DEF TypeThreads, Reader, Outcome
  <1>2. BuiltState(rs, rd[r]) \in ReadState
    BY <1>1, BuiltFacts
  <1>3. rs' \in ReadState
    BY <1>1, <1>2, CompletedFacts DEF BuildFinish
  <1>4. NoOutcome \in Outcome /\ TRUE \in BOOLEAN
    BY DEF NoOutcome, Outcome, NoRevision, Revision
  <1>5. \A q \in Readers :
          [rd[q] EXCEPT !.pc = "got", !.at = rd[r].out.at, !.memo = TRUE,
                        !.out = NoOutcome] \in Reader
    BY <1>0, <1>1, <1>4 DEF TypeThreads, Reader
  <1>6. TypeThreads'
    BY <1>0, <1>3, <1>5 DEF TypeThreads, BuildFinish
  <1>7. TypeFiles' /\ TypeWatch' /\ TypeClients' /\ TypeBounds'
    BY <1>0 DEF TypeFiles, TypeWatch, TypeClients, TypeBounds, BuildFinish, files, watch,
                clients, bounds
  <1> QED BY <1>6, <1>7, TypeJoin

\* A builder hands the exception on.
LEMMA BuildRaiseType ==
  ASSUME TypeOK, NEW r \in Readers, BuildRaise(r)
  PROVE  TypeOK'
  <1>0. TypeFiles /\ TypeThreads /\ TypeWatch /\ TypeClients /\ TypeBounds
    BY TypeParts
  <1>1. rs \in ReadState /\ rd[r].token \in Token
    BY <1>0 DEF TypeThreads, Reader
  <1>2. rs' \in ReadState
    BY <1>1, CompletedFacts DEF BuildRaise
  <1>3. NoOutcome \in Outcome
    BY DEF NoOutcome, Outcome, NoRevision, Revision
  <1>4. \A q \in Readers : /\ [rd[q] EXCEPT !.pc = "clear", !.out = NoOutcome] \in Reader
                           /\ [rd[q] EXCEPT !.pc = "fresh"] \in Reader
    BY <1>0, <1>3 DEF TypeThreads, Reader
  <1>5. TypeThreads'
    BY <1>0, <1>2, <1>4 DEF TypeThreads, BuildRaise
  <1>6. TypeFiles' /\ TypeWatch' /\ TypeClients' /\ TypeBounds'
    BY <1>0 DEF TypeFiles, TypeWatch, TypeClients, TypeBounds, BuildRaise, files, watch,
                clients, bounds
  <1> QED BY <1>5, <1>6, TypeJoin

\* A builder clears its failed future.
LEMMA BuildClearType ==
  ASSUME TypeOK, NEW r \in Readers, BuildClear(r)
  PROVE  TypeOK'
  <1>0. TypeFiles /\ TypeThreads /\ TypeWatch /\ TypeClients /\ TypeBounds
    BY TypeParts
  <1>1. rs \in ReadState /\ NoSlot \in Slot
    BY <1>0 DEF TypeThreads, NoSlot, Slot
  <1>2. rs' \in ReadState
    BY <1>1 DEF BuildClear, ReadState
  <1>3. [rd[r] EXCEPT !.pc = "fresh"] \in Reader
    BY <1>0 DEF TypeThreads, Reader
  <1>4. TypeThreads'
    BY <1>0, <1>2, <1>3 DEF TypeThreads, BuildClear
  <1>5. TypeFiles' /\ TypeWatch' /\ TypeClients' /\ TypeBounds'
    BY <1>0 DEF TypeFiles, TypeWatch, TypeClients, TypeBounds, BuildClear, files, watch,
                clients, bounds
  <1> QED BY <1>4, <1>5, TypeJoin

\* The fallback opens the index.
LEMMA FreshOpenType ==
  ASSUME TypeOK, NEW r \in Readers, FreshOpen(r)
  PROVE  TypeOK'
  <1>0. TypeFiles /\ TypeThreads /\ TypeWatch /\ TypeClients /\ TypeBounds
    BY TypeParts
  <1>1. rd[r] \in Reader /\ rd[r].lay \in Layouts /\ TRUE \in BOOLEAN /\ FALSE \in BOOLEAN
    BY <1>0 DEF TypeThreads, Reader
  <1>2. PICK o : /\ Opens(rd[r].lay, TRUE, o)
                 /\ rd' \in {[rd EXCEPT ![r] = [@ EXCEPT !.pc = "idle", !.token = Blank,
                                                         !.rec = FALSE]],
                             [rd EXCEPT ![r] = [@ EXCEPT !.pc = "got", !.at = o.at]]}
    BY DEF FreshOpen
  <1>3. o \in Outcome /\ index' \in [Layouts -> [rev : Nat, at : Nat]] /\ faults' \in Nat
    BY <1>1, <1>2, OpensFacts
  <1>4. Blank \in Token /\ o.at \in Nat
    BY <1>3 DEF Blank, Token, Outcome
  <1>5. /\ [rd[r] EXCEPT !.pc = "idle", !.token = Blank, !.rec = FALSE] \in Reader
        /\ [rd[r] EXCEPT !.pc = "got", !.at = o.at] \in Reader
    BY <1>1, <1>4 DEF Reader
  <1>6. TypeThreads'
    BY <1>0, <1>2, <1>5 DEF TypeThreads, FreshOpen
  <1>7. TypeFiles' /\ TypeBounds' /\ TypeClients'
    BY <1>0, <1>3 DEF TypeFiles, TypeBounds, TypeClients, FreshOpen, watch
  <1>8. TypeWatch'
    BY <1>0 DEF TypeWatch, FreshOpen, watch
  <1> QED BY <1>6, <1>7, <1>8, TypeJoin

\* A reply.
LEMMA ReplyType ==
  ASSUME TypeOK, NEW r \in Readers, Reply(r)
  PROVE  TypeOK'
  <1>0. TypeFiles /\ TypeThreads /\ TypeWatch /\ TypeClients /\ TypeBounds
    BY TypeParts
  <1>1. rd[r] \in Reader /\ rd[r].at \in Nat /\ FALSE \in BOOLEAN
    BY <1>0 DEF TypeThreads, Reader
  <1>2. Blank \in Token
    BY DEF Blank, Token
  <1>3. [rd[r] EXCEPT !.pc = "idle", !.token = Blank, !.rec = FALSE,
                      !.shown = rd[r].at, !.at = 0, !.memo = FALSE] \in Reader
    BY <1>1, <1>2 DEF Reader
  <1>4. TypeThreads'
    BY <1>0, <1>3 DEF TypeThreads, Reply
  <1>5. TypeFiles' /\ TypeWatch' /\ TypeClients' /\ TypeBounds'
    BY <1>0 DEF TypeFiles, TypeWatch, TypeClients, TypeBounds, Reply, files, watch,
                clients, bounds
  <1> QED BY <1>4, <1>5, TypeJoin

\* _reconcile takes its token.
LEMMA RecStartType ==
  ASSUME TypeOK, NEW w \in Workers, RecStart(w)
  PROVE  TypeOK'
  <1> DEFINE a == Adopted(rs, wk[w].lay)
             s == IF Config(wk[w].job) THEN Staled(a) ELSE a
  <1>0. TypeFiles /\ TypeThreads /\ TypeWatch /\ TypeClients /\ TypeBounds
    BY TypeParts
  <1>1. rs \in ReadState /\ wk[w] \in Worker /\ wk[w].lay \in Layouts
    BY <1>0 DEF TypeThreads, Worker
  <1>2. a \in ReadState
    BY <1>1, AdoptedFacts
  <1>3. s \in ReadState
    BY <1>2, StaledFacts
  <1>4. [wk[w] EXCEPT !.pc = "token", !.token = TokenOf(s)] \in Worker
    BY <1>1, <1>3, TokenFacts DEF Worker
  <1>5. TypeThreads'
    BY <1>0, <1>3, <1>4 DEF TypeThreads, RecStart
  <1>6. TypeFiles' /\ TypeWatch' /\ TypeClients' /\ TypeBounds'
    BY <1>0 DEF TypeFiles, TypeWatch, TypeClients, TypeBounds, RecStart, files, watch,
                clients, bounds
  <1> QED BY <1>5, <1>6, TypeJoin

\* _reconcile opens the index, if its batch asks for it.
LEMMA RecOpenType ==
  ASSUME TypeOK, NEW w \in Workers, RecOpen(w)
  PROVE  TypeOK'
  <1>0. TypeFiles /\ TypeThreads /\ TypeWatch /\ TypeClients /\ TypeBounds
    BY TypeParts
  <1>1. wk[w] \in Worker /\ wk[w].lay \in Layouts /\ wk[w].out \in Outcome /\ TRUE \in BOOLEAN
    BY <1>0 DEF TypeThreads, Worker
  <1>2. TypeWatch' /\ TypeClients'
    BY <1>0 DEF TypeWatch, TypeClients, RecOpen, watch, clients
  <1>3. CASE Pages(wk[w].job)
    <2>1. PICK o : /\ Opens(wk[w].lay, TRUE, o)
                   /\ wk' = [wk EXCEPT ![w] = [@ EXCEPT !.pc = "opened", !.out = o]]
      BY <1>3 DEF RecOpen
    <2>2. o \in Outcome /\ index' \in [Layouts -> [rev : Nat, at : Nat]] /\ faults' \in Nat
      BY <1>1, <2>1, OpensFacts
    <2>3. [wk[w] EXCEPT !.pc = "opened", !.out = o] \in Worker
      BY <1>1, <2>2 DEF Worker
    <2>4. TypeThreads'
      BY <1>0, <2>1, <2>3 DEF TypeThreads, RecOpen
    <2>5. TypeFiles' /\ TypeBounds'
      BY <1>0, <2>2 DEF TypeFiles, TypeBounds, RecOpen, watch
    <2> QED BY <1>2, <2>4, <2>5, TypeJoin
  <1>4. CASE ~Pages(wk[w].job)
    <2>1. [wk[w] EXCEPT !.pc = "opened"] \in Worker
      BY <1>1 DEF Worker
    <2>2. TypeThreads'
      BY <1>0, <1>4, <2>1 DEF TypeThreads, RecOpen
    <2>3. TypeFiles' /\ TypeBounds'
      BY <1>0, <1>4 DEF TypeFiles, TypeBounds, RecOpen, watch
    <2> QED BY <1>2, <2>2, <2>3, TypeJoin
  <1> QED BY <1>3, <1>4

\* _reconcile ends.
LEMMA RecFinishType ==
  ASSUME TypeOK, NEW w \in Workers, RecFinish(w)
  PROVE  TypeOK'
  <1> DEFINE s == Reconciled(rs, wk[w])
  <1>0. TypeFiles /\ TypeThreads /\ TypeWatch /\ TypeClients /\ TypeBounds
    BY TypeParts
  <1>1. rs \in ReadState /\ wk[w] \in Worker
    BY <1>0 DEF TypeThreads
  <1>2. s \in ReadState
    BY <1>1, ReconciledFacts
  <1>3. Blank \in Token /\ NoOutcome \in Outcome /\ s.gen \in Nat
    BY <1>2 DEF Blank, Token, NoOutcome, Outcome, NoRevision, Revision, ReadState
  <1>4. [wk[w] EXCEPT !.pc = "done", !.gen = s.gen, !.token = Blank,
                      !.out = NoOutcome] \in Worker
    BY <1>1, <1>3 DEF Worker
  <1>5. TypeThreads'
    BY <1>0, <1>2, <1>4 DEF TypeThreads, RecFinish
  <1>6. TypeFiles' /\ TypeWatch' /\ TypeClients' /\ TypeBounds'
    BY <1>0 DEF TypeFiles, TypeWatch, TypeClients, TypeBounds, RecFinish, files, watch,
                clients, bounds
  <1> QED BY <1>5, <1>6, TypeJoin

\* A thread at rest.
LEMMA RestedType ==
  ASSUME TypeOK, NEW w \in Workers
  PROVE  /\ Rested(w) \in [Workers -> Worker]
         /\ [gen |-> wk[w].gen, covers |-> wk[w].covers] \in Frame
         /\ wk[w].owned \in BOOLEAN
  <1>1. wk \in [Workers -> Worker] /\ wk[w] \in Worker /\ FALSE \in BOOLEAN
    BY DEF TypeOK
  <1>2. [wk[w] EXCEPT !.pc = "idle", !.owned = FALSE, !.covers = 0, !.gen = 0] \in Worker
    BY <1>1 DEF Worker
  <1> QED BY <1>1, <1>2 DEF Rested, Frame, Worker

\* The steps of a flush, of an apply's reply and of the watcher.
LEMMA WatchType ==
  ASSUME TypeOK, Flush \/ ApplyReply \/ WatcherError \/ Restart
  PROVE  TypeOK'
  <1>0. TypeFiles /\ TypeThreads /\ TypeWatch /\ TypeClients /\ TypeBounds
    BY TypeParts
  <1>1. ASSUME NEW l \in Loops, TakeBatch(l)
        PROVE  TypeOK'
    <2>1. TypeWatch'
      BY <1>0, <1>1 DEF TypeWatch, TakeBatch
    <2>2. TypeFiles' /\ TypeThreads' /\ TypeClients' /\ TypeBounds'
      BY <1>0, <1>1 DEF TypeFiles, TypeThreads, TypeClients, TypeBounds, TakeBatch, files,
                        clients, bounds
    <2> QED BY <2>1, <2>2, TypeJoin
  <1>2. ASSUME NEW l \in Loops, NEW w \in Threads, FlushStart(l, w)
        PROVE  TypeOK'
    <2>1. w \in Workers /\ wk[w] \in Worker /\ layout \in Layouts /\ Version \in Nat
          /\ TRUE \in BOOLEAN
      BY <1>0, VersionType DEF TypeThreads, TypeFiles, Workers
    <2>2. [wk[w] EXCEPT !.pc = "start", !.job = l, !.owned = TRUE, !.lay = layout,
                        !.covers = IF l = "bundle" THEN Version ELSE 1] \in Worker
      BY <2>1 DEF Worker
    <2>3. TypeThreads'
      BY <1>0, <1>2, <2>2 DEF TypeThreads, FlushStart
    <2>4. TypeWatch'
      BY <1>0, <1>2 DEF TypeWatch, FlushStart
    <2>5. TypeFiles' /\ TypeClients' /\ TypeBounds'
      BY <1>0, <1>2 DEF TypeFiles, TypeClients, TypeBounds, FlushStart, files, clients, bounds
    <2> QED BY <2>3, <2>4, <2>5, TypeJoin
  <1>3. ASSUME NEW w \in Threads, Publish(w)
        PROVE  TypeOK'
    <2>1. w \in Workers /\ wk[w].job \in Loops \cup {"apply"}
      BY <1>0 DEF TypeThreads, Workers, Worker
    <2>2. TypeThreads'
      BY <1>0, <1>3, <2>1, RestedType DEF TypeThreads, Publish
    <2>3. TypeClients'
      BY <1>0, <1>3, <2>1, RestedType DEF TypeClients, Publish
    <2>4. TypeWatch' /\ TypeFiles'
      BY <1>0, <1>3 DEF TypeWatch, TypeFiles, Publish, files
    <2>5. TypeBounds'
      BY <1>0, <1>3 DEF TypeBounds, Publish, bounds
    <2> QED BY <2>2, <2>3, <2>4, <2>5, TypeJoin
  <1>4. ASSUME NEW w \in Threads, Forgotten(w)
        PROVE  TypeOK'
    <2>1. TypeThreads'
      BY <1>0, <1>4, RestedType DEF TypeThreads, Forgotten, Workers
    <2>2. TypeFiles' /\ TypeWatch' /\ TypeClients' /\ TypeBounds'
      BY <1>0, <1>4 DEF TypeFiles, TypeWatch, TypeClients, TypeBounds, Forgotten, files,
                        watch, clients, bounds
    <2> QED BY <2>1, <2>2, TypeJoin
  <1>5. CASE ApplyReply
    <2>1. Applier \in Workers
      BY DEF Workers
    <2>2. TypeThreads' /\ TypeClients'
      BY <1>0, <1>5, <2>1, RestedType DEF TypeThreads, TypeClients, ApplyReply
    <2>3. TypeFiles' /\ TypeWatch' /\ TypeBounds'
      BY <1>0, <1>5 DEF TypeFiles, TypeWatch, TypeBounds, ApplyReply, files, watch, bounds
    <2> QED BY <2>2, <2>3, TypeJoin
  <1>6. CASE WatcherError
    <2>1. \A w \in Workers : [wk[w] EXCEPT !.owned = FALSE] \in Worker
      <3>1. FALSE \in BOOLEAN
        OBVIOUS
      <3> QED BY <1>0, <3>1 DEF TypeThreads, Worker
    <2>2. TypeThreads'
      BY <1>0, <1>6, <2>1 DEF TypeThreads, WatcherError
    <2>3. TypeWatch' /\ TypeFiles' /\ TypeClients' /\ TypeBounds'
      BY <1>0, <1>6 DEF TypeWatch, TypeFiles, TypeClients, TypeBounds, WatcherError, files,
                        clients
    <2> QED BY <2>2, <2>3, TypeJoin
  <1>7. CASE Restart
    <2>1. Staled(rs) \in ReadState /\ Advanced(rs) \in ReadState
      BY <1>0, StaledFacts, AdvancedFacts DEF TypeThreads
    <2>2. TypeThreads'
      BY <1>0, <1>7, <2>1 DEF TypeThreads, Restart, LoopsEnd, MarkStale, Resync, StartWatch
    <2>3. TypeFiles' /\ TypeBounds'
      BY <1>0, <1>7 DEF TypeFiles, TypeBounds, Restart, LoopsEnd, MarkStale, Resync,
                        StartWatch, files, bounds
    <2>4. TypeClients' /\ TypeWatch'
      BY <1>0, <1>7 DEF TypeClients, TypeWatch, Restart, LoopsEnd, MarkStale, Resync,
                        StartWatch, clients
    <2> QED BY <2>2, <2>3, <2>4, TypeJoin
  <1> QED BY <1>1, <1>2, <1>3, <1>4, <1>5, <1>6, <1>7 DEF Flush

\* The contents an edit may leave.
LEMMA ContentsType ==
  ASSUME TypeOK, NEW c \in NewContents
  PROVE  Append(history, c) \in Seq(Nat) /\ Append(history, c) # <<>>
         /\ Len(Append(history, c)) = Version + 1
  <1>1. history \in Seq(Nat) /\ Version \in Nat
    BY VersionType DEF TypeOK
  <1>2. \A v \in 1..Version : history[v] \in Nat
    BY <1>1 DEF Version
  <1>3. c = Version + 1 \/ c \in {history[v] : v \in 1..Version}
    BY DEF NewContents
  <1>4. c \in Nat
    BY <1>1, <1>2, <1>3
  <1> QED BY <1>1, <1>4 DEF Version

\* The steps of other processes and of an apply's write.
LEMMA DiskType ==
  ASSUME TypeOK, Disk
  PROVE  TypeOK'
  <1>0. TypeFiles /\ TypeThreads /\ TypeWatch /\ TypeClients /\ TypeBounds
    BY TypeParts
  <1>1. \A l \in Loops : Seen(l) \subseteq Loops
    BY <1>0 DEF Seen, TypeWatch
  <1>2. CASE Edit
    <2>1. TypeFiles'
      BY <1>0, <1>2, ContentsType DEF TypeFiles, Edit
    <2>2. TypeThreads' /\ TypeWatch' /\ TypeClients' /\ TypeBounds'
      BY <1>0, <1>1, <1>2 DEF TypeThreads, TypeWatch, TypeClients, TypeBounds, Edit, Loops,
                              clients, bounds
    <2> QED BY <2>1, <2>2, TypeJoin
  <1>3. CASE MoveCache \/ SwitchIndex
    <2>1. TypeFiles'
      <3>1. CASE MoveCache
        BY <1>0, <3>1 DEF TypeFiles, MoveCache
      <3>2. CASE SwitchIndex
        BY <1>0, <3>2 DEF TypeFiles, SwitchIndex
      <3> QED BY <1>3, <3>1, <3>2
    <2>0. TypeBounds'
      BY <1>0, <1>3 DEF TypeBounds, MoveCache, SwitchIndex
    <2>2. TypeThreads' /\ TypeWatch' /\ TypeClients'
      BY <1>0, <1>1, <1>3 DEF TypeThreads, TypeWatch, TypeClients, MoveCache, SwitchIndex,
                              Loops, clients
    <2> QED BY <2>0, <2>1, <2>2, TypeJoin
  <1>4. CASE OtherReconcile
    <2>1. Refreshed(layout, TRUE) \in [rev : Nat, at : Nat]
      BY <1>0, RefreshedFacts DEF TypeFiles
    <2>2. TypeFiles'
      BY <1>0, <1>4, <2>1 DEF TypeFiles, OtherReconcile, watch
    <2>3. TypeThreads' /\ TypeWatch' /\ TypeClients' /\ TypeBounds'
      BY <1>0, <1>4 DEF TypeThreads, TypeWatch, TypeClients, TypeBounds, OtherReconcile,
                        watch, clients, bounds
    <2> QED BY <2>2, <2>3, TypeJoin
  <1>5. CASE ApplyWrite
    <2>1. Applier \in Workers /\ wk[Applier] \in Worker /\ Version + 1 \in Nat
      BY <1>0, VersionType DEF TypeThreads, Workers
    <2>2. [wk[Applier] EXCEPT !.pc = "start", !.lay = layout, !.covers = Version + 1] \in Worker
      BY <1>0, <2>1 DEF TypeFiles, Worker
    <2>3. TypeThreads'
      BY <1>0, <1>5, <2>2 DEF TypeThreads, ApplyWrite
    <2>4. TypeFiles'
      BY <1>0, <1>5, ContentsType DEF TypeFiles, ApplyWrite
    <2>5. TypeWatch' /\ TypeClients' /\ TypeBounds'
      BY <1>0, <1>1, <1>5 DEF TypeWatch, TypeClients, TypeBounds, ApplyWrite, Loops, clients
    <2> QED BY <2>3, <2>4, <2>5, TypeJoin
  <1> QED BY <1>2, <1>3, <1>4, <1>5 DEF Disk

\* Every step keeps the types.
LEMMA TypeStep ==
  ASSUME TypeOK, [Next]_vars
  PROVE  TypeOK'
  <1>1. ASSUME NEW r \in Readers, Request(r) \/ Handler(r)
        PROVE  TypeOK'
    BY <1>1, RequestType, SessionType, BuildOpenType, BuildFinishType, BuildRaiseType,
       BuildClearType, FreshOpenType, ReplyType DEF Handler
  <1>2. ASSUME NEW w \in Workers, Reconcile(w)
        PROVE  TypeOK'
    BY <1>2, RecStartType, RecOpenType, RecFinishType DEF Reconcile
  <1>3. CASE UNCHANGED vars
    BY <1>3 DEF TypeOK, vars, files, watch, clients, bounds
  <1> QED BY <1>1, <1>2, <1>3, WatchType, DiskType DEF Next

\* Init has the types.
LEMMA TypeInit == Init => TypeOK
  <1> SUFFICES ASSUME Init PROVE TypeOK
    OBVIOUS
  <1>1. TypeFiles /\ TypeWatch /\ TypeClients /\ TypeBounds
    BY DEF Init, TypeFiles, TypeWatch, TypeClients, TypeBounds
  <1>2. rs \in ReadState
    BY DEF Init, ReadState, NoSlot, Slot, NoRevision, Revision
  <1>3. Blank \in Token /\ NoOutcome \in Outcome
    BY DEF Blank, Token, NoOutcome, Outcome, NoRevision, Revision
  <1>4. rd \in [Readers -> Reader]
    BY <1>3 DEF Init, Reader
  <1>5. wk \in [Workers -> Worker]
    BY <1>3 DEF Init, Worker, Loops
  <1>6. TypeThreads
    BY <1>2, <1>4, <1>5 DEF Init, TypeThreads
  <1> QED BY <1>1, <1>6, TypeParts

\* The state of the sidecar, of its threads, its clients and the files keeps its
\* types whatever the handlers, the watcher and other processes do.
THEOREM TypeCorrect == Spec => []TypeOK
  BY TypeInit, TypeStep, PTL DEF Spec

-----------------------------------------------------------------------------
(***************************************************************************)
(* The inductive invariant of StampCovers and of ApplyCovers, for bundles  *)
(* whose edits restore nothing.  It has a parameter, the set `also` of the *)
(* workers whose replies count as announcements besides the frames: empty  *)
(* for StampCovers, the apply handler for ApplyCovers.                     *)
(***************************************************************************)

\* Somebody is told when w has reconciled.  Frames alone count for an empty `also`; with
\* Applier in it so do the replies of applies.
Attended(also, w) == wk[w].owned \/ w \in also

Told(also) == announced \cup {a \in acks : Applier \in also}

\* What clients were told and what they are about to be told.
Promised(also) ==
    Told(also) \cup
    {[gen |-> wk[w].gen, covers |-> wk[w].covers] :
        w \in {t \in Workers : wk[t].pc = "done" /\ Attended(also, t)}}

\* Version at shows every change promised up to generation gen.
Shows(also, at, gen) == \A f \in Promised(also) : f.gen <= gen => f.covers <= at

\* Version at shows every change promised.
ShowsAll(also, at) == \A f \in Promised(also) : f.covers <= at

\* A handler with a snapshot to hand on, or with a future of the current key.
Reading(r) == rd[r].pc = "opened" /\ rd[r].out.how # "raises"
Owns(r)    == rd[r].pc \in {"build", "opened", "clear"} /\ rd[r].token.gen = rs.gen

\* A thread that holds the operation lock, and one that read the index under it.
Holds(w) == wk[w].pc \in {"token", "opened"}
Read(w)  == wk[w].pc = "opened" /\ Pages(wk[w].job) /\ wk[w].out.how = "index"

\* Contents are the numbers of the versions they came with.
Numbered == \A v \in 1..Version : history[v] = v

\* The operation lock has one holder.
OneOperation ==
    /\ \A r \in Readers : rd[r].pc = "opened" => op = r
    /\ \A w \in Workers : Holds(w) => op = w

\* A flush belongs to a loop that waits for it; a stopped watcher has none.
FlushesOwned ==
    /\ wk[Applier].job = "apply"
    /\ \A w \in Workers : wk[w].owned =>
          /\ w = flushing /\ wk[w].job \in Loops /\ lp[wk[w].job] = "running"
          /\ Config(wk[w].job) => wk[w].covers <= 1
    /\ watcher \in {"stopped", "marked", "down"} => \A l \in Loops : lp[l] = "idle"

\* The changes referred to were made, and the snapshots are of versions that were.
InRange(also) ==
    /\ \A f \in Promised(also) : f.gen <= rs.gen /\ f.covers <= Version
    /\ \A w \in Workers : wk[w].covers <= Version
    /\ \A i \in Layouts : index[i].at <= Version /\ (index[i].rev > 0 => index[i].at > 0)
    /\ \A r \in Readers : /\ rd[r].memo => rd[r].pc = "got" /\ rd[r].at \in 1..Version
                          /\ Reading(r) => rd[r].out.at \in 1..Version
    /\ rs.slot.state = "done" => rs.slot.at \in 1..Version

\* No token is ahead of the generation; the slot is the one of the current key, and
\* so is every token with the current generation.
KeysAgree ==
    /\ rs.slot.state # "none" => rs.slot.id = rs.identity /\ rs.slot.gen = rs.gen
    /\ rs.identity = NoLayout => rs.slot.state = "none"
    /\ rs.base.db # NoLayout => rs.base.db = rs.identity
    /\ \A r \in Readers :
          /\ rd[r].token.gen <= rs.gen
          /\ rd[r].pc \in {"build", "opened", "wait", "clear"} =>
                /\ rd[r].token.id = rd[r].lay
                /\ rd[r].token.gen = rs.gen => rd[r].token.id = rs.identity
    /\ \A w \in Workers : Holds(w) => wk[w].token.gen <= rs.gen /\ wk[w].token.id = wk[w].lay

\* One handler owns the future of the current generation, and those who got it got
\* what is in the slot.
SingleFlight ==
    /\ \A r \in Readers : Owns(r) =>
          rs.slot.state = IF rd[r].pc = "clear" THEN "failed" ELSE "pending"
    /\ \A r, q \in Readers : Owns(r) /\ Owns(q) => r = q
    /\ \A r \in Readers : rd[r].memo /\ rd[r].token.gen = rs.gen =>
          rs.slot.state = "done" /\ rd[r].at = rs.slot.at

\* The index never falls behind what was read from it, nor behind the baseline.
IndexAhead ==
    /\ rs.base.db \in Layouts => rs.base.rev \in 1..index[rs.base.db].rev
    /\ \A r \in Readers : rd[r].pc = "opened" /\ rd[r].out.how = "index" =>
          /\ rd[r].out.rev.db = rd[r].lay
          /\ rd[r].out.rev.rev \in 1..index[rd[r].lay].rev
          /\ rd[r].out.at <= index[rd[r].lay].at
          /\ rd[r].out.rev.rev = index[rd[r].lay].rev => rd[r].out.at = index[rd[r].lay].at
    /\ \A w \in Workers : Read(w) =>
          /\ wk[w].out.rev.db = wk[w].lay
          /\ wk[w].out.rev.rev \in 1..index[wk[w].lay].rev
          /\ wk[w].out.at <= index[wk[w].lay].at

\* Unless a reconcile is due, the index shows every change promised.
FreshIndex(also) ==
    ~rs.stale => /\ rs.identity \in Layouts
                 /\ index[rs.identity].rev > 0
                 /\ ShowsAll(also, index[rs.identity].at)

\* A snapshot that is, or will be, handed out shows what was promised up to its
\* generation.
SnapshotsShow(also) ==
    /\ \A r \in Readers : rd[r].memo => Shows(also, rd[r].at, rd[r].token.gen)
    /\ rs.slot.state = "done" => Shows(also, rs.slot.at, rs.gen)
    /\ \A r \in Readers : Reading(r) =>
          /\ Shows(also, rd[r].out.at, rd[r].token.gen)
          /\ rd[r].rec => ShowsAll(also, rd[r].out.at)
    /\ \A r \in Readers : rd[r].pc = "build" /\ ~rd[r].rec /\ index[rd[r].lay].rev > 0 =>
          Shows(also, index[rd[r].lay].at, rd[r].token.gen)

\* What a reconcile read shows everything promised, and its own batch.
ReconcilesShow(also) ==
    \A w \in Workers : Read(w) => ShowsAll(also, wk[w].out.at) /\ wk[w].covers <= wk[w].out.at

\* A baseline the index has not left is no newer than the snapshot of the slot.
UnmovedIsCovered ==
    /\ rs.base.db \in Layouts /\ rs.base.rev = index[rs.base.db].rev =>
          /\ rs.slot.state = "done" => rs.slot.at >= index[rs.base.db].at
          /\ \A r \in Readers : Reading(r) /\ rd[r].token.gen = rs.gen =>
                rd[r].out.at >= index[rs.base.db].at
    /\ \A w \in Workers :
          Read(w) /\ wk[w].out.rev = rs.base /\ rs.slot.state = "done" =>
              rs.slot.at >= wk[w].out.at

\* When a flush finds its token overtaken, what overtook it cleared the slot, and
\* whoever builds the new one reconciles.
OvertakenIsStale(also) ==
    \A w \in Workers :
        Holds(w) /\ Attended(also, w) /\ ~Current(rs, wk[w].token) =>
            /\ wk[w].token.gen < rs.gen
            /\ rs.stale
            /\ rs.slot.state \in {"none", "pending"}
            /\ \A r \in Readers : rd[r].pc = "build" /\ rd[r].token.gen = rs.gen => rd[r].rec

\* The parts that say what threads and locks do, and the parts that say what
\* versions they carry.
Locking(also) == OneOperation /\ InRange(also) /\ KeysAgree /\ SingleFlight /\ IndexAhead
Showing(also) == FreshIndex(also) /\ SnapshotsShow(also) /\ ReconcilesShow(also) /\ UnmovedIsCovered
           /\ OvertakenIsStale(also)

IInv(also) == TypeOK /\ Numbered /\ FlushesOwned /\ Locking(also) /\ Showing(also)

-----------------------------------------------------------------------------
(***************************************************************************)
(* Steps that leave ReadState and its locks alone.                         *)
(***************************************************************************)

\* The types of what the invariant compares.
FieldTypes(also) ==
    /\ Version \in Nat /\ Version > 0
    /\ rs.gen \in Nat /\ rs.identity \in Layouts \cup {NoLayout}
    /\ rs.slot.at \in Nat /\ rs.base.rev \in Nat /\ rs.base.db \in Layouts \cup {NoLayout}
    /\ \A i \in Layouts : index[i].rev \in Nat /\ index[i].at \in Nat
    /\ \A r \in Readers :
          /\ rd[r].lay \in Layouts /\ rd[r].token \in Token /\ rd[r].token.gen \in Nat
          /\ rd[r].at \in Nat /\ rd[r].out.at \in Nat /\ rd[r].out.rev.rev \in Nat
    /\ \A w \in Workers :
          /\ wk[w].lay \in Layouts /\ wk[w].token \in Token /\ wk[w].token.gen \in Nat
          /\ wk[w].covers \in Nat /\ wk[w].gen \in Nat
          /\ wk[w].out.at \in Nat /\ wk[w].out.rev.rev \in Nat
    /\ \A f \in Promised(also) : f.gen \in Nat /\ f.covers \in Nat

\* They follow from the type invariant.
LEMMA Fields ==
  ASSUME NEW also \in SUBSET {Applier}, TypeOK
  PROVE  FieldTypes(also)
  <1>1. Version \in Nat /\ Version > 0
    BY VersionType
  <1>2. /\ rs.gen \in Nat /\ rs.identity \in Layouts \cup {NoLayout}
        /\ rs.slot.at \in Nat /\ rs.base.rev \in Nat /\ rs.base.db \in Layouts \cup {NoLayout}
    BY DEF TypeOK, ReadState, Slot, Revision
  <1>3. \A i \in Layouts : index[i].rev \in Nat /\ index[i].at \in Nat
    BY DEF TypeOK
  <1>4. \A r \in Readers :
          /\ rd[r].lay \in Layouts /\ rd[r].token \in Token /\ rd[r].token.gen \in Nat
          /\ rd[r].at \in Nat /\ rd[r].out.at \in Nat /\ rd[r].out.rev.rev \in Nat
    BY DEF TypeOK, Reader, Token, Outcome, Revision
  <1>5. \A w \in Workers :
          /\ wk[w].lay \in Layouts /\ wk[w].token \in Token /\ wk[w].token.gen \in Nat
          /\ wk[w].covers \in Nat /\ wk[w].gen \in Nat
          /\ wk[w].out.at \in Nat /\ wk[w].out.rev.rev \in Nat
    BY DEF TypeOK, Worker, Token, Outcome, Revision
  <1>6. ASSUME NEW f \in Promised(also)
        PROVE  f.gen \in Nat /\ f.covers \in Nat
    <2>1. CASE f \in Told(also)
      BY <2>1 DEF TypeOK, Frame, Told
    <2>2. CASE f \notin Told(also)
      <3>1. PICK w \in Workers : f = [gen |-> wk[w].gen, covers |-> wk[w].covers]
        BY <1>6, <2>2 DEF Promised
      <3> QED BY <1>5, <3>1
    <2> QED BY <2>1, <2>2
  <1> QED BY <1>1, <1>2, <1>3, <1>4, <1>5, <1>6 DEF FieldTypes

\* And so in the next state.
LEMMA FieldsNext ==
  ASSUME NEW also \in SUBSET {Applier}
  PROVE  TypeOK' => FieldTypes(also)'
  <1>1. TypeOK => FieldTypes(also)
    BY Fields
  <1> QED BY <1>1, PTL

\* Each index is as it was, or was refreshed to the version of the bundle.
IndexGrows ==
    \A i \in Layouts :
        \/ index'[i] = index[i]
        \/ index'[i].rev > index[i].rev /\ index'[i].at = Version'

\* A handler that holds nothing of the current key.
RestsNext(r) ==
    /\ rd'[r].pc \in {"idle", "layout", "fresh", "got"}
    /\ ~rd'[r].memo
    /\ rd'[r].token.gen <= rs.gen

\* A thread that stays where it is; its flush may be cancelled.
StaysNext(w) ==
    /\ wk'[w].pc = wk[w].pc /\ wk'[w].job = wk[w].job /\ wk'[w].lay = wk[w].lay
    /\ wk'[w].token = wk[w].token /\ wk'[w].out = wk[w].out
    /\ wk'[w].covers = wk[w].covers
    /\ wk'[w].owned => wk[w].owned

Quiet(also) ==
    /\ rs' = rs /\ op' = op
    /\ Version' >= Version
    /\ IndexGrows
    /\ Promised(also)' \subseteq Promised(also)
    /\ \A r \in Readers : rd'[r] = rd[r] \/ RestsNext(r)
    /\ \A w \in Workers : /\ wk'[w].covers <= Version'
                          /\ StaysNext(w) \/ ~Holds(w)'

\* A step of this kind keeps the invariant.
LEMMA QuietKeeps ==
  ASSUME NEW also \in SUBSET {Applier},
         TypeOK, TypeOK', Locking(also), Showing(also), Quiet(also)
  PROVE  Locking(also)' /\ Showing(also)'
  <1>t. FieldTypes(also) /\ FieldTypes(also)'
    BY Fields, FieldsNext
  <1>i. \A i \in Layouts : /\ index'[i].at >= index[i].at /\ index'[i].rev >= index[i].rev
                           /\ index'[i].rev = index[i].rev => index'[i] = index[i]
    BY <1>t DEF Quiet, IndexGrows, Locking, InRange, FieldTypes
  <1>1. OneOperation'
    BY DEF Locking, OneOperation, Quiet, RestsNext, StaysNext, Holds
  <1>2. InRange(also)'
    <2>1. \A f \in Promised(also)' : f.gen <= rs'.gen /\ f.covers <= Version'
      BY <1>t DEF Quiet, Locking, InRange, FieldTypes
    <2>2. \A i \in Layouts : index'[i].at <= Version' /\ (index'[i].rev > 0 => index'[i].at > 0)
      BY <1>t DEF Quiet, IndexGrows, Locking, InRange, FieldTypes
    <2>3. \A r \in Readers : /\ rd'[r].memo => rd'[r].pc = "got" /\ rd'[r].at \in 1..Version'
                             /\ Reading(r)' => rd'[r].out.at \in 1..Version'
      BY <1>t DEF Quiet, RestsNext, Reading, Locking, InRange, FieldTypes
    <2>4. rs'.slot.state = "done" => rs'.slot.at \in 1..Version'
      BY <1>t DEF Quiet, Locking, InRange, FieldTypes
    <2> QED BY <2>1, <2>2, <2>3, <2>4 DEF InRange, Quiet
  <1>3. KeysAgree'
    BY <1>t DEF Quiet, RestsNext, StaysNext, Holds, Locking, KeysAgree, FieldTypes
  <1>4. SingleFlight'
    <2>1. \A r \in Readers : Owns(r)' => Owns(r) /\ rd'[r] = rd[r]
      BY DEF Owns, Quiet, RestsNext
    <2>2. \A r \in Readers : rd'[r].memo => rd'[r] = rd[r]
      BY DEF Quiet, RestsNext
    <2> QED BY <2>1, <2>2 DEF Quiet, Locking, SingleFlight
  <1>5. IndexAhead'
    <2>1. rs'.base.db \in Layouts => rs'.base.rev \in 1..index'[rs'.base.db].rev
      BY <1>t, <1>i DEF Quiet, Locking, IndexAhead, FieldTypes
    <2>2. ASSUME NEW r \in Readers, rd'[r].pc = "opened", rd'[r].out.how = "index"
          PROVE  /\ rd'[r].out.rev.db = rd'[r].lay
                 /\ rd'[r].out.rev.rev \in 1..index'[rd'[r].lay].rev
                 /\ rd'[r].out.at <= index'[rd'[r].lay].at
                 /\ rd'[r].out.rev.rev = index'[rd'[r].lay].rev =>
                       rd'[r].out.at = index'[rd'[r].lay].at
      <3>1. rd'[r] = rd[r]
        BY <2>2 DEF Quiet, RestsNext
      <3> QED BY <1>t, <1>i, <2>2, <3>1 DEF Locking, IndexAhead, FieldTypes
    <2>3. ASSUME NEW w \in Workers, Read(w)'
          PROVE  /\ wk'[w].out.rev.db = wk'[w].lay
                 /\ wk'[w].out.rev.rev \in 1..index'[wk'[w].lay].rev
                 /\ wk'[w].out.at <= index'[wk'[w].lay].at
      <3>1. StaysNext(w) /\ Read(w)
        BY <2>3 DEF Quiet, Holds, StaysNext, Read
      <3> QED BY <1>t, <1>i, <3>1 DEF Locking, IndexAhead, FieldTypes, StaysNext
    <2> QED BY <2>1, <2>2, <2>3 DEF IndexAhead
  <1>6. FreshIndex(also)'
    BY <1>t, <1>i DEF Quiet, Showing, FreshIndex, ShowsAll, FieldTypes
  <1>7. SnapshotsShow(also)'
    <2>1. \A r \in Readers : rd'[r].memo => Shows(also, rd[r].at, rd[r].token.gen)' /\ rd'[r] = rd[r]
      BY DEF Quiet, RestsNext, Showing, SnapshotsShow, Shows
    <2>2. rs'.slot.state = "done" => Shows(also, rs.slot.at, rs.gen)'
      BY DEF Quiet, Showing, SnapshotsShow, Shows
    <2>3. \A r \in Readers : Reading(r)' => /\ Shows(also, rd[r].out.at, rd[r].token.gen)'
                                            /\ rd'[r].rec => ShowsAll(also, rd[r].out.at)'
      BY DEF Quiet, RestsNext, Showing, SnapshotsShow, Shows, ShowsAll, Reading
    <2>4. ASSUME NEW r \in Readers, rd'[r].pc = "build", ~rd'[r].rec,
                 index'[rd'[r].lay].rev > 0
          PROVE  Shows(also, index[rd[r].lay].at, rd[r].token.gen)'
      <3>1. rd'[r] = rd[r] /\ rd[r].lay \in Layouts
        BY <1>t, <2>4 DEF Quiet, RestsNext, FieldTypes
      <3>2. CASE index'[rd[r].lay] = index[rd[r].lay]
        BY <2>4, <3>1, <3>2 DEF Quiet, Showing, SnapshotsShow, Shows
      <3>3. CASE index'[rd[r].lay].at = Version'
        BY <1>t, <1>2, <3>1, <3>3 DEF InRange, Shows, FieldTypes
      <3> QED BY <3>1, <3>2, <3>3 DEF Quiet, IndexGrows
    <2> QED BY <2>1, <2>2, <2>3, <2>4 DEF SnapshotsShow
  <1>8. ReconcilesShow(also)'
    BY DEF Quiet, StaysNext, Holds, Read, Showing, ReconcilesShow, ShowsAll
  <1>9. UnmovedIsCovered'
    <2>1. ASSUME rs'.base.db \in Layouts, rs'.base.rev = index'[rs'.base.db].rev
          PROVE  /\ rs'.slot.state = "done" => rs'.slot.at >= index'[rs'.base.db].at
                 /\ \A r \in Readers : Reading(r)' /\ rd'[r].token.gen = rs'.gen =>
                       rd'[r].out.at >= index'[rs'.base.db].at
      <3>1. rs.base.rev = index[rs.base.db].rev /\ index'[rs.base.db] = index[rs.base.db]
        BY <1>t, <1>i, <2>1 DEF Quiet, Locking, IndexAhead, FieldTypes
      <3>2. \A r \in Readers : Reading(r)' => Reading(r) /\ rd'[r] = rd[r]
        BY DEF Reading, Quiet, RestsNext
      <3> QED BY <2>1, <3>1, <3>2 DEF Quiet, Showing, UnmovedIsCovered
    <2>2. \A w \in Workers : Read(w)' => Read(w) /\ wk'[w].out = wk[w].out
      BY DEF Quiet, StaysNext, Holds, Read
    <2> QED BY <2>1, <2>2 DEF Quiet, Showing, UnmovedIsCovered
  <1>10. OvertakenIsStale(also)'
    <2>1. \A w \in Workers : Holds(w)' /\ Attended(also, w)' =>
             Holds(w) /\ Attended(also, w) /\ wk'[w].token = wk[w].token
      BY DEF Quiet, StaysNext, Holds, Attended
    <2>2. \A r \in Readers : rd'[r].pc = "build" => rd'[r] = rd[r]
      BY DEF Quiet, RestsNext
    <2> QED BY <2>1, <2>2 DEF Quiet, Showing, OvertakenIsStale, Current
  <1> QED BY <1>1, <1>2, <1>3, <1>4, <1>5, <1>6, <1>7, <1>8, <1>9, <1>10 DEF Locking, Showing

\* Nothing new is promised when no frame is new and no flush reaches its end.
LEMMA PromisedKept ==
  ASSUME NEW also \in SUBSET {Applier}, Told(also)' \subseteq Promised(also),
         \A t \in Workers : wk'[t].pc = "done" =>
            /\ wk[t].pc = "done" /\ (wk'[t].owned => wk[t].owned)
            /\ wk'[t].gen = wk[t].gen /\ wk'[t].covers = wk[t].covers
  PROVE  Promised(also)' \subseteq Promised(also)
  BY DEF Promised, Attended

\* The same, for steps that leave the clients and the threads alone.
LEMMA PromisedSame ==
  ASSUME NEW also \in SUBSET {Applier}, announced' = announced, acks' = acks, wk' = wk
  PROVE  Promised(also)' = Promised(also)
  BY DEF Promised, Told, Attended

\* An open makes the index grow.
LEMMA OpensGrow ==
  ASSUME TypeOK, NEW i \in Layouts, NEW rec \in BOOLEAN, history' = history,
         index' = [index EXCEPT ![i] = Refreshed(i, rec)] \/ index' = index
  PROVE  IndexGrows
  <1>1. index \in [Layouts -> [rev : Nat, at : Nat]] /\ Version' = Version
    BY DEF TypeOK, Version
  <1>2. \/ Refreshed(i, rec) = index[i]
        \/ Refreshed(i, rec).rev = index[i].rev + 1 /\ Refreshed(i, rec).at = Version
    BY RefreshedFacts
  <1> QED BY <1>1, <1>2 DEF IndexGrows

\* The handler's steps that leave ReadState alone.
LEMMA HandlerQuiet ==
  ASSUME NEW also \in SUBSET {Applier},
         TypeOK, Locking(also), NEW r \in Readers, Request(r) \/ FreshOpen(r) \/ Reply(r)
  PROVE  Quiet(also)
  <1>t. FieldTypes(also) /\ rd \in [Readers -> Reader] /\ rd[r] \in Reader
    BY Fields DEF TypeOK
  <1>1. /\ rs' = rs /\ op' = op /\ history' = history /\ wk' = wk
        /\ announced' = announced /\ acks' = acks
    BY DEF Request, FreshOpen, Reply, files, clients
  <1>2. Version' = Version
    BY <1>1 DEF Version
  <1>3. Promised(also)' \subseteq Promised(also)
    BY <1>1, PromisedSame
  <1>4. IndexGrows
    <2>1. CASE FreshOpen(r)
      BY <1>t, <1>1, <2>1, OpensFacts, OpensGrow DEF FreshOpen, FieldTypes
    <2>2. CASE Request(r) \/ Reply(r)
      BY <2>2 DEF Request, Reply, files, IndexGrows
    <2> QED BY <2>1, <2>2
  <1>5. \A q \in Readers : q # r => rd'[q] = rd[q]
    BY <1>t DEF Request, FreshOpen, Reply
  <1>6. RestsNext(r)
    <2>1. ~rd[r].memo \/ rd[r].pc = "got"
      BY DEF Locking, InRange
    <2>2. rd[r].token.gen <= rs.gen /\ Blank.gen <= rs.gen
      BY <1>t DEF Locking, KeysAgree, Blank, FieldTypes
    <2>3. CASE Request(r)
      BY <1>t, <2>1, <2>2, <2>3 DEF Request, RestsNext, Reader
    <2>4. CASE FreshOpen(r)
      <3>1. PICK o : rd' = [rd EXCEPT ![r] =
                      IF o.how = "raises" THEN [@ EXCEPT !.pc = "idle", !.token = Blank, !.rec = FALSE]
                      ELSE [@ EXCEPT !.pc = "got", !.at = o.at]]
        BY <2>4 DEF FreshOpen
      <3>2. ~rd[r].memo
        BY <2>1, <2>4 DEF FreshOpen
      <3> QED BY <1>t, <2>2, <3>1, <3>2 DEF RestsNext, Reader
    <2>5. CASE Reply(r)
      BY <1>t, <2>2, <2>5 DEF Reply, RestsNext, Reader
    <2> QED BY <2>3, <2>4, <2>5
  <1>7. \A w \in Workers : wk'[w].covers <= Version' /\ StaysNext(w)
    BY <1>1, <1>2 DEF StaysNext, Locking, InRange
  <1> QED BY <1>t, <1>1, <1>2, <1>3, <1>4, <1>5, <1>6, <1>7 DEF Quiet, FieldTypes

\* The steps of flushes and of the watcher that leave ReadState alone.
LEMMA WatchQuiet ==
  ASSUME NEW also \in SUBSET {Applier},
         TypeOK, Locking(also), Flush \/ ApplyReply \/ WatcherError \/ LoopsEnd \/ StartWatch
  PROVE  Quiet(also)
  <1>t. FieldTypes(also) /\ wk \in [Workers -> Worker] /\ Threads \subseteq Workers /\ Applier \in Workers
    BY Fields DEF TypeOK, Workers
  <1>1. rs' = rs /\ op' = op /\ history' = history /\ index' = index /\ rd' = rd
    BY DEF Flush, TakeBatch, FlushStart, Publish, Forgotten, ApplyReply, WatcherError,
           LoopsEnd, StartWatch, files
  <1>2. Version' = Version /\ Version \in Nat /\ IndexGrows
    BY <1>t, <1>1 DEF Version, IndexGrows, FieldTypes
  <1> SUFFICES /\ Promised(also)' \subseteq Promised(also)
               /\ \A w \in Workers : /\ wk'[w].covers <= Version
                                     /\ StaysNext(w) \/ ~Holds(w)'
    BY <1>1, <1>2 DEF Quiet
  <1>3. \A w \in Workers : wk[w].covers <= Version
    BY DEF Locking, InRange
  <1>4. Told(also) \subseteq Promised(also)
    BY DEF Promised
  <1>5. CASE (\E l \in Loops : TakeBatch(l)) \/ LoopsEnd \/ StartWatch
    <2>1. wk' = wk /\ announced' = announced /\ acks' = acks
      BY <1>5 DEF TakeBatch, LoopsEnd, StartWatch, clients
    <2> QED BY <1>3, <2>1, PromisedSame DEF StaysNext
  <1>6. ASSUME NEW l \in Loops, NEW w \in Threads, FlushStart(l, w)
        PROVE  /\ Promised(also)' \subseteq Promised(also)
               /\ \A v \in Workers : /\ wk'[v].covers <= Version
                                     /\ StaysNext(v) \/ ~Holds(v)'
    <2>1. /\ \A v \in Workers : v # w => wk'[v] = wk[v]
          /\ wk'[w].pc = "start" /\ wk'[w].covers \in {Version, 1}
          /\ Told(also)' = Told(also)
      BY <1>t, <1>6 DEF FlushStart, clients, Worker, Told
    <2>2. Promised(also)' \subseteq Promised(also)
      BY <1>t, <1>4, <2>1, PromisedKept
    <2> QED BY <1>t, <1>3, <2>1, <2>2 DEF StaysNext, Holds, FieldTypes
  <1>7. ASSUME NEW w \in Workers, (Publish(w) /\ w \in Threads) \/ Forgotten(w)
                                \/ (ApplyReply /\ w = Applier)
        PROVE  /\ Promised(also)' \subseteq Promised(also)
               /\ \A v \in Workers : /\ wk'[v].covers <= Version
                                     /\ StaysNext(v) \/ ~Holds(v)'
    <2>1. wk' = Rested(w)
      BY <1>7 DEF Publish, Forgotten, ApplyReply
    <2>2. /\ \A v \in Workers : v # w => wk'[v] = wk[v]
          /\ wk'[w].pc = "idle" /\ wk'[w].covers = 0
      BY <1>t, <2>1 DEF Rested, Worker
    <2>3. Told(also)' \subseteq Promised(also)
      <3>1. CASE Publish(w) /\ w \in Threads
        <4>1. [gen |-> wk[w].gen, covers |-> wk[w].covers] \in Promised(also)
          BY <3>1 DEF Publish, Promised, Attended
        <4> QED BY <1>4, <3>1, <4>1 DEF Publish, Told
      <3>2. CASE Forgotten(w)
        BY <1>4, <3>2 DEF Forgotten, clients, Told
      <3>3. CASE ApplyReply /\ w = Applier
        <4>1. Applier \in also => [gen |-> wk[w].gen, covers |-> wk[w].covers] \in Promised(also)
          BY <3>3 DEF ApplyReply, Promised, Attended
        <4> QED BY <1>4, <3>3, <4>1 DEF ApplyReply, Told
      <3> QED BY <1>7, <3>1, <3>2, <3>3
    <2>4. Promised(also)' \subseteq Promised(also)
      BY <1>t, <2>2, <2>3, PromisedKept
    <2> QED BY <1>t, <1>3, <2>2, <2>4 DEF StaysNext, Holds, FieldTypes
  <1>8. CASE WatcherError
    <2>1. /\ \A v \in Workers : wk'[v] = [wk[v] EXCEPT !.owned = FALSE]
          /\ Told(also)' = Told(also)
      BY <1>8 DEF WatcherError, clients, Told
    <2>2. \A v \in Workers : StaysNext(v) /\ ~wk'[v].owned /\ wk'[v].gen = wk[v].gen
      <3>1. ASSUME NEW v \in Workers
            PROVE  /\ wk'[v].pc = wk[v].pc /\ wk'[v].job = wk[v].job /\ wk'[v].lay = wk[v].lay
                   /\ wk'[v].token = wk[v].token /\ wk'[v].out = wk[v].out
                   /\ wk'[v].covers = wk[v].covers /\ wk'[v].gen = wk[v].gen
        <4>1. wk[v] \in Worker /\ wk'[v] = [wk[v] EXCEPT !.owned = FALSE]
          BY <1>t, <2>1
        <4> QED BY <4>1 DEF Worker
      <3>2. \A v \in Workers : wk'[v].owned = FALSE
        BY <1>t, <2>1 DEF Worker
      <3> QED BY <3>1, <3>2 DEF StaysNext
    <2>3. Promised(also)' \subseteq Promised(also)
      BY <1>t, <1>4, <2>1, <2>2, PromisedKept DEF StaysNext
    <2> QED BY <1>3, <2>2, <2>3 DEF StaysNext
  <1> QED BY <1>t, <1>5, <1>6, <1>7, <1>8 DEF Flush

\* The steps of other processes and of an apply's write.
LEMMA DiskQuiet ==
  ASSUME NEW also \in SUBSET {Applier},
         TypeOK, Locking(also), Disk
  PROVE  Quiet(also)
  <1>t. /\ FieldTypes(also) /\ wk \in [Workers -> Worker] /\ Threads \subseteq Workers
        /\ Applier \in Workers /\ Applier \notin Threads /\ layout \in Layouts
    BY Fields, ServeAssumption DEF TypeOK, Workers
  <1>1. rs' = rs /\ op' = op /\ rd' = rd /\ announced' = announced /\ acks' = acks
    BY DEF Disk, Edit, MoveCache, SwitchIndex, OtherReconcile, ApplyWrite, clients
  <1>3. \A w \in Workers : wk[w].covers <= Version
    BY DEF Locking, InRange
  <1>4. Told(also)' \subseteq Promised(also)
    BY <1>1 DEF Promised, Told
  <1>5. CASE Edit \/ MoveCache \/ SwitchIndex \/ OtherReconcile
    <2>1. wk' = wk
      BY <1>5 DEF Edit, MoveCache, SwitchIndex, OtherReconcile
    <2>2. Version' >= Version /\ Version' \in Nat
      <3>1. CASE Edit
        BY <1>t, <3>1, ContentsType DEF Edit, Version, FieldTypes
      <3>2. CASE MoveCache \/ SwitchIndex \/ OtherReconcile
        <4>1. history' = history
          BY <3>2 DEF MoveCache, SwitchIndex, OtherReconcile
        <4>2. Version' = Version
          BY <4>1 DEF Version
        <4> QED BY <1>t, <4>2 DEF FieldTypes
      <3> QED BY <1>5, <3>1, <3>2
    <2>3. IndexGrows
      <3>1. CASE OtherReconcile
        BY <1>t, <3>1, OpensGrow DEF OtherReconcile
      <3>2. CASE Edit \/ MoveCache \/ SwitchIndex
        BY <3>2 DEF Edit, MoveCache, SwitchIndex, IndexGrows
      <3> QED BY <1>5, <3>1, <3>2
    <2>4. Promised(also)' \subseteq Promised(also)
      BY <1>1, <2>1, PromisedSame
    <2>5. \A w \in Workers : wk'[w].covers <= Version' /\ StaysNext(w)
      BY <1>t, <1>3, <2>1, <2>2 DEF StaysNext, FieldTypes
    <2> QED BY <1>1, <2>2, <2>3, <2>4, <2>5 DEF Quiet
  <1>6. CASE ApplyWrite
    <2>1. Version' = Version + 1 /\ IndexGrows
      BY <1>t, <1>6, ContentsType DEF ApplyWrite, Version, IndexGrows
    <2>2. /\ \A w \in Workers : w # Applier => wk'[w] = wk[w]
          /\ wk'[Applier].pc = "start" /\ wk'[Applier].covers = Version + 1
      BY <1>t, <1>6 DEF ApplyWrite, Worker
    <2>3. Promised(also)' \subseteq Promised(also)
      BY <1>t, <1>4, <2>2, PromisedKept
    <2>4. \A w \in Workers : wk'[w].covers <= Version' /\ (StaysNext(w) \/ ~Holds(w)')
      BY <1>t, <1>3, <2>1, <2>2 DEF StaysNext, Holds, FieldTypes
    <2> QED BY <1>t, <1>1, <2>1, <2>3, <2>4 DEF Quiet, FieldTypes
  <1> QED BY <1>5, <1>6 DEF Disk

-----------------------------------------------------------------------------
(***************************************************************************)
(* Numbered contents and owned flushes.                                    *)
(***************************************************************************)

\* An edit that restores nothing leaves contents numbered.
LEMMA NumberedStep ==
  ASSUME TypeOK, ~Reverts, Numbered, [Next]_vars
  PROVE  Numbered'
  <1>1. CASE Edit \/ ApplyWrite
    <2>1. history' = Append(history, Version + 1)
      BY <1>1 DEF Edit, ApplyWrite, NewContents
    <2>2. history \in Seq(Nat) /\ Version = Len(history) /\ Version \in Nat
      BY VersionType DEF TypeOK, Version
    <2>3. Version' = Version + 1 /\ history'[Version + 1] = Version + 1
          /\ \A v \in 1..Version : history'[v] = history[v]
      BY <2>1, <2>2 DEF Version
    <2> QED BY <2>2, <2>3 DEF Numbered
  <1>2. CASE history' = history
    BY <1>2 DEF Numbered, Version
  <1>3. Edit \/ ApplyWrite \/ history' = history
    BY DEF Next, Handler, Reconcile, Flush, Restart, Disk, Request, Session, BuildOpen,
           BuildFinish, BuildRaise, BuildClear, FreshOpen, Reply, RecStart, RecOpen,
           RecFinish, TakeBatch, FlushStart, Publish, Forgotten, ApplyReply, WatcherError,
           LoopsEnd, MarkStale, Resync, StartWatch, MoveCache, SwitchIndex, OtherReconcile,
           vars, files
  <1> QED BY <1>1, <1>2, <1>3

\* A flush stays the one its loop waits for.
LEMMA OwnedStep ==
  ASSUME TypeOK, FlushesOwned, [Next]_vars
  PROVE  FlushesOwned'
  <1>t. /\ wk \in [Workers -> Worker] /\ lp \in [Loops -> {"idle", "queued", "running"}]
        /\ Threads \subseteq Workers /\ Applier \in Workers /\ Nobody \notin Workers
        /\ Applier \notin Threads /\ flushing \in Threads \cup {Nobody}
    BY ServeAssumption DEF TypeOK, Workers, Nobody
  <1>1. ASSUME UNCHANGED <<lp, flushing, watcher>>, wk'[Applier].job = wk[Applier].job,
               \A w \in Workers : wk'[w].owned =>
                  wk[w].owned /\ wk'[w].job = wk[w].job /\ wk'[w].covers = wk[w].covers
        PROVE  FlushesOwned'
    BY <1>1 DEF FlushesOwned
  <1>2. ASSUME UNCHANGED <<lp, flushing, watcher, wk>>
        PROVE  FlushesOwned'
    BY <1>1, <1>2
  <1>3. ASSUME NEW r \in Readers, Request(r) \/ Handler(r)
        PROVE  FlushesOwned'
    BY <1>2, <1>3 DEF Handler, Request, Session, BuildOpen, BuildFinish, BuildRaise,
                      BuildClear, FreshOpen, Reply, watch
  <1>4. ASSUME NEW w \in Workers, Reconcile(w)
        PROVE  FlushesOwned'
    <2>1. UNCHANGED <<lp, flushing, watcher>>
      BY <1>4 DEF Reconcile, RecStart, RecOpen, RecFinish, watch
    <2>2. \A v \in Workers : v # w => wk'[v] = wk[v]
      BY <1>t, <1>4 DEF Reconcile, RecStart, RecOpen, RecFinish
    <2>3. wk'[w].owned = wk[w].owned /\ wk'[w].job = wk[w].job /\ wk'[w].covers = wk[w].covers
      <3>1. CASE RecStart(w)
        BY <1>t, <3>1 DEF RecStart, Worker
      <3>2. CASE RecOpen(w)
        <4>1. CASE Pages(wk[w].job)
          <5>1. PICK o : wk' = [wk EXCEPT ![w] = [@ EXCEPT !.pc = "opened", !.out = o]]
            BY <3>2, <4>1 DEF RecOpen
          <5> QED BY <1>t, <5>1 DEF Worker
        <4>2. CASE ~Pages(wk[w].job)
          BY <1>t, <3>2, <4>2 DEF RecOpen, Worker
        <4> QED BY <4>1, <4>2
      <3>3. CASE RecFinish(w)
        BY <1>t, <3>3 DEF RecFinish, Worker
      <3> QED BY <1>4, <3>1, <3>2, <3>3 DEF Reconcile
    <2> QED BY <1>t, <1>1, <2>1, <2>2, <2>3
  <1>5. ASSUME NEW l \in Loops, TakeBatch(l)
        PROVE  FlushesOwned'
    BY <1>t, <1>5 DEF TakeBatch, FlushesOwned
  <1>6. ASSUME NEW l \in Loops, NEW w \in Threads, FlushStart(l, w)
        PROVE  FlushesOwned'
    <2>1. /\ \A v \in Workers : v # w => wk'[v] = wk[v]
          /\ wk'[w].job = l /\ wk'[w].covers = IF l = "bundle" THEN Version ELSE 1
      BY <1>t, <1>6 DEF FlushStart, Worker
    <2>2. \A v \in Workers : v # w => ~wk'[v].owned
      BY <1>t, <1>6, <2>1 DEF FlushStart, FlushesOwned
    <2>3. Config(l) => wk'[w].covers <= 1
      BY <2>1 DEF Config
    <2> QED BY <1>t, <1>6, <2>1, <2>2, <2>3 DEF FlushStart, FlushesOwned
  <1>7. ASSUME NEW w \in Threads, Publish(w)
        PROVE  FlushesOwned'
    <2>1. /\ \A v \in Workers : v # w => wk'[v] = wk[v]
          /\ wk'[w].owned = FALSE
      BY <1>t, <1>7 DEF Publish, Rested, Worker
    <2>2. \A v \in Workers : ~wk'[v].owned
      BY <1>t, <1>7, <2>1 DEF Publish, FlushesOwned
    <2>3. watcher' \in {"stopped", "marked", "down"} =>
             watcher \in {"stopped", "marked", "down"}
      BY <1>7 DEF Publish
    <2>4. \A l \in Loops : lp'[l] \in {lp[l], "idle"}
      BY <1>t, <1>7 DEF Publish
    <2>5. wk'[Applier].job = wk[Applier].job
      BY <1>t, <2>1
    <2> QED BY <2>2, <2>3, <2>4, <2>5 DEF FlushesOwned
  <1>8. ASSUME NEW w \in Workers, Forgotten(w) \/ (ApplyReply /\ w = Applier)
        PROVE  FlushesOwned'
    <2>0. wk' = Rested(w) /\ wk[w] \in Worker
      BY <1>t, <1>8 DEF Forgotten, ApplyReply
    <2>1. /\ \A v \in Workers : v # w => wk'[v] = wk[v]
          /\ wk'[w].owned = FALSE
      BY <1>t, <2>0 DEF Rested, Worker
    <2>2. wk'[Applier].job = wk[Applier].job
      BY <1>t, <2>0 DEF Rested, Worker
    <2> QED BY <1>1, <1>8, <2>1, <2>2 DEF Forgotten, ApplyReply, watch
  <1>9. CASE WatcherError
    <2>1. \A v \in Workers : wk'[v].owned = FALSE /\ wk'[v].job = wk[v].job
      BY <1>t, <1>9 DEF WatcherError, Worker
    <2> QED BY <1>t, <1>9, <2>1 DEF WatcherError, FlushesOwned
  <1>10. CASE Restart
    BY <1>10 DEF Restart, LoopsEnd, MarkStale, Resync, StartWatch, FlushesOwned
  <1>11. CASE Edit \/ MoveCache \/ SwitchIndex \/ OtherReconcile \/ UNCHANGED vars
    BY <1>2, <1>11 DEF Edit, MoveCache, SwitchIndex, OtherReconcile, vars, watch
  <1>12. CASE ApplyWrite
    <2>1. /\ \A v \in Workers : v # Applier => wk'[v] = wk[v]
          /\ wk'[Applier].owned = wk[Applier].owned /\ wk'[Applier].job = wk[Applier].job
      BY <1>t, <1>12 DEF ApplyWrite, Worker
    <2>2. ~wk[Applier].owned
      BY <1>t DEF FlushesOwned
    <2> QED BY <1>1, <1>12, <2>1, <2>2 DEF ApplyWrite
  <1> QED BY <1>t, <1>3, <1>4, <1>5, <1>6, <1>7, <1>8, <1>9, <1>10, <1>11, <1>12
          DEF Next, Flush, Disk

-----------------------------------------------------------------------------
(***************************************************************************)
(* The steps of session() and _build.                                      *)
(***************************************************************************)

\* What session() may do: replace the identity of another layout and build; build
\* because the slot is empty; or share the slot of the current key.
LEMMA SessionEffect ==
  ASSUME NEW also \in SUBSET {Applier},
         TypeOK, Locking(also), NEW r \in Readers, Session(r)
  PROVE  /\ Version' = Version /\ index' = index /\ op' = op /\ wk' = wk
         /\ Promised(also)' = Promised(also)
         /\ \A q \in Readers : q # r => rd'[q] = rd[q]
         /\ rd[r].pc = "layout" /\ rd'[r].lay = rd[r].lay
         /\ rs'.identity = rd[r].lay
         /\ rd'[r].token.id = rd[r].lay /\ rd'[r].token.gen = rs'.gen
         /\ \/ /\ rs.identity \notin {NoLayout, rd[r].lay}
               /\ rs'.gen = rs.gen + 1 /\ rs'.stale /\ rs'.base = NoRevision
               /\ rs'.slot.state = "pending" /\ rs'.slot.id = rd[r].lay
               /\ rs'.slot.gen = rs'.gen
               /\ rd'[r].pc = "build" /\ rd'[r].rec /\ ~rd'[r].memo
            \/ /\ rs.identity \in {NoLayout, rd[r].lay}
               /\ rs'.gen = rs.gen /\ rs'.stale = rs.stale /\ rs'.base = rs.base
               /\ rs'.epoch = rs.epoch
               /\ rs.slot.state = "none"
               /\ rs'.slot.state = "pending" /\ rs'.slot.id = rd[r].lay
               /\ rs'.slot.gen = rs'.gen
               /\ rd'[r].pc = "build" /\ rd'[r].rec = rs.stale /\ ~rd'[r].memo
            \/ /\ rs.identity = rd[r].lay
               /\ rs'.gen = rs.gen /\ rs'.stale = rs.stale /\ rs'.base = rs.base
               /\ rs'.epoch = rs.epoch /\ rs'.slot = rs.slot
               /\ rs.slot.state # "none"
               /\ \/ rd'[r].pc \in {"wait", "fresh"} /\ ~rd'[r].memo
                  \/ /\ rd'[r].pc = "got" /\ rd'[r].memo /\ rd'[r].at = rs.slot.at
                     /\ rs.slot.state = "done"
  <1> DEFINE s == Adopted(rs, rd[r].lay)
             joined == [rd[r] EXCEPT !.token = TokenOf(s)]
             build == [joined EXCEPT !.pc = "build", !.rec = s.stale]
             pending == [state |-> "pending", id |-> s.identity, gen |-> s.gen, at |-> 0]
  <1>t. /\ rs \in ReadState /\ rd \in [Readers -> Reader] /\ rd[r] \in Reader
        /\ rd[r].lay \in Layouts /\ rs.gen \in Nat /\ rd[r].lay # NoLayout
    <2>1. rs \in ReadState /\ rd \in [Readers -> Reader] /\ rd[r] \in Reader
      BY DEF TypeOK
    <2> QED BY <2>1, ServeAssumption DEF Reader, ReadState
  <1>1. /\ Version' = Version /\ index' = index /\ op' = op /\ wk' = wk
        /\ Promised(also)' = Promised(also)
    BY PromisedSame DEF Session, files, clients, Version
  <1>2. rd[r].pc = "layout" /\ ~rd[r].memo
    BY DEF Session, Locking, InRange
  <1>3. /\ s \in ReadState /\ s.identity = rd[r].lay
        /\ TokenOf(s) \in Token /\ TokenOf(s).id = rd[r].lay /\ TokenOf(s).gen = s.gen
    <2>1. s \in ReadState /\ s.identity = rd[r].lay
      BY <1>t, AdoptedFacts
    <2> HIDE DEF s
    <2> QED BY <2>1, TokenFacts
  <1>4. /\ joined \in Reader /\ joined.lay = rd[r].lay /\ joined.memo = rd[r].memo
        /\ joined.token = TokenOf(s)
    BY <1>t, <1>3 DEF Reader
  <1>5. CASE Builds(s)
    <2>1. rs' = [s EXCEPT !.slot = pending] /\ rd' = [rd EXCEPT ![r] = build]
      BY <1>5 DEF Session
    <2>2. /\ rs'.slot.state = "pending" /\ rs'.slot.id = rd[r].lay /\ rs'.slot.gen = s.gen
          /\ rs'.gen = s.gen /\ rs'.identity = rd[r].lay /\ rs'.stale = s.stale
          /\ rs'.base = s.base /\ rs'.epoch = s.epoch
      BY <1>3, <2>1 DEF ReadState
    <2>3. /\ build.pc = "build" /\ build.rec = s.stale /\ build.memo = joined.memo
          /\ build.lay = joined.lay /\ build.token = joined.token
      BY <1>4 DEF Reader
    <2>4. rd'[r] = build /\ \A q \in Readers : q # r => rd'[q] = rd[q]
      BY <1>t, <2>1
    <2>5. CASE rs.identity \notin {NoLayout, rd[r].lay}
      <3>1. s.gen = rs.gen + 1 /\ s.stale = TRUE /\ s.base = NoRevision
        BY <1>t, <2>5, AdoptedFacts
      <3> HIDE DEF s, joined, build
      <3> QED BY <1>1, <1>2, <1>3, <1>4, <2>2, <2>3, <2>4, <2>5, <3>1
    <2>6. CASE rs.identity \in {NoLayout, rd[r].lay}
      <3>1. s.gen = rs.gen /\ s.stale = rs.stale /\ s.base = rs.base /\ s.slot = rs.slot
            /\ s.epoch = rs.epoch
        BY <1>t, <2>6, AdoptedFacts
      <3>2. rs.slot.state = "none"
        BY <1>3, <1>5, <2>6, <3>1 DEF Builds, Locking, KeysAgree
      <3> HIDE DEF s, joined, build
      <3> QED BY <1>1, <1>2, <1>3, <1>4, <2>2, <2>3, <2>4, <2>6, <3>1, <3>2
    <2> HIDE DEF s
    <2> QED BY <2>5, <2>6
  <1>6. CASE ~Builds(s)
    <2>1. s.slot.state # "none"
      BY <1>6 DEF Builds
    <2>2. rs.identity \in {NoLayout, rd[r].lay}
      <3>1. SUFFICES ASSUME rs.identity \notin {NoLayout, rd[r].lay} PROVE FALSE
        OBVIOUS
      <3>2. s.slot = NoSlot
        BY <1>t, <3>1, AdoptedFacts
      <3> QED BY <2>1, <3>2 DEF NoSlot
    <2>3. s.gen = rs.gen /\ s.stale = rs.stale /\ s.base = rs.base /\ s.slot = rs.slot
          /\ s.epoch = rs.epoch
      BY <1>t, <2>2, AdoptedFacts
    <2>4. rs.identity = rd[r].lay
      BY <2>1, <2>2, <2>3 DEF Locking, KeysAgree
    <2>5. rs' = s
      BY <1>6 DEF Session
    <2>6. \/ rd' = [rd EXCEPT ![r] = [joined EXCEPT !.pc = "wait"]]
          \/ rd' = [rd EXCEPT ![r] = [joined EXCEPT !.pc = "fresh"]]
          \/ /\ rd' = [rd EXCEPT ![r] = [joined EXCEPT !.pc = "got", !.at = s.slot.at,
                                                       !.memo = TRUE]]
             /\ s.slot.state = "done"
      BY <1>6 DEF Session
    <2>7. /\ \A q \in Readers : q # r => rd'[q] = rd[q]
          /\ rd'[r].lay = joined.lay /\ rd'[r].token = joined.token
          /\ \/ rd'[r].pc \in {"wait", "fresh"} /\ rd'[r].memo = joined.memo
             \/ /\ rd'[r].pc = "got" /\ rd'[r].memo = TRUE /\ rd'[r].at = s.slot.at
                /\ s.slot.state = "done"
      <3> HIDE DEF s, joined
      <3>1. CASE rd' = [rd EXCEPT ![r] = [joined EXCEPT !.pc = "wait"]]
        BY <1>t, <1>4, <3>1 DEF Reader
      <3>2. CASE rd' = [rd EXCEPT ![r] = [joined EXCEPT !.pc = "fresh"]]
        BY <1>t, <1>4, <3>2 DEF Reader
      <3>3. CASE /\ rd' = [rd EXCEPT ![r] = [joined EXCEPT !.pc = "got", !.at = s.slot.at,
                                                           !.memo = TRUE]]
                 /\ s.slot.state = "done"
        BY <1>t, <1>4, <3>3 DEF Reader
      <3> QED BY <2>6, <3>1, <3>2, <3>3
    <2> HIDE DEF s, joined
    <2> QED BY <1>1, <1>2, <1>3, <1>4, <2>1, <2>3, <2>4, <2>5, <2>7
  <1> QED BY <1>5, <1>6

\* session() keeps the invariant.
LEMMA SessionKeeps ==
  ASSUME NEW also \in SUBSET {Applier},
         TypeOK, TypeOK', Locking(also), Showing(also), NEW r \in Readers, Session(r)
  PROVE  Locking(also)' /\ Showing(also)'
  <1>t. FieldTypes(also) /\ FieldTypes(also)' /\ NoLayout \notin Layouts
    BY Fields, FieldsNext, ServeAssumption
  <1>s. /\ rs \in ReadState /\ rs' \in ReadState
        /\ \A w \in Workers : wk[w].token \in Token
    BY <1>t DEF TypeOK, FieldTypes
  <1>e. /\ Version' = Version /\ index' = index /\ op' = op /\ wk' = wk
        /\ Promised(also)' = Promised(also)
        /\ \A q \in Readers : q # r => rd'[q] = rd[q]
        /\ rd[r].pc = "layout" /\ rd'[r].lay = rd[r].lay
        /\ rs'.identity = rd[r].lay
        /\ rd'[r].token.id = rd[r].lay /\ rd'[r].token.gen = rs'.gen
        /\ rs'.gen \in {rs.gen, rs.gen + 1}
        /\ rd'[r].pc \in {"build", "wait", "fresh", "got"}
    BY SessionEffect
  <1>m. ASSUME NEW q \in Readers, rd'[q].memo
        PROVE  \/ q # r /\ rd'[q] = rd[q] /\ rd[q].memo
               \/ /\ q = r /\ rd'[q].pc = "got" /\ rd'[q].at = rs.slot.at
                  /\ rs.slot.state = "done" /\ rs'.slot = rs.slot /\ rs'.gen = rs.gen
    BY <1>m, SessionEffect
  <1>1. OneOperation'
    BY <1>e DEF Locking, OneOperation, Holds
  <1>2. InRange(also)'
    <2>1. \A f \in Promised(also)' : f.gen <= rs'.gen /\ f.covers <= Version'
      BY <1>t, <1>e DEF Locking, InRange, FieldTypes
    <2>2. \A q \in Readers : /\ rd'[q].memo => rd'[q].pc = "got" /\ rd'[q].at \in 1..Version'
                             /\ Reading(q)' => rd'[q].out.at \in 1..Version'
      BY <1>e, <1>m DEF Reading, Locking, InRange
    <2>3. rs'.slot.state = "done" => rs'.slot.at \in 1..Version'
      BY <1>e, SessionEffect DEF Locking, InRange
    <2> QED BY <1>e, <2>1, <2>2, <2>3 DEF Locking, InRange
  <1>3. KeysAgree'
    <2>1. /\ rs'.slot.state # "none" => rs'.slot.id = rs'.identity /\ rs'.slot.gen = rs'.gen
          /\ rs'.identity = NoLayout => rs'.slot.state = "none"
      BY <1>t, <1>e, SessionEffect DEF Locking, KeysAgree, FieldTypes
    <2>2. rs'.base.db # NoLayout => rs'.base.db = rs'.identity
      BY <1>t, <1>e, SessionEffect DEF Locking, KeysAgree, FieldTypes, NoRevision
    <2>3. ASSUME NEW q \in Readers
          PROVE  /\ rd'[q].token.gen <= rs'.gen
                 /\ rd'[q].pc \in {"build", "opened", "wait", "clear"} =>
                      /\ rd'[q].token.id = rd'[q].lay
                      /\ rd'[q].token.gen = rs'.gen => rd'[q].token.id = rs'.identity
      <3>1. CASE q = r
        BY <1>t, <1>e, <3>1 DEF FieldTypes
      <3>2. CASE q # r
        <4>1. rd'[q] = rd[q]
          BY <1>e, <3>2
        <4>2. CASE rs'.gen = rs.gen
          <5>1. rs.identity \in {NoLayout, rs'.identity}
            BY <1>t, <4>2, SessionEffect DEF FieldTypes
          <5> QED BY <1>t, <4>1, <4>2, <5>1 DEF Locking, KeysAgree, FieldTypes
        <4>3. CASE rs'.gen = rs.gen + 1
          BY <1>t, <4>1, <4>3 DEF Locking, KeysAgree, FieldTypes
        <4> QED BY <1>e, <4>2, <4>3
      <3> QED BY <3>1, <3>2
    <2>4. \A w \in Workers : Holds(w)' => wk'[w].token.gen <= rs'.gen /\ wk'[w].token.id = wk'[w].lay
      BY <1>t, <1>e DEF Holds, Locking, KeysAgree, FieldTypes
    <2> QED BY <2>1, <2>2, <2>3, <2>4 DEF KeysAgree
  <1>4. SingleFlight'
    <2>1. CASE rs'.gen = rs.gen + 1
      <3>1. \A q \in Readers : q # r => rd'[q].token.gen # rs'.gen
        BY <1>t, <1>e, <2>1 DEF Locking, KeysAgree, FieldTypes
      <3>2. rs'.slot.state = "pending" /\ rd'[r].pc = "build" /\ ~rd'[r].memo
        BY <1>t, <2>1, SessionEffect DEF FieldTypes
      <3> QED BY <3>1, <3>2 DEF SingleFlight, Owns
    <2>2. CASE rs'.gen = rs.gen /\ rs.slot.state = "none"
      <3>1. \A q \in Readers : ~Owns(q) /\ ~(rd[q].memo /\ rd[q].token.gen = rs.gen)
        BY <2>2 DEF Locking, SingleFlight
      <3>2. rs'.slot.state = "pending" /\ rd'[r].pc = "build" /\ ~rd'[r].memo
        BY <1>t, <2>2, SessionEffect DEF FieldTypes
      <3> QED BY <1>e, <2>2, <3>1, <3>2 DEF SingleFlight, Owns
    <2>3. CASE rs'.gen = rs.gen /\ rs.slot.state # "none"
      <3>1. rs'.slot = rs.slot /\ rd'[r].pc \in {"wait", "fresh", "got"}
        BY <1>t, <2>3, SessionEffect DEF FieldTypes
      <3>2. \A q \in Readers : Owns(q)' => q # r /\ Owns(q) /\ rd'[q] = rd[q]
        BY <1>e, <2>3, <3>1 DEF Owns
      <3> QED BY <1>e, <1>m, <2>3, <3>1, <3>2 DEF Locking, SingleFlight
    <2> QED BY <1>e, <2>1, <2>2, <2>3
  <1>5. IndexAhead'
    <2>1. rs'.base.db \in Layouts => rs'.base = rs.base
      BY <1>t, SessionEffect DEF NoRevision
    <2> QED BY <1>e, <2>1 DEF Locking, IndexAhead, Read
  <1>6. FreshIndex(also)'
    <2>1. ASSUME ~rs'.stale
          PROVE  ~rs.stale /\ rs.identity \in {NoLayout, rd[r].lay}
      BY <2>1, SessionEffect
    <2> QED BY <1>t, <1>e, <2>1 DEF Showing, FreshIndex, ShowsAll
  <1>7. SnapshotsShow(also)'
    <2>1. \A q \in Readers : rd'[q].memo => Shows(also, rd[q].at, rd[q].token.gen)'
      BY <1>e, <1>m DEF Showing, SnapshotsShow, Shows
    <2>2. rs'.slot.state = "done" => Shows(also, rs.slot.at, rs.gen)'
      BY <1>e, SessionEffect DEF Showing, SnapshotsShow, Shows
    <2>3. \A q \in Readers : Reading(q)' => /\ Shows(also, rd[q].out.at, rd[q].token.gen)'
                                            /\ rd'[q].rec => ShowsAll(also, rd[q].out.at)'
      BY <1>e DEF Showing, SnapshotsShow, Shows, ShowsAll, Reading
    <2>4. ASSUME NEW q \in Readers, rd'[q].pc = "build", ~rd'[q].rec,
                 index'[rd'[q].lay].rev > 0
          PROVE  Shows(also, index[rd[q].lay].at, rd[q].token.gen)'
      <3>1. CASE q = r
        <4>1. ~rs.stale /\ rs.identity \in {NoLayout, rd[r].lay}
          BY <2>4, <3>1, SessionEffect
        <4> QED BY <1>t, <1>e, <3>1, <4>1 DEF Showing, FreshIndex, ShowsAll, Shows
      <3>2. CASE q # r
        BY <1>e, <2>4, <3>2 DEF Showing, SnapshotsShow, Shows
      <3> QED BY <3>1, <3>2
    <2> QED BY <2>1, <2>2, <2>3, <2>4 DEF SnapshotsShow
  <1>8. ReconcilesShow(also)'
    BY <1>e DEF Showing, ReconcilesShow, ShowsAll, Read
  <1>9. UnmovedIsCovered'
    <2>1. rs'.base.db \in Layouts => rs'.base = rs.base /\ rs'.gen = rs.gen
      BY <1>t, SessionEffect DEF NoRevision
    <2>2. rs'.slot.state = "done" => rs'.slot = rs.slot /\ rs'.base = rs.base
      BY SessionEffect
    <2>3. \A q \in Readers : Reading(q)' => Reading(q) /\ rd'[q] = rd[q]
      BY <1>e DEF Reading
    <2> QED BY <1>e, <2>1, <2>2, <2>3 DEF Showing, UnmovedIsCovered, Read
  <1>10. OvertakenIsStale(also)'
    <2> SUFFICES ASSUME NEW w \in Workers, Holds(w), Attended(also, w), ~Current(rs', wk[w].token)
                 PROVE  /\ wk[w].token.gen < rs'.gen
                        /\ rs'.stale
                        /\ rs'.slot.state \in {"none", "pending"}
                        /\ \A q \in Readers : rd'[q].pc = "build" /\ rd'[q].token.gen = rs'.gen
                              => rd'[q].rec
      BY <1>e DEF OvertakenIsStale, Holds, Current, Attended
    <2>1. wk[w].token.gen <= rs.gen /\ wk[w].token.id = wk[w].lay /\ wk[w].lay \in Layouts
      BY <1>t DEF Locking, KeysAgree, FieldTypes
    <2>2. CASE rs.identity \notin {NoLayout, rd[r].lay}
      <3>1. rs'.gen = rs.gen + 1 /\ rs'.stale /\ rs'.slot.state = "pending" /\ rd'[r].rec
        BY <1>e, <2>2, SessionEffect
      <3>2. \A q \in Readers : q # r => rd'[q].token.gen # rs'.gen
        BY <1>t, <1>e, <3>1 DEF Locking, KeysAgree, FieldTypes
      <3> QED BY <1>t, <2>1, <3>1, <3>2 DEF FieldTypes
    <2>3. CASE rs.identity \in {NoLayout, rd[r].lay}
      <3>1. rs'.gen = rs.gen /\ rs'.stale = rs.stale /\ rs'.epoch = rs.epoch
        BY <2>3, SessionEffect
      <3>2. ~Current(rs, wk[w].token)
        <4>1. SUFFICES ASSUME Current(rs, wk[w].token) PROVE FALSE
          OBVIOUS
        <4>2. wk[w].token.id = rs.identity /\ wk[w].token.gen = rs.gen
              /\ wk[w].token.epoch = rs.epoch
          BY <1>s, <4>1, CurrentFacts
        <4>3. rs.identity = rs'.identity
          BY <1>t, <1>e, <2>1, <2>3, <4>2
        <4> QED BY <1>s, <3>1, <4>2, <4>3, CurrentFacts
      <3>3. /\ wk[w].token.gen < rs.gen /\ rs.stale /\ rs.slot.state \in {"none", "pending"}
            /\ \A q \in Readers : rd[q].pc = "build" /\ rd[q].token.gen = rs.gen => rd[q].rec
        BY <3>2 DEF Showing, OvertakenIsStale
      <3>4. rs'.slot.state \in {"none", "pending"} /\ (rd'[r].pc = "build" => rd'[r].rec)
        BY <2>3, <3>3, SessionEffect
      <3> QED BY <1>e, <3>1, <3>3, <3>4
    <2> QED BY <2>2, <2>3
  <1> QED BY <1>1, <1>2, <1>3, <1>4, <1>5, <1>6, <1>7, <1>8, <1>9, <1>10 DEF Locking, Showing

\* What an open hands out: the version of the index, which a reconcile makes the
\* version of the bundle, or the version of the bundle itself.
LEMMA OpenShows ==
  ASSUME TypeOK, Numbered, NEW i \in Layouts, NEW rec \in BOOLEAN, NEW o,
         index[i].at <= Version, index[i].rev > 0 => index[i].at > 0,
         Opens(i, rec, o), history' = history
  PROVE  /\ o.at \in 1..Version
         /\ o.how # "index" => o.at = Version
         /\ o.how = "index" =>
               /\ o.rev.db = i /\ o.rev.rev = index'[i].rev /\ index'[i].rev > 0
               /\ o.at = index'[i].at
               /\ index'[i] = index[i] \/ o.at = Version
               /\ rec => o.at = Version
  <1>t. /\ index \in [Layouts -> [rev : Nat, at : Nat]] /\ index[i].at \in Nat
        /\ Version \in Nat /\ Version > 0
    BY VersionType DEF TypeOK
  <1>1. CASE o.how # "index"
    <2>1. o \in Outcomes(i, rec)
      BY DEF Opens
    <2>2. o.at = Version
      BY <1>1, <2>1, OutcomeFacts
    <2> QED BY <1>t, <1>1, <2>2
  <1>2. CASE o.how = "index"
    <2>1. index' = [index EXCEPT ![i] = Refreshed(i, rec)]
      BY <1>2, OpensFacts
    <2>2. o.at = Refreshed(i, rec).at /\ o.rev = [db |-> i, rev |-> Refreshed(i, rec).rev]
      BY <1>2, OutcomeFacts DEF Opens
    <2>3. index'[i] = Refreshed(i, rec)
      BY <1>t, <2>1
    <2>4. /\ Refreshed(i, rec).rev > 0
          /\ Refreshed(i, rec) = index[i] \/ Refreshed(i, rec).at = Version
          /\ rec /\ Refreshed(i, rec) = index[i] =>
                history[Refreshed(i, rec).at] = history[Version]
      BY RefreshedFacts
    <2>5. Refreshed(i, rec).at \in 1..Version
      BY <1>t, <2>4
    <2>6. ASSUME rec, Refreshed(i, rec) = index[i]
          PROVE  Refreshed(i, rec).at = Version
      <3>1. Version \in 1..Version
        BY <1>t
      <3>2. history[Refreshed(i, rec).at] = Refreshed(i, rec).at /\ history[Version] = Version
        BY <2>5, <3>1 DEF Numbered
      <3> QED BY <2>4, <2>6, <3>2
    <2> QED BY <1>2, <2>2, <2>3, <2>4, <2>5, <2>6
  <1> QED BY <1>1, <1>2

\* _build opens the index.
LEMMA BuildOpenKeeps ==
  ASSUME NEW also \in SUBSET {Applier},
         TypeOK, TypeOK', Numbered, Locking(also), Showing(also), NEW r \in Readers, BuildOpen(r)
  PROVE  Locking(also)' /\ Showing(also)'
  <1>t. /\ FieldTypes(also) /\ FieldTypes(also)' /\ rd \in [Readers -> Reader] /\ rd[r] \in Reader
        /\ rd[r].rec \in BOOLEAN /\ Nobody \notin Readers \cup Workers
        /\ Readers \cap Workers = {}
    BY Fields, FieldsNext, ServeAssumption DEF TypeOK, Reader, Workers, Nobody
  <1>1. /\ rs' = rs /\ wk' = wk /\ op' = r /\ history' = history /\ Version' = Version
        /\ Promised(also)' = Promised(also) /\ rd[r].pc = "build" /\ op = Nobody
    BY PromisedSame DEF BuildOpen, clients, Version
  <1>2. PICK o : /\ Opens(rd[r].lay, rd[r].rec, o)
                 /\ rd' = [rd EXCEPT ![r] = [@ EXCEPT !.pc = "opened", !.out = o]]
    BY DEF BuildOpen
  <1>3. /\ \A q \in Readers : q # r => rd'[q] = rd[q]
        /\ rd'[r].pc = "opened" /\ rd'[r].out = o /\ rd'[r].lay = rd[r].lay
        /\ rd'[r].token = rd[r].token /\ rd'[r].rec = rd[r].rec /\ rd'[r].memo = rd[r].memo
    BY <1>t, <1>2 DEF Reader
  <1>4. ~rd[r].memo /\ (\A q \in Readers : rd[q].pc # "opened") /\ \A w \in Workers : ~Holds(w)
    BY <1>t, <1>1 DEF Locking, InRange, OneOperation
  <1>5. IndexGrows
    BY <1>t, <1>1, <1>2, OpensFacts, OpensGrow DEF FieldTypes
  <1>6. /\ o.at \in 1..Version
        /\ o.how # "index" => o.at = Version
        /\ o.how = "index" =>
              /\ o.rev.db = rd[r].lay /\ o.rev.rev = index'[rd[r].lay].rev
              /\ index'[rd[r].lay].rev > 0 /\ o.at = index'[rd[r].lay].at
              /\ index'[rd[r].lay] = index[rd[r].lay] \/ o.at = Version
              /\ rd[r].rec => o.at = Version
    <2>1. /\ rd[r].lay \in Layouts
          /\ index[rd[r].lay].at <= Version
          /\ index[rd[r].lay].rev > 0 => index[rd[r].lay].at > 0
      BY <1>t DEF FieldTypes, Locking, InRange
    <2> QED BY <1>t, <1>1, <1>2, <2>1, OpenShows
  <1>i. \A i \in Layouts : /\ index'[i].at >= index[i].at /\ index'[i].rev >= index[i].rev
                           /\ index'[i].rev = index[i].rev => index'[i] = index[i]
                           /\ index'[i] = index[i] \/ index'[i].at = Version
    BY <1>t, <1>1, <1>5 DEF IndexGrows, Locking, InRange, FieldTypes
  <1>7. OneOperation'
    BY <1>1, <1>3, <1>4 DEF OneOperation, Holds
  <1>8. InRange(also)'
    <2>1. \A i \in Layouts : index'[i].at <= Version' /\ (index'[i].rev > 0 => index'[i].at > 0)
      BY <1>t, <1>1, <1>i DEF Locking, InRange, FieldTypes
    <2>2. \A q \in Readers : /\ rd'[q].memo => rd'[q].pc = "got" /\ rd'[q].at \in 1..Version'
                             /\ Reading(q)' => rd'[q].out.at \in 1..Version'
      BY <1>1, <1>3, <1>4, <1>6 DEF Reading, Locking, InRange
    <2> QED BY <1>1, <2>1, <2>2 DEF Locking, InRange
  <1>9. KeysAgree'
    BY <1>1, <1>3 DEF Locking, KeysAgree, Holds
  <1>10. SingleFlight'
    <2>1. \A q \in Readers : Owns(q)' <=> Owns(q)
      BY <1>1, <1>3 DEF Owns
    <2>2. \A q \in Readers : rd'[q].pc = "clear" <=> rd[q].pc = "clear"
      BY <1>1, <1>3
    <2> QED BY <1>1, <1>3, <1>4, <2>1, <2>2 DEF Locking, SingleFlight
  <1>11. IndexAhead'
    <2>1. rs'.base.db \in Layouts => rs'.base.rev \in 1..index'[rs'.base.db].rev
      BY <1>t, <1>1, <1>i DEF Locking, IndexAhead, FieldTypes
    <2>2. \A q \in Readers : rd'[q].pc = "opened" => q = r
      BY <1>3, <1>4
    <2>3. \A w \in Workers : ~Read(w)'
      BY <1>1, <1>4 DEF Read, Holds
    <2>4. o.how = "index" => o.rev.rev \in 1..index'[rd[r].lay].rev
      BY <1>t, <1>6 DEF FieldTypes
    <2>5. o.at \in Nat
      BY <1>t, <1>6 DEF FieldTypes
    <2> QED BY <1>3, <1>6, <2>1, <2>2, <2>3, <2>4, <2>5 DEF IndexAhead
  <1>12. FreshIndex(also)'
    BY <1>t, <1>1, <1>i DEF Showing, FreshIndex, ShowsAll, FieldTypes
  <1>13. SnapshotsShow(also)'
    <2>1. \A q \in Readers : rd'[q].memo => Shows(also, rd[q].at, rd[q].token.gen)'
      BY <1>1, <1>3, <1>4 DEF Showing, SnapshotsShow, Shows
    <2>2. rs'.slot.state = "done" => Shows(also, rs.slot.at, rs.gen)'
      BY <1>1 DEF Showing, SnapshotsShow, Shows
    <2>3. \A q \in Readers : Reading(q)' => q = r
      BY <1>3, <1>4 DEF Reading
    <2>4. o.at = Version => \A f \in Promised(also) : f.covers <= o.at
      BY DEF Locking, InRange
    <2>5. o.at # Version => /\ o.how = "index" /\ ~rd[r].rec
                            /\ index'[rd[r].lay] = index[rd[r].lay]
                            /\ index[rd[r].lay].rev > 0 /\ o.at = index[rd[r].lay].at
      BY <1>6
    <2>6. Shows(also, rd[r].out.at, rd[r].token.gen)' /\ (rd'[r].rec => ShowsAll(also, rd[r].out.at)')
      BY <1>1, <1>3, <2>4, <2>5 DEF Showing, SnapshotsShow, Shows, ShowsAll
    <2>7. ASSUME NEW q \in Readers, rd'[q].pc = "build", ~rd'[q].rec,
                 index'[rd'[q].lay].rev > 0
          PROVE  Shows(also, index[rd[q].lay].at, rd[q].token.gen)'
      <3>1. rd'[q] = rd[q] /\ rd[q].lay \in Layouts
        BY <1>t, <1>3, <2>7 DEF FieldTypes
      <3>2. CASE index'[rd[q].lay] = index[rd[q].lay]
        BY <1>1, <2>7, <3>1, <3>2 DEF Showing, SnapshotsShow, Shows
      <3>3. CASE index'[rd[q].lay].at = Version
        BY <1>1, <3>1, <3>3 DEF Locking, InRange, Shows
      <3> QED BY <1>i, <3>1, <3>2, <3>3
    <2> QED BY <2>1, <2>2, <2>3, <2>6, <2>7 DEF SnapshotsShow
  <1>14. ReconcilesShow(also)'
    BY <1>1, <1>4 DEF ReconcilesShow, Read, Holds
  <1>15. UnmovedIsCovered'
    <2>1. ASSUME rs.base.db \in Layouts, rs.base.rev = index'[rs.base.db].rev
          PROVE  /\ rs.slot.state = "done" => rs.slot.at >= index'[rs.base.db].at
                 /\ rd[r].token.gen = rs.gen => o.at >= index'[rs.base.db].at
      <3>1. rs.base.rev = index[rs.base.db].rev /\ index'[rs.base.db] = index[rs.base.db]
        <4>1. rs.base.rev <= index[rs.base.db].rev /\ index[rs.base.db].rev \in Nat
              /\ rs.base.rev \in Nat
          BY <1>t, <2>1 DEF Locking, IndexAhead, FieldTypes
        <4>2. index'[rs.base.db].rev >= index[rs.base.db].rev
          BY <1>i, <2>1
        <4>3. rs.base.rev = index[rs.base.db].rev
          BY <2>1, <4>1, <4>2
        <4> QED BY <1>i, <2>1, <4>3
      <3>2. rs.slot.state = "done" => rs.slot.at >= index'[rs.base.db].at
        BY <2>1, <3>1 DEF Showing, UnmovedIsCovered
      <3>3. ASSUME rd[r].token.gen = rs.gen
            PROVE  o.at >= index'[rs.base.db].at
        <4>1. rs.base.db = rd[r].lay
          BY <1>1, <2>1, <3>3, ServeAssumption DEF Locking, KeysAgree
        <4>2. index'[rs.base.db].at <= Version
          BY <2>1, <3>1 DEF Locking, InRange
        <4> QED BY <1>t, <1>6, <2>1, <4>1, <4>2 DEF FieldTypes
      <3> QED BY <3>2, <3>3
    <2>2. \A q \in Readers : Reading(q)' => q = r
      BY <1>3, <1>4 DEF Reading
    <2>3. \A w \in Workers : ~Read(w)'
      BY <1>1, <1>4 DEF Read, Holds
    <2> QED BY <1>1, <1>3, <2>1, <2>2, <2>3 DEF UnmovedIsCovered
  <1>16. OvertakenIsStale(also)'
    BY <1>1, <1>4 DEF OvertakenIsStale, Holds
  <1> QED BY <1>7, <1>8, <1>9, <1>10, <1>11, <1>12, <1>13, <1>14, <1>15, <1>16
          DEF Locking, Showing

\* _build ends with a snapshot.
LEMMA BuildFinishKeeps ==
  ASSUME NEW also \in SUBSET {Applier},
         TypeOK, TypeOK', Locking(also), Showing(also), NEW r \in Readers, BuildFinish(r)
  PROVE  Locking(also)' /\ Showing(also)'
  <1> DEFINE b == BuiltState(rs, rd[r])
             at == rd[r].out.at
             settles == Current(rs, rd[r].token) /\ rd[r].rec /\ rd[r].out.how = "index"
  <1>t. /\ FieldTypes(also) /\ FieldTypes(also)' /\ rd \in [Readers -> Reader] /\ rd[r] \in Reader
        /\ rs \in ReadState /\ rd[r].token \in Token /\ at \in Nat
        /\ Nobody \notin Readers \cup Workers /\ Readers \cap Workers = {}
        /\ NoLayout \notin Layouts
    <2>1. rd \in [Readers -> Reader] /\ rs \in ReadState
      BY DEF TypeOK
    <2>2. FieldTypes(also) /\ FieldTypes(also)'
      BY Fields, FieldsNext
    <2> QED BY <2>1, <2>2, ServeAssumption DEF FieldTypes, Workers, Nobody
  <1>1. /\ wk' = wk /\ op' = Nobody /\ index' = index /\ Version' = Version
        /\ Promised(also)' = Promised(also) /\ Reading(r)
    BY PromisedSame DEF BuildFinish, files, clients, Version, Reading
  <1>2. op = r /\ (\A q \in Readers : rd[q].pc = "opened" => q = r) /\ \A w \in Workers : ~Holds(w)
    BY <1>t, <1>1 DEF Reading, Locking, OneOperation
  <1>3. \A q \in Readers :
           \/ rd'[q] = rd[q] /\ q # r
           \/ /\ q = r \/ (rd[q].pc = "wait" /\ rd[q].token.gen = rd[r].token.gen)
              /\ rd'[q].pc = "got" /\ rd'[q].at = at /\ rd'[q].memo
              /\ rd'[q].token = rd[q].token /\ rd'[q].lay = rd[q].lay
    <2>1. \A q \in Readers : rd[q] \in Reader /\ TRUE \in BOOLEAN
      BY <1>t
    <2>2. \A q \in Readers : LET n == [rd[q] EXCEPT !.pc = "got", !.at = at, !.memo = TRUE,
                                                    !.out = NoOutcome]
                             IN  n.pc = "got" /\ n.at = at /\ n.memo = TRUE
                                 /\ n.token = rd[q].token /\ n.lay = rd[q].lay
      BY <2>1 DEF Reader
    <2>3. \A q \in Readers : rd'[q] = IF q \in Waiting(r) \cup {r}
                                      THEN [rd[q] EXCEPT !.pc = "got", !.at = at,
                                                         !.memo = TRUE, !.out = NoOutcome]
                                      ELSE rd[q]
      BY DEF BuildFinish
    <2>4. \A q \in Waiting(r) : rd[q].pc = "wait" /\ rd[q].token.gen = rd[r].token.gen
      BY DEF Waiting
    <2> HIDE DEF at
    <2>5. ASSUME NEW q \in Readers
          PROVE  \/ rd'[q] = rd[q] /\ q # r
                 \/ /\ q = r \/ (rd[q].pc = "wait" /\ rd[q].token.gen = rd[r].token.gen)
                    /\ rd'[q].pc = "got" /\ rd'[q].at = at /\ rd'[q].memo
                    /\ rd'[q].token = rd[q].token /\ rd'[q].lay = rd[q].lay
      <3>1. CASE q \in Waiting(r) \cup {r}
        <4>1. rd'[q] = [rd[q] EXCEPT !.pc = "got", !.at = at, !.memo = TRUE,
                                     !.out = NoOutcome]
          BY <2>3, <3>1
        <4>2. /\ rd'[q].pc = "got" /\ rd'[q].at = at /\ rd'[q].memo
              /\ rd'[q].token = rd[q].token /\ rd'[q].lay = rd[q].lay
          BY <2>2, <4>1
        <4> QED BY <2>4, <3>1, <4>2
      <3>2. CASE q \notin Waiting(r) \cup {r}
        BY <2>3, <3>2
      <3> QED BY <3>1, <3>2
    <2> QED BY <2>5
  <1>4. /\ b \in ReadState /\ b.gen = rs.gen /\ b.identity = rs.identity /\ b.slot = rs.slot
        /\ settles => b.base = rd[r].out.rev /\ b.stale = FALSE
        /\ ~settles => b = rs
    BY <1>t, BuiltFacts
  <1>5. /\ rs'.gen = b.gen /\ rs'.identity = b.identity /\ rs'.base = b.base
        /\ rs'.stale = b.stale
        /\ LET mine == b.slot.state = "pending" /\ b.slot.id = rd[r].token.id
                       /\ b.slot.gen = rd[r].token.gen
           IN  /\ mine => rs'.slot.state = "done" /\ rs'.slot.at = at
                          /\ rs'.slot.id = b.slot.id /\ rs'.slot.gen = b.slot.gen
               /\ ~mine => rs' = b
    <2>1. rs' = Completed(b, rd[r].token, "done", at)
      BY DEF BuildFinish
    <2> HIDE DEF b, at
    <2> QED BY <1>t, <1>4, <2>1, CompletedFacts
  <1> HIDE DEF b
  <1>6. CASE rd[r].token.gen = rs.gen
    <2>1. rs.slot.state = "pending" /\ rs.slot.id = rd[r].token.id /\ rs.slot.gen = rd[r].token.gen
      BY <1>1, <1>6 DEF Reading, Locking, KeysAgree, SingleFlight, Owns
    <2>2. /\ rs'.slot.state = "done" /\ rs'.slot.at = at /\ rs'.slot.id = rs.slot.id
          /\ rs'.slot.gen = rs.slot.gen
      BY <1>4, <1>5, <2>1
    <2>3. ASSUME settles
          PROVE  /\ rs'.base = rd[r].out.rev /\ rs'.base.db = rs.identity
                 /\ rs.identity = rd[r].lay
                 /\ rs'.base.rev \in 1..index[rd[r].lay].rev
                 /\ rs'.base.rev = index[rd[r].lay].rev => at = index[rd[r].lay].at
                 /\ ShowsAll(also, at) /\ at <= index[rd[r].lay].at
      <3>1. rs.identity = rd[r].lay
        BY <1>1, <1>6 DEF Reading, Locking, KeysAgree
      <3> QED BY <1>1, <1>4, <1>5, <2>3, <3>1 DEF Reading, Locking, IndexAhead, Showing, SnapshotsShow
    <2>4. OneOperation'
      BY <1>1, <1>2, <1>3 DEF OneOperation, Holds
    <2>5. InRange(also)'
      <3>1. at \in 1..Version
        BY <1>1 DEF Locking, InRange
      <3> QED BY <1>1, <1>2, <1>3, <1>4, <1>5, <2>2, <3>1 DEF Reading, Locking, InRange
    <2>6. KeysAgree'
      <3>1. rs'.base.db # NoLayout => rs'.base.db = rs'.identity
        BY <1>4, <1>5, <2>3 DEF Locking, KeysAgree
      <3>2. \A q \in Readers :
              /\ rd'[q].token.gen <= rs'.gen
              /\ rd'[q].pc \in {"build", "opened", "wait", "clear"} =>
                 /\ rd'[q].token.id = rd'[q].lay
                 /\ rd'[q].token.gen = rs'.gen => rd'[q].token.id = rs'.identity
        BY <1>3, <1>4, <1>5 DEF Locking, KeysAgree
      <3>3. rs.identity # NoLayout
        BY <2>1 DEF Locking, KeysAgree
      <3> QED BY <1>1, <1>2, <1>4, <1>5, <2>1, <2>2, <3>1, <3>2, <3>3 DEF KeysAgree, Locking, Holds
    <2>7. SingleFlight'
      <3>1. \A q \in Readers : ~Owns(q)'
        BY <1>1, <1>3, <1>4, <1>5, <1>6 DEF Reading, Owns, Locking, SingleFlight
      <3>2. \A q \in Readers : rd[q].memo => rd[q].token.gen # rs.gen
        BY <2>1 DEF Locking, SingleFlight
      <3> QED BY <1>3, <1>4, <1>5, <2>2, <3>1, <3>2 DEF SingleFlight
    <2>8. IndexAhead'
      <3>1. rs'.base.db \in Layouts => rs'.base.rev \in 1..index[rs'.base.db].rev
        BY <1>4, <1>5, <2>3 DEF Locking, IndexAhead
      <3>2. \A q \in Readers : rd'[q].pc # "opened"
        BY <1>2, <1>3
      <3> QED BY <1>1, <1>2, <3>1, <3>2 DEF IndexAhead, Read, Holds
    <2>9. FreshIndex(also)'
      <3>1. CASE settles
        <4>1. /\ rd[r].lay \in Layouts /\ index[rd[r].lay].rev > 0
              /\ \A f \in Promised(also) : f.covers <= index[rd[r].lay].at
          BY <1>t, <2>3, <3>1 DEF ShowsAll, FieldTypes
        <4> QED BY <1>1, <1>4, <1>5, <2>3, <3>1, <4>1 DEF FreshIndex, ShowsAll
      <3>2. CASE ~settles
        BY <1>1, <1>4, <1>5, <3>2 DEF Showing, FreshIndex, ShowsAll
      <3> QED BY <3>1, <3>2
    <2>10. SnapshotsShow(also)'
      <3>1. \A f \in Promised(also) : f.gen <= rd[r].token.gen => f.covers <= at
        BY <1>1 DEF Showing, SnapshotsShow, Shows
      <3>2. \A q \in Readers : rd'[q].memo => Shows(also, rd[q].at, rd[q].token.gen)'
        BY <1>1, <1>3, <3>1 DEF Showing, SnapshotsShow, Shows
      <3>3. Shows(also, rs.slot.at, rs.gen)'
        BY <1>1, <1>4, <1>5, <1>6, <2>2, <3>1 DEF Shows
      <3>4. \A q \in Readers : ~Reading(q)' /\ (rd'[q].pc = "build" => rd'[q] = rd[q])
        BY <1>2, <1>3 DEF Reading
      <3> QED BY <1>1, <3>2, <3>3, <3>4 DEF Showing, SnapshotsShow, Shows
    <2>11. UnmovedIsCovered'
      <3>1. ASSUME rs'.base.db \in Layouts, rs'.base.rev = index[rs'.base.db].rev
            PROVE  at >= index[rs'.base.db].at
        <4>1. CASE settles
          BY <1>t, <2>3, <3>1, <4>1 DEF FieldTypes
        <4>2. CASE ~settles
          BY <1>1, <1>4, <1>5, <1>6, <3>1, <4>2 DEF Showing, UnmovedIsCovered
        <4> QED BY <4>1, <4>2
      <3>2. \A q \in Readers : ~Reading(q)'
        BY <1>2, <1>3 DEF Reading
      <3> QED BY <1>1, <1>2, <2>2, <3>1, <3>2 DEF UnmovedIsCovered, Read, Holds
    <2>12. ReconcilesShow(also)' /\ OvertakenIsStale(also)'
      BY <1>1, <1>2 DEF ReconcilesShow, OvertakenIsStale, Read, Holds
    <2> QED BY <2>4, <2>5, <2>6, <2>7, <2>8, <2>9, <2>10, <2>11, <2>12 DEF Locking, Showing
  <1>7. CASE rd[r].token.gen # rs.gen
    <2>1. ~settles
      BY <1>t, <1>7, CurrentFacts
    <2>2. rs' = rs
      BY <1>4, <1>5, <1>7, <2>1 DEF Locking, KeysAgree
    <2>3. \A q \in Readers :
             \/ rd'[q] = rd[q] /\ q # r
             \/ /\ rd'[q].pc = "got" /\ rd'[q].at = at /\ rd'[q].memo
                /\ rd'[q].token.gen = rd[r].token.gen /\ rd'[q].token.gen # rs.gen
      BY <1>3, <1>7
    <2>4. OneOperation'
      BY <1>1, <1>2, <1>3 DEF OneOperation, Holds
    <2>5. InRange(also)'
      <3>1. at \in 1..Version
        BY <1>1 DEF Locking, InRange
      <3> QED BY <1>1, <1>2, <2>2, <2>3, <3>1 DEF Reading, Locking, InRange
    <2>6. KeysAgree'
      BY <1>1, <1>2, <2>2, <2>3 DEF Locking, KeysAgree, Holds
    <2>7. SingleFlight'
      <3>1. \A q \in Readers : Owns(q)' => Owns(q) /\ rd'[q] = rd[q]
        BY <2>2, <2>3 DEF Owns
      <3>2. \A q \in Readers : rd'[q].memo /\ rd'[q].token.gen = rs.gen => rd'[q] = rd[q]
        BY <2>3
      <3> QED BY <2>2, <3>1, <3>2 DEF Locking, SingleFlight
    <2>8. IndexAhead' /\ FreshIndex(also)'
      <3>1. \A q \in Readers : rd'[q].pc # "opened"
        BY <1>2, <1>3
      <3> QED BY <1>1, <1>2, <2>2, <3>1 DEF Locking, IndexAhead, Showing, FreshIndex, ShowsAll, Read, Holds
    <2>9. SnapshotsShow(also)'
      <3>1. \A f \in Promised(also) : f.gen <= rd[r].token.gen => f.covers <= at
        BY <1>1 DEF Showing, SnapshotsShow, Shows
      <3>2. \A q \in Readers : rd'[q].memo => Shows(also, rd[q].at, rd[q].token.gen)'
        BY <1>1, <2>3, <3>1 DEF Showing, SnapshotsShow, Shows
      <3>3. \A q \in Readers : ~Reading(q)' /\ (rd'[q].pc = "build" => rd'[q] = rd[q])
        BY <1>2, <1>3 DEF Reading
      <3> QED BY <1>1, <2>2, <3>2, <3>3 DEF Showing, SnapshotsShow, Shows
    <2>10. UnmovedIsCovered'
      <3>1. \A q \in Readers : ~Reading(q)'
        BY <1>2, <1>3 DEF Reading
      <3> QED BY <1>1, <1>2, <2>2, <3>1 DEF Showing, UnmovedIsCovered, Read, Holds
    <2>11. ReconcilesShow(also)' /\ OvertakenIsStale(also)'
      BY <1>1, <1>2 DEF ReconcilesShow, OvertakenIsStale, Read, Holds
    <2> QED BY <2>4, <2>5, <2>6, <2>7, <2>8, <2>9, <2>10, <2>11 DEF Locking, Showing
  <1> QED BY <1>6, <1>7

\* _build raises, and the builder clears the slot.
LEMMA BuildFailsKeeps ==
  ASSUME NEW also \in SUBSET {Applier},
         TypeOK, TypeOK', Locking(also), Showing(also), NEW r \in Readers, BuildRaise(r) \/ BuildClear(r)
  PROVE  Locking(also)' /\ Showing(also)'
  <1>t. /\ FieldTypes(also) /\ FieldTypes(also)' /\ rd \in [Readers -> Reader] /\ rd[r] \in Reader
        /\ rs \in ReadState /\ rd[r].token \in Token
        /\ Nobody \notin Readers \cup Workers /\ Readers \cap Workers = {}
    <2>1. rd \in [Readers -> Reader] /\ rs \in ReadState
      BY DEF TypeOK
    <2>2. FieldTypes(also) /\ FieldTypes(also)'
      BY Fields, FieldsNext
    <2> QED BY <2>1, <2>2, ServeAssumption DEF FieldTypes, Workers, Nobody
  <1>1. /\ wk' = wk /\ index' = index /\ Version' = Version /\ Promised(also)' = Promised(also)
    BY PromisedSame DEF BuildRaise, BuildClear, files, clients, Version
  <1>2. \/ op' = op
        \/ /\ \A w \in Workers : ~Holds(w)
           /\ \A q \in Readers : q # r => rd[q].pc # "opened"
    <2>1. CASE BuildRaise(r)
      <3>1. op = r
        BY <2>1 DEF BuildRaise, Locking, OneOperation
      <3> QED BY <1>t, <3>1 DEF Locking, OneOperation
    <2>2. CASE BuildClear(r)
      BY <2>2 DEF BuildClear
    <2> QED BY <2>1, <2>2
  <1>3. \A q \in Readers :
           \/ q # r /\ rd'[q] = rd[q]
           \/ /\ q = r \/ rd[q].pc = "wait"
              /\ rd'[q].pc = "fresh" \/ (q = r /\ BuildRaise(r) /\ rd'[q].pc = "clear")
              /\ rd'[q].memo = rd[q].memo /\ rd'[q].token = rd[q].token
              /\ rd'[q].lay = rd[q].lay
    <2>1. CASE BuildRaise(r)
      <3>1. ASSUME NEW q \in Readers
            PROVE  LET c == [rd[q] EXCEPT !.pc = "clear", !.out = NoOutcome]
                       f == [rd[q] EXCEPT !.pc = "fresh"]
                   IN  /\ c.pc = "clear" /\ c.memo = rd[q].memo /\ c.token = rd[q].token
                       /\ c.lay = rd[q].lay
                       /\ f.pc = "fresh" /\ f.memo = rd[q].memo /\ f.token = rd[q].token
                       /\ f.lay = rd[q].lay
        <4>1. rd[q] \in Reader
          BY <1>t
        <4> QED BY <4>1 DEF Reader
      <3>2. \A q \in Readers :
              rd'[q] = IF q = r THEN [rd[q] EXCEPT !.pc = "clear", !.out = NoOutcome]
                       ELSE IF q \in Waiting(r) THEN [rd[q] EXCEPT !.pc = "fresh"]
                       ELSE rd[q]
        BY <2>1 DEF BuildRaise
      <3>3. \A q \in Waiting(r) : rd[q].pc = "wait"
        BY DEF Waiting
      <3>4. ASSUME NEW q \in Readers
            PROVE  \/ q # r /\ rd'[q] = rd[q]
                   \/ /\ q = r \/ rd[q].pc = "wait"
                      /\ rd'[q].pc = "fresh" \/ (q = r /\ BuildRaise(r) /\ rd'[q].pc = "clear")
                      /\ rd'[q].memo = rd[q].memo /\ rd'[q].token = rd[q].token
                      /\ rd'[q].lay = rd[q].lay
        <4>1. CASE q = r
          <5>1. rd'[q] = [rd[q] EXCEPT !.pc = "clear", !.out = NoOutcome]
            BY <3>2, <4>1
          <5> QED BY <2>1, <3>1, <4>1, <5>1
        <4>2. CASE q # r /\ q \in Waiting(r)
          <5>1. rd'[q] = [rd[q] EXCEPT !.pc = "fresh"]
            BY <3>2, <4>2
          <5> QED BY <3>1, <3>3, <4>2, <5>1
        <4>3. CASE q # r /\ q \notin Waiting(r)
          BY <3>2, <4>3
        <4> QED BY <4>1, <4>2, <4>3
      <3> QED BY <3>4
    <2>2. CASE BuildClear(r)
      BY <1>t, <2>2 DEF BuildClear, Reader
    <2> QED BY <2>1, <2>2
  <1>4. \A q \in Readers : rd[q].memo => rd[q].pc = "got"
    BY DEF Locking, InRange
  <1>5. \A q \in Readers : rd'[q].memo => rd'[q] = rd[q] /\ q # r
    BY <1>3, <1>4 DEF BuildRaise, BuildClear
  <1>6. \A q \in Readers : rd'[q].pc \in {"idle", "layout", "build", "opened", "wait", "got"}
           => rd'[q] = rd[q] /\ q # r
    BY <1>3
  <1>7. /\ rs'.gen = rs.gen /\ rs'.identity = rs.identity /\ rs'.stale = rs.stale
        /\ rs'.base = rs.base /\ rs'.epoch = rs.epoch
        /\ \/ /\ rd[r].token.gen # rs.gen
              /\ \/ rs'.slot = rs.slot
                 \/ rs.slot.state = "none" /\ rs'.slot.state = "none"
           \/ /\ rd[r].token.gen = rs.gen /\ rs.slot.state = "pending"
              /\ rs'.slot.state = "failed" /\ rs'.slot.id = rs.slot.id
              /\ rs'.slot.gen = rs.slot.gen /\ BuildRaise(r)
           \/ /\ rd[r].token.gen = rs.gen /\ rs.slot.state = "failed"
              /\ rs'.slot.state = "none" /\ BuildClear(r)
    <2>1. CASE BuildRaise(r)
      <3>1. rs' = Completed(rs, rd[r].token, "failed", 0) /\ rd[r].pc = "opened"
        BY <2>1 DEF BuildRaise
      <3>2. /\ rs'.gen = rs.gen /\ rs'.identity = rs.identity /\ rs'.stale = rs.stale
            /\ rs'.base = rs.base /\ rs'.epoch = rs.epoch
            /\ LET mine == rs.slot.state = "pending" /\ rs.slot.id = rd[r].token.id
                           /\ rs.slot.gen = rd[r].token.gen
               IN  /\ mine => rs'.slot.state = "failed" /\ rs'.slot.id = rs.slot.id
                              /\ rs'.slot.gen = rs.slot.gen
                   /\ ~mine => rs' = rs
        BY <1>t, <3>1, CompletedFacts
      <3>3. CASE rd[r].token.gen = rs.gen
        <4>1. rs.slot.state = "pending" /\ rs.slot.id = rd[r].token.id
              /\ rs.slot.gen = rd[r].token.gen
          BY <3>1, <3>3 DEF Locking, KeysAgree, SingleFlight, Owns
        <4> QED BY <2>1, <3>2, <3>3, <4>1
      <3>4. CASE rd[r].token.gen # rs.gen
        <4>1. rs' = rs
          BY <3>2, <3>4 DEF Locking, KeysAgree
        <4> QED BY <3>4, <4>1
      <3> QED BY <3>3, <3>4
    <2>2. CASE BuildClear(r)
      <3>1. rd[r].pc = "clear" /\ rd[r].token.id = rd[r].lay
        BY <2>2 DEF BuildClear, Locking, KeysAgree
      <3>2. CASE rd[r].token.gen = rs.gen
        <4>1. rs.slot.state = "failed" /\ rs.slot.id = rd[r].token.id
              /\ rs.slot.gen = rd[r].token.gen
          BY <3>1, <3>2 DEF Locking, KeysAgree, SingleFlight, Owns
        <4>2. rs' = [rs EXCEPT !.slot = NoSlot] /\ NoSlot.state = "none"
          BY <2>2, <4>1 DEF BuildClear, NoSlot
        <4>3. rs'.slot = NoSlot /\ rs'.gen = rs.gen /\ rs'.identity = rs.identity
              /\ rs'.stale = rs.stale /\ rs'.base = rs.base /\ rs'.epoch = rs.epoch
          BY <1>t, <4>2 DEF ReadState
        <4> QED BY <2>2, <3>2, <4>1, <4>2, <4>3
      <3>3. CASE rd[r].token.gen # rs.gen
        <4>1. rs.slot.gen = rd[r].token.gen => rs.slot.state = "none"
          BY <3>3 DEF Locking, KeysAgree
        <4>2. CASE rs' = rs
          BY <3>3, <4>2
        <4>3. CASE rs' = [rs EXCEPT !.slot = NoSlot] /\ rs.slot.gen = rd[r].token.gen
          <5>1. rs'.slot = NoSlot /\ rs'.gen = rs.gen /\ rs'.identity = rs.identity
                /\ rs'.stale = rs.stale /\ rs'.base = rs.base /\ rs'.epoch = rs.epoch
            BY <1>t, <4>3 DEF ReadState
          <5> QED BY <3>3, <4>1, <4>3, <5>1 DEF NoSlot
        <4> QED BY <2>2, <4>2, <4>3 DEF BuildClear
      <3> QED BY <3>2, <3>3
    <2> QED BY <2>1, <2>2
  <1>8. rs'.slot.state \in {"done", "pending"} => rs'.slot = rs.slot /\ rd[r].token.gen # rs.gen
    BY <1>7
  <1>9. OneOperation'
    BY <1>1, <1>2, <1>6 DEF Locking, OneOperation, Holds
  <1>10. InRange(also)'
    BY <1>1, <1>5, <1>6, <1>7, <1>8 DEF Reading, Locking, InRange
  <1>11. KeysAgree'
    <2>1. /\ rs'.slot.state # "none" => rs'.slot.id = rs'.identity /\ rs'.slot.gen = rs'.gen
          /\ rs'.identity = NoLayout => rs'.slot.state = "none"
      BY <1>7 DEF Locking, KeysAgree
    <2>2. \A q \in Readers : rd'[q].token = rd[q].token
      BY <1>3
    <2>3. \A q \in Readers : rd'[q].pc \in {"build", "opened", "wait", "clear"} =>
            rd[q].pc \in {"build", "opened", "wait", "clear"} /\ rd'[q].lay = rd[q].lay
      BY <1>3 DEF BuildRaise
    <2> QED BY <1>1, <1>7, <2>1, <2>2, <2>3 DEF Locking, KeysAgree, Holds
  <1>12. SingleFlight'
    <2>1. ASSUME NEW q \in Readers, Owns(q)'
          PROVE  Owns(q) /\ (rd'[q] = rd[q] \/ (q = r /\ BuildRaise(r) /\ rd'[q].pc = "clear"))
      <3>1. rs'.gen = rs.gen /\ rd'[q].pc \in {"build", "opened", "clear"}
        BY <1>7, <2>1 DEF Owns
      <3>2. CASE rd'[q] = rd[q]
        BY <2>1, <3>1, <3>2 DEF Owns
      <3>3. CASE rd'[q] # rd[q]
        <4>1. /\ q = r /\ BuildRaise(r) /\ rd'[q].pc = "clear"
              /\ rd'[q].token = rd[q].token
          BY <1>3, <3>1, <3>3
        <4> QED BY <2>1, <3>1, <4>1 DEF Owns, BuildRaise
      <3> QED BY <3>2, <3>3
    <2>2. ASSUME NEW q \in Readers, Owns(q)'
          PROVE  rs'.slot.state = IF rd'[q].pc = "clear" THEN "failed" ELSE "pending"
      <3>1. CASE q = r
        <4>1. rd'[r].pc = "clear" /\ BuildRaise(r)
          BY <1>3, <2>2, <3>1 DEF Owns
        <4>2. ~BuildClear(r)
          BY <4>1 DEF BuildRaise, BuildClear
        <4>3. rd[r].token.gen = rs.gen
          BY <2>1, <2>2, <3>1 DEF Owns
        <4> QED BY <1>7, <3>1, <4>1, <4>2, <4>3
      <3>2. CASE q # r
        <4>1. ~Owns(r)
          BY <2>1, <2>2, <3>2 DEF Locking, SingleFlight
        <4>2. rd[r].token.gen # rs.gen
          BY <4>1 DEF Owns, BuildRaise, BuildClear
        <4> QED BY <1>7, <2>1, <2>2, <3>2, <4>2 DEF Locking, SingleFlight
      <3> QED BY <3>1, <3>2
    <2>3. ASSUME NEW q \in Readers, rd'[q].memo, rd'[q].token.gen = rs'.gen
          PROVE  rs'.slot.state = "done" /\ rd'[q].at = rs'.slot.at
      <3>1. rs.slot.state = "done" /\ rd'[q].at = rs.slot.at
        BY <1>5, <1>7, <2>3 DEF Locking, SingleFlight
      <3> QED BY <1>7, <3>1
    <2> QED BY <2>1, <2>2, <2>3 DEF Locking, SingleFlight
  <1>13. IndexAhead' /\ FreshIndex(also)'
    BY <1>1, <1>6, <1>7 DEF Locking, IndexAhead, Showing, FreshIndex, ShowsAll, Read
  <1>14. SnapshotsShow(also)'
    BY <1>1, <1>5, <1>6, <1>7, <1>8 DEF Showing, SnapshotsShow, Shows, ShowsAll, Reading
  <1>15. ReconcilesShow(also)'
    BY <1>1 DEF Showing, ReconcilesShow, ShowsAll, Read
  <1>16. UnmovedIsCovered'
    <2>1. \A q \in Readers : Reading(q)' => Reading(q) /\ rd'[q] = rd[q]
      BY <1>6 DEF Reading
    <2> QED BY <1>1, <1>7, <1>8, <2>1 DEF Showing, UnmovedIsCovered, Read
  <1>17. OvertakenIsStale(also)'
    <2> SUFFICES ASSUME NEW w \in Workers, Holds(w), Attended(also, w), ~Current(rs', wk[w].token)
                 PROVE  /\ wk[w].token.gen < rs'.gen
                        /\ rs'.stale
                        /\ rs'.slot.state \in {"none", "pending"}
                        /\ \A q \in Readers : rd'[q].pc = "build" /\ rd'[q].token.gen = rs'.gen
                              => rd'[q].rec
      BY <1>1 DEF OvertakenIsStale, Holds, Current, Attended
    <2>1. ~Current(rs, wk[w].token)
      BY <1>7 DEF Current, TokenOf
    <2>2. ~BuildRaise(r)
      BY <1>t DEF BuildRaise, Locking, OneOperation
    <2> QED BY <1>6, <1>7, <2>1, <2>2 DEF Showing, OvertakenIsStale
  <1> QED BY <1>9, <1>10, <1>11, <1>12, <1>13, <1>14, <1>15, <1>16, <1>17 DEF Locking, Showing

-----------------------------------------------------------------------------
(***************************************************************************)
(* The steps of _reconcile and of the watcher that change ReadState.       *)
(***************************************************************************)

\* _reconcile takes its token, mark_stale() and advance("resync"): the generation
\* stays and the slot with it, or moves on and leaves an empty slot.
Invalidates(also) ==
    /\ Version' = Version /\ index' = index /\ rd' = rd /\ Promised(also)' = Promised(also)
    /\ \/ /\ rs'.gen = rs.gen /\ rs'.slot = rs.slot /\ rs'.base = rs.base
          /\ rs.identity \in {NoLayout, rs'.identity}
       \/ /\ rs'.gen = rs.gen + 1 /\ rs'.slot = NoSlot
          /\ rs'.base = NoRevision \/ (rs'.base = rs.base /\ rs'.identity = rs.identity)
    /\ ~rs'.stale => ~rs.stale /\ rs.identity \in {NoLayout, rs'.identity}
    /\ \A w \in Workers :
          \/ wk'[w] = wk[w]
          \/ /\ op = Nobody /\ op' = w /\ wk'[w].pc = "token"
             /\ wk'[w].token = TokenOf(rs') /\ wk'[w].lay = rs'.identity
             /\ wk'[w].covers = wk[w].covers
    /\ op' = op \/ op = Nobody
    /\ \A w \in Workers : Holds(w)' /\ Attended(also, w)' => Current(rs', wk'[w].token)

\* A step of this kind keeps the invariant.
LEMMA InvalidatesKeeps ==
  ASSUME NEW also \in SUBSET {Applier},
         TypeOK, TypeOK', Locking(also), Showing(also), Invalidates(also)
  PROVE  Locking(also)' /\ Showing(also)'
  <1>t. /\ FieldTypes(also) /\ FieldTypes(also)' /\ rs' \in ReadState
        /\ Nobody \notin Readers \cup Workers /\ Readers \cap Workers = {}
        /\ NoLayout \notin Layouts
    <2>1. FieldTypes(also) /\ FieldTypes(also)'
      BY Fields, FieldsNext
    <2>2. rs' \in ReadState
      BY DEF TypeOK
    <2> QED BY <2>1, <2>2, ServeAssumption DEF Workers, Nobody
  <1>1. \A w \in Workers : Read(w)' => Read(w) /\ wk'[w] = wk[w]
    BY DEF Invalidates, Read
  <1>2. rs'.slot.state # "none" =>
           rs'.slot = rs.slot /\ rs'.gen = rs.gen /\ rs'.base = rs.base
           /\ rs.identity \in {NoLayout, rs'.identity}
    BY DEF Invalidates, NoSlot
  <1>3. rs'.gen >= rs.gen /\ (\A q \in Readers : rd[q].token.gen = rs'.gen => rs'.gen = rs.gen)
    BY <1>t DEF Invalidates, Locking, KeysAgree, FieldTypes
  <1>4. OneOperation'
    BY <1>t DEF Invalidates, Locking, OneOperation, Holds
  <1>5. InRange(also)'
    <2>1. \A f \in Promised(also) : f.gen <= rs'.gen /\ f.covers <= Version
      BY <1>t, <1>3 DEF Locking, InRange, FieldTypes
    <2>2. \A w \in Workers : wk'[w].covers <= Version
      BY DEF Invalidates, Locking, InRange
    <2>3. rs'.slot.state = "done" => rs'.slot.at \in 1..Version
      BY <1>2 DEF Locking, InRange
    <2> QED BY <2>1, <2>2, <2>3 DEF Invalidates, Locking, InRange, Reading
  <1>6. KeysAgree'
    <2>1. /\ rs'.slot.state # "none" => rs'.slot.id = rs'.identity /\ rs'.slot.gen = rs'.gen
          /\ rs'.identity = NoLayout => rs'.slot.state = "none"
      BY <1>2 DEF Locking, KeysAgree
    <2>2. rs'.base.db # NoLayout => rs'.base.db = rs'.identity
      BY DEF Invalidates, Locking, KeysAgree, NoRevision
    <2>3. ASSUME NEW q \in Readers
          PROVE  /\ rd[q].token.gen <= rs'.gen
                 /\ rd[q].pc \in {"build", "opened", "wait", "clear"} =>
                      /\ rd[q].token.id = rd[q].lay
                      /\ rd[q].token.gen = rs'.gen => rd[q].token.id = rs'.identity
      <3>1. rd[q].token.gen <= rs'.gen
        BY <1>t, <1>3 DEF Locking, KeysAgree, FieldTypes
      <3>2. ASSUME rd[q].pc \in {"build", "opened", "wait", "clear"},
                   rd[q].token.gen = rs'.gen
            PROVE  rd[q].token.id = rs'.identity
        <4>1. rs'.gen = rs.gen
          BY <1>3, <3>2
        <4>2. rs.identity \in {NoLayout, rs'.identity}
          BY <1>t, <4>1 DEF Invalidates, FieldTypes
        <4> QED BY <1>t, <3>2, <4>1, <4>2 DEF Locking, KeysAgree, FieldTypes
      <3> QED BY <3>1, <3>2 DEF Locking, KeysAgree
    <2>4. ASSUME NEW w \in Workers, Holds(w)'
          PROVE  wk'[w].token.gen <= rs'.gen /\ wk'[w].token.id = wk'[w].lay
      <3>1. CASE wk'[w] = wk[w]
        BY <1>t, <1>3, <2>4, <3>1 DEF Locking, KeysAgree, FieldTypes, Holds
      <3>2. CASE wk'[w].token = TokenOf(rs') /\ wk'[w].lay = rs'.identity
        BY <1>t, <3>2, TokenFacts DEF FieldTypes
      <3> QED BY <3>1, <3>2 DEF Invalidates
    <2> QED BY <2>1, <2>2, <2>3, <2>4 DEF Invalidates, KeysAgree
  <1>7. SingleFlight'
    <2>1. CASE rs'.gen = rs.gen
      <3>1. rs'.slot = rs.slot
        BY <1>t, <2>1 DEF Invalidates, FieldTypes
      <3> QED BY <2>1, <3>1 DEF Invalidates, Locking, SingleFlight, Owns
    <2>2. CASE rs'.gen # rs.gen
      BY <1>3, <2>2 DEF Invalidates, SingleFlight, Owns
    <2> QED BY <2>1, <2>2
  <1>8. IndexAhead'
    <2>1. rs'.base.db \in Layouts => rs'.base = rs.base
      BY <1>t DEF Invalidates, NoRevision
    <2> QED BY <1>1, <2>1 DEF Invalidates, Locking, IndexAhead
  <1>9. FreshIndex(also)'
    BY <1>t DEF Invalidates, Showing, FreshIndex, ShowsAll
  <1>10. SnapshotsShow(also)'
    BY <1>2 DEF Invalidates, Showing, SnapshotsShow, Shows, ShowsAll, Reading
  <1>11. ReconcilesShow(also)'
    BY <1>1 DEF Invalidates, Showing, ReconcilesShow, ShowsAll
  <1>12. UnmovedIsCovered'
    <2>1. rs'.base.db \in Layouts => rs'.base = rs.base
      BY <1>t DEF Invalidates, NoRevision
    <2> QED BY <1>1, <1>2, <1>3, <2>1 DEF Invalidates, Showing, UnmovedIsCovered, Reading
  <1>13. OvertakenIsStale(also)'
    BY DEF Invalidates, OvertakenIsStale
  <1> QED BY <1>4, <1>5, <1>6, <1>7, <1>8, <1>9, <1>10, <1>11, <1>12, <1>13 DEF Locking, Showing

\* No apply is inside _reconcile between mark_stale() and advance("resync"), whose
\* token the first would overtake without emptying the slot.
Undisturbed == watcher = "marked" => wk[Applier].pc \notin {"token", "opened"}

\* Such are the start of _reconcile, mark_stale() and advance("resync").
LEMMA InvalidatingSteps ==
  ASSUME NEW also \in SUBSET {Applier},
         TypeOK, FlushesOwned, Locking(also),
         (\E w \in Workers : RecStart(w)) \/ MarkStale \/ Resync,
         Applier \in also => Undisturbed /\ Undisturbed'
  PROVE  Invalidates(also)
  <1>t. /\ rs \in ReadState /\ wk \in [Workers -> Worker] /\ FieldTypes(also)
        /\ Nobody \notin Workers
    BY Fields, ServeAssumption DEF TypeOK, Workers, Nobody
  <1>1. Version' = Version /\ index' = index /\ rd' = rd
    BY DEF RecStart, MarkStale, Resync, files, Version
  <1>2. ASSUME NEW w \in Workers, RecStart(w)
        PROVE  Invalidates(also)
    <2> DEFINE a == Adopted(rs, wk[w].lay)
               s == IF Config(wk[w].job) THEN Staled(a) ELSE a
    <2>1. wk[w].lay \in Layouts /\ wk[w] \in Worker
      BY <1>t DEF FieldTypes
    <2>2. /\ a \in ReadState /\ a.identity = wk[w].lay
          /\ rs.identity \in {NoLayout, wk[w].lay} =>
               a.gen = rs.gen /\ a.slot = rs.slot /\ a.stale = rs.stale /\ a.base = rs.base
          /\ rs.identity \notin {NoLayout, wk[w].lay} =>
               a.gen = rs.gen + 1 /\ a.slot = NoSlot /\ a.stale = TRUE /\ a.base = NoRevision
      BY <1>t, <2>1, AdoptedFacts
    <2> HIDE DEF a
    <2>3. /\ s \in ReadState /\ s.identity = a.identity /\ s.gen = a.gen /\ s.slot = a.slot
          /\ s.base = a.base
      BY <2>2, StaledFacts
    <2>4. ~s.stale => ~a.stale
      BY <2>2, StaledFacts
    <2>5. rs' = s
      BY <1>2 DEF RecStart, a
    <2>6. wk' = [wk EXCEPT ![w] = [@ EXCEPT !.pc = "token", !.token = TokenOf(s)]]
      BY <1>2 DEF RecStart, a
    <2> HIDE DEF s
    <2>7. /\ \A v \in Workers : v # w => wk'[v] = wk[v]
          /\ wk'[w].pc = "token" /\ wk'[w].token = TokenOf(rs') /\ wk'[w].lay = wk[w].lay
          /\ wk'[w].covers = wk[w].covers
      BY <1>t, <2>1, <2>5, <2>6 DEF Worker
    <2>8. op = Nobody /\ op' = w /\ Told(also)' = Told(also)
      BY <1>2 DEF RecStart, clients, Told
    <2>9. Promised(also)' = Promised(also)
      <3>1. wk[w].pc = "start"
        BY <1>2 DEF RecStart
      <3>2. \A t \in Workers : wk'[t].pc = "done" \/ wk[t].pc = "done" => wk'[t] = wk[t]
        BY <2>7, <3>1
      <3>3. \A t \in Workers : wk'[t].pc = "done" /\ Attended(also, t)'
                                <=> wk[t].pc = "done" /\ Attended(also, t)
        BY <3>2 DEF Attended
      <3>4. {[gen |-> wk'[t].gen, covers |-> wk'[t].covers] :
                t \in {u \in Workers : wk'[u].pc = "done" /\ Attended(also, u)'}}
            = {[gen |-> wk[t].gen, covers |-> wk[t].covers] :
                t \in {u \in Workers : wk[u].pc = "done" /\ Attended(also, u)}}
        BY <3>2, <3>3
      <3> QED BY <2>8, <3>4 DEF Promised
    <2>10. \A v \in Workers : Holds(v)' => Current(rs', wk'[v].token)
      BY <1>t, <2>7, <2>8 DEF Locking, OneOperation, Holds, Current
    <2>11. /\ \/ /\ rs'.gen = rs.gen /\ rs'.slot = rs.slot /\ rs'.base = rs.base
                 /\ rs.identity \in {NoLayout, rs'.identity}
              \/ /\ rs'.gen = rs.gen + 1 /\ rs'.slot = NoSlot /\ rs'.base = NoRevision
           /\ ~rs'.stale => ~rs.stale /\ rs.identity \in {NoLayout, rs'.identity}
           /\ wk'[w].lay = rs'.identity
      BY <2>2, <2>3, <2>4, <2>5, <2>7
    <2> QED BY <1>1, <2>7, <2>8, <2>9, <2>10, <2>11 DEF Invalidates
  <1>3. CASE MarkStale \/ Resync
    <2>1. wk' = wk /\ op' = op /\ Promised(also)' = Promised(also)
      BY <1>3, PromisedSame DEF MarkStale, Resync, clients
    <2>2. \A w \in Workers : Holds(w)' => ~Attended(also, w)'
      <3>1. \A w \in Workers : ~wk[w].owned
        BY <1>3 DEF MarkStale, Resync, FlushesOwned
      <3>2. watcher = "marked" \/ watcher' = "marked"
        BY <1>3 DEF MarkStale, Resync
      <3>3. ASSUME NEW w \in also PROVE ~Holds(w)'
        BY <2>1, <3>2, <3>3 DEF Undisturbed, Holds
      <3> QED BY <2>1, <3>1, <3>3 DEF Attended
    <2>3. CASE MarkStale
      <3>1. rs' = Staled(rs)
        BY <2>3 DEF MarkStale
      <3>2. /\ rs'.gen = rs.gen /\ rs'.slot = rs.slot /\ rs'.base = rs.base
            /\ rs'.identity = rs.identity /\ rs'.stale = TRUE
        BY <1>t, <3>1, StaledFacts
      <3> QED BY <1>1, <2>1, <2>2, <3>2 DEF Invalidates
    <2>4. CASE Resync
      <3>1. rs' = Advanced(rs)
        BY <2>4 DEF Resync
      <3>2. /\ rs'.gen = rs.gen + 1 /\ rs'.slot = NoSlot /\ rs'.base = rs.base
            /\ rs'.identity = rs.identity /\ rs'.stale = rs.stale
        BY <1>t, <3>1, AdvancedFacts
      <3> QED BY <1>1, <2>1, <2>2, <3>2 DEF Invalidates
    <2> QED BY <1>3, <2>3, <2>4
  <1> QED BY <1>2, <1>3

\* _reconcile opens the index.
LEMMA RecOpenKeeps ==
  ASSUME NEW also \in SUBSET {Applier},
         TypeOK, TypeOK', Numbered, Locking(also), Showing(also), NEW w \in Workers, RecOpen(w)
  PROVE  Locking(also)' /\ Showing(also)'
  <1>t. /\ FieldTypes(also) /\ FieldTypes(also)' /\ wk \in [Workers -> Worker] /\ wk[w] \in Worker
        /\ Readers \cap Workers = {} /\ NoLayout \notin Layouts /\ TRUE \in BOOLEAN
        /\ Threads \subseteq Workers
    BY Fields, FieldsNext, ServeAssumption DEF TypeOK, Workers
  <1>1. /\ rs' = rs /\ rd' = rd /\ op' = op /\ history' = history /\ Version' = Version
        /\ Told(also)' = Told(also) /\ wk[w].pc = "token"
    BY DEF RecOpen, clients, Version, Told
  <1>2. /\ op = w /\ \A v \in Workers : v # w => ~Holds(v)
        /\ \A q \in Readers : rd[q].pc # "opened"
    BY <1>t, <1>1 DEF Locking, OneOperation, Holds
  <1>3. /\ \A v \in Workers : v # w => wk'[v] = wk[v]
        /\ wk'[w].pc = "opened" /\ wk'[w].job = wk[w].job /\ wk'[w].lay = wk[w].lay
        /\ wk'[w].token = wk[w].token /\ wk'[w].covers = wk[w].covers
        /\ wk'[w].owned = wk[w].owned
        /\ IndexGrows
        /\ Pages(wk[w].job) /\ wk'[w].out.how = "index" =>
              /\ wk'[w].out.rev.db = wk[w].lay
              /\ wk'[w].out.rev.rev = index'[wk[w].lay].rev
              /\ index'[wk[w].lay].rev > 0
              /\ wk'[w].out.at = index'[wk[w].lay].at
              /\ wk'[w].out.at = Version
    <2>1. CASE Pages(wk[w].job)
      <3>1. PICK o : /\ Opens(wk[w].lay, TRUE, o)
                     /\ wk' = [wk EXCEPT ![w] = [@ EXCEPT !.pc = "opened", !.out = o]]
        BY <2>1 DEF RecOpen
      <3>2. /\ \A v \in Workers : v # w => wk'[v] = wk[v]
            /\ wk'[w].pc = "opened" /\ wk'[w].job = wk[w].job /\ wk'[w].lay = wk[w].lay
            /\ wk'[w].token = wk[w].token /\ wk'[w].covers = wk[w].covers
            /\ wk'[w].owned = wk[w].owned /\ wk'[w].out = o
        BY <1>t, <3>1 DEF Worker
      <3>3. wk[w].lay \in Layouts
        BY <1>t DEF FieldTypes
      <3>4. IndexGrows
        BY <1>t, <1>1, <3>1, <3>3, OpensFacts, OpensGrow
      <3>5. o.how = "index" =>
              /\ o.rev.db = wk[w].lay /\ o.rev.rev = index'[wk[w].lay].rev
              /\ index'[wk[w].lay].rev > 0
              /\ o.at = index'[wk[w].lay].at /\ o.at = Version
        <4>1. PICK rec \in BOOLEAN : rec /\ Opens(wk[w].lay, rec, o)
          BY <3>1
        <4>2. o.how = "index" =>
                /\ o.rev.db = wk[w].lay /\ o.rev.rev = index'[wk[w].lay].rev
                /\ index'[wk[w].lay].rev > 0
                /\ o.at = index'[wk[w].lay].at /\ (rec => o.at = Version)
          <5>1. history' = history
            BY <1>1
          <5>2. /\ index[wk[w].lay].at <= Version
                /\ index[wk[w].lay].rev > 0 => index[wk[w].lay].at > 0
            BY <3>3 DEF Locking, InRange
          <5> QED BY <3>3, <4>1, <5>1, <5>2, OpenShows, ZenonT(60)
        <4> QED BY <4>1, <4>2
      <3> QED BY <3>2, <3>4, <3>5
    <2>2. CASE ~Pages(wk[w].job)
      <3>1. wk' = [wk EXCEPT ![w] = [@ EXCEPT !.pc = "opened"]] /\ index' = index
        BY <2>2 DEF RecOpen
      <3>2. /\ \A v \in Workers : v # w => wk'[v] = wk[v]
            /\ wk'[w].pc = "opened" /\ wk'[w].job = wk[w].job /\ wk'[w].lay = wk[w].lay
            /\ wk'[w].token = wk[w].token /\ wk'[w].covers = wk[w].covers
            /\ wk'[w].owned = wk[w].owned
        BY <1>t, <3>1 DEF Worker
      <3> QED BY <2>2, <3>1, <3>2 DEF IndexGrows
    <2> QED BY <2>1, <2>2
  <1>4. Promised(also)' \subseteq Promised(also)
    <2>1. Told(also)' \subseteq Promised(also)
      BY <1>1 DEF Promised
    <2> QED BY <1>t, <1>1, <1>3, <2>1, PromisedKept
  <1>i. \A i \in Layouts : /\ index'[i].at >= index[i].at /\ index'[i].rev >= index[i].rev
                           /\ index'[i].rev = index[i].rev => index'[i] = index[i]
                           /\ index'[i] = index[i] \/ index'[i].at = Version
    BY <1>t, <1>1, <1>3 DEF IndexGrows, Locking, InRange, FieldTypes
  <1>5. \A v \in Workers : Read(v)' => v = w /\ Pages(wk[w].job) /\ wk'[w].out.how = "index"
    BY <1>2, <1>3 DEF Read, Holds
  <1>6. OneOperation'
    BY <1>1, <1>2, <1>3 DEF Locking, OneOperation, Holds
  <1>7. InRange(also)'
    <2>1. \A i \in Layouts : index'[i].at <= Version' /\ (index'[i].rev > 0 => index'[i].at > 0)
      BY <1>t, <1>1, <1>i DEF Locking, InRange, FieldTypes
    <2>2. \A v \in Workers : wk'[v].covers <= Version
      BY <1>3 DEF Locking, InRange
    <2> QED BY <1>1, <1>4, <2>1, <2>2 DEF Locking, InRange, Reading
  <1>8. KeysAgree'
    <2>1. \A v \in Workers : Holds(v)' => /\ Holds(v) /\ wk'[v].token = wk[v].token
                                          /\ wk'[v].lay = wk[v].lay
      BY <1>1, <1>3 DEF Holds
    <2> QED BY <1>1, <2>1 DEF Locking, KeysAgree
  <1>9. SingleFlight'
    BY <1>1 DEF Locking, SingleFlight, Owns
  <1>10. IndexAhead'
    <2>1. rs'.base.db \in Layouts => rs'.base.rev \in 1..index'[rs'.base.db].rev
      BY <1>t, <1>1, <1>i DEF Locking, IndexAhead, FieldTypes
    <2>2. Pages(wk[w].job) /\ wk'[w].out.how = "index" =>
             wk'[w].out.rev.rev \in 1..index'[wk[w].lay].rev /\ wk'[w].out.at \in Nat
      BY <1>t, <1>3 DEF FieldTypes
    <2> QED BY <1>1, <1>2, <1>3, <1>5, <2>1, <2>2 DEF IndexAhead
  <1>11. FreshIndex(also)'
    BY <1>t, <1>1, <1>4, <1>i DEF Showing, FreshIndex, ShowsAll, FieldTypes
  <1>12. SnapshotsShow(also)'
    <2>1. ASSUME NEW q \in Readers, rd[q].pc = "build", ~rd[q].rec,
                 index'[rd[q].lay].rev > 0
          PROVE  Shows(also, index[rd[q].lay].at, rd[q].token.gen)'
      <3>1. rd[q].lay \in Layouts
        BY <1>t DEF FieldTypes
      <3>2. CASE index'[rd[q].lay] = index[rd[q].lay]
        BY <1>1, <1>4, <2>1, <3>1, <3>2 DEF Showing, SnapshotsShow, Shows
      <3>3. CASE index'[rd[q].lay].at = Version
        BY <1>1, <1>4, <3>1, <3>3 DEF Locking, InRange, Shows
      <3> QED BY <1>i, <3>1, <3>2, <3>3
    <2> QED BY <1>1, <1>4, <2>1 DEF Showing, SnapshotsShow, Shows, ShowsAll, Reading
  <1>13. ReconcilesShow(also)'
    <2>1. \A f \in Promised(also) : f.covers <= Version
      BY DEF Locking, InRange
    <2>2. wk[w].covers <= Version
      BY DEF Locking, InRange
    <2> QED BY <1>3, <1>4, <1>5, <2>1, <2>2 DEF ReconcilesShow, ShowsAll
  <1>14. UnmovedIsCovered'
    <2>1. ASSUME rs.base.db \in Layouts, rs.base.rev = index'[rs.base.db].rev,
                 rs.slot.state = "done"
          PROVE  rs.slot.at >= index'[rs.base.db].at
      <3>1. /\ rs.base.rev <= index[rs.base.db].rev /\ index[rs.base.db].rev \in Nat
            /\ rs.base.rev \in Nat
        BY <1>t, <2>1 DEF Locking, IndexAhead, FieldTypes
      <3>2. index'[rs.base.db].rev >= index[rs.base.db].rev
        BY <1>i, <2>1
      <3>3. rs.base.rev = index[rs.base.db].rev
        BY <2>1, <3>1, <3>2
      <3> QED BY <1>i, <2>1, <3>3 DEF Showing, UnmovedIsCovered
    <2>2. ASSUME Pages(wk[w].job), wk'[w].out.how = "index", wk'[w].out.rev = rs.base,
                 rs.slot.state = "done"
          PROVE  rs.slot.at >= wk'[w].out.at
      <3>1. /\ rs.base.db = wk[w].lay /\ rs.base.rev = index'[wk[w].lay].rev
            /\ wk'[w].out.at = index'[wk[w].lay].at /\ wk[w].lay \in Layouts
        BY <1>t, <1>3, <2>2 DEF FieldTypes
      <3> QED BY <2>1, <2>2, <3>1
    <2>3. \A q \in Readers : ~Reading(q)'
      BY <1>1, <1>2 DEF Reading
    <2> QED BY <1>1, <1>5, <2>1, <2>2, <2>3 DEF UnmovedIsCovered
  <1>15. OvertakenIsStale(also)'
    <2>1. \A v \in Workers : Holds(v)' /\ Attended(also, v)' =>
             Holds(v) /\ Attended(also, v) /\ wk'[v].token = wk[v].token
      BY <1>1, <1>3 DEF Holds, Attended
    <2> QED BY <1>1, <2>1 DEF Showing, OvertakenIsStale
  <1> QED BY <1>6, <1>7, <1>8, <1>9, <1>10, <1>11, <1>12, <1>13, <1>14, <1>15
          DEF Locking, Showing

\* What the end of _reconcile promises, if its flush is still there to publish it.
LEMMA RecFinishPromise ==
  ASSUME NEW also \in SUBSET {Applier},
         TypeOK, FlushesOwned, NEW w \in Workers, RecFinish(w)
  PROVE  \A f \in Promised(also)' : \/ f \in Promised(also)
                                    \/ Attended(also, w) /\ f.gen = rs'.gen /\ f.covers = wk[w].covers
  <1>t. wk \in [Workers -> Worker] /\ wk[w] \in Worker /\ Threads \subseteq Workers
    BY DEF TypeOK, Workers
  <1>1. /\ \A v \in Workers : v # w => wk'[v] = wk[v]
        /\ wk'[w].gen = rs'.gen /\ wk'[w].covers = wk[w].covers
        /\ wk'[w].owned = wk[w].owned
    BY <1>t DEF RecFinish, Worker
  <1>2. Told(also)' = Told(also)
    BY DEF RecFinish, clients, Told
  <1> SUFFICES ASSUME NEW f \in Promised(also)', f \notin Promised(also)
               PROVE  Attended(also, w) /\ f.gen = rs'.gen /\ f.covers = wk[w].covers
    OBVIOUS
  <1>3. f \notin Told(also)'
    BY <1>2 DEF Promised
  <1>4. PICK t \in Workers : /\ wk'[t].pc = "done" /\ Attended(also, t)'
                             /\ f = [gen |-> wk'[t].gen, covers |-> wk'[t].covers]
    BY <1>3 DEF Promised
  <1>5. t = w
    <2>1. SUFFICES ASSUME t # w PROVE FALSE
      OBVIOUS
    <2>2. wk'[t] = wk[t]
      BY <1>t, <1>1, <2>1
    <2> QED BY <1>4, <2>2 DEF Promised, Attended
  <1> QED BY <1>1, <1>4, <1>5 DEF Attended

\* _reconcile ends.
LEMMA RecFinishKeeps ==
  ASSUME NEW also \in SUBSET {Applier},
         TypeOK, TypeOK', FlushesOwned, Locking(also), Showing(also), NEW w \in Workers, RecFinish(w)
  PROVE  Locking(also)' /\ Showing(also)'
  <1> DEFINE covered == wk[w].covers
             how == wk[w].out.how
             moved == rs'.gen = rs.gen + 1 /\ rs'.slot = NoSlot
             settled == ~Config(wk[w].job) /\ how = "index"
  <1>t. /\ FieldTypes(also) /\ FieldTypes(also)' /\ wk \in [Workers -> Worker] /\ wk[w] \in Worker
        /\ rs \in ReadState /\ wk[w].token \in Token /\ NoLayout \notin Layouts
        /\ Readers \cap Workers = {} /\ Nobody \notin Readers \cup Workers
    <2>1. wk \in [Workers -> Worker] /\ rs \in ReadState
      BY DEF TypeOK
    <2>2. FieldTypes(also) /\ FieldTypes(also)'
      BY Fields, FieldsNext
    <2> QED BY <2>1, <2>2, ServeAssumption DEF FieldTypes, Workers, Nobody
  <1>1. /\ rd' = rd /\ index' = index /\ Version' = Version /\ op' = Nobody
        /\ wk[w].pc = "opened"
    BY DEF RecFinish, files, Version
  <1>2. /\ op = w /\ \A v \in Workers : v # w => ~Holds(v)
        /\ \A q \in Readers : rd[q].pc # "opened"
    BY <1>t, <1>1 DEF Locking, OneOperation, Holds
  <1>3. /\ \A v \in Workers : v # w => wk'[v] = wk[v]
        /\ wk'[w].pc = "done" /\ wk'[w].covers = wk[w].covers
    BY <1>t DEF RecFinish, Worker
  <1>4. \A f \in Promised(also)' : \/ f \in Promised(also)
                                   \/ Attended(also, w) /\ f.gen = rs'.gen /\ f.covers = covered
    BY RecFinishPromise
  <1>5. /\ rs'.identity = rs.identity
        /\ ~Current(rs, wk[w].token) => rs' = rs
        /\ Current(rs, wk[w].token) /\ ~settled =>
             moved /\ rs'.base = rs.base /\ (rs.stale => rs'.stale)
             /\ (~Config(wk[w].job) => rs'.stale)
        /\ Current(rs, wk[w].token) /\ settled =>
             /\ rs'.base = wk[w].out.rev /\ rs'.stale = FALSE
             /\ wk[w].out.rev # rs.base => moved
             /\ wk[w].out.rev = rs.base => rs'.gen = rs.gen /\ rs'.slot = rs.slot
    <2>1. rs' = Reconciled(rs, wk[w])
      BY DEF RecFinish
    <2> QED BY <1>t, <2>1, ReconciledFacts
  <1>6. rs'.gen \in {rs.gen, rs.gen + 1} /\ (rs'.gen = rs.gen => rs'.slot = rs.slot)
        /\ (rs'.gen # rs.gen => rs'.slot = NoSlot)
    BY <1>t, <1>5 DEF FieldTypes
  <1>7. settled => /\ Read(w) /\ wk[w].out.rev.db = wk[w].lay
                   /\ wk[w].out.rev.rev \in 1..index[wk[w].lay].rev
                   /\ wk[w].out.at <= index[wk[w].lay].at
                   /\ ShowsAll(also, wk[w].out.at) /\ covered <= wk[w].out.at
    <2>1. wk[w].job \in Loops \cup {"apply"}
      BY <1>t DEF Worker
    <2>2. ~Config(wk[w].job) => Pages(wk[w].job)
      BY <2>1 DEF Config, Pages, Loops
    <2>3. settled => Read(w)
      BY <1>1, <2>2 DEF Read
    <2> QED BY <2>3 DEF Locking, IndexAhead, Showing, ReconcilesShow
  <1>8. Current(rs, wk[w].token) => rs.identity = wk[w].lay
    BY <1>t, <1>1, CurrentFacts DEF Locking, KeysAgree, Holds
  <1>9. covered <= Version
    BY DEF Locking, InRange
  <1>10. \A q \in Readers : rd[q].token.gen <= rs.gen
    BY DEF Locking, KeysAgree
  <1>11. \A v \in Workers : ~Holds(v)' /\ ~Read(v)'
    BY <1>2, <1>3 DEF Holds, Read
  <1>12. \A q \in Readers : ~Reading(q)'
    BY <1>1, <1>2 DEF Reading
  <1>13. OneOperation'
    BY <1>1, <1>2, <1>11 DEF OneOperation
  <1>14. InRange(also)'
    <2>1. \A f \in Promised(also)' : f.gen <= rs'.gen /\ f.covers <= Version
      BY <1>t, <1>4, <1>6, <1>9 DEF Locking, InRange, FieldTypes
    <2>2. \A v \in Workers : wk'[v].covers <= Version
      BY <1>3 DEF Locking, InRange
    <2>3. rs'.slot.state = "done" => rs'.slot.at \in 1..Version
      BY <1>6 DEF Locking, InRange, NoSlot
    <2> QED BY <1>1, <1>12, <2>1, <2>2, <2>3 DEF Locking, InRange
  <1>15. KeysAgree'
    <2>1. rs'.base.db # NoLayout => rs'.base.db = rs'.identity
      BY <1>5, <1>7, <1>8 DEF Locking, KeysAgree
    <2>2. /\ rs'.slot.state # "none" => rs'.slot.id = rs'.identity /\ rs'.slot.gen = rs'.gen
          /\ rs'.identity = NoLayout => rs'.slot.state = "none"
      BY <1>5, <1>6 DEF Locking, KeysAgree, NoSlot
    <2>3. \A q \in Readers : /\ rd[q].token.gen <= rs'.gen
                             /\ rd[q].token.gen = rs'.gen => rs'.gen = rs.gen
      BY <1>t, <1>6, <1>10 DEF FieldTypes
    <2> QED BY <1>1, <1>5, <1>11, <2>1, <2>2, <2>3 DEF Locking, KeysAgree
  <1>16. SingleFlight'
    <2>1. CASE rs'.gen = rs.gen
      BY <1>1, <1>6, <2>1 DEF Locking, SingleFlight, Owns
    <2>2. CASE rs'.gen # rs.gen
      <3>1. \A q \in Readers : rd[q].token.gen # rs'.gen
        BY <1>t, <1>6, <1>10, <2>2 DEF FieldTypes
      <3> QED BY <1>1, <3>1 DEF SingleFlight, Owns
    <2> QED BY <2>1, <2>2
  <1>17. IndexAhead'
    <2>1. rs'.base.db \in Layouts => rs'.base.rev \in 1..index[rs'.base.db].rev
      BY <1>5, <1>7 DEF Locking, IndexAhead
    <2> QED BY <1>1, <1>2, <1>11, <2>1 DEF IndexAhead
  <1>18. FreshIndex(also)'
    <2> SUFFICES ASSUME ~rs'.stale
                 PROVE  /\ rs.identity \in Layouts /\ index[rs.identity].rev > 0
                        /\ \A f \in Promised(also)' : f.covers <= index[rs.identity].at
      BY <1>1, <1>5 DEF FreshIndex, ShowsAll
    <2>1. CASE ~Current(rs, wk[w].token)
      <3>1. ~rs.stale
        BY <1>5, <2>1
      <3>2. ~Attended(also, w)
        BY <1>1, <2>1, <3>1 DEF Showing, OvertakenIsStale, Holds
      <3> QED BY <1>4, <3>1, <3>2 DEF Showing, FreshIndex, ShowsAll
    <2>2. CASE Current(rs, wk[w].token) /\ ~settled
      <3>1. ~rs.stale /\ Config(wk[w].job)
        BY <1>5, <2>2
      <3>2. Attended(also, w) => covered <= 1
        <4>1. w \notin also
          BY <3>1 DEF FlushesOwned, Config
        <4> QED BY <3>1, <4>1 DEF FlushesOwned, Attended
      <3>3. /\ rs.identity \in Layouts /\ index[rs.identity].rev > 0
            /\ ShowsAll(also, index[rs.identity].at)
        BY <3>1 DEF Showing, FreshIndex
      <3>4. index[rs.identity].at > 0 /\ index[rs.identity].at \in Nat
        BY <1>t, <3>3 DEF Locking, InRange, FieldTypes
      <3>5. Attended(also, w) => covered <= index[rs.identity].at
        BY <1>t, <3>2, <3>4 DEF FieldTypes
      <3> QED BY <1>4, <3>3, <3>5 DEF ShowsAll
    <2>3. CASE Current(rs, wk[w].token) /\ settled
      <3>1. rs.identity = wk[w].lay /\ wk[w].lay \in Layouts
        BY <1>t, <1>8, <2>3 DEF FieldTypes
      <3>2. index[wk[w].lay].rev > 0 /\ covered <= index[wk[w].lay].at
        BY <1>t, <1>7, <2>3 DEF FieldTypes
      <3>3. \A f \in Promised(also) : f.covers <= index[wk[w].lay].at
        BY <1>t, <1>7, <2>3 DEF FieldTypes, ShowsAll
      <3> QED BY <1>4, <3>1, <3>2, <3>3
    <2> QED BY <2>1, <2>2, <2>3
  <1>19. SnapshotsShow(also)'
    <2>1. ASSUME Attended(also, w), rs'.gen = rs.gen
          PROVE  /\ rs.slot.state = "done" => covered <= rs.slot.at
                 /\ \A q \in Readers : rd[q].memo /\ rd[q].token.gen = rs.gen =>
                       covered <= rd[q].at
                 /\ \A q \in Readers : rd[q].pc = "build" /\ rd[q].token.gen = rs.gen =>
                       rd[q].rec \/ covered <= index[rd[q].lay].at
      <3>1. CASE ~Current(rs, wk[w].token)
        <4>1. /\ rs.slot.state \in {"none", "pending"}
              /\ \A q \in Readers : rd[q].pc = "build" /\ rd[q].token.gen = rs.gen => rd[q].rec
          BY <1>1, <2>1, <3>1 DEF Showing, OvertakenIsStale, Holds
        <4>2. \A q \in Readers : ~(rd[q].memo /\ rd[q].token.gen = rs.gen)
          BY <4>1 DEF Locking, SingleFlight
        <4> QED BY <4>1, <4>2
      <3>2. CASE Current(rs, wk[w].token)
        <4>1. settled /\ wk[w].out.rev = rs.base
          BY <1>t, <1>5, <2>1, <3>2 DEF FieldTypes
        <4>2. rs.slot.state = "done" => rs.slot.at >= wk[w].out.at
          BY <1>7, <4>1 DEF Showing, UnmovedIsCovered
        <4>3. rs.slot.state = "done" => covered <= rs.slot.at
          BY <1>t, <1>7, <4>1, <4>2 DEF FieldTypes
        <4>4. \A q \in Readers : rd[q].memo /\ rd[q].token.gen = rs.gen => covered <= rd[q].at
          BY <4>3 DEF Locking, SingleFlight
        <4>5. \A q \in Readers : rd[q].pc = "build" /\ rd[q].token.gen = rs.gen =>
                 rd[q].lay = wk[w].lay
          BY <1>8, <3>2 DEF Locking, KeysAgree
        <4>6. covered <= index[wk[w].lay].at
          BY <1>t, <1>7, <4>1 DEF FieldTypes
        <4> QED BY <4>3, <4>4, <4>5, <4>6
      <3> QED BY <3>1, <3>2
    <2>2. \A f \in Promised(also)' :
             \/ f \in Promised(also)
             \/ Attended(also, w) /\ f.gen = rs'.gen /\ f.covers = covered
      BY <1>4
    <2>3. \A q \in Readers : rd[q].token.gen >= rs'.gen =>
             rs'.gen = rs.gen /\ rd[q].token.gen = rs.gen
      <3>1. rs.gen \in Nat /\ \A q \in Readers : rd[q].token.gen \in Nat
        BY <1>t DEF FieldTypes
      <3> QED BY <1>6, <1>10, <3>1
    <2>4. \A q \in Readers : rd[q].memo => Shows(also, rd[q].at, rd[q].token.gen)'
      BY <1>t, <1>1, <2>1, <2>2, <2>3 DEF Showing, SnapshotsShow, Shows, FieldTypes
    <2>5. rs'.slot.state = "done" => Shows(also, rs.slot.at, rs.gen)'
      <3>1. rs'.slot.state = "done" => rs'.slot = rs.slot /\ rs'.gen = rs.gen
        BY <1>6 DEF NoSlot
      <3> QED BY <1>1, <2>1, <2>2, <3>1 DEF Showing, SnapshotsShow, Shows
    <2>6. \A q \in Readers : rd[q].pc = "build" /\ ~rd[q].rec /\ index[rd[q].lay].rev > 0 =>
             Shows(also, index[rd[q].lay].at, rd[q].token.gen)'
      BY <1>t, <1>1, <2>1, <2>2, <2>3 DEF Showing, SnapshotsShow, Shows, FieldTypes
    <2> QED BY <1>1, <1>12, <2>4, <2>5, <2>6 DEF SnapshotsShow
  <1>20. ReconcilesShow(also)' /\ OvertakenIsStale(also)'
    BY <1>11 DEF ReconcilesShow, OvertakenIsStale
  <1>21. UnmovedIsCovered'
    <2>1. rs'.slot.state = "done" => rs'.slot = rs.slot /\ rs'.gen = rs.gen
      BY <1>6 DEF NoSlot
    <2>2. rs'.gen = rs.gen => rs'.base = rs.base
      BY <1>t, <1>5 DEF FieldTypes
    <2> QED BY <1>1, <1>11, <1>12, <2>1, <2>2 DEF Showing, UnmovedIsCovered
  <1> QED BY <1>13, <1>14, <1>15, <1>16, <1>17, <1>18, <1>19, <1>20, <1>21 DEF Locking, Showing

-----------------------------------------------------------------------------
(***************************************************************************)
(* The invariant and the theorem.                                          *)
(***************************************************************************)

\* The invariant holds at the start.
LEMMA InitHolds ==
  ASSUME NEW also \in SUBSET {Applier}, Init
  PROVE  IInv(also)
  <1>t. TypeOK /\ FieldTypes(also) /\ NoLayout \notin Layouts
    BY TypeInit, Fields, ServeAssumption
  <1>1. history = <<1>> /\ Version = 1
    BY DEF Init, Version
  <1>2. Numbered
    BY <1>1 DEF Numbered
  <1>3. /\ \A w \in Workers : wk[w].pc = "idle" /\ wk[w].owned = FALSE /\ wk[w].covers = 0
        /\ announced = {} /\ acks = {} /\ wk[Applier].job = "apply"
    BY DEF Init, Workers
  <1>4. Promised(also) = {}
    BY <1>3 DEF Promised, Told
  <1>5. \A r \in Readers : rd[r].pc = "idle" /\ rd[r].memo = FALSE /\ rd[r].token.gen = 0
    BY DEF Init, Blank
  <1>6. /\ rs.gen = 1 /\ rs.slot.state = "none" /\ rs.stale = TRUE
        /\ rs.base.db = NoLayout /\ rs.identity = NoLayout
    BY DEF Init, NoSlot, NoRevision
  <1>7. \A i \in Layouts : index[i].rev = 0 /\ index[i].at = 0
    BY DEF Init
  <1>8. FlushesOwned
    BY <1>3 DEF FlushesOwned, Init
  <1>9. OneOperation /\ InRange(also) /\ KeysAgree
    BY <1>1, <1>3, <1>4, <1>5, <1>6, <1>7
       DEF OneOperation, InRange, KeysAgree, Holds, Reading
  <1>10. SingleFlight /\ IndexAhead
    BY <1>t, <1>3, <1>5, <1>6 DEF SingleFlight, IndexAhead, Owns, Read
  <1>11. Showing(also)
    BY <1>t, <1>3, <1>5, <1>6 DEF Showing, FreshIndex, SnapshotsShow, ReconcilesShow,
                                  UnmovedIsCovered, OvertakenIsStale, Reading, Read, Holds
  <1> QED BY <1>t, <1>2, <1>8, <1>9, <1>10, <1>11 DEF IInv, Locking

\* Every step keeps it, if no edit restores an earlier content.
LEMMA NextKeeps ==
  ASSUME NEW also \in SUBSET {Applier}, ~Reverts, IInv(also), [Next]_vars,
         Applier \in also => Undisturbed /\ Undisturbed'
  PROVE  IInv(also)'
  <1>1. TypeOK /\ Numbered /\ FlushesOwned /\ Locking(also) /\ Showing(also)
    BY DEF IInv
  <1>2. TypeOK'
    BY <1>1, TypeStep
  <1>3. Numbered' /\ FlushesOwned'
    BY <1>1, NumberedStep, OwnedStep
  <1>4. ASSUME NEW r \in Readers, Request(r) \/ Handler(r)
        PROVE  Locking(also)' /\ Showing(also)'
    BY <1>1, <1>2, <1>4, HandlerQuiet, QuietKeeps, SessionKeeps, BuildOpenKeeps,
       BuildFinishKeeps, BuildFailsKeeps DEF Handler
  <1>5. ASSUME NEW w \in Workers, Reconcile(w)
        PROVE  Locking(also)' /\ Showing(also)'
    BY <1>1, <1>2, <1>5, InvalidatingSteps, InvalidatesKeeps, RecOpenKeeps, RecFinishKeeps
       DEF Reconcile
  <1>6. ASSUME Flush \/ ApplyReply \/ WatcherError \/ LoopsEnd \/ StartWatch
        PROVE  Locking(also)' /\ Showing(also)'
    BY <1>1, <1>2, <1>6, WatchQuiet, QuietKeeps
  <1>7. ASSUME MarkStale \/ Resync
        PROVE  Locking(also)' /\ Showing(also)'
    BY <1>1, <1>2, <1>7, InvalidatingSteps, InvalidatesKeeps
  <1>8. ASSUME Disk
        PROVE  Locking(also)' /\ Showing(also)'
    BY <1>1, <1>2, <1>8, DiskQuiet, QuietKeeps
  <1>9. ASSUME UNCHANGED vars
        PROVE  Locking(also)' /\ Showing(also)'
    <2>1. Quiet(also)
      <3>1. FieldTypes(also)
        BY <1>1, Fields
      <3>2. /\ rs' = rs /\ op' = op /\ rd' = rd /\ wk' = wk /\ index' = index
            /\ history' = history /\ announced' = announced /\ acks' = acks
        BY <1>9 DEF vars, files, clients
      <3>3. Promised(also)' = Promised(also) /\ Version' = Version
        BY <3>2, PromisedSame DEF Version
      <3>4. \A w \in Workers : wk[w].covers <= Version
        BY <1>1 DEF Locking, InRange
      <3> QED BY <3>1, <3>2, <3>3, <3>4 DEF Quiet, IndexGrows, StaysNext, FieldTypes
    <2> QED BY <1>1, <1>2, <2>1, QuietKeeps
  <1>10. Locking(also)' /\ Showing(also)'
    BY <1>4, <1>5, <1>6, <1>7, <1>8, <1>9 DEF Next, Restart
  <1> QED BY <1>2, <1>3, <1>10 DEF IInv

\* What is promised up to the stamp of a reply is in the version the reply shows.
LEMMA InvCovers ==
  ASSUME NEW also \in SUBSET {Applier}, IInv(also)
  PROVE  /\ StampCovers
         /\ Applier \in also => ApplyCovers
  <1>1. FieldTypes(also)
    BY Fields DEF IInv
  <1>2. ASSUME NEW r \in Readers, rd[r].memo, NEW f \in Told(also), f.gen <= rd[r].token.gen
        PROVE  AsNew(rd[r].at, f.covers)
    <2>1. f \in Promised(also)
      BY DEF Promised
    <2>2. rd[r].at \in 1..Version
      BY <1>2 DEF IInv, Locking, InRange
    <2>3. f.covers <= rd[r].at /\ f.covers \in Nat
      BY <1>1, <1>2, <2>1 DEF IInv, Showing, SnapshotsShow, Shows, FieldTypes
    <2>4. rd[r].at \in f.covers..Version
      BY <1>1, <2>2, <2>3 DEF FieldTypes
    <2> QED BY <2>4 DEF AsNew
  <1> QED BY <1>2 DEF StampCovers, ApplyCovers, Told

\* If no edit restores an earlier content of the bundle, every reply from a
\* memoized snapshot shows what frames announced up to the generation it is stamped
\* with, for any number of handlers, flushes, layouts, failures and restarts.
THEOREM StampCoversAlways == (~Reverts /\ Spec) => []StampCovers
  <1> SUFFICES ASSUME ~Reverts PROVE Spec => []StampCovers
    OBVIOUS
  <1> DEFINE also == {}
  <1>a. also \in SUBSET {Applier} /\ Applier \notin also
    OBVIOUS
  <1> HIDE DEF also
  <1>1. IInv(also) /\ [Next]_vars => IInv(also)'
    BY <1>a, NextKeeps
  <1>2. Init => IInv(also)
    BY <1>a, InitHolds
  <1>3. IInv(also) => StampCovers
    BY <1>a, InvCovers
  <1> QED BY <1>1, <1>2, <1>3, PTL DEF Spec

\* If besides no apply is inside _reconcile while the watcher is between
\* mark_stale() and advance("resync"), every reply from a memoized snapshot stamped
\* with the generation of an apply's reply, or a later one, shows what the apply
\* wrote, whatever else fails, moves or interleaves.
THEOREM ApplyCoversAlways == (~Reverts /\ Spec /\ []Undisturbed) => []ApplyCovers
  <1> SUFFICES ASSUME ~Reverts PROVE Spec /\ []Undisturbed => []ApplyCovers
    OBVIOUS
  <1> DEFINE also == {Applier}
  <1>a. also \in SUBSET {Applier} /\ Applier \in also
    OBVIOUS
  <1> HIDE DEF also
  <1>1. IInv(also) /\ [Next]_vars /\ Undisturbed /\ Undisturbed' => IInv(also)'
    BY <1>a, NextKeeps
  <1>2. Init => IInv(also)
    BY <1>a, InitHolds
  <1>3. IInv(also) => ApplyCovers
    BY <1>a, InvCovers
  <1> QED BY <1>1, <1>2, <1>3, PTL DEF Spec
=============================================================================

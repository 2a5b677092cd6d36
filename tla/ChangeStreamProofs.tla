------------------------- MODULE ChangeStreamProofs -------------------------
(***************************************************************************)
(* For any clients, queue size and number of broadcasts: the queues keep   *)
(* their type and their bound, and no open stream has a gap.  NoGap is not *)
(* inductive as it stands: that a broadcast reaches every open stream, and *)
(* reaches it before its end marker, needs Marked.                         *)
(***************************************************************************)
EXTENDS ChangeStream, SequenceTheorems, TLAPS

Items == Message \cup {End}

\* The end marker is in a queue exactly when the hub is closed, and last; until
\* then every open stream is subscribed.
Marked ==
    \A c \in Clients : stream[c] = "open" =>
       /\ closed => queue[c] # <<>> /\ queue[c][Len(queue[c])] = End
       /\ ~closed => c \in subscribed /\ \A i \in DOMAIN queue[c] : queue[c][i] # End

\* A queue q leads without a gap from number k to number s, or ends.
Leads(q, k, s) ==
    /\ \A i \in DOMAIN q : q[i] = End => i = Len(q)
    /\ \A i \in DOMAIN q : q[i].kind = "changes" =>
          q[i].seq = (IF i = 1 THEN k ELSE q[i - 1].seq) + 1
    /\ \/ q # <<>> /\ q[Len(q)] = End
       \/ (IF q = <<>> THEN k ELSE q[Len(q)].seq) = s

IInv == TypeOK /\ Bounded /\ Marked /\ NoGap

LEMMA NoGapIsLeads ==
  NoGap <=> \A c \in Clients : stream[c] = "open" => Leads(queue[c], known[c], seq)
BY DEF NoGap, Leads

\* What _offer leaves of a queue of messages is one, within the bound.
LEMMA OfferBounded ==
  ASSUME NEW q \in Seq(Items), NEW item \in Items, NEW overflow \in Message,
         Len(q) <= QueueSize
  PROVE  /\ Offer(q, item, overflow) \in Seq(Items)
         /\ Len(Offer(q, item, overflow)) <= QueueSize
BY ChangeStreamAssumption, SMTT(20) DEF Offer, Items

\* Offering the next number to a queue that leads to s leads to s + 1.
LEMMA OfferLeads ==
  ASSUME NEW q \in Seq(Items), NEW k \in Nat, NEW s \in Nat,
         NEW kind \in {"changes", "resync"},
         Leads(q, k, s), \A i \in DOMAIN q : q[i] # End
  PROVE  LET item == [kind |-> kind, seq |-> s + 1]
             p == Offer(q, item, [kind |-> "resync", seq |-> s + 1])
         IN  Leads(p, k, s + 1) /\ \A i \in DOMAIN p : p[i] # End
<1> DEFINE item == [kind |-> kind, seq |-> s + 1]
           overflow == [kind |-> "resync", seq |-> s + 1]
<1>1. item \in Items /\ overflow \in Items /\ item # End /\ overflow # End
  BY DEF Items, Message, End
<1>2. CASE Len(q) < QueueSize
  <2>1. Offer(q, item, overflow) = Append(q, item)
    BY <1>2 DEF Offer
  <2> DEFINE p == Append(q, item)
  <2>2. /\ Len(p) = Len(q) + 1 /\ p[Len(q) + 1] = item
        /\ DOMAIN p = 1..(Len(q) + 1) /\ DOMAIN q = 1..Len(q)
        /\ \A i \in DOMAIN q : p[i] = q[i]
        /\ p # <<>>
    BY <1>1
  <2>3. \A i \in DOMAIN p : p[i] # End
    BY <1>1, <2>2
  <2>4. (IF Len(q) = 0 THEN k ELSE q[Len(q)].seq) = s
    BY <2>2 DEF Leads
  <2>5. \A i \in DOMAIN p : p[i].kind = "changes" =>
           p[i].seq = (IF i = 1 THEN k ELSE p[i - 1].seq) + 1
    <3> SUFFICES ASSUME NEW i \in DOMAIN p, p[i].kind = "changes"
                 PROVE  p[i].seq = (IF i = 1 THEN k ELSE p[i - 1].seq) + 1
      OBVIOUS
    <3>1. CASE i \in DOMAIN q
      <4>1. i # 1 => i - 1 \in DOMAIN q
        BY <3>1, <2>2
      <4> QED
        BY <3>1, <4>1, <2>2 DEF Leads
    <3>2. CASE i = Len(q) + 1
      <4>1. p[i].seq = s + 1
        BY <3>2, <2>2
      <4>2. Len(q) # 0 => Len(q) \in DOMAIN q /\ p[Len(q)] = q[Len(q)]
        <5>1. Len(q) \in Nat
          OBVIOUS
        <5>2. Len(q) # 0 => Len(q) \in DOMAIN q
          BY <5>1, <2>2
        <5> QED
          BY <5>2, <2>2
      <4>3. Len(q) \in Nat /\ (i = 1 <=> Len(q) = 0) /\ i - 1 = Len(q)
        BY <3>2
      <4>4. (IF i = 1 THEN k ELSE p[i - 1].seq) = s
        BY <4>2, <4>3, <2>4
      <4> QED
        BY <4>1, <4>4
    <3> QED
      BY <3>1, <3>2, <2>2
  <2>6. p[Len(p)].seq = s + 1
    BY <2>2
  <2> QED
    BY <2>1, <2>2, <2>3, <2>5, <2>6 DEF Leads
<1>3. CASE ~(Len(q) < QueueSize)
  <2>1. Offer(q, item, overflow) = <<overflow>>
    BY <1>1, <1>3 DEF Offer
  <2>2. /\ DOMAIN <<overflow>> = {1} /\ Len(<<overflow>>) = 1
        /\ <<overflow>>[1] = overflow /\ <<overflow>> # <<>>
    OBVIOUS
  <2>3. overflow.kind # "changes" /\ overflow.seq = s + 1
    OBVIOUS
  <2>4. Leads(<<overflow>>, k, s + 1)
    BY <1>1, <2>2, <2>3 DEF Leads
  <2>5. \A i \in DOMAIN <<overflow>> : <<overflow>>[i] # End
    BY <1>1, <2>2
  <2> QED
    BY <2>1, <2>4, <2>5
<1> QED
  BY <1>2, <1>3

\* Offering the end to a queue without one leads anywhere.
LEMMA OfferEnd ==
  ASSUME NEW q \in Seq(Items), NEW k \in Nat, NEW s \in Nat, NEW overflow,
         Leads(q, k, s), \A i \in DOMAIN q : q[i] # End
  PROVE  LET p == Offer(q, End, overflow)
         IN  Leads(p, k, s) /\ p # <<>> /\ p[Len(p)] = End
<1>1. End \in Items /\ End.kind # "changes"
  BY DEF Items, End
<1>2. CASE Len(q) < QueueSize
  <2>1. Offer(q, End, overflow) = Append(q, End)
    BY <1>2 DEF Offer
  <2> DEFINE p == Append(q, End)
  <2>2. /\ Len(p) = Len(q) + 1 /\ p[Len(q) + 1] = End
        /\ DOMAIN p = 1..(Len(q) + 1) /\ DOMAIN q = 1..Len(q)
        /\ \A i \in DOMAIN q : p[i] = q[i]
        /\ p # <<>>
    BY <1>1
  <2>3. \A i \in DOMAIN p : p[i].kind = "changes" =>
           p[i].seq = (IF i = 1 THEN k ELSE p[i - 1].seq) + 1
    <3> SUFFICES ASSUME NEW i \in DOMAIN p, p[i].kind = "changes"
                 PROVE  p[i].seq = (IF i = 1 THEN k ELSE p[i - 1].seq) + 1
      OBVIOUS
    <3>1. i \in DOMAIN q
      BY <1>1, <2>2
    <3>2. i # 1 => i - 1 \in DOMAIN q
      BY <3>1, <2>2
    <3> QED
      BY <3>1, <3>2, <2>2 DEF Leads
  <2> QED
    BY <2>1, <2>2, <2>3 DEF Leads
<1>3. CASE ~(Len(q) < QueueSize)
  <2>1. Offer(q, End, overflow) = <<End>>
    BY <1>3 DEF Offer
  <2>2. DOMAIN <<End>> = {1} /\ Len(<<End>>) = 1 /\ <<End>>[1] = End /\ <<End>> # <<>>
    OBVIOUS
  <2> QED
    BY <1>1, <2>1, <2>2 DEF Leads
<1> QED
  BY <1>2, <1>3

\* What Head and Tail take and leave.
LEMMA TailFacts ==
  ASSUME NEW q \in Seq(Items), q # <<>>
  PROVE  /\ Head(q) = q[1] /\ Head(q) \in Items /\ Tail(q) \in Seq(Items)
         /\ Len(q) \in Nat \ {0} /\ Len(Tail(q)) = Len(q) - 1
         /\ DOMAIN q = 1..Len(q) /\ DOMAIN Tail(q) = 1..(Len(q) - 1)
         /\ \A i \in DOMAIN Tail(q) : Tail(q)[i] = q[i + 1] /\ i + 1 \in DOMAIN q
         /\ Tail(q) = <<>> <=> Len(q) = 1
<1>1. Len(q) \in Nat \ {0} /\ DOMAIN q = 1..Len(q) /\ Head(q) = q[1]
  OBVIOUS
<1>2. Head(q) \in Items /\ Tail(q) \in Seq(Items) /\ Len(Tail(q)) = Len(q) - 1
  OBVIOUS
<1>3. DOMAIN Tail(q) = 1..(Len(q) - 1)
  BY <1>1, <1>2
<1>4. \A i \in DOMAIN Tail(q) : Tail(q)[i] = q[i + 1] /\ i + 1 \in DOMAIN q
  BY <1>1, <1>3
<1>5. Tail(q) = <<>> <=> Len(q) = 1
  <2>1. Tail(q) = <<>> <=> Len(Tail(q)) = 0
    <3>1. Tail(q) = <<>> => Len(Tail(q)) = 0
      <4> HAVE Tail(q) = <<>>
      <4> QED
        BY EmptySeq, Zenon
    <3>2. Tail(q) # <<>> => Len(Tail(q)) # 0
      BY <1>2, EmptySeq
    <3> QED
      BY <3>1, <3>2
  <2> QED
    BY <2>1, <1>1, <1>2
<1> QED
  BY <1>1, <1>2, <1>3, <1>4, <1>5

\* Taking the head of a queue that leads from k leaves one that leads from
\* the head's number.
LEMMA TailLeads ==
  ASSUME NEW q \in Seq(Items), NEW k \in Nat, NEW s \in Nat,
         Leads(q, k, s), q # <<>>, Head(q) # End
  PROVE  Leads(Tail(q), Head(q).seq, s)
<1> DEFINE p == Tail(q)
<1>1. /\ Head(q) = q[1] /\ p \in Seq(Items) /\ Len(p) = Len(q) - 1 /\ Len(q) \in Nat \ {0}
      /\ DOMAIN q = 1..Len(q) /\ DOMAIN p = 1..Len(p)
      /\ \A i \in DOMAIN p : p[i] = q[i + 1] /\ i + 1 \in DOMAIN q
      /\ p = <<>> <=> Len(p) = 0
  BY TailFacts
<1>2. \A i \in DOMAIN p : p[i] = End => i = Len(p)
  BY <1>1 DEF Leads
<1>3. \A i \in DOMAIN p : p[i].kind = "changes" =>
         p[i].seq = (IF i = 1 THEN Head(q).seq ELSE p[i - 1].seq) + 1
  <2> SUFFICES ASSUME NEW i \in DOMAIN p, p[i].kind = "changes"
               PROVE  p[i].seq = (IF i = 1 THEN Head(q).seq ELSE p[i - 1].seq) + 1
    OBVIOUS
  <2>1. q[i + 1].seq = q[i].seq + 1
    <3>1. i + 1 \in DOMAIN q /\ q[i + 1].kind = "changes" /\ i + 1 # 1 /\ (i + 1) - 1 = i
      BY <1>1
    <3> QED
      BY <3>1 DEF Leads
  <2>2. i # 1 => p[i - 1] = q[i]
    <3> HAVE i # 1
    <3>1. i - 1 \in DOMAIN p /\ (i - 1) + 1 = i
      BY <1>1
    <3> QED
      BY <3>1, <1>1
  <2> QED
    BY <2>1, <2>2, <1>1
<1>4. \/ p # <<>> /\ p[Len(p)] = End
      \/ (IF p = <<>> THEN Head(q).seq ELSE p[Len(p)].seq) = s
  <2>1. CASE Len(q) = 1
    BY <2>1, <1>1 DEF Leads
  <2>2. CASE Len(q) # 1
    <3>1. Len(p) \in DOMAIN p /\ p # <<>> /\ p[Len(p)] = q[Len(q)]
      BY <2>2, <1>1
    <3> QED
      BY <3>1 DEF Leads
  <2> QED
    BY <2>1, <2>2
<1> QED
  BY <1>2, <1>3, <1>4 DEF Leads

LEMMA InitIInv == Init => IInv
<1> SUFFICES ASSUME Init PROVE IInv
  OBVIOUS
<1>1. <<>> \in Seq(Message \cup {End}) /\ Len(<<>>) = 0
  OBVIOUS
<1>2. TypeOK
  BY <1>1 DEF Init, TypeOK
<1>3. \A c \in Clients : stream[c] = "out" /\ c \notin subscribed
  BY DEF Init
<1>4. \A c \in Clients : Len(queue[c]) <= QueueSize
  <2> TAKE c \in Clients
  <2>1. queue[c] = <<>>
    BY DEF Init
  <2>2. Len(queue[c]) = 0
    BY <2>1, <1>1, Zenon
  <2> QED
    BY <2>2, ChangeStreamAssumption
<1> QED
  BY <1>2, <1>3, <1>4 DEF IInv, Bounded, Marked, NoGap

\* A broadcast keeps the queues' type and bound.
LEMMA BroadcastType ==
  ASSUME TypeOK, Bounded, NEW item \in Items, NEW n \in Nat, Broadcast(item, n)
  PROVE  /\ queue' \in [Clients -> Seq(Items)]
         /\ \A c \in Clients : Len(queue'[c]) <= QueueSize
<1>1. [kind |-> "resync", seq |-> n] \in Message
  BY DEF Message
<1>2. \A c \in Clients : queue[c] \in Seq(Items) /\ Len(queue[c]) <= QueueSize
  BY DEF TypeOK, Bounded, Items
<1>3. \A c \in Clients :
        LET q == Offer(queue[c], item, [kind |-> "resync", seq |-> n])
        IN  q \in Seq(Items) /\ Len(q) <= QueueSize
  BY <1>1, <1>2, OfferBounded
<1> QED
  BY <1>2, <1>3 DEF Broadcast

LEMMA PublishKeeps ==
  ASSUME IInv, NEW kind \in {"changes", "resync"}, Publish(kind)
  PROVE  IInv'
<1> DEFINE item == [kind |-> kind, seq |-> seq + 1]
<1> USE DEF IInv
<1>1. seq + 1 \in Nat /\ item \in Items
  BY DEF TypeOK, Items, Message
<1>2. /\ queue' \in [Clients -> Seq(Items)]
      /\ \A c \in Clients : Len(queue'[c]) <= QueueSize
  BY <1>1, BroadcastType DEF Publish
<1>3. TypeOK' /\ Bounded'
  BY <1>1, <1>2 DEF TypeOK, Bounded, Publish, Items
<1>4. ASSUME NEW c \in Clients, stream[c] = "open"
      PROVE  Leads(queue'[c], known[c], seq + 1) /\ \A i \in DOMAIN queue'[c] : queue'[c][i] # End
  <2>1. /\ queue[c] \in Seq(Items) /\ known[c] \in Nat /\ seq \in Nat
        /\ Leads(queue[c], known[c], seq) /\ \A i \in DOMAIN queue[c] : queue[c][i] # End
        /\ c \in subscribed
    BY <1>4, NoGapIsLeads DEF TypeOK, Marked, Publish, Items
  <2>2. queue'[c] = Offer(queue[c], item, [kind |-> "resync", seq |-> seq + 1])
    BY <2>1 DEF Publish, Broadcast
  <2> QED
    BY <2>1, <2>2, OfferLeads
<1>5. Marked'
  BY <1>4 DEF Marked, Publish
<1>6. NoGap'
  BY <1>4 DEF NoGap, Leads, Publish
<1> QED
  BY <1>3, <1>5, <1>6

LEMMA CloseKeeps ==
  ASSUME IInv, Close
  PROVE  IInv'
<1> USE DEF IInv
<1>1. seq \in Nat /\ End \in Items
  BY DEF TypeOK, Items
<1>2. /\ queue' \in [Clients -> Seq(Items)]
      /\ \A c \in Clients : Len(queue'[c]) <= QueueSize
  BY <1>1, BroadcastType DEF Close
<1>3. TypeOK' /\ Bounded'
  BY <1>1, <1>2 DEF TypeOK, Bounded, Close, Items
<1>4. ASSUME NEW c \in Clients, stream[c] = "open"
      PROVE  Leads(queue'[c], known[c], seq) /\ queue'[c] # <<>> /\ queue'[c][Len(queue'[c])] = End
  <2>1. /\ queue[c] \in Seq(Items) /\ known[c] \in Nat /\ seq \in Nat
        /\ Leads(queue[c], known[c], seq) /\ \A i \in DOMAIN queue[c] : queue[c][i] # End
        /\ c \in subscribed
    BY <1>4, NoGapIsLeads DEF TypeOK, Marked, Close, Items
  <2>2. queue'[c] = Offer(queue[c], End, [kind |-> "resync", seq |-> seq])
    BY <2>1 DEF Close, Broadcast
  <2> QED
    BY <2>1, <2>2, OfferEnd
<1>5. Marked'
  BY <1>4 DEF Marked, Close
<1>6. NoGap'
  BY <1>4 DEF NoGap, Leads, Close
<1> QED
  BY <1>3, <1>5, <1>6

LEMMA ConnectKeeps ==
  ASSUME IInv, NEW c \in Clients, Connect(c)
  PROVE  IInv'
<1> USE DEF IInv
<1>1. /\ <<>> \in Seq(Items) /\ <<End>> \in Seq(Items) /\ <<End>> # <<>>
      /\ Len(<<>>) = 0 /\ Len(<<End>>) = 1 /\ DOMAIN <<End>> = {1} /\ <<End>>[1] = End
      /\ End.kind # "changes" /\ DOMAIN <<>> = {}
  BY DEF Items, End
<1>2. queue' \in [Clients -> Seq(Items)]
  BY <1>1 DEF Connect, TypeOK, Items
<1>3. TypeOK'
  <2>1. connects' \in [Clients -> Nat]
    BY DEF Connect, TypeOK
  <2> QED
    BY <1>2, <2>1 DEF Connect, TypeOK, Items
<1>4. queue'[c] = (IF closed THEN <<End>> ELSE <<>>) /\ \A x \in Clients \ {c} : queue'[x] = queue[x]
  BY DEF Connect, TypeOK
<1>5. Bounded'
  BY <1>1, <1>4, ChangeStreamAssumption DEF Bounded, Connect, TypeOK
<1>6. Marked'
  BY <1>1, <1>4 DEF Marked, Connect, TypeOK
<1>7. NoGap'
  <2> SUFFICES ASSUME NEW x \in Clients, stream'[x] = "open"
               PROVE  Leads(queue'[x], known'[x], seq')
    BY DEF NoGap, Leads
  <2>1. CASE x = c
    <3>1. known'[c] = seq /\ seq' = seq
      BY DEF Connect, TypeOK
    <3> QED
      BY <2>1, <3>1, <1>1, <1>4 DEF Leads
  <2>2. CASE x # c
    <3>1. stream[x] = "open" /\ queue'[x] = queue[x] /\ known'[x] = known[x] /\ seq' = seq
      BY <2>2, <1>4 DEF Connect, TypeOK
    <3> QED
      BY <3>1, NoGapIsLeads
  <2> QED
    BY <2>1, <2>2
<1> QED
  BY <1>3, <1>5, <1>6, <1>7

LEMMA DeliverKeeps ==
  ASSUME IInv, NEW c \in Clients, Deliver(c)
  PROVE  IInv'
<1> USE DEF IInv
<1>1. /\ queue[c] \in Seq(Items) /\ queue[c] # <<>> /\ known[c] \in Nat /\ seq \in Nat
      /\ Leads(queue[c], known[c], seq) /\ stream[c] = "open"
  BY NoGapIsLeads DEF Deliver, TypeOK, Items
<1>2. /\ Tail(queue[c]) \in Seq(Items) /\ Len(Tail(queue[c])) = Len(queue[c]) - 1
      /\ Len(queue[c]) \in Nat \ {0}
      /\ Head(queue[c]) = queue[c][1] /\ Head(queue[c]) \in Items
      /\ \A i \in DOMAIN Tail(queue[c]) : Tail(queue[c])[i] = queue[c][i + 1] /\ i + 1 \in DOMAIN queue[c]
      /\ DOMAIN queue[c] = 1..Len(queue[c])
      /\ DOMAIN Tail(queue[c]) = 1..(Len(queue[c]) - 1)
      /\ Tail(queue[c]) = <<>> <=> Len(queue[c]) = 1
  BY <1>1, TailFacts
<1>3. /\ queue' \in [Clients -> Seq(Items)]
      /\ queue'[c] = Tail(queue[c]) /\ \A x \in Clients \ {c} : queue'[x] = queue[x]
  BY <1>2 DEF Deliver, TypeOK, Items
<1>4. Head(queue[c]) # End => Head(queue[c]).seq \in Nat
  BY <1>2 DEF Items, Message
<1>5. TypeOK'
  <2>1. known' \in [Clients -> Nat]
    BY <1>4 DEF Deliver, TypeOK
  <2> QED
    BY <1>3, <2>1 DEF Deliver, Ended, TypeOK, Items
<1>6. Bounded'
  <2> SUFFICES ASSUME NEW x \in Clients
               PROVE  Len(queue'[x]) <= QueueSize /\ (x \in subscribed' => stream'[x] = "open")
    BY DEF Bounded
  <2>1. Len(queue'[x]) <= QueueSize
    BY <1>2, <1>3, ChangeStreamAssumption DEF Bounded
  <2>2. x \in subscribed' => stream'[x] = "open"
    BY DEF Bounded, Deliver, Ended, TypeOK
  <2> QED
    BY <2>1, <2>2
<1>7. ASSUME stream'[c] = "open"
      PROVE  /\ Head(queue[c]) # End /\ known'[c] = Head(queue[c]).seq
             /\ stream' = stream /\ subscribed' = subscribed
  BY <1>7 DEF Deliver, Ended, TypeOK
<1>8. \A x \in Clients \ {c} : known'[x] = known[x] /\ stream'[x] = stream[x]
                               /\ (x \in subscribed => x \in subscribed')
  BY DEF Deliver, Ended, TypeOK
<1>9. closed' = closed /\ seq' = seq
  BY DEF Deliver
<1>10. Marked'
  <2> SUFFICES ASSUME NEW x \in Clients, stream'[x] = "open"
               PROVE  /\ closed => queue'[x] # <<>> /\ queue'[x][Len(queue'[x])] = End
                      /\ ~closed => /\ x \in subscribed'
                                    /\ \A i \in DOMAIN queue'[x] : queue'[x][i] # End
    BY <1>9 DEF Marked
  <2>1. CASE x = c
    <3>1. Head(queue[c]) # End /\ subscribed' = subscribed
      BY <2>1, <1>7
    <3>2. closed => queue[c][Len(queue[c])] = End
      BY <1>1 DEF Marked
    <3>3. closed => Len(queue[c]) # 1
      BY <3>1, <3>2, <1>2
    <3>4. closed => queue'[c] # <<>> /\ queue'[c][Len(queue'[c])] = End
      <4> HAVE closed
      <4>1. Len(queue[c]) - 1 \in DOMAIN Tail(queue[c]) /\ (Len(queue[c]) - 1) + 1 = Len(queue[c])
        BY <3>3, <1>2
      <4>2. Tail(queue[c])[Len(queue[c]) - 1] = queue[c][Len(queue[c])]
        BY <4>1, <1>2
      <4> QED
        BY <4>2, <3>2, <3>3, <1>2, <1>3
    <3>5. ~closed => c \in subscribed' /\ \A i \in DOMAIN queue'[c] : queue'[c][i] # End
      BY <3>1, <1>1, <1>2, <1>3 DEF Marked
    <3> QED
      BY <2>1, <3>4, <3>5
  <2>2. CASE x # c
    BY <2>2, <1>3, <1>8 DEF Marked
  <2> QED
    BY <2>1, <2>2
<1>11. NoGap'
  <2> SUFFICES ASSUME NEW x \in Clients, stream'[x] = "open"
               PROVE  Leads(queue'[x], known'[x], seq')
    BY DEF NoGap, Leads
  <2>1. CASE x = c
    BY <2>1, <1>1, <1>3, <1>7, <1>9, TailLeads
  <2>2. CASE x # c
    BY <2>2, <1>3, <1>8, <1>9, NoGapIsLeads
  <2> QED
    BY <2>1, <2>2
<1> QED
  BY <1>5, <1>6, <1>10, <1>11

LEMMA LeaveKeeps ==
  ASSUME IInv, NEW c \in Clients, HangUp(c) \/ NoticeGone(c)
  PROVE  IInv'
<1> USE DEF IInv
<1>1. TypeOK'
  BY DEF TypeOK, HangUp, NoticeGone, Ended
<1>2. queue' = queue /\ known' = known /\ seq' = seq /\ closed' = closed
  BY DEF HangUp, NoticeGone
<1>3. \A x \in Clients : stream'[x] = "open" =>
         stream[x] = "open" /\ (x \in subscribed => x \in subscribed')
  BY DEF TypeOK, HangUp, NoticeGone, Ended
<1>4. \A x \in Clients : x \in subscribed' => stream'[x] = "open"
  BY DEF Bounded, TypeOK, HangUp, NoticeGone, Ended
<1>5. Bounded' /\ Marked' /\ NoGap'
  BY <1>2, <1>3, <1>4 DEF Bounded, Marked, NoGap
<1> QED
  BY <1>1, <1>5

LEMMA StepIInv == IInv /\ [Next]_vars => IInv'
<1> SUFFICES ASSUME IInv, [Next]_vars PROVE IInv'
  OBVIOUS
<1>1. CASE UNCHANGED vars
  BY <1>1 DEF IInv, TypeOK, Bounded, Marked, NoGap, vars
<1>2. CASE Next
  BY <1>2, PublishKeeps, CloseKeeps, ConnectKeeps, DeliverKeeps, LeaveKeeps DEF Next
<1> QED
  BY <1>1, <1>2

LEMMA Inductive == Spec => []IInv
BY InitIInv, StepIInv, PTL DEF Spec

\* Every queue of the hub holds numbered messages and ends only.
THEOREM TypeCorrect == Spec => []TypeOK
<1>1. IInv => TypeOK
  BY DEF IInv
<1> QED
  BY Inductive, <1>1, PTL

\* No open stream ever has a gap that no resync covers (_offer, _broadcast,
\* event_stream).
THEOREM NoGapAlways == Spec => []NoGap
<1>1. IInv => NoGap
  BY DEF IInv
<1> QED
  BY Inductive, <1>1, PTL

\* Queues stay within QUEUE_SIZE and a finished connection is unsubscribed.
THEOREM BoundedAlways == Spec => []Bounded
<1>1. IInv => Bounded
  BY DEF IInv
<1> QED
  BY Inductive, <1>1, PTL
=============================================================================

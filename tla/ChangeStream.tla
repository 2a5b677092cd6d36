---------------------------- MODULE ChangeStream ----------------------------
(***************************************************************************)
(* The change stream of gw-serve: one hub that numbers what it broadcasts, *)
(* one bounded queue per connection, one generator per connection that     *)
(* turns the queue into Server-Sent Events (hub.py, sse.py).  There is no  *)
(* replay: a client that reads "ready" or "resync" fetches everything      *)
(* again, one that reads "changes" fetches what the frame names.  All of   *)
(* it runs on one event loop, so an action is what happens between two     *)
(* awaits.                                                                 *)
(***************************************************************************)
EXTENDS Naturals, Sequences

CONSTANTS Clients,      \* connections, each may be made again
          QueueSize,    \* Hub.QUEUE_SIZE
          MaxSeq,       \* bound: broadcasts
          MaxConnects   \* bound: connections of a client

ASSUME ChangeStreamAssumption ==
    QueueSize \in Nat \ {0} /\ MaxSeq \in Nat /\ MaxConnects \in Nat

VARIABLES seq,          \* Hub._seq
          closed,       \* Hub._closed
          subscribed,   \* Hub._subscribers
          stream,       \* "out" or "open"
          queue,        \* Subscription._queue of each connection
          known,        \* seq of the last frame the client acted on
          gone,         \* clients that hung up, which the server may not know
          connects      \* connections made

vars == <<seq, closed, subscribed, stream, queue, known, gone, connects>>

End == [kind |-> "end", seq |-> 0]

Message == [kind : {"changes", "resync"}, seq : Nat]

Init ==
    /\ seq = 0
    /\ closed = FALSE
    /\ subscribed = {}
    /\ stream = [c \in Clients |-> "out"]
    /\ queue = [c \in Clients |-> <<>>]
    /\ known = [c \in Clients |-> 0]
    /\ gone = {}
    /\ connects = [c \in Clients |-> 0]

\* Mutant: a full queue loses the item and nothing is put in its place.
OfferDropping(q, item, overflow) ==
    IF Len(q) >= QueueSize THEN q ELSE Append(q, item)

\* Mutant: the resync that stands for a full queue carries no number.
OfferUnnumbered(q, item, overflow) ==
    IF Len(q) < QueueSize THEN Append(q, item)
    ELSE IF item = End THEN <<End>> ELSE <<[kind |-> overflow.kind]>>

\* _offer: a full queue is emptied and holds one resync instead, or the end.
Offer(q, item, overflow) ==
    IF Len(q) < QueueSize THEN Append(q, item)
    ELSE IF item = End THEN <<End>> ELSE <<overflow>>

\* _broadcast, of an item numbered n.
Broadcast(item, n) ==
    queue' = [c \in Clients |->
                IF c \in subscribed
                THEN Offer(queue[c], item, [kind |-> "resync", seq |-> n])
                ELSE queue[c]]

\* publish (a batch of events) and resync (the watcher was away).
Publish(kind) ==
    /\ ~closed
    /\ seq < MaxSeq
    /\ seq' = seq + 1
    /\ Broadcast([kind |-> kind, seq |-> seq + 1], seq + 1)
    /\ UNCHANGED <<closed, subscribed, stream, known, gone, connects>>

Close ==
    /\ ~closed
    /\ closed' = TRUE
    /\ Broadcast(End, seq)
    /\ UNCHANGED <<seq, subscribed, stream, known, gone, connects>>

\* Mutant: a closed hub takes subscribers like an open one.
ConnectLate(c) ==
    /\ stream[c] = "out"
    /\ connects[c] < MaxConnects
    /\ connects' = [connects EXCEPT ![c] = @ + 1]
    /\ subscribed' = subscribed \cup {c}
    /\ queue' = [queue EXCEPT ![c] = <<>>]
    /\ known' = [known EXCEPT ![c] = seq]
    /\ stream' = [stream EXCEPT ![c] = "open"]
    /\ gone' = gone \ {c}
    /\ UNCHANGED <<seq, closed>>

\* A request for /v1/events: the generator subscribes and yields "ready" with
\* the hub's number in one go; the frame reaches the client later.
Connect(c) ==
    /\ stream[c] = "out"
    /\ connects[c] < MaxConnects
    /\ connects' = [connects EXCEPT ![c] = @ + 1]
    /\ subscribed' = IF closed THEN subscribed ELSE subscribed \cup {c}
    /\ queue' = [queue EXCEPT ![c] = IF closed THEN <<End>> ELSE <<>>]
    /\ known' = [known EXCEPT ![c] = seq]
    /\ stream' = [stream EXCEPT ![c] = "open"]
    /\ gone' = gone \ {c}
    /\ UNCHANGED <<seq, closed>>

\* Mutant: the generator returns without its finally clause.
EndedKeeps(c) ==
    /\ stream' = [stream EXCEPT ![c] = "out"]
    /\ UNCHANGED subscribed

\* event_stream's finally clause: unsubscribe.
Ended(c) ==
    /\ stream' = [stream EXCEPT ![c] = "out"]
    /\ subscribed' = subscribed \ {c}

\* Mutant: a lone message waits for a second one.
DeliverPairs(c) ==
    /\ stream[c] = "open"
    /\ Len(queue[c]) >= IF closed THEN 1 ELSE 2
    /\ queue' = [queue EXCEPT ![c] = Tail(@)]
    /\ \/ /\ Head(queue[c]) = End
          /\ Ended(c)
          /\ UNCHANGED known
       \/ /\ Head(queue[c]) # End
          /\ known' = [known EXCEPT ![c] = Head(queue[c]).seq]
          /\ UNCHANGED <<stream, subscribed>>
    /\ UNCHANGED <<seq, closed, gone, connects>>

\* The generator takes the next message and yields its frame, or returns.
Deliver(c) ==
    /\ stream[c] = "open"
    /\ queue[c] # <<>>
    /\ queue' = [queue EXCEPT ![c] = Tail(@)]
    /\ \/ /\ Head(queue[c]) = End
          /\ Ended(c)
          /\ UNCHANGED known
       \/ /\ Head(queue[c]) # End
          /\ known' = [known EXCEPT ![c] = Head(queue[c]).seq]
          /\ UNCHANGED <<stream, subscribed>>
    /\ UNCHANGED <<seq, closed, gone, connects>>

HangUp(c) ==
    /\ stream[c] = "open"
    /\ gone' = gone \cup {c}
    /\ UNCHANGED <<seq, closed, subscribed, stream, queue, known, connects>>

\* A quiet interval passes and the client is found gone, or a frame cannot be
\* sent and the generator is closed: either way it unsubscribes.
NoticeGone(c) ==
    /\ stream[c] = "open"
    /\ c \in gone
    /\ Ended(c)
    /\ UNCHANGED <<seq, closed, queue, known, gone, connects>>

Next ==
    \/ \E kind \in {"changes", "resync"} : Publish(kind)
    \/ Close
    \/ \E c \in Clients : Connect(c) \/ Deliver(c) \/ HangUp(c) \/ NoticeGone(c)

\* The loop runs every generator that has something to yield; a hung-up
\* client is noticed within a ping interval.
Spec ==
    /\ Init /\ [][Next]_vars
    /\ \A c \in Clients : WF_vars(Deliver(c)) /\ WF_vars(NoticeGone(c))

-----------------------------------------------------------------------------
\* Every queue holds numbered messages and ends, whatever _offer drops.
TypeOK ==
    /\ seq \in Nat
    /\ closed \in BOOLEAN
    /\ subscribed \subseteq Clients
    /\ stream \in [Clients -> {"out", "open"}]
    /\ queue \in [Clients -> Seq(Message \cup {End})]
    /\ known \in [Clients -> Nat]
    /\ gone \subseteq Clients
    /\ connects \in [Clients -> Nat]

\* No client misses a change: what an open stream still has to deliver runs,
\* without a gap that no resync covers, from the frame the client acted on
\* last up to the hub's own number.  (Once the hub is closed a full queue may
\* be cut short, but then it ends the stream.)
NoGap ==
    \A c \in Clients :
       LET q == queue[c]
           before(i) == IF i = 1 THEN known[c] ELSE q[i - 1].seq
       IN  stream[c] = "open" =>
             /\ \A i \in DOMAIN q : q[i] = End => i = Len(q)
             /\ \A i \in DOMAIN q : q[i].kind = "changes" => q[i].seq = before(i) + 1
             /\ \/ q # <<>> /\ q[Len(q)] = End
                \/ (IF q = <<>> THEN known[c] ELSE q[Len(q)].seq) = seq

\* However slow a subscriber is, its queue stays within the bound, and a
\* connection that is over holds no place in the hub.
Bounded ==
    \A c \in Clients :
       /\ Len(queue[c]) <= QueueSize
       /\ c \in subscribed => stream[c] = "open"

\* Whatever was broadcast reaches every connected client, as a change or as a
\* resync that covers it, unless the stream ends.
CatchesUp ==
    \A c \in Clients, n \in 1..MaxSeq :
       (stream[c] = "open" /\ seq >= n) ~> (known[c] >= n \/ stream[c] = "out")

\* After the hub closes every stream ends, the ones that connect late too.
StreamsEnd == \A c \in Clients : closed ~> stream[c] = "out"
=============================================================================

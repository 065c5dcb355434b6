------------------------------ MODULE EventBus ------------------------------
(* The controller's event bus (controller/event/bus.go) and the two kinds of *)
(* goroutine that read from it: the persister, subscribed for the whole life *)
(* of the process (persister.go), and SSE clients that come and go           *)
(* (api/handler/events.go).  Publish holds the read lock while it offers the *)
(* event to one channel after the other; Subscribe and the unsubscribe       *)
(* function hold the write lock.  An event is its publisher and its number.  *)
EXTENDS Naturals, Sequences, FiniteSets, SequencesExt, SequenceTheorems, TLAPS

CONSTANTS Publishers,   \* goroutines that call Publish
          Persister,    \* the subscription of the event persister
          Clients,      \* SSE connections
          Capacity,     \* buffer of a subscriber's channel (4096 in the code)
          MaxEvents,    \* bound: events per publisher
          Telemetry     \* event numbers whose type is in skipPersistence

Subscribers == {Persister} \cup Clients
Event       == [from : Publishers, n : 1 .. MaxEvents]

VARIABLES subscribers, \* the registered channels
          closed,      \* channels that unsubscribe has closed
          chan,        \* contents of each channel
          pub,         \* what each publisher still has to offer, and to whom
          sent,        \* events each publisher has begun to publish
          got,         \* what each subscriber has read
          offered,     \* history: events offered to each subscriber
          dropped,     \* history: events dropped at each subscriber
          table        \* rows of the events table

vars == <<subscribers, closed, chan, pub, sent, got, offered, dropped, table>>

Idle == [todo |-> {}, n |-> 0]

Init ==
  /\ subscribers = {Persister}
  /\ closed = {}
  /\ chan = [s \in Subscribers |-> <<>>]
  /\ pub = [p \in Publishers |-> Idle]
  /\ sent = [p \in Publishers |-> 0]
  /\ got = [s \in Subscribers |-> {}]
  /\ offered = [s \in Subscribers |-> {}]
  /\ dropped = [s \in Subscribers |-> {}]
  /\ table = {}

\* The read lock is held by every publisher inside Publish; the write lock
\* needs all of them to have left.
ReadLocked == \E p \in Publishers : pub[p] # Idle

Publish(p) ==
  /\ pub[p] = Idle
  /\ sent[p] < MaxEvents
  /\ sent' = [sent EXCEPT ![p] = @ + 1]
  /\ pub' = [pub EXCEPT ![p] = [todo |-> subscribers, n |-> sent[p] + 1]]
  /\ UNCHANGED <<subscribers, closed, chan, got, offered, dropped, table>>

\* Mutant: the buffer is not bounded.
OfferUnbounded(p, s) ==
  LET e == [from |-> p, n |-> pub[p].n] IN
  /\ s \in pub[p].todo
  /\ pub' = [pub EXCEPT ![p].todo = @ \ {s}]
  /\ offered' = [offered EXCEPT ![s] = @ \cup {e}]
  /\ chan' = [chan EXCEPT ![s] = Append(@, e)]
  /\ UNCHANGED <<subscribers, closed, sent, got, dropped, table>>

\* Mutant: a send without a default branch blocks while the buffer is full.
OfferBlocking(p, s) ==
  LET e == [from |-> p, n |-> pub[p].n] IN
  /\ s \in pub[p].todo
  /\ Len(chan[s]) < Capacity
  /\ pub' = [pub EXCEPT ![p].todo = @ \ {s}]
  /\ offered' = [offered EXCEPT ![s] = @ \cup {e}]
  /\ chan' = [chan EXCEPT ![s] = Append(@, e)]
  /\ UNCHANGED <<subscribers, closed, sent, got, dropped, table>>

\* Mutant: room is made for the new event by forgetting the oldest one.
OfferEvictsOldest(p, s) ==
  LET e == [from |-> p, n |-> pub[p].n] IN
  /\ s \in pub[p].todo
  /\ pub' = [pub EXCEPT ![p].todo = @ \ {s}]
  /\ offered' = [offered EXCEPT ![s] = @ \cup {e}]
  /\ chan' = [chan EXCEPT ![s] =
                IF Len(@) < Capacity THEN Append(@, e) ELSE Append(Tail(@), e)]
  /\ UNCHANGED <<subscribers, closed, sent, got, dropped, table>>

\* One turn of the loop over the subscriber map, in any order: a send that
\* would block takes the default branch instead.
Offer(p, s) ==
  LET e == [from |-> p, n |-> pub[p].n] IN
  /\ s \in pub[p].todo
  /\ pub' = [pub EXCEPT ![p].todo = @ \ {s}]
  /\ offered' = [offered EXCEPT ![s] = @ \cup {e}]
  /\ IF Len(chan[s]) < Capacity
     THEN chan' = [chan EXCEPT ![s] = Append(@, e)] /\ UNCHANGED dropped
     ELSE dropped' = [dropped EXCEPT ![s] = @ \cup {e}] /\ UNCHANGED chan
  /\ UNCHANGED <<subscribers, closed, sent, got, table>>

PublishReturns(p) ==
  /\ pub[p] # Idle
  /\ pub[p].todo = {}
  /\ pub' = [pub EXCEPT ![p] = Idle]
  /\ UNCHANGED <<subscribers, closed, chan, sent, got, offered, dropped, table>>

Subscribe(c) ==
  /\ ~ReadLocked
  /\ c \notin subscribers \cup closed
  /\ subscribers' = subscribers \cup {c}
  /\ UNCHANGED <<closed, chan, pub, sent, got, offered, dropped, table>>

\* Mutant: unsubscribe does not take the write lock.
UnsubscribeUnlocked(c) ==
  /\ c \in subscribers
  /\ subscribers' = subscribers \ {c}
  /\ closed' = closed \cup {c}
  /\ UNCHANGED <<chan, pub, sent, got, offered, dropped, table>>

Unsubscribe(c) ==
  /\ ~ReadLocked
  /\ c \in subscribers
  /\ subscribers' = subscribers \ {c}
  /\ closed' = closed \cup {c}
  /\ UNCHANGED <<chan, pub, sent, got, offered, dropped, table>>

Read(s) ==
  /\ chan[s] # <<>>
  /\ chan' = [chan EXCEPT ![s] = Tail(@)]
  /\ got' = [got EXCEPT ![s] = @ \cup {Head(chan[s])}]

\* The SSE handler filters and writes; only what it has read matters here.
SSE(c) ==
  /\ c \in subscribers
  /\ Read(c)
  /\ UNCHANGED <<subscribers, closed, pub, sent, offered, dropped, table>>

\* Mutant: the loop returns after a failed insert.
PersistStops ==
  /\ \A e \in got[Persister] : e.n \in Telemetry \/ e \in table
  /\ Read(Persister)
  /\ LET e == Head(chan[Persister]) IN
     \/ table' = IF e.n \in Telemetry THEN table ELSE table \cup {e}
     \/ e.n \notin Telemetry /\ UNCHANGED table
  /\ UNCHANGED <<subscribers, closed, pub, sent, offered, dropped>>

\* persist skips the telemetry types; a failed insert loses the row.
Persist ==
  /\ Read(Persister)
  /\ LET e == Head(chan[Persister]) IN
     \/ table' = IF e.n \in Telemetry THEN table ELSE table \cup {e}
     \/ e.n \notin Telemetry /\ UNCHANGED table
  /\ UNCHANGED <<subscribers, closed, pub, sent, offered, dropped>>

Next ==
  \/ \E p \in Publishers : Publish(p) \/ PublishReturns(p)
  \/ \E p \in Publishers, s \in Subscribers : Offer(p, s)
  \/ \E c \in Clients : Subscribe(c) \/ Unsubscribe(c) \/ SSE(c)
  \/ Persist

\* A publisher that has the lock keeps running; the persister keeps reading.
\* Clients are owed nothing: a stuck client must not hold up a publisher.
Fairness ==
  /\ \A p \in Publishers :
       WF_vars(PublishReturns(p) \/ \E s \in Subscribers : Offer(p, s))
  /\ WF_vars(Persist)

Spec == Init /\ [][Next]_vars /\ Fairness

-----------------------------------------------------------------------------
\* Every variable has its type.
TypeOK ==
  /\ subscribers \subseteq Subscribers
  /\ closed \subseteq Clients
  /\ chan \in [Subscribers -> Seq(Event)]
  /\ \A s \in Subscribers : Len(chan[s]) <= Capacity
  /\ pub \in [Publishers -> [todo : SUBSET Subscribers, n : 0 .. MaxEvents]]
  /\ sent \in [Publishers -> 0 .. MaxEvents]
  /\ got \in [Subscribers -> SUBSET Event]
  /\ offered \in [Subscribers -> SUBSET Event]
  /\ dropped \in [Subscribers -> SUBSET Event]
  /\ table \subseteq Event

\* No publisher is about to send on a channel that has been closed (a send on
\* a closed channel panics): unsubscribe deletes and closes under the write
\* lock, so no Publish holds the old map.
NoSendOnClosed == \A p \in Publishers : pub[p].todo \cap closed = {}

\* Every event offered to a subscriber is read, queued or counted as dropped,
\* and nothing else is: the bus loses an event only in the default branch.
Accounted ==
  \A s \in Subscribers :
    /\ offered[s] = (got[s] \cup ToSet(chan[s])) \cup dropped[s]
    /\ (got[s] \cup ToSet(chan[s])) \cap dropped[s] = {}

\* Publish never waits for a reader ("Non-blocking: slow clients miss
\* events"): it returns although no client ever reads.
PublishReturnsEventually ==
  \A p \in Publishers : pub[p] # Idle ~> pub[p] = Idle

\* An event queued for the persister is read, whatever became of the rows of
\* the events before it: a failed insert is logged and the loop goes on.
QueuedIsRead ==
  \A e \in Event :
    e \in ToSet(chan[Persister]) ~> e \in got[Persister]
-----------------------------------------------------------------------------
(* The proof of NoSendOnClosed and Accounted, for any number of publishers   *)
(* and clients and a buffer of any size.                                     *)

\* What one publisher holds while it has the read lock: nobody has left the
\* map it goes through, and the event in its hand is new to all it has not
\* offered it to.
PublisherSound(p) ==
  /\ pub[p].todo \subseteq subscribers
  /\ pub[p] # Idle => pub[p].n = sent[p] /\ pub[p].n # 0
  /\ \A s \in pub[p].todo : [from |-> p, n |-> pub[p].n] \notin offered[s]

BusTypes ==
  /\ TypeOK
  /\ subscribers \cap closed = {}

BusInv ==
  /\ BusTypes
  /\ \A p \in Publishers : PublisherSound(p)
  /\ \A s \in Subscribers : \A e \in offered[s] : e.n <= sent[e.from]
  /\ Accounted

\* What a channel holds after one more event ...
LEMMA Queued ==
  ASSUME NEW q \in Seq(Event), NEW e \in Event
  PROVE  /\ Append(q, e) \in Seq(Event) /\ Len(Append(q, e)) = Len(q) + 1
         /\ ToSet(Append(q, e)) = ToSet(q) \cup {e}
<1>1. /\ Append(q, e) \in Seq(Event) /\ Len(Append(q, e)) = Len(q) + 1 /\ Len(q) \in Nat
      /\ \A i \in 1 .. Len(q) : Append(q, e)[i] = q[i]
      /\ Append(q, e)[Len(q) + 1] = e
  BY AppendProperties, LenProperties
<1>2. DOMAIN q = 1 .. Len(q) /\ DOMAIN Append(q, e) = 1 .. (Len(q) + 1)
  BY <1>1, LenProperties
<1>3. 1 .. (Len(q) + 1) = (1 .. Len(q)) \cup {Len(q) + 1}
  BY <1>1
<1> QED BY <1>1, <1>2, <1>3 DEF ToSet

\* ... and with the oldest one read.
LEMMA Dequeued ==
  ASSUME NEW q \in Seq(Event), q # <<>>
  PROVE  /\ Head(q) \in Event /\ Tail(q) \in Seq(Event) /\ Len(Tail(q)) = Len(q) - 1
         /\ ToSet(q) = ToSet(Tail(q)) \cup {Head(q)}
<1>1. /\ Head(q) \in Event /\ Tail(q) \in Seq(Event) /\ Len(Tail(q)) = Len(q) - 1
      /\ Len(q) \in Nat /\ Len(q) > 0 /\ Head(q) = q[1]
      /\ \A i \in 1 .. Len(Tail(q)) : Tail(q)[i] = q[i + 1]
  BY HeadTailProperties, LenProperties, EmptySeq
<1>2. DOMAIN q = 1 .. Len(q) /\ DOMAIN Tail(q) = 1 .. Len(q) - 1
  BY <1>1, LenProperties
<1>3. ASSUME NEW i \in 1 .. Len(q), i # 1 PROVE i - 1 \in 1 .. Len(q) - 1 /\ (i - 1) + 1 = i
  BY <1>1, <1>3
<1>4. ASSUME NEW x \in ToSet(q) PROVE x \in ToSet(Tail(q)) \cup {Head(q)}
  <2>1. PICK i \in 1 .. Len(q) : x = q[i]
    BY <1>2, <1>4 DEF ToSet
  <2>2. CASE i = 1
    BY <1>1, <2>1, <2>2
  <2>3. CASE i # 1
    <3>1. x = Tail(q)[i - 1] /\ i - 1 \in DOMAIN Tail(q)
      BY <1>1, <1>2, <1>3, <2>1, <2>3
    <3> QED BY <3>1 DEF ToSet
  <2> QED BY <2>2, <2>3
<1>5. ASSUME NEW x \in ToSet(Tail(q)) \cup {Head(q)} PROVE x \in ToSet(q)
  <2>1. CASE x = Head(q)
    BY <1>1, <1>2, <2>1 DEF ToSet
  <2>2. CASE x \in ToSet(Tail(q))
    <3>1. PICK i \in 1 .. Len(q) - 1 : x = Tail(q)[i]
      BY <1>2, <2>2 DEF ToSet
    <3>2. x = q[i + 1] /\ i + 1 \in DOMAIN q
      BY <1>1, <1>2, <3>1
    <3> QED BY <3>2 DEF ToSet
  <2> QED BY <1>5, <2>1, <2>2
<1> QED BY <1>1, <1>4, <1>5

\* The bus at the start of the process.
LEMMA BusStarts ==
  ASSUME MaxEvents \in Nat, Capacity \in Nat, Init PROVE BusInv
<1>1. <<>> \in Seq(Event) /\ Len(<<>>) = 0 /\ ToSet(<<>>) = {}
  BY EmptySeq DEF ToSet
<1>2. TypeOK
  BY <1>1 DEF Init, TypeOK, Subscribers, Idle
<1> QED BY <1>1, <1>2 DEF Init, BusInv, BusTypes, PublisherSound, Accounted, Idle

\* A new event is in nobody's channel and was offered to nobody.
LEMMA PublishKeeps ==
  ASSUME MaxEvents \in Nat, BusInv, NEW p \in Publishers, Publish(p) PROVE BusInv'
<1>1. /\ sent[p] \in Nat /\ sent[p] + 1 \in 0 .. MaxEvents /\ sent \in [Publishers -> 0 .. MaxEvents]
      /\ sent' = [sent EXCEPT ![p] = @ + 1] /\ subscribers \subseteq Subscribers
      /\ pub' = [pub EXCEPT ![p] = [todo |-> subscribers, n |-> sent[p] + 1]]
      /\ pub \in [Publishers -> [todo : SUBSET Subscribers, n : 0 .. MaxEvents]]
      /\ UNCHANGED <<subscribers, closed, chan, got, offered, dropped, table>>
      /\ offered \in [Subscribers -> SUBSET Event]
  BY DEF Publish, BusInv, BusTypes, TypeOK
<1>2. BusTypes'
  BY <1>1 DEF BusInv, BusTypes, TypeOK
<1>3. ASSUME NEW s \in Subscribers, NEW e \in offered[s]
      PROVE  e.n <= sent'[e.from] /\ e # [from |-> p, n |-> sent[p] + 1]
  <2>1. e.from \in Publishers /\ e.n \in Nat /\ e.n <= sent[e.from]
    BY <1>1, <1>3 DEF BusInv, Event
  <2>2. CASE e.from = p
    BY <1>1, <2>1, <2>2
  <2>3. CASE e.from # p
    BY <1>1, <2>1, <2>3
  <2> QED BY <2>2, <2>3
<1>4. ASSUME NEW r \in Publishers PROVE PublisherSound(r)'
  <2>1. CASE r = p
    <3>1. pub'[r] = [todo |-> subscribers, n |-> sent[p] + 1] /\ sent'[r] = sent[p] + 1
      BY <1>1, <2>1
    <3> QED BY <1>1, <1>3, <2>1, <3>1 DEF PublisherSound
  <2>2. CASE r # p
    <3>1. pub'[r] = pub[r] /\ sent'[r] = sent[r] /\ PublisherSound(r)
      BY <1>1, <2>2 DEF BusInv
    <3> QED BY <1>1, <3>1 DEF PublisherSound, Idle
  <2> QED BY <2>1, <2>2
<1> QED BY <1>1, <1>2, <1>3, <1>4 DEF BusInv, Accounted

\* A publisher leaves, or the map of subscribers changes while none is inside.
LEMMA MapKeeps ==
  ASSUME MaxEvents \in Nat, BusInv,
         \/ \E p \in Publishers : PublishReturns(p)
         \/ \E c \in Clients : Subscribe(c) \/ Unsubscribe(c)
  PROVE  BusInv'
<1>0. UNCHANGED <<chan, sent, got, offered, dropped, table>>
  BY DEF PublishReturns, Subscribe, Unsubscribe
<1>1. CASE \E p \in Publishers : PublishReturns(p)
  <2>1. PICK p \in Publishers : PublishReturns(p)
    BY <1>1
  <2>2. /\ pub' = [pub EXCEPT ![p] = Idle] /\ UNCHANGED <<subscribers, closed>>
        /\ pub \in [Publishers -> [todo : SUBSET Subscribers, n : 0 .. MaxEvents]]
        /\ Idle \in [todo : SUBSET Subscribers, n : 0 .. MaxEvents]
    BY <2>1 DEF PublishReturns, BusInv, BusTypes, TypeOK, Idle
  <2>3. BusTypes'
    BY <1>0, <2>2 DEF BusInv, BusTypes, TypeOK
  <2>4. ASSUME NEW r \in Publishers PROVE PublisherSound(r)'
    <3>1. pub'[r] = pub[r] \/ pub'[r] = Idle
      BY <2>2
    <3> QED BY <1>0, <2>2, <3>1 DEF BusInv, PublisherSound, Idle
  <2> QED BY <1>0, <2>3, <2>4 DEF BusInv, Accounted
<1>2. CASE \E c \in Clients : Subscribe(c) \/ Unsubscribe(c)
  <2>1. PICK c \in Clients : Subscribe(c) \/ Unsubscribe(c)
    BY <1>2
  <2>2. UNCHANGED pub /\ \A p \in Publishers : pub[p] = Idle /\ pub[p].todo = {}
    BY <2>1 DEF Subscribe, Unsubscribe, ReadLocked, Idle
  <2>3. BusTypes'
    BY <1>0, <2>1, <2>2 DEF Subscribe, Unsubscribe, BusInv, BusTypes, TypeOK, Subscribers
  <2>4. ASSUME NEW r \in Publishers PROVE PublisherSound(r)'
    BY <1>0, <2>2 DEF PublisherSound, Idle
  <2> QED BY <1>0, <2>3, <2>4 DEF BusInv, Accounted
<1> QED BY <1>1, <1>2

\* An event goes into the buffer or is dropped, never both.
LEMMA OfferKeeps ==
  ASSUME MaxEvents \in Nat, Capacity \in Nat, BusInv,
         NEW p \in Publishers, NEW s \in Subscribers, Offer(p, s)
  PROVE  BusInv'
<1> DEFINE e == [from |-> p, n |-> pub[p].n]
<1>1. /\ s \in pub[p].todo /\ pub' = [pub EXCEPT ![p].todo = @ \ {s}]
      /\ offered' = [offered EXCEPT ![s] = @ \cup {e}]
      /\ UNCHANGED <<subscribers, closed, sent, got, table>>
      /\ pub \in [Publishers -> [todo : SUBSET Subscribers, n : 0 .. MaxEvents]]
      /\ offered \in [Subscribers -> SUBSET Event] /\ dropped \in [Subscribers -> SUBSET Event]
      /\ chan \in [Subscribers -> Seq(Event)] /\ sent \in [Publishers -> 0 .. MaxEvents]
  BY DEF Offer, BusInv, BusTypes, TypeOK
<1>2. pub[p] # Idle /\ pub[p].n = sent[p] /\ pub[p].n # 0 /\ e \notin offered[s] /\ s \in subscribers
  BY <1>1 DEF BusInv, PublisherSound, Idle
<1>3. e \in Event
  <2>1. pub[p].n \in 1 .. MaxEvents
    BY <1>1, <1>2
  <2> QED BY <2>1 DEF Event
<1>4. /\ pub'[p] = [todo |-> pub[p].todo \ {s}, n |-> pub[p].n]
      /\ \A r \in Publishers \ {p} : pub'[r] = pub[r]
      /\ pub' \in [Publishers -> [todo : SUBSET Subscribers, n : 0 .. MaxEvents]]
      /\ offered'[s] = offered[s] \cup {e}
      /\ \A t \in Subscribers \ {s} : offered'[t] = offered[t]
      /\ offered' \in [Subscribers -> SUBSET Event]
  BY <1>1, <1>3
<1>5. /\ chan' \in [Subscribers -> Seq(Event)] /\ dropped' \in [Subscribers -> SUBSET Event]
      /\ \A t \in Subscribers \ {s} : chan'[t] = chan[t] /\ dropped'[t] = dropped[t]
      /\ Len(chan'[s]) <= Capacity
      /\ \/ ToSet(chan'[s]) = ToSet(chan[s]) \cup {e} /\ dropped'[s] = dropped[s]
         \/ chan'[s] = chan[s] /\ dropped'[s] = dropped[s] \cup {e}
  <2>0. chan[s] \in Seq(Event) /\ Len(chan[s]) <= Capacity /\ Len(chan[s]) \in Nat
    BY <1>1, LenProperties DEF BusInv, BusTypes, TypeOK
  <2>1. CASE Len(chan[s]) < Capacity
    <3>1. chan' = [chan EXCEPT ![s] = Append(@, e)] /\ UNCHANGED dropped
      BY <2>1 DEF Offer
    <3>2. /\ Append(chan[s], e) \in Seq(Event) /\ Len(Append(chan[s], e)) = Len(chan[s]) + 1
          /\ ToSet(Append(chan[s], e)) = ToSet(chan[s]) \cup {e}
      BY <1>3, <2>0, Queued
    <3> QED BY <1>1, <2>0, <2>1, <3>1, <3>2
  <2>2. CASE ~(Len(chan[s]) < Capacity)
    <3>1. dropped' = [dropped EXCEPT ![s] = @ \cup {e}] /\ UNCHANGED chan
      BY <2>2 DEF Offer
    <3> QED BY <1>1, <1>3, <2>0, <3>1
  <2> QED BY <2>1, <2>2
<1>6. BusTypes'
  BY <1>1, <1>4, <1>5 DEF BusInv, BusTypes, TypeOK
<1>7. ASSUME NEW r \in Publishers PROVE PublisherSound(r)'
  <2>1. PublisherSound(r)
    BY DEF BusInv
  <2>2. CASE r = p
    <3>1. ASSUME NEW t \in pub[p].todo \ {s} PROVE offered'[t] = offered[t]
      BY <1>1, <1>4, <3>1
    <3>2. pub'[p].todo = pub[p].todo \ {s} /\ pub'[p].n = pub[p].n
      BY <1>4
    <3> QED BY <1>1, <1>2, <2>1, <2>2, <3>1, <3>2 DEF PublisherSound
  <2>3. CASE r # p
    <3>1. pub'[r] = pub[r] /\ e # [from |-> r, n |-> pub[r].n]
      BY <1>4, <2>3
    <3>2. ASSUME NEW t \in pub[r].todo PROVE [from |-> r, n |-> pub[r].n] \notin offered'[t]
      <4>1. t \in Subscribers /\ [from |-> r, n |-> pub[r].n] \notin offered[t]
        BY <1>1, <2>1, <3>2 DEF PublisherSound
      <4> QED BY <1>4, <3>1, <4>1
    <3> QED BY <1>1, <2>1, <3>1, <3>2 DEF PublisherSound, Idle
  <2> QED BY <2>2, <2>3
<1>8. ASSUME NEW t \in Subscribers, NEW x \in offered'[t] PROVE x.n <= sent'[x.from]
  <2>1. CASE x = e
    BY <1>1, <1>2, <2>1
  <2>2. CASE x # e
    <3>1. x \in offered[t]
      BY <1>4, <1>8, <2>2
    <3> QED BY <1>1, <3>1 DEF BusInv
  <2> QED BY <2>1, <2>2
<1>9. Accounted'
  <2> SUFFICES ASSUME NEW t \in Subscribers
               PROVE  /\ offered'[t] = (got'[t] \cup ToSet(chan'[t])) \cup dropped'[t]
                      /\ (got'[t] \cup ToSet(chan'[t])) \cap dropped'[t] = {}
    BY DEF Accounted
  <2>1. /\ offered[t] = (got[t] \cup ToSet(chan[t])) \cup dropped[t]
        /\ (got[t] \cup ToSet(chan[t])) \cap dropped[t] = {} /\ got' = got
    BY <1>1 DEF BusInv, Accounted
  <2>2. CASE t # s
    BY <1>4, <1>5, <2>1, <2>2
  <2>3. CASE t = s
    BY <1>2, <1>4, <1>5, <2>1, <2>3
  <2> QED BY <2>2, <2>3
<1> QED BY <1>6, <1>7, <1>8, <1>9 DEF BusInv

\* Reading moves an event from the channel to what has been read.
LEMMA ReadKeeps ==
  ASSUME MaxEvents \in Nat, Capacity \in Nat, BusInv, Persist \/ \E c \in Clients : SSE(c)
  PROVE  BusInv'
<1>1. PICK s \in Subscribers : Read(s)
  BY DEF Persist, SSE, Subscribers
<1>2. UNCHANGED <<subscribers, closed, pub, sent, offered, dropped>>
  BY DEF Persist, SSE
<1>3. /\ chan[s] # <<>> /\ chan' = [chan EXCEPT ![s] = Tail(@)]
      /\ got' = [got EXCEPT ![s] = @ \cup {Head(chan[s])}]
      /\ chan \in [Subscribers -> Seq(Event)] /\ got \in [Subscribers -> SUBSET Event]
      /\ chan[s] \in Seq(Event) /\ Len(chan[s]) <= Capacity /\ Len(chan[s]) \in Nat
  BY <1>1, LenProperties DEF Read, BusInv, BusTypes, TypeOK
<1>4. /\ Head(chan[s]) \in Event /\ Tail(chan[s]) \in Seq(Event)
      /\ Len(Tail(chan[s])) = Len(chan[s]) - 1
      /\ ToSet(chan[s]) = ToSet(Tail(chan[s])) \cup {Head(chan[s])}
  BY <1>3, Dequeued
<1>5. table' \subseteq Event
  <2>1. CASE Persist
    <3>1. Persister \in Subscribers /\ chan[Persister] # <<>> /\ table \subseteq Event
          /\ chan[Persister] \in Seq(Event)
      BY <2>1 DEF Persist, Read, Subscribers, BusInv, BusTypes, TypeOK
    <3>2. Head(chan[Persister]) \in Event
      BY <3>1, Dequeued
    <3> QED BY <2>1, <3>1, <3>2 DEF Persist
  <2>2. CASE \E c \in Clients : SSE(c)
    BY <2>2 DEF SSE, BusInv, BusTypes, TypeOK
  <2> QED BY <2>1, <2>2
<1>6. BusTypes'
  <2>1. chan' \in [Subscribers -> Seq(Event)] /\ got' \in [Subscribers -> SUBSET Event]
    BY <1>3, <1>4
  <2>2. \A t \in Subscribers : Len(chan'[t]) <= Capacity
    BY <1>3, <1>4 DEF BusInv, BusTypes, TypeOK
  <2> QED BY <1>2, <1>5, <2>1, <2>2 DEF BusInv, BusTypes, TypeOK
<1>7. Accounted'
  <2> SUFFICES ASSUME NEW t \in Subscribers
               PROVE  /\ offered'[t] = (got'[t] \cup ToSet(chan'[t])) \cup dropped'[t]
                      /\ (got'[t] \cup ToSet(chan'[t])) \cap dropped'[t] = {}
    BY DEF Accounted
  <2>1. got'[t] \cup ToSet(chan'[t]) = got[t] \cup ToSet(chan[t])
    <3>1. CASE t = s
      BY <1>3, <1>4, <3>1
    <3>2. CASE t # s
      BY <1>3, <3>2
    <3> QED BY <3>1, <3>2
  <2> QED BY <1>2, <2>1 DEF BusInv, Accounted
<1> QED BY <1>2, <1>6, <1>7 DEF BusInv, PublisherSound

\* The steps of the bus keep its invariant.
LEMMA BusKept ==
  ASSUME MaxEvents \in Nat, Capacity \in Nat, BusInv, [Next]_vars PROVE BusInv'
<1>1. CASE UNCHANGED vars
  BY <1>1 DEF vars, BusInv, BusTypes, TypeOK, PublisherSound, Accounted
<1> QED BY <1>1, PublishKeeps, MapKeeps, OfferKeeps, ReadKeeps DEF Next

\* The bus promises what it is used for.
LEMMA BusPromises == BusInv => NoSendOnClosed /\ Accounted
  BY DEF BusInv, BusTypes, PublisherSound, NoSendOnClosed

\* The invariant holds for any constants.
LEMMA BusInductive ==
  ASSUME MaxEvents \in Nat, Capacity \in Nat PROVE Spec => []BusInv
<1>1. Init => BusInv
  BY BusStarts
<1>2. BusInv /\ [Next]_vars => BusInv'
  BY BusKept
<1> QED BY <1>1, <1>2, PTL DEF Spec

\* For any number of publishers and of clients that come and go: no publisher
\* ever sends on a channel that has been closed.
THEOREM NeverSendsOnClosed ==
  ASSUME MaxEvents \in Nat, Capacity \in Nat PROVE Spec => []NoSendOnClosed
<1>1. BusInv => NoSendOnClosed
  BY BusPromises
<1> QED BY <1>1, BusInductive, PTL

\* Every event offered to a subscriber is read, queued or counted as dropped,
\* whatever the capacity of the buffer and however the goroutines interleave.
THEOREM EventsAccounted ==
  ASSUME MaxEvents \in Nat, Capacity \in Nat PROVE Spec => []Accounted
<1>1. BusInv => Accounted
  BY BusPromises
<1> QED BY <1>1, BusInductive, PTL
=============================================================================

------------------------------ MODULE Webhooks ------------------------------
(* Webhook endpoints (controller/webhook/endpoint.go) and the webhook worker *)
(* (webhook.go) with its two goroutines: subscribeLoop turns events from the *)
(* bus into rows of webhook_deliveries, deliverLoop posts the rows that are  *)
(* due and records the outcome.  The rows survive a crash of the controller; *)
(* the channel, the event in hand and the batch in hand do not.              *)
(*                                                                           *)
(* Time is kept as the seconds a row still has to wait.  A delivery is named *)
(* by its event and its endpoint, because an event is enqueued at most once  *)
(* for an endpoint; a deleted endpoint's identifier is never used again.     *)
EXTENDS Naturals, Sequences, FiniteSetsExt, Functions, FiniteSetTheorems, SequenceTheorems,
        TLAPS

CONSTANTS Endpoints,    \* identifiers of webhook endpoints
          Types,        \* event types that are published
          Capacity,     \* buffer of the bus subscription (4096 in the code)
          BatchLimit,   \* rows per poll (10 in the code)
          MaxAttempts,  \* maxDeliveryAttempts (24 in the code)
          MaxEvents,    \* bound: events published
          MaxChanges,   \* bound: updates of endpoints
          MaxFaults     \* bound: crashes and failed database calls

\* The event types of controller/event/events.go and the list a filter is
\* validated against.
ActionTypes ==
  {"gameserver.create", "gameserver.update", "gameserver.delete",
   "gameserver.start", "gameserver.stop", "gameserver.restart",
   "gameserver.update_game", "gameserver.reinstall", "gameserver.migrate",
   "gameserver.archive", "gameserver.unarchive", "backup.create",
   "backup.delete", "backup.restore", "schedule.create", "schedule.update",
   "schedule.delete", "mod.installed", "mod.uninstalled"}

LifecycleTypes ==
  {"gameserver.depot_downloading", "gameserver.depot_complete",
   "gameserver.depot_cached", "gameserver.image_pulling",
   "gameserver.image_pulled", "gameserver.instance_creating",
   "gameserver.instance_started", "gameserver.ready",
   "gameserver.instance_stopping", "gameserver.instance_stopped",
   "gameserver.instance_exited", "gameserver.error", "gameserver.operation"}

OutcomeTypes ==
  {"backup.completed", "backup.failed", "backup.restore.completed",
   "backup.restore.failed", "worker.connected", "worker.disconnected",
   "worker.updated", "schedule.task.completed", "schedule.task.failed",
   "schedule.task.missed", "gameserver.stats", "gameserver.query",
   "gameserver.warning", "gameserver.reachable"}

EventType == ActionTypes \cup LifecycleTypes \cup OutcomeTypes

\* The slice names every constant except the two of archive and unarchive.
AllEventTypes == EventType \ {"gameserver.archive", "gameserver.unarchive"}

\* A filter is a set of types here: each must match a known one.
ValidateEventFilter(events) == events # {} /\ events \subseteq AllEventTypes

Ids     == [ev : 1 .. MaxEvents, ep : Endpoints]
Filters == SUBSET Types \ {{}}
None    == [kind |-> "none"]

VARIABLES endpoint,  \* table webhook_endpoints: new, gone or a row
          chan,      \* the subscription's channel: event numbers
          typeOf,    \* type of each event published so far
          enq,       \* enqueueEvent: the event in hand and the endpoints left
          rows,      \* table webhook_deliveries
          wake,      \* a token is in the wake channel
          batch,     \* rows fetched and not yet attempted, with their attempts
          cache,     \* endpointCache: what was read in this cycle
          posting,   \* a request has been answered and is not yet recorded
          upd,       \* a partial update between its read and its write
          created,   \* history: deliveries that have had a row
          accepted,  \* history: deliveries that the receiver has accepted
          posts,     \* history: requests sent for a delivery
          waited,    \* history: seconds of backoff spent on a delivery
          changes, faults

vars == <<endpoint, chan, typeOf, enq, rows, wake, batch, cache, posting, upd,
          created, accepted, posts, waited, changes, faults>>
tables  == <<endpoint, rows>>
sub     == <<chan, typeOf, enq>>
deliv   == <<wake, batch, cache, posting>>
history == <<created, accepted, posts, waited>>
counts  == <<changes, faults>>

Init ==
  /\ endpoint = [e \in Endpoints |-> [kind |-> "new"]]
  /\ chan = <<>>
  /\ typeOf = <<>>
  /\ enq = None
  /\ rows = << >>
  /\ wake = FALSE
  /\ batch = << >>
  /\ cache = << >>
  /\ posting = None
  /\ upd = None
  /\ created = {}
  /\ accepted = {}
  /\ posts = [d \in Ids |-> 0]
  /\ waited = [d \in Ids |-> 0]
  /\ changes = 0
  /\ faults = 0

Fault == faults < MaxFaults /\ faults' = faults + 1

\* The mapping f with x mapped to v.
Put(f, x, v) == [y \in DOMAIN f \cup {x} |-> IF y = x THEN v ELSE f[y]]

-----------------------------------------------------------------------------
\* Endpoints.

Exists(e)   == endpoint[e].kind = "row"
Row(f, on)  == [kind |-> "row", events |-> f, enabled |-> on]

Create(e, f, on) ==
  /\ endpoint[e].kind = "new"
  /\ ValidateEventFilter(f)
  /\ endpoint' = [endpoint EXCEPT ![e] = Row(f, on)]
  /\ UNCHANGED <<sub, rows, deliv, upd, history, counts>>

\* Update reads the row, replaces the fields the caller named and writes all
\* of them back.
UpdateRead(e) ==
  /\ upd = None
  /\ changes < MaxChanges
  /\ Exists(e)
  /\ \E f \in Filters : ValidateEventFilter(f) /\
       \E r \in {[endpoint[e] EXCEPT !.events = f],
                 [endpoint[e] EXCEPT !.enabled = ~@]} :
         upd' = [kind |-> "update", ep |-> e, row |-> r]
  /\ changes' = changes + 1
  /\ UNCHANGED <<tables, sub, deliv, history, faults>>

UpdateWrite ==
  /\ upd # None
  /\ endpoint' = IF Exists(upd.ep)
                 THEN [endpoint EXCEPT ![upd.ep] = upd.row] ELSE endpoint
  /\ upd' = None
  /\ UNCHANGED <<rows, sub, deliv, history, counts>>

\* ON DELETE CASCADE takes the endpoint's deliveries along.
Delete(e) ==
  /\ Exists(e)
  /\ endpoint' = [endpoint EXCEPT ![e] = [kind |-> "gone"]]
  /\ rows' = Restrict(rows, {d \in DOMAIN rows : d.ep # e})
  /\ UNCHANGED <<sub, deliv, upd, history, counts>>

-----------------------------------------------------------------------------
\* From the bus to the table.

Publish(ty) ==
  /\ Len(typeOf) < MaxEvents
  /\ typeOf' = Append(typeOf, ty)
  /\ chan' = IF Len(chan) < Capacity THEN Append(chan, Len(typeOf) + 1) ELSE chan
  /\ UNCHANGED <<tables, enq, deliv, upd, history, counts>>

matchEventFilter(ty, events) == ty \in events

ListEnabled == {e \in Endpoints : Exists(e) /\ endpoint[e].enabled}

\* enqueueEvent starts: the endpoints are listed once.  No endpoint, or a
\* failed query, ends it without a wake-up.
TakeEvent ==
  /\ enq = None
  /\ chan # <<>>
  /\ chan' = Tail(chan)
  /\ \/ /\ ListEnabled # {}
        /\ enq' = [kind |-> "enqueue", ev |-> Head(chan),
                   todo |-> {e \in ListEnabled :
                      matchEventFilter(typeOf[Head(chan)], endpoint[e].events)}]
        /\ UNCHANGED faults
     \/ ListEnabled = {} /\ UNCHANGED <<enq, faults>>
     \/ Fault /\ UNCHANGED enq
  /\ UNCHANGED <<tables, typeOf, deliv, upd, history, changes>>

\* One insert: the foreign key refuses a delivery for an endpoint that is gone.
CreateWebhookDelivery(e) ==
  /\ enq # None
  /\ e \in enq.todo
  /\ enq' = [enq EXCEPT !.todo = @ \ {e}]
  /\ \/ /\ Exists(e)
        /\ rows' = Put(rows, [ev |-> enq.ev, ep |-> e],
                        [state |-> "pending", attempts |-> 0, wait |-> 0])
        /\ created' = created \cup {[ev |-> enq.ev, ep |-> e]}
        /\ UNCHANGED faults
     \/ ~Exists(e) /\ UNCHANGED <<rows, created, faults>>
     \/ Exists(e) /\ Fault /\ UNCHANGED <<rows, created>>
  /\ UNCHANGED <<endpoint, chan, typeOf, deliv, upd, accepted, posts, waited, changes>>

\* Mutant: a second event finds the wake channel full and empties it.
WakeToggles ==
  /\ enq # None
  /\ enq.todo = {}
  /\ enq' = None
  /\ wake' = ~wake
  /\ UNCHANGED <<tables, chan, typeOf, batch, cache, posting, upd, history, counts>>

Wake ==
  /\ enq # None
  /\ enq.todo = {}
  /\ enq' = None
  /\ wake' = TRUE
  /\ UNCHANGED <<tables, chan, typeOf, batch, cache, posting, upd, history, counts>>

-----------------------------------------------------------------------------
\* From the table to the receiver.

Due == {d \in DOMAIN rows : rows[d].state = "pending" /\ rows[d].wait = 0}

\* GetPendingDeliveries: ordered by a time the model does not keep, so any of
\* the due rows may come first.
GetPendingDeliveries ==
  {S \in SUBSET Due : Cardinality(S) = Min({BatchLimit, Cardinality(Due)})}

\* A wake-up or the ticker: fetch up to BatchLimit due rows.
Poll ==
  /\ batch = << >>
  /\ posting = None
  /\ wake \/ Due # {}
  /\ wake' = FALSE
  /\ cache' = << >>
  /\ \/ /\ \E S \in GetPendingDeliveries :
             batch' = [d \in S |-> rows[d].attempts]
        /\ UNCHANGED faults
     \/ Fault /\ UNCHANGED batch
  /\ UNCHANGED <<tables, sub, posting, upd, history, changes>>

\* The row is read once per cycle and endpoint, whatever happens to it later.
Lookup(d) == IF d.ep \in DOMAIN cache THEN cache[d.ep] ELSE endpoint[d.ep]

\* deliver: the request may fail to arrive, be refused, be accepted, or be
\* accepted without the answer coming back.
Answers == {"unreachable", "refused", "ok", "lost"}

\* Mutant: any answer counts as a success.
AnyStatus(a) == a \in {"ok", "refused"}

Success(a) == a = "ok"

Post(d) ==
  /\ posting = None
  /\ d \in DOMAIN batch
  /\ batch' = Restrict(batch, DOMAIN batch \ {d})
  /\ cache' = Put(cache, d.ep, Lookup(d))
  /\ IF Lookup(d).kind # "row"
     THEN UNCHANGED <<posting, accepted, posts>>  \* marks a row that is gone
     ELSE \E a \in Answers :
            /\ posting' = [kind |-> "posted", d |-> d, ok |-> Success(a),
                           attempts |-> batch[d]]
            /\ accepted' = IF a \in {"ok", "lost"}
                           THEN accepted \cup {d} ELSE accepted
            /\ posts' = [posts EXCEPT ![d] = @ + 1]
  /\ UNCHANGED <<tables, sub, wake, upd, created, waited, counts>>

\* GetWebhookEndpoint fails: the delivery is skipped and stays due.
LookupFails(d) ==
  /\ posting = None
  /\ d \in DOMAIN batch
  /\ d.ep \notin DOMAIN cache
  /\ Fault
  /\ batch' = Restrict(batch, DOMAIN batch \ {d})
  /\ UNCHANGED <<tables, sub, wake, cache, posting, upd, history, changes>>

Backoff(attempts) == Min({5 * 2 ^ attempts, 3600})

\* Mutant: the comparison of the attempts is off by one.
OutcomeLate(p) ==
  CASE p.ok -> "delivered"
    [] ~p.ok /\ p.attempts > MaxAttempts -> "failed"
    [] OTHER -> "pending"

Outcome(p) ==
  CASE p.ok -> "delivered"
    [] ~p.ok /\ p.attempts + 1 >= MaxAttempts -> "failed"
    [] OTHER -> "pending"

\* MarkDeliverySuccess, MarkDeliveryFailed, MarkDeliveryRetry: one UPDATE, of
\* no row when the endpoint was deleted meanwhile.
Mark ==
  LET p == posting IN
  /\ p # None
  /\ posting' = None
  /\ \/ /\ rows' = IF p.d \in DOMAIN rows
                   THEN [rows EXCEPT ![p.d] =
                          [state    |-> Outcome(p),
                           attempts |-> @.attempts + 1,
                           wait     |-> IF Outcome(p) = "pending"
                                        THEN Backoff(p.attempts) ELSE @.wait]]
                   ELSE rows
        /\ UNCHANGED faults
     \/ Fault /\ UNCHANGED rows
  /\ UNCHANGED <<endpoint, sub, wake, batch, cache, upd, history, changes>>

Elapse(d) ==
  /\ d \in DOMAIN rows
  /\ rows[d].wait > 0
  /\ rows' = [rows EXCEPT ![d].wait = 0]
  /\ waited' = [waited EXCEPT ![d] = @ + rows[d].wait]
  /\ UNCHANGED <<endpoint, sub, deliv, upd, created, accepted, posts, counts>>

Prunable == {d \in DOMAIN rows : rows[d].state \in {"delivered", "failed"}}

\* The rows that are old enough, which the model does not tell apart.
PruneWebhookDeliveries ==
  /\ batch = << >>
  /\ posting = None
  /\ \E S \in SUBSET Prunable \ {{}} :
       rows' = Restrict(rows, DOMAIN rows \ S)
  /\ UNCHANGED <<endpoint, sub, deliv, upd, history, counts>>

Crash ==
  /\ Fault
  /\ chan' = <<>>
  /\ enq' = None
  /\ wake' = FALSE
  /\ batch' = << >>
  /\ cache' = << >>
  /\ posting' = None
  /\ upd' = None
  /\ UNCHANGED <<tables, typeOf, history, changes>>

-----------------------------------------------------------------------------
Next ==
  \/ \E e \in Endpoints :
       \/ \E f \in Filters, on \in BOOLEAN : Create(e, f, on)
       \/ UpdateRead(e) \/ Delete(e) \/ CreateWebhookDelivery(e)
  \/ \E ty \in Types : Publish(ty)
  \/ \E d \in Ids : Post(d) \/ LookupFails(d) \/ Elapse(d)
  \/ UpdateWrite \/ TakeEvent \/ Wake \/ Poll \/ Mark
  \/ PruneWebhookDeliveries \/ Crash

\* deliverLoop polls every five seconds, the HTTP client gives up after ten,
\* and a backoff ends.
Fairness ==
  /\ WF_vars(Poll)
  /\ WF_vars(Mark)
  /\ \A d \in Ids : WF_vars(Post(d)) /\ WF_vars(Elapse(d))

Spec == Init /\ [][Next]_vars /\ Fairness

-----------------------------------------------------------------------------
\* Every variable has its type.
TypeOK ==
  /\ \A e \in Endpoints : endpoint[e].kind \in {"new", "gone", "row"}
  /\ chan \in Seq(1 .. MaxEvents) /\ Len(chan) <= Capacity
  /\ typeOf \in Seq(Types)
  /\ enq = None \/ (enq.ev \in 1 .. MaxEvents /\ enq.todo \subseteq Endpoints)
  /\ DOMAIN rows \subseteq Ids
  /\ \A d \in DOMAIN rows :
       /\ rows[d].state \in {"pending", "delivered", "failed"}
       /\ rows[d].attempts \in 0 .. (MaxAttempts + MaxFaults)
       /\ rows[d].wait \in 0 .. 3600
  /\ wake \in BOOLEAN
  /\ DOMAIN batch \subseteq Ids /\ Cardinality(DOMAIN batch) <= BatchLimit
  /\ accepted \subseteq Ids

\* The deliveries are an at-least-once outbox: a delivery that shows as
\* delivered was accepted, nothing is sent for one that is finished, and none
\* stays pending for ever, although the process may die between the request
\* and the record of its outcome.
OutboxState(d) ==
  CASE d \in DOMAIN rows -> rows[d].state
    [] d \in created \ DOMAIN rows -> "removed"
    [] OTHER -> "none"
Outbox == INSTANCE WebhookOutbox WITH
            Deliveries <- Ids,
            state <- [d \in Ids |-> OutboxState(d)]
OutboxSpec == Outbox!Spec

\* The receiver sees a delivery at most MaxAttempts times, and once more for
\* each crash or failed database call that kept an outcome from being recorded.
PostsBounded == \A d \in Ids : posts[d] <= MaxAttempts + faults

\* No wake-up is lost: while nothing has gone wrong and no more deliveries were
\* ever created than fit in a batch (a wake-up serves one batch, what is left
\* over waits for the ticker), a delivery that has not been tried is in the
\* batch or a wake-up is coming, so it does not wait for the ticker.
NoLostWakeup ==
  (faults = 0 /\ Cardinality(created) <= BatchLimit /\ batch = << >>
     /\ posting = None /\ enq = None)
  => wake \/ \A d \in Due : posts[d] > 0

\* The comment on maxDeliveryAttempts: a delivery is given up after about 24
\* hours of retries (stated with four hours to spare).
RetryWindow ==
  \A d \in DOMAIN rows :
    rows[d].state = "failed" => waited[d] >= 20 * 3600

\* The comment on AllEventTypes: it is every event type, so each type that is
\* published can be named in a filter.
EveryTypeIsKnown ==
  \A i \in DOMAIN typeOf : ValidateEventFilter({typeOf[i]})
-----------------------------------------------------------------------------
(* The proofs, for any number of endpoints, events and failures: the         *)
(* deliveries implement the outbox (its safety part; that a delivery does    *)
(* not stay pending is left to TLC), the receiver sees each a bounded number *)
(* of times, and no wake-up is lost.                                         *)

States == {"pending", "delivered", "failed"}

\* A row of webhook_deliveries.
DeliveryRow(r) ==
  \E s \in States, a \in Nat : \E w : r = [state |-> s, attempts |-> a, wait |-> w]

\* An event is in one place at a time, and no delivery has been made of it
\* before it reaches its endpoint.
EventsSound ==
  /\ typeOf \in Seq(Types)
  /\ Len(typeOf) <= MaxEvents
  /\ chan \in Seq(Nat)
  /\ \A i \in 1 .. Len(chan) :
       /\ chan[i] \in 1 .. Len(typeOf)
       /\ \A d \in created : d.ev # chan[i]
       /\ enq # None => enq.ev # chan[i]
       /\ \A j \in 1 .. Len(chan) : chan[i] = chan[j] => i = j
  /\ created \subseteq Ids
  /\ \A d \in created : d.ev \in 1 .. Len(typeOf)
  /\ enq # None =>
       /\ enq \in [kind : {"enqueue"}, ev : 1 .. Len(typeOf), todo : SUBSET Endpoints]
       /\ \A e \in enq.todo : [ev |-> enq.ev, ep |-> e] \notin created

\* Deliveries are made for endpoints that exist and die with them; what the
\* cycle has read of an endpoint is its row or nothing of a deleted one.
EndpointsSound ==
  /\ DOMAIN endpoint = Endpoints
  /\ \A e \in Endpoints : Exists(e) => \E f, on : endpoint[e] = Row(f, on)
  /\ upd # None => upd.ep \in Endpoints /\ \E f, on : upd.row = Row(f, on)
  /\ \A d \in created : endpoint[d.ep].kind # "new"
  /\ \A d \in DOMAIN rows : Exists(d.ep)
  /\ \A e \in DOMAIN cache :
       /\ e \in Endpoints
       /\ cache[e].kind = "row" \/ (endpoint[e].kind # "new" /\ ~Exists(e))

Posted(d) == posting # None /\ posting.d = d

\* How row, batch, request and the history of one delivery fit together.
DeliverySound(d) ==
  /\ d \in DOMAIN rows =>
       /\ d \in created
       /\ DeliveryRow(rows[d])
       /\ rows[d].state = "pending" =>
            /\ rows[d].attempts < MaxAttempts
            /\ posts[d] <= rows[d].attempts + faults + (IF Posted(d) THEN 1 ELSE 0)
  /\ d \in DOMAIN batch =>
       /\ d \in created
       /\ batch[d] \in Nat
       /\ posts[d] < MaxAttempts + faults
       /\ d \in DOMAIN rows => rows[d].state = "pending" /\ batch[d] = rows[d].attempts
  /\ Posted(d) =>
       /\ d \in created
       /\ d \notin DOMAIN batch
       /\ posts[d] > 0
       /\ posting.ok => d \in accepted
       /\ d \in DOMAIN rows =>
            rows[d].state = "pending" /\ posting.attempts = rows[d].attempts
  /\ posts[d] \in 0 .. MaxAttempts + faults
  /\ d \notin created => posts[d] = 0

DeliveriesSound ==
  /\ faults \in Nat
  /\ DOMAIN rows \subseteq Ids
  /\ DOMAIN batch \subseteq Ids
  /\ DOMAIN posts = Ids
  /\ posting # None => posting \in [kind : {"posted"}, d : Ids, ok : BOOLEAN, attempts : Nat]
  /\ \A d \in Ids : DeliverySound(d)

OutboxInv == EventsSound /\ EndpointsSound /\ DeliveriesSound

\* No wake-up has been lost on the way to the batch.
Woken ==
  /\ IsFiniteSet(created)
  /\ (faults = 0 /\ Cardinality(created) <= BatchLimit) =>
       \A d \in DOMAIN rows :
         rows[d].state = "pending" /\ posts[d] = 0 =>
           rows[d].wait = 0 /\ (wake \/ d \in DOMAIN batch \/ enq # None)

\* What it means that nothing of a part changes.
LEMMA EventsUnchanged ==
  ASSUME EventsSound, UNCHANGED <<chan, typeOf, enq, created>> PROVE EventsSound'
BY DEF EventsSound

\* A published event is a new one, and a full buffer drops it.
LEMMA PublishKeepsEvents ==
  ASSUME MaxEvents \in Nat, EventsSound, NEW ty \in Types, Publish(ty) PROVE EventsSound'
<1>1. /\ typeOf \in Seq(Types) /\ typeOf' = Append(typeOf, ty) /\ Len(typeOf) < MaxEvents
      /\ chan \in Seq(Nat)
      /\ chan' = Append(chan, Len(typeOf) + 1) \/ chan' = chan
      /\ UNCHANGED <<enq, created>>
  BY DEF Publish, EventsSound, tables, deliv, history, counts
<1>2. /\ typeOf' \in Seq(Types) /\ Len(typeOf') = Len(typeOf) + 1 /\ Len(typeOf) \in Nat
      /\ Len(chan) \in Nat
  BY <1>1, AppendProperties, LenProperties
<1>3. \A n : n \in 1 .. Len(typeOf) => n \in 1 .. Len(typeOf') /\ n # Len(typeOf) + 1
  BY <1>2
<1>4. Len(typeOf) + 1 \in 1 .. Len(typeOf') /\ Len(typeOf') <= MaxEvents
  <2>1. Len(typeOf) + 1 <= MaxEvents
    BY <1>1, <1>2
  <2> QED BY <1>1, <1>2, <2>1
<1>5. /\ created' \subseteq Ids /\ \A d \in created' : d.ev \in 1 .. Len(typeOf')
      /\ enq' # None =>
           /\ enq' \in [kind : {"enqueue"}, ev : 1 .. Len(typeOf'), todo : SUBSET Endpoints]
           /\ \A e \in enq'.todo : [ev |-> enq'.ev, ep |-> e] \notin created'
  BY <1>1, <1>3 DEF EventsSound
<1>6. CASE chan' = chan
  BY <1>1, <1>2, <1>3, <1>4, <1>5, <1>6 DEF EventsSound
<1>7. CASE chan' = Append(chan, Len(typeOf) + 1)
  <2>1. /\ chan' \in Seq(Nat) /\ Len(chan') = Len(chan) + 1
        /\ \A i \in 1 .. Len(chan) : chan'[i] = chan[i]
        /\ chan'[Len(chan) + 1] = Len(typeOf) + 1
    BY <1>1, <1>2, <1>7, AppendProperties
  <2>2. \A i \in 1 .. Len(chan') : i \in 1 .. Len(chan) \/ i = Len(chan) + 1
    BY <1>2, <2>1
  <2>3. ASSUME NEW i \in 1 .. Len(chan')
        PROVE  /\ chan'[i] \in 1 .. Len(typeOf')
               /\ \A d \in created' : d.ev # chan'[i]
               /\ enq' # None => enq'.ev # chan'[i]
    <3>1. CASE i \in 1 .. Len(chan)
      BY <1>1, <1>3, <2>1, <3>1 DEF EventsSound
    <3>2. CASE i = Len(chan) + 1
      BY <1>1, <1>3, <1>4, <2>1, <3>2 DEF EventsSound
    <3> QED BY <2>2, <3>1, <3>2
  <2>4. ASSUME NEW i \in 1 .. Len(chan'), NEW j \in 1 .. Len(chan'), chan'[i] = chan'[j]
        PROVE  i = j
    <3>1. \A k \in 1 .. Len(chan) : chan'[k] # Len(typeOf) + 1
      BY <1>3, <2>1 DEF EventsSound
    <3>2. CASE i \in 1 .. Len(chan) /\ j \in 1 .. Len(chan)
      BY <2>1, <2>4, <3>2 DEF EventsSound
    <3> QED BY <2>1, <2>2, <2>4, <3>1, <3>2
  <2> QED BY <1>1, <1>2, <1>4, <1>5, <2>1, <2>3, <2>4 DEF EventsSound
<1> QED BY <1>1, <1>6, <1>7

\* The oldest event leaves the channel; it is in hand, or nobody wants it.
LEMMA TakeEventKeepsEvents == ASSUME EventsSound, TakeEvent PROVE EventsSound'
<1>1. /\ chan \in Seq(Nat) /\ chan # <<>> /\ chan' = Tail(chan) /\ enq = None
      /\ UNCHANGED <<typeOf, created>>
      /\ enq' = None
           \/ (enq'.ev = Head(chan)
                 /\ enq' \in [kind : {"enqueue"}, ev : {Head(chan)}, todo : SUBSET Endpoints])
  BY DEF TakeEvent, EventsSound, ListEnabled, None, tables, deliv, history
<1>2. /\ chan' \in Seq(Nat) /\ Len(chan') = Len(chan) - 1 /\ Len(chan) \in Nat /\ Len(chan) > 0
      /\ Head(chan) = chan[1] /\ \A i \in 1 .. Len(chan') : chan'[i] = chan[i + 1]
  BY <1>1, HeadTailProperties, LenProperties, EmptySeq
<1>3. \A i \in 1 .. Len(chan') : i + 1 \in 1 .. Len(chan) /\ i + 1 # 1
  BY <1>2
<1>4. 1 \in 1 .. Len(chan)
  BY <1>2
<1>5. ASSUME NEW i \in 1 .. Len(chan')
      PROVE  /\ chan'[i] \in 1 .. Len(typeOf')
             /\ \A d \in created' : d.ev # chan'[i]
             /\ enq' # None => enq'.ev # chan'[i]
  BY <1>1, <1>2, <1>3, <1>4 DEF EventsSound
<1>6. ASSUME NEW i \in 1 .. Len(chan'), NEW j \in 1 .. Len(chan'), chan'[i] = chan'[j]
      PROVE  i = j
  <2>1. i + 1 \in 1 .. Len(chan) /\ j + 1 \in 1 .. Len(chan) /\ chan[i + 1] = chan[j + 1]
    BY <1>2, <1>3, <1>6
  <2>2. i + 1 = j + 1
    BY <2>1 DEF EventsSound
  <2> QED BY <2>2
<1>7. chan[1] \in 1 .. Len(typeOf) /\ \A d \in created : d.ev # chan[1]
  BY <1>4 DEF EventsSound
<1>8. enq' # None =>
        /\ enq' \in [kind : {"enqueue"}, ev : 1 .. Len(typeOf'), todo : SUBSET Endpoints]
        /\ \A e \in enq'.todo : [ev |-> enq'.ev, ep |-> e] \notin created'
  BY <1>1, <1>2, <1>7
<1> QED BY <1>1, <1>2, <1>5, <1>6, <1>8 DEF EventsSound

\* One insert: the endpoint is no longer to be served with this event.
LEMMA DeliveryKeepsEvents ==
  ASSUME MaxEvents \in Nat, EventsSound, NEW e \in Endpoints, CreateWebhookDelivery(e) PROVE EventsSound'
<1> DEFINE n == [ev |-> enq.ev, ep |-> e]
<1>1. /\ enq # None /\ e \in enq.todo /\ enq' = [enq EXCEPT !.todo = @ \ {e}]
      /\ UNCHANGED <<chan, typeOf>>
      /\ created' = created \/ created' = created \cup {n}
  BY DEF CreateWebhookDelivery, deliv
<1>2. /\ enq \in [kind : {"enqueue"}, ev : 1 .. Len(typeOf), todo : SUBSET Endpoints]
      /\ enq.ev \in 1 .. Len(typeOf)
  BY <1>1 DEF EventsSound
<1>3. /\ enq' \in [kind : {"enqueue"}, ev : 1 .. Len(typeOf), todo : SUBSET Endpoints]
      /\ enq'.ev = enq.ev /\ enq'.todo = enq.todo \ {e}
  BY <1>1, <1>2
<1>4. n \in Ids
  <2>1. Len(typeOf) \in Nat /\ Len(typeOf) <= MaxEvents
    BY LenProperties DEF EventsSound
  <2>2. enq.ev \in 1 .. MaxEvents
    BY <1>2, <2>1
  <2> QED BY <2>2 DEF Ids
<1>5. \A d \in created' : d \in created \/ d = n
  BY <1>1
<1>6. created' \subseteq Ids /\ \A d \in created' : d.ev \in 1 .. Len(typeOf')
  BY <1>1, <1>2, <1>4, <1>5 DEF EventsSound
<1>7. \A x \in enq'.todo : [ev |-> enq'.ev, ep |-> x] \notin created'
  BY <1>1, <1>3, <1>5 DEF EventsSound
<1>8. ASSUME NEW i \in 1 .. Len(chan')
      PROVE  /\ chan'[i] \in 1 .. Len(typeOf')
             /\ \A d \in created' : d.ev # chan'[i]
             /\ enq' # None => enq'.ev # chan'[i]
             /\ \A j \in 1 .. Len(chan') : chan'[i] = chan'[j] => i = j
  BY <1>1, <1>3, <1>5 DEF EventsSound
<1> QED BY <1>1, <1>3, <1>6, <1>7, <1>8 DEF EventsSound

\* Every step keeps the events in order.
LEMMA EventsKept == ASSUME MaxEvents \in Nat, EventsSound, [Next]_vars PROVE EventsSound'
<1>1. CASE Crash
  <2>1. <<>> \in Seq(Nat) /\ Len(<<>>) = 0
    BY EmptySeq
  <2>2. /\ chan' = <<>> /\ enq' = None /\ UNCHANGED <<typeOf, created>>
    BY <1>1 DEF Crash, tables, history
  <2> QED BY <2>1, <2>2 DEF EventsSound
<1>2. CASE Wake
  <2>1. enq' = None /\ UNCHANGED <<chan, typeOf, created>>
    BY <1>2 DEF Wake, history
  <2> QED BY <2>1 DEF EventsSound
<1>3. CASE \/ \E e \in Endpoints :
                \/ \E f \in Filters, on \in BOOLEAN : Create(e, f, on)
                \/ UpdateRead(e) \/ Delete(e)
           \/ \E d \in Ids : Post(d) \/ LookupFails(d) \/ Elapse(d)
           \/ UpdateWrite \/ Poll \/ Mark \/ PruneWebhookDeliveries \/ UNCHANGED vars
  <2>1. UNCHANGED <<chan, typeOf, enq, created>>
    BY <1>3 DEF Create, UpdateRead, Delete, Post, LookupFails, Elapse, UpdateWrite, Poll, Mark,
                PruneWebhookDeliveries, vars, sub, history
  <2> QED BY <2>1, EventsUnchanged
<1> QED BY <1>1, <1>2, <1>3, PublishKeepsEvents, TakeEventKeepsEvents, DeliveryKeepsEvents DEF Next

\* Every step keeps what is known of the endpoints.
LEMMA EndpointsKept == ASSUME OutboxInv, [Next]_vars PROVE EndpointsSound'
<1> USE DEF OutboxInv
<1>1. /\ DOMAIN endpoint = Endpoints
      /\ \A d \in created : d.ep \in Endpoints
      /\ \A d \in DOMAIN rows : d.ep \in Endpoints /\ d \in created
  BY DEF EndpointsSound, EventsSound, DeliveriesSound, DeliverySound, Ids
<1>2. ASSUME NEW e \in Endpoints, NEW f \in Filters, NEW on \in BOOLEAN, Create(e, f, on)
      PROVE  EndpointsSound'
  <2>1. /\ endpoint[e].kind = "new" /\ endpoint' = [endpoint EXCEPT ![e] = Row(f, on)]
        /\ UNCHANGED <<rows, created, cache, upd>>
    BY <1>2 DEF Create, history, deliv
  <2>2. /\ DOMAIN endpoint' = Endpoints /\ endpoint'[e] = Row(f, on)
        /\ \A x \in Endpoints \ {e} : endpoint'[x] = endpoint[x]
    BY <1>1, <2>1
  <2>3. endpoint'[e].kind = "row"
    BY <2>2 DEF Row
  <2>4. \A x \in Endpoints : Exists(x)' => \E f1, on1 : endpoint'[x] = Row(f1, on1)
    BY <2>2 DEF EndpointsSound, Exists
  <2> QED BY <1>1, <2>1, <2>2, <2>3, <2>4 DEF EndpointsSound, Exists
<1>3. ASSUME NEW e \in Endpoints, UpdateRead(e) PROVE EndpointsSound'
  <2>1. PICK f0, on0 : endpoint[e] = Row(f0, on0)
    BY <1>3 DEF UpdateRead, EndpointsSound
  <2>2. PICK f, r : /\ r = [endpoint[e] EXCEPT !.events = f] \/ r = [endpoint[e] EXCEPT !.enabled = ~@]
                    /\ upd' = [kind |-> "update", ep |-> e, row |-> r]
    BY <1>3 DEF UpdateRead
  <2>3. upd'.ep = e /\ (upd'.row = Row(f, on0) \/ upd'.row = Row(f0, ~on0))
    BY <2>1, <2>2 DEF Row
  <2>4. UNCHANGED <<endpoint, rows, created, cache>>
    BY <1>3 DEF UpdateRead, tables, deliv, history
  <2> QED BY <2>3, <2>4 DEF EndpointsSound, Exists
<1>4. CASE UpdateWrite
  <2>1. /\ upd # None /\ upd' = None /\ UNCHANGED <<rows, created, cache>>
        /\ endpoint' = IF Exists(upd.ep) THEN [endpoint EXCEPT ![upd.ep] = upd.row] ELSE endpoint
    BY <1>4 DEF UpdateWrite, deliv, history
  <2>2. PICK f, on : upd.row = Row(f, on) /\ upd.ep \in Endpoints
    BY <2>1 DEF EndpointsSound
  <2>3. upd.row.kind = "row"
    BY <2>2 DEF Row
  <2>4. /\ DOMAIN endpoint' = Endpoints
        /\ \A x \in Endpoints :
             endpoint'[x] = endpoint[x] \/ (Exists(x) /\ endpoint'[x] = upd.row)
    BY <1>1, <2>1, <2>2
  <2>5. \A x \in Endpoints : Exists(x)' => \E f1, on1 : endpoint'[x] = Row(f1, on1)
    BY <2>2, <2>4 DEF EndpointsSound, Exists
  <2>6. \A x \in Endpoints : endpoint'[x].kind = endpoint[x].kind
    BY <2>3, <2>4 DEF Exists
  <2> QED BY <1>1, <2>1, <2>4, <2>5, <2>6 DEF EndpointsSound, Exists
<1>5. ASSUME NEW e \in Endpoints, Delete(e) PROVE EndpointsSound'
  <2>1. /\ endpoint' = [endpoint EXCEPT ![e] = [kind |-> "gone"]]
        /\ DOMAIN rows' = {d \in DOMAIN rows : d.ep # e}
        /\ UNCHANGED <<created, cache, upd>>
    BY <1>5 DEF Delete, deliv, history, Restrict
  <2> QED BY <1>1, <2>1 DEF EndpointsSound, Exists
<1>6. ASSUME NEW e \in Endpoints, CreateWebhookDelivery(e) PROVE EndpointsSound'
  <2> DEFINE n == [ev |-> enq.ev, ep |-> e]
  <2>1. /\ UNCHANGED <<endpoint, cache, upd>>
        /\ \/ /\ Exists(e) /\ created' = created \cup {n}
              /\ DOMAIN rows' = DOMAIN rows \cup {n}
           \/ UNCHANGED <<rows, created>>
    BY <1>6 DEF CreateWebhookDelivery, deliv, Put
  <2> QED BY <1>1, <2>1 DEF EndpointsSound, Exists
<1>7. ASSUME NEW d \in Ids, Post(d) PROVE EndpointsSound'
  <2>1. /\ d \in DOMAIN batch /\ cache' = Put(cache, d.ep, Lookup(d))
        /\ UNCHANGED <<endpoint, rows, upd, created>>
    BY <1>7 DEF Post, tables
  <2>2. d \in created /\ d.ep \in Endpoints /\ endpoint[d.ep].kind # "new"
    BY <2>1, <1>1 DEF DeliveriesSound, DeliverySound, EndpointsSound
  <2>3. Lookup(d).kind = "row" \/ (endpoint[d.ep].kind # "new" /\ ~Exists(d.ep))
    BY <2>2 DEF EndpointsSound, Lookup, Exists
  <2>4. /\ DOMAIN cache' = DOMAIN cache \cup {d.ep} /\ cache'[d.ep] = Lookup(d)
        /\ \A e \in DOMAIN cache \ {d.ep} : cache'[e] = cache[e]
    BY <2>1 DEF Put
  <2> QED BY <2>1, <2>2, <2>3, <2>4 DEF EndpointsSound, Exists
<1>8. CASE Poll \/ Crash
  <2>1. /\ cache' = <<>> /\ UNCHANGED <<endpoint, rows, created>> /\ (upd' = upd \/ upd' = None)
    BY <1>8 DEF Poll, Crash, tables, history
  <2>2. DOMAIN cache' = {}
    BY <2>1
  <2> QED BY <2>1, <2>2 DEF EndpointsSound, Exists
<1>9. CASE \/ \E ty \in Types : Publish(ty)
           \/ \E d \in Ids : LookupFails(d) \/ Elapse(d)
           \/ TakeEvent \/ Wake \/ Mark \/ PruneWebhookDeliveries \/ UNCHANGED vars
  <2>1. DOMAIN rows' \subseteq DOMAIN rows /\ UNCHANGED <<endpoint, created, cache, upd>>
    BY <1>9 DEF Publish, LookupFails, Elapse, TakeEvent, Wake, Mark, PruneWebhookDeliveries,
                vars, tables, deliv, history, Restrict
  <2> QED BY <2>1 DEF EndpointsSound, Exists
<1> QED BY <1>2, <1>3, <1>4, <1>5, <1>6, <1>7, <1>8, <1>9 DEF Next

\* How a row is made.
LEMMA RowIs ==
  ASSUME NEW s \in States, NEW a \in Nat, NEW w
  PROVE  DeliveryRow([state |-> s, attempts |-> a, wait |-> w])
BY Zenon DEF DeliveryRow

\* A step that leaves a delivery alone, or drops its row or its place in the
\* batch; a request is forgotten only where a fault is counted.
LEMMA DeliveryFrame ==
  ASSUME NEW d, DeliverySound(d), MaxAttempts \in Nat, faults \in Nat, faults' \in Nat,
         faults' >= faults,
         d \in created <=> d \in created',
         d \in DOMAIN rows' => d \in DOMAIN rows /\ rows'[d] = rows[d],
         d \in DOMAIN batch' => d \in DOMAIN batch /\ batch'[d] = batch[d],
         Posted(d)' => Posted(d) /\ posting' = posting,
         Posted(d) => Posted(d)' \/ faults' > faults,
         posts'[d] = posts[d], d \in accepted => d \in accepted'
  PROVE  DeliverySound(d)'
<1>1. posts[d] \in Nat /\ posts'[d] \in 0 .. MaxAttempts + faults'
  BY DEF DeliverySound
<1>2. ASSUME d \in DOMAIN rows', rows'[d].state = "pending"
      PROVE  /\ rows'[d].attempts < MaxAttempts
             /\ posts'[d] <= rows'[d].attempts + faults' + (IF Posted(d)' THEN 1 ELSE 0)
  <2>1. /\ d \in DOMAIN rows /\ rows'[d] = rows[d] /\ DeliveryRow(rows[d])
        /\ rows[d].attempts < MaxAttempts
        /\ posts[d] <= rows[d].attempts + faults + (IF Posted(d) THEN 1 ELSE 0)
    BY <1>2 DEF DeliverySound
  <2>2. rows[d].attempts \in Nat
    BY <2>1 DEF DeliveryRow
  <2> QED BY <1>1, <2>1, <2>2
<1>3. d \in DOMAIN batch' => posts'[d] < MaxAttempts + faults'
  BY <1>1 DEF DeliverySound
<1> QED BY <1>1, <1>2, <1>3 DEF DeliverySound

\* The insert of a new delivery.
LEMMA DeliveryCreated ==
  ASSUME OutboxInv, MaxEvents \in Nat, MaxAttempts \in Nat \ {0}, NEW e \in Endpoints,
         CreateWebhookDelivery(e)
  PROVE  DeliveriesSound'
<1> PICK n : n = [ev |-> enq.ev, ep |-> e]
  OBVIOUS
<1>1. /\ enq # None /\ e \in enq.todo /\ UNCHANGED <<batch, posting, accepted, posts>>
      /\ \/ rows' = Put(rows, n, [state |-> "pending", attempts |-> 0, wait |-> 0])
            /\ created' = created \cup {n} /\ UNCHANGED faults
         \/ UNCHANGED <<rows, created, faults>>
         \/ Fault /\ UNCHANGED <<rows, created>>
  BY DEF CreateWebhookDelivery, deliv
<1>2. faults \in Nat /\ faults' \in Nat /\ faults' >= faults
  BY <1>1 DEF Fault, OutboxInv, DeliveriesSound
<1>3. n \notin created /\ n \in Ids
  <2>1. /\ enq \in [kind : {"enqueue"}, ev : 1 .. Len(typeOf), todo : SUBSET Endpoints]
        /\ Len(typeOf) \in Nat /\ Len(typeOf) <= MaxEvents /\ n \notin created
    BY <1>1, LenProperties DEF OutboxInv, EventsSound
  <2>2. enq.ev \in 1 .. MaxEvents
    BY <2>1
  <2> QED BY <2>1, <2>2 DEF Ids
<1>4. CASE UNCHANGED <<rows, created>>
  <2>1. \A d \in Ids : DeliverySound(d)'
    BY <1>1, <1>2, <1>4, DeliveryFrame DEF OutboxInv, DeliveriesSound, Posted
  <2> QED BY <1>1, <1>2, <1>4, <2>1 DEF OutboxInv, DeliveriesSound
<1>5. CASE rows' = Put(rows, n, [state |-> "pending", attempts |-> 0, wait |-> 0])
             /\ created' = created \cup {n} /\ UNCHANGED faults
  <2>1. /\ DOMAIN rows' = DOMAIN rows \cup {n}
        /\ rows'[n] = [state |-> "pending", attempts |-> 0, wait |-> 0]
        /\ \A d \in DOMAIN rows \ {n} : rows'[d] = rows[d]
    BY <1>5 DEF Put
  <2>2. ASSUME NEW d \in Ids, d # n PROVE DeliverySound(d)'
    <3>1. DeliverySound(d) /\ (d \in created <=> d \in created')
      BY <1>5, <2>2 DEF OutboxInv, DeliveriesSound
    <3>2. d \in DOMAIN rows' => d \in DOMAIN rows /\ rows'[d] = rows[d]
      BY <2>1, <2>2
    <3> QED BY <1>1, <1>2, <3>1, <3>2, DeliveryFrame DEF Posted
  <2>3. DeliverySound(n)'
    <3>1. /\ n \notin DOMAIN batch /\ ~Posted(n) /\ posts[n] = 0
      BY <1>3 DEF OutboxInv, DeliveriesSound, DeliverySound
    <3>2. /\ n \in created' /\ DeliveryRow(rows'[n]) /\ rows'[n].attempts = 0
      BY <1>5, <2>1, RowIs DEF States
    <3>3. n \notin DOMAIN batch' /\ ~Posted(n)' /\ posts'[n] = 0
      BY <1>1, <3>1 DEF Posted
    <3> QED BY <1>2, <3>2, <3>3 DEF DeliverySound
  <2> QED BY <1>1, <1>2, <1>3, <2>1, <2>2, <2>3 DEF OutboxInv, DeliveriesSound
<1> QED BY <1>1, <1>4, <1>5

\* A row that is fetched is due, so it has attempts left.
LEMMA PollKeepsDeliveries ==
  ASSUME OutboxInv, MaxAttempts \in Nat \ {0}, Poll PROVE DeliveriesSound'
<1>1. /\ batch = << >> /\ posting = None /\ UNCHANGED <<rows, created, posting, accepted, posts>>
      /\ \/ Fault /\ UNCHANGED batch
         \/ UNCHANGED faults /\ \E S \in SUBSET Due : batch' = [d \in S |-> rows[d].attempts]
  BY DEF Poll, GetPendingDeliveries, tables, history
<1>2. faults \in Nat /\ faults' \in Nat /\ faults' >= faults
  BY <1>1 DEF Fault, OutboxInv, DeliveriesSound
<1>3. CASE UNCHANGED batch
  <2>1. \A d \in Ids : DeliverySound(d)'
    BY <1>1, <1>2, <1>3, DeliveryFrame DEF OutboxInv, DeliveriesSound, Posted
  <2> QED BY <1>1, <1>2, <1>3, <2>1 DEF OutboxInv, DeliveriesSound
<1>4. ASSUME NEW S \in SUBSET Due, batch' = [d \in S |-> rows[d].attempts], UNCHANGED faults
      PROVE  DeliveriesSound'
  <2>1. DOMAIN batch' = S /\ S \subseteq Ids
    BY <1>4 DEF Due, OutboxInv, DeliveriesSound
  <2>2. ASSUME NEW d \in Ids PROVE DeliverySound(d)'
    <3>0. DeliverySound(d) /\ ~Posted(d) /\ ~Posted(d)'
      BY <1>1 DEF OutboxInv, DeliveriesSound, Posted
    <3>1. CASE d \notin S
      BY <1>1, <1>2, <2>1, <3>0, <3>1, DeliveryFrame
    <3>2. CASE d \in S
      <4>1. /\ d \in DOMAIN rows /\ rows[d].state = "pending" /\ d \in created
            /\ DeliveryRow(rows[d]) /\ rows[d].attempts < MaxAttempts
            /\ posts[d] <= rows[d].attempts + faults + 0 /\ posts[d] \in 0 .. MaxAttempts + faults
        BY <3>0, <3>2 DEF Due, DeliverySound
      <4>2. /\ rows[d].attempts \in Nat /\ posts[d] < MaxAttempts + faults
            /\ posts[d] <= rows[d].attempts + faults
        <5>1. rows[d].attempts \in Nat
          BY <4>1 DEF DeliveryRow
        <5> QED BY <1>2, <4>1, <5>1
      <4>3. batch'[d] = rows[d].attempts /\ rows' = rows /\ created' = created /\ posts' = posts
            /\ faults' = faults
        BY <1>1, <1>4, <3>2
      <4> QED BY <3>0, <4>1, <4>2, <4>3 DEF DeliverySound
    <3> QED BY <3>1, <3>2
  <2> QED BY <1>1, <1>2, <2>1, <2>2 DEF OutboxInv, DeliveriesSound
<1> QED BY <1>1, <1>3, <1>4

\* A request counts before its outcome is recorded.
LEMMA PostKeepsDeliveries ==
  ASSUME OutboxInv, MaxAttempts \in Nat \ {0}, NEW x \in Ids, Post(x) PROVE DeliveriesSound'
<1>1. /\ posting = None /\ x \in DOMAIN batch /\ batch' = Restrict(batch, DOMAIN batch \ {x})
      /\ UNCHANGED <<rows, created, faults>> /\ faults \in Nat
  BY DEF Post, tables, counts, OutboxInv, DeliveriesSound
<1>2. DOMAIN batch' = DOMAIN batch \ {x} /\ \A d \in DOMAIN batch' : batch'[d] = batch[d]
  BY <1>1 DEF Restrict
<1>3. \A d : ~Posted(d)
  BY <1>1 DEF Posted
<1>4. CASE UNCHANGED <<posting, accepted, posts>>
  <2>1. \A d \in Ids : DeliverySound(d)'
    BY <1>1, <1>2, <1>4, DeliveryFrame DEF OutboxInv, DeliveriesSound, Posted
  <2> QED BY <1>1, <1>2, <1>4, <2>1 DEF OutboxInv, DeliveriesSound
<1>5. ASSUME NEW a \in Answers,
             posting' = [kind |-> "posted", d |-> x, ok |-> Success(a), attempts |-> batch[x]],
             accepted' = (IF a \in {"ok", "lost"} THEN accepted \cup {x} ELSE accepted),
             posts' = [posts EXCEPT ![x] = @ + 1]
      PROVE  DeliveriesSound'
  <2>0. DeliverySound(x) /\ DOMAIN posts = Ids
    BY DEF OutboxInv, DeliveriesSound
  <2>1. /\ posting' # None /\ posting'.d = x /\ posting'.attempts = batch[x] /\ batch[x] \in Nat
        /\ posting'.ok \in BOOLEAN /\ (posting'.ok => x \in accepted')
        /\ posting' \in [kind : {"posted"}, d : Ids, ok : BOOLEAN, attempts : Nat]
    <3>1. batch[x] \in Nat
      BY <1>1, <2>0 DEF DeliverySound
    <3> QED BY <1>5, <3>1 DEF None, Success
  <2>2. ASSUME NEW d \in Ids, d # x PROVE DeliverySound(d)'
    <3>1. DeliverySound(d) /\ ~Posted(d) /\ ~Posted(d)'
      BY <1>3, <2>1, <2>2 DEF OutboxInv, DeliveriesSound, Posted
    <3>2. posts'[d] = posts[d] /\ (d \in accepted => d \in accepted')
      BY <1>5, <2>0, <2>2
    <3> QED BY <1>1, <1>2, <3>1, <3>2, DeliveryFrame
  <2>3. DeliverySound(x)'
    <3>1. /\ posts[x] \in Nat /\ posts[x] < MaxAttempts + faults /\ x \in created
          /\ posts'[x] = posts[x] + 1
          /\ x \in DOMAIN rows => rows[x].state = "pending" /\ batch[x] = rows[x].attempts
                /\ DeliveryRow(rows[x]) /\ rows[x].attempts < MaxAttempts
                /\ posts[x] <= rows[x].attempts + faults
      BY <1>1, <1>3, <1>5, <2>0 DEF DeliverySound
    <3>2. posts'[x] \in 0 .. MaxAttempts + faults /\ posts'[x] > 0
      BY <1>1, <3>1
    <3>3. Posted(x)'
      BY <2>1 DEF Posted
    <3>4. x \in DOMAIN rows => posts'[x] <= rows[x].attempts + faults + 1
      <4> SUFFICES ASSUME x \in DOMAIN rows PROVE posts'[x] <= rows[x].attempts + faults + 1
        OBVIOUS
      <4>1. rows[x].attempts \in Nat
        BY <3>1 DEF DeliveryRow
      <4> QED BY <1>1, <3>1, <4>1
    <3> QED BY <1>1, <1>2, <2>1, <3>1, <3>2, <3>3, <3>4 DEF DeliverySound
  <2> QED BY <1>1, <1>2, <1>5, <2>0, <2>1, <2>2, <2>3 DEF OutboxInv, DeliveriesSound
<1> QED BY <1>4, <1>5 DEF Post

\* The outcome is recorded in a row that is still pending, or in none.
LEMMA MarkKeepsDeliveries ==
  ASSUME OutboxInv, MaxAttempts \in Nat \ {0}, Mark PROVE DeliveriesSound'
<1> PICK x, o : x = posting.d /\ o = Outcome(posting)
  OBVIOUS
<1>1. /\ posting # None /\ posting' = None /\ UNCHANGED <<batch, created, accepted, posts>>
      /\ posting \in [kind : {"posted"}, d : Ids, ok : BOOLEAN, attempts : Nat]
      /\ faults \in Nat /\ x \in Ids /\ DeliverySound(x) /\ Posted(x)
      /\ DOMAIN posts = Ids /\ DOMAIN rows \subseteq Ids
  BY DEF Mark, history, OutboxInv, DeliveriesSound, Posted
<1>2. ASSUME NEW d PROVE ~Posted(d)' /\ (Posted(d) => d = x)
  BY <1>1 DEF Posted
<1>3. CASE Fault /\ UNCHANGED rows
  <2>1. faults' = faults + 1
    BY <1>3 DEF Fault
  <2>2. ASSUME NEW d \in Ids PROVE DeliverySound(d)'
    BY <1>1, <1>2, <1>3, <2>1, DeliveryFrame DEF OutboxInv, DeliveriesSound
  <2> QED BY <1>1, <1>3, <2>1, <2>2 DEF OutboxInv, DeliveriesSound
<1>4. CASE x \notin DOMAIN rows /\ UNCHANGED <<rows, faults>>
  <2>1. ASSUME NEW d \in Ids, d # x PROVE DeliverySound(d)'
    BY <1>1, <1>2, <1>4, <2>1, DeliveryFrame DEF OutboxInv, DeliveriesSound
  <2>2. DeliverySound(x)'
    BY <1>1, <1>2, <1>4 DEF DeliverySound
  <2> QED BY <1>1, <1>4, <2>1, <2>2 DEF OutboxInv, DeliveriesSound
<1>5. ASSUME NEW w, x \in DOMAIN rows, UNCHANGED faults,
             rows' = [rows EXCEPT ![x] = [state |-> o, attempts |-> @.attempts + 1, wait |-> w]]
      PROVE  DeliveriesSound'
  <2>1. /\ rows[x].state = "pending" /\ posting.attempts = rows[x].attempts
        /\ posting.attempts \in Nat /\ posts[x] \in Nat
        /\ posts[x] <= rows[x].attempts + faults + 1
    BY <1>1, <1>5 DEF DeliverySound
  <2>2. /\ rows'[x] = [state |-> o, attempts |-> posting.attempts + 1, wait |-> w]
        /\ DOMAIN rows' = DOMAIN rows /\ \A d \in DOMAIN rows \ {x} : rows'[d] = rows[d]
    BY <1>5, <2>1
  <2>3. o \in States /\ (o = "pending" => posting.attempts + 1 < MaxAttempts)
    BY <1>1, <2>1 DEF Outcome, States
  <2>4. ASSUME NEW d \in Ids PROVE DeliverySound(d)'
    <3>1. CASE d # x
      BY <1>1, <1>2, <1>5, <2>2, <3>1, DeliveryFrame DEF OutboxInv, DeliveriesSound
    <3>2. CASE d = x
      <4>1. DeliveryRow(rows'[d]) /\ rows'[d].state = o /\ rows'[d].attempts = posting.attempts + 1
        BY <2>1, <2>2, <2>3, <3>2, RowIs
      <4>2. d \in created /\ d \notin DOMAIN batch /\ posts[d] \in 0 .. MaxAttempts + faults
        BY <1>1, <3>2 DEF DeliverySound
      <4>3. posts'[d] <= rows'[d].attempts + faults'
        BY <1>1, <1>5, <2>1, <3>2, <4>1
      <4> QED BY <1>1, <1>2, <1>5, <2>3, <4>1, <4>2, <4>3 DEF DeliverySound
    <3> QED BY <3>1, <3>2
  <2> QED BY <1>1, <1>5, <2>2, <2>4 DEF OutboxInv, DeliveriesSound
<1> QED BY <1>3, <1>4, <1>5 DEF Mark

\* Every step keeps row, batch and request of each delivery in step.
LEMMA DeliveriesKept ==
  ASSUME OutboxInv, MaxEvents \in Nat, MaxAttempts \in Nat \ {0}, [Next]_vars
  PROVE  DeliveriesSound'
<1>1. ASSUME NEW x \in Ids, Elapse(x) PROVE DeliveriesSound'
  <2>1. /\ x \in DOMAIN rows /\ rows' = [rows EXCEPT ![x].wait = 0]
        /\ UNCHANGED <<batch, posting, created, accepted, posts, faults>>
    BY <1>1 DEF Elapse, deliv, counts
  <2>2. PICK s \in States, a \in Nat : \E w : rows[x] = [state |-> s, attempts |-> a, wait |-> w]
    BY <2>1 DEF OutboxInv, DeliveriesSound, DeliverySound, DeliveryRow
  <2>3. /\ rows'[x] = [state |-> s, attempts |-> a, wait |-> 0] /\ DOMAIN rows' = DOMAIN rows
        /\ rows[x].state = s /\ rows[x].attempts = a
        /\ \A d \in DOMAIN rows \ {x} : rows'[d] = rows[d]
    BY <2>1, <2>2
  <2>4. ASSUME NEW d \in Ids PROVE DeliverySound(d)'
    <3>1. CASE d # x
      BY <2>1, <2>3, <3>1, DeliveryFrame DEF OutboxInv, DeliveriesSound, Posted
    <3>2. CASE d = x
      <4>1. DeliveryRow(rows'[x]) /\ rows'[x].state = rows[x].state
            /\ rows'[x].attempts = rows[x].attempts
        BY <2>2, <2>3, RowIs
      <4> QED BY <2>1, <2>3, <3>2, <4>1 DEF OutboxInv, DeliveriesSound, DeliverySound, Posted
    <3> QED BY <3>1, <3>2
  <2> QED BY <2>1, <2>3, <2>4 DEF OutboxInv, DeliveriesSound
<1>2. CASE \/ \E e \in Endpoints :
                \/ \E f \in Filters, on \in BOOLEAN : Create(e, f, on)
                \/ UpdateRead(e) \/ Delete(e)
           \/ \E ty \in Types : Publish(ty)
           \/ \E d \in Ids : LookupFails(d)
           \/ UpdateWrite \/ TakeEvent \/ Wake \/ PruneWebhookDeliveries \/ Crash \/ UNCHANGED vars
  <2>1. UNCHANGED <<created, accepted, posts>>
    BY <1>2 DEF Create, UpdateRead, Delete, Publish, LookupFails, UpdateWrite, TakeEvent, Wake,
                PruneWebhookDeliveries, Crash, vars, history
  <2>2. /\ faults \in Nat /\ faults' \in Nat /\ faults' >= faults
        /\ posting' = posting \/ (posting' = None /\ faults' > faults)
    <3>1. CASE TakeEvent \/ Crash \/ \E d \in Ids : LookupFails(d)
      <4>1. faults' = faults \/ faults' = faults + 1
        BY <3>1 DEF TakeEvent, Crash, LookupFails, Fault
      <4>2. posting' = posting \/ (posting' = None /\ faults' = faults + 1)
        BY <3>1 DEF TakeEvent, Crash, LookupFails, Fault, deliv
      <4> QED BY <4>1, <4>2 DEF OutboxInv, DeliveriesSound
    <3>2. CASE ~(TakeEvent \/ Crash \/ \E d \in Ids : LookupFails(d))
      <4>1. UNCHANGED <<faults, posting>>
        BY <1>2, <3>2 DEF Create, UpdateRead, Delete, Publish, UpdateWrite, Wake,
                          PruneWebhookDeliveries, vars, counts, deliv
      <4> QED BY <4>1 DEF OutboxInv, DeliveriesSound
    <3> QED BY <3>1, <3>2
  <2>3. /\ DOMAIN rows' \subseteq DOMAIN rows /\ \A d \in DOMAIN rows' : rows'[d] = rows[d]
    BY <1>2 DEF Create, UpdateRead, Delete, Publish, LookupFails, UpdateWrite, TakeEvent, Wake,
                PruneWebhookDeliveries, Crash, vars, tables, Restrict
  <2>4. /\ DOMAIN batch' \subseteq DOMAIN batch /\ \A d \in DOMAIN batch' : batch'[d] = batch[d]
    <3>1. CASE Crash
      <4>1. batch' = << >> /\ DOMAIN << >> = {}
        BY <3>1 DEF Crash
      <4> QED BY <4>1
    <3> QED BY <1>2, <3>1 DEF Create, UpdateRead, Delete, Publish, LookupFails, UpdateWrite,
                TakeEvent, Wake, PruneWebhookDeliveries, vars, deliv, Restrict
  <2>5. posting' # None => posting' = posting
    BY <2>2
  <2>6. ASSUME NEW d \in Ids PROVE DeliverySound(d)'
    <3>1. (Posted(d)' => Posted(d) /\ posting' = posting) /\ (Posted(d) => Posted(d)' \/ faults' > faults)
      BY <2>2 DEF Posted
    <3>2. DeliverySound(d)
      BY DEF OutboxInv, DeliveriesSound
    <3> QED BY <2>1, <2>2, <2>3, <2>4, <3>1, <3>2, DeliveryFrame
  <2> QED BY <2>1, <2>2, <2>3, <2>4, <2>5, <2>6 DEF OutboxInv, DeliveriesSound
<1> QED BY <1>1, <1>2, DeliveryCreated, PollKeepsDeliveries, PostKeepsDeliveries,
           MarkKeepsDeliveries DEF Next

\* The tables at the start of the process.
LEMMA OutboxStarts ==
  ASSUME MaxEvents \in Nat, MaxAttempts \in Nat \ {0}, Init PROVE OutboxInv
<1>1. <<>> \in Seq(Nat) /\ <<>> \in Seq(Types) /\ Len(<<>>) = 0 /\ DOMAIN << >> = {}
  BY EmptySeq
<1>2. EventsSound
  BY <1>1 DEF Init, EventsSound
<1>3. EndpointsSound
  BY <1>1 DEF Init, EndpointsSound, Exists
<1>4. DeliveriesSound
  BY <1>1 DEF Init, DeliveriesSound, DeliverySound, Posted
<1> QED BY <1>2, <1>3, <1>4 DEF OutboxInv

\* The worker keeps the invariant.
LEMMA OutboxKept ==
  ASSUME MaxEvents \in Nat, MaxAttempts \in Nat \ {0}, OutboxInv, [Next]_vars PROVE OutboxInv'
BY EventsKept, EndpointsKept, DeliveriesKept DEF OutboxInv

\* The invariant holds for any constants.
LEMMA OutboxInductive ==
  ASSUME MaxEvents \in Nat, MaxAttempts \in Nat \ {0} PROVE Spec => []OutboxInv
<1>1. Init => OutboxInv
  BY OutboxStarts
<1>2. OutboxInv /\ [Next]_vars => OutboxInv'
  BY OutboxKept
<1> QED BY <1>1, <1>2, PTL DEF Spec

\* The step of the outbox a step of the tables stands for: none, ...
LEMMA StutterMaps ==
  ASSUME \A d \in Ids : OutboxState(d)' = OutboxState(d), UNCHANGED accepted
  PROVE  UNCHANGED Outbox!vars
BY DEF Outbox!vars

\* ... one that changes the state of one delivery ...
LEMMA OneMaps ==
  ASSUME NEW x \in Ids, NEW s, OutboxState(x)' = s,
         \A d \in Ids \ {x} : OutboxState(d)' = OutboxState(d)
  PROVE  [d \in Ids |-> OutboxState(d)]' = [[d \in Ids |-> OutboxState(d)] EXCEPT ![x] = s]
OBVIOUS

\* ... or one that removes rows.
LEMMA RemovalMaps ==
  ASSUME OutboxInv, NEW T \in SUBSET DOMAIN rows, rows' = Restrict(rows, T),
         UNCHANGED <<created, accepted>>
  PROVE  [Outbox!Next]_(Outbox!vars)
<1> DEFINE S == DOMAIN rows \ T
<1>1. DOMAIN rows' = T /\ \A d \in T : rows'[d] = rows[d]
  BY DEF Restrict
<1>2. DOMAIN rows \subseteq Ids /\ \A d \in DOMAIN rows : d \in created /\ rows[d].state \in States
  <2>1. /\ DOMAIN rows \subseteq Ids
        /\ \A d \in DOMAIN rows : d \in created /\ DeliveryRow(rows[d])
    BY DEF OutboxInv, DeliveriesSound, DeliverySound
  <2> QED BY <2>1 DEF DeliveryRow
<1>3. \A d \in Ids \ S : OutboxState(d)' = OutboxState(d)
  BY <1>1 DEF OutboxState
<1>4. \A d \in S : OutboxState(d)' = "removed" /\ OutboxState(d) \in States
  BY <1>1, <1>2 DEF OutboxState
<1>5. CASE S = {}
  BY <1>3, <1>5, StutterMaps
<1>6. CASE S # {}
  <2>1. S \in SUBSET Ids
    BY <1>2
  <2>2. Outbox!Remove(S)
    BY <1>3, <1>4, <1>6, <2>1 DEF Outbox!Remove, States
  <2> QED BY <2>1, <2>2 DEF Outbox!Next
<1> QED BY <1>5, <1>6

\* The insert of a row enqueues a delivery that had none before.
LEMMA CreationMaps ==
  ASSUME OutboxInv, OutboxInv', NEW e \in Endpoints, CreateWebhookDelivery(e)
  PROVE  [Outbox!Next]_(Outbox!vars)
<1> PICK n : n = [ev |-> enq.ev, ep |-> e]
  OBVIOUS
<1>1. /\ enq # None /\ e \in enq.todo /\ UNCHANGED accepted
      /\ \/ rows' = Put(rows, n, [state |-> "pending", attempts |-> 0, wait |-> 0])
            /\ created' = created \cup {n}
         \/ UNCHANGED <<rows, created>>
  BY DEF CreateWebhookDelivery
<1>2. n \notin created
  BY <1>1 DEF OutboxInv, EventsSound
<1>3. CASE UNCHANGED <<rows, created>>
  BY <1>1, <1>3, StutterMaps DEF OutboxState
<1>4. CASE rows' = Put(rows, n, [state |-> "pending", attempts |-> 0, wait |-> 0])
             /\ created' = created \cup {n}
  <2>1. n \in Ids
    BY <1>4 DEF OutboxInv, EventsSound
  <2>2. /\ DOMAIN rows' = DOMAIN rows \cup {n} /\ rows'[n].state = "pending"
        /\ \A d \in DOMAIN rows \ {n} : rows'[d] = rows[d]
    BY <1>4 DEF Put
  <2>3. n \notin DOMAIN rows
    BY <1>2, <2>1 DEF OutboxInv, DeliveriesSound, DeliverySound
  <2>4. OutboxState(n) = "none" /\ OutboxState(n)' = "pending"
    BY <1>2, <2>2, <2>3 DEF OutboxState
  <2>5. \A d \in Ids \ {n} : OutboxState(d)' = OutboxState(d)
    BY <1>4, <2>2 DEF OutboxState
  <2>6. Outbox!Enqueue(n)
    BY <1>1, <2>1, <2>4, <2>5, OneMaps DEF Outbox!Enqueue
  <2> QED BY <2>1, <2>6 DEF Outbox!Next
<1> QED BY <1>1, <1>3, <1>4

\* A request is sent only for a delivery that is pending, or whose row has gone
\* since the batch was fetched.
LEMMA PostMaps ==
  ASSUME OutboxInv, NEW x \in Ids, Post(x) PROVE [Outbox!Next]_(Outbox!vars)
<1>1. /\ x \in DOMAIN batch /\ UNCHANGED <<rows, created>>
      /\ accepted' = accepted \/ accepted' = accepted \cup {x}
  BY DEF Post, tables
<1>2. OutboxState(x) \in {"pending", "removed"}
  BY <1>1 DEF OutboxInv, DeliveriesSound, DeliverySound, OutboxState
<1>3. \A d \in Ids : OutboxState(d)' = OutboxState(d)
  BY <1>1 DEF OutboxState
<1>4. CASE accepted' = accepted
  BY <1>3, <1>4, StutterMaps
<1>5. CASE accepted' = accepted \cup {x}
  <2>1. Outbox!Accept(x)
    BY <1>2, <1>3, <1>5 DEF Outbox!Accept
  <2> QED BY <2>1 DEF Outbox!Next
<1> QED BY <1>1, <1>4, <1>5

\* A recorded outcome delivers, gives up or keeps waiting.
LEMMA MarkMaps == ASSUME OutboxInv, Mark PROVE [Outbox!Next]_(Outbox!vars)
<1> PICK x, o : x = posting.d /\ o = Outcome(posting)
  OBVIOUS
<1>1. /\ posting # None /\ UNCHANGED <<created, accepted>> /\ x \in Ids /\ Posted(x)
      /\ DeliverySound(x) /\ posting.ok \in BOOLEAN
  BY DEF Mark, history, OutboxInv, DeliveriesSound, Posted
<1>2. CASE UNCHANGED rows
  BY <1>1, <1>2, StutterMaps DEF OutboxState
<1>3. ASSUME NEW a, NEW w, x \in DOMAIN rows,
             rows' = [rows EXCEPT ![x] = [state |-> o, attempts |-> a, wait |-> w]]
      PROVE  [Outbox!Next]_(Outbox!vars)
  <2>1. /\ DOMAIN rows' = DOMAIN rows /\ rows'[x].state = o
        /\ \A d \in DOMAIN rows \ {x} : rows'[d] = rows[d]
    BY <1>3
  <2>2. OutboxState(x) = "pending" /\ OutboxState(x)' = o
    BY <1>1, <1>3, <2>1 DEF DeliverySound, OutboxState
  <2>3. \A d \in Ids \ {x} : OutboxState(d)' = OutboxState(d)
    BY <1>1, <2>1 DEF OutboxState
  <2>4. CASE posting.ok
    <3>1. o = "delivered" /\ x \in accepted
      BY <1>1, <2>4 DEF Outcome, DeliverySound
    <3>2. Outbox!Deliver(x)
      BY <1>1, <2>2, <2>3, <3>1, OneMaps DEF Outbox!Deliver
    <3> QED BY <1>1, <3>2 DEF Outbox!Next
  <2>5. CASE ~posting.ok /\ o = "failed"
    <3>1. Outbox!GiveUp(x)
      BY <1>1, <2>2, <2>3, <2>5, OneMaps DEF Outbox!GiveUp
    <3> QED BY <1>1, <3>1 DEF Outbox!Next
  <2>6. CASE o = "pending"
    BY <1>1, <2>2, <2>3, <2>6, StutterMaps
  <2>7. posting.ok \/ (~posting.ok /\ o = "failed") \/ o = "pending"
    BY <1>1 DEF Outcome
  <2> QED BY <2>4, <2>5, <2>6, <2>7
<1> QED BY <1>2, <1>3 DEF Mark

\* Whatever interleaves with the deliveries, is lost in a crash or fails: the
\* tables implement the outbox.  A delivery is shown as delivered only after the
\* receiver accepted it, and nothing is sent for one that is finished.
THEOREM ImplementsOutbox ==
  ASSUME MaxEvents \in Nat, MaxAttempts \in Nat \ {0} PROVE Spec => Outbox!Safety
<1>1. Init => Outbox!Init
  <2>1. DOMAIN << >> = {}
    OBVIOUS
  <2> QED BY <2>1 DEF Init, Outbox!Init, OutboxState
<1>2. ASSUME OutboxInv, OutboxInv', [Next]_vars PROVE [Outbox!Next]_(Outbox!vars)
  <2>1. CASE \/ \E e \in Endpoints :
                  (\E f \in Filters, on \in BOOLEAN : Create(e, f, on)) \/ UpdateRead(e)
             \/ \E ty \in Types : Publish(ty)
             \/ \E d \in Ids : LookupFails(d)
             \/ UpdateWrite \/ TakeEvent \/ Wake \/ Poll \/ Crash \/ UNCHANGED vars
    <3>1. UNCHANGED <<rows, created, accepted>>
      BY <2>1 DEF Create, UpdateRead, Publish, LookupFails, UpdateWrite, TakeEvent, Wake, Poll,
                  Crash, vars, tables, history
    <3> QED BY <3>1, StutterMaps DEF OutboxState
  <2>2. ASSUME NEW e \in Endpoints, Delete(e) PROVE [Outbox!Next]_(Outbox!vars)
    <3>1. /\ rows' = Restrict(rows, {d \in DOMAIN rows : d.ep # e})
          /\ UNCHANGED <<created, accepted>>
      BY <2>2 DEF Delete, history
    <3> QED BY <1>2, <3>1, RemovalMaps
  <2>3. CASE PruneWebhookDeliveries
    <3>1. PICK S \in SUBSET Prunable : rows' = Restrict(rows, DOMAIN rows \ S)
      BY <2>3 DEF PruneWebhookDeliveries
    <3>2. UNCHANGED <<created, accepted>>
      BY <2>3 DEF PruneWebhookDeliveries, history
    <3> QED BY <1>2, <3>1, <3>2, RemovalMaps
  <2>4. ASSUME NEW x \in Ids, Elapse(x) PROVE [Outbox!Next]_(Outbox!vars)
    <3>1. /\ x \in DOMAIN rows /\ rows' = [rows EXCEPT ![x].wait = 0]
          /\ UNCHANGED <<created, accepted>> /\ DeliveryRow(rows[x])
      BY <1>2, <2>4 DEF Elapse, OutboxInv, DeliveriesSound, DeliverySound
    <3>2. DOMAIN rows' = DOMAIN rows /\ \A d \in DOMAIN rows : rows'[d].state = rows[d].state
      BY <3>1 DEF DeliveryRow
    <3> QED BY <3>1, <3>2, StutterMaps DEF OutboxState
  <2> QED BY <1>2, <2>1, <2>2, <2>3, <2>4, CreationMaps, PostMaps, MarkMaps DEF Next
<1> QED BY <1>1, <1>2, OutboxInductive, PTL DEF Spec, Outbox!Safety

\* What the tables say of the posts.
LEMMA OutboxBounds == OutboxInv => PostsBounded
  BY DEF OutboxInv, DeliveriesSound, DeliverySound, PostsBounded

\* The receiver sees a delivery at most MaxAttempts times, and once more for
\* each crash or failed database call that kept an outcome from being recorded.
THEOREM PostsAreBounded ==
  ASSUME MaxEvents \in Nat, MaxAttempts \in Nat \ {0} PROVE Spec => []PostsBounded
<1>1. OutboxInv => PostsBounded
  BY OutboxBounds
<1> QED BY <1>1, OutboxInductive, PTL

\* The lesser of two numbers.
LEMMA MinOfTwo == ASSUME NEW a \in Nat, NEW b \in Nat, b <= a PROVE Min({a, b}) = b
<1>1. b \in {a, b} /\ \A y \in {a, b} : b =< y
  OBVIOUS
<1>2. \A x \in {a, b} : (\A y \in {a, b} : x =< y) => x = b
  OBVIOUS
<1> QED BY <1>1, <1>2, Zenon DEF Min

\* While all deliveries fit in a batch, a poll fetches every row that is due.
LEMMA PollFetchesAll ==
  ASSUME NEW S \in GetPendingDeliveries, Due \subseteq created, IsFiniteSet(created),
         BatchLimit \in Nat, Cardinality(created) <= BatchLimit
  PROVE  S = Due
<1>1. /\ IsFiniteSet(Due) /\ Cardinality(Due) <= Cardinality(created)
      /\ Cardinality(Due) \in Nat /\ Cardinality(created) \in Nat
  BY FS_Subset, FS_CardinalityType
<1>2. Cardinality(S) = Min({BatchLimit, Cardinality(Due)}) /\ S \in SUBSET Due
  BY DEF GetPendingDeliveries
<1>3. Cardinality(Due) <= BatchLimit
  BY <1>1
<1>4. Cardinality(S) = Cardinality(Due)
  BY <1>1, <1>2, <1>3, MinOfTwo
<1> QED BY <1>1, <1>2, <1>4, FS_Subset

\* What a step adds to the deliveries, and when nothing has gone wrong.
LEMMA CreatedGrows ==
  ASSUME OutboxInv, OutboxInv', IsFiniteSet(created), [Next]_vars
  PROVE  /\ created \subseteq created' /\ IsFiniteSet(created')
         /\ Cardinality(created) <= Cardinality(created')
         /\ faults' >= faults
<1>1. created' = created \/ \E n : created' = created \cup {n}
  BY DEF Next, Create, UpdateRead, Delete, CreateWebhookDelivery, Publish, Post, LookupFails,
         Elapse, UpdateWrite, TakeEvent, Wake, Poll, Mark, PruneWebhookDeliveries, Crash, vars,
         history
<1>2. created \subseteq created' /\ IsFiniteSet(created')
  BY <1>1, FS_AddElement
<1>3. Cardinality(created) <= Cardinality(created')
  BY <1>2, FS_Subset
<1>4. faults' = faults \/ faults' = faults + 1
  <2>1. CASE TakeEvent \/ Crash \/ Poll \/ Mark \/ (\E d \in Ids : LookupFails(d))
               \/ \E e \in Endpoints : CreateWebhookDelivery(e)
    BY <2>1 DEF TakeEvent, Crash, Poll, Mark, LookupFails, CreateWebhookDelivery, Fault
  <2>2. CASE ~(TakeEvent \/ Crash \/ Poll \/ Mark \/ (\E d \in Ids : LookupFails(d))
               \/ \E e \in Endpoints : CreateWebhookDelivery(e))
    BY <2>2 DEF Next, Create, UpdateRead, Delete, Publish, Post, Elapse, UpdateWrite, Wake,
                PruneWebhookDeliveries, vars, counts
  <2> QED BY <2>1, <2>2
<1> QED BY <1>2, <1>3, <1>4 DEF OutboxInv, DeliveriesSound

\* Every step hands a delivery that has not been tried on to the batch.
LEMMA WokenKept ==
  ASSUME OutboxInv, OutboxInv', Woken, BatchLimit \in Nat, [Next]_vars PROVE Woken'
<1> SUFFICES ASSUME faults' = 0, Cardinality(created') <= BatchLimit,
                    NEW d \in DOMAIN rows', rows'[d].state = "pending", posts'[d] = 0
             PROVE  rows'[d].wait = 0 /\ (wake' \/ d \in DOMAIN batch' \/ enq' # None)
  BY CreatedGrows DEF Woken
<1>1. /\ faults = 0 /\ Cardinality(created) <= BatchLimit /\ IsFiniteSet(created)
      /\ d \in Ids /\ posts[d] \in Nat /\ DOMAIN posts = Ids /\ ~Fault
  <2>1. IsFiniteSet(created)
    BY DEF Woken
  <2>2. faults \in Nat /\ faults' >= faults /\ Cardinality(created) <= Cardinality(created')
        /\ IsFiniteSet(created')
    BY <2>1, CreatedGrows DEF OutboxInv, DeliveriesSound
  <2>3. Cardinality(created) \in Nat /\ Cardinality(created') \in Nat
    BY <2>1, <2>2, FS_CardinalityType
  <2>4. d \in Ids /\ posts[d] \in Nat /\ DOMAIN posts = Ids
    BY DEF OutboxInv, DeliveriesSound, DeliverySound
  <2> QED BY <2>1, <2>2, <2>3, <2>4 DEF Fault
<1>2. \A x \in DOMAIN rows : rows[x].state = "pending" /\ posts[x] = 0 =>
        rows[x].wait = 0 /\ (wake \/ x \in DOMAIN batch \/ enq # None)
  BY <1>1 DEF Woken
<1>3. CASE \/ \E e \in Endpoints :
                \/ \E f \in Filters, on \in BOOLEAN : Create(e, f, on)
                \/ UpdateRead(e) \/ Delete(e)
           \/ \E ty \in Types : Publish(ty)
           \/ UpdateWrite \/ PruneWebhookDeliveries \/ UNCHANGED vars
  <2>1. UNCHANGED <<wake, batch, enq, posts>>
    BY <1>3 DEF Create, UpdateRead, Delete, Publish, UpdateWrite, PruneWebhookDeliveries, vars,
                sub, deliv, history
  <2>2. d \in DOMAIN rows /\ rows'[d] = rows[d]
    BY <1>3 DEF Create, UpdateRead, Delete, Publish, UpdateWrite, PruneWebhookDeliveries, vars,
                tables, Restrict
  <2> QED BY <1>2, <2>1, <2>2
<1>4. CASE TakeEvent \/ Wake
  <2>1. UNCHANGED <<rows, batch, posts>> /\ (wake' = TRUE \/ (enq = None /\ wake' = wake))
    BY <1>4 DEF TakeEvent, Wake, tables, deliv, history
  <2> QED BY <1>2, <2>1
<1>5. ASSUME NEW e \in Endpoints, CreateWebhookDelivery(e)
      PROVE  rows'[d].wait = 0 /\ (wake' \/ d \in DOMAIN batch' \/ enq' # None)
  <2> PICK n : n = [ev |-> enq.ev, ep |-> e]
    OBVIOUS
  <2>1. /\ enq # None /\ enq' = [enq EXCEPT !.todo = @ \ {e}] /\ UNCHANGED posts
        /\ \/ rows' = Put(rows, n, [state |-> "pending", attempts |-> 0, wait |-> 0])
           \/ UNCHANGED rows
    BY <1>5 DEF CreateWebhookDelivery
  <2>2. enq' # None
    <3>1. enq \in [kind : {"enqueue"}, ev : 1 .. Len(typeOf), todo : SUBSET Endpoints]
      BY <2>1 DEF OutboxInv, EventsSound
    <3>2. enq'.kind = "enqueue"
      BY <2>1, <3>1
    <3> QED BY <3>2 DEF None
  <2>3. CASE UNCHANGED rows
    BY <1>2, <2>1, <2>2, <2>3
  <2>4. CASE rows' = Put(rows, n, [state |-> "pending", attempts |-> 0, wait |-> 0])
    <3>1. /\ DOMAIN rows' = DOMAIN rows \cup {n}
          /\ rows'[n] = [state |-> "pending", attempts |-> 0, wait |-> 0]
          /\ \A x \in DOMAIN rows \ {n} : rows'[x] = rows[x]
      BY <2>4 DEF Put
    <3>2. CASE d = n
      BY <2>2, <3>1, <3>2
    <3>3. CASE d # n
      BY <1>2, <2>1, <2>2, <3>1, <3>3
    <3> QED BY <3>2, <3>3
  <2> QED BY <2>1, <2>3, <2>4
<1>6. CASE Poll
  <2>1. PICK S \in GetPendingDeliveries : batch' = [x \in S |-> rows[x].attempts]
    BY <1>1, <1>6 DEF Poll
  <2>2. UNCHANGED <<rows, posts>>
    BY <1>6 DEF Poll, tables, history
  <2>3. Due \subseteq created
    BY DEF Due, OutboxInv, DeliveriesSound, DeliverySound
  <2>4. S = Due
    BY <1>1, <2>3, PollFetchesAll
  <2>5. d \in Due /\ rows[d].wait = 0
    BY <1>2, <2>2 DEF Due
  <2> QED BY <2>1, <2>2, <2>4, <2>5
<1>7. ASSUME NEW x \in Ids, Post(x)
      PROVE  rows'[d].wait = 0 /\ (wake' \/ d \in DOMAIN batch' \/ enq' # None)
  <2>1. /\ UNCHANGED <<rows, wake, enq>> /\ DOMAIN batch' = DOMAIN batch \ {x}
        /\ x \in DOMAIN batch
    BY <1>7 DEF Post, tables, sub, Restrict
  <2>2. CASE Lookup(x).kind # "row"
    <3>1. x \in created /\ x.ep \in Endpoints
      BY <2>1 DEF OutboxInv, DeliveriesSound, DeliverySound, Ids
    <3>2. ~Exists(x.ep)
      BY <2>2, <3>1 DEF Lookup, OutboxInv, EndpointsSound, Exists
    <3>3. x \notin DOMAIN rows
      BY <3>2 DEF OutboxInv, EndpointsSound
    <3>4. UNCHANGED posts
      BY <1>7, <2>2 DEF Post
    <3> QED BY <1>2, <2>1, <3>3, <3>4
  <2>3. CASE Lookup(x).kind = "row"
    <3>1. posts' = [posts EXCEPT ![x] = @ + 1]
      BY <1>7, <2>3 DEF Post
    <3>2. d # x /\ posts'[d] = posts[d]
      BY <1>1, <3>1
    <3> QED BY <1>2, <2>1, <3>2
  <2> QED BY <2>2, <2>3
<1>8. CASE Mark
  <2> PICK x, o : x = posting.d /\ o = Outcome(posting)
    OBVIOUS
  <2>1. /\ posting # None /\ UNCHANGED <<wake, batch, enq, posts>>
        /\ x \in Ids /\ DeliverySound(x) /\ Posted(x)
    BY <1>8 DEF Mark, sub, history, OutboxInv, DeliveriesSound, Posted
  <2>2. d # x
    BY <2>1 DEF DeliverySound
  <2>3. d \in DOMAIN rows /\ rows'[d] = rows[d]
    BY <1>1, <1>8, <2>2 DEF Mark
  <2> QED BY <1>2, <2>1, <2>3
<1>9. ASSUME NEW x \in Ids, Elapse(x)
      PROVE  rows'[d].wait = 0 /\ (wake' \/ d \in DOMAIN batch' \/ enq' # None)
  <2>1. /\ x \in DOMAIN rows /\ rows' = [rows EXCEPT ![x].wait = 0]
        /\ UNCHANGED <<wake, batch, enq, posts>> /\ DeliveryRow(rows[x])
    BY <1>9 DEF Elapse, sub, deliv, OutboxInv, DeliveriesSound, DeliverySound
  <2>2. d \in DOMAIN rows /\ rows'[d].state = rows[d].state
        /\ (rows'[d].wait = 0 \/ rows'[d].wait = rows[d].wait)
    BY <2>1 DEF DeliveryRow
  <2> QED BY <1>2, <2>1, <2>2
<1>10. ~Crash /\ \A x \in Ids : ~LookupFails(x)
  BY <1>1 DEF Crash, LookupFails
<1> QED BY <1>3, <1>4, <1>5, <1>6, <1>7, <1>8, <1>9, <1>10 DEF Next

\* Nothing waits at the start ...
LEMMA WokenStarts == ASSUME Init PROVE Woken
<1>1. DOMAIN << >> = {} /\ IsFiniteSet({})
  BY FS_EmptySet
<1> QED BY <1>1 DEF Init, Woken

\* ... and what waits for no batch and no insert has its wake-up.
LEMMA WokenPromises == OutboxInv /\ Woken => NoLostWakeup
<1> SUFFICES ASSUME OutboxInv, Woken, faults = 0, Cardinality(created) <= BatchLimit,
                    batch = << >>, enq = None, NEW d \in Due, posts[d] = 0
             PROVE  wake
  BY DEF NoLostWakeup, OutboxInv, DeliveriesSound, DeliverySound, Due
<1>1. DOMAIN batch = {}
  OBVIOUS
<1> QED BY <1>1 DEF Woken, Due

\* While nothing has failed and no more deliveries were ever created than fit
\* in a batch, none that is due waits for the ticker: it is in the batch, or a
\* wake-up is coming.
THEOREM WakeupIsNotLost ==
  ASSUME MaxEvents \in Nat, MaxAttempts \in Nat \ {0}, BatchLimit \in Nat
  PROVE  Spec => []NoLostWakeup
<1>1. Init => Woken
  BY WokenStarts
<1>2. ASSUME OutboxInv, OutboxInv', Woken, [Next]_vars PROVE Woken'
  BY <1>2, WokenKept
<1>3. OutboxInv /\ Woken => NoLostWakeup
  BY WokenPromises
<1> QED BY <1>1, <1>2, <1>3, OutboxInductive, PTL DEF Spec
=============================================================================

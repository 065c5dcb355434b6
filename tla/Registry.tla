------------------------------ MODULE Registry ------------------------------
(* One worker node in the controller's registry (cluster/registry.go): the   *)
(* worker's registration loop (cli/serve_worker.go), the Register and        *)
(* Heartbeat handlers (cluster/grpc.go), the reaper, and the callbacks by    *)
(* which the gameserver manager watches the worker's events and gives its    *)
(* gameservers the connection (gameserver/manager.go).  The registry's lock  *)
(* covers its map only: the table and the callbacks are steps of their own.  *)
EXTENDS Naturals, FiniteSets

CONSTANTS Handlers,   \* Heartbeat handlers that may run at the same time
          MaxConns,   \* bound: dial-backs
          MaxDowns,   \* bound: link failures between worker and controller
          Reaper      \* the reaper's goroutine

Conns   == 1 .. MaxConns
Offliners == Conns \cup {Reaper}   \* goroutines that call SetOffline

VARIABLES loop,      \* the worker's registration loop
          up,        \* the link works
          conn,      \* the registered connection, 0 for none
          stale,     \* LastSeen is older than the heartbeat timeout
          db,        \* status column of the worker's row
          open,      \* connections not closed yet
          made,      \* connections dialled so far
          hb,        \* where each Heartbeat handler is, and its connection
          off,       \* where each SetOffline is
          watch,     \* watchWorkerEvents of each connection
          cancels,   \* workerCancels: the connection of the current context
          cancelled, \* connections whose context was cancelled
          gsWorker,  \* the connection held by the node's gameservers
          downs

reg  == <<conn, stale, open>>
mgr  == <<watch, cancels, cancelled, gsWorker>>
vars == <<loop, up, conn, stale, db, open, made, hb, off, watch, cancels,
          cancelled, gsWorker, downs>>

NoCall == [pc |-> "idle", c |-> 0, answers |-> FALSE]

\* LoadFromDB: a worker known from an earlier run starts offline.
Init ==
  /\ loop = "register"
  /\ up = TRUE
  /\ conn = 0
  /\ stale = FALSE
  /\ db \in {"absent", "offline"}
  /\ open = {}
  /\ made = 0
  /\ hb = [h \in Handlers |-> NoCall]
  /\ off = [t \in Offliners |-> "idle"]
  /\ watch = [c \in Conns |-> "none"]
  /\ cancels = 0
  /\ cancelled = {}
  /\ gsWorker = 0
  /\ downs = 0

At(h, pc) == hb[h].pc = pc
Go(h, pc) == hb' = [hb EXCEPT ![h].pc = pc]

\* The answer reaches the worker if it is still waiting for this call.
Answer(h, state) ==
  /\ hb' = [hb EXCEPT ![h] = NoCall]
  /\ loop' = IF hb[h].answers THEN state ELSE loop

\* Mutant: no status is stored for a row written without one.
RegisterNoStatus ==
  /\ loop = "register"
  /\ up
  /\ loop' = "beat"
  /\ db' = ""
  /\ UNCHANGED <<up, reg, made, hb, off, mgr, downs>>

\* Register: the row is written; UpsertWorkerNode stores "offline" when it is
\* given no status.  A rejected or failed call is retried, and changes nothing.
Register ==
  /\ loop = "register"
  /\ up
  /\ loop' = "beat"
  /\ db' = "offline"
  /\ UNCHANGED <<up, reg, made, hb, off, mgr, downs>>

\* Heartbeat: UpdateHeartbeat refreshes a connected worker; otherwise the
\* handler goes on to dial back, if the row is known.
Heartbeat(h) ==
  /\ loop = "beat"
  /\ up
  /\ At(h, "idle")
  /\ IF conn # 0
     THEN /\ stale' = FALSE
          /\ hb' = [hb EXCEPT ![h] = [pc |-> "upsert", c |-> 0, answers |-> TRUE]]
          /\ loop' = "waiting"
     ELSE /\ UNCHANGED stale
          /\ IF db = "absent"
             THEN loop' = "register" /\ UNCHANGED hb
             ELSE /\ hb' = [hb EXCEPT ![h] = [pc |-> "dial", c |-> 0, answers |-> TRUE]]
                  /\ loop' = "waiting"
  /\ UNCHANGED <<up, conn, db, open, made, off, mgr, downs>>

\* Dial back and check the connection; a failure rejects the heartbeat.
DialBack(h) ==
  /\ At(h, "dial")
  /\ IF up
     THEN /\ made < MaxConns
          /\ made' = made + 1
          /\ open' = open \cup {made + 1}
          /\ hb' = [hb EXCEPT ![h].pc = "register", ![h].c = made + 1]
          /\ UNCHANGED loop
     ELSE Answer(h, "register") /\ UNCHANGED <<made, open>>
  /\ UNCHANGED <<up, conn, stale, db, off, mgr, downs>>

\* Mutant: the old connection is left open.
RegisterKeepsOld(h) ==
  /\ At(h, "register")
  /\ conn' = hb[h].c
  /\ stale' = FALSE
  /\ Go(h, "persist")
  /\ UNCHANGED <<loop, up, db, open, made, off, mgr, downs>>

\* Registry.Register, under the lock: close the old connection, store the new.
RegisterConn(h) ==
  /\ At(h, "register")
  /\ open' = open \ {conn}
  /\ conn' = hb[h].c
  /\ stale' = FALSE
  /\ Go(h, "persist")
  /\ UNCHANGED <<loop, up, db, made, off, mgr, downs>>

PersistOnline(h) ==
  /\ At(h, "persist")
  /\ db' = "online"
  /\ Go(h, "watch")
  /\ UNCHANGED <<loop, up, reg, made, off, mgr, downs>>

\* OnWorkerOnline: replace the context and start the watcher ...
WatchOnline(h) ==
  LET c == hb[h].c IN
  /\ At(h, "watch")
  /\ cancelled' = cancelled \cup ({cancels} \ {0})
  /\ cancels' = c
  /\ watch' = [watch EXCEPT ![c] = "on"]
  /\ Go(h, "assign")
  /\ UNCHANGED <<loop, up, reg, db, made, off, gsWorker, downs>>

\* ... then give the node's gameservers the connection.
AssignOnline(h) ==
  /\ At(h, "assign")
  /\ gsWorker' = hb[h].c
  /\ Go(h, "upsert")
  /\ UNCHANGED <<loop, up, reg, db, made, off, watch, cancels, cancelled, downs>>

\* Mutant: the worker is never answered.
UpsertSilent(h) ==
  /\ At(h, "upsert")
  /\ db' = "offline"
  /\ hb' = [hb EXCEPT ![h] = NoCall]
  /\ UNCHANGED <<loop, up, reg, made, off, mgr, downs>>

\* The handler's last write stores no status either.
Upsert(h) ==
  /\ At(h, "upsert")
  /\ db' = "offline"
  /\ Answer(h, "beat")
  /\ UNCHANGED <<up, reg, made, off, mgr, downs>>

-----------------------------------------------------------------------------
\* reapStale: collect under the read lock; SetOffline follows without it.
Reap ==
  /\ off[Reaper] = "idle"
  /\ conn # 0
  /\ stale
  /\ off' = [off EXCEPT ![Reaper] = "lock"]
  /\ UNCHANGED <<loop, up, reg, db, made, hb, mgr, downs>>

Off(t, from, to) == off[t] = from /\ off' = [off EXCEPT ![t] = to]

\* SetOffline, under the lock: whatever connection is registered now.
SetOffline(t) ==
  /\ Off(t, "lock", "persist")
  /\ open' = open \ {conn}
  /\ conn' = 0
  /\ UNCHANGED <<loop, up, stale, db, made, hb, mgr, downs>>

PersistOffline(t) ==
  /\ Off(t, "persist", "cancel")
  /\ db' = "offline"
  /\ UNCHANGED <<loop, up, reg, made, hb, mgr, downs>>

\* OnWorkerOffline: cancel the current context, then clear the gameservers.
CancelOffline(t) ==
  /\ Off(t, "cancel", "clear")
  /\ cancelled' = cancelled \cup ({cancels} \ {0})
  /\ cancels' = 0
  /\ UNCHANGED <<loop, up, reg, db, made, hb, watch, gsWorker, downs>>

ClearOffline(t) ==
  /\ Off(t, "clear", "idle")
  /\ gsWorker' = 0
  /\ UNCHANGED <<loop, up, reg, db, made, hb, watch, cancels, cancelled, downs>>

-----------------------------------------------------------------------------
Usable(c) == c \in open /\ up

\* The watcher ends for good: the context is done, or the select saw a channel
\* closed before the error of the stream, or there was none (EOF); nobody is
\* told then, and the worker stays registered.
WatchEnds(c) ==
  /\ watch[c] = "on"
  /\ c \in cancelled \/ ~Usable(c)
  /\ watch' = [watch EXCEPT ![c] = "done"]
  /\ UNCHANGED <<loop, up, reg, db, made, hb, off, cancels, cancelled, gsWorker, downs>>

\* The select got the error.
StreamBreaks(c) ==
  /\ watch[c] = "on"
  /\ ~Usable(c)
  /\ watch' = [watch EXCEPT ![c] = "broken"]
  /\ UNCHANGED <<loop, up, reg, db, made, hb, off, cancels, cancelled, gsWorker, downs>>

\* handleStreamBreak: ping with the watcher's context; restart the watch or
\* set the node offline.
handleStreamBreak(c) ==
  /\ watch[c] = "broken"
  /\ IF Usable(c) /\ c \notin cancelled
     THEN watch' = [watch EXCEPT ![c] = "on"] /\ UNCHANGED off
     ELSE /\ watch' = [watch EXCEPT ![c] = "done"]
          /\ off' = [off EXCEPT ![c] = "lock"]
  /\ UNCHANGED <<loop, up, reg, db, made, hb, cancels, cancelled, gsWorker, downs>>

-----------------------------------------------------------------------------
\* The link fails: the worker's call fails with it and its loop starts over,
\* while a handler that has begun goes on.
LinkDown ==
  /\ up
  /\ downs < MaxDowns
  /\ downs' = downs + 1
  /\ up' = FALSE
  /\ loop' = "register"
  /\ hb' = [h \in Handlers |-> [hb[h] EXCEPT !.answers = FALSE]]
  /\ UNCHANGED <<reg, db, made, off, mgr>>

LinkUp ==
  /\ ~up
  /\ up' = TRUE
  /\ UNCHANGED <<loop, reg, db, made, hb, off, mgr, downs>>

\* Thirty seconds without a heartbeat.
Expire ==
  /\ ~up
  /\ conn # 0
  /\ ~stale
  /\ stale' = TRUE
  /\ UNCHANGED <<loop, up, conn, db, open, made, hb, off, mgr, downs>>

HandlerStep(h) ==
  \/ DialBack(h) \/ RegisterConn(h) \/ PersistOnline(h)
  \/ WatchOnline(h) \/ AssignOnline(h) \/ Upsert(h)

OffStep(t) ==
  SetOffline(t) \/ PersistOffline(t) \/ CancelOffline(t) \/ ClearOffline(t)

WatchStep(c) == WatchEnds(c) \/ StreamBreaks(c) \/ handleStreamBreak(c)

Next ==
  \/ Register \/ Reap \/ LinkDown \/ LinkUp \/ Expire
  \/ \E h \in Handlers : Heartbeat(h) \/ HandlerStep(h)
  \/ \E t \in Offliners : OffStep(t)
  \/ \E c \in Conns : WatchStep(c)

\* The worker's loop never gives up, handlers and callbacks run to their end,
\* a broken stream is noticed and a failed link comes back.
Fairness ==
  /\ WF_vars(Register)
  /\ WF_vars(LinkUp)
  /\ WF_vars(\E h \in Handlers : Heartbeat(h))
  /\ \A h \in Handlers : WF_vars(HandlerStep(h))
  /\ \A t \in Offliners : WF_vars(OffStep(t))
  /\ \A c \in Conns : WF_vars(WatchStep(c))

Spec == Init /\ [][Next]_vars /\ Fairness

-----------------------------------------------------------------------------
\* Every variable has its type.
TypeOK ==
  /\ loop \in {"register", "beat", "waiting"}
  /\ conn \in 0 .. MaxConns
  /\ db \in {"absent", "offline", "online"}
  /\ open \subseteq Conns
  /\ made \in 0 .. MaxConns
  /\ off \in [Offliners -> {"idle", "lock", "persist", "cancel", "clear"}]
  /\ watch \in [Conns -> {"none", "on", "broken", "done"}]
  /\ cancels \in 0 .. MaxConns
  /\ gsWorker \in 0 .. MaxConns

\* Nothing is under way: no handler, no SetOffline, no watcher that will stop.
Quiet ==
  /\ \A h \in Handlers : At(h, "idle")
  /\ \A t \in Offliners : off[t] = "idle"
  /\ \A c \in Conns : watch[c] # "broken" /\ (watch[c] = "on" => Usable(c) /\ c \notin cancelled)

\* No connection leaks: one that is open is registered or about to be.
NoLeakedConn ==
  open \subseteq {conn} \cup {hb[h].c : h \in {g \in Handlers : At(g, "register")}}

\* However the callbacks of registrations and failures interleave, events are
\* in the end only routed from the registered connection: a watcher of an
\* earlier one has stopped or set the node offline.
WatchedIsRegistered == Quiet => \A c \in Conns : watch[c] = "on" => c = conn

\* A worker that keeps trying is registered again and again after every
\* failure of the link: no order of events locks it out.
ComesBack == []<>(conn # 0 \/ made = MaxConns)

\* An online worker is the worker of its node's gameservers ("when a worker
\* comes online ..., assign it as the worker reference for gameservers on that
\* node").
OnlineIsAssigned == Quiet /\ up /\ conn # 0 => gsWorker = conn

\* Gameservers hold no connection to an offline worker ("When a worker goes
\* offline, clear worker references for affected gameservers").
OfflineIsCleared == Quiet /\ conn = 0 => gsWorker = 0

\* The row of an online worker says online ("Persist status to DB").
OnlineIsPersisted == Quiet /\ up /\ conn # 0 => db = "online"
=============================================================================

------------------------------- MODULE Proxy --------------------------------
(* The proxy for game traffic: the subscriber that follows gameserver events *)
(* (proxy/subscriber.go), the routes of the manager (proxy/proxy.go), and of *)
(* the lifecycle what decides whether an event is published.  A gameserver   *)
(* has one port; protocols share its fate and are left out.                  *)
EXTENDS Naturals, Sequences, FiniteSets

CONSTANTS Gameservers, Nodes, Ports,
          Local,       \* the controller's own node, a member of Nodes, or 0
          Ops,         \* the operations that happen, besides start and crash
          None,
          Buffer,      \* how many events wait before the bus drops the next
          MaxReady,    \* bound: how often a game gets ready
          MaxOps,      \* bound: the other operations
          MaxFaults    \* bound: ports that cannot be bound, nodes not read

VARIABLES row,       \* what the record says: node and port, None when deleted
          ready,     \* gameservers whose process runs and is ready
          loaded,    \* RecoverAll has filled the manager's map
          events,    \* events on their way to the subscriber
          listener,  \* the subscriber: the record it has looked up
          routes,    \* the backend of every port's forwarder, None without one
          refused,   \* ports whose last route could not be set
          misled,    \* gameservers whose last event was dropped, or was an
                     \* error while they were ready
          starts, ops, faults

vars == <<row, ready, loaded, events, listener, routes, refused, misled, starts, ops, faults>>

Idle == [pc |-> "idle", gs |-> None]
Rows == [node : Nodes \cup {None}, port : Ports]

PortTaken(p) == \E g \in Gameservers : row[g] # None /\ row[g].port = p

Init ==
  /\ row \in [Gameservers -> Rows \cup {None}]
  /\ \A g \in Gameservers : row[g] # None => row[g].node # None
  /\ \A g, h \in Gameservers : g # h /\ row[g] # None /\ row[h] # None => row[g].port # row[h].port
  /\ ready = {}
  /\ loaded = FALSE
  /\ events = <<>>
  /\ listener = Idle
  /\ routes = [p \in Ports |-> None]
  /\ refused = {}
  /\ misled = {}
  /\ starts = 0
  /\ ops = 0
  /\ faults = 0

Live(g) == loaded /\ row[g] # None
Count(op) == op \in Ops /\ ops < MaxOps /\ ops' = ops + 1

Event(type, g) == [type |-> type, gs |-> g]

\* EventBus.Publish: a subscriber whose buffer is full misses the event.
Publish(type, g) ==
  \/ /\ Len(events) < Buffer
     /\ events' = Append(events, Event(type, g))
     /\ misled' = misled \ {g}
  \/ /\ Len(events) >= Buffer
     /\ misled' = misled \cup {g}
     /\ UNCHANGED events

\* An exit nobody asked for is published, and so is the error.
PublishCrash(g) ==
  \/ /\ Len(events) + 1 < Buffer
     /\ events' = events \o <<Event("exited", g), Event("error", g)>>
     /\ misled' = misled \ {g}
  \/ Len(events) + 1 >= Buffer /\ Publish("exited", g)

-----------------------------------------------------------------------------
(* The lifecycle, as far as the proxy sees it.                               *)

\* The ready transition of HandleProcessEvent.
Ready(g) ==
  /\ Live(g) /\ row[g].node # None
  /\ g \notin ready
  /\ starts < MaxReady
  /\ starts' = starts + 1
  /\ ready' = ready \cup {g}
  /\ Publish("ready", g)
  /\ UNCHANGED <<row, loaded, listener, routes, refused, ops, faults>>

\* The process ends by itself.
Crash(g) ==
  /\ Live(g) /\ g \in ready
  /\ Count("crash")
  /\ ready' = ready \ {g}
  /\ PublishCrash(g)
  /\ UNCHANGED <<row, loaded, listener, routes, refused, starts, faults>>

\* setError: an operation that fails, a restore, or the recovery publishes an
\* error whether or not the process runs, and the process goes on.
OperationFails(g) ==
  /\ Live(g)
  /\ Count("fail")
  /\ \/ /\ Len(events) < Buffer
        /\ events' = Append(events, Event("error", g))
        /\ misled' = IF g \in ready THEN misled \cup {g} ELSE misled \ {g}
     \/ Len(events) >= Buffer /\ UNCHANGED <<events, misled>>
  /\ UNCHANGED <<row, ready, loaded, listener, routes, refused, starts, faults>>

\* Mutant: the stop is not published.
StopSilent(g) ==
  /\ Live(g)
  /\ Count("stop")
  /\ ready' = ready \ {g}
  /\ UNCHANGED <<row, loaded, events, listener, routes, refused, misled, starts, faults>>

\* doStop publishes instance_stopped at its end.
Stop(g) ==
  /\ Live(g)
  /\ Count("stop")
  /\ ready' = ready \ {g}
  /\ Publish("stopped", g)
  /\ UNCHANGED <<row, loaded, listener, routes, refused, starts, faults>>

\* stopIfRunning publishes nothing; the exit it causes is published when its
\* event comes before the instance is forgotten, and is else ignored.
stopIfRunning(g) ==
  /\ ready' = ready \ {g}
  /\ \/ UNCHANGED <<events, misled>>
     \/ g \in ready /\ PublishCrash(g)

\* Restart, Update and Reinstall: stopIfRunning and a start.
Restart(g) ==
  /\ Live(g)
  /\ Count("restart")
  /\ stopIfRunning(g)
  /\ UNCHANGED <<row, loaded, listener, routes, refused, starts, faults>>

\* Migrate: the record gets its new node after the process was stopped.
Migrate(g, n) ==
  /\ Live(g) /\ row[g].node \notin {None, n}
  /\ Count("migrate")
  /\ stopIfRunning(g)
  /\ row' = [row EXCEPT ![g].node = n]
  /\ UNCHANGED <<loaded, listener, routes, refused, starts, faults>>

\* Archive: the record loses its node.
Archive(g) ==
  /\ Live(g) /\ row[g].node # None
  /\ Count("archive")
  /\ stopIfRunning(g)
  /\ row' = [row EXCEPT ![g].node = None]
  /\ UNCHANGED <<loaded, listener, routes, refused, starts, faults>>

\* UpdateConfig gives the gameserver another port; a running process keeps
\* its ports until it is started again.
Edit(g, p) ==
  /\ Live(g) /\ g \notin ready
  /\ ~PortTaken(p)
  /\ Count("edit")
  /\ row' = [row EXCEPT ![g].port = p]
  /\ UNCHANGED <<ready, loaded, events, listener, routes, refused, misled, starts, faults>>

\* Mutant: the process is left to itself.
DeleteRow(g) ==
  /\ Live(g)
  /\ Count("delete")
  /\ row' = [row EXCEPT ![g] = None]
  /\ UNCHANGED <<ready, loaded, events, listener, routes, refused, misled, starts, faults>>

\* executeDelete removes the instance and the row; the subscriber does not
\* listen to the delete event.
Delete(g) ==
  /\ Live(g)
  /\ Count("delete")
  /\ ready' = ready \ {g}
  /\ row' = [row EXCEPT ![g] = None]
  /\ UNCHANGED <<loaded, events, listener, routes, refused, misled, starts, faults>>

Create(g, n, p) ==
  /\ loaded /\ row[g] = None
  /\ ~PortTaken(p)
  /\ Count("create")
  /\ row' = [row EXCEPT ![g] = [node |-> n, port |-> p]]
  /\ UNCHANGED <<ready, loaded, events, listener, routes, refused, misled, starts, faults>>

\* The controller restarts; the processes on the workers go on.
Reboot ==
  /\ loaded
  /\ Count("reboot")
  /\ loaded' = FALSE
  /\ events' = <<>>
  /\ listener' = Idle
  /\ routes' = [p \in Ports |-> None]
  /\ refused' = {}
  /\ misled' = {}
  /\ UNCHANGED <<row, ready, starts, faults>>

-----------------------------------------------------------------------------
(* The subscriber and the manager.                                           *)

\* Whether addRoutes goes on: the record is there, and not on the local node.
Routable(g) ==
  /\ Live(g)
  /\ row[g].node # Local
  /\ row[g].node # None

\* runServe: SyncExisting adds routes for the running gameservers in the
\* manager's map, and then RecoverAll fills that map from the database.  A
\* recovered process is marked ready; no event is published.
SyncThenRecoverAll ==
  /\ ~loaded
  /\ routes' = [p \in Ports |->
                  IF \E g \in ready : Routable(g) /\ row[g].port = p
                  THEN row[CHOOSE g \in ready : Routable(g) /\ row[g].port = p].node
                  ELSE routes[p]]
  /\ loaded' = TRUE
  /\ UNCHANGED <<row, ready, events, listener, refused, misled, starts, ops, faults>>

\* addRoutes looks the gameserver up as it is now; without its node, which is
\* read from the database, there is only a warning.
LookupAdd(g) ==
  \/ /\ listener' = IF Routable(g) THEN [pc |-> "set", gs |-> row[g]] ELSE Idle
     /\ UNCHANGED <<refused, faults>>
  \/ /\ Routable(g) /\ faults < MaxFaults
     /\ faults' = faults + 1
     /\ listener' = Idle
     /\ refused' = refused \cup {row[g].port}

\* removeRoutes does so, too: nothing is removed for one that is gone.
LookupRemove(g) ==
  /\ listener' = IF Live(g) THEN [pc |-> "remove", gs |-> row[g]] ELSE Idle
  /\ UNCHANGED <<refused, faults>>

\* Subscriber.listen: one event at a time, in order.
listen ==
  /\ events # <<>>
  /\ listener = Idle
  /\ events' = Tail(events)
  /\ IF Head(events).type = "ready" THEN LookupAdd(Head(events).gs) ELSE LookupRemove(Head(events).gs)
  /\ UNCHANGED <<row, ready, loaded, routes, misled, starts, ops>>

\* Mutant: an existing forwarder keeps its backend.
SetOnce ==
  /\ listener.pc = "set"
  /\ listener' = Idle
  /\ LET p == listener.gs.port IN
     /\ routes' = [routes EXCEPT ![p] = IF @ = None THEN listener.gs.node ELSE @]
     /\ refused' = refused \ {p}
  /\ UNCHANGED <<row, ready, loaded, events, misled, starts, ops, faults>>

\* Manager.Set: a forwarder there is gets a new backend; otherwise one is
\* started, and when the port cannot be bound that is only logged.
Set ==
  /\ listener.pc = "set"
  /\ listener' = Idle
  /\ LET p == listener.gs.port IN
     \/ /\ routes' = [routes EXCEPT ![p] = listener.gs.node]
        /\ refused' = refused \ {p}
        /\ UNCHANGED faults
     \/ /\ routes[p] = None
        /\ faults < MaxFaults
        /\ faults' = faults + 1
        /\ refused' = refused \cup {p}
        /\ UNCHANGED routes
  /\ UNCHANGED <<row, ready, loaded, events, misled, starts, ops>>

\* Manager.Remove: whatever forwarders the port has are stopped.
Remove ==
  /\ listener.pc = "remove"
  /\ listener' = Idle
  /\ routes' = [routes EXCEPT ![listener.gs.port] = None]
  /\ UNCHANGED <<row, ready, loaded, events, refused, misled, starts, ops, faults>>

Next ==
  \/ \E g \in Gameservers :
       \/ Ready(g) \/ Crash(g) \/ OperationFails(g) \/ Stop(g) \/ Restart(g) \/ Archive(g) \/ Delete(g)
       \/ \E n \in Nodes : Migrate(g, n) \/ \E p \in Ports : Create(g, n, p)
       \/ \E p \in Ports : Edit(g, p)
  \/ Reboot \/ SyncThenRecoverAll \/ listen \/ Set \/ Remove

Spec == Init /\ [][Next]_vars

-----------------------------------------------------------------------------
\* The subscriber has handled every event.
Settled == loaded /\ events = <<>> /\ listener = Idle

\* Every variable has its type.
TypeOK ==
  /\ row \in [Gameservers -> Rows \cup {None}]
  /\ ready \subseteq Gameservers
  /\ \A g \in ready : row[g] # None
  /\ listener.pc \in {"idle", "set", "remove"}
  /\ routes \in [Ports -> Nodes \cup {None}]
  /\ misled \subseteq Gameservers

\* Whatever was started, stopped, moved, edited or deleted in between, and
\* however late the events are handled: a ready gameserver on another node is
\* routed to that node, unless its route could not be set, its ready event was
\* dropped, or an operation on it failed since it is ready.
RoutedWhenReady ==
  Settled => \A g \in ready \ misled :
    row[g].node # Local => routes[row[g].port] = row[g].node \/ row[g].port \in refused

\* Routes follow the gameservers as they "start, stop, or migrate": a port is
\* forwarded only while a ready gameserver on that node has it, or one whose
\* last event was dropped.
RouteHasGameserver ==
  Settled => \A p \in Ports : routes[p] # None =>
    \E g \in ready \cup misled : row[g] # None /\ row[g].port = p /\ row[g].node = routes[p]

\* "Gameservers on the local node are served directly by the runtime": the
\* proxy does not hold a port the local runtime has to bind.
LocalNotProxied ==
  Settled => \A g \in ready : row[g].node = Local => routes[row[g].port] = None
=============================================================================

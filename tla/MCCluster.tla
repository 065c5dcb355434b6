----------------------------- MODULE MCCluster ------------------------------
(* The components between the controller and those around it: clients that   *)
(* follow operations, Steam, its workers, the players; each on its small      *)
(* instance.  As in MCData, a behaviour is one of ONE component: part says of *)
(* which, and only that component's variables have values.                    *)
EXTENDS Naturals, Sequences, FiniteSets

CONSTANTS
  null, Reaper,
  \* of the operation streams and of the Steam client:
  Watchers, MaxOps, SteamCallers, MaxJobs, SteamFaults,
  \* of the worker registry and of the nodes' settings:
  Handlers, MaxConns, MaxDowns, Nodes, NodePorts, Limits, MaxUpdates,
  \* of the proxy, for gameservers that move and for a controller that restarts:
  Games, GamePorts, Local, ProxyNodes, BusBuffer, ProxyReady, ProxyOps, ProxyFaults,
  RouteNodes, RouteReady, RouteOps,
  \* of the UDP forwarder:
  UdpClients, Backends, SessionTTL, MaxSessions, MaxRoutes,
  \* of the calls to workers and of a container:
  Procedures, MaxChunks, MaxCalls, LinkFaults, MaxStarts, StartFaults, WorkerCrashes,
  \* of the statistics and of the player queries:
  PollLoops, Sizes, WarnAt, CriticalAt, MaxPolls, PollFaults,
  QueryLoops, OverlapLoops, Players, QueryPolls, QueryFaults,
  \* of the enrolment, without and with deaths of the controller:
  EnrollDeaths, EnrollFaults, MaxMoves, AuthorityDeaths, MaxCtlDeaths

ASSUME StreamAssumption == MaxOps \in Nat
ASSUME LinkAssumption == MaxConns \in Nat /\ MaxChunks \in Nat
ASSUME NodeAssumption == NodePorts \subseteq Nat /\ MaxUpdates \in Nat
ASSUME HostAssumption == MaxStarts \in Nat
ASSUME LoopAssumption == 0 \notin PollLoops \cup QueryLoops \cup OverlapLoops

VARIABLES
  part,  \* the component this behaviour is of
  \* of the operation streams:
  operation, ops, kinds, goroutine, event, note, watcher, chan, shown,
  panicked,
  \* of the Steam client:
  conn, nextJob, jobs, caller, server, wire, logon, heartbeat, asks, session,
  losses,
  \* of the worker registry:
  joining, link, registered, stale, status, conns, made, beats, offline,
  follows, contexts, ended, gsWorker, downs,
  \* of the nodes' settings:
  nodeRows, edits, report, updates,
  \* of the proxy:
  games, ready, loaded, news, listener, routes, refused, misled, starts, proxied,
  unbound,
  \* of the UDP forwarder:
  backend, sessions, dialled, idleFor, quiet, sockets, returning, inHand,
  done, created, routed,
  \* of the calls to workers:
  call, side, taken, upward, downward, pump, pipe, sink, kept, ran, ctx,
  outcome, invoked, linkFaults,
  \* of a container:
  alive, manifest, stateFile, crun, proc, pasta, pastaFile, doing, inst,
  exited, waiters, tracker, launched, mishaps, workerCrashes,
  \* of the statistics:
  poll, pollers, stopped, sample, usage, statEvents, active, emitted, buf,
  writing, written, lost, flusher, polls, misses,
  \* of the player queries:
  asking, asker, quit, players, online, told, record, check, result, queries,
  silences,
  \* of the enrolment:
  ctl, ca, srv, issued, enrolled, live, worker, files, granted, idFile, addr,
  deaths, ctlDeaths, refusals, moves
watchVars ==
  <<operation, ops, kinds, goroutine, event, note, watcher, chan, shown,
    panicked>>
steamVars ==
  <<conn, nextJob, jobs, caller, server, wire, logon, heartbeat, asks,
    session, losses>>
registryVars ==
  <<joining, link, registered, stale, status, conns, made, beats, offline,
    follows, contexts, ended, gsWorker, downs>>
nodeVars == <<nodeRows, edits, report, updates>>
proxyVars ==
  <<games, ready, loaded, news, listener, routes, refused, misled, starts,
    proxied, unbound>>
udpVars ==
  <<backend, sessions, dialled, idleFor, quiet, sockets, returning, inHand,
    done, created, routed>>
linkVars ==
  <<call, side, taken, upward, downward, pump, pipe, sink, kept, ran, ctx,
    outcome, invoked, linkFaults>>
containerVars ==
  <<alive, manifest, stateFile, crun, proc, pasta, pastaFile, doing, inst,
    exited, waiters, tracker, launched, mishaps, workerCrashes>>
statVars ==
  <<poll, pollers, stopped, sample, usage, statEvents, active, emitted, buf,
    writing, written, lost, flusher, polls, misses>>
queryVars ==
  <<asking, asker, quit, players, online, told, record, check, result,
    queries, silences>>
enrolVars ==
  <<ctl, ca, srv, issued, enrolled, live, worker, files, granted, idFile,
    addr, deaths, ctlDeaths, refusals, moves>>

vars == <<part, watchVars, steamVars, registryVars, nodeVars, proxyVars,
          udpVars, linkVars, containerVars, statVars, queryVars, enrolVars>>

\* Clients that follow a gameserver's operations.
Ow == INSTANCE OperationWatch WITH
  Overtakes <- FALSE, kind <- kinds, op <- goroutine

\* The Steam connection and its callers.
Sm == INSTANCE SteamClient WITH
  Callers <- SteamCallers, MaxFaults <- SteamFaults, pending <- jobs,
  faults <- losses

\* The worker registry: two heartbeat handlers, a link that fails.
Rg == INSTANCE Registry WITH
  loop <- joining, up <- link, conn <- registered, db <- status,
  open <- conns, hb <- beats, off <- offline, watch <- follows,
  cancels <- contexts, cancelled <- ended

\* Settings of nodes, and what their workers report.
Nc == INSTANCE NodeConfig WITH
  Users <- {"u"}, Ports <- NodePorts, row <- nodeRows, req <- edits

\* The proxy's routes while gameservers start, move, change and go.
Px == INSTANCE Proxy WITH
  Gameservers <- Games, Nodes <- ProxyNodes, Ports <- GamePorts,
  Ops <- {"stop", "crash", "fail", "restart", "migrate", "archive", "edit", "delete", "create"},
  None <- null, Buffer <- BusBuffer, MaxReady <- ProxyReady, MaxOps <- ProxyOps,
  MaxFaults <- ProxyFaults, row <- games, events <- news, ops <- proxied,
  faults <- unbound

\* The same with gameservers that stay, and a controller that restarts.
Rt == INSTANCE Proxy WITH
  Gameservers <- Games, Nodes <- RouteNodes, Ports <- GamePorts,
  Ops <- {"stop", "crash", "fail", "reboot"}, None <- null,
  Buffer <- BusBuffer, MaxReady <- RouteReady, MaxOps <- RouteOps,
  MaxFaults <- ProxyFaults, row <- games, events <- news, ops <- proxied,
  faults <- unbound

\* A UDP forwarder with two clients and a route that changes.
Ud == INSTANCE UdpForwarder WITH
  Clients <- UdpClients, TTL <- SessionTTL, idle <- idleFor, open <- sockets,
  server <- inHand

\* Calls to a worker, local or over a link that breaks.
Lk == INSTANCE WorkerLink WITH
  Kinds <- Procedures, MaxFaults <- LinkFaults, caller <- side, up <- upward,
  down <- downward, writer <- sink, stored <- kept, answer <- outcome, calls <- invoked,
  faults <- linkFaults

\* A container: the worker dies between calls.
Cn == INSTANCE Container WITH
  CrashInCall <- FALSE, Patient <- TRUE, MaxFaults <- 0,
  MaxCrashes <- WorkerCrashes, up <- alive, call <- doing, watch <- waiters,
  starts <- launched, faults <- mishaps, crashes <- workerCrashes

\* The same with failures, stops given up and deaths during calls.
Cf == INSTANCE Container WITH
  CrashInCall <- TRUE, Patient <- FALSE, MaxFaults <- StartFaults,
  MaxCrashes <- WorkerCrashes, up <- alive, call <- doing, watch <- waiters,
  starts <- launched, faults <- mishaps, crashes <- workerCrashes

\* Statistics and storage warnings: two loops, a volume that grows.
Tl == INSTANCE Telemetry WITH
  Loops <- PollLoops, MaxFaults <- PollFaults, cancelled <- stopped,
  cache <- sample, events <- statEvents, batch <- writing, faults <- misses

\* Queries of players: a loop that is stopped and started again.
Qu == INSTANCE Query WITH
  Loops <- QueryLoops, MayOverlap <- FALSE, MaxPolls <- QueryPolls,
  MaxFaults <- QueryFaults, loop <- asking, pollers <- asker,
  cancelled <- quit, cache <- players, polls <- queries, faults <- silences

\* The same while an old loop is still at work.
Qo == INSTANCE Query WITH
  Loops <- OverlapLoops, MayOverlap <- TRUE, MaxPolls <- QueryPolls,
  MaxFaults <- QueryFaults, loop <- asking, pollers <- asker,
  cancelled <- quit, cache <- players, polls <- queries, faults <- silences

\* A worker enrolls, dies while it saves its files, and moves.
En == INSTANCE Enrollment WITH
  MaxCtlDeaths <- 0, MaxDeaths <- EnrollDeaths, MaxFaults <- EnrollFaults,
  rows <- enrolled, got <- granted, faults <- refusals

\* The same with a controller that dies while it saves its own.
Ea == INSTANCE Enrollment WITH
  MaxDeaths <- AuthorityDeaths, MaxFaults <- EnrollFaults, rows <- enrolled,
  got <- granted, faults <- refusals

-----------------------------------------------------------------------------
\* The variables of a component this behaviour is not of.
NoWatch ==
  operation = 0 /\ ops = 0 /\ kinds = 0 /\ goroutine = 0 /\ event = 0
  /\ note = 0 /\ watcher = 0 /\ chan = 0 /\ shown = 0 /\ panicked = 0
NoSteam ==
  conn = 0 /\ nextJob = 0 /\ jobs = 0 /\ caller = 0 /\ server = 0 /\ wire = 0
  /\ logon = 0 /\ heartbeat = 0 /\ asks = 0 /\ session = 0 /\ losses = 0
NoRegistry ==
  joining = 0 /\ link = 0 /\ registered = 0 /\ stale = 0 /\ status = 0
  /\ conns = 0 /\ made = 0 /\ beats = 0 /\ offline = 0 /\ follows = 0
  /\ contexts = 0 /\ ended = 0 /\ gsWorker = 0 /\ downs = 0
NoNode ==
  nodeRows = 0 /\ edits = 0 /\ report = 0 /\ updates = 0
NoProxy ==
  games = 0 /\ ready = 0 /\ loaded = 0 /\ news = 0 /\ listener = 0
  /\ routes = 0 /\ refused = 0 /\ misled = 0 /\ starts = 0 /\ proxied = 0 /\ unbound = 0
NoUdp ==
  backend = 0 /\ sessions = 0 /\ dialled = 0 /\ idleFor = 0 /\ quiet = 0
  /\ sockets = 0 /\ returning = 0 /\ inHand = 0 /\ done = 0 /\ created = 0
  /\ routed = 0
NoLink ==
  call = 0 /\ side = 0 /\ taken = 0 /\ upward = 0 /\ downward = 0 /\ pump = 0
  /\ pipe = 0 /\ sink = 0 /\ kept = 0 /\ ran = 0 /\ ctx = 0 /\ outcome = 0
  /\ invoked = 0 /\ linkFaults = 0
NoContainer ==
  alive = 0 /\ manifest = 0 /\ stateFile = 0 /\ crun = 0 /\ proc = 0
  /\ pasta = 0 /\ pastaFile = 0 /\ doing = 0 /\ inst = 0 /\ exited = 0
  /\ waiters = 0 /\ tracker = 0 /\ launched = 0 /\ mishaps = 0
  /\ workerCrashes = 0
NoStat ==
  poll = 0 /\ pollers = 0 /\ stopped = 0 /\ sample = 0 /\ usage = 0
  /\ statEvents = 0 /\ active = 0 /\ emitted = 0 /\ buf = 0 /\ writing = 0
  /\ written = 0 /\ lost = 0 /\ flusher = 0 /\ polls = 0 /\ misses = 0
NoQuery ==
  asking = 0 /\ asker = 0 /\ quit = 0 /\ players = 0 /\ online = 0 /\ told = 0
  /\ record = 0 /\ check = 0 /\ result = 0 /\ queries = 0 /\ silences = 0
NoEnrol ==
  ctl = 0 /\ ca = 0 /\ srv = 0 /\ issued = 0 /\ enrolled = 0 /\ live = 0
  /\ worker = 0 /\ files = 0 /\ granted = 0 /\ idFile = 0 /\ addr = 0
  /\ deaths = 0 /\ ctlDeaths = 0 /\ refusals = 0 /\ moves = 0

Parts ==
  {"watch", "steam", "registry", "nodes", "proxy", "routes", "udp", "link",
   "container", "containers", "stats", "query", "queries", "enroll",
   "authority"}

Init ==
  /\ part \in Parts
  /\ \/ part = "watch" /\ Ow!Init
     \/ part # "watch" /\ NoWatch
  /\ \/ part = "steam" /\ Sm!Init
     \/ part # "steam" /\ NoSteam
  /\ \/ part = "registry" /\ Rg!Init
     \/ part # "registry" /\ NoRegistry
  /\ \/ part = "nodes" /\ Nc!Init
     \/ part # "nodes" /\ NoNode
  /\ \/ part = "proxy" /\ Px!Init
     \/ part = "routes" /\ Rt!Init
     \/ part \notin {"proxy", "routes"} /\ NoProxy
  /\ \/ part = "udp" /\ Ud!Init
     \/ part # "udp" /\ NoUdp
  /\ \/ part = "link" /\ Lk!Init
     \/ part # "link" /\ NoLink
  /\ \/ part = "container" /\ Cn!Init
     \/ part = "containers" /\ Cf!Init
     \/ part \notin {"container", "containers"} /\ NoContainer
  /\ \/ part = "stats" /\ Tl!Init
     \/ part # "stats" /\ NoStat
  /\ \/ part = "query" /\ Qu!Init
     \/ part = "queries" /\ Qo!Init
     \/ part \notin {"query", "queries"} /\ NoQuery
  /\ \/ part = "enroll" /\ En!Init
     \/ part = "authority" /\ Ea!Init
     \/ part \notin {"enroll", "authority"} /\ NoEnrol

Next ==
  \/ part = "watch" /\ Ow!Next
     /\ UNCHANGED <<part, steamVars, registryVars, nodeVars, proxyVars,
                    udpVars, linkVars, containerVars, statVars, queryVars,
                    enrolVars>>
  \/ part = "steam" /\ Sm!Next
     /\ UNCHANGED <<part, watchVars, registryVars, nodeVars, proxyVars,
                    udpVars, linkVars, containerVars, statVars, queryVars,
                    enrolVars>>
  \/ part = "registry" /\ Rg!Next
     /\ UNCHANGED <<part, watchVars, steamVars, nodeVars, proxyVars, udpVars,
                    linkVars, containerVars, statVars, queryVars, enrolVars>>
  \/ part = "nodes" /\ Nc!Next
     /\ UNCHANGED <<part, watchVars, steamVars, registryVars, proxyVars,
                    udpVars, linkVars, containerVars, statVars, queryVars,
                    enrolVars>>
  \/ part = "proxy" /\ Px!Next
     /\ UNCHANGED <<part, watchVars, steamVars, registryVars, nodeVars,
                    udpVars, linkVars, containerVars, statVars, queryVars,
                    enrolVars>>
  \/ part = "routes" /\ Rt!Next
     /\ UNCHANGED <<part, watchVars, steamVars, registryVars, nodeVars,
                    udpVars, linkVars, containerVars, statVars, queryVars,
                    enrolVars>>
  \/ part = "udp" /\ Ud!Next
     /\ UNCHANGED <<part, watchVars, steamVars, registryVars, nodeVars,
                    proxyVars, linkVars, containerVars, statVars, queryVars,
                    enrolVars>>
  \/ part = "link" /\ Lk!Next
     /\ UNCHANGED <<part, watchVars, steamVars, registryVars, nodeVars,
                    proxyVars, udpVars, containerVars, statVars, queryVars,
                    enrolVars>>
  \/ part = "container" /\ Cn!Next
     /\ UNCHANGED <<part, watchVars, steamVars, registryVars, nodeVars,
                    proxyVars, udpVars, linkVars, statVars, queryVars,
                    enrolVars>>
  \/ part = "containers" /\ Cf!Next
     /\ UNCHANGED <<part, watchVars, steamVars, registryVars, nodeVars,
                    proxyVars, udpVars, linkVars, statVars, queryVars,
                    enrolVars>>
  \/ part = "stats" /\ Tl!Next
     /\ UNCHANGED <<part, watchVars, steamVars, registryVars, nodeVars,
                    proxyVars, udpVars, linkVars, containerVars, queryVars,
                    enrolVars>>
  \/ part = "query" /\ Qu!Next
     /\ UNCHANGED <<part, watchVars, steamVars, registryVars, nodeVars,
                    proxyVars, udpVars, linkVars, containerVars, statVars,
                    enrolVars>>
  \/ part = "queries" /\ Qo!Next
     /\ UNCHANGED <<part, watchVars, steamVars, registryVars, nodeVars,
                    proxyVars, udpVars, linkVars, containerVars, statVars,
                    enrolVars>>
  \/ part = "enroll" /\ En!Next
     /\ UNCHANGED <<part, watchVars, steamVars, registryVars, nodeVars,
                    proxyVars, udpVars, linkVars, containerVars, statVars,
                    queryVars>>
  \/ part = "authority" /\ Ea!Next
     /\ UNCHANGED <<part, watchVars, steamVars, registryVars, nodeVars,
                    proxyVars, udpVars, linkVars, containerVars, statVars,
                    queryVars>>

Spec == Init /\ [][Next]_vars

-----------------------------------------------------------------------------
\* Each component's type invariant.
TypeOK ==
  /\ part = "watch" => Ow!TypeOK
  /\ part = "steam" => Sm!TypeOK
  /\ part = "registry" => Rg!TypeOK
  /\ part = "nodes" => Nc!TypeOK
  /\ part = "proxy" => Px!TypeOK
  /\ part = "udp" => Ud!TypeOK
  /\ part = "link" => Lk!TypeOK
  /\ part = "container" => Cn!TypeOK
  /\ part = "stats" => Tl!TypeOK
  /\ part = "enroll" => En!TypeOK
  /\ part = "authority" => Ea!TypeOK

\* Whoever asked is answered with his own answer: a client that follows the
\* operations is in the end shown that none is going on, and a request to
\* Steam returns with the answer to that request.
ClientsSettle ==
  /\ part = "watch" => Ow!SettlesToIdle
  /\ part = "steam" => Sm!AnswerIsOwn

\* Nothing that was opened is lost track of: an open connection to a worker is
\* registered or about to be, events are in the end routed only from the
\* registered one, and every socket of the UDP forwarder is the session of
\* one client (registry.go, manager.go, udp.go).
SocketsAreOwned ==
  /\ part = "registry" => Rg!NoLeakedConn /\ Rg!WatchedIsRegistered
  /\ part = "udp" => Ud!SessionOwnsSocket

\* A port leads to one gameserver: no two nodes' ranges share a port, the port
\* of a ready gameserver on another node is forwarded to that node, and no
\* port is forwarded without one (WorkerNodeService, proxy.Manager).
PortsAreRouted ==
  /\ part = "nodes" => Nc!NoOverlap
  /\ part = "proxy" => Px!RoutedWhenReady
  /\ part = "routes" => Rt!RouteHasGameserver

\* A worker does what it says and knows what it does: a call without an error
\* was executed and its stream is whole, two containers of an instance never
\* live together, one that lives is known, has its ports and is found again
\* after a restart, and a worker uses a certificate of the authority it trusts
\* (worker/remote, worker/agent, worker/local/runtime, cli/tls.go).
WorkerDoesAsTold ==
  /\ part = "link" => Lk!OkMeansDone
  /\ part = "container" => Cn!OneContainer /\ Cn!RunningHasPorts /\ Cn!LiveIsKnown
  /\ part = "containers" => Cf!OneContainer /\ Cf!RunningHasPorts
  /\ part = "enroll" => En!TlsIsConsistent
  /\ part = "authority" => Ea!TlsIsConsistent

\* What clients are told is what is: a gameserver has one loop of each kind
\* that a stop can reach, a sample is stored once, and the last event told the
\* warning level and the players in force (StatsPoller, warnings, query).
LevelsAreTold ==
  /\ part = "stats" => Tl!OneLoop /\ Tl!SampleOnce /\ Tl!EventsTellLevel
  /\ part = "query" => Qu!OneQueryLoop /\ Qu!PlayersAreTold
  /\ part = "queries" => Qo!OneQueryLoop
=============================================================================

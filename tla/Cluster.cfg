SPECIFICATION Spec
CHECK_DEADLOCK FALSE
CONSTANTS
  null = null
  Reaper = Reaper
  Watchers = {"w"}
  MaxOps = 3
  SteamCallers = {"a", "b"}
  MaxJobs = 4
  SteamFaults = 1
  Handlers = {"h1", "h2"}
  MaxConns = 2
  MaxDowns = 2
  Nodes = {"n1", "n2"}
  NodePorts = {1, 2, 3}
  Limits = {1}
  MaxUpdates = 2
  Games = {"g1", "g2"}
  GamePorts = {"p1", "p2"}
  Local = "n1"
  ProxyNodes = {"n1", "n2", "n3"}
  BusBuffer = 3
  ProxyReady = 2
  ProxyOps = 2
  ProxyFaults = 1
  RouteNodes = {"n1", "n2"}
  RouteReady = 3
  RouteOps = 3
  UdpClients = {1, 2}
  Backends = {1, 2}
  SessionTTL = 2
  MaxSessions = 3
  MaxRoutes = 1
  Procedures = {"CreateInstance", "StopInstance", "BackupVolume", "PullImage", "EnsureDepot", "RestoreVolume", "WriteFileStream", "CopyTarToInstance"}
  MaxChunks = 3
  MaxCalls = 2
  LinkFaults = 2
  MaxStarts = 3
  StartFaults = 2
  WorkerCrashes = 2
  PollLoops = {1, 2}
  Sizes = {80, 96}
  WarnAt = 80
  CriticalAt = 95
  MaxPolls = 1
  PollFaults = 1
  QueryLoops = {1, 2, 3}
  OverlapLoops = {1, 2}
  Players = {0, 1}
  QueryPolls = 2
  QueryFaults = 1
  EnrollDeaths = 2
  EnrollFaults = 1
  MaxMoves = 1
  AuthorityDeaths = 1
  MaxCtlDeaths = 2
INVARIANTS
  TypeOK
  ClientsSettle
  SocketsAreOwned
  PortsAreRouted
  WorkerDoesAsTold
  LevelsAreTold

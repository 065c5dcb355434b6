SPECIFICATION Spec
CHECK_DEADLOCK FALSE
CONSTANTS
  Publishers = {"p1", "p2"}
  Clients = {"c"}
  BusCapacity = 1
  BusEvents = 2
  Telemetry = {2}
  Endpoints = {"e"}
  EventTypes = {"backup.failed"}
  ChanCapacity = 1
  BatchLimit = 2
  MaxAttempts = 2
  HookEvents = 2
  HookChanges = 1
  HookFaults = 0
  Editors = {"u1", "u2"}
  CronSlots = {"x1", "x2"}
  EditTicks = 2
  Edits = 3
  EditCrashes = 1
  DownTicks = 4
  Crashes = 2
  Waited = {"p"}
  Loops = {"d"}
  ServeReqs = 1
  ServeFaults = 1
  ServeBoots = 2
  TokenCallers = {"c1", "c2"}
  TokenNames = {"a"}
  TokenRoles = {"user", "worker"}
  CodeDraws = 4
  CodeChecks = 0
  UseDraws = 2
  UseChecks = 3
  Requests = {"r1", "r2"}
  Routes = {"perm", "access"}
  Burst = 1
  StaleTicks = 1
  RateArrivals = 8
  RateTicks = 1
  RateChanges = 0
  RateTurns = 1
  GateRequests = {"r"}
  GateArrivals = 5
  GateTicks = 0
  GateChanges = 2
  Patches = {"r1", "r2"}
  Config <- FileConfig
  Mode = ""
  MaxPatches = 2
  MaxNamed = 1
  SettingFaults = 1
  SettingBoots = 2
  ListCallers = {"c1", "c2"}
  TTL = 2
  ListTime = 4
  ListReleases = 2
  ListFaults = 2
  ListCalls = 2
INVARIANTS
  TypeOK
  EventsAreAccounted
  SchedulesHold
  AccessHolds
  CleanShutdown
  LogsAreServed
PROPERTIES
  CachesAgree

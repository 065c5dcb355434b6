SPECIFICATION ReadyFairSpec
CONSTANTS
  Callers = {c1}
  Restarters = {}
  Commands = {"start", "stop", "delete"}
  AutoRestart = FALSE
  MaxRestartAttempts = 3
  EventBuf = 4
  Faults = FALSE
  RemoteWorker = FALSE
  Patient = TRUE
  MaxOps = 4
  MaxCrashes = 1
  MaxDrops = 0
  MaxReboots = 0
CHECK_DEADLOCK FALSE
INVARIANTS
  StoppedIsDown
  ObservedMatchesWorker
PROPERTIES
  LaunchIsWanted
  CallReturns
  OperationEnds

SPECIFICATION ReadyFairSpec
CONSTANTS
  Callers = {c1, c2}
  Restarters = {}
  Commands = {"start", "restart", "stop"}
  AutoRestart = FALSE
  MaxRestartAttempts = 3
  EventBuf = 4
  Faults = FALSE
  RemoteWorker = FALSE
  Patient = FALSE
  MaxOps = 4
  MaxCrashes = 0
  MaxDrops = 0
  MaxReboots = 0
CHECK_DEADLOCK FALSE
PROPERTIES
  WaiterReleased

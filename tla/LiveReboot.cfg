SPECIFICATION Spec
CONSTANTS
  Callers = {c1}
  Restarters = {}
  Commands = {"start", "stop", "delete"}
  AutoRestart = FALSE
  MaxRestartAttempts = 3
  EventBuf = 4
  Faults = FALSE
  RemoteWorker = FALSE
  Patient = TRUE
  MaxOps = 3
  MaxCrashes = 1
  MaxDrops = 0
  MaxReboots = 1
CHECK_DEADLOCK FALSE
INVARIANTS
  RunningIsRecorded

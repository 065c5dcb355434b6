SPECIFICATION Spec
CONSTANTS
  Callers = {c1}
  Restarters = {r1}
  Commands = {"start", "reinstall"}
  AutoRestart = TRUE
  MaxRestartAttempts = 1
  EventBuf = 1
  Faults = TRUE
  RemoteWorker = FALSE
  Patient = FALSE
  MaxOps = 2
  MaxCrashes = 0
  MaxDrops = 1
  MaxReboots = 0
CHECK_DEADLOCK FALSE
INVARIANTS
  TypeOK
  ReadyOnlyWhileRunning

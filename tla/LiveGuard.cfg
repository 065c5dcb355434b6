SPECIFICATION Spec
CONSTANTS
  Callers = {c1, c2}
  Restarters = {}
  Commands = {"restart", "stop", "update", "delete"}
  AutoRestart = FALSE
  MaxRestartAttempts = 3
  EventBuf = 1
  Faults = FALSE
  RemoteWorker = FALSE
  Patient = FALSE
  MaxOps = 3
  MaxCrashes = 0
  MaxDrops = 0
  MaxReboots = 0
SYMMETRY CallerSymmetry
CHECK_DEADLOCK FALSE
INVARIANTS
  PreemptionRespectsPriority
  NoDoubleClose
  DoneChannelHasOwner

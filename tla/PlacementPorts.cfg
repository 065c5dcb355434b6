SPECIFICATION Spec
CONSTANTS
  Gameservers = {g1, g2, g3}
  Nodes = {n1, n2}
  Manual = {g3}
  Cordoned = {}
  Scope = "cluster"
  Faults = TRUE
  Careful = FALSE
  MaxRequests = 2
  MaxDrops = 0
  MaxReboots = 1
  ManualPorts <- MCManualPorts
  Need <- MCNeed
  Memory <- MCMemory
  MaxMemory <- MCMaxMemory
  PortStart <- MCPortStart
  PortEnd <- MCPortEnd
SYMMETRY Symmetry
CHECK_DEADLOCK FALSE
INVARIANTS
  PortsDisjoint
  ReservationEnds
  SkipAheadIsFirstFit

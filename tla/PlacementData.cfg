SPECIFICATION Spec
CONSTANTS
  Gameservers = {g1}
  Nodes = {n1, n2}
  Manual = {}
  Cordoned = {}
  Scope = "cluster"
  Faults = TRUE
  Careful = TRUE
  MaxRequests = 7
  MaxDrops = 2
  MaxReboots = 0
  ManualPorts <- MCManualPorts
  Need <- MCNeed
  Memory <- MCMemory
  MaxMemory <- MCMaxMemory
  PortStart <- MCPortStart
  PortEnd <- MCPortEnd
SYMMETRY Symmetry
CHECK_DEADLOCK FALSE
INVARIANTS
  DataReachable

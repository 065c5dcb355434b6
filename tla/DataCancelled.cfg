SPECIFICATION Spec
CONSTANTS
  null = null
CHECK_DEADLOCK FALSE
INVARIANTS
  CancelledIsWhole

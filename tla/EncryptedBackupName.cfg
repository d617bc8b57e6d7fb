CONSTANTS
  MaxTime = 1
SPECIFICATION Spec
INVARIANTS
  PlaintextIsRemoved
CHECK_DEADLOCK FALSE

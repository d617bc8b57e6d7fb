CONSTANTS
  MaxRuns = 3
  MaxFaults = 2
  MaxHides = 2
SPECIFICATION Spec
INVARIANTS
  OneInvocation
  PassIsEarned
  NothingLeftOpen
PROPERTY ConclusionsStand
CHECK_DEADLOCK FALSE

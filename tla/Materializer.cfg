CONSTANTS
  Depth = 2
  Size = 2
  Assets = {prompt, schema}
  Versions = {1, 2}
  MaxCalls = 4
  MaxChanges = 3
SPECIFICATION MCSpec
INVARIANTS
  ClosedOnce
  OutcomeIsTold
  SuccessIsBound
  NoPartialWorkspace
PROPERTY ImplementsAtomicReplace
CHECK_DEADLOCK FALSE

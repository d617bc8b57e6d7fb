CONSTANTS
  Workers = {w1, w2}
  Limit = 2
  Chunk = 2
  InputTimeout = 2
  RunTimeout = 2
  WaitGrace = 1
  MaxItem = 4
SPECIFICATION Spec
INVARIANTS
  ItemIsWhole
  HoldersAreGone
PROPERTY LauncherEnds
CHECK_DEADLOCK FALSE

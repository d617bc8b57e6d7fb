CONSTANTS
  Trees <- MCTrees
  Size <- MCSize
  Fold <- MCFold
  Order <- MCOrder
  Text <- MCText
  Unsafe = {"dots"}
  Stores <- MCStores
  Root <- MCRoot
  Frozen = "frozen"
  MaxFiles = 2
  MaxBytes = 3
  MaxFileBytes = 2
  MaxDepth = 1
  MaxTampers = 3
SPECIFICATION Spec
INVARIANTS
  PublishedIsTheCommit
  DiskIsBounded
PROPERTY VerifiedIsTheCommit
CHECK_DEADLOCK FALSE

CONSTANTS
  MaxChanges = 2
  Inodes = {i1, i2}
  Pinned = i1
  Chunk = 1
  MaxSize = 2
  MaxBytes = 4
SPECIFICATION MCSpec
INVARIANTS
  GitReadWhatWasAudited
  AcceptedIsOneVersion
  QuietReadsSucceed
CHECK_DEADLOCK FALSE

CONSTANTS
  Timeout = 4
  MaxOutput = 2
  KillGrace = 2
  PipeGrace = 3
  ExitGrace = 1
  WaitGrace = 2
  MaxWrites = 4
SPECIFICATION FairSpec
INVARIANTS
  SuccessIsComplete
  CaptureIsBounded
  TimeIsBounded
  SurvivorWasKilled
  AnomalyIsReported
PROPERTIES
  Returns
CHECK_DEADLOCK FALSE

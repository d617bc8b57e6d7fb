CONSTANTS
  Actions <- MCActions
  SafeTasks <- MCSafeTasks
  OtherTask = "other_task"
  Target = "target"
  OtherHost = "localhost"
  MaxResults = 2
SPECIFICATION Spec
INVARIANTS
  ArtifactIsGenuine
  AcceptedPlayWasClean
  SecretsStayBehind
CHECK_DEADLOCK FALSE

CONSTANTS
  i1 = i1
  i2 = i2
  j1 = j1
  j2 = j2
  a1 = a1
  a2 = a2
  a3 = a3
  Nobody = Nobody
  Invocations = {i1}
  Journals = {j1}
  Approvals = {a1, a2}
  Journal <- SharedJournal
  Needed <- ReplayNeeded
  Live <- AllLive
  Artifact <- WithArtifact
  Auth <- AlwaysAuth
  Window <- AlwaysWindow
  Skew = 0
  MaxApproval = 10
  MaxTime = 0
  Markable = {a2}
  Tamperable = {"trust", "snapshots", "ssh", "attestation", "extra_vars", "runtime", "backend"}
  Faults = {"cleanup", "uncaught"}
SPECIFICATION Spec
INVARIANTS
  TamperStopsPayload
  SuccessIsEarned
  ProjectionPrecedesLivePayload
  RetainedTreeIsReported
CHECK_DEADLOCK FALSE

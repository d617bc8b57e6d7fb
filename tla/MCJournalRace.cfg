CONSTANTS
  i1 = i1
  i2 = i2
  j1 = j1
  j2 = j2
  a1 = a1
  a2 = a2
  a3 = a3
  Nobody = Nobody
  Invocations = {i1, i2}
  Journals = {j1}
  Approvals = {a1, a2, a3}
  Journal <- SharedJournal
  Needed <- RetryNeeded
  Live <- FirstLive
  Artifact <- WithArtifact
  Auth <- TightAuth
  Window <- TightWindow
  Skew = 1
  MaxApproval = 10
  MaxTime = 4
  Markable = {}
  Tamperable = {}
  Faults = {"os_error", "kill"}
SPECIFICATION Spec
INVARIANTS
  ConsumptionIsJournaled
  PhasesTellWhatRan
  ClaimedWithinWindow
PROPERTIES
  EvidenceIsAppendOnly
CHECK_DEADLOCK FALSE

\* Concurrent replays of a token, stops and restarts of the proxy.
CONSTANTS
  Actions <- ApprovedActions
  Rules <- ApprovedRules
  Tunnels = {"tunnel"}
  DefaultDecision = "block"
  DefaultRisk = 3
  EvidenceThreshold = 2
  Workers = {w1, w2}
  Granters = {g1}
  CliWhileUp = FALSE
  CutWrites = FALSE
  DiskFaults = FALSE
  TTL = 0
  MaxRequests = 3
  MaxGrants = 1
  MaxCrashes = 1
  MaxTime = 1
  Free = Free
  NoApproval = NoApproval
  NoFile = NoFile
  Torn = Torn
SYMMETRY WorkerSymmetry
SPECIFICATION Spec
INVARIANTS TypeOK PerformedIsAuthorised ApprovalUsedOnce JournalIsChained AnsweredIsEvidenced
PROPERTY GrantIsHonoured
CHECK_DEADLOCK FALSE

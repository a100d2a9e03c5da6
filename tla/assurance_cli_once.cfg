\* The approve command runs beside a live proxy.
CONSTANTS
  Actions <- OneAction
  Rules <- OneRule
  Tunnels = {}
  DefaultDecision = "block"
  DefaultRisk = 3
  EvidenceThreshold = 2
  Workers = {w1}
  Granters = {}
  CliWhileUp = TRUE
  CutWrites = FALSE
  DiskFaults = FALSE
  TTL = 0
  MaxRequests = 4
  MaxGrants = 1
  MaxCrashes = 2
  MaxTime = 0
  Free = Free
  NoApproval = NoApproval
  NoFile = NoFile
  Torn = Torn
SPECIFICATION Spec
INVARIANT ApprovalUsedOnce
CHECK_DEADLOCK FALSE

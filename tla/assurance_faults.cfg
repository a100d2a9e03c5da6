\* Every way through the handler ends, exceptions included.
CONSTANTS
  Actions <- MixedActions
  Rules <- MixedRules
  Tunnels = {"tunnel"}
  DefaultDecision = "block"
  DefaultRisk = 3
  EvidenceThreshold = 2
  Workers = {w1, w2}
  Granters = {g1}
  CliWhileUp = FALSE
  CutWrites = TRUE
  DiskFaults = TRUE
  TTL = 0
  MaxRequests = 2
  MaxGrants = 1
  MaxCrashes = 1
  MaxTime = 1
  Free = Free
  NoApproval = NoApproval
  NoFile = NoFile
  Torn = Torn
SPECIFICATION FairSpec
INVARIANT VerifiedMeansComplete
PROPERTY EveryRequestEnds
CHECK_DEADLOCK FALSE

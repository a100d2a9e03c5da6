\* An agent that comes back only once the hub has forgotten its last connection.
CONSTANTS
  Tasks = {"t1"}
  Orgs = {"acme", "lab"}
  Payer <- PaidByAcme
  Payee <- PaidToLab
  Amount <- AllFree
  AutoRelease <- Automatic
  Agents = {"worker"}
  Assignee <- OneAgent
  NeedsApproval = {}
  Malformed = {}
  MaxAgents = 0
  MaxInFlight = 0
  MaxQueue = 0
  Overlap = FALSE
  AdminActs = FALSE
  MaxSockets = 5
  MaxDrops = 2
  MaxRestarts = 1
  MaxRetries = 0
  MaxMinted = 0
SPECIFICATION FairSpec
INVARIANT RegisteredIsReachable
PROPERTY PendingIsTakenUp
CHECK_DEADLOCK FALSE

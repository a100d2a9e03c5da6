\* An agent may come back before the hub has noticed that its last connection is over.
CONSTANTS
  Tasks = {"t1"}
  Orgs = {"acme", "lab"}
  Payer <- PaidByAcme
  Payee <- PaidToLab
  Amount <- AllFree
  AutoRelease <- Automatic
  Agents = {"worker"}
  Assignee <- OneAgent
  NeedsApproval = {}
  Malformed = {}
  MaxAgents = 0
  MaxInFlight = 0
  MaxQueue = 0
  Overlap = TRUE
  AdminActs = FALSE
  MaxSockets = 3
  MaxDrops = 1
  MaxRestarts = 0
  MaxRetries = 0
  MaxMinted = 0
SPECIFICATION FairSpec
PROPERTY PendingIsTakenUp
CHECK_DEADLOCK FALSE

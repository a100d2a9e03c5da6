\* One agent, one paid task that waits for an approval and one that is malformed.
CONSTANTS
  Tasks = {"t1", "t2"}
  Orgs = {"acme", "lab"}
  Payer <- PaidByAcme
  Payee <- PaidToLab
  Amount <- AllPaid
  AutoRelease <- Automatic
  Agents = {"worker"}
  Assignee <- OneAgent
  NeedsApproval = {"t1"}
  Malformed = {"t2"}
  MaxAgents = 1
  MaxInFlight = 1
  MaxQueue = 1
  Overlap = TRUE
  AdminActs = TRUE
  MaxSockets = 2
  MaxDrops = 1
  MaxRestarts = 0
  MaxRetries = 1
  MaxMinted = 1
SPECIFICATION Spec
INVARIANTS TypeOK MoneyConserved NothingHeldWhilePending ToldIsSettled
CHECK_DEADLOCK FALSE

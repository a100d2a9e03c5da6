\* An orchestrator and an executor on two hubs; a connection is lost and a hub is killed.
CONSTANTS
  Hubs = {"hubA", "hubB"}
  NoHub = "none"
  Agents = {"lead", "worker"}
  Tasks = {"t1"}
  Owner <- Lead
  Assignee <- Worker
  Configured <- Addresses
  FirstHubs = {"hubA", "hubB"}
  LateRegister = FALSE
  MaxDrops = 1
  MaxCrashes = 1
SPECIFICATION FairSpec
INVARIANTS TypeOK ConnectedIsFound
PROPERTIES OrphanReattaches AssignedIsAnswered
CHECK_DEADLOCK FALSE

\* The same two hubs, without any fault.
CONSTANTS
  Hubs = {"hubA", "hubB"}
  NoHub = "none"
  Agents = {"lead", "worker"}
  Tasks = {"t1"}
  Owner <- Lead
  Assignee <- Worker
  Configured <- Addresses
  FirstHubs = {"hubA", "hubB"}
  LateRegister = FALSE
  MaxDrops = 0
  MaxCrashes = 0
SPECIFICATION Spec
INVARIANTS ResultIsRecorded
CHECK_DEADLOCK FALSE

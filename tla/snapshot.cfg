\* A hub at work; snapshots, two restores, a crash, and a refusal of the disk and of the database.
CONSTANTS
  Tasks = {"t1", "bad"}
  Malformed = {"bad"}
  Orgs = {"acme", "lab"}
  Payer <- ByAcme
  Payee <- ToLab
  Amount <- OneUnit
  AutoRelease <- Automatic
  Agents = {"worker"}
  Keys = {"k1"}
  Given = {"base"}
  SafetyName <- BySecond
  NoFile = NoFile
  Torn = Torn
  OnePerSecond = TRUE
  ShortWrites = FALSE
  MaxTime = 1
  MaxEntries = 4
  MaxRestores = 2
  MaxCrashes = 1
  MaxMinted = 1
  MaxFileFaults = 1
  MaxTableFaults = 1
SPECIFICATION Spec
INVARIANTS TypeOK MoneyConserved RestoreIsReversible StoreFollowsMemory HeldIsKnown
PROPERTY AuditOnlyGrows
CHECK_DEADLOCK FALSE

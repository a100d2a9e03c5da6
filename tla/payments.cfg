\* Two calls of one agent with a budget and a credit of one, whose threads and those of the registry overlap.
CONSTANTS
  Accounts = {"agent", "shop"}
  Requests = {"r1", "r2"}
  Payer <- OnePayer
  Vendor = "shop"
  Price <- Unit
  Limit <- OneUnit
  Budget <- OneUnit
  MaxPrice = 1
  Overlap = TRUE
  MaxSettlements = 1
  MaxDiskFaults = 1
  MaxMishaps = 1
  MaxRestarts = 1
SPECIFICATION FairSpec
INVARIANTS TypeOK ServedIsOnFile ProofHonouredOnce BilledWithinBudget BooksBalance DebtWithinLimit
PROPERTIES ImplementsAccountBook EveryCallEnds
CHECK_DEADLOCK FALSE

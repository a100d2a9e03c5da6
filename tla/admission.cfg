\* Two fan-outs: one with a child and a forbidden payload, one against the rates.
CONSTANTS
  Tasks = {"ok1", "ok2", "ok3", "child", "bad", "poor"}
  NoTask = "none"
  Parent <- Cascade
  Costly = {}
  Forbidden = {"bad"}
  NoFunds = {"poor"}
  NeedsApproval = {"ok2"}
  Fans <- TwoFans
  MaxDepth = 1
  MaxRate = 2
  Window = 2
  Threshold = 2
  Cooldown = 2
  Capacity = 1
  MaxInFlight = 2
  MaxQueue = 1
  MaxTime = 3
  MaxTimeouts = 1
  MaxDrops = 1
SPECIFICATION FairSpec
INVARIANTS TypeOK RateHolds BurstHolds IsolatedIsSilent
PROPERTIES NoBranchForgotten
CHECK_DEADLOCK FALSE

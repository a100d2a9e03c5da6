\* Two hubs; two links are lost, an agent leaves and comes back, one request is stopped by egress.
CONSTANTS
  Orgs = {"acme", "globex"}
  Dialers = {"acme"}
  Exchanges = {"job", "who", "ask"}
  From <- Beginners
  Kind <- Kinds4
  BlockedThere = {}
  BlockedBack = {"ask"}
  LateConnect = FALSE
  MaxLinks = 2
  MaxDrops = 1
  MaxLeaves = 1
SPECIFICATION FairSpec
INVARIANT TypeOK
PROPERTIES LinksHeal RelayedArrives
CHECK_DEADLOCK FALSE

SPECIFICATION FairSpec
CONSTANTS
  UI = ui
  NoWake = noWake
  Producers = {p1}
  Contexts = {c1, c2}
  MaxItems = 2
  MaxWeight = 2
  Weights = {1}
  BridgeItems = 1
  BridgeWeight = 2
  MaxOffers = 3
  MaxMessages = 1
  LossyPost = FALSE
PROPERTIES
  AcceptedIsApplied
  WaitsEnd
CHECK_DEADLOCK FALSE

SPECIFICATION Spec
CONSTANTS
  UI = ui
  NoWake = noWake
  Producers = {p1, p2}
  Contexts = {c1, c2}
  MaxItems = 2
  MaxWeight = 3
  Weights = {0, 2}
  BridgeItems = 1
  BridgeWeight = 3
  MaxOffers = 4
  MaxMessages = 2
  LossyPost = FALSE
INVARIANTS
  WeightAccounted
  InOrderWithoutLoss
  NothingAcceptedIsRejected
  ContextOwnership
  NoLostWake
PROPERTIES
  ImplementsQueue
SYMMETRY Symmetric
CHECK_DEADLOCK FALSE

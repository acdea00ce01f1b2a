SPECIFICATION BridgeSpec
CONSTANTS
  BridgeItems = 2
  BridgeWeight = 3
  MaxData = 3
  Weights = {0, 1, 3}
  ProgressValues = {1, 2}
  MaxProgress = 1
  MaxDrain = 3
INVARIANTS
  QueueAccounted
  NothingLostUnlessCancelled
PROPERTIES
  ImplementsProtocol
  CloseIsDelivered
CHECK_DEADLOCK FALSE

SPECIFICATION Spec
CONSTANTS
  Graphs <- TwoGraphs
  MaxSessions = 3
  MaxNow = 1
  MaxDepth = 1
  Reentry <- Reentrant
INVARIANTS
  SessionsAgree
  NothingStalls
  HooksReleased
PROPERTIES
  StatusIsFinal
CHECK_DEADLOCK FALSE

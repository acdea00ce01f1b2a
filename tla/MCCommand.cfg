SPECIFICATION Spec
CONSTANTS
  Policy = "ordered"
  MaxRuns = 3
  MaxPending = 1
  MaxDepth = 1
  Reentry <- NoNestedPump
  MayRaise = {"executor", "result"}
INVARIANTS
  TicketsAgree
  NotWedged
  RunsAreSettled
PROPERTIES
  StartsInOrder
CHECK_DEADLOCK FALSE

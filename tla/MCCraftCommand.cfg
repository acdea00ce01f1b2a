SPECIFICATION Spec
CONSTANTS
  MaxRuns = 2
  MaxPending = 2
  MaxWeight = 2
  MaxDepth = 1
  Reentry <- Reentrant
INVARIANTS
  TicketsAgree
  NotWedged
  AnswersKept
  WakeNotLost
CHECK_DEADLOCK FALSE

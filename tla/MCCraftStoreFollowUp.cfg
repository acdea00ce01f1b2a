SPECIFICATION Spec
CONSTANTS
  MaxActions = 2
  MaxCommitSubs = 2
  MaxChangeSubs = 1
  MaxStack = 4
  MayPanic = FALSE
  Ops = {"subscribe"}
INVARIANTS
  FollowUpsAreReduced

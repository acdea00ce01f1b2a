SPECIFICATION Spec
CONSTANTS
  MaxActions = 2
  MaxCommitSubs = 2
  MaxChangeSubs = 1
  MaxStack = 4
  MayPanic = TRUE
  Ops = {"silent", "read", "subscribe", "refresh", "dispose", "watch"}
INVARIANTS
  SignalsAgree
  PanicsUnlock
  SelectorIsFresh
  WatchFollows
PROPERTIES
  RevisionsInOrder

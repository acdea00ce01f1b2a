SPECIFICATION Spec
CONSTANTS
  Screens = 2
  MaxRoots = 4
  MaxEntries = 3
  MaxTrouble = 1
  Redirects = TRUE
INVARIANTS
  HistoryIsSound
  HostFollows
  OnlyActiveShown
  HooksPaired
PROPERTIES
  LeavingKeepsFocus
CHECK_DEADLOCK FALSE

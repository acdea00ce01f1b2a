SPECIFICATION Spec
CONSTANTS
  Screens = 2
  MaxRoots = 4
  MaxEntries = 3
  MaxTrouble = 0
  Redirects = TRUE
PROPERTIES
  EveryEntryKeepsFocus
CHECK_DEADLOCK FALSE

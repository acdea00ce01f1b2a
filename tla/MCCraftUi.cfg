SPECIFICATION Spec
CONSTANTS
  Nodes <- UiNodes
  Parent <- UiParent
  Callbacks <- UiCallbacks
  Owns <- UiOwns
  Components = {"page", "card"}
  MaxDepth = 2
INVARIANTS
  NothingDangles
  RegistryAgrees
  TeardownCompletes
CHECK_DEADLOCK FALSE

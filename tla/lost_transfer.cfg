SPECIFICATION Spec
CONSTANTS
  Nodes = {1, 2, 3, 4, 5}
  w1 = w1
  w2 = w2
  w3 = w3
  Windows = {w1, w2, w3}
  NULL = NULL
  Malloc <- MCMalloc
  VirtualDesktops = 2
  Dialogs = {w1,w2}
  RuleDesktop <- NoRules
  FocusFollowPointer = TRUE
  FocusFollowSpawn = FALSE
  RestoreLastFocus = FALSE
  Keys = {"transfer_node"}
  LayoutKeys = {}
  Messages = {}
VIEW View
PROPERTIES
  Conserved
CHECK_DEADLOCK FALSE

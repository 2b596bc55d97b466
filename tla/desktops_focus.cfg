SPECIFICATION Spec
CONSTANTS
  Nodes = {1, 2, 3, 4, 5}
  w1 = w1
  w2 = w2
  w3 = w3
  Windows = {w1, w2, w3}
  NULL = NULL
  Malloc <- MCMalloc
  VirtualDesktops = 2
  Dialogs = {w3}
  RuleDesktop <- NoRules
  FocusFollowPointer = FALSE
  FocusFollowSpawn = TRUE
  RestoreLastFocus = TRUE
  Keys = {"swap", "change_state"}
  LayoutKeys = {}
  Messages = {}
VIEW View
INVARIANTS
  OneFocused
  FocusAgrees
  CurrentShown
PROPERTIES
  Remembered

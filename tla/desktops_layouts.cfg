SPECIFICATION Spec
CONSTANTS
  Nodes = {1, 2, 3, 4, 5}
  w1 = w1
  w2 = w2
  w3 = w3
  Windows = {w1, w2, w3}
  NULL = NULL
  Malloc <- MCMalloc
  VirtualDesktops = 1
  Dialogs = {}
  RuleDesktop <- NoRules
  FocusFollowPointer = TRUE
  FocusFollowSpawn = FALSE
  RestoreLastFocus = FALSE
  Keys = {"traverse", "swap", "cycle_window", "fullscreen"}
  LayoutKeys = {"DEFAULT", "MASTER", "STACK"}
  Messages = {"_NET_WM_STATE"}
VIEW View
SYMMETRY Symmetry
INVARIANTS
  OneMaster
\* zwm may stop: cycle_window without a window is a null dereference.
CHECK_DEADLOCK FALSE

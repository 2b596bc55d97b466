SPECIFICATION DragSpec
CONSTANTS
  Nodes = {1, 2, 3, 4, 5}
  w1 = w1
  w2 = w2
  w3 = w3
  Windows = {w1, w2, w3}
  NULL = NULL
  Malloc <- MCMalloc
  VirtualDesktops = 1
  Dialogs = {w3}
  RuleDesktop <- NoRules
  FocusFollowPointer = TRUE
  FocusFollowSpawn = TRUE
  RestoreLastFocus = FALSE
  Keys = {"keyboard_drag"}
  LayoutKeys = {"MASTER"}
  Messages = {}
VIEW DragView
CONSTRAINT Whole
INVARIANTS
  DragTypeOK
  OneMaster
PROPERTIES
  DropMoves
\* zwm may stop: the motions and the drop of a session may use a freed node.
CHECK_DEADLOCK FALSE

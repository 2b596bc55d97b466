SPECIFICATION Spec
CONSTANTS
  Nodes = {1, 2, 3, 4, 5}
  w1 = w1
  w2 = w2
  w3 = w3
  Windows = {w1, w2, w3}
  NULL = NULL
  Malloc <- MCMalloc
  VirtualDesktops = 2
  Dialogs = {w2}
  RuleDesktop <- OneRule
  FocusFollowPointer = TRUE
  FocusFollowSpawn = FALSE
  RestoreLastFocus = FALSE
  Keys = {"transfer_node", "swap"}
  LayoutKeys = {}
  Messages = {"_NET_WM_DESKTOP"}
VIEW View
INVARIANTS
  TypeOK
  Linked
  OneTree
  CountExact
  HiddenUnmapped
PROPERTIES
  Conserved
  OrderStable
  ImplementsPlacement

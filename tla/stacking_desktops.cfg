SPECIFICATION Spec
CONSTANTS
  w1 = w1
  w2 = w2
  w3 = w3
  WindowOrder <- Two
  NULL = NULL
  VirtualDesktops = 2
  TransientFor <- Dialog
  Dialogs = {w2}
  Toolbars = {}
  AskedState <- Nothing
  RuleDesktop <- OneRule
  Configurations <- Both
  Keys = {"transfer_node", "cycle_window"}
  LayoutKeys = {"STACK"}
  Messages = {"_NET_CURRENT_DESKTOP","_NET_WM_DESKTOP"}
  StateAtoms = {"ABOVE"}

VIEW View
INVARIANTS
  Ordered
  Listed

SPECIFICATION Spec
CONSTANTS
  w1 = w1
  w2 = w2
  w3 = w3
  WindowOrder <- MCOrder
  NULL = NULL
  VirtualDesktops = 1
  TransientFor <- Dialog
  Dialogs = {w2}
  Toolbars = {}
  AskedState <- Nothing
  RuleDesktop <- NoRules
  Configurations <- Both
  Keys = {"cycle_window","traverse","fullscreen","change_state"}
  LayoutKeys = {}
  Messages = {"_NET_WM_STATE"}
  StateAtoms = {"ABOVE"}
CONSTRAINT OneChanges
VIEW View
INVARIANTS
  TypeOK
  Ordered
  DialogAbove
  FullscreenAbove

SPECIFICATION Spec
CONSTANTS
  eDP = eDP
  HDMI = HDMI
  OutputOrder <- Laptop
  Hotplug = {HDMI}
  Modes = {"m1", "m2"}
  Addresses = {1, 2, 3}
  Windows = {w1, w2}
  Dialogs = {}
  VirtualDesktops = 2
  NULL = NULL
  Malloc <- MCMalloc
VIEW View
SYMMETRY Symmetry
INVARIANTS
  TypeOK
  InSync
  PointersListed
PROPERTIES
  Conserved
  Refitted

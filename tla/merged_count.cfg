SPECIFICATION Spec
CONSTANTS
  eDP = eDP
  HDMI = HDMI
  OutputOrder <- Laptop
  Hotplug = {HDMI}
  Modes = {"m1"}
  Addresses = {1, 2, 3}
  Windows = {w1, w2}
  Dialogs = {}
  VirtualDesktops = 1
  NULL = NULL
  Malloc <- MCMalloc
SYMMETRY Symmetry
PROPERTIES
  ClientListComplete

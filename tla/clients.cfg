SPECIFICATION Spec
CONSTANTS
  w1 = w1
  w2 = w2
  b1 = b1
  NULL = NULL
  Apps = {w1, w2}
  Bars = {b1}
  VirtualDesktops = 2
  BarStruts <- FrameStruts
  Screens <- TwoScreens
  FirstScreen <- Beside
  MaxQueue = 1
\* zwm may wait for events for ever.
CHECK_DEADLOCK FALSE
INVARIANTS
  TypeOK
  InStep
  Listening
  BarsClear
PROPERTIES
  Forgotten
  ComesToBeManaged
  SpaceReturned

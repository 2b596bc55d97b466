SPECIFICATION Spec
CONSTANTS
  w1 = w1
  w2 = w2
  NULL = NULL
  Windows = {w1, w2}
  Files <- MCFiles
  DefaultKeys <- MCDefaultKeys
  DefaultDesktops = 2
  Keymaps <- MCKeymaps
\* zwm may stop: a desktop past the end of the array may be asked for.
CHECK_DEADLOCK FALSE
INVARIANTS
  TypeOK
  
  
  BoundKeysGrabbed

  

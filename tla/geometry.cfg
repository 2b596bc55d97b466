SPECIFICATION Spec
CONSTANTS
  Nodes = {1, 2, 3, 4, 5}
  w1 = w1
  w2 = w2
  w3 = w3
  Windows = {w1, w2, w3}
  NULL = NULL
  Malloc <- MCMalloc
  BorderWidth = 1
  FirstGap = 5
  MaxGap = 10
  MinTile = 26
  Offered = {"DEFAULT", "MASTER"}
  Areas <- MCAreas
  NegToU16 <- Wraps
VIEW View
CONSTRAINT Bounded
\* zwm may stop: the gap of a lone window in the master layout is a null dereference.
CHECK_DEADLOCK FALSE
INVARIANTS
  TilesFit

SPECIFICATION Spec
CONSTANTS
  A = A
  B = B
  p1 = p1
  p2 = p2
  Contexts = {A, B}
  First = A
  None = None
  Kinds = {"account", "cross", "network"}
  Passes = {p1, p2}
  MaxMoves = 2
  MaxOpens = 2
  Lag = 2
INVARIANTS
  
  MarkedMeansScanned
PROPERTY
  FirstSyncCompletes
CHECK_DEADLOCK FALSE

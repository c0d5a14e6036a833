SPECIFICATION Spec
CONSTANTS
  A = A
  Accounts = {A}
  Existing = {A}
  None = None
  Scans = {"backfill", "forward"}
  Operations = {}
  GapLimit = 1
  Lookahead = 1
  MaxCoin = 1
  MaxReceives = 1
  MaxOperations = 0
  MaxFaults = 1
  AddressReuse = FALSE
INVARIANT
  NoBlindSpot
PROPERTIES
  UncutFundsDiscovered
  HistoryNeverForgotten
CHECK_DEADLOCK FALSE

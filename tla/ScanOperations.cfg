SPECIFICATION Spec
CONSTANTS
  A = A
  B = B
  Accounts = {A, B}
  Existing = {A}
  None = None
  Scans = {"forward"}
  Operations = {"create", "network", "switch"}
  GapLimit = 1
  Lookahead = 1
  MaxCoin = 0
  MaxReceives = 0
  MaxOperations = 2
  MaxFaults = 2
  AddressReuse = FALSE

  
PROPERTY
  EventuallyInitialized
CHECK_DEADLOCK FALSE

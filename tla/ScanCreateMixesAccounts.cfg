SPECIFICATION Spec
CONSTANTS
  A = A
  B = B
  Accounts = {A, B}
  Existing = {A}
  None = None
  Scans = {"hot"}
  Operations = {"create"}
  GapLimit = 1
  Lookahead = 1
  MaxCoin = 0
  MaxReceives = 0
  MaxOperations = 1
  MaxFaults = 0
  AddressReuse = FALSE
INVARIANT
  StoredCachesBelongToTheirAccount
CHECK_DEADLOCK FALSE

SPECIFICATION Spec
CONSTANTS
  c1 = c1
  c2 = c2
  Calls = {c1, c2}
  Ops = {"create", "recover", "restore", "unlock", "guess", "backup", "lock", "logout", "switchNetwork", "switchAccount", "createAccount"}
  Mainnet = Mainnet
  Testnet = Testnet
  None = None
  ShortThreshold = 2
  LongThreshold = 3
  MaxSeeds = 2
  MaxMoves = 3
SYMMETRY MCSymmetry
INVARIANTS
  SelectionAgrees
  AccountsAreOfTheVault
  LockedHoldsNoKey
  GuessesAreLimited
PROPERTIES
  RestoreKeepsChoice
CHECK_DEADLOCK FALSE

SPECIFICATION Spec
CONSTANTS
  r1 = r1
  r2 = r2
  Requests = {r1, r2}
  Handled = {r1, r2}
  XpubOnly = {r2}
  Networks = {"mainnet", "testnet"}
  Mainnet = "mainnet"
  None = None
  MaxAccounts = 2
  MaxMoves = 2
INVARIANT
  SharedIsChosen
PROPERTIES
  ClosedIsAnswered
  KeepsConsent
CHECK_DEADLOCK FALSE

SPECIFICATION Spec
CONSTANTS
  a1 = a1
  a2 = a2
  Accounts = {a1, a2}
  Currencies = {"btc", "eth", "usdt"}
  Coins <- MCCoins
  Deposit <- MCDeposit
  InVB <- MCIn
  OutVB <- MCOut
  Overhead = 2
  Dust = 2
  RateAnswers <- MCRateAnswers
  Markets <- MCMarkets
  Ether <- MCEther
  Amounts = {7, 15}
  FiatAmounts = {15}
  FiatRates = {2}
  MaxPresses = 3
  MaxAttempts = 2
  MaxMoves = 2
INVARIANTS
  PreviewIsCoherent
  PaysWhatWasConfirmed
  MaxStands
  RefusalMeansUnsent
  SomeoneWillAnswer
CHECK_DEADLOCK FALSE

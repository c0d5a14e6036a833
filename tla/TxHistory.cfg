SPECIFICATION Spec
CONSTANTS
  A = A
  B = B
  pay = pay
  income = income
  Accounts = {A, B}
  Txs = {pay, income}
  TxsOf <- MCTxsOf
  Payments = {pay}
  PayerOf <- MCPayerOf
  None = None
  MaxQueued = 1
  MaxMoves = 1
  MaxTroubles = 1

  
PROPERTIES
  HistoryOnlyGrows
  PaymentRecorded
  

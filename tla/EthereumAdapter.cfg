SPECIFICATION Spec
CONSTANTS
  Main = Main
  Test = Test
  A = A
  B = B
  Coin = Coin
  Sent = Sent
  Networks = {Main, Test}
  DefaultNetwork = Main
  Accounts = {A, B}
  Assets = {Coin}
  ContractOn <- MCContractOn
  Txs = {Sent}
  Home <- MCHome
  Currencies = {"usd", "eur"}
  Calls = {c1, c2}
  c1 = c1
  c2 = c2
  m1 = m1
  m2 = m2
  Movers = {m1, m2}
  None = None
  MaxCalls = 2
  MaxEvents = 2
INVARIANTS
  KeptUnderOwnKey
  MemoryIsStored
  AnswerIsSettled
  AdapterFollowsSelection
  LogoutWipes
PROPERTY
  HistoryNeverLost
SYMMETRY MCSymmetry
CHECK_DEADLOCK FALSE

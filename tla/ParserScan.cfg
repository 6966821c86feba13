CONSTANTS
  d1 = d1
  d2 = d2
  None = None
  Deposits = {d1, d2}
  DepositInfo <- MCDepositInfo
  Withdrawals = {}
  MaxPays = 2
  Project = "project"
  Usdt = "usdt"
  Accounts = {"user", "project"}
  Payee = "user"
  Finality = 1
  BlockSize = 2
  MaxReorgs = 1
  MaxCrashes = 1
  MaxFaults = 1
  MaxTroubles = 2
  ConfirmationBlocks = 1
  Lookback = 1
  Ticks = {1, 2}
  PayConf = 1
  PromptMarks = TRUE
SPECIFICATION Spec
INVARIANTS
  BookedIsFinal
  NothingMissed
PROPERTIES
  BooksOnce
CHECK_DEADLOCK FALSE

CONSTANTS
  d1 = d1
  d2 = d2
  None = None
  Deposits = {}
  DepositInfo <- MCDepositInfo
  Withdrawals = {1}
  MaxPays = 2
  Project = "project"
  Usdt = "usdt"
  Accounts = {"user", "project"}
  Payee = "user"
  Finality = 1
  BlockSize = 2
  MaxReorgs = 1
  MaxCrashes = 1
  MaxFaults = 1
  MaxTroubles = 1
  ConfirmationBlocks = 1
  Lookback = 1
  Ticks = {1, 2}
  PayConf = 1
  PromptMarks = TRUE
SPECIFICATION Spec
INVARIANTS
  PaidOncePerStart
  OutcomeTrue
  RefundsMatch
PROPERTIES
  AllPaidOut
  CatchesUp
CHECK_DEADLOCK FALSE

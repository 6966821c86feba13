CONSTANTS
  OrderIds = {1, 2, 3}
  Prices = {1, 2}
  Sizes = {1, 2}
  Funds = {2}
  MaxPrice = 5
  WindowCap = 4
  Users = {1, 2}
  Plans <- MCPlans
  Deposits <- MCDeposits
  FillLimit = 2
  BillLimit = 2
  FillBatch = 2
  FillChCap = 1
  RequestsPerUser = 2
  MaxCancels = 1
  MaxSettleCrashes = 0
SPECIFICATION Spec
INVARIANTS
  HoldBacked
  OverdrawnOnlyInRace
  Conserved
  RowsFollowLog
CHECK_DEADLOCK FALSE

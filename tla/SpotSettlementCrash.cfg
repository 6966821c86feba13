CONSTANTS
  OrderIds = {1, 2}
  Prices = {1, 2}
  Sizes = {1, 2}
  Funds = {2}
  MaxPrice = 5
  WindowCap = 4
  Users = {1, 2}
  Plans <- MCPlans
  Deposits <- MCDeposits
  FillLimit = 2
  BillLimit = 2
  FillBatch = 2
  FillChCap = 1
  RequestsPerUser = 2
  MaxCancels = 1
  MaxSettleCrashes = 1
SPECIFICATION Spec
INVARIANTS
  HoldBacked
PROPERTIES
  SettlesInTheEnd
CHECK_DEADLOCK FALSE

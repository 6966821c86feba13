CONSTANTS
  OrderIds = {1, 2, 3}
  Prices = {1, 2}
  Sizes = {1, 2}
  Funds = {3}
  MaxPrice = 5
  WindowCap = 4
  MaxDeliveries = 2
  MaxCancels = 1
SPECIFICATION Spec
INVARIANTS
  BookTypeOK
  NotCrossed
  PushBookFollows
  PushNeverPanics
  WithinHold
  LimitAccounted
CHECK_DEADLOCK FALSE

CONSTANTS
  Orders = {1}
  Levels = {1, 2}
  Odd = {}
  Sizes = {0, 1}
  MaxCloses = 1
  MaxSlow = 1
  MaxHides = 1
  MaxEvents = 3
SPECIFICATION Spec
INVARIANTS
  BookFollows
  OrdersFollow
PROPERTIES
  StartsOnce
CHECK_DEADLOCK FALSE

CONSTANTS
  a1 = a1
  a2 = a2
  Accounts = {a1, a2}
  NoAccount = NoAccount
  RegStarts = 0
  RegEnds = 1
  SaleStart = 1
  SaleEnd = 2
  Unlock = 2
  Portions = {0, 1}
  UnlockAt <- MCUnlockAt
  MaxTime = 3
  Openings <- MCOpenings
  Listed = {1}
  Priced = {TRUE, FALSE}
  MaxClicks = 2
  MaxTroubles = 1
SPECIFICATION Spec
INVARIANTS
  OncePerAccount
  OnlyAsked
  OneFlow
  ShownFollows
  NeverStuck
CHECK_DEADLOCK FALSE

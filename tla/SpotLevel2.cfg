CONSTANTS
  Levels = {1, 2}
  LevelSizes = {0, 1}
  MaxChanges = 4
  MaxSubs = 2
  MayBreak = FALSE
  L2Gap = 1
  L2Batch = 2
  WriteChCap = 2
  L2ChCap = 3
SPECIFICATION Spec
INVARIANTS
  ViewIsABook

  
CHECK_DEADLOCK FALSE

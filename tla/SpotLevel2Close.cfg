CONSTANTS
  Levels = {1}
  LevelSizes = {0, 1}
  MaxChanges = 4
  MaxSubs = 1
  MayBreak = TRUE
  L2Gap = 1
  L2Batch = 2
  WriteChCap = 1
  L2ChCap = 1
SPECIFICATION Spec
PROPERTY
  CleansUp
CHECK_DEADLOCK FALSE

CONSTANTS
  Topics <- MCTopics
  Granularities <- MCGranularities
  ChCap = 2
  Batch = 2
  MaxCrashes = 2
  MaxLost = 1
SPECIFICATION Spec
INVARIANTS
  TradesOnce
  TicksExact
PROPERTIES
  AllTraded
CHECK_DEADLOCK FALSE

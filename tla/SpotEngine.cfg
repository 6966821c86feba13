CONSTANTS
  OrderIds = {5, 6, 7}
  Prices = {1}
  Sizes = {1, 2}
  Funds = {1}
  MaxPrice = 5
  WindowCap = 4
  FirstId = 5
  Topics <- MCTopics
  SnapshotDelta = 0
  LogBatch = 2
  OrderChCap = 1
  LogChCap = 2
  MaxRequests = 2
  MaxCrashes = 2
SPECIFICATION Spec
INVARIANTS
  EngineTypeOK
  GapsAreKnown
  LogAgrees
PROPERTIES
  SnapshotAdvances
  AllApplied
  AllCommitted
CHECK_DEADLOCK FALSE

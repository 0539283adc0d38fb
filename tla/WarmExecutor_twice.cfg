CONSTANTS
  Nodes <- ThreeNodes
  Deps <- ThreeDeps
  OrderOnly <- ThreeOrderOnly
  Rank <- ThreeRanks
  Values = {0, 1}
  MaxWorkers = 2
  Restoring = TRUE
  MayWithhold = {1}
  None = None
  Absent = Absent
  MaxRounds = 2
  MaxEvents = 1
SPECIFICATION Spec
INVARIANTS PublishedByWholeRun ProvisionalSpreads Genuine OutliveWorkers
CHECK_DEADLOCK FALSE

SPECIFICATION Spec
CONSTANTS
  Nodes <- MCNodes
  Deps <- MCDeps
  Jobs = 3
  MaxFaults = 2
INVARIANTS LaneExclusive NobodyWaits RuntimeGone
CHECK_DEADLOCK FALSE

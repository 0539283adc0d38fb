SPECIFICATION FairSpec
CONSTANTS
  Runs <- OneRun
  Keep <- OnFailure
  Collector = Collector
  Inspector = Inspector
  None = None
  MaxWorkspaces = 1
  MaxSwaps = 1
  MaxFaults = 1
  MaxCrashes = 1
  MaxSparing = 1
  MaxScans = 1
INVARIANTS ActiveSpared Retained
PROPERTY Reclaimed

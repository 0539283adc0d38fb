SPECIFICATION FairSpec
CONSTANTS
  Commands <- One
  MaxAttempts <- OneAttempts
  RetryLaunch <- OneLaunches
  MaxFaults = 2
  MaxStuck = 1
  MaxSweeps = 1
INVARIANTS NothingLeft CloseReachesAll HonestResult
PROPERTY Ends
CHECK_DEADLOCK FALSE

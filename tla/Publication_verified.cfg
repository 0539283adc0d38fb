SPECIFICATION Spec
CONSTANTS
  Runs <- OneRun
  Kind <- OneKind
  Targets <- TwoTargets
  Reports <- TwoReports
  Digests = {"d1"}
  Collector = "gc"
  None = None
  Managed = TRUE
  MaxEdits = 2
  MaxFaults = 1
  MaxCrashes = 1
  MaxSweeps = 1
INVARIANTS OutputsWhole CertifiedTogether SummaryIsCurrent
CHECK_DEADLOCK FALSE

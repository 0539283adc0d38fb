SPECIFICATION Spec
CONSTANTS
  Cells = {1, 2}
  Workers = 2
  Functions <- MCTwo
  Limits = {2, 3}
  MaxCampaigns = 2
  MaxChanges = 2
INVARIANTS Covered ReportGenuine LimitExact
CHECK_DEADLOCK FALSE

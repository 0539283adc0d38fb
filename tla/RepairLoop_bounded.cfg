SPECIFICATION FairSpec
CONSTANTS
  Ids = {a, b}
  MaxFuncs = 2
  Groups = {g, h}
  RoundLimit = 2
  CandidateLimit = 1
INVARIANTS BoundFits EveryGroupTried
PROPERTY Ends
CHECK_DEADLOCK FALSE

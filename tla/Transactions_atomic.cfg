SPECIFICATION FairSpec
CONSTANTS
  t1 = t1
  t2 = t2
  p1 = p1
  p2 = p2
  a = a
  b = b
  None = None
  Recoverer = Recoverer
  Paths = {p1, p2}
  Digests = {a, b}
  Initially <- MCInitially
  Plans <- MCPlans
  Txns = {t1, t2}
  MaxAttempts = 1
  MaxExternal = 0
  MaxFaults = 1
PROPERTIES AtomicUpdates CommitReturns

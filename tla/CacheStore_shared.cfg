SPECIFICATION Spec
CONSTANTS
  b1 = b1
  b2 = b2
  k1 = k1
  k2 = k2
  d1 = d1
  d2 = d2
  None = None
  Collector = Collector
  Inspector = Inspector
  Builders <- TwoBuilders
  Keys <- TwoKeys
  Digests <- TwoDigests
  Produced <- SharedOutputs
  MaxHints = 2
  MaxWork = 1
  MaxCollections = 2
  MaxScans = 1
  MaxFaults = 1
SYMMETRY Interchangeable
INVARIANTS LeaseHeld RecordsComplete HintsKept
PROPERTY CollectsAll

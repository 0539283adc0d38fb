SPECIFICATION Spec
CONSTANTS
  Sources = {s1, s2}
  Texts = {x, y}
  None = none
  Locks = {l}
  Regens = {g}
  Imports = {i, j}
  Extracts = {e}
  Refreshes = {f}
  MaxStarts = 2
  MaxEdits = 1
  MaxFaults = 1
INVARIANTS CoherentUnlessReturned FailedImportWhole
PROPERTY LockedAsIs
SYMMETRY Symmetry
CHECK_DEADLOCK FALSE

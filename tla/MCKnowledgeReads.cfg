SPECIFICATION Spec
CONSTANTS
  d1 = d1
  j1 = j1
  c1 = c1
  none = none
  Docs = {d1}
  Jobs = {j1}
  Deletes = {c1}
  NoJob = none
  Target <- MCTarget
  SearchLimit = 100
  MaxChunks = 1
  MaxFaults = 0
INVARIANT SoftDeleteFilteredEverywhere
CHECK_DEADLOCK FALSE

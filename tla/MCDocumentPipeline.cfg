SPECIFICATION Spec
CONSTANTS
  d1 = d1
  j1 = j1
  j2 = j2
  c1 = c1
  none = none
  Docs = {d1}
  Jobs = {j1, j2}
  Deletes = {c1}
  NoJob = none
  Target <- MCTarget
  MaxChunks = 2
  SearchLimit = 1
  MaxFaults = 1
INVARIANTS WholeChunkSets IndexEntriesBacked SerialIndexedIsComplete OverlapKeepsChunks PurgeLeavesOnlyLateWrites
PROPERTIES LifecycleHolds ProcessingEnds
CHECK_DEADLOCK FALSE

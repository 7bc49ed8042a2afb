SPECIFICATION Spec
CONSTANTS
  r1 = r1
  r2 = r2
  i1 = i1
  i2 = i2
  Runs = {r1, r2}
  Items = {i1, i2}
  MaxFaults = 2
INVARIANT SyncRowsAgree
PROPERTIES OutcomesStay RunningEnds
CHECK_DEADLOCK FALSE

SPECIFICATION Spec
CONSTANTS
  e1 = e1
  e2 = e2
  e3 = e3
  e4 = e4
  c1 = c1
  Entries = {e1, e2, e3}
  New = e4
  Channels = {c1}
  ConfiguredLimits = {0, 2, 9}
  Cap = 3
  PageSizes = {1, 2, 4}
  Life = 3
  Skew = 1
  MaxClock = 4
  MaxFaults = 1
  MaxChanges = 1
INVARIANTS Accounted ListsAPrefix EmptyAnswerExplained TokensAreFresh
PROPERTIES SyncEnds
CHECK_DEADLOCK FALSE

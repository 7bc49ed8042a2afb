SPECIFICATION RefreshSpec
CONSTANTS
  d1 = d1
  Texts = {d1}
  Take = 20000
  BatchSize = 100
INVARIANT RefreshRestoresSearch
CHECK_DEADLOCK FALSE

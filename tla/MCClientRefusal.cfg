SPECIFICATION SessionSpec
CONSTANTS
  q1 = q1
  q2 = q2
  Requests = {q1, q2}
  App = App
  None = None
  Throttle = 3
  MaxLost = 1
INVARIANT RefusalEndsRefreshing
CHECK_DEADLOCK FALSE

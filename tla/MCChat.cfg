SPECIFICATION Spec
CONSTANTS
  a = a
  b = b
  d1 = d1
  d2 = d2
  s1 = s1
  Rest = Rest
  Asks = {a, b}
  Via <- MCVia
  Sockets = {s1}
  Deletes = {d1, d2}
  MaxFaults = 1
INVARIANTS QuestionsPairUp DeleteFailsInRaces ClientsExplained
CHECK_DEADLOCK FALSE

SPECIFICATION Spec
CONSTANTS
  a1 = a1
  Admins = {a1}
  MaxRestarts = 1
INVARIANT GraceWindow
CHECK_DEADLOCK FALSE

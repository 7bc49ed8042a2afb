SPECIFICATION Spec
CONSTANTS
  u1 = u1
  a = a
  b = b
  c = c
  d = d
  Users = {u1}
  Calls = {a, b, c, d}
  Owner <- MCOwner
  MaxFaults = 1
  MaxSwitches = 1
INVARIANTS RevocationsMatch ForksAreRaces LogoutEndsChain InactiveStartsNothing
CHECK_DEADLOCK FALSE

SPECIFICATION Spec
CONSTANTS
  o1 = o1
  o2 = o2
  a = a
  b = b
  c = c
  d = d
  NoCall = NoCall
  Orgs = {o1, o2}
  Calls = {a, b, c, d}
  Org <- MCOrg
  Typed = {c}
  MaxFaults = 1
  MaxResends = 1
INVARIANTS OnePendingUnlessTwins AccountsAgree
PROPERTY OutcomeFinal
CHECK_DEADLOCK FALSE

SPECIFICATION SearchSpec
CONSTANTS
  o1 = o1
  w1 = w1
  d1 = d1
  Orgs = {o1}
  Words = {w1}
  Papers = {d1}
  Owner <- MCOwner
  Mentions <- MCMentions
  Limits = {0, 1}
  Pages = {0, 2}
  SourceLimit = 20
INVARIANT SearchFindsOwnDocuments
CHECK_DEADLOCK FALSE

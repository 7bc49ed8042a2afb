SPECIFICATION ServicesSpec
CONSTANTS
  u1 = u1
  u2 = u2
  a = a
  b = b
  c = c
  e1 = e1
  p1 = p1
  p2 = p2
  Miss = Miss
  Users = {u1, u2}
  Calls = {a, b, c}
  Who <- MCWho
  Events = {e1}
  MaxFaults = 1
  Staff = {u1, u2, a}
  Admins = {u1, u2}
  Updates = {b, c}
  PolicyIds = {p1, p2}
  Edits = {a, b}
  Detections = {c, e1}
  Resolves = {p1}
  Found <- MCFound
  Summaries = {a, b}
  Deletes = {c}
  Instances = {a, b}
  MaxKeys = 3
  MaxLayers = 2
  Kids = {1, 2}
  Logins = {a, b}
  CacheTtl = 2
  FetchTimeout = 1
  LastTick = 3
  NoKid = NoKid
  Texts = {a, b}
  Take = 2
  BatchSize = 1
  ChunkSize = 3
  Overlap = 2
  MaxLines = 3
  MaxWidth = 4
  Requests = {a, b}
  App = App
  None = None
  Throttle = 2
  MaxLost = 1
  Typed = {"x", "y"}
  MaxSearches = 4
  SmtpRetries = {0, 1, 2, 3}
INVARIANTS WrongCountExplained AdminRemains VersionNamesContent GapsMatchFindings SummariesExplained CredentialsReadable KeysAreFresh MailCopies RefreshRevivesNothing ChunksHoldTheText
INVARIANTS StoredTokenWorks LoneRequestsKeepSession LogoutSticks ResultsOfTheLastSearch
PROPERTY EveryoneHears
CHECK_DEADLOCK FALSE

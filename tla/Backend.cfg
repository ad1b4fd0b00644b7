\* Two edits, one batch of three items, one client that pages, one response, one
\* hash, two pages with tokens, two replica checks, two polls of the indexer, one
\* signature. RowsArePinned, RefusedLeavesNothing and
\* PreviousWasShown are of the edits.
SPECIFICATION BackendSpec
CONSTANTS
  None = None  NoAuthor = NoAuthor  NoContent = NoContent  NoCid = NoCid
  Gist = {g1, g2}  UnknownGist = g3  Author = {ann, bob}  Content = {x}
  Request = {r1, r2}  EditWindow = 1  MaxAttempts = 2  MaxTime = 3
  PostRequest = {r1}  Observation = {x, y}  BatchSize = 3  PinAttempts = 2  PostTime = 1
  ListedGist = {g1, g2, g3}  Limit = 2  TicksPerMs = 2  ListTime = 3
  MaxChunks = 2  FullQ = 2  Precision = 2  Page = {p1, p2}  MaxSecrets = 3
  HealthCheck = {k1, k2}  MaxClients = 4  Poll = {k1, k2}  MaxEvents = 2  MaxLedger = 2  Genesis = 3
  Key = {ann, bob}  BadKey = eve  Value = {x, y}  Window = 1  Ahead = 1  SignTime = 2
INVARIANTS
  BackendTypeOK
  RowsArePinned
  RefusedLeavesNothing
  RowsMatchItems
  AnswersTellRows
  PagesAreExact
  AnswersAreWhole
  CellsHoldTheirPoints
  CallersAreKnown
  ReplicasAreClosed
PROPERTIES
  PreviousWasShown
  EveryoneIsAnswered
CHECK_DEADLOCK FALSE

\* Two tabs, two requests in flight, two of most things a page lists.
SPECIFICATION Spec
CONSTANTS
  None = None  Unset = Unset  NaN = NaN  Cleared = Cleared  All = All
  t1 = t1  t2 = t2  s1 = s1  s2 = s2
  Standing <- MCStart
  \* Bookmarks, search, notes, regions and the map
  Tab = {t1, t2}  Url = {"/", "/reports"}  Name = {"n"}  MaxBookmarks = 1  MaxIds = 2
  PaletteItem <- MCPaletteItem  Query = {"", "re", "port"}  SearchScore <- MCScore  Limit = 3
  Path = {"/", "/export", "/reports", "/builder"}
  Label <- MCLabel  Near <- MCNear  NoteText = {"n"}  MaxChartNotes = 2
  MaxRegions = 1  MaxPending = 2  MaxPoints = 3
  Content = {"x"}  MaxPosts = 2
  \* Reports, segments and live widgets
  WidgetType = {"chart", "kpi"}  DefaultTypes <- MCDefaultTypes  SharedLink <- MCSharedLink
  MaxWidgets = 3  Frequency = {"Weekly"}  ReportMetric = {"live", "users"}
  Recipient = {"ops", "me"}  DefaultForm <- MCDefaultForm  Invalid = "x"
  User <- MCUser  Choosable <- MCChoosable  High = 3  Ops = {">"}
  MaxConditions = 1  MaxSegments = 2
  CursorEvery = 3  FeedEvery = 10  Edge = 4  FeedKeep = 10  MaxTeamNotes = 2
  Session = {s1, s2}  Length <- MCLength  MaxPlays = 2  Batch = {1, 3}  MaxGists = 7  Keep = 5
  \* Forms and lists
  Address <- MCAddress  Hook <- MCHook  MaxTests = 2  Flag = {"f"}  Rollout = {0, 10, 55}
  MaxQueries = 1  MaxFilters = 2  QueryColumn <- MCColumn  FirstColumns <- MCFirstColumns
  FilterValue = {0, 1}  Scenario <- MCScenario  Custom = {8, 9}
  Template = {"tw", "li"}  CardMetric = {"k", "l"}
  Entry = {"a", "b", "c"}  Kind <- MCKind  Related <- MCRelated
  EntrySearch = {{"a", "b", "c"}, {"a"}}  ListedFirst <- MCListed  Priority <- MCPriority
  ModelCredit <- MCCredit  FirstModel = "linear"  FirstCompared = "last"
  \* Exports, components, dashboard and experiments
  Table <- MCTable  Many = 2  More = 4  SmallChunk = 2  LargeChunk = 3
  Samples <- MCSamples  MaxMessageTimers = 2  MaxExports = 2
  Option <- MCOption  FoundBy <- MCFound  MenuOff <- SecondOff  Command <- MCCommand
  TypedText <- MCTyped  Recent <- MCRecent  Unfiltered = 2  TabOff <- SecondOff  FirstTab = {1, 2}
  Section = {"a", "b"}  MaxPages = 9  RangeMin = 0  RangeMax = 7
  MaxToasts = 3  Duration = 2  MaxRunning = 3  MaxRefresh = 4  Days = 2
  Location <- MCLocation  TableSearch <- MCTableSearch  RowsPerPage = 2  Sections = {0, 1, 3}
  Visitors = {0, 4}
  \* Embedded builders and panels
  Columns = {"Date"}  FirstColumn <- MCFirstColumn  MaxMounts = 2  PanelText = {"", "m", "n"}
  MaxPanelNotes = 2  Platform = {"tw", "li"}  Height <- MCHeight  Message = {"", " ", "m"}
  CardField = {"", "m"}  MaxClicks = 3  MaxMessages = 2  Severities <- MCSeverities
  Endpoint <- MCEndpoint  Growth <- MCGrowth
  \* The scripts
  IssueCount = 2  IssueLabel = {"l"}  Limits = {1, 2}  MaxAttempts = 1  MaxImports = 3
  FirstNumber = 1  Document <- MCDocument
  \* Figures
  Series <- MCSeries  Touches <- MCTouches  Items <- MCItems  Polygon <- MCPolygon
  Point <- MCPoint  ShownDates = {1, 3, 9}  Texts <- MCTexts  Positive = {"love"}  Negative = {"bug"}
  Counted = {"love", "bug", "gist"}  TopN = 2  Multipliers <- MCMultipliers
  Campaigns <- MCCampaigns  Levels <- MCLevels  Endpoints <- MCEndpoints
  Services <- MCServices  Tickets <- MCTickets  Agents <- MCAgents  Weeks <- MCWeeks
  FieldValue <- MCFieldValue  Rules <- MCRules  Responses <- MCResponses  Arpu = {0, 1, 12}
  Churn <- MCChurn  Retention = {0, 5, 9, 10, 12}  Periods = 3  Stages <- MCStages
  Cohort = {100, 38, 7}  Countries <- MCCountries
INVARIANTS
  TypeOK
  SelectionsExist
  LimitsHold
  FiguresAddUp
  ShownIsCurrent
PROPERTIES
  NothingIsLost
  EveryWaitEnds
CHECK_DEADLOCK FALSE

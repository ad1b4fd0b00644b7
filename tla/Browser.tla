------------------------------ MODULE Browser ------------------------------
(***************************************************************************)
(* What runs in a browser, the dashboard's pages and the map, and the      *)
(* script that imports issues.  They share nothing (a page's state goes    *)
(* with the page, and each storage key has one owner), so a behaviour is   *)
(* one of one part: `part' names it, and the others stay as they are.      *)
(***************************************************************************)
EXTENDS Integers, Sequences, FiniteSets

\* Parts that mean the same share a constant.
CONSTANTS
  None, Unset, Cleared, NaN, All,
  Standing, \* where the parts that do not run stand
  \* SavedLists, SearchPalette, RegionMap, OptimisticMap
  Tab, Url, Name, MaxBookmarks, MaxIds, Label, Near, NoteText, MaxChartNotes,
  PaletteItem, Query, SearchScore, Limit, Path,
  MaxRegions, MaxPending, MaxPoints,
  Content, MaxPosts,
  \* ReportPages, SegmentsPage, LiveWidgets
  WidgetType, DefaultTypes, SharedLink, MaxWidgets, Frequency, ReportMetric, Recipient,
  DefaultForm, Invalid,
  User, Choosable, High, Ops, MaxConditions, MaxSegments,
  CursorEvery, FeedEvery, Edge, FeedKeep, MaxTeamNotes, Session, Length, MaxPlays, Batch,
  MaxGists, Keep,
  \* Figures
  Series, Touches, Items, Polygon, Point, ShownDates, Texts, Positive, Negative, Counted,
  TopN, Multipliers, Campaigns, Levels, Endpoints, Services, Tickets, Agents, Weeks,
  FieldValue, Rules, Responses, Arpu, Churn, Retention, Periods, Stages, Cohort, Countries,
  \* FormPages
  Address, Hook, MaxTests, Flag, Rollout, MaxQueries, MaxFilters, QueryColumn, FirstColumns,
  FilterValue, Scenario, Custom, Template, CardMetric, Entry, Kind, Related, EntrySearch,
  ListedFirst, Priority, ModelCredit, FirstModel, FirstCompared,
  \* Exports, Kit, Dashboard, Experiments
  Table, Many, More, SmallChunk, LargeChunk, Samples, MaxMessageTimers, MaxExports,
  Option, FoundBy, MenuOff, Command, TypedText, Recent, Unfiltered, TabOff, FirstTab,
  Section, MaxPages, RangeMin, RangeMax,
  MaxToasts, Duration, MaxRunning, MaxRefresh, Days, Location, TableSearch, RowsPerPage,
  Sections,
  Visitors,
  \* Builders
  Columns, FirstColumn, MaxMounts, PanelText, MaxPanelNotes, Platform, Height, Message,
  CardField, MaxClicks, MaxMessages, Severities, Endpoint, Growth,
  \* IssueDocument, ImportIssues
  IssueCount, IssueLabel, Limits, MaxAttempts, MaxImports, FirstNumber, Document

\* Pages have a path, and nothing (null) is not a number.  The lists have room for
\* what they start with; the first form is made by the source.  The index of the
\* search, the options, the commands and the tabs are lists, what was used recently
\* is a command, and what the table's search finds are rows of it, ten to a page.
\* Visitors are counted, chunks have a size, a table is a list of rows, and the default
\* canvas and those of shared links are lists of widgets, which null is not.
ASSUME BrowserConstants ==
  /\ MaxBookmarks \in Nat /\ MaxIds \in Nat /\ MaxChartNotes \in Nat
  /\ "" \notin Url /\ None \notin Nat
  /\ DefaultForm \in [frequency : Frequency, recipients : Seq(Recipient), metrics : Seq(ReportMetric)]
  /\ \A list \in {DefaultForm.recipients, DefaultForm.metrics} :
       \A i, j \in DOMAIN list : list[i] = list[j] => i = j
  /\ {CursorEvery, FeedEvery, Edge} \subseteq Nat \ {0}
  /\ FeedKeep \in Nat /\ 8 <= FeedKeep /\ Keep \in Nat /\ 2 <= Keep
  /\ RangeMin \in Int /\ RangeMax \in Int /\ RangeMin <= RangeMax /\ Entry # {}
  /\ PaletteItem \in Seq([id : STRING, type : {"page", "metric", "location", "category"},
                         href : STRING])
  /\ SearchScore \in [Query -> [DOMAIN PaletteItem -> Nat]] /\ Limit \in Nat
  /\ Option \in Seq([group : STRING, disabled : BOOLEAN])
  /\ Command \in Seq(Seq(STRING)) /\ TypedText \subseteq Seq(STRING)
  /\ Recent \in Seq(1..Len(Command)) /\ Unfiltered \in Nat /\ TabOff \in Seq(BOOLEAN)
  /\ IsFiniteSet(Section) /\ RowsPerPage \in Nat \ {0}
  /\ IsFiniteSet(Location) /\ \A s \in TableSearch : s \subseteq Location
  /\ FirstColumn \in Seq(Columns)
  /\ None \notin [id : Nat, at : {"default", "found"}, stage : {"sent", "stored", "failed"}]
  /\ Batch \subseteq Nat /\ Length \in [Session -> Nat]
  /\ FirstColumns \in [DOMAIN QueryColumn -> Seq(UNION {QueryColumn[p] : p \in DOMAIN QueryColumn})]
  /\ \A p \in DOMAIN QueryColumn :
       /\ FirstColumns[p] \in Seq(QueryColumn[p])
       /\ \A i, j \in DOMAIN FirstColumns[p] : FirstColumns[p][i] = FirstColumns[p][j] => i = j
  /\ Visitors \subseteq Nat
  /\ DefaultTypes \in Seq(WidgetType) /\ MaxSegments \in Nat
  /\ {Many, More, SmallChunk, LargeChunk} \subseteq Nat
  /\ Table \subseteq Seq(UNION {{t[i] : i \in DOMAIN t} : t \in Table})
  /\ LET Widget == [i : WidgetType \X Nat, y : {"infinity", "null", "placed"}] IN
       SharedLink \subseteq Seq(Widget) /\ None \notin Seq(Widget)

\* A field may be left empty.
ASSUME EmptyIsTyped ==
  "" \in Query /\ "" \in DOMAIN FoundBy /\ "" \in CardField /\ "" \in Message

\* The bounds that the instance sets are numbers, and so are the sections of a page.
ASSUME BoundsAreNumbers ==
  {MaxRegions, MaxPoints, MaxPosts, MaxPlays, MaxGists, MaxFilters, MaxTests, MaxMessageTimers,
   MaxPages, MaxToasts, Duration, MaxRefresh, Days, MaxMounts, MaxClicks, MaxMessages,
   IssueCount, FirstNumber} \cup Sections \subseteq Nat

\* A page has too few sections for the last but one to be told as all of them, and
\* null is no picture that is being made.
ASSUME ReportsAreShort == Sections \subseteq 0..199
ASSUME NoneIsNotMade ==
  None \notin [name : Platform, card : [size : {Height[p] : p \in Platform}, text : CardField]]

\* The counter can count the gists of a batch, and a flag may be on for a tenth.
ASSUME BatchesAreCounted == Batch \subseteq 0..MaxGists
ASSUME TenthIsOffered == 10 \in Rollout

\* A menu has items, and a strip of tabs starts with one of them.
ASSUME MenuHasItems == MenuOff \in Seq(BOOLEAN) /\ MenuOff # << >>
ASSUME TabsAreThere == FirstTab \subseteq 1..Len(TabOff)

\* What --limit gives is a number.
ASSUME LimitsAreCounted == Limits \subseteq Nat

\* The query builder is mounted once at least.
ASSUME BuilderIsMounted == MaxMounts >= 1

\* The chart's labels are a list.
ASSUME LabelsAreListed == Label \in Seq(STRING)

\* Nothing (null) is neither a day nor the name of a range of days.
ASSUME NothingIsNoDate == None \notin Int /\ None \notin {"today", "7d", "30d", "custom"}

\* The source lists every entry once, gives each a priority, and each model of the
\* attribution page gives each a credit; the two models it opens with are among them.
\* What a text links to and what a search finds are entries.
ASSUME EntriesAreListed ==
  /\ ListedFirst \in Seq(Entry) /\ \A e \in Entry : \E i \in DOMAIN ListedFirst : ListedFirst[i] = e
  /\ \A i, j \in DOMAIN ListedFirst : ListedFirst[i] = ListedFirst[j] => i = j
  /\ Priority \in [Entry -> Int] /\ {FirstModel, FirstCompared} \subseteq DOMAIN ModelCredit
  /\ \A m \in DOMAIN ModelCredit : ModelCredit[m] \in [Entry -> Int]
  /\ Related \in [Entry -> SUBSET Entry] /\ EntrySearch \subseteq SUBSET Entry

\* What the search finds and what a shortcut opens are pages of the dashboard.
ASSUME PagesAreThere ==
  "/export" \in Path /\ \A i \in DOMAIN PaletteItem : PaletteItem[i].href \in Path \cup {""}

VARIABLES
  part,
  bookmarks, ids, tab,                                       \* SavedLists
  find, frame, theme,                                        \* SearchPalette
  notes, noteCount, noteView,                                \* SavedLists, the notes
  regionRows, born, map, pending, calm,                      \* RegionMap
  pins, modal, post, rows, sent, here, toast,                \* OptimisticMap
  canvas, saved, share, form, kept,                          \* ReportPages
  segments, active, ticked,                                  \* SegmentsPage
  team, player, home,                                        \* LiveWidgets
  job, answer,                                               \* Figures, IssueDocument
  page, view, features, model, drawn,                        \* FormPages, the lists
  settings, mail, flags, query, card, plan,                  \* FormPages, the forms
  csv, book, json, picture,                                  \* Exports
  select, menu, palette, tabs, sections, pager, range,       \* Kit
  toasts, refresh, dates, table, report,                     \* Dashboard
  made, labels, log, known, body, proc, runs, twins,         \* ImportIssues
  experiments,                                               \* Experiments
  segment, given, done, builder, listed, panel, stored, origin, \* Builders
  sharing, chat, drawer, ranking                             \* Builders, the panels

bookmarkVars == <<bookmarks, ids, tab>>
paletteVars == <<find, frame, theme>>
noteVars == <<notes, noteCount, noteView>>
regionVars == <<regionRows, born, map, pending, calm>>
mapVars == <<pins, modal, post, rows, sent, here, toast>>
reportVars == <<canvas, saved, share, form, kept>>
segmentVars == <<segments, active, ticked>>
widgetVars == <<team, player, home>>
figureVars == <<job, answer>>
listVars == <<page, view, features, model, drawn>>
formVars == <<settings, mail, flags, query, card, plan>>
exportVars == <<csv, book, json, picture>>
kitVars == <<select, menu, palette, tabs, sections, pager, range>>
dashVars == <<toasts, refresh, dates, table, report>>
importVars == <<made, labels, log, known, body, proc, runs, twins>>
testVars == <<experiments>>
embedVars == <<segment, given, done, builder, listed, panel, stored, origin>>
panelVars == <<sharing, chat, drawer, ranking>>
browserVars == <<part, bookmarkVars, paletteVars, noteVars, regionVars, mapVars, reportVars,
          segmentVars, widgetVars, figureVars, listVars, formVars, exportVars, kitVars, dashVars,
          importVars, testVars, embedVars, panelVars>>
-----------------------------------------------------------------------------
Saved == INSTANCE SavedLists WITH saved <- bookmarks, made <- noteCount, view <- noteView,
  MaxNotes <- MaxChartNotes
Palette == INSTANCE SearchPalette WITH Item <- PaletteItem, Score <- SearchScore
Regions == INSTANCE RegionMap WITH stored <- regionRows, NoRegion <- None
GistMap == INSTANCE OptimisticMap
Report == INSTANCE ReportPages WITH Metric <- ReportMetric, Address <- Recipient
Segments == INSTANCE SegmentsPage
Widgets == INSTANCE LiveWidgets WITH MaxNotes <- MaxTeamNotes, MaxRuns <- MaxPlays
Fig == INSTANCE Figures WITH Value <- FieldValue, Dates <- ShownDates
Forms == INSTANCE FormPages WITH MaxTimers <- MaxTests, Value <- FilterValue,
  Metric <- CardMetric, Search <- EntrySearch, Column <- QueryColumn,
  Listed <- ListedFirst, Credit <- ModelCredit
Files == INSTANCE Exports WITH Gists <- Samples, MaxTimers <- MaxMessageTimers,
  MaxRuns <- MaxExports
Components == INSTANCE Kit WITH Item <- MenuOff, Tab <- TabOff, Found <- FoundBy,
  Typed <- TypedText, Low <- RangeMin, High <- RangeMax
Dash == INSTANCE Dashboard WITH Row <- Location, Search <- TableSearch, PageSize <- RowsPerPage
Tests == INSTANCE Experiments
Doc == INSTANCE IssueDocument WITH Count <- IssueCount
Embedded == INSTANCE Builders WITH First <- FirstColumn, Value <- FilterValue,
  Text <- PanelText, MaxMade <- MaxPanelNotes, Nothing <- None, Field <- CardField
Import == INSTANCE ImportIssues WITH Count <- IssueCount, Label <- IssueLabel,
  MaxRuns <- MaxImports
-----------------------------------------------------------------------------
OnlyBookmarks == UNCHANGED <<
  part, paletteVars, noteVars, regionVars, mapVars, reportVars, segmentVars,
  widgetVars, figureVars, listVars, formVars, exportVars, kitVars, dashVars,
  importVars, testVars, embedVars, panelVars>>
OnlyPalette == UNCHANGED <<
  part, bookmarkVars, noteVars, regionVars, mapVars, reportVars, segmentVars,
  widgetVars, figureVars, listVars, formVars, exportVars, kitVars, dashVars,
  importVars, testVars, embedVars, panelVars>>
OnlyNotes == UNCHANGED <<
  part, bookmarkVars, paletteVars, regionVars, mapVars, reportVars, segmentVars,
  widgetVars, figureVars, listVars, formVars, exportVars, kitVars, dashVars,
  importVars, testVars, embedVars, panelVars>>
OnlyRegions == UNCHANGED <<
  part, bookmarkVars, paletteVars, noteVars, mapVars, reportVars, segmentVars,
  widgetVars, figureVars, listVars, formVars, exportVars, kitVars, dashVars,
  importVars, testVars, embedVars, panelVars>>
OnlyMap == UNCHANGED <<
  part, bookmarkVars, paletteVars, noteVars, regionVars, reportVars, segmentVars,
  widgetVars, figureVars, listVars, formVars, exportVars, kitVars, dashVars,
  importVars, testVars, embedVars, panelVars>>
OnlyReport == UNCHANGED <<
  part, bookmarkVars, paletteVars, noteVars, regionVars, mapVars, segmentVars,
  widgetVars, figureVars, listVars, formVars, exportVars, kitVars, dashVars,
  importVars, testVars, embedVars, panelVars>>
OnlySegments == UNCHANGED <<
  part, bookmarkVars, paletteVars, noteVars, regionVars, mapVars, reportVars,
  widgetVars, figureVars, listVars, formVars, exportVars, kitVars, dashVars,
  importVars, testVars, embedVars, panelVars>>
OnlyWidgets == UNCHANGED <<
  part, bookmarkVars, paletteVars, noteVars, regionVars, mapVars, reportVars,
  segmentVars, figureVars, listVars, formVars, exportVars, kitVars, dashVars,
  importVars, testVars, embedVars, panelVars>>
OnlyFigures == UNCHANGED <<
  part, bookmarkVars, paletteVars, noteVars, regionVars, mapVars, reportVars,
  segmentVars, widgetVars, listVars, formVars, exportVars, kitVars, dashVars,
  importVars, testVars, embedVars, panelVars>>
OnlyLists == UNCHANGED <<
  part, bookmarkVars, paletteVars, noteVars, regionVars, mapVars, reportVars,
  segmentVars, widgetVars, figureVars, formVars, exportVars, kitVars, dashVars,
  importVars, testVars, embedVars, panelVars>>
OnlyForms == UNCHANGED <<
  part, bookmarkVars, paletteVars, noteVars, regionVars, mapVars, reportVars,
  segmentVars, widgetVars, figureVars, listVars, exportVars, kitVars, dashVars,
  importVars, testVars, embedVars, panelVars>>
OnlyFiles == UNCHANGED <<
  part, bookmarkVars, paletteVars, noteVars, regionVars, mapVars, reportVars,
  segmentVars, widgetVars, figureVars, listVars, formVars, kitVars, dashVars,
  importVars, testVars, embedVars, panelVars>>
OnlyComponents == UNCHANGED <<
  part, bookmarkVars, paletteVars, noteVars, regionVars, mapVars, reportVars,
  segmentVars, widgetVars, figureVars, listVars, formVars, exportVars, dashVars,
  importVars, testVars, embedVars, panelVars>>
OnlyDash == UNCHANGED <<
  part, bookmarkVars, paletteVars, noteVars, regionVars, mapVars, reportVars,
  segmentVars, widgetVars, figureVars, listVars, formVars, exportVars, kitVars,
  importVars, testVars, embedVars, panelVars>>
OnlyImport == UNCHANGED <<
  part, bookmarkVars, paletteVars, noteVars, regionVars, mapVars, reportVars,
  segmentVars, widgetVars, figureVars, listVars, formVars, exportVars, kitVars,
  dashVars, testVars, embedVars, panelVars>>
OnlyTests == UNCHANGED <<
  part, bookmarkVars, paletteVars, noteVars, regionVars, mapVars, reportVars,
  segmentVars, widgetVars, figureVars, listVars, formVars, exportVars, kitVars,
  dashVars, importVars, embedVars, panelVars>>
OnlyEmbedded == UNCHANGED <<
  part, bookmarkVars, paletteVars, noteVars, regionVars, mapVars, reportVars,
  segmentVars, widgetVars, figureVars, listVars, formVars, exportVars, kitVars,
  dashVars, importVars, testVars, panelVars>>
OnlyPanels == UNCHANGED <<
  part, bookmarkVars, paletteVars, noteVars, regionVars, mapVars, reportVars,
  segmentVars, widgetVars, figureVars, listVars, formVars, exportVars, kitVars,
  dashVars, importVars, testVars, embedVars>>

KitParts == {"select", "menu", "command", "tabs", "accordion", "pager", "slider"}
DashParts == {"toasts", "refresh", "dates", "table", "pdf"}
EmbedParts == {"segmenter", "querier", "panel"}
PanelParts == {"share", "chat", "drawer", "ranking"}
Parts == {"bookmarks", "palette", "notes", "regions", "map", "builder",
          "report", "segments", "team", "player", "home", "figures", "lists",
          "settings", "mail", "flags", "query", "card", "plan", "csv", "book",
          "json", "picture", "import", "experiments", "audience", "document", "summaries"}
  \cup EmbedParts \cup KitParts \cup DashParts \cup PanelParts

\* The part of the behaviour starts in every state it may start in; the others start
\* where Standing says, as they do not move.
Init ==
  /\ part \in Parts
  /\ Saved!BookmarksInit /\ (part # "bookmarks" => \A t \in Tab : tab[t].path = Standing.path)
  /\ Palette!PaletteInit
  /\ part # "palette" => frame.path = Standing.path /\ theme = Standing.theme
  /\ Saved!NotesInit /\ Regions!RegionInit /\ GistMap!MapInit /\ Report!ReportInit
  /\ Segments!SegmentsInit
  /\ Widgets!WidgetsInit /\ (part # "player" => player.session = Standing.session)
                         /\ (part # "home" => home.count = Standing.count)
  /\ CASE part = "figures" -> Fig!FiguresInit
       [] part = "audience" -> Fig!AudienceInit
       [] part = "document" -> Doc!DocumentInit
       [] part = "summaries" -> Fig!SummariesInit
       [] OTHER -> job = [kind |-> "funnel", data |-> << >>] /\ answer = << >>
  /\ Forms!ListInit
  /\ Forms!FormsInit /\ (part # "flags" => \A f \in Flag : flags[f] = Standing.flag)
                     /\ (part # "card" => card.template = Standing.template
                                          /\ card.metric = Standing.metric)
  /\ Files!ExportsInit /\ (part # "csv" => csv.table = << >>)
  /\ Components!KitInit /\ (part # "select" => ~select.multiple)
                        /\ (part # "tabs" => tabs.active = Standing.tab)
                        /\ (part # "accordion" => sections.multiple /\ sections.first = {})
                        /\ (part # "pager" => pager.total = 1)
  /\ Dash!DashInit /\ (part # "dates" => dates.url = Dash!Plain)
  /\ Import!ImportInit /\ (part # "import" => labels = {})
  /\ IF part = "experiments" THEN Tests!ExperimentsInit ELSE experiments = << >>
  /\ Embedded!SegmentInit /\ Embedded!QueryInit /\ Embedded!PanelInit
  /\ Embedded!PanelsInit /\ (part # "share" => sharing.platform = Standing.platform)
                         /\ (part # "drawer" => drawer.anomalies = << >>)

Next ==
  \/ part = "bookmarks" /\ Saved!BookmarksNext /\ OnlyBookmarks
  \/ part = "palette" /\ Palette!PaletteNext /\ OnlyPalette
  \/ part = "notes" /\ Saved!NotesNext /\ OnlyNotes
  \/ part = "regions" /\ Regions!RegionNext /\ OnlyRegions
  \/ part = "map" /\ GistMap!MapNext /\ OnlyMap
  \/ part = "builder" /\ Report!BuilderNext /\ OnlyReport
  \/ part = "report" /\ Report!ConfigNext /\ OnlyReport
  \/ part = "segments" /\ Segments!SegmentsNext /\ OnlySegments
  \/ part = "team" /\ Widgets!TeamNext /\ OnlyWidgets
  \/ part = "player" /\ Widgets!PlayerNext /\ OnlyWidgets
  \/ part = "home" /\ Widgets!HomeNext /\ OnlyWidgets
  \/ part = "figures" /\ Fig!FiguresNext /\ OnlyFigures
  \/ part = "lists" /\ Forms!ListNext /\ OnlyLists
  \/ part = "settings" /\ Forms!SettingsNext /\ OnlyForms
  \/ part = "mail" /\ Forms!MailNext /\ OnlyForms
  \/ part = "flags" /\ Forms!FlagsNext /\ OnlyForms
  \/ part = "query" /\ Forms!QueryNext /\ OnlyForms
  \/ part = "card" /\ Forms!CardNext /\ OnlyForms
  \/ part = "plan" /\ Forms!PlanNext /\ OnlyForms
  \/ part = "csv" /\ Files!CsvNext /\ OnlyFiles
  \/ part = "book" /\ Files!BookNext /\ OnlyFiles
  \/ part = "json" /\ Files!JsonNext /\ OnlyFiles
  \/ part = "picture" /\ Files!PictureNext /\ OnlyFiles
  \/ part = "select" /\ Components!SelectNext /\ OnlyComponents
  \/ part = "menu" /\ Components!MenuNext /\ OnlyComponents
  \/ part = "command" /\ Components!PaletteNext /\ OnlyComponents
  \/ part = "tabs" /\ Components!TabsNext /\ OnlyComponents
  \/ part = "accordion" /\ Components!SectionToggle /\ OnlyComponents
  \/ part = "pager" /\ Components!PagerNext /\ OnlyComponents
  \/ part = "slider" /\ Components!RangeNext /\ OnlyComponents
  \/ part = "toasts" /\ Dash!ToastsNext /\ OnlyDash
  \/ part = "refresh" /\ Dash!RefreshNext /\ OnlyDash
  \/ part = "dates" /\ Dash!DatesNext /\ OnlyDash
  \/ part = "table" /\ Dash!TableNext /\ OnlyDash
  \/ part = "pdf" /\ Dash!ReportNext /\ OnlyDash
  \/ part = "import" /\ Import!ImportNext /\ OnlyImport
  \/ part = "document" /\ Doc!DocumentNext /\ OnlyFigures
  \/ part = "audience" /\ Fig!AudienceNext /\ OnlyFigures
  \/ part = "experiments" /\ Tests!DeclareWinner /\ OnlyTests
  \/ part = "segmenter" /\ Embedded!SegmentNext /\ OnlyEmbedded
  \/ part = "querier" /\ Embedded!QueryNext /\ OnlyEmbedded
  \/ part = "panel" /\ Embedded!PanelNext /\ OnlyEmbedded
  \/ part = "summaries" /\ Fig!SummariesNext /\ OnlyFigures
  \/ part = "share" /\ Embedded!SharingNext /\ OnlyPanels
  \/ part = "chat" /\ Embedded!ChatNext /\ OnlyPanels
  \/ part = "drawer" /\ Embedded!DrawerNext /\ OnlyPanels
  \/ part = "ranking" /\ Embedded!RankingNext /\ OnlyPanels

\* As in each module: timers fire, frames are drawn, promises are settled, and the
\* backend answers.
Fairness ==
  /\ WF_paletteVars(part = "palette" /\ Palette!Settle)
  /\ WF_mapVars(part = "map" /\ GistMap!ToastExpires)
  /\ WF_mapVars(part = "map" /\ (GistMap!BackendStores \/ GistMap!BackendRefuses))
  /\ WF_mapVars(part = "map" /\ (GistMap!Succeed \/ GistMap!FailPost))
  /\ WF_widgetVars(part = "home" /\ Widgets!Load)
  /\ WF_widgetVars(part = "home" /\ Widgets!Frame)
  /\ WF_widgetVars(part = "home" /\ (Widgets!FlashEnds \/ Widgets!NewsEnds \/ Widgets!PulseEnds))
  /\ WF_formVars(part = "settings" /\ Forms!TestEnds)
  /\ WF_exportVars(part = "csv" /\ (Files!NextChunk \/ Files!WriteFile \/ Files!LoadFails))
  /\ WF_exportVars(part = "csv" /\ Files!ButtonBack)
  /\ WF_exportVars(part = "book" /\ (Files!BookFails \/ \E s \in Samples : Files!BookDone(s)))
  /\ WF_exportVars(part = "json" /\ Files!JsonMessageEnds)
  /\ WF_dashVars(part = "toasts" /\ (Dash!ToastEnds \/ Dash!DrawToasts))
  /\ WF_dashVars(part = "toasts" /\ Dash!ToastTick)
  /\ WF_dashVars(part = "refresh" /\ Dash!RefreshEnds)
  /\ WF_dashVars(part = "pdf" /\ (Dash!ReportSection \/ Dash!ReportFails))
  /\ WF_dashVars(part = "pdf" /\ Dash!ReportButton)
  /\ WF_panelVars(part = "share" /\ (Embedded!BlobReady \/ Embedded!BlobFails))
  /\ WF_panelVars(part = "share" /\ Embedded!DrawPreview)

Spec == Init /\ [][Next]_browserVars /\ Fairness
-----------------------------------------------------------------------------
\* The state of every part has its types.
TypeOK ==
  /\ Saved!BookmarksTypeOK /\ Palette!PaletteTypeOK /\ Saved!NotesTypeOK
  /\ Regions!RegionsTypeOK /\ GistMap!MapTypeOK /\ Report!ReportTypeOK
  /\ Segments!SegmentsTypeOK /\ Widgets!WidgetsTypeOK /\ (part = "figures" => Fig!FiguresTypeOK)
  /\ Forms!ListTypeOK /\ Forms!FormsTypeOK /\ Files!ExportsTypeOK
  /\ (part \in KitParts => Components!KitTypeOK) /\ (part \in DashParts => Dash!DashTypeOK)
  /\ Import!ImportTypeOK /\ Tests!ExperimentsTypeOK /\ Embedded!BuildersTypeOK
  /\ Embedded!PanelsTypeOK

\* Bookmarks, notes, regions, pins, widgets, segments, saved queries and rows being
\* exported go only by the step that is meant to take them, however stale the tab
\* or the answer is that the step goes by.
NothingIsLost ==
  /\ Saved!NoBookmarkIsLost /\ Saved!NoNoteIsLost /\ Regions!NoRegionIsHidden
  /\ GistMap!NoPinIsLost /\ Report!NoWidgetIsLost /\ Segments!NoSegmentIsLost
  /\ Forms!SavedStays /\ Files!RowsAreThoseOfTheClick /\ Components!PagesAreTheTables
  /\ Tests!WinnersStay /\ Embedded!BuilderIsThePage /\ Embedded!QueriesStay /\ Embedded!NotesGoOnce
  /\ Embedded!MessagesStay

\* What refers to something refers to what there is: the highlighted result, the
\* region in the panel, the pin of a post, the entry shown, the interval of a
\* player, the filters of a query, the timer of a message.
SelectionsExist ==
  /\ Palette!SelectionIsAResult /\ Regions!RenameFieldHasARegion
  /\ GistMap!PendingPinHasItsPost /\ Forms!SomethingIsSelected /\ Widgets!PlayerMoves
  /\ Forms!BuilderIdsAreUnique /\ Files!MessagesHaveTimers
  /\ (part \in KitParts => Components!ChoicesAreAllowed) /\ (part = "command" => Components!CursorIsOnACommand)
  /\ Dash!BusyMeansRunning /\ (part = "table" => Dash!PageHasRows)
  /\ Embedded!FiltersAreTold

\* What is stored and listed keeps its limits, whichever tab stored it.
LimitsHold ==
  /\ Saved!SavedWithinLimit /\ Saved!NotesAreComplete /\ Report!SavedReportIsSendable
  /\ Widgets!FeedsAreBounded /\ Forms!StoredIsValid
  /\ (part = "slider" => Components!RangeIsOrdered)

\* What is delivered, exported, listed, imported or offered agrees with what it is of:
\* the pins with the table, the file with the count on its card and the rows asked for,
\* the counter with the list under it, the pager with its pages, the report with the
\* sections, the issues with their sources, a card with the same card turned round, and
\* a picture with the platform it is named after.
CountsMatch ==
  /\ GistMap!DeliveredPinsAreStored /\ Segments!FilesHaveTheCountedUsers
  /\ Widgets!CounterShowsTheCount /\ Files!FilesAreComplete
  /\ (part = "pager" => Components!PagesAreListed) /\ Dash!ReportIsWhole
  /\ Import!IssuesAreMadeOnce /\ Import!CountsAddUp
  /\ Tests!CardsAreFair /\ Embedded!Page!FilesHaveTheCountedUsers /\ Embedded!FilesFitTheirNames

\* So do figures, summaries, documents and panels.
FiguresAddUp ==
  /\ CountsMatch
  /\ part = "figures" =>
       /\ Fig!AnomaliesBalance /\ Fig!FlatRunsAreRuns /\ Fig!ForecastContinues
       /\ Fig!CreditsAreTheWhole /\ Fig!RankingIsFair /\ Fig!TrianglesAreRight
       /\ Fig!ChangeIsSigned /\ Fig!RatesAreBounded
  /\ (part = "select" => Components!OptionsAreDrawn)
  /\ Files!SummariesAreOfTheSample /\ Doc!DocumentsAreWhole
  /\ part = "audience" => /\ Fig!NpsIsBetweenItsGroups /\ Fig!LifetimesAgree
                          /\ Fig!LossesAreListed /\ Fig!SharesAreTheWhole
  /\ part = "summaries" => /\ Fig!MoodsAddUp /\ Fig!ReturnsBlend /\ Fig!CardsTellRows
                           /\ Fig!RatesTellChange /\ Fig!ComplaintsAreFirst
  /\ Embedded!PanelsAgree

\* What is shown is what was chosen, stored or asked for last.
ShownIsCurrent ==
  /\ Palette!ResultsAnswerTheQuery /\ Palette!ThemeOutlivesReload
  /\ Regions!CalmMapIsTheTable /\ Report!LayoutIsKept /\ Segments!TickedIsStored
  /\ Forms!DrawnByTheModel /\ Forms!ChoiceIsShown /\ Dash!ToastsStayInOrder
  /\ Dash!ReloadKeepsTheRange /\ Embedded!Page!TickedIsStored /\ Embedded!PanelShowsItsNotes
  /\ Embedded!PreviewIsCurrent

\* Searches, posts, animations, exports, refreshes and messages come to an end, and
\* so does the toast of a post.
Waiting ==
  \/ part = "palette" /\ Palette!Searching
  \/ part = "home" /\ Widgets!Settling
  \/ GistMap!Posting \/ Forms!TellingOfATest \/ Files!Exporting \/ Dash!Waiting \/ Embedded!Making
EveryWaitEnds == (Waiting ~> ~Waiting) /\ (GistMap!Telling ~> ~GistMap!Telling)
=============================================================================

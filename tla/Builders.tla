------------------------------ MODULE Builders ------------------------------
(***************************************************************************)
(* Builders a page can embed: components/SegmentBuilder.tsx with           *)
(* ConditionRow.tsx, QueryBuilder.tsx and Annotation.tsx with the hook     *)
(* useAnnotations.  The page keeps what they hand over and may unmount     *)
(* them; the panel of annotations shares its storage with other tabs.      *)
(* Then panels that stand for themselves: the share card with its preview  *)
(* and its picture (components/ShareCardGenerator.tsx), the team chat      *)
(* (RealtimeCollaborationUI.tsx), the drawer of anomalies                  *)
(* (ui/AnomalySidebar.tsx) and the ranking of endpoints                    *)
(* (charts/EndpointRanking.tsx).                                           *)
(***************************************************************************)
EXTENDS Lists

CONSTANTS
  User, Choosable, High, Ops, MaxConditions, MaxSegments, Unset, \* as in SegmentsPage
  Columns,    \* the dimensions and metrics a query may have
  First,      \* those ticked when the builder is mounted
  Value,      \* what a filter may compare with
  MaxFilters, \* bound on the filters numbered during a mount
  MaxQueries, \* bound on the queries handed over
  MaxMounts,  \* bound on how often the query builder is mounted
  Text,       \* what a note may say; "" is blank
  MaxMade,    \* bound on the notes made
  Platform, Height, \* Height[p] in pixels; the width is one for all
  Message, Field,      \* what is typed, and typed in a field; "" and " " are blank
  MaxClicks,        \* bound on the changes and downloads of a card
  MaxMessages,
  Severities,       \* sequences of "critical" and "warning": what the page detected
  Endpoint, Growth, \* the endpoints in their order, and [endpoint -> tenths of a percent]
  Nothing

VARIABLES
  segment, given, done, \* SegmentBuilder: its segment, those handed over, "Saved"
  builder,              \* QueryBuilder: columns, filters, counters, name
  listed,               \* the queries handed over, each with the mount that made it
  panel,                \* AnnotationPanel: [list, editing, text]
  stored,               \* the notes in localStorage
  origin,               \* of each note made: "here" or "there", and who took it away
  sharing, \* [platform, text, busy, making, timers, canvas, files, clicks]
  chat,    \* [typed, messages]: the newest message first
  drawer,  \* [anomalies, open]
  ranking  \* the endpoint in the panel, or Nothing

builderVars == <<segment, given, done, builder, listed, panel, stored, origin>>
segmentState == <<segment, given, done>>
queryState == <<builder, listed>>
panelState == <<panel, stored, origin>>

Page == INSTANCE SegmentsPage WITH segments <- given, active <- segment, ticked <- done
-----------------------------------------------------------------------------
(* SegmentBuilder *)

SegmentInit == Page!SegmentsInit
OnlySegment == UNCHANGED <<queryState, panelState>>
Change(s) == segment' = s /\ done' = FALSE /\ UNCHANGED given /\ OnlySegment
WithCondition(i, c) == Change([segment EXCEPT !.conditions[i] = c])

NewRow ==
  /\ Len(segment.conditions) < MaxConditions
  /\ Change([segment EXCEPT !.conditions = Append(@, Page!NewCondition("activity"))])
DropRow == \E i \in DOMAIN segment.conditions :
  Change([segment EXCEPT !.conditions = Spliced(@, i)])
\* ConditionRow: another field starts anew, so it has no date, country or number,
\* though the row shows one.
ChooseField == \E i \in DOMAIN segment.conditions, field \in DOMAIN Choosable :
  WithCondition(i, Page!NewCondition(field))
ChooseValue == \E i \in DOMAIN segment.conditions :
  \E v \in Choosable[segment.conditions[i].field] :
    WithCondition(i, [segment.conditions[i] EXCEPT !.value = v])
ChooseOp == \E i \in DOMAIN segment.conditions, op \in Ops :
  segment.conditions[i].field = "gistCount"
  /\ WithCondition(i, [segment.conditions[i] EXCEPT !.op = op])
ChooseLogic == \E logic \in Page!Logics : Change([segment EXCEPT !.logic = logic])
\* handleSave: the id of the builder's own segment stays 'new'.
HandleSave ==
  /\ Len(given) < MaxSegments
  /\ given' = Append(given, [segment EXCEPT !.id = Len(given) + 1])
  /\ done' = TRUE /\ UNCHANGED segment /\ OnlySegment

SegmentNext ==
  NewRow \/ DropRow \/ ChooseField \/ ChooseValue \/ ChooseOp \/ ChooseLogic \/ HandleSave
-----------------------------------------------------------------------------
(* QueryBuilder *)

Mounted(mount) ==
  [columns |-> First, filters |-> << >>, next |-> 1, named |-> FALSE, mount |-> mount,
   foreign |-> FALSE] \* ghost: its filters were numbered in an earlier mount
QueryInit == builder = Mounted(1) /\ listed = << >>
OnlyBuilder(b) == builder' = b /\ UNCHANGED <<listed, segmentState, panelState>>

ToggleColumn == \E c \in Columns : OnlyBuilder(
  [builder EXCEPT !.columns = IF c \in Range(@) THEN Kept(@, Range(@) \ {c})
                              ELSE Append(@, c)])
AddFilter == \E v \in Value :
  /\ builder.next <= MaxFilters
  /\ OnlyBuilder([builder EXCEPT !.filters = Append(@, [id |-> builder.next, value |-> v]),
                                 !.next = @ + 1])
UpdateFilter == \E i \in DOMAIN builder.filters, v \in Value : OnlyBuilder(
  [builder EXCEPT !.filters = [j \in DOMAIN @ |->
     IF @[j].id = @[i].id THEN [@[j] EXCEPT !.value = v] ELSE @[j]]])
RemoveFilter == \E i \in DOMAIN builder.filters : OnlyBuilder(
  [builder EXCEPT !.filters = Kept(@, {f \in Range(@) : f.id # builder.filters[i].id})])
NameQuery == \E named \in BOOLEAN : OnlyBuilder([builder EXCEPT !.named = named])
\* handleSave numbers queries from 1 in each mount.
SaveQuery ==
  /\ builder.named /\ Len(listed) < MaxQueries
  /\ listed' = Append(listed,
       [id |-> 1 + Cardinality({i \in DOMAIN listed : listed[i].mount = builder.mount}),
        mount |-> builder.mount, foreign |-> builder.foreign,
        columns |-> builder.columns, filters |-> builder.filters])
  /\ builder' = [builder EXCEPT !.named = FALSE]
  /\ UNCHANGED <<segmentState, panelState>>
LoadQuery == \E i \in DOMAIN listed : OnlyBuilder(
  [builder EXCEPT !.columns = listed[i].columns, !.filters = listed[i].filters,
                  !.foreign = listed[i].foreign \/ listed[i].mount # builder.mount])
Remount == builder.mount < MaxMounts /\ OnlyBuilder(Mounted(builder.mount + 1))

QueryNext ==
  \/ ToggleColumn \/ AddFilter \/ UpdateFilter \/ RemoveFilter \/ NameQuery \/ SaveQuery
  \/ LoadQuery \/ Remount
-----------------------------------------------------------------------------
(* AnnotationPanel *)

PanelInit ==
  panel = [list |-> << >>, editing |-> 0, text |-> ""] /\ stored = << >> /\ origin = << >>
OnlyPanel == UNCHANGED <<segmentState, queryState>>
Without(notes, id) == Kept(notes, {n \in Range(notes) : n.id # id})
Worded(notes, id, text) ==
  [i \in DOMAIN notes |-> IF notes[i].id = id THEN [notes[i] EXCEPT !.text = text] ELSE notes[i]]
Made(text) == [id |-> Len(origin) + 1, text |-> text]

AddNote == \E text \in Text \ {""} :
  /\ Len(origin) < MaxMade
  /\ stored' = Append(stored, Made(text))
  /\ panel' = [panel EXCEPT !.list = Append(@, Made(text))]
  /\ origin' = Append(origin, "here") /\ OnlyPanel
StartEdit == \E i \in DOMAIN panel.list :
  /\ panel' = [panel EXCEPT !.editing = panel.list[i].id, !.text = panel.list[i].text]
  /\ UNCHANGED <<stored, origin>> /\ OnlyPanel
TypeText == \E text \in Text :
  /\ \E i \in DOMAIN panel.list : panel.list[i].id = panel.editing
  /\ panel' = [panel EXCEPT !.text = text] /\ UNCHANGED <<stored, origin>> /\ OnlyPanel
\* commitEdit: `edit' lists what is stored now; a blank text changes nothing.
CommitEdit ==
  /\ \E i \in DOMAIN panel.list : panel.list[i].id = panel.editing
  /\ stored' = IF panel.text = "" THEN stored ELSE Worded(stored, panel.editing, panel.text)
  /\ panel' = [panel EXCEPT !.editing = 0, !.list = IF panel.text = "" THEN @ ELSE stored']
  /\ UNCHANGED origin /\ OnlyPanel
CancelEdit ==
  panel' = [panel EXCEPT !.editing = 0] /\ UNCHANGED <<stored, origin>> /\ OnlyPanel
RemoveNote == \E i \in DOMAIN panel.list :
  LET id == panel.list[i].id IN
  /\ stored' = Without(stored, id) /\ panel' = [panel EXCEPT !.list = Without(@, id)]
  /\ origin' = [origin EXCEPT ![id] = "removed"] /\ OnlyPanel
\* The panel is opened again, or on another chart and back.
ShowPanel ==
  panel' = [list |-> stored, editing |-> 0, text |-> ""] /\ UNCHANGED <<stored, origin>> /\ OnlyPanel
OtherTab ==
  /\ \/ \E text \in Text \ {""} : /\ Len(origin) < MaxMade
                                  /\ stored' = Append(stored, Made(text))
                                  /\ origin' = Append(origin, "there")
     \/ \E i \in DOMAIN stored : /\ stored' = Without(stored, stored[i].id)
                                 /\ origin' = [origin EXCEPT ![stored[i].id] = "taken"]
  /\ UNCHANGED panel /\ OnlyPanel

PanelNext ==
  \/ AddNote \/ StartEdit \/ TypeText \/ CommitEdit \/ CancelEdit \/ RemoveNote
  \/ ShowPanel \/ OtherTab
-----------------------------------------------------------------------------
BuildersTypeOK ==
  /\ Page!SegmentsTypeOK /\ segment.id = 0
  /\ builder.next \in 1..MaxFilters + 1 /\ builder.mount \in 1..MaxMounts
  /\ \A i \in DOMAIN stored : stored[i].id \in DOMAIN origin /\ stored[i].text \in Text \ {""}

\* The component does what the page does with a builder never reopened: each of
\* its steps is one of SegmentsPage's.
BuilderIsThePage == [][Page!SegmentsNext]_segmentState

\* Filters are told apart by their numbers, and so are the queries of a mount, but
\* for filters numbered in an earlier mount: their numbers may come again.
FiltersAreTold ==
  /\ \A i, j \in DOMAIN listed :
       <<listed[i].id, listed[i].mount>> = <<listed[j].id, listed[j].mount>> => i = j
  /\ ~builder.foreign =>
    /\ \A i, j \in DOMAIN builder.filters : builder.filters[i].id = builder.filters[j].id => i = j
    /\ \A i \in DOMAIN builder.filters : builder.filters[i].id < builder.next

\* A query handed over stays as it was, whatever is loaded and edited after it.
QueriesStay == [][\A i \in DOMAIN listed : listed'[i] = listed[i]]_queryState

\* The panel lists every stored note made here, and lists a note no longer stored
\* only when another tab took it.
PanelShowsItsNotes ==
  LET Of(notes) == {notes[i].id : i \in DOMAIN notes} IN
  /\ \A id \in Of(stored) \ Of(panel.list) : origin[id] = "there"
  /\ \A id \in Of(panel.list) \ Of(stored) : origin[id] = "taken"
  /\ \A i, j \in DOMAIN stored : i < j => stored[i].id < stored[j].id

\* A note goes only when it is removed, and none that was removed comes back.
NotesGoOnce ==
  [][LET Of(notes) == {notes[i].id : i \in DOMAIN notes} IN
     /\ \A id \in Of(stored) \ Of(stored') : origin'[id] \in {"removed", "taken"}
     /\ Of(stored') \cap DOMAIN origin \subseteq Of(stored)]_panelState
-----------------------------------------------------------------------------
(* Panels *)
panelVars == <<sharing, chat, drawer, ranking>>

Card(p, text) == [size |-> Height[p], text |-> text]
PanelsInit ==
  /\ \E p \in Platform : sharing =
       [platform |-> p, text |-> "", busy |-> FALSE, making |-> Nothing,
        timers |-> <<Card(p, "")>>, canvas |-> Nothing, files |-> << >>, clicks |-> 0]
  /\ chat = [typed |-> "", messages |-> << >>]
  /\ \E s \in Severities : drawer = [anomalies |-> s, open |-> FALSE]
  /\ ranking = Nothing

(* The share card *)
OnlySharing(s) == sharing' = s /\ UNCHANGED <<chat, drawer, ranking>>
\* Each rendering sets a timer of its own for the preview, which draws the card as
\* of that rendering.
Rendered(s) == [s EXCEPT !.timers = Append(@, Card(s.platform, s.text))]
ChoosePlatform(p) ==
  /\ p # sharing.platform /\ sharing.clicks < MaxClicks
  /\ OnlySharing(Rendered([sharing EXCEPT !.platform = p, !.clicks = @ + 1]))
EditField(text) ==
  /\ text # sharing.text /\ sharing.clicks < MaxClicks
  /\ OnlySharing(Rendered([sharing EXCEPT !.text = text, !.clicks = @ + 1]))
DrawPreview ==
  /\ sharing.timers # << >>
  /\ OnlySharing([sharing EXCEPT !.canvas = Head(sharing.timers), !.timers = Tail(@)])
\* Without a context to draw on, the button is as before and no file is made.
Download ==
  /\ ~sharing.busy /\ sharing.clicks < MaxClicks
  /\ OnlySharing(Rendered([sharing EXCEPT !.busy = TRUE, !.clicks = @ + 1,
       !.making = [name |-> sharing.platform, card |-> Card(sharing.platform, sharing.text)]]))
Making == sharing.making # Nothing
FaultyBlobReady ==
  /\ Making
  /\ OnlySharing(Rendered([sharing EXCEPT !.making = Nothing, !.busy = FALSE,
       !.files = Append(@, [sharing.making EXCEPT !.name = sharing.platform])]))
BlobReady ==
  /\ Making
  /\ OnlySharing(Rendered([sharing EXCEPT !.files = Append(@, sharing.making),
                                          !.making = Nothing, !.busy = FALSE]))
BlobFails == Making /\ OnlySharing(Rendered([sharing EXCEPT !.making = Nothing, !.busy = FALSE]))
SharingNext ==
  \/ \E p \in Platform : ChoosePlatform(p)
  \/ \E text \in Field : EditField(text)
  \/ DrawPreview \/ Download \/ BlobReady \/ BlobFails

(* The chat: Enter and the button *)
Blank(text) == text \in {"", " "}
OnlyChat(c) == chat' = c /\ UNCHANGED <<sharing, drawer, ranking>>
TypeMessage(text) == OnlyChat([chat EXCEPT !.typed = text])
Send ==
  /\ ~Blank(chat.typed) /\ Len(chat.messages) < MaxMessages
  /\ OnlyChat([typed |-> "", messages |-> <<chat.typed>> \o chat.messages])
ChatNext == (\E text \in Message : TypeMessage(text)) \/ Send

(* The drawer: nothing is drawn where nothing was detected *)
Criticals == Len(SelectSeq(drawer.anomalies, LAMBDA s : s = "critical"))
Shown == drawer.anomalies # << >>
Trigger == [colour |-> IF Criticals > 0 THEN "red" ELSE "amber", count |-> Len(drawer.anomalies)]
Heading == [critical |-> Criticals, warning |-> Len(drawer.anomalies) - Criticals]
Listing == [i \in DOMAIN drawer.anomalies |->
              IF drawer.anomalies[i] = "critical" THEN "red" ELSE "amber"]
OnlyDrawer(open) ==
  drawer' = [drawer EXCEPT !.open = open] /\ UNCHANGED <<sharing, chat, ranking>>
OpenDrawer == Shown /\ ~drawer.open /\ OnlyDrawer(TRUE)
CloseDrawer == drawer.open /\ OnlyDrawer(FALSE) \* the button, and the page behind it
DrawerNext == OpenDrawer \/ CloseDrawer

(* The ranking *)
Bar(e) == IF Growth[e] >= 100 THEN "green" ELSE IF Growth[e] < 0 THEN "red" ELSE "indigo"
DetailColour(e) == IF Growth[e] >= 0 THEN "green" ELSE "red"
OnlyRanking(e) == ranking' = e /\ UNCHANGED <<sharing, chat, drawer>>
ClickBar(hit) == hit # << >> /\ OnlyRanking(Endpoint[hit[1]]) \* the bars under the pointer
CloseDetail == ranking # Nothing /\ OnlyRanking(Nothing)
RankingNext == (\E hit \in [1..1 -> DOMAIN Endpoint] : ClickBar(hit)) \/ CloseDetail
-----------------------------------------------------------------------------
PanelsTypeOK ==
  /\ sharing.platform \in Platform /\ sharing.text \in Field /\ sharing.busy \in BOOLEAN
  /\ sharing.clicks \in 0..MaxClicks
  /\ chat.typed \in Message /\ Range(chat.messages) \subseteq Message
  /\ drawer.open \in BOOLEAN /\ ranking \in Range(Endpoint) \cup {Nothing}

\* The button is off exactly while a picture is made; every file has the size of the
\* platform it is named after, though another was chosen while it was made.
FilesFitTheirNames ==
  /\ sharing.busy = Making
  /\ \A i \in DOMAIN sharing.files : sharing.files[i].card.size = Height[sharing.files[i].name]

\* Once the timers have run, the preview is the card in the fields: they run in the
\* order they were set, so that the last draws the latest.
PreviewIsCurrent ==
  IF sharing.timers = << >> THEN sharing.canvas = Card(sharing.platform, sharing.text)
  ELSE sharing.timers[Len(sharing.timers)] = Card(sharing.platform, sharing.text)

\* The drawer's heading, its list and the trigger count the same; it is red exactly
\* where an entry is, and open only where there are entries. A bar is red exactly where
\* the panel of its endpoint is.
PanelsAgree ==
  /\ drawer.open => Shown
  /\ Heading.critical + Heading.warning = Trigger.count
  /\ Heading.critical = Len(SelectSeq(Listing, LAMBDA c : c = "red"))
  /\ Trigger.colour = "red" <=> "red" \in Range(Listing)
  /\ \A e \in Range(Endpoint) : Bar(e) = "red" <=> DetailColour(e) = "red"

\* A message sent stays, below the later ones, and none is blank; a file once made stays.
MessagesStay ==
  [][/\ Ends(chat.messages, chat'.messages)
     /\ \A i \in DOMAIN chat'.messages : ~Blank(chat'.messages[i])
     /\ Begins(sharing.files, sharing'.files)]_<<chat, sharing>>
=============================================================================

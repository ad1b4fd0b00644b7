----------------------------- MODULE FormPages -----------------------------
(***************************************************************************)
(* Pages on which something is set: notification settings, the e-mail      *)
(* preview, feature flags, the query builder, revenue projections          *)
(* (analytics/app) and the social card (components/SocialCardGenerator).   *)
(* Each is a part of its own, with a record of its state.                  *)
(*                                                                         *)
(* And pages that list entries, filter them, and open or select some: the  *)
(* glossary, feedback, errors, word cloud, social, events, e-mail campaign,*)
(* search, campaign, roadmap and attribution pages, the funnel chart and   *)
(* the data-quality badge. All share the entries here. A page is mounted   *)
(* anew, with its own state, whenever it is opened; only arrays of the     *)
(* source files live longer.                                               *)
(***************************************************************************)
EXTENDS Lists, TLC

CONSTANTS
  Address,           \* [well-formed e-mail addresses and others -> BOOLEAN]
  Hook,              \* [webhooks -> do they start with https://], as for Address
  MaxTimers,         \* bound on the tests sent within three seconds
  None,              \* an empty field, and no message
  Flag, Rollout,     \* feature flags, and the percentages of the slider
  MaxQueries, MaxFilters, \* bounds on the queries saved and the filters made
  Column,            \* [part of a query -> its columns]: dimensions and metrics
  FirstColumns,      \* [part -> the columns it starts with]
  Value,             \* what a filter may compare with
  Scenario,          \* [scenario -> its values]
  Custom,            \* values a slider sets
  Template, Metric,  \* social cards
  Entry, Kind,    \* entries, and [entry -> kind]
  Related,        \* [entry -> entries its glossary text links to]
  Search,         \* the sets of entries that a search text finds
  Listed,         \* the entries as the source lists them, a sequence
  Priority,       \* [entry -> the roadmap's priority]
  Credit,         \* [attribution model -> [entry -> credit]]
  FirstModel, FirstCompared, \* the models the attribution page opens with
  All             \* no filter

VARIABLES
  settings, \* [prefs, stored, status, error, sent, timers]
  mail,     \* [to, note, opened]: opened are the addresses mailed
  flags,    \* [flag -> [on, rollout]]
  query,    \* [columns, filters, next, name, saved]
  card,     \* [template, metric, rendered, canvas, file]
  plan,     \* [scenario, values]
  page,     \* the page shown
  view,     \* [kind, found, open]: the filter, what the search finds, what is open
  features, \* FEATURES of the roadmap, which drawing sorts in place
  model,    \* [by, against, memo]: attribution by two models; memo is sorted in place
  drawn     \* the order of the bars, or of the colours, last drawn

formVars == <<settings, mail, flags, query, card, plan>>
Prefs == [daily : BOOLEAN, email : DOMAIN Address \cup {None}, hook : DOMAIN Hook \cup {None}]
DefaultPrefs == [daily |-> TRUE, email |-> None, hook |-> None]

FormsInit ==
  /\ settings = [prefs |-> DefaultPrefs, stored |-> None, status |-> FALSE, error |-> FALSE,
                 sent |-> FALSE, timers |-> 0]
  /\ \E a \in DOMAIN Address : Address[a] /\ mail = [to |-> a, note |-> None, opened |-> {}]
  /\ flags \in [Flag -> [on : BOOLEAN, rollout : Rollout]]
  /\ query = [columns |-> FirstColumns, filters |-> << >>, next |-> 1, name |-> FALSE,
              saved |-> << >>]
  /\ \E t \in Template, m \in Metric :
       card = [template |-> t, metric |-> m, rendered |-> FALSE, canvas |-> None, file |-> None]
  /\ plan = [scenario |-> "moderate", values |-> Scenario["moderate"]]

(* Notification settings *)
OnlySettings(s) == settings' = s /\ UNCHANGED <<mail, flags, query, card, plan>>
EditPrefs == \E p \in Prefs : OnlySettings([settings EXCEPT !.prefs = p])
FaultyValid(p) == p.email # None => Address[p.email]
Valid(p) == (p.email # None => Address[p.email]) /\ (p.hook # None => Hook[p.hook])
\* A refused save leaves the message of an earlier one where it was.
SavePrefs == OnlySettings(
  IF Valid(settings.prefs)
  THEN [settings EXCEPT !.stored = settings.prefs, !.status = TRUE, !.error = FALSE]
  ELSE [settings EXCEPT !.error = TRUE])
\* The page is left and opened again; what it stored is read back.
Reopen == OnlySettings(
  [settings EXCEPT !.prefs = IF settings.stored = None THEN DefaultPrefs ELSE settings.stored,
                   !.status = FALSE, !.error = FALSE, !.sent = FALSE, !.timers = 0])
SendTest == settings.timers < MaxTimers /\ OnlySettings(
  IF settings.prefs.email = None /\ settings.prefs.hook = None
  THEN [settings EXCEPT !.error = TRUE]
  ELSE [settings EXCEPT !.sent = TRUE, !.error = FALSE, !.timers = @ + 1])
\* The timer of an earlier test ends the message of a later one.
TestEnds == settings.timers > 0
  /\ OnlySettings([settings EXCEPT !.timers = @ - 1, !.sent = FALSE])

(* The e-mail preview: its message names the address of that time *)
OnlyMail(m) == mail' = m /\ UNCHANGED <<settings, flags, query, card, plan>>
TypeRecipient == \E a \in DOMAIN Address : OnlyMail([mail EXCEPT !.to = a])
TestSend == OnlyMail(
  IF Address[mail.to] THEN [mail EXCEPT !.opened = @ \cup {mail.to}, !.note = mail.to]
  ELSE [mail EXCEPT !.note = "invalid"])

(* Feature flags *)
OnlyFlags(f) == flags' = f /\ UNCHANGED <<settings, mail, query, card, plan>>
FaultyEnabled(f) == [on |-> ~f.on, rollout |-> IF f.on THEN 0 ELSE 10]
Enabled(f) == [on |-> ~f.on, rollout |-> IF ~f.on /\ f.rollout = 0 THEN 10 ELSE f.rollout]
ToggleFlag == \E f \in Flag : OnlyFlags([flags EXCEPT ![f] = Enabled(@)])
SetRollout == \E f \in Flag, r \in Rollout :
  flags[f].on /\ OnlyFlags([flags EXCEPT ![f].rollout = r])

(* The query builder *)
OnlyQuery(q) == query' = q /\ UNCHANGED <<settings, mail, flags, card, plan>>
ToggleColumn == \E p \in DOMAIN Column : \E c \in Column[p] : OnlyQuery(
  [query EXCEPT !.columns[p] = IF c \in Range(@) THEN Kept(@, Range(@) \ {c}) ELSE Append(@, c)])
AddFilter == query.next <= MaxFilters /\ \E v \in Value : OnlyQuery(
  [query EXCEPT !.filters = Append(@, [id |-> query.next, value |-> v]), !.next = @ + 1])
UpdateFilter == \E i \in DOMAIN query.filters, v \in Value :
  OnlyQuery([query EXCEPT !.filters[i].value = v])
RemoveFilter == \E i \in DOMAIN query.filters :
  OnlyQuery([query EXCEPT !.filters = Spliced(@, i)])
TypeQueryName == \E named \in BOOLEAN : OnlyQuery([query EXCEPT !.name = named])
SaveQuery == query.name /\ Len(query.saved) < MaxQueries /\ OnlyQuery(
  [query EXCEPT !.saved = Append(@, [columns |-> query.columns, filters |-> query.filters]),
                !.name = FALSE])
LoadQuery == \E i \in DOMAIN query.saved : OnlyQuery(
  [query EXCEPT !.columns = query.saved[i].columns, !.filters = query.saved[i].filters])

(* The social card: a new choice takes the download away, not the picture *)
OnlyCard(c) == card' = c /\ UNCHANGED <<settings, mail, flags, query, plan>>
PickTemplate == \E t \in Template : OnlyCard([card EXCEPT !.template = t, !.rendered = FALSE])
PickMetric == \E m \in Metric : OnlyCard([card EXCEPT !.metric = m, !.rendered = FALSE])
Generate == OnlyCard([card EXCEPT !.canvas = <<card.template, card.metric>>, !.rendered = TRUE])
Download == card.rendered /\ OnlyCard([card EXCEPT !.file = <<card.template, card.canvas>>])

(* Projections: a slider says "moderate" whatever it sets *)
OnlyPlan(p) == plan' = p /\ UNCHANGED <<settings, mail, flags, query, card>>
ApplyScenario == \E s \in DOMAIN Scenario : OnlyPlan([scenario |-> s, values |-> Scenario[s]])
MoveSlider == \E v \in Custom : OnlyPlan([scenario |-> "moderate", values |-> v])

SettingsNext == EditPrefs \/ SavePrefs \/ Reopen \/ SendTest \/ TestEnds
MailNext == TypeRecipient \/ TestSend
FlagsNext == ToggleFlag \/ SetRollout
QueryNext ==
  ToggleColumn \/ AddFilter \/ UpdateFilter \/ RemoveFilter \/ TypeQueryName \/ SaveQuery \/ LoadQuery
CardNext == PickTemplate \/ PickMetric \/ Generate \/ Download
PlanNext == ApplyScenario \/ MoveSlider

(* Pages that list *)
listVars == <<page, view, features, model, drawn>>

Pages == {"glossary", "feedback", "errors", "word-cloud", "social", "events", "email-campaigns",
          "search-analytics", "campaigns", "roadmap", "attribution", "funnel", "badge"}
Selected == {"events", "roadmap", "search-analytics", "campaigns"}
Single == Selected \cup {"glossary", "word-cloud", "email-campaigns", "funnel", "badge"}
Models == DOMAIN Credit

Visible(v) == {e \in v.found : v.kind \in {All, Kind[e]}}
Show(v) == view' = v /\ UNCHANGED <<page, features, model, drawn>>

\* Array.prototype.sort is stable: ties stay as they were.  No entry is listed twice.
Sorted(s, weight) ==
  LET at(e) == CHOOSE i \in DOMAIN s : s[i] = e
      before == {p \in Range(s) \X Range(s) :
        \/ weight[p[1]] > weight[p[2]]
        \/ weight[p[1]] = weight[p[2]] /\ at(p[1]) < at(p[2])}
  IN Ranked(Range(s), before)

\* useState's first values of a page that is opened.
Opened(p) == [kind |-> All, found |-> Entry,
              open |-> CASE p \in Selected -> {IF p = "roadmap" THEN features[1] ELSE Listed[1]}
                         [] p = "social" -> Entry
                         [] OTHER -> {}]

\* The roadmap's bars are computed before its cards sort the array; the colours
\* of the attribution page before its bars sort the memo.
Draw(p, memo) ==
  /\ drawn' = CASE p = "roadmap" -> features [] p = "attribution" -> memo [] OTHER -> drawn
  /\ features' = IF p = "roadmap" THEN Sorted(features, Priority) ELSE features

ListInit ==
  /\ page = "events" /\ features = Listed /\ drawn = Listed /\ view = Opened("events")
  /\ model = [by |-> FirstModel, against |-> FirstCompared, memo |-> Listed]

OpenPage(p) ==
  /\ page' = p /\ view' = Opened(p) /\ Draw(p, Listed)
  /\ model' = IF p # "attribution" THEN model
              ELSE [by |-> FirstModel, against |-> FirstCompared, memo |-> Sorted(Listed, Credit[FirstModel])]

(* Filters *)
Filter(p, k) == page = p /\ Show([view EXCEPT !.kind = k])
PickCategory == \E k \in {All} \cup Range(Kind) : Filter("glossary", k)
PickSentiment == \E k \in {All} \cup Range(Kind) : Filter("feedback", k)
PickWordFilter == \E k \in {All} \cup Range(Kind) : Filter("word-cloud", k)
\* Rows of the error page keep their own state, and lose it when they are hidden.
PickType == page = "errors" /\ \E k \in {All} \cup Range(Kind) :
  LET v == [view EXCEPT !.kind = k] IN Show([v EXCEPT !.open = @ \cap Visible(v)])
TypeSearch == page = "glossary" /\ \E found \in Search : Show([view EXCEPT !.found = found])

(* Entries that open and close *)
Toggle(p, e) == page = p /\ Show([view EXCEPT !.open = IF @ = {e} THEN {} ELSE {e}])
ToggleTerm == \E e \in Visible(view) : Toggle("glossary", e)
ToggleWord == \E e \in Visible(view) : Toggle("word-cloud", e)
ToggleCampaign == \E e \in Entry : Toggle("email-campaigns", e)
\* An open tooltip lies over the page.
OpenBadge == view.open = {} /\ \E e \in Entry : Toggle("badge", e)
ToggleRow == page = "errors" /\ \E e \in Visible(view) :
  Show([view EXCEPT !.open = Toggled(@, e)])
FollowLink == page = "glossary" /\ \E e \in view.open \cap Visible(view) :
  \E r \in Related[e] : Show([view EXCEPT !.open = {r}])

Close(p) == page = p /\ view.open # {} /\ Show([view EXCEPT !.open = {}])
ClearWord == Close("word-cloud")
CloseStage == Close("funnel")
CloseBadge == Close("badge")

FaultyTogglePlatform == page = "social" /\ \E e \in Entry :
  Show([view EXCEPT !.open = Toggled(@, e)])
TogglePlatform == page = "social" /\ \E e \in Entry :
  Show([view EXCEPT !.open = IF @ = {e} THEN @ ELSE Toggled(@, e)])

(* Entries of which one is shown *)
Select(p) ==
  /\ page = p
  /\ \E e \in Entry : view.open # {e} /\ view' = [view EXCEPT !.open = {e}]
  /\ Draw(p, Listed) /\ UNCHANGED <<page, model>>
SelectEvent == Select("events")
SelectFeature == Select("roadmap")
SelectTab == Select("search-analytics")
SelectCampaignModel == Select("campaigns")
SelectStage == Select("funnel")

(* Attribution *)
\* A new model fills the memo anew; any other change draws it as it was sorted.
Attribute(m) ==
  /\ page = "attribution" /\ Draw(page, IF m.by = model.by THEN model.memo ELSE Listed)
  /\ model' = [m EXCEPT !.memo = Sorted(drawn', Credit[m.by])]
  /\ UNCHANGED page
PickModel == \E m \in Models \ {model.by} :
  Attribute([model EXCEPT !.by = m]) /\ UNCHANGED view
ToggleCompare ==
  Attribute(model) /\ view' = [view EXCEPT !.open = IF @ = {} THEN Entry ELSE {}]
PickCompared == view.open # {} /\ \E m \in Models \ {model.by, model.against} :
  Attribute([model EXCEPT !.against = m]) /\ UNCHANGED view

ListNext ==
  \/ \E p \in Pages \ {page} : OpenPage(p)
  \/ PickCategory \/ PickSentiment \/ PickWordFilter \/ PickType \/ TypeSearch
  \/ ToggleTerm \/ ToggleWord \/ ToggleCampaign \/ OpenBadge \/ ToggleRow \/ FollowLink
  \/ ClearWord \/ CloseStage \/ CloseBadge \/ TogglePlatform
  \/ SelectEvent \/ SelectFeature \/ SelectTab \/ SelectCampaignModel \/ SelectStage
  \/ PickModel \/ ToggleCompare \/ PickCompared
-----------------------------------------------------------------------------
FormsTypeOK ==
  /\ settings.prefs \in Prefs /\ settings.stored \in Prefs \cup {None}
  /\ flags \in [Flag -> [on : BOOLEAN, rollout : Rollout]]
  /\ query.next \in 1..(MaxFilters + 1) 
  /\ \A p \in DOMAIN Column : Range(query.columns[p]) \subseteq Column[p]

\* However the form was edited and left: what is stored passes the checks, and
\* mail was opened for proper addresses only.
StoredIsValid ==
  /\ settings.stored # None => Valid(settings.stored)
                               /\ (settings.stored.hook # None => Hook[settings.stored.hook])
  /\ \A a \in mail.opened : Address[a]

\* A card is downloaded only as it is chosen, and under the name of the template it
\* was drawn with; a scenario other than the moderate one is lit only while its
\* values are in force.
ChoiceIsShown ==
  /\ card.rendered => card.canvas = <<card.template, card.metric>>
  /\ card.file # None => card.file[1] = card.file[2][1]
  /\ plan.scenario # "moderate" => plan.values = Scenario[plan.scenario]

\* The ids of the filters in the builder, loaded ones among them, are their own,
\* and no column is shown twice; a message about a test has a timer to end it.
BuilderIdsAreUnique ==
  /\ \A i, j \in DOMAIN query.filters : query.filters[i].id = query.filters[j].id => i = j
  /\ \A p \in DOMAIN Column : IsInjective(query.columns[p])
  /\ settings.sent => settings.timers > 0

\* A saved query stays as it was saved, and switching a flag off and on again
\* brings back its rollout, but for 0, which becomes 10.
SavedStays == [][
  /\ Begins(query.saved, query'.saved)
  /\ \A f \in Flag : flags'[f].rollout # flags[f].rollout =>
       \/ flags[f].on /\ flags'[f].on
       \/ flags[f] = [on |-> FALSE, rollout |-> 0] /\ flags'[f] = [on |-> TRUE, rollout |-> 10]]_formVars

\* The message that a test was sent shows.
TellingOfATest == settings.sent

ListTypeOK ==
  /\ page \in Pages /\ view.open \subseteq Entry /\ view.kind \in {All} \cup Range(Kind)
  /\ Range(features) = Entry /\ Range(model.memo) = Entry

\* However a page was clicked through: events, roadmap and their like show one
\* entry, social at least one platform, an accordion one at most, and no hidden
\* row of the error page is open.
SomethingIsSelected ==
  /\ page \in Selected => Cardinality(view.open) = 1
  /\ page = "social" => view.open # {}
  /\ page \in Single => Cardinality(view.open) <= 1
  /\ page = "errors" => view.open \subseteq Visible(view)

\* The roadmap's bars are drawn as listed in the source once, and by priority ever
\* after; the colours of the attribution page go by the source's order or by
\* the credits of the model shown, never by those of a model left.
DrawnByTheModel ==
  /\ page = "roadmap" => drawn \in {Listed, Sorted(Listed, Priority)}
  /\ page = "roadmap" => features = Sorted(Listed, Priority)
  /\ page = "attribution" => drawn \in {Listed, Sorted(Listed, Credit[model.by])}
=============================================================================

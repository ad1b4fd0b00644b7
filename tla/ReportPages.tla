---------------------------- MODULE ReportPages ----------------------------
(***************************************************************************)
(* Two pages that keep their state in the browser:                         *)
(* analytics/components/ReportBuilder.tsx (a canvas of widgets, stored on  *)
(* every change and shared by a link) and ReportConfig.tsx (a form that is *)
(* stored when it is saved), with lib/report-builder-types.ts and          *)
(* lib/report-config-types.ts.                                             *)
(***************************************************************************)
EXTENDS Lists

CONSTANTS
  WidgetType,
  DefaultTypes, \* types of the canvas a first visit shows, a sequence
  SharedLink,   \* canvases that other people's links hold
  MaxWidgets,   \* bound on the widgets of a canvas
  Frequency, Metric, Address,
  DefaultForm,  \* [frequency, recipients, metrics]
  Invalid,      \* an input that is not an address
  None

VARIABLES
  canvas, \* the widgets: a sequence of [i, y]
  saved,  \* the stored canvas, or None
  share,  \* the canvas in the link to share, or None
  form,   \* [frequency, recipients, metrics, input, error]
  kept    \* the stored form, or None

reportVars == <<canvas, saved, share, form, kept>>
WidgetIds(list) == {list[n].i : n \in DOMAIN list}

\* createWidget: the name is made of the type and an index, the row is Infinity.
Created(type, index) == [i |-> <<type, index>>, y |-> "infinity"]
\* encodeLayout: JSON has no Infinity and writes null.
Encoded(list) == [n \in DOMAIN list |->
  IF list[n].y = "infinity" THEN [list[n] EXCEPT !.y = "null"] ELSE list[n]]
FirstCanvas == [n \in DOMAIN DefaultTypes |-> Created(DefaultTypes[n], n - 1)]

\* The effect on the widgets: an empty canvas is neither stored nor shared.
Persist(list) ==
  IF list = << >> THEN UNCHANGED <<saved, share>>
  ELSE saved' = Encoded(list) /\ share' = Encoded(list)
Drawn(list) == canvas' = list /\ Persist(list) /\ UNCHANGED <<form, kept>>

\* loadConfig: only what the form knows is taken from the storage.
LoadedForm ==
  IF kept = None THEN DefaultForm
  ELSE [kept EXCEPT !.metrics = Kept(@, Metric)]
Untouched(f) == [frequency |-> f.frequency, recipients |-> f.recipients,
                 metrics |-> f.metrics, input |-> "", error |-> "none"]

ReportInit ==
  /\ canvas = FirstCanvas /\ saved = Encoded(FirstCanvas) /\ share = Encoded(FirstCanvas)
  /\ kept = None /\ form = Untouched(DefaultForm)

(* ReportBuilder *)
\* A visit takes the canvas of its link, or else the stored one, or else the first.
OpenBuilder == Drawn(IF saved = None THEN FirstCanvas ELSE saved)
OpenLink == \E list \in SharedLink : Drawn(list)
AddWidget(type) ==
  Len(canvas) < MaxWidgets /\ Drawn(Append(canvas, Created(type, Len(canvas) + 1)))
\* A drop numbers from the length twice: once current, once as it was drawn.
DropWidget(type) ==
  Len(canvas) < MaxWidgets /\ Drawn(Append(canvas, Created(type, 2 * Len(canvas) + 1)))
RemoveWidget == \E id \in WidgetIds(canvas) :
  Drawn(Kept(canvas, {w \in Range(canvas) : w.i # id}))
SaveLayout == saved' = Encoded(canvas) /\ UNCHANGED <<canvas, share, form, kept>>
\* react-grid-layout places the widgets and tells where.
OnLayoutChange == canvas # << >> /\ Drawn([n \in DOMAIN canvas |-> [canvas[n] EXCEPT !.y = "placed"]])

(* ReportConfig *)
OnlyForm(f) == form' = f /\ UNCHANGED <<canvas, saved, share, kept>>
OpenConfig == OnlyForm(Untouched(LoadedForm))
TypeAddress(a) == OnlyForm([form EXCEPT !.input = a])
FaultyAccepted == form.input # Invalid
Accepted == form.input # Invalid /\ form.input \notin Range(form.recipients)
AddRecipient ==
  /\ form.input # ""
  /\ OnlyForm(IF Accepted
       THEN [form EXCEPT !.recipients = Append(@, form.input), !.input = "", !.error = "none"]
       ELSE [form EXCEPT !.error = "recipient"])
RemoveRecipient == \E a \in Range(form.recipients) :
  OnlyForm([form EXCEPT !.recipients = Kept(@, Range(@) \ {a})])
ToggleMetric(m) == OnlyForm([form EXCEPT !.metrics =
  IF m \in Range(@) THEN Kept(@, Range(@) \ {m}) ELSE Append(@, m)])
PickFrequency(f) == OnlyForm([form EXCEPT !.frequency = f])
SaveConfig ==
  IF form.recipients = << >> THEN OnlyForm([form EXCEPT !.error = "no recipient"])
  ELSE IF form.metrics = << >> THEN OnlyForm([form EXCEPT !.error = "no metric"])
  ELSE /\ kept' = [frequency |-> form.frequency, recipients |-> form.recipients, metrics |-> form.metrics]
       /\ form' = [form EXCEPT !.error = "none"]
       /\ UNCHANGED <<canvas, saved, share>>

BuilderNext ==
  \/ OpenBuilder \/ OpenLink \/ RemoveWidget \/ SaveLayout \/ OnLayoutChange
  \/ \E type \in WidgetType : AddWidget(type) \/ DropWidget(type)
ConfigNext ==
  \/ OpenConfig \/ AddRecipient \/ RemoveRecipient \/ SaveConfig
  \/ \E a \in Address \cup {Invalid} : TypeAddress(a)
  \/ \E m \in Metric : ToggleMetric(m)
  \/ \E f \in Frequency : PickFrequency(f)
ReportNext == BuilderNext \/ ConfigNext
-----------------------------------------------------------------------------
ReportTypeOK ==
  /\ \A n \in DOMAIN canvas : canvas[n].y \in {"infinity", "null", "placed"}
  /\ form.frequency \in Frequency /\ Range(form.metrics) \subseteq Metric
  /\ Range(form.recipients) \subseteq Address

\* Unless it is empty, the canvas on the screen is the one that a reload brings
\* back and that the link shares.
LayoutIsKept == canvas # << >> => saved = Encoded(canvas) /\ share = Encoded(canvas)

\* A stored configuration can be sent: it has recipients, each an address and
\* each once, and metrics, each once.
SavedReportIsSendable == kept # None =>
  /\ kept.recipients # << >> /\ Range(kept.recipients) \subseteq Address
  /\ kept.metrics # << >> /\ Range(kept.metrics) \subseteq Metric
  /\ IsInjective(kept.recipients) /\ IsInjective(kept.metrics)

\* Widgets go one name at a time, or with the whole canvas when another is opened.
NoWidgetIsLost ==
  [][\/ Cardinality(WidgetIds(canvas) \ WidgetIds(canvas')) <= 1
     \/ canvas' \in SharedLink \/ canvas' = saved]_reportVars
=============================================================================

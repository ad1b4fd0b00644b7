----------------------------- MODULE Dashboard -----------------------------
(***************************************************************************)
(* What surrounds the charts (analytics/components and hooks): toasts, the *)
(* refresh indicator, the date range that is kept in the page's address,   *)
(* the table of locations and the PDF of the sections of a page.           *)
(***************************************************************************)
EXTENDS Lists

CONSTANTS
  MaxToasts,  \* bound on the toasts added
  Duration,   \* ticks that a toast stays
  MaxRunning, \* bound on the refreshes in flight
  MaxRefresh, \* bound on the refreshes started
  None,       \* nothing; an empty date
  Days,       \* the days of a visit
  Row,        \* the rows of the table: a set of [name, gists, growth], numbers that differ
  Search,     \* what may be typed: sets of the rows that have it
  PageSize,   \* rows of a page, ten
  Sections    \* how many sections a page may have

VARIABLES
  toasts,  \* [shown, added, redraw]: shown is a sequence of [id, left]
  refresh, \* [auto, running, busy, note, at, started]: who began those in flight
  dates,   \* [day, range, preset, url, typed]: typed is what the two fields hold
  table,   \* [key, dir, found, page]: found are the rows that have what was typed
  report   \* [progress, of, done, error, file]: file is the pages of the last one

dashVars == <<toasts, refresh, dates, table, report>>
Smaller(a, b) == IF a < b THEN a ELSE b
Larger(a, b) == IF a > b THEN a ELSE b

(* Dates: today is `day', and the presets reach back from it. *)
Preset == {"today", "7d", "30d", "custom"}
Back(p) == CASE p = "today" -> 0 [] p = "7d" -> 6 [] OTHER -> 29
PresetRange(p, day) == [from |-> day - Back(p), to |-> day]
\* What a visit shows of an address, of which a hand-made one may name parts.
FromUrl(url, day) ==
  LET range == IF url.from # None /\ url.to # None THEN [from |-> url.from, to |-> url.to]
               ELSE PresetRange("7d", day)
  IN [range |-> range, preset |-> IF url.preset = None THEN "7d" ELSE url.preset]
Opened(url, day) == [day |-> day, range |-> FromUrl(url, day).range, url |-> url,
                     preset |-> FromUrl(url, day).preset, typed |-> FromUrl(url, day).range]
Plain == [preset |-> None, from |-> None, to |-> None]

DashInit ==
  /\ toasts = [shown |-> << >>, added |-> 0, redraw |-> FALSE]
  /\ refresh = [auto |-> TRUE, running |-> << >>, busy |-> FALSE, note |-> FALSE, at |-> 0, started |-> 0]
  /\ \E url \in {Plain, [Plain EXCEPT !.preset = "30d"]} : dates = Opened(url, 0)
  /\ table = [key |-> "gists", dir |-> "desc", found |-> Row, page |-> 1]
  /\ report = [progress |-> None, of |-> 0, done |-> 0, error |-> FALSE, file |-> None]

(* Toasts.  The container passes each toast a new onClose every time it is     *)
(* drawn, and the effect that depends on it starts the timer again.            *)
OnlyToasts(t) == toasts' = t /\ UNCHANGED <<refresh, dates, table, report>>
Redrawn(shown) == [i \in DOMAIN shown |-> [shown[i] EXCEPT !.left = Duration]]
AddToast == toasts.added < MaxToasts
  /\ OnlyToasts([shown |-> Redrawn(Append(toasts.shown, [id |-> toasts.added + 1, left |-> 0])),
                 added |-> toasts.added + 1, redraw |-> FALSE])
Dropped(i) == Kept(toasts.shown, {t \in Range(toasts.shown) : t.id # toasts.shown[i].id})
DismissToast == \E i \in DOMAIN toasts.shown :
  OnlyToasts([toasts EXCEPT !.shown = Redrawn(Dropped(i)), !.redraw = FALSE])
\* Timers that end together fire one after the other, unless the container is
\* drawn again in between.
ToastEnds == toasts.shown # << >> /\ toasts.shown[1].left = 0
  /\ OnlyToasts([toasts EXCEPT !.shown = Dropped(1), !.redraw = TRUE])
DrawToasts == toasts.redraw
  /\ OnlyToasts([toasts EXCEPT !.shown = Redrawn(@), !.redraw = FALSE])
ToastTick == /\ toasts.shown # << >> /\ ~toasts.redraw /\ \A i \in DOMAIN toasts.shown : toasts.shown[i].left > 0
             /\ OnlyToasts([toasts EXCEPT !.shown =
                  [i \in DOMAIN @ |-> [id |-> @[i].id, left |-> @[i].left - 1]]])
ToastsNext == AddToast \/ DismissToast \/ ToastEnds \/ DrawToasts \/ ToastTick

(* Refresh: 900 ms each, so they end in the order they began.  The interval    *)
(* fires whether or not the button's refresh runs, and the first to end gives  *)
(* the button back.  An equal message does not start its timer again.          *)
OnlyRefresh(r) == refresh' = r /\ UNCHANGED <<toasts, dates, table, report>>
Begin(r, by) == [r EXCEPT !.running = Append(@, by), !.busy = TRUE, !.started = @ + 1]
MayBegin == Len(refresh.running) < MaxRunning /\ refresh.started < MaxRefresh
RefreshClick == MayBegin /\ ~refresh.busy /\ OnlyRefresh(Begin(refresh, "user"))
RefreshTimer == MayBegin /\ refresh.auto /\ "timer" \notin Range(refresh.running)
                /\ OnlyRefresh(Begin(refresh, "timer"))
FaultyRefreshEnds == refresh.running # << >>
  /\ OnlyRefresh([refresh EXCEPT !.running = Tail(@), !.note = TRUE, !.at = @ + 1])
RefreshEnds == refresh.running # << >>
  /\ OnlyRefresh([refresh EXCEPT !.running = Tail(@), !.busy = FALSE, !.note = TRUE, !.at = @ + 1])
NoteEnds == refresh.note /\ OnlyRefresh([refresh EXCEPT !.note = FALSE])
AutoRefresh == OnlyRefresh([refresh EXCEPT !.auto = ~@])
RefreshNext == RefreshClick \/ RefreshTimer \/ RefreshEnds \/ NoteEnds \/ AutoRefresh

(* Date range *)
OnlyDates(d) == dates' = d /\ UNCHANGED <<toasts, refresh, table, report>>
Applied(p, range) ==
  [dates EXCEPT !.range = range, !.preset = p,
                !.url = [preset |-> p, from |-> range.from, to |-> range.to]]
\* "Custom" opens the fields, and applies a month as it does.
ApplyPreset == \E p \in Preset : OnlyDates(Applied(p, PresetRange(p, dates.day)))
TypeDates == dates.preset = "custom"
  /\ \E f, t \in {-1, 0, None} : OnlyDates([dates EXCEPT !.typed = [from |-> f, to |-> t]])
ApplyTyped == dates.preset = "custom" /\ OnlyDates(Applied("custom", dates.typed))
ReloadDates == OnlyDates(Opened(dates.url, dates.day))
NextDay == dates.day < Days /\ OnlyDates([dates EXCEPT !.day = @ + 1])
DatesNext == ApplyPreset \/ TypeDates \/ ApplyTyped \/ ReloadDates \/ NextDay

(* Locations *)
OnlyTable(t) == table' = t /\ UNCHANGED <<toasts, refresh, dates, report>>
SortKey == {"rank", "location", "gists", "growth"}
Field(key) == CASE key = "location" -> "name" [] key = "growth" -> "growth" [] OTHER -> "gists"
Before(a, b) == IF table.dir = "asc" THEN a[Field(table.key)] < b[Field(table.key)]
                ELSE a[Field(table.key)] > b[Field(table.key)]
Sorted == Ranked(table.found, {p \in table.found \X table.found : Before(p[1], p[2])})
LastPage == Larger(1, (Len(Sorted) + PageSize - 1) \div PageSize)
PageRows(page) == SubSeq(Sorted, (page - 1) * PageSize + 1, Smaller(page * PageSize, Len(Sorted)))
Reordered(key) == [table EXCEPT !.key = key, !.page = 1,
                     !.dir = IF key = table.key /\ @ = "desc" THEN "asc" ELSE "desc"]
SortBy == \E key \in SortKey : OnlyTable(Reordered(key))
FaultySearchRows == \E s \in Search : OnlyTable([table EXCEPT !.found = s])
SearchRows == \E s \in Search : OnlyTable([table EXCEPT !.found = s, !.page = 1])
PreviousRows == LastPage > 1 /\ table.page # 1 /\ OnlyTable([table EXCEPT !.page = Larger(1, @ - 1)])
NextRows == LastPage > 1 /\ table.page # LastPage
  /\ OnlyTable([table EXCEPT !.page = Smaller(LastPage, @ + 1)])
TableNext == SortBy \/ SearchRows \/ PreviousRows \/ NextRows

(* PDF report: the sections found at the click are drawn one after the other; *)
(* the last one's step saves the file.                                        *)
OnlyReport(r) == report' = r /\ UNCHANGED <<toasts, refresh, dates, table>>
Percent(k, n) == (200 * k + n) \div (2 * n)
ReportClick == report.progress = None /\ \E n \in Sections :
  OnlyReport(IF n = 0 THEN [report EXCEPT !.error = TRUE]
             ELSE [report EXCEPT !.error = FALSE, !.progress = 0, !.of = n, !.done = 0])
Drawing == report.progress # None /\ report.done < report.of
ReportSection == Drawing /\ LET k == report.done + 1 IN
  OnlyReport([report EXCEPT !.done = k, !.progress = Percent(k, report.of),
                            !.file = IF k = report.of THEN k ELSE @])
\* The libraries do not load, or a section cannot be drawn.
ReportFails == Drawing /\ OnlyReport([report EXCEPT !.progress = None, !.error = TRUE])
FaultyReportButton == report.progress # None /\ report.done = report.of
  /\ OnlyReport([report EXCEPT !.progress = 100])
ReportButton == report.progress # None /\ report.done = report.of
  /\ OnlyReport([report EXCEPT !.progress = None])
ReportNext == ReportClick \/ ReportSection \/ ReportFails \/ ReportButton

DashNext == ToastsNext \/ RefreshNext \/ DatesNext \/ TableNext \/ ReportNext
Fairness ==
  /\ WF_dashVars(ToastEnds) /\ WF_dashVars(DrawToasts) /\ WF_dashVars(ToastTick)
  /\ WF_dashVars(RefreshEnds) /\ WF_dashVars(NoteEnds)
  /\ WF_dashVars(ReportSection \/ ReportFails) /\ WF_dashVars(ReportButton)
Spec == DashInit /\ [][DashNext]_dashVars /\ Fairness
-----------------------------------------------------------------------------
\* The state of each part has its types.
DashTypeOK ==
  /\ toasts.added \in 0..MaxToasts /\ toasts.redraw \in BOOLEAN
  /\ \A i \in DOMAIN toasts.shown : toasts.shown[i] \in [id : 1..MaxToasts, left : 0..Duration]
  /\ refresh \in [auto : BOOLEAN, running : Seq({"user", "timer"}), busy : BOOLEAN, note : BOOLEAN,
                  at : 0..MaxRefresh, started : 0..MaxRefresh]
  /\ dates.preset \in Preset /\ dates.day \in 0..Days
  /\ table \in [key : SortKey, dir : {"asc", "desc"}, found : SUBSET Row, page : Nat \ {0}]
  /\ report.error \in BOOLEAN /\ report.done \in 0..report.of

\* A toast that is dismissed, or ends, takes no other with it, and they stay in the
\* order they came.
ToastsStayInOrder ==
  \A i \in 1 .. Len(toasts.shown) - 1 : toasts.shown[i].id < toasts.shown[i + 1].id

\* The refresh button is taken away only while a refresh is on its way to give it
\* back, and each refresh that began is counted once as it ends.
BusyMeansRunning ==
  /\ refresh.busy => refresh.running # << >>
  /\ refresh.started = refresh.at + Len(refresh.running)

\* What a reload shows is what is shown, once both dates are in the address; and
\* a preset other than custom tells the length of the range then.
ReloadKeepsTheRange ==
  dates.url.from # None /\ dates.url.to # None =>
    /\ FromUrl(dates.url, dates.day) = [range |-> dates.range, preset |-> dates.preset]
    /\ dates.preset # "custom" => dates.range.to - dates.range.from = Back(dates.preset)

\* The page of the table is one it has, so rows that are found are shown; and all
\* its pages together are the rows found, in order.
PageHasRows ==
  /\ table.page \in 1..LastPage /\ (table.found # {} => PageRows(table.page) # << >>)
  /\ Joined([p \in 1..LastPage |-> PageRows(p)]) = Sorted

\* The report is of all sections found, and an error stands alone.
ReportIsWhole ==
  /\ report.progress = 100 => report.file = report.of
  /\ report.error => report.progress = None

\* A toast shows, or the refresh button or the report button is taken away.
Waiting == toasts.shown # << >> \/ refresh.busy \/ report.progress # None
=============================================================================

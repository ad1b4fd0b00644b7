--------------------------- MODULE SearchPalette ---------------------------
(***************************************************************************)
(* The frame of the dashboard: analytics/components/Layout.tsx with        *)
(* ui/SearchBar.tsx and ui/KeyboardShortcuts.tsx, and lib/search.ts.       *)
(* A keystroke is handled whole; the debounce and the focus of the input   *)
(* are timers of their own, so anything may happen before they fire.       *)
(***************************************************************************)
EXTENDS Lists

CONSTANTS
  Item,   \* the index, a sequence of [id, type, href]
  Query,  \* what may be typed; "" is the empty query
  Score,  \* [query -> [place in Item -> relevance]], 0 for no match
  Limit,  \* results kept
  Path    \* pages of the dashboard

VARIABLES
  find,   \* [open, query, results, active, due, focus]: SearchBar
  frame,  \* [path, drawer, help, dark]: Layout and KeyboardShortcuts
  theme   \* [stored, system]: localStorage and the media query

paletteVars == <<find, frame, theme>>
NoHref == ""

\* searchAnalytics: the matches, best first, and in the order of the index
\* when they are as good; the first Limit of them.
Search(q) ==
  LET hits == {i \in DOMAIN Item : q # "" /\ Score[q][i] > 0}
      better == {p \in hits \X hits :
        \/ Score[q][p[1]] > Score[q][p[2]]
        \/ Score[q][p[1]] = Score[q][p[2]] /\ p[1] < p[2]}
      ranked == Ranked(hits, better)
  IN SubSeq(ranked, 1, IF Len(ranked) < Limit THEN Len(ranked) ELSE Limit)

\* groupResults, in the order the types are listed in.
Types == <<"page", "metric", "location", "category">>
Grouped(results) == Joined([t \in DOMAIN Types |->
  Kept(results, {i \in Range(results) : Item[i].type = Types[t]})])

\* The option drawn as selected: `active' counts from 0 over the groups.
Highlighted == Grouped(find.results)[find.active + 1]

\* The effect of Layout: the stored theme, or else what the system prefers.
DarkAtLoad == theme.stored = "dark" \/ (theme.stored = "none" /\ theme.system)
Idle == [open |-> FALSE, query |-> "", results |-> << >>, active |-> 0,
         due |-> TRUE, focus |-> "page"]
Framed(path) == [path |-> path, drawer |-> FALSE, help |-> FALSE, dark |-> DarkAtLoad]

PaletteInit ==
  /\ theme \in [stored : {"none", "dark", "light"}, system : BOOLEAN]
  /\ find = Idle /\ \E path \in Path : frame = Framed(path)

OnlyFind(view) == find' = view /\ UNCHANGED <<frame, theme>>
OnlyFrame(view) == frame' = view /\ UNCHANGED <<find, theme>>

\* The drawer closes when the path changes, and only then.
AtPath(path) == [frame EXCEPT !.path = path, !.drawer = (@ /\ path = frame.path)]

(* SearchBar *)
\* The effect on the query runs when the query changed, and starts the timer anew.
FaultyTyped(q) == [find EXCEPT !.query = q]
Typed(q) == [find EXCEPT !.query = q, !.due = (@ \/ q # find.query)]
Type(q) == find.open /\ find.focus = "input" /\ OnlyFind(Typed(q))

FaultySettle == find.due /\ OnlyFind([find EXCEPT !.results = Search(find.query), !.due = FALSE])
Settle ==
  find.due /\ OnlyFind([find EXCEPT !.results = Search(find.query), !.active = 0, !.due = FALSE])

Closed == [Typed("") EXCEPT !.results = << >>, !.active = 0, !.open = FALSE, !.focus = "page"]
Close == find.open /\ OnlyFind(Closed)

\* The focus comes 50 ms after the opening, and finds no input once it is closed.
Focus == find.open /\ find.focus # "input" /\ OnlyFind([find EXCEPT !.focus = "input"])

ArrowDown ==
  /\ find.focus = "input"
  /\ OnlyFind([find EXCEPT !.active =
       IF @ + 1 < Len(find.results) THEN @ + 1 ELSE Len(find.results) - 1])
ArrowUp ==
  find.focus = "input" /\ OnlyFind([find EXCEPT !.active = IF @ > 0 THEN @ - 1 ELSE 0])
Hover == \E i \in DOMAIN find.results : OnlyFind([find EXCEPT !.active = i - 1])

\* navigate: a result with a page opens it, and any result closes the palette.
Go(i) ==
  /\ find' = Closed
  /\ frame' = IF Item[i].href = NoHref THEN frame ELSE AtPath(Item[i].href)
  /\ UNCHANGED theme
Chosen == find.results[find.active + 1]
Enter == find.focus = "input" /\ find.active + 1 \in DOMAIN find.results /\ Go(Chosen)
Click == \E i \in Range(find.results) : Go(i)

\* The button sets internalOpen, which Layout's own `open' overrides.
ClickSearch == ~find.open /\ UNCHANGED paletteVars

(* KeyboardShortcuts: keys are ignored while the input has the focus. *)
ShortcutSearch ==
  find.focus = "page" /\ OnlyFind([find EXCEPT !.open = TRUE])
ShortcutExport == find.focus = "page" /\ OnlyFrame(AtPath("/export"))
ShortcutHelp == find.focus = "page" /\ OnlyFrame([frame EXCEPT !.help = ~@])
CloseHelp == frame.help /\ OnlyFrame([frame EXCEPT !.help = FALSE])

(* Layout *)
ToggleDark ==
  /\ frame' = [frame EXCEPT !.dark = ~@]
  /\ theme' = [theme EXCEPT !.stored = IF frame.dark THEN "light" ELSE "dark"]
  /\ UNCHANGED find
OpenDrawer == ~find.open /\ OnlyFrame([frame EXCEPT !.drawer = TRUE])
CloseDrawer == frame.drawer /\ OnlyFrame([frame EXCEPT !.drawer = FALSE])
Navigate(path) == ~find.open /\ OnlyFrame(AtPath(path))
Reload ==
  find' = Idle /\ frame' = Framed(frame.path) /\ UNCHANGED theme

\* What the system prefers changes without the page.
SystemTheme == theme' = [theme EXCEPT !.system = ~@] /\ UNCHANGED <<find, frame>>

PaletteNext ==
  \/ Settle \/ Close \/ Focus \/ ArrowDown \/ ArrowUp \/ Hover \/ Enter \/ Click \/ ClickSearch
  \/ ShortcutSearch \/ ShortcutExport \/ ShortcutHelp \/ CloseHelp
  \/ ToggleDark \/ OpenDrawer \/ CloseDrawer \/ Reload \/ SystemTheme
  \/ \E q \in Query : Type(q)
  \/ \E path \in Path : Navigate(path)
-----------------------------------------------------------------------------
PaletteTypeOK ==
  /\ find.open \in BOOLEAN /\ find.query \in Query /\ find.due \in BOOLEAN
  /\ find.focus \in {"page", "input"} /\ (find.focus = "input" => find.open)
  /\ frame.path \in Path /\ frame.dark \in BOOLEAN /\ theme.stored \in {"none", "dark", "light"}

\* Once the timer has fired, the list is the answer to the query in the input,
\* however the typing, the closing and the navigation interleaved.
ResultsAnswerTheQuery == ~find.due => find.results = Search(find.query)

\* The selection is one of the results, or there is none: an arrow key that is
\* pressed before there are results leaves -1 at worst, never beyond the end. The
\* groups draw every result, so one of them is drawn as selected (not always the
\* one that Enter opens).
SelectionIsAResult ==
  IF find.results = << >> THEN find.active \in {-1, 0}
  ELSE /\ find.active \in 0..Len(find.results) - 1
       /\ Range(Grouped(find.results)) = Range(find.results)
       /\ Highlighted \in Range(find.results)

\* A page that is loaded again comes up in the theme it was left in, unless the
\* user never chose one and the system's has changed.
ThemeOutlivesReload == theme.stored # "none" => frame.dark = (theme.stored = "dark")

\* What is typed is still to be searched for; that ends when it is, or the palette
\* is closed.
Searching == find.due
=============================================================================

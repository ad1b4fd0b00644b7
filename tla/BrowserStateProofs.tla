---------------------------- MODULE BrowserStateProofs ----------------------------
(***************************************************************************)
(* More proofs about Browser, from the invariants of BrowserProofs: that   *)
(* what the pages show is current, and that every variable keeps to its    *)
(* type.  Each is proved apart for the parts, in the order of the          *)
(* browser's, and composed at the end.                                     *)
(***************************************************************************)
EXTENDS BrowserProofs
-----------------------------------------------------------------------------
(* Shown as chosen: the search field and the theme *)

\* The search field shows what it found for its text, or will look for it, and has
\* the focus only while it is open; a theme that was chosen is the theme shown.
FrameOf == [path : Path, drawer : BOOLEAN, help : BOOLEAN, dark : BOOLEAN]
ThemeOf == [stored : {"none", "dark", "light"}, system : BOOLEAN]
FoundInv ==
  /\ ~find.due => find.results = Palette!Search(find.query)
  /\ find.focus = "input" => find.open
ThemeInv == frame \in FrameOf /\ theme \in ThemeOf /\ Palette!ThemeOutlivesReload

\* No text finds nothing.
LEMMA BlankFindsNothing == Palette!Search(Blank) = << >>
<1> DEFINE hits == {i \in DOMAIN PaletteItem : Blank # Blank /\ SearchScore[Blank][i] > 0}
           better == {p \in hits \X hits :
             \/ SearchScore[Blank][p[1]] > SearchScore[Blank][p[2]]
             \/ SearchScore[Blank][p[1]] = SearchScore[Blank][p[2]] /\ p[1] < p[2]}
           ranked == Ranked(hits, better)
<1>1. Palette!Search(Blank) = SubSeq(ranked, 1, IF Len(ranked) < Limit THEN Len(ranked) ELSE Limit)
  BY OneOrder DEF Palette!Search, Blank
<1>2. hits = {}
  OBVIOUS
<1> HIDE DEF hits, better
<1>3. Cardinality(hits) = 0
  BY <1>2, FS_EmptySet
<1>4. ranked = << >>
  BY <1>3 DEF Ranked
<1> HIDE DEF ranked
<1>5. Limit \in Nat
  BY SearchConstants
<1> QED BY <1>1, <1>4, <1>5

\* A closed field has no results, and no text or a search that is due.
LEMMA ClosedFinds ==
  ASSUME FindInv, FoundInv, find' = Palette!Closed
  PROVE  FoundInv'
<1> DEFINE d == find.due \/ Blank # find.query
           typed == [find EXCEPT !.query = Blank, !.due = d]
<1>1. find \in FindOf
  BY DEF FindInv
<1>2. Palette!Typed(Blank) = typed
  BY <1>1 DEF Palette!Typed, FindOf
<1>3. d \in BOOLEAN
  BY <1>1 DEF FindOf
<1> HIDE DEF d
<1>4. /\ "query" \in DOMAIN typed /\ "due" \in DOMAIN typed
      /\ typed.query = Blank /\ typed.due = d
      /\ {"results", "active", "open", "focus"} \subseteq DOMAIN typed
  BY <1>1 DEF FindOf
<1> HIDE DEF typed
<1>5. find' = [typed EXCEPT !.results = << >>, !.active = 0, !.open = FALSE, !.focus = "page"]
  BY <1>2 DEF Palette!Closed, Blank
<1>6. find'.results = << >> /\ find'.query = Blank /\ find'.focus = "page"
  BY <1>4, <1>5
<1> QED BY <1>6, BlankFindsNothing DEF FoundInv

\* Every step of the search leaves results that answer what was typed last, or an answer due.
LEMMA StepFound == FindInv /\ FoundInv /\ [Palette!PaletteNext]_(Palette!paletteVars) => FoundInv'
<1> SUFFICES ASSUME FindInv, FoundInv, [Palette!PaletteNext]_(Palette!paletteVars) PROVE FoundInv'
  OBVIOUS
<1>0. find \in FindOf
  BY DEF FindInv
<1>1. ASSUME find'.due = find.due, find'.results = find.results, find'.query = find.query,
             find'.focus = "input" => find'.open
      PROVE  FoundInv'
  BY <1>1 DEF FoundInv
<1>3. CASE Palette!Settle
  <2> DEFINE found == Palette!Search(find.query)
  <2>1. find' = [find EXCEPT !.results = found, !.active = 0, !.due = FALSE]
    BY <1>3 DEF Palette!Settle, Palette!OnlyFind
  <2> HIDE DEF found
  <2>2. /\ find'.results = found /\ find'.query = find.query
        /\ find'.focus = find.focus /\ find'.open = find.open
    BY <1>0, <2>1 DEF FindOf
  <2> QED BY <2>2 DEF FoundInv, found
<1>4. CASE Palette!Close
  BY <1>4, ClosedFinds DEF Palette!Close, Palette!OnlyFind
<1>5. ASSUME NEW i, Palette!Go(i) PROVE FoundInv'
  BY <1>5, ClosedFinds DEF Palette!Go
<1>6. CASE Palette!Focus \/ Palette!ShortcutSearch
  BY <1>0, <1>1, <1>6 DEF FoundInv, Palette!Focus, Palette!ShortcutSearch, Palette!OnlyFind, FindOf
<1>7. ASSUME NEW a, find' = [find EXCEPT !.active = a] PROVE FoundInv'
  BY <1>0, <1>1, <1>7 DEF FindOf, FoundInv
<1>8. CASE Palette!ArrowDown \/ Palette!ArrowUp \/ Palette!Hover
  BY <1>0, <1>7, <1>8 DEF Palette!ArrowDown, Palette!ArrowUp, Palette!Hover, Palette!OnlyFind
<1>9. CASE Palette!Reload
  BY <1>9 DEF Palette!Reload, Palette!Idle, FoundInv
<1>10. ASSUME NEW q \in Query, Palette!Type(q) PROVE FoundInv'
  <2> DEFINE d == find.due \/ q # find.query
  <2>1. find' = [find EXCEPT !.query = q, !.due = d]
    BY <1>0, <1>10 DEF Palette!Type, Palette!Typed, Palette!OnlyFind, FindOf
  <2> HIDE DEF d
  <2>2. /\ find'.query = q /\ find'.due = d /\ find'.results = find.results
        /\ find'.focus = find.focus /\ find'.open = find.open
    BY <1>0, <2>1 DEF FindOf
  <2> QED BY <2>2 DEF FoundInv, d
<1>11. CASE \/ Palette!ClickSearch \/ Palette!ShortcutExport \/ Palette!ShortcutHelp
            \/ Palette!CloseHelp \/ Palette!ToggleDark \/ Palette!OpenDrawer
            \/ Palette!CloseDrawer \/ Palette!SystemTheme
            \/ \E path \in Path : Palette!Navigate(path)
            \/ UNCHANGED Palette!paletteVars
  <2>1. UNCHANGED find
    BY <1>11 DEF Palette!ClickSearch, Palette!ShortcutExport, Palette!ShortcutHelp,
       Palette!CloseHelp, Palette!ToggleDark, Palette!OpenDrawer, Palette!CloseDrawer,
       Palette!SystemTheme, Palette!Navigate, Palette!OnlyFrame, Palette!paletteVars
  <2> QED BY <1>1, <2>1 DEF FoundInv
<1> QED BY <1>3, <1>4, <1>5, <1>6, <1>8, <1>9, <1>10, <1>11
        DEF Palette!PaletteNext, Palette!Enter, Palette!Click

\* The palette opens with a search that is due, in the theme that is stored.
LEMMA InitShown == Palette!PaletteInit => FoundInv /\ ThemeInv
<1> SUFFICES ASSUME Palette!PaletteInit PROVE FoundInv /\ ThemeInv
  OBVIOUS
<1>1. theme \in ThemeOf /\ find = Palette!Idle /\ \E path \in Path : frame = Palette!Framed(path)
  BY DEF Palette!PaletteInit, ThemeOf
<1>2. find.due /\ find.focus = "page"
  BY <1>1 DEF Palette!Idle
<1>3. Palette!DarkAtLoad \in BOOLEAN
      /\ (theme.stored # "none" => Palette!DarkAtLoad = (theme.stored = "dark"))
  BY <1>1 DEF ThemeOf, Palette!DarkAtLoad
<1>4. frame \in FrameOf /\ frame.dark = Palette!DarkAtLoad
  BY <1>1, <1>3 DEF FrameOf, Palette!Framed
<1> QED BY <1>1, <1>2, <1>3, <1>4 DEF FoundInv, ThemeInv, Palette!ThemeOutlivesReload

\* The shortcut of the layout opens a page.
LEMMA ExportIsAPage == "/export" \in Path
BY PagesAreThere DEF PagesAreThere

\* So does every item of the index that has a link.
LEMMA FoundPagesAreThere ==
  \A i \in DOMAIN PaletteItem : PaletteItem[i].href \in Path \cup {Blank}
BY PagesAreThere DEF PagesAreThere, Blank

\* A page that is loaded again comes up in the theme it was left in, and no step
\* changes the theme but the one that stores it.
LEMMA StepTheme == FindInv /\ ThemeInv /\ [Palette!PaletteNext]_(Palette!paletteVars) => ThemeInv'
<1> SUFFICES ASSUME FindInv, ThemeInv, [Palette!PaletteNext]_(Palette!paletteVars) PROVE ThemeInv'
  OBVIOUS
<1>0. /\ frame \in FrameOf /\ theme \in ThemeOf
      /\ theme.stored # "none" => frame.dark = (theme.stored = "dark")
  BY DEF ThemeInv, Palette!ThemeOutlivesReload
<1>1. ASSUME frame' \in FrameOf, frame'.dark = frame.dark, theme' = theme PROVE ThemeInv'
  BY <1>0, <1>1 DEF ThemeInv, Palette!ThemeOutlivesReload
<1>2. ASSUME NEW path \in Path
      PROVE  Palette!AtPath(path) \in FrameOf /\ Palette!AtPath(path).dark = frame.dark
  BY <1>0 DEF Palette!AtPath, FrameOf
<1>3. ASSUME NEW b \in BOOLEAN
      PROVE  /\ [frame EXCEPT !.help = b] \in FrameOf /\ [frame EXCEPT !.help = b].dark = frame.dark
             /\ [frame EXCEPT !.drawer = b] \in FrameOf
             /\ [frame EXCEPT !.drawer = b].dark = frame.dark
  BY <1>0 DEF FrameOf
<1>4. CASE Palette!ToggleDark
  <2>1. /\ frame' = [frame EXCEPT !.dark = ~frame.dark]
        /\ theme' = [theme EXCEPT !.stored = IF frame.dark THEN "light" ELSE "dark"]
    BY <1>0, <1>4 DEF Palette!ToggleDark, FrameOf
  <2>2. frame' \in FrameOf /\ frame'.dark = ~frame.dark
    BY <1>0, <2>1 DEF FrameOf
  <2>3. theme' \in ThemeOf /\ theme'.stored = IF frame.dark THEN "light" ELSE "dark"
    BY <1>0, <2>1 DEF ThemeOf, FrameOf
  <2> QED BY <1>0, <2>2, <2>3 DEF ThemeInv, Palette!ThemeOutlivesReload, FrameOf
<1>5. CASE Palette!Reload
  <2>1. theme' = theme /\ frame' = Palette!Framed(frame.path) /\ frame.path \in Path
    BY <1>0, <1>5 DEF Palette!Reload, FrameOf
  <2>2. Palette!DarkAtLoad \in BOOLEAN
        /\ (theme.stored # "none" => Palette!DarkAtLoad = (theme.stored = "dark"))
    BY <1>0 DEF ThemeOf, Palette!DarkAtLoad
  <2>3. frame' \in FrameOf /\ frame'.dark = Palette!DarkAtLoad
    BY <2>1, <2>2 DEF FrameOf, Palette!Framed
  <2> QED BY <1>0, <2>1, <2>2, <2>3 DEF ThemeInv, Palette!ThemeOutlivesReload
<1>6. CASE Palette!SystemTheme
  <2>1. theme' \in ThemeOf /\ theme'.stored = theme.stored /\ frame' = frame
    BY <1>0, <1>6 DEF Palette!SystemTheme, ThemeOf
  <2> QED BY <1>0, <2>1 DEF ThemeInv, Palette!ThemeOutlivesReload
<1>7. CASE Palette!ShortcutHelp \/ Palette!CloseHelp \/ Palette!OpenDrawer \/ Palette!CloseDrawer
  <2>1. \E b \in BOOLEAN : frame' = [frame EXCEPT !.help = b] \/ frame' = [frame EXCEPT !.drawer = b]
    BY <1>0, <1>7 DEF Palette!ShortcutHelp, Palette!CloseHelp, Palette!OpenDrawer,
       Palette!CloseDrawer, Palette!OnlyFrame, FrameOf
  <2>2. theme' = theme
    BY <1>7 DEF Palette!ShortcutHelp, Palette!CloseHelp, Palette!OpenDrawer,
       Palette!CloseDrawer, Palette!OnlyFrame
  <2> QED BY <1>1, <1>3, <2>1, <2>2
<1>8. CASE Palette!ShortcutExport \/ \E path \in Path : Palette!Navigate(path)
  <2>1. theme' = theme /\ \E path \in Path : frame' = Palette!AtPath(path)
    BY <1>8, ExportIsAPage DEF Palette!ShortcutExport, Palette!Navigate, Palette!OnlyFrame
  <2> QED BY <1>1, <1>2, <2>1
<1>9. ASSUME NEW i \in DOMAIN PaletteItem, Palette!Go(i) PROVE ThemeInv'
  <2>1. theme' = theme /\ (frame' = frame \/ (PaletteItem[i].href # Blank
                                               /\ frame' = Palette!AtPath(PaletteItem[i].href)))
    BY <1>9 DEF Palette!Go, Palette!NoHref, Blank
  <2> QED BY <1>0, <1>1, <1>2, <2>1, FoundPagesAreThere
<1>10. CASE \/ Palette!Settle \/ Palette!Close \/ Palette!Focus \/ Palette!ArrowDown
            \/ Palette!ArrowUp \/ Palette!Hover \/ Palette!ClickSearch \/ Palette!ShortcutSearch
            \/ \E q \in Query : Palette!Type(q)
            \/ UNCHANGED Palette!paletteVars
  <2>1. UNCHANGED <<frame, theme>>
    BY <1>10 DEF Palette!Settle, Palette!Close, Palette!Focus, Palette!ArrowDown, Palette!ArrowUp,
       Palette!Hover, Palette!ClickSearch, Palette!ShortcutSearch, Palette!Type, Palette!OnlyFind,
       Palette!paletteVars
  <2> QED BY <1>0, <1>1, <2>1
<1>11. \A i \in DOMAIN find.results : find.results[i] \in DOMAIN PaletteItem
  <2>1. find.results \in Seq(DOMAIN PaletteItem)
    BY DEF FindInv, FindOf
  <2> QED BY <2>1
<1>12. ASSUME Palette!Enter \/ Palette!Click PROVE ThemeInv'
  <2>1. \E i \in DOMAIN find.results : Palette!Go(find.results[i])
    BY <1>12 DEF Palette!Enter, Palette!Chosen, Palette!Click, Palette!Range
  <2> QED BY <1>9, <1>11, <2>1
<1> QED BY <1>4, <1>5, <1>6, <1>7, <1>8, <1>10, <1>12 DEF Palette!PaletteNext

\* What the palette and the frame hold has its types.
LEMMA PaletteTypes == FindInv /\ FoundInv /\ ThemeInv => Palette!PaletteTypeOK
BY DEF FindInv, FindOf, FoundInv, ThemeInv, FrameOf, ThemeOf, Palette!PaletteTypeOK
-----------------------------------------------------------------------------
(* Shown as chosen: the geofence page *)

\* The bounds of the geofence page are numbers.
LEMMA RegionBounds == MaxRegions \in Nat /\ MaxPoints \in Nat
BY BoundsAreNumbers DEF BoundsAreNumbers

BornIds(list) == Regions!RegionIds(list) \subseteq 1..born
WithMore(list, told) == list \o told
\* What the answer to a request makes of a list of regions.
After(list, kind, id, came) ==
  CASE kind = "load" -> came
    [] kind = "create" -> WithMore(list, came)
    [] kind = "delete" -> Regions!Dropped(list, id)
    [] kind = "patch" -> Regions!Renamed(list, id, came[1])
\* What a request tells is of regions that were born.
BornRequest(r) ==
  /\ BornIds(r.answer)
  /\ r.kind = "patch" => r.id \in 1..born
  /\ r.kind = "create" /\ r.ok => 1 \in DOMAIN r.answer
BornInv ==
  /\ BornIds(regionRows) /\ born <= MaxRegions /\ BornIds(map.regions)
  /\ map.drawing \in BOOLEAN /\ map.points \in 0..MaxPoints
  /\ map.selected \in 1..born \cup {None}
  /\ \A r \in pending : BornRequest(r)
\* While all is calm there is one request at most, and the map is the table, or will
\* be once that request is answered.
CalmInv ==
  /\ calm \in BOOLEAN
  /\ calm => /\ \A a, b \in pending : a = b
             /\ pending = {} => map.regions = regionRows
             /\ \A r \in pending :
                  /\ ~r.served /\ r.kind # "load" => map.regions = regionRows
                  /\ r.served => r.ok /\ After(map.regions, r.kind, r.id, r.answer) = regionRows

\* What an answer makes of the regions shown, by the kind of its request.
LEMMA AfterKinds ==
  ASSUME NEW list, NEW id, NEW came
  PROVE  /\ After(list, "load", id, came) = came
         /\ After(list, "create", id, came) = WithMore(list, came)
         /\ After(list, "delete", id, came) = Regions!Dropped(list, id)
         /\ After(list, "patch", id, came) = Regions!Renamed(list, id, came[1])
BY Zenon DEF After

\* The page opens with nothing, waiting for the first load.
LEMMA InitCalm == Regions!RegionInit => BornInv /\ CalmInv
<1> SUFFICES ASSUME Regions!RegionInit PROVE BornInv /\ CalmInv
  OBVIOUS
<1>1. /\ regionRows = << >> /\ born = 0 /\ map = Regions!Blank /\ calm = TRUE
      /\ pending = {Regions!FirstLoad}
  BY DEF Regions!RegionInit
<1>2. Regions!RegionIds(<< >>) = {}
  BY DEF Regions!RegionIds
<1>3. BornRequest(Regions!FirstLoad) /\ ~Regions!FirstLoad.served /\ Regions!FirstLoad.kind = "load"
  BY <1>2 DEF BornRequest, BornIds, Regions!FirstLoad
<1>4. /\ Regions!Blank.regions = << >> /\ Regions!Blank.drawing \in BOOLEAN
      /\ Regions!Blank.points = 0 /\ Regions!Blank.selected = None
  BY DEF Regions!Blank
<1>5. BornInv
  <2>1. BornIds(regionRows) /\ BornIds(map.regions) /\ born <= MaxRegions
    BY <1>1, <1>2, <1>4, RegionBounds DEF BornIds
  <2>2. map.drawing \in BOOLEAN /\ map.points \in 0..MaxPoints /\ map.selected \in 1..born \cup {None}
    BY <1>1, <1>4, RegionBounds
  <2>3. \A r \in pending : BornRequest(r)
    BY <1>1, <1>3
  <2> QED BY <2>1, <2>2, <2>3 DEF BornInv
<1>6. CalmInv
  BY <1>1, <1>3 DEF CalmInv
<1> QED BY <1>5, <1>6

\* The answer shown.
LEMMA ShownIsAfter ==
  ASSUME IsMap(map), map.drawing \in BOOLEAN, NEW r, IsRequest(r)
  PROVE  /\ Regions!Shown(r).regions = After(map.regions, r.kind, r.id, r.answer)
         /\ Regions!Shown(r).drawing \in BOOLEAN
         /\ Regions!Shown(r).points \in {map.points, 0}
         /\ \/ Regions!Shown(r).selected \in {map.selected, None}
            \/ (r.kind = "create" /\ Regions!Shown(r).selected = r.answer[1].id)
<1>1. CASE r.kind = "load"
  <2>1. Regions!Shown(r) = [map EXCEPT !.regions = r.answer] /\ After(map.regions, r.kind, r.id, r.answer) = r.answer
    BY <1>1, AfterKinds DEF Regions!Shown
  <2> QED BY <2>1 DEF IsMap
<1>2. CASE r.kind = "create"
  <2> DEFINE m1 == [map EXCEPT !.regions = WithMore(map.regions, r.answer)]
             m2 == [m1 EXCEPT !.points = 0]
             m3 == [m2 EXCEPT !.drawing = FALSE]
             m4 == [m3 EXCEPT !.selected = r.answer[1].id]
  <2>1. Regions!Shown(r) = m4
    BY <1>2 DEF Regions!Shown, WithMore
  <2>0. After(map.regions, r.kind, r.id, r.answer) = WithMore(map.regions, r.answer)
    BY <1>2, AfterKinds
  <2>2. IsMap(m1) /\ m1.regions = WithMore(map.regions, r.answer)
    BY DEF IsMap
  <2> HIDE DEF m1
  <2>3. IsMap(m2) /\ m2.regions = m1.regions /\ m2.points = 0
    BY <2>2 DEF IsMap
  <2> HIDE DEF m2
  <2>4. IsMap(m3) /\ m3.regions = m1.regions /\ m3.points = 0 /\ m3.drawing \in BOOLEAN
    <3>1. ASSUME NEW q, IsMap(q), NEW v
          PROVE  LET n == [q EXCEPT !.drawing = v]
                 IN  IsMap(n) /\ n.regions = q.regions /\ n.points = q.points /\ n.drawing = v
      BY <3>1 DEF IsMap
    <3> QED BY <2>3, <3>1
  <2> HIDE DEF m3
  <2>5. /\ m4.regions = m1.regions /\ m4.points = 0 /\ m4.drawing \in BOOLEAN
        /\ m4.selected = r.answer[1].id
    BY <2>4 DEF IsMap
  <2> HIDE DEF m4
  <2> QED BY <1>2, <2>0, <2>1, <2>2, <2>5
<1>3. CASE r.kind = "delete"
  <2> DEFINE at == IF r.seen = r.id THEN None ELSE map.selected
             m1 == [map EXCEPT !.regions = Regions!Dropped(map.regions, r.id)]
             m2 == [m1 EXCEPT !.selected = at]
  <2>1. Regions!Shown(r) = m2 /\ After(map.regions, r.kind, r.id, r.answer) = Regions!Dropped(map.regions, r.id)
    BY <1>3, AfterKinds DEF Regions!Shown, IsMap
  <2>2. /\ IsMap(m1) /\ m1.regions = Regions!Dropped(map.regions, r.id)
        /\ m1.points = map.points /\ m1.drawing = map.drawing
    BY DEF IsMap
  <2> HIDE DEF m1
  <2>3. at \in {map.selected, None}
    OBVIOUS
  <2> HIDE DEF at
  <2>4. /\ m2.regions = m1.regions /\ m2.points = m1.points /\ m2.drawing = m1.drawing
        /\ m2.selected = at
    BY <2>2 DEF IsMap
  <2> HIDE DEF m2
  <2> QED BY <2>1, <2>2, <2>3, <2>4
<1>4. CASE r.kind = "patch"
  <2>1. /\ Regions!Shown(r) = [map EXCEPT !.regions = Regions!Renamed(map.regions, r.id, r.answer[1])]
        /\ After(map.regions, r.kind, r.id, r.answer) = Regions!Renamed(map.regions, r.id, r.answer[1])
    BY <1>4, AfterKinds DEF Regions!Shown, IsMap
  <2> QED BY <2>1 DEF IsMap
<1> QED BY <1>1, <1>2, <1>3, <1>4 DEF IsRequest

\* Filling the name field changes nothing else.
LEMMA RefilledOnlyNames ==
  ASSUME NEW m, IsMap(m)
  PROVE  LET n == Regions!Refilled(m)
         IN  /\ n.regions = m.regions /\ n.drawing = m.drawing
             /\ n.points = m.points /\ n.selected = m.selected
<1> DEFINE e == IF m.selected \in Regions!RegionIds(m.regions)
                THEN Regions!NameOf(m.regions, m.selected) ELSE Regions!Nameless
<1>1. Regions!Refilled(m) = [m EXCEPT !.edit = e]
  BY DEF Regions!Refilled
<1> HIDE DEF e
<1> QED BY <1>1 DEF IsMap

\* The ids of a list with more at its end.
LEMMA MoreIds ==
  ASSUME NEW s \in Seq(RegionOf), NEW u \in Seq(RegionOf)
  PROVE  Regions!RegionIds(WithMore(s, u)) \subseteq Regions!RegionIds(s) \cup Regions!RegionIds(u)
<1> DEFINE all == s \o u
<1>1. /\ all \in Seq(RegionOf) /\ Len(all) = Len(s) + Len(u)
      /\ \A i \in 1..(Len(s) + Len(u)) : all[i] = IF i <= Len(s) THEN s[i] ELSE u[i - Len(s)]
  BY ConcatProperties
<1>2. Len(s) \in Nat /\ Len(u) \in Nat /\ DOMAIN s = 1..Len(s) /\ DOMAIN u = 1..Len(u)
      /\ DOMAIN all = 1..(Len(s) + Len(u))
  BY <1>1
<1> HIDE DEF all
<1>3. ASSUME NEW i \in DOMAIN all
      PROVE  all[i].id \in Regions!RegionIds(s) \cup Regions!RegionIds(u)
  <2>1. CASE i <= Len(s)
    BY <1>1, <1>2, <2>1 DEF Regions!RegionIds
  <2>2. CASE i > Len(s)
    <3>1. i - Len(s) \in DOMAIN u /\ all[i] = u[i - Len(s)]
      BY <1>1, <1>2, <2>2
    <3> QED BY <3>1 DEF Regions!RegionIds
  <2> QED BY <1>2, <2>1, <2>2
<1>4. Regions!RegionIds(all) = {all[i].id : i \in DOMAIN all}
  BY DEF Regions!RegionIds
<1>5. Regions!RegionIds(all) \subseteq Regions!RegionIds(s) \cup Regions!RegionIds(u)
  BY <1>3, <1>4
<1> QED BY <1>5 DEF all, WithMore

\* What an answer makes of the list is of regions that were born.
LEMMA AfterIsBorn ==
  ASSUME NEW list \in Seq(RegionOf), BornIds(list), NEW r, TellsRegions(r), BornRequest(r), r.ok
  PROVE  BornIds(After(list, r.kind, r.id, r.answer))
<1>0. r.answer \in Seq(RegionOf) /\ IsRequest(r)
  BY DEF TellsRegions
<1>1. CASE r.kind = "load"
  BY <1>1, AfterKinds DEF BornRequest
<1>2. CASE r.kind = "create"
  BY <1>0, <1>2, AfterKinds, MoreIds DEF BornRequest, BornIds
<1>3. CASE r.kind = "delete"
  BY <1>3, AfterKinds, DroppedRegions DEF BornIds
<1>4. CASE r.kind = "patch"
  <2>1. r.answer[1] \in RegionOf /\ r.answer[1].id = r.id
    BY <1>0, <1>4 DEF TellsRegions
  <2> QED BY <1>4, <2>1, AfterKinds, RenamedRegions DEF BornIds
<1> QED BY <1>0, <1>1, <1>2, <1>3, <1>4 DEF IsRequest

\* Serving a request keeps the regions born, and tells what the table is then.
LEMMA ServeCalm ==
  RegionsToldInv /\ BornInv /\ CalmInv /\ Regions!Serve => BornInv' /\ CalmInv'
<1> SUFFICES ASSUME RegionsToldInv, BornInv, CalmInv, Regions!Serve PROVE BornInv' /\ CalmInv'
  OBVIOUS
<1>1. PICK r \in pending :
        /\ ~r.served
        /\ CASE r.kind = "load" -> Regions!ServeLoad(r)
             [] r.kind = "create" -> Regions!ServeCreate(r)
             [] r.kind = "delete" -> Regions!ServeDelete(r)
             [] r.kind = "patch" -> Regions!ServePatch(r)
  BY DEF Regions!Serve
<1>2. /\ TellsRegions(r) /\ IsRequest(r) /\ BornRequest(r) /\ born \in Nat
      /\ regionRows \in Seq(RegionOf) /\ map.regions \in Seq(RegionOf)
      /\ BornIds(regionRows) /\ BornIds(map.regions) /\ born <= MaxRegions
      /\ map.drawing \in BOOLEAN /\ map.points \in 0..MaxPoints
      /\ map.selected \in 1..born \cup {None} /\ calm \in BOOLEAN
      /\ \A q \in pending : BornRequest(q)
  BY DEF RegionsToldInv, MapHolds, TellsRegions, BornInv, CalmInv
<1>3. ASSUME NEW ok, NEW told, Regions!Settled(r, ok, told),
             born' \in Nat, born <= born', born' <= MaxRegions,
             Regions!RegionIds(told) \subseteq 1..born',
             Regions!RegionIds(regionRows') \subseteq 1..born',
             r.kind = "create" /\ ok => 1 \in DOMAIN told,
             ok /\ (r.kind # "load" => map.regions = regionRows) =>
               regionRows' = After(map.regions, r.kind, r.id, told)
      PROVE  BornInv' /\ CalmInv'
  <2> DEFINE q == [r EXCEPT !.served = TRUE, !.ok = ok, !.answer = told]
  <2>1. /\ q.answer = told /\ q.ok = ok /\ q.kind = r.kind /\ q.id = r.id /\ q.served
    BY <1>2 DEF IsRequest
  <2>2. pending' = (pending \ {r}) \cup {q} /\ map' = map /\ calm' = (calm /\ ok)
    BY <1>3 DEF Regions!Settled
  <2> HIDE DEF q
  <2>3. 1..born \subseteq 1..born'
    BY <1>2, <1>3
  <2>4. Regions!RegionIds(map.regions) \subseteq 1..born'
    BY <1>2, <2>3 DEF BornIds
  <2>5. BornRequest(q)'
    <3>1. r.kind = "patch" => r.id \in 1..born'
      BY <1>2, <2>3 DEF BornRequest
    <3> QED BY <1>3, <2>1, <3>1 DEF BornRequest, BornIds
  <2>6. \A p \in pending : BornRequest(p)'
    BY <1>2, <2>3 DEF BornRequest, BornIds
  <2>7. BornInv'
    <3>1. map'.selected \in 1..born' \cup {None}
      BY <1>2, <2>2, <2>3
    <3>2. BornIds(regionRows)' /\ BornIds(map.regions)'
      BY <1>3, <2>2, <2>4 DEF BornIds
    <3> QED BY <1>2, <1>3, <2>2, <2>5, <2>6, <3>1, <3>2 DEF BornInv
  <2>8. CalmInv'
    <3> SUFFICES ASSUME calm' PROVE CalmInv'
      BY <1>2, <2>2 DEF CalmInv
    <3>1. calm /\ ok /\ pending = {r} /\ (r.kind # "load" => map.regions = regionRows)
      BY <1>1, <2>2 DEF CalmInv
    <3>2. pending' = {q}
      BY <2>2, <3>1
    <3>3. After(map'.regions, q.kind, q.id, q.answer) = regionRows'
      BY <1>3, <2>1, <2>2, <3>1
    <3> QED BY <1>2, <2>1, <2>2, <3>1, <3>2, <3>3 DEF CalmInv
  <2> QED BY <2>7, <2>8
<1>4. CASE r.kind = "load"
  <2>1. Regions!Settled(r, TRUE, regionRows) /\ regionRows' = regionRows /\ born' = born
    BY <1>1, <1>4 DEF Regions!ServeLoad
  <2>2. /\ born' \in Nat /\ born <= born' /\ born' <= MaxRegions
        /\ Regions!RegionIds(regionRows') \subseteq 1..born'
        /\ Regions!RegionIds(regionRows) \subseteq 1..born'
    BY <1>2, <2>1 DEF BornIds
  <2>3. regionRows' = After(map.regions, r.kind, r.id, regionRows)
    BY <1>4, <2>1, AfterKinds
  <2>4. r.kind # "create"
    BY <1>4
  <2> QED BY <1>3, <2>1, <2>2, <2>3, <2>4
<1>5. CASE r.kind = "create"
  <2> DEFINE new == [id |-> born', name |-> r.name]
  <2>1. /\ born < MaxRegions /\ born' = born + 1 /\ regionRows' = Append(regionRows, new)
        /\ Regions!Settled(r, TRUE, <<new>>)
    BY <1>1, <1>5 DEF Regions!ServeCreate
  <2>2. new \in RegionOf /\ new.id = born'
    BY <1>2, <2>1 DEF RegionOf, TellsRegions
  <2> HIDE DEF new
  <2> DEFINE told == <<new>>
  <2>3. told \in Seq(RegionOf) /\ Len(told) = 1 /\ told[1] = new /\ DOMAIN told = 1..1
    BY <2>2
  <2>4. regionRows' = WithMore(regionRows, told)
    BY <1>2, <2>1, <2>2 DEF WithMore
  <2> HIDE DEF told
  <2>5. born' \in Nat /\ born <= born' /\ born' <= MaxRegions /\ born' \in 1..born'
    BY <1>2, <2>1, RegionBounds
  <2>6. Regions!RegionIds(told) \subseteq 1..born'
    BY <2>2, <2>3, <2>5 DEF Regions!RegionIds
  <2>7. Regions!RegionIds(regionRows') \subseteq 1..born'
    <3>1. Regions!RegionIds(regionRows) \subseteq 1..born'
      BY <1>2, <2>5 DEF BornIds
    <3> QED BY <1>2, <2>3, <2>4, <2>6, <3>1, MoreIds
  <2>8. Regions!Settled(r, TRUE, told)
    BY <2>1 DEF told
  <2>9. map.regions = regionRows => regionRows' = After(map.regions, r.kind, r.id, told)
    BY <1>5, <2>4, AfterKinds
  <2>10. 1 \in DOMAIN told /\ r.kind # "load"
    BY <1>5, <2>3
  <2> QED BY <1>3, <2>5, <2>6, <2>7, <2>8, <2>9, <2>10
<1>6. CASE r.kind = "delete"
  <2>1. /\ regionRows' = Regions!Dropped(regionRows, r.id) /\ born' = born
        /\ Regions!Settled(r, r.id \in Regions!RegionIds(regionRows), << >>)
    BY <1>1, <1>6 DEF Regions!ServeDelete
  <2>2. Regions!RegionIds(regionRows') \subseteq 1..born'
    BY <1>2, <2>1, DroppedRegions DEF BornIds
  <2>3. Regions!RegionIds(<< >>) \subseteq 1..born'
    BY DEF Regions!RegionIds
  <2>4. map.regions = regionRows => regionRows' = After(map.regions, r.kind, r.id, << >>)
    BY <1>6, <2>1, AfterKinds
  <2> QED BY <1>2, <1>3, <1>6, <2>1, <2>2, <2>3, <2>4
<1>7. CASE r.kind = "patch"
  <2> DEFINE new == [id |-> r.id, name |-> r.name]
             good == r.name # Regions!Nameless /\ r.id \in Regions!RegionIds(regionRows)
  <2>1. /\ regionRows' = (IF good THEN Regions!Renamed(regionRows, r.id, new) ELSE regionRows)
        /\ born' = born /\ Regions!Settled(r, good, <<new>>)
    BY <1>1, <1>7 DEF Regions!ServePatch
  <2>2. new \in RegionOf /\ new.id = r.id /\ r.id \in 1..born
    BY <1>2, <1>7 DEF RegionOf, TellsRegions, BornRequest
  <2> HIDE DEF new, good
  <2>4. Regions!RegionIds(regionRows') \subseteq 1..born'
    BY <1>2, <2>1, <2>2, RenamedRegions DEF BornIds
  <2> DEFINE told == <<new>>
  <2>5. told[1] = new /\ DOMAIN told = {1}
    OBVIOUS
  <2>6. Regions!Settled(r, good, told)
    BY <2>1
  <2> HIDE DEF told
  <2>7. Regions!RegionIds(told) \subseteq 1..born'
    BY <2>1, <2>2, <2>5 DEF Regions!RegionIds
  <2>8. good /\ map.regions = regionRows => regionRows' = After(map.regions, r.kind, r.id, told)
    BY <1>7, <2>1, <2>5, AfterKinds
  <2> QED BY <1>2, <1>3, <1>7, <2>1, <2>4, <2>6, <2>7, <2>8
<1> QED BY <1>2, <1>4, <1>5, <1>6, <1>7 DEF IsRequest

\* Every step of the page, of a handler and of the network keeps both.
LEMMA StepCalm ==
  RegionsToldInv /\ BornInv /\ CalmInv /\ [Regions!RegionNext]_(Regions!regionVars) =>
    BornInv' /\ CalmInv'
<1> SUFFICES ASSUME RegionsToldInv, BornInv, CalmInv, [Regions!RegionNext]_(Regions!regionVars)
             PROVE  BornInv' /\ CalmInv'
  OBVIOUS
<1>0. /\ IsMap(map) /\ map.regions \in Seq(RegionOf) /\ \A r \in pending : TellsRegions(r)
      /\ born \in Nat
  BY DEF RegionsToldInv, MapHolds
<1>00. /\ BornIds(regionRows) /\ born <= MaxRegions /\ BornIds(map.regions)
       /\ map.drawing \in BOOLEAN /\ map.points \in 0..MaxPoints
       /\ map.selected \in 1..born \cup {None} /\ \A r \in pending : BornRequest(r)
  BY DEF BornInv
<1>1. ASSUME NEW m, Regions!Click(m), m.regions = map.regions, m.drawing \in BOOLEAN,
             m.points \in 0..MaxPoints, m.selected \in 1..born \cup {None}
      PROVE  BornInv' /\ CalmInv'
  <2>1. /\ map' = m /\ born' = born /\ regionRows' = regionRows /\ pending' = pending
        /\ calm' = calm
    BY <1>1 DEF Regions!Click
  <2>2. BornInv'
    BY <1>00, <1>1, <2>1 DEF BornInv, BornIds, BornRequest
  <2>3. CalmInv'
    BY <1>1, <2>1 DEF CalmInv
  <2> QED BY <2>2, <2>3
<1>2. CASE Regions!StartDrawing \/ Regions!AddPoint \/ Regions!CancelDrawing
  <2>1. ASSUME NEW points \in 0..MaxPoints, NEW drawing \in BOOLEAN,
               Regions!Click([map EXCEPT !.points = points, !.drawing = drawing])
        PROVE  BornInv' /\ CalmInv'
    <3> DEFINE m == [map EXCEPT !.points = points, !.drawing = drawing]
    <3>1. /\ m.regions = map.regions /\ m.points = points /\ m.drawing = drawing
          /\ m.selected = map.selected
      BY <1>0 DEF IsMap
    <3> QED BY <1>00, <1>1, <2>1, <3>1
  <2>2. /\ [map EXCEPT !.drawing = TRUE, !.points = 0] = [map EXCEPT !.points = 0, !.drawing = TRUE]
        /\ [map EXCEPT !.drawing = FALSE, !.points = 0] = [map EXCEPT !.points = 0, !.drawing = FALSE]
        /\ [map EXCEPT !.points = map.points + 1]
             = [map EXCEPT !.points = map.points + 1, !.drawing = map.drawing]
    BY <1>0 DEF IsMap
  <2>3. 0 \in 0..MaxPoints /\ (map.points < MaxPoints => map.points + 1 \in 0..MaxPoints)
    BY <1>00, RegionBounds
  <2> QED BY <1>00, <1>2, <2>1, <2>2, <2>3
          DEF Regions!StartDrawing, Regions!AddPoint, Regions!CancelDrawing
<1>3. ASSUME NEW id \in 1..born \cup {None}, Regions!Select(id) PROVE BornInv' /\ CalmInv'
  <2> DEFINE m == [map EXCEPT !.selected = id]
  <2>1. /\ IsMap(m) /\ m.regions = map.regions /\ m.points = map.points
        /\ m.drawing = map.drawing /\ m.selected = id
    BY <1>0 DEF IsMap
  <2>2. CASE id = map.selected
    BY <1>00, <1>1, <1>3, <2>2 DEF Regions!Select
  <2>3. CASE id # map.selected
    <3>1. Regions!Click(Regions!Refilled(m))
      BY <1>3, <2>3 DEF Regions!Select
    <3> HIDE DEF m
    <3> DEFINE n == Regions!Refilled(m)
    <3>2. n.regions = m.regions /\ n.drawing = m.drawing /\ n.points = m.points /\ n.selected = m.selected
      BY <2>1, RefilledOnlyNames
    <3> HIDE DEF n
    <3>3. Regions!Click(n)
      BY <3>1 DEF n
    <3> QED BY <1>00, <1>1, <1>3, <2>1, <3>2, <3>3
  <2> QED BY <2>2, <2>3
<1>4. ASSUME NEW name, Regions!TypeName(name) PROVE BornInv' /\ CalmInv'
  <2> DEFINE m == [map EXCEPT !.edit = name]
  <2>1. /\ m.regions = map.regions /\ m.points = map.points
        /\ m.drawing = map.drawing /\ m.selected = map.selected
    BY <1>0 DEF IsMap
  <2> QED BY <1>00, <1>1, <1>4, <2>1 DEF Regions!TypeName
<1>5. ASSUME NEW kind \in {"create", "delete", "patch"}, NEW id, NEW name,
             kind = "patch" => id \in 1..born,
             Regions!Send(Regions!Request(kind, id, name))
      PROVE  BornInv' /\ CalmInv'
  <2> DEFINE q == Regions!Request(kind, id, name)
  <2>1. /\ q.answer = << >> /\ q.kind = kind /\ q.id = id /\ q.ok = FALSE /\ q.served = FALSE
    BY DEF Regions!Request
  <2> HIDE DEF q
  <2>2. /\ pending' = pending \cup {q} /\ map' = map /\ born' = born /\ regionRows' = regionRows
        /\ calm' = (calm /\ pending = {})
    BY <1>5 DEF Regions!Send, q
  <2>3. BornRequest(q)
    <3>1. Regions!RegionIds(<< >>) = {}
      BY DEF Regions!RegionIds
    <3> QED BY <1>5, <2>1, <3>1 DEF BornRequest, BornIds
  <2>4. BornInv'
    BY <1>00, <2>2, <2>3 DEF BornInv, BornIds, BornRequest
  <2>5. CalmInv'
    BY <1>5, <2>1, <2>2 DEF CalmInv
  <2> QED BY <2>4, <2>5
<1>6. CASE Regions!Mount
  <2>1. /\ pending = {} /\ map' = Regions!Blank /\ pending' = {Regions!FirstLoad}
        /\ born' = born /\ regionRows' = regionRows /\ calm' = calm
    BY <1>6 DEF Regions!Mount
  <2>2. Regions!RegionIds(<< >>) = {}
    BY DEF Regions!RegionIds
  <2>3. /\ Regions!FirstLoad.kind = "load" /\ Regions!FirstLoad.served = FALSE
        /\ Regions!FirstLoad.answer = << >>
    BY DEF Regions!FirstLoad
  <2>4. /\ Regions!Blank.regions = << >> /\ Regions!Blank.drawing \in BOOLEAN
        /\ Regions!Blank.points = 0 /\ Regions!Blank.selected = None
    BY DEF Regions!Blank
  <2>5. BornRequest(Regions!FirstLoad)' /\ BornIds(regionRows)' /\ BornIds(map.regions)'
    BY <1>00, <2>1, <2>2, <2>3, <2>4 DEF BornRequest, BornIds
  <2>6. BornInv'
    BY <1>0, <1>00, <2>1, <2>4, <2>5, RegionBounds DEF BornInv
  <2>7. CalmInv'
    BY <2>1, <2>3 DEF CalmInv
  <2> QED BY <2>6, <2>7
<1>7. CASE Regions!Lose
  <2>1. PICK r \in pending :
          /\ pending' = pending \ {r} /\ born' = born /\ regionRows' = regionRows /\ calm' = FALSE
          /\ map' = IF r.kind = "load" THEN Regions!Refilled([map EXCEPT !.regions = << >>]) ELSE map
    BY <1>7 DEF Regions!Lose
  <2> DEFINE m == [map EXCEPT !.regions = << >>]
  <2>2. /\ IsMap(m) /\ m.regions = << >> /\ m.points = map.points
        /\ m.drawing = map.drawing /\ m.selected = map.selected
    BY <1>0 DEF IsMap
  <2>3. Regions!RegionIds(<< >>) = {}
    BY DEF Regions!RegionIds
  <2>4. map' = map \/ map' = Regions!Refilled(m)
    BY <2>1
  <2> HIDE DEF m
  <2>5. /\ map'.regions \in {map.regions, << >>} /\ map'.points = map.points
        /\ map'.drawing = map.drawing /\ map'.selected = map.selected
    BY <2>2, <2>4, RefilledOnlyNames
  <2>6. BornIds(map.regions)' /\ \A q \in pending : BornRequest(q)'
    BY <1>00, <2>1, <2>3, <2>5 DEF BornIds, BornRequest
  <2>7. BornInv'
    BY <1>00, <2>1, <2>5, <2>6 DEF BornInv, BornIds
  <2> QED BY <2>1, <2>7 DEF CalmInv
<1>8. CASE Regions!Answer
  <2>1. PICK r \in pending :
          /\ r.served /\ pending' = pending \ {r} /\ born' = born /\ regionRows' = regionRows
          /\ calm' = calm
          /\ map' = IF r.ok THEN Regions!Refilled(Regions!Shown(r)) ELSE map
    BY <1>8 DEF Regions!Answer
  <2>2. TellsRegions(r) /\ IsRequest(r) /\ BornRequest(r) /\ r.answer \in Seq(RegionOf)
    BY <1>0, <1>00 DEF TellsRegions
  <2>3. \A q \in pending : BornRequest(q)'
    BY <1>00, <2>1 DEF BornIds, BornRequest
  <2>4. ASSUME r.ok PROVE BornInv' /\ (pending = {r} => map'.regions = After(map.regions, r.kind, r.id, r.answer))
    <3> DEFINE m == Regions!Shown(r)
    <3>1. /\ IsMap(m) /\ m.regions = After(map.regions, r.kind, r.id, r.answer)
          /\ m.drawing \in BOOLEAN /\ m.points \in {map.points, 0}
          /\ \/ m.selected \in {map.selected, None}
             \/ (r.kind = "create" /\ m.selected = r.answer[1].id)
      BY <1>0, <1>00, <2>2, ShownIsAfter, ShownIsMap
    <3>2. map' = Regions!Refilled(m)
      BY <2>1, <2>4
    <3> HIDE DEF m
    <3>3. /\ map'.regions = m.regions /\ map'.points = m.points
          /\ map'.drawing = m.drawing /\ map'.selected = m.selected
      BY <3>1, <3>2, RefilledOnlyNames
    <3>4. BornIds(m.regions)
      BY <1>0, <1>00, <2>2, <2>4, <3>1, AfterIsBorn
    <3>5. m.selected \in 1..born \cup {None}
      <4>1. CASE r.kind = "create"
        <5>1. r.answer[1].id \in 1..born
          BY <2>2, <2>4, <4>1 DEF BornRequest, BornIds, Regions!RegionIds
        <5> QED BY <1>00, <3>1, <5>1
      <4> QED BY <1>00, <3>1, <4>1
    <3>6. BornIds(map.regions)' /\ BornIds(regionRows)'
      BY <1>00, <2>1, <3>3, <3>4 DEF BornIds
    <3>7. map'.points \in 0..MaxPoints
      BY <1>00, <3>1, <3>3, RegionBounds
    <3>8. BornInv'
      BY <1>00, <2>1, <2>3, <3>1, <3>3, <3>5, <3>6, <3>7 DEF BornInv
    <3> QED BY <3>1, <3>3, <3>8
  <2>5. ASSUME ~r.ok PROVE BornInv'
    BY <1>00, <2>1, <2>3, <2>5 DEF BornInv, BornIds
  <2>6. CalmInv'
    <3> SUFFICES ASSUME calm PROVE CalmInv'
      BY <2>1 DEF CalmInv
    <3>1. pending = {r} /\ r.ok /\ After(map.regions, r.kind, r.id, r.answer) = regionRows
      BY <2>1 DEF CalmInv
    <3>2. pending' = {} /\ map'.regions = regionRows'
      BY <2>1, <2>4, <3>1
    <3> QED BY <2>1, <3>2 DEF CalmInv
  <2> QED BY <2>4, <2>5, <2>6
<1>9. CASE UNCHANGED Regions!regionVars
  BY <1>00, <1>9 DEF Regions!regionVars, BornInv, BornIds, BornRequest, CalmInv
<1>10. \A id \in Regions!RegionIds(map.regions) : id \in 1..born
  BY <1>00 DEF BornIds
<1>11. CASE Regions!SelectShape \/ Regions!ToggleEntry
  <2>1. \E id \in 1..born \cup {None} : Regions!Select(id)
    BY <1>10, <1>11 DEF Regions!SelectShape, Regions!ToggleEntry
  <2> QED BY <1>3, <2>1
<1>12. CASE Regions!ClosePolygon \/ Regions!DeleteRegion \/ Regions!UpdateRegion
  BY <1>5, <1>10, <1>12 DEF Regions!ClosePolygon, Regions!DeleteRegion, Regions!UpdateRegion
<1>13. CASE Regions!Serve
  BY <1>13, ServeCalm
<1> QED BY <1>2, <1>4, <1>6, <1>7, <1>8, <1>9, <1>11, <1>12, <1>13 DEF Regions!RegionNext

\* The map agrees with the table, and its types hold.
LEMMA CalmKeeps ==
  /\ CalmInv => Regions!CalmMapIsTheTable
  /\ BornInv /\ CalmInv => Regions!RegionsTypeOK
BY DEF CalmInv, BornInv, BornIds, Regions!CalmMapIsTheTable, Regions!RegionsTypeOK
-----------------------------------------------------------------------------
(* Shown as chosen: the canvas, the segments, the card and the plan *)

\* What is drawn is stored and shared, unless it is empty.
LEMMA DrawnIsKept == ASSUME NEW list, Report!Drawn(list) PROVE Report!LayoutIsKept'
<1>1. canvas' = list /\ Report!Persist(list)
  BY DEF Report!Drawn
<1>2. CASE list = << >>
  BY <1>1, <1>2 DEF Report!LayoutIsKept
<1>3. CASE list # << >>
  <2> DEFINE e == Report!Encoded(list)
  <2>1. saved' = e /\ share' = e
    BY <1>1, <1>3 DEF Report!Persist
  <2>2. Report!Encoded(list) = e
    OBVIOUS
  <2> HIDE DEF e
  <2>3. Report!Encoded(canvas)' = e
    BY <1>1, <2>2 DEF Report!Encoded
  <2> QED BY <2>1, <2>3 DEF Report!LayoutIsKept
<1> QED BY <1>2, <1>3

\* The canvas opens as it is stored and shared, and every change of it is both.
LEMMA StepLayout ==
  /\ Report!ReportInit => Report!LayoutIsKept
  /\ Report!LayoutIsKept /\ [Report!ReportNext]_(Report!reportVars) => Report!LayoutIsKept'
<1>1. Report!ReportInit => Report!LayoutIsKept
  BY DEF Report!ReportInit, Report!LayoutIsKept
<1>2. ASSUME Report!LayoutIsKept, [Report!ReportNext]_(Report!reportVars)
      PROVE  Report!LayoutIsKept'
  <2>1. CASE UNCHANGED <<canvas, saved, share>>
    BY <1>2, <2>1 DEF Report!LayoutIsKept, Report!Encoded
  <2>2. CASE Report!SaveLayout
    <3> DEFINE e == Report!Encoded(canvas)
    <3>1. saved' = e /\ canvas' = canvas /\ share' = share
      BY <2>2 DEF Report!SaveLayout
    <3>2. canvas # << >> => share = e
      BY <1>2 DEF Report!LayoutIsKept
    <3>3. e' = e
      BY <3>1 DEF Report!Encoded
    <3> HIDE DEF e
    <3>4. canvas' # << >> => saved' = e' /\ share' = e'
      BY <3>1, <3>2, <3>3
    <3> QED BY <3>4 DEF e, Report!LayoutIsKept
  <2>3. CASE Report!ConfigNext
    <3>1. UNCHANGED <<canvas, saved, share>>
      BY <2>3 DEF Report!ConfigNext, Report!OpenConfig, Report!AddRecipient,
         Report!RemoveRecipient, Report!SaveConfig, Report!TypeAddress, Report!ToggleMetric,
         Report!PickFrequency, Report!OnlyForm
    <3> QED BY <2>1, <3>1
  <2>4. ASSUME Report!BuilderNext, ~Report!SaveLayout
        PROVE  \E list : Report!Drawn(list)
    BY Zenon, <2>4 DEF Report!BuilderNext, Report!OpenBuilder, Report!OpenLink, Report!RemoveWidget,
       Report!OnLayoutChange, Report!AddWidget, Report!DropWidget
  <2>5. CASE UNCHANGED Report!reportVars
    BY <2>1, <2>5 DEF Report!reportVars
  <2> QED BY <1>2, <2>2, <2>3, <2>4, <2>5, DrawnIsKept DEF Report!ReportNext
<1> QED BY <1>1, <1>2

\* The builder opens without a tick, and has one while what it holds is stored: every
\* edit takes the tick away, and only a save or a stored segment brings it back.
LEMMA StepTicked ==
  /\ Segments!SegmentsInit => Segments!TickedIsStored
  /\ SegmentsInv /\ Segments!TickedIsStored /\ [Segments!SegmentsNext]_(Segments!segmentVars)
       => Segments!TickedIsStored'
<1>1. Segments!SegmentsInit => Segments!TickedIsStored
  BY DEF Segments!SegmentsInit, Segments!TickedIsStored
<1>2. ASSUME SegmentsInv, Segments!TickedIsStored, [Segments!SegmentsNext]_(Segments!segmentVars)
      PROVE  Segments!TickedIsStored'
  <2>1. SegmentsAre(segments) /\ IsSegment(active) /\ IsList(segments)
    BY <1>2 DEF SegmentsInv, SegmentsAre
  <2>2. ASSUME NEW s, Segments!Edit(s) PROVE Segments!TickedIsStored'
    BY <2>2 DEF Segments!Edit, Segments!TickedIsStored
  <2>3. CASE Segments!SaveSegment
    <3>1. CASE \E i \in DOMAIN segments : segments[i].id = active.id
      <4>1. PICK i \in DOMAIN segments : segments[i].id = active.id
        BY <3>1
      <4>2. segments' = [j \in DOMAIN segments |->
                           IF segments[j].id = active.id THEN active ELSE segments[j]]
            /\ active' = active
        BY <2>3, <3>1 DEF Segments!SaveSegment
      <4>3. i \in DOMAIN segments' /\ segments'[i] = active'
        BY <4>1, <4>2
      <4> QED BY <4>3 DEF Segments!TickedIsStored
    <3>2. CASE ~\E i \in DOMAIN segments : segments[i].id = active.id
      <4> DEFINE new == [active EXCEPT !.id = Len(segments) + 1]
      <4>1. segments' = Append(segments, new) /\ active' = active
        BY <2>3, <3>2 DEF Segments!SaveSegment
      <4>2. new.conditions = active.conditions /\ new.logic = active.logic
        BY <2>1 DEF IsSegment
      <4> HIDE DEF new
      <4>3. segments'[Len(segments) + 1] = new /\ Len(segments) \in Nat
            /\ DOMAIN segments' = 1..(Len(segments) + 1)
        BY <2>1, <4>1, AppendedList DEF IsList
      <4>4. Len(segments) + 1 \in DOMAIN segments'
        BY <4>3
      <4> QED BY <4>1, <4>2, <4>3, <4>4 DEF Segments!TickedIsStored
    <3> QED BY <3>1, <3>2
  <2>4. CASE Segments!EditSegment
    BY <2>4 DEF Segments!EditSegment, Segments!TickedIsStored
  <2>5. CASE UNCHANGED Segments!segmentVars
    BY <1>2, <2>5 DEF Segments!segmentVars, Segments!TickedIsStored
  <2>6. ASSUME Segments!SegmentsNext, ~Segments!SaveSegment, ~Segments!EditSegment
        PROVE  \E s : Segments!Edit(s)
    BY <2>6 DEF Segments!SegmentsNext, Segments!AddCondition, Segments!RemoveCondition,
       Segments!PickField, Segments!PickValue, Segments!PickOp, Segments!PickLogic,
       Segments!UpdateCondition
  <2> QED BY <1>2, <2>2, <2>3, <2>4, <2>5, <2>6
<1> QED BY <1>1, <1>2

\* So it is in the builder that a page embeds.
LEMMA StepDone ==
  /\ Embedded!SegmentInit => Embedded!Page!TickedIsStored
  /\ SegmenterInv /\ Embedded!Page!TickedIsStored
     /\ [Embedded!Page!SegmentsNext]_(Embedded!segmentState)
       => Embedded!Page!TickedIsStored'
<1>1. Embedded!SegmentInit => Embedded!Page!TickedIsStored
  BY DEF Embedded!SegmentInit, Embedded!Page!SegmentsInit, Embedded!Page!TickedIsStored
<1>2. ASSUME SegmenterInv, Embedded!Page!TickedIsStored,
             [Embedded!Page!SegmentsNext]_(Embedded!segmentState)
      PROVE  Embedded!Page!TickedIsStored'
  <2>1. SegmentsAre(given) /\ IsSegment(segment) /\ IsList(given)
    BY <1>2 DEF SegmenterInv, SegmentsAre
  <2>2. ASSUME NEW s, Embedded!Page!Edit(s) PROVE Embedded!Page!TickedIsStored'
    BY <2>2 DEF Embedded!Page!Edit, Embedded!Page!TickedIsStored
  <2>3. CASE Embedded!Page!SaveSegment
    <3>1. CASE \E i \in DOMAIN given : given[i].id = segment.id
      <4>1. PICK i \in DOMAIN given : given[i].id = segment.id
        BY <3>1
      <4>2. given' = [j \in DOMAIN given |->
                        IF given[j].id = segment.id THEN segment ELSE given[j]]
            /\ segment' = segment
        BY <2>3, <3>1 DEF Embedded!Page!SaveSegment
      <4>3. i \in DOMAIN given' /\ given'[i] = segment'
        BY <4>1, <4>2
      <4> QED BY <4>3 DEF Embedded!Page!TickedIsStored
    <3>2. CASE ~\E i \in DOMAIN given : given[i].id = segment.id
      <4> DEFINE new == [segment EXCEPT !.id = Len(given) + 1]
      <4>1. given' = Append(given, new) /\ segment' = segment
        BY <2>3, <3>2 DEF Embedded!Page!SaveSegment
      <4>2. new.conditions = segment.conditions /\ new.logic = segment.logic
        BY <2>1 DEF IsSegment
      <4> HIDE DEF new
      <4>3. given'[Len(given) + 1] = new /\ Len(given) \in Nat
            /\ DOMAIN given' = 1..(Len(given) + 1)
        BY <2>1, <4>1, AppendedList DEF IsList
      <4>4. Len(given) + 1 \in DOMAIN given'
        BY <4>3
      <4> QED BY <4>1, <4>2, <4>3, <4>4 DEF Embedded!Page!TickedIsStored
    <3> QED BY <3>1, <3>2
  <2>4. CASE Embedded!Page!EditSegment
    BY <2>4 DEF Embedded!Page!EditSegment, Embedded!Page!TickedIsStored
  <2>5. CASE UNCHANGED Embedded!segmentState
    BY <1>2, <2>5 DEF Embedded!segmentState, Embedded!Page!TickedIsStored
  <2>6. ASSUME Embedded!Page!SegmentsNext, ~Embedded!Page!SaveSegment, ~Embedded!Page!EditSegment
        PROVE  \E s : Embedded!Page!Edit(s)
    BY <2>6 DEF Embedded!Page!SegmentsNext, Embedded!Page!AddCondition,
       Embedded!Page!RemoveCondition, Embedded!Page!PickField, Embedded!Page!PickValue,
       Embedded!Page!PickOp, Embedded!Page!PickLogic, Embedded!Page!UpdateCondition
  <2> QED BY <1>2, <2>2, <2>3, <2>4, <2>5, <2>6
<1> QED BY <1>1, <1>2

\* A card is drawn as it is chosen, and a scenario is named while its values are in
\* force.
CardOf == [template : Template, metric : CardMetric, rendered : BOOLEAN,
           canvas : (Template \X CardMetric) \cup {None},
           file : (Template \X (Template \X CardMetric)) \cup {None}]
ChoiceInv ==
  /\ card \in CardOf /\ plan = [scenario |-> plan.scenario, values |-> plan.values]
  /\ card.rendered => card.canvas = <<card.template, card.metric>>
  /\ card.file # None => card.file[1] = card.file[2][1]
  /\ plan.scenario # "moderate" => plan.values = Scenario[plan.scenario]

\* The pages of cards and projections open on what they are drawn with.
LEMMA InitChoice == Forms!FormsInit => ChoiceInv
<1> SUFFICES ASSUME Forms!FormsInit PROVE ChoiceInv
  OBVIOUS
<1>1. PICK t \in Template, m \in CardMetric :
        card = [template |-> t, metric |-> m, rendered |-> FALSE, canvas |-> None, file |-> None]
  BY Zenon DEF Forms!FormsInit
<1>2. plan = [scenario |-> "moderate", values |-> Scenario["moderate"]]
  BY Zenon DEF Forms!FormsInit
<1> QED BY <1>1, <1>2 DEF ChoiceInv, CardOf

\* A choice takes the download away, a download names what was drawn, and a slider
\* sets values of the moderate scenario.
LEMMA StepChoice == ChoiceInv /\ [FormsNext]_(Forms!formVars) => ChoiceInv'
<1> SUFFICES ASSUME ChoiceInv, [FormsNext]_(Forms!formVars) PROVE ChoiceInv'
  OBVIOUS
<1>1. /\ card \in CardOf /\ plan = [scenario |-> plan.scenario, values |-> plan.values]
      /\ card.rendered => card.canvas = <<card.template, card.metric>>
      /\ card.file # None => card.file[1] = card.file[2][1]
      /\ plan.scenario # "moderate" => plan.values = Scenario[plan.scenario]
  BY DEF ChoiceInv
<1>2. CASE UNCHANGED <<card, plan>>
  BY <1>1, <1>2 DEF ChoiceInv
<1>3. CASE Forms!SettingsNext \/ Forms!MailNext \/ Forms!FlagsNext \/ Forms!QueryNext
           \/ UNCHANGED Forms!formVars
  <2>1. UNCHANGED <<card, plan>>
    BY Zenon, <1>3 DEF Forms!SettingsNext, Forms!EditPrefs, Forms!SavePrefs, Forms!Reopen, Forms!SendTest,
       Forms!TestEnds, Forms!OnlySettings, Forms!MailNext, Forms!TypeRecipient, Forms!TestSend,
       Forms!OnlyMail, Forms!FlagsNext, Forms!ToggleFlag, Forms!SetRollout, Forms!OnlyFlags,
       Forms!QueryNext, Forms!ToggleColumn, Forms!AddFilter, Forms!UpdateFilter,
       Forms!RemoveFilter, Forms!TypeQueryName, Forms!SaveQuery, Forms!LoadQuery,
       Forms!OnlyQuery, Forms!formVars
  <2> QED BY <1>2, <2>1
<1>4. CASE Forms!CardNext
  <2>1. plan' = plan
    BY <1>4 DEF Forms!CardNext, Forms!PickTemplate, Forms!PickMetric, Forms!Generate,
       Forms!Download, Forms!OnlyCard
  <2>2. CASE Forms!PickTemplate
    <3>1. PICK t \in Template : card' = [card EXCEPT !.template = t, !.rendered = FALSE]
      BY <2>2 DEF Forms!PickTemplate, Forms!OnlyCard
    <3>2. card' \in CardOf /\ ~card'.rendered /\ card'.file = card.file
      BY <1>1, <3>1 DEF CardOf
    <3> QED BY <1>1, <2>1, <3>2 DEF ChoiceInv
  <2>3. CASE Forms!PickMetric
    <3>1. PICK m \in CardMetric : card' = [card EXCEPT !.metric = m, !.rendered = FALSE]
      BY <2>3 DEF Forms!PickMetric, Forms!OnlyCard
    <3>2. card' \in CardOf /\ ~card'.rendered /\ card'.file = card.file
      BY <1>1, <3>1 DEF CardOf
    <3> QED BY <1>1, <2>1, <3>2 DEF ChoiceInv
  <2>4. CASE Forms!Generate
    <3> DEFINE drawing == <<card.template, card.metric>>
    <3>1. card' = [card EXCEPT !.canvas = drawing, !.rendered = TRUE]
      BY <2>4 DEF Forms!Generate, Forms!OnlyCard
    <3>2. drawing \in Template \X CardMetric
      BY <1>1 DEF CardOf
    <3> HIDE DEF drawing
    <3>3. card' \in CardOf /\ card'.canvas = drawing /\ card'.file = card.file
          /\ card'.template = card.template /\ card'.metric = card.metric
      BY <1>1, <3>1, <3>2 DEF CardOf
    <3>4. drawing = <<card'.template, card'.metric>>
      BY <3>3 DEF drawing
    <3> QED BY <1>1, <2>1, <3>3, <3>4 DEF ChoiceInv
  <2>5. CASE Forms!Download
    <3> DEFINE f == <<card.template, card.canvas>>
    <3>1. card' = [card EXCEPT !.file = f] /\ card.rendered
      BY <2>5 DEF Forms!Download, Forms!OnlyCard
    <3>2. card.canvas = <<card.template, card.metric>> /\ card.template \in Template
          /\ card.metric \in CardMetric
      BY <1>1, <3>1 DEF CardOf
    <3>3. f \in Template \X (Template \X CardMetric) /\ f[1] = f[2][1]
      BY <3>2
    <3> HIDE DEF f
    <3>4. card' \in CardOf /\ card'.canvas = card.canvas /\ card'.file = f
          /\ card'.template = card.template /\ card'.metric = card.metric
      BY <1>1, <3>1, <3>3 DEF CardOf
    <3> QED BY <2>1, <3>2, <3>3, <3>4, <1>1 DEF ChoiceInv
  <2> QED BY <1>4, <2>2, <2>3, <2>4, <2>5 DEF Forms!CardNext
<1>5. CASE Forms!PlanNext
  <2>1. card' = card
    BY <1>5 DEF Forms!PlanNext, Forms!ApplyScenario, Forms!MoveSlider, Forms!OnlyPlan
  <2>2. \/ \E s : plan' = [scenario |-> s, values |-> Scenario[s]]
        \/ \E v : plan' = [scenario |-> "moderate", values |-> v]
    BY <1>5 DEF Forms!PlanNext, Forms!ApplyScenario, Forms!MoveSlider, Forms!OnlyPlan
  <2> QED BY <1>1, <2>1, <2>2 DEF ChoiceInv
<1> QED BY <1>3, <1>4, <1>5 DEF FormsNext
-----------------------------------------------------------------------------
(* Shown as chosen: toasts, dates and the preview of a card *)

\* The bounds of what surrounds the charts.
LEMMA DashBounds ==
  MaxToasts \in Nat /\ Duration \in Nat /\ Days \in Nat /\ MaxRefresh \in Nat
BY BoundsAreNumbers DEF BoundsAreNumbers

\* A step of what surrounds the charts is one of the toasts, the dates or the report, or
\* of none of them.
LEMMA DashParted ==
  [Dash!DashNext]_(Dash!dashVars) =>
    [Dash!ToastsNext]_toasts /\ [Dash!DatesNext]_dates /\ [Dash!ReportNext]_report
<1> SUFFICES ASSUME [Dash!DashNext]_(Dash!dashVars)
             PROVE  [Dash!ToastsNext]_toasts /\ [Dash!DatesNext]_dates /\ [Dash!ReportNext]_report
  OBVIOUS
<1>1. CASE Dash!ToastsNext
  <2>1. UNCHANGED <<dates, report>>
    BY <1>1 DEF Dash!ToastsNext, Dash!AddToast, Dash!DismissToast, Dash!ToastEnds,
       Dash!DrawToasts, Dash!ToastTick, Dash!OnlyToasts
  <2> QED BY <1>1, <2>1
<1>2. CASE Dash!RefreshNext
  <2>1. UNCHANGED <<toasts, dates, report>>
    BY <1>2 DEF Dash!RefreshNext, Dash!RefreshClick, Dash!RefreshTimer, Dash!RefreshEnds,
       Dash!NoteEnds, Dash!AutoRefresh, Dash!OnlyRefresh
  <2> QED BY <2>1
<1>3. CASE Dash!DatesNext
  <2>1. UNCHANGED <<toasts, report>>
    BY <1>3 DEF Dash!DatesNext, Dash!ApplyPreset, Dash!TypeDates, Dash!ApplyTyped,
       Dash!ReloadDates, Dash!NextDay, Dash!OnlyDates
  <2> QED BY <1>3, <2>1
<1>4. CASE Dash!TableNext
  <2>1. UNCHANGED <<toasts, dates, report>>
    BY <1>4 DEF Dash!TableNext, Dash!SortBy, Dash!SearchRows, Dash!PreviousRows,
       Dash!NextRows, Dash!OnlyTable
  <2> QED BY <2>1
<1>5. CASE Dash!ReportNext
  <2>1. UNCHANGED <<toasts, dates>>
    BY <1>5 DEF Dash!ReportNext, Dash!ReportClick, Dash!ReportSection, Dash!ReportFails,
       Dash!ReportButton, Dash!OnlyReport
  <2> QED BY <1>5, <2>1
<1>6. CASE UNCHANGED Dash!dashVars
  BY <1>6 DEF Dash!dashVars
<1> QED BY <1>1, <1>2, <1>3, <1>4, <1>5, <1>6 DEF Dash!DashNext

\* Toasts are numbered as they are added, and stand in that order.
ToastOf == [id : 1..MaxToasts, left : 0..Duration]
Rising(list) == \A i, j \in DOMAIN list : i < j => list[i].id < list[j].id
UpTo(list, n) == \A i \in DOMAIN list : list[i].id <= n
ToastsInv ==
  /\ toasts \in [shown : Seq(ToastOf), added : 0..MaxToasts, redraw : BOOLEAN]
  /\ Rising(toasts.shown) /\ UpTo(toasts.shown, toasts.added)

\* Drawn anew, every toast has its whole time, and is where it was.
LEMMA RedrawnInOrder ==
  ASSUME NEW list \in Seq(ToastOf), Rising(list), NEW n, UpTo(list, n)
  PROVE  /\ Dash!Redrawn(list) \in Seq(ToastOf)
         /\ Rising(Dash!Redrawn(list)) /\ UpTo(Dash!Redrawn(list), n)
<1> DEFINE anew == Dash!Redrawn(list)
<1>1. anew = [i \in DOMAIN list |-> [list[i] EXCEPT !.left = Duration]]
  BY DEF Dash!Redrawn
<1>2. DOMAIN list = 1..Len(list) /\ Len(list) \in Nat /\ \A i \in DOMAIN list : list[i] \in ToastOf
  BY SeqElements
<1>3. \A i \in DOMAIN list : [list[i] EXCEPT !.left = Duration] \in ToastOf
                             /\ [list[i] EXCEPT !.left = Duration].id = list[i].id
  BY <1>2, DashBounds DEF ToastOf
<1> HIDE DEF anew
<1>4. /\ DOMAIN anew = DOMAIN list /\ anew = [i \in 1..Len(list) |-> anew[i]]
      /\ \A i \in DOMAIN list : anew[i] \in ToastOf /\ anew[i].id = list[i].id
  BY <1>1, <1>2, <1>3
<1>5. anew \in [1..Len(list) -> ToastOf] /\ Len(list) \in Nat
  BY <1>2, <1>4
<1>6. anew \in Seq(ToastOf)
  BY <1>5, SeqDef
<1>7. DOMAIN anew = DOMAIN list /\ \A i \in DOMAIN list : anew[i].id = list[i].id
  BY <1>4
<1>8. Rising(anew)
  BY <1>7 DEF Rising
<1>9. UpTo(anew, n)
  BY <1>7 DEF UpTo
<1> QED BY <1>6, <1>8, <1>9 DEF anew

\* A toast that goes leaves the others in their order.
LEMMA DroppedInOrder ==
  ASSUME ToastsInv, NEW i
  PROVE  /\ Dash!Dropped(i) \in Seq(ToastOf) /\ Rising(Dash!Dropped(i))
         /\ UpTo(Dash!Dropped(i), toasts.added)
<1> DEFINE S == {t \in Dash!Range(toasts.shown) : t.id # toasts.shown[i].id}
           list == toasts.shown
           k == Kept(list, S)
<1>1. Dash!Dropped(i) = k
  BY OneFilter DEF Dash!Dropped
<1>2. list \in Seq(ToastOf) /\ Rising(list) /\ UpTo(list, toasts.added)
  BY DEF ToastsInv
<1> HIDE DEF S, list
<1>3. /\ k \in Seq(ToastOf)
      /\ \A j \in DOMAIN k : \E m \in DOMAIN list : list[m] = k[j]
      /\ \A j, l \in DOMAIN k : j < l =>
           \E m, o \in DOMAIN list : m < o /\ list[m] = k[j] /\ list[o] = k[l]
  BY <1>2, KeptFacts
<1> HIDE DEF k
<1>4. Rising(k) /\ UpTo(k, toasts.added)
  BY <1>2, <1>3 DEF Rising, UpTo
<1> QED BY <1>1, <1>3, <1>4

\* No toast shows at first; one comes last, goes alone, and none changes its place.
LEMMA StepToasts ==
  /\ Dash!DashInit => ToastsInv
  /\ ToastsInv /\ [Dash!ToastsNext]_toasts => ToastsInv'
<1>1. ASSUME Dash!DashInit PROVE ToastsInv
  <2>1. toasts = [shown |-> << >>, added |-> 0, redraw |-> FALSE]
    BY <1>1 DEF Dash!DashInit
  <2>2. << >> \in Seq(ToastOf)
    OBVIOUS
  <2> QED BY <2>1, <2>2, DashBounds DEF ToastsInv, Rising, UpTo
<1>2. ASSUME ToastsInv, [Dash!ToastsNext]_toasts PROVE ToastsInv'
  <2>1. /\ toasts \in [shown : Seq(ToastOf), added : 0..MaxToasts, redraw : BOOLEAN]
        /\ Rising(toasts.shown) /\ UpTo(toasts.shown, toasts.added)
    BY <1>2 DEF ToastsInv
  <2>4. ASSUME NEW list \in Seq(ToastOf), Rising(list), NEW n \in 0..MaxToasts, UpTo(list, n),
               NEW b \in BOOLEAN, toasts' = [shown |-> list, added |-> n, redraw |-> b]
        PROVE  ToastsInv'
    <3> HIDE DEF ToastOf
    <3>1. toasts'.shown = list /\ toasts'.added = n
      BY <2>4
    <3>2. toasts' \in [shown : Seq(ToastOf), added : 0..MaxToasts, redraw : BOOLEAN]
      BY <2>4
    <3>3. Rising(toasts'.shown) /\ UpTo(toasts'.shown, toasts'.added)
      BY <2>4, <3>1
    <3> QED BY <3>2, <3>3 DEF ToastsInv, Rising, UpTo
  <2>5. CASE Dash!AddToast
    <3> DEFINE new == [id |-> toasts.added + 1, left |-> 0]
               more == Append(toasts.shown, new)
    <3>1. toasts' = [shown |-> Dash!Redrawn(more), added |-> toasts.added + 1, redraw |-> FALSE]
          /\ toasts.added < MaxToasts
      BY <2>5 DEF Dash!AddToast, Dash!OnlyToasts
    <3>2. /\ toasts.shown \in Seq(ToastOf) /\ toasts.added \in Nat
          /\ toasts.added + 1 \in 0..MaxToasts /\ toasts.added + 1 \in 1..MaxToasts
      BY <2>1, <3>1, DashBounds
    <3>3. new \in ToastOf /\ new.id = toasts.added + 1
      BY <3>2, DashBounds DEF ToastOf
    <3> HIDE DEF new
    <3>4. /\ more \in Seq(ToastOf) /\ Len(more) = Len(toasts.shown) + 1
          /\ more[Len(toasts.shown) + 1] = new
          /\ \A j \in 1..Len(toasts.shown) : more[j] = toasts.shown[j]
      BY <3>2, <3>3
    <3> HIDE DEF more
    <3>5. \A j \in DOMAIN more :
            \/ j \in DOMAIN toasts.shown /\ more[j] = toasts.shown[j]
            \/ j = Len(toasts.shown) + 1 /\ more[j].id = toasts.added + 1
      BY <3>2, <3>3, <3>4
    <3>6. \A j \in DOMAIN toasts.shown : toasts.shown[j].id \in Nat /\ toasts.shown[j].id <= toasts.added
      <4>1. \A j \in DOMAIN toasts.shown : toasts.shown[j] \in ToastOf
        BY <3>2, SeqElements
      <4> QED BY <2>1, <4>1 DEF UpTo, ToastOf
    <3>7. UpTo(more, toasts.added + 1)
      BY <3>2, <3>5, <3>6 DEF UpTo
    <3>8. Rising(more)
      <4> SUFFICES ASSUME NEW j \in DOMAIN more, NEW l \in DOMAIN more, j < l
                   PROVE  more[j].id < more[l].id
        BY DEF Rising
      <4>1. j \in DOMAIN toasts.shown /\ more[j] = toasts.shown[j]
        BY <3>2, <3>4, <3>5
      <4>2. CASE l \in DOMAIN toasts.shown /\ more[l] = toasts.shown[l]
        BY <2>1, <4>1, <4>2 DEF Rising
      <4>3. CASE more[l].id = toasts.added + 1
        BY <3>2, <3>6, <4>1, <4>3
      <4> QED BY <3>5, <4>2, <4>3
    <3> QED BY <2>4, <3>1, <3>2, <3>4, <3>7, <3>8, RedrawnInOrder
  <2>6. CASE Dash!DismissToast
    <3>1. PICK i \in DOMAIN toasts.shown :
            toasts' = [toasts EXCEPT !.shown = Dash!Redrawn(Dash!Dropped(i)), !.redraw = FALSE]
      BY <2>6 DEF Dash!DismissToast, Dash!OnlyToasts
    <3>2. toasts' = [shown |-> Dash!Redrawn(Dash!Dropped(i)), added |-> toasts.added, redraw |-> FALSE]
      BY <2>1, <3>1
    <3>3. toasts.added \in 0..MaxToasts
      BY <2>1
    <3> QED BY <1>2, <2>4, <3>2, <3>3, DroppedInOrder, RedrawnInOrder
  <2>7. CASE Dash!ToastEnds
    <3>1. toasts' = [toasts EXCEPT !.shown = Dash!Dropped(1), !.redraw = TRUE]
      BY <2>7 DEF Dash!ToastEnds, Dash!OnlyToasts
    <3>2. toasts' = [shown |-> Dash!Dropped(1), added |-> toasts.added, redraw |-> TRUE]
      BY <2>1, <3>1
    <3>3. toasts.added \in 0..MaxToasts
      BY <2>1
    <3> QED BY <1>2, <2>4, <3>2, <3>3, DroppedInOrder
  <2>8. CASE Dash!DrawToasts
    <3>1. toasts' = [toasts EXCEPT !.shown = Dash!Redrawn(toasts.shown), !.redraw = FALSE]
      BY <2>8 DEF Dash!DrawToasts, Dash!OnlyToasts
    <3>2. toasts' = [shown |-> Dash!Redrawn(toasts.shown), added |-> toasts.added, redraw |-> FALSE]
      BY <2>1, <3>1
    <3>3. toasts.added \in 0..MaxToasts /\ toasts.shown \in Seq(ToastOf)
      BY <2>1
    <3> QED BY <2>1, <2>4, <3>2, <3>3, RedrawnInOrder
  <2>9. CASE Dash!ToastTick
    <3> DEFINE list == toasts.shown
               later == [i \in DOMAIN list |-> [id |-> list[i].id, left |-> list[i].left - 1]]
    <3>1. toasts' = [toasts EXCEPT !.shown = later]
      BY Zenon, <2>9 DEF Dash!ToastTick, Dash!OnlyToasts
    <3>10. \A i \in DOMAIN list : list[i].left > 0
      BY Zenon, <2>9 DEF Dash!ToastTick
    <3>2. /\ list \in Seq(ToastOf) /\ toasts.added \in 0..MaxToasts /\ toasts.redraw \in BOOLEAN
          /\ Rising(list) /\ UpTo(list, toasts.added)
      BY <2>1
    <3>3. toasts' = [shown |-> later, added |-> toasts.added, redraw |-> toasts.redraw]
      BY <2>1, <3>1
    <3> HIDE DEF list
    <3>4. DOMAIN list = 1..Len(list) /\ Len(list) \in Nat /\ \A i \in DOMAIN list : list[i] \in ToastOf
      BY <3>2
    <3>5. \A i \in DOMAIN list : [id |-> list[i].id, left |-> list[i].left - 1] \in ToastOf
      BY <3>4, <3>10, DashBounds DEF ToastOf
    <3>6. DOMAIN later = 1..Len(list) /\ \A i \in DOMAIN list :
            later[i] \in ToastOf /\ later[i].id = list[i].id
      BY <3>4, <3>5
    <3>7. later \in [1..Len(list) -> ToastOf]
      BY <3>4, <3>5
    <3> HIDE DEF later
    <3>8. later \in Seq(ToastOf)
      BY <3>4, <3>7, SeqDef
    <3>9. Rising(later) /\ UpTo(later, toasts.added)
      BY <3>2, <3>4, <3>6 DEF Rising, UpTo
    <3> QED BY <2>4, <3>2, <3>3, <3>8, <3>9
  <2>10. CASE UNCHANGED toasts
    BY <1>2, <2>10 DEF ToastsInv, Rising, UpTo
  <2> QED BY <1>2, <2>5, <2>6, <2>7, <2>8, <2>9, <2>10 DEF Dash!ToastsNext
<1> QED BY <1>1, <1>2

\* So the toasts stay in the order they came.
LEMMA ToastsKeep == ToastsInv => Dash!ToastsStayInOrder
<1> SUFFICES ASSUME ToastsInv, NEW i \in 1 .. Len(toasts.shown) - 1
             PROVE  toasts.shown[i].id < toasts.shown[i + 1].id
  BY DEF Dash!ToastsStayInOrder
<1>1. toasts.shown \in Seq(ToastOf) /\ Rising(toasts.shown)
  BY DEF ToastsInv
<1>2. i \in DOMAIN toasts.shown /\ i + 1 \in DOMAIN toasts.shown /\ i < i + 1
  BY <1>1
<1> QED BY <1>1, <1>2 DEF Rising

\* Once both dates are in the address, it tells the range and the preset shown.
DateOf == Int \cup {None}
SpanOf == [from : DateOf, to : DateOf]
DatesOf ==
  [day : 0..Days, range : SpanOf, preset : Dash!Preset, typed : SpanOf,
   url : [preset : Dash!Preset \cup {None}, from : DateOf, to : DateOf]]
Told(d) ==
  d.url.from # None /\ d.url.to # None =>
    /\ d.url.preset = d.preset /\ d.range = [from |-> d.url.from, to |-> d.url.to]
    /\ d.preset # "custom" => d.range.to - d.range.from = Dash!Back(d.preset)
DatesInv == dates \in DatesOf /\ Told(dates)

\* A range that a preset names ends today and reaches back as far as it says.
LEMMA PresetSpans ==
  ASSUME NEW p \in Dash!Preset, NEW day \in 0..Days
  PROVE  /\ Dash!PresetRange(p, day) \in SpanOf /\ Dash!Back(p) \in Int
         /\ Dash!PresetRange(p, day).to - Dash!PresetRange(p, day).from = Dash!Back(p)
<1>1. Dash!Back(p) \in Int
  BY DEF Dash!Back
<1>2. day \in Int
  BY DashBounds
<1>3. day - Dash!Back(p) \in DateOf /\ day \in DateOf /\ day - (day - Dash!Back(p)) = Dash!Back(p)
  BY <1>1, <1>2 DEF DateOf
<1> QED BY <1>1, <1>3 DEF Dash!PresetRange, SpanOf

\* A page that is opened at an address shows what the address tells.
LEMMA OpenedTells ==
  ASSUME NEW day \in 0..Days,
         NEW url \in [preset : Dash!Preset \cup {None}, from : DateOf, to : DateOf]
  PROVE  /\ Dash!Opened(url, day) \in DatesOf
         /\ (url.from = None \/ url.to = None) => Told(Dash!Opened(url, day))
         /\ url.preset \in Dash!Preset => Dash!Opened(url, day).preset = url.preset
         /\ url.from # None /\ url.to # None =>
              Dash!Opened(url, day).range = [from |-> url.from, to |-> url.to]
<1> DEFINE span == IF url.from # None /\ url.to # None THEN [from |-> url.from, to |-> url.to]
                   ELSE Dash!PresetRange("7d", day)
           p == IF url.preset = None THEN "7d" ELSE url.preset
           d == [day |-> day, range |-> span, url |-> url, preset |-> p, typed |-> span]
<1>1. Dash!Opened(url, day) = d
  BY DEF Dash!Opened, Dash!FromUrl
<1>2. "7d" \in Dash!Preset /\ None \notin Dash!Preset
  BY NothingIsNoDate DEF NothingIsNoDate, Dash!Preset
<1>3. Dash!PresetRange("7d", day) \in SpanOf
  BY <1>2, PresetSpans
<1>4. [from |-> url.from, to |-> url.to] \in SpanOf
  BY DEF SpanOf
<1>5. span \in SpanOf /\ p \in Dash!Preset
  BY <1>2, <1>3, <1>4
<1>6. /\ url.preset \in Dash!Preset => p = url.preset
      /\ url.from # None /\ url.to # None => span = [from |-> url.from, to |-> url.to]
  BY <1>2
<1> HIDE DEF span, p
<1>7. d \in DatesOf /\ d.url = url /\ d.preset = p /\ d.range = span
  BY <1>5 DEF DatesOf
<1> HIDE DEF d
<1>8. (url.from = None \/ url.to = None) => Told(d)
  BY <1>7 DEF Told
<1> QED BY <1>1, <1>6, <1>7, <1>8

\* A range that is applied is in the address as it is shown.
LEMMA AppliedTells ==
  ASSUME DatesInv, NEW p \in Dash!Preset, NEW span \in SpanOf,
         p # "custom" => span.to - span.from = Dash!Back(p), dates' = Dash!Applied(p, span)
  PROVE  DatesInv'
<1> DEFINE url == [preset |-> p, from |-> span.from, to |-> span.to]
<1>1. dates' = [dates EXCEPT !.range = span, !.preset = p, !.url = url]
  BY DEF Dash!Applied
<1>2. dates \in DatesOf
  BY DEF DatesInv
<1>3. span = [from |-> span.from, to |-> span.to]
  BY DEF SpanOf
<1>4. /\ url \in [preset : Dash!Preset \cup {None}, from : DateOf, to : DateOf]
      /\ url.preset = p /\ url.from = span.from /\ url.to = span.to
  BY DEF SpanOf
<1> HIDE DEF url
<1>5. dates' \in DatesOf /\ dates'.url = url /\ dates'.preset = p /\ dates'.range = span
  BY <1>1, <1>2, <1>4 DEF DatesOf
<1>6. Told(dates')
  BY <1>3, <1>4, <1>5 DEF Told
<1> QED BY <1>5, <1>6 DEF DatesInv, Told

\* The page opens as its address tells, and a reload shows what was shown.
LEMMA StepDates ==
  /\ Dash!DashInit => DatesInv
  /\ DatesInv /\ [Dash!DatesNext]_dates => DatesInv'
<1>0. ASSUME NEW d \in DatesOf, Told(d), dates' = d PROVE DatesInv'
  BY <1>0 DEF DatesInv, Told
<1>1. ASSUME Dash!DashInit PROVE DatesInv
  <2>1. PICK url \in {Dash!Plain, [Dash!Plain EXCEPT !.preset = "30d"]} : dates = Dash!Opened(url, 0)
    BY <1>1 DEF Dash!DashInit
  <2>2. url \in [preset : Dash!Preset \cup {None}, from : DateOf, to : DateOf] /\ url.from = None
    BY DEF Dash!Plain, Dash!Preset, DateOf
  <2>3. 0 \in 0..Days
    BY DashBounds
  <2> QED BY <2>1, <2>2, <2>3, OpenedTells DEF DatesInv
<1>2. ASSUME DatesInv, [Dash!DatesNext]_dates PROVE DatesInv'
  <2>1. dates \in DatesOf /\ Told(dates)
    BY <1>2 DEF DatesInv
  <2>2. /\ dates.day \in 0..Days /\ dates.typed \in SpanOf /\ dates.range \in SpanOf
        /\ dates.preset \in Dash!Preset
        /\ dates.url \in [preset : Dash!Preset \cup {None}, from : DateOf, to : DateOf]
    BY <2>1 DEF DatesOf
  <2>3. CASE Dash!ApplyPreset
    <3>1. PICK p \in Dash!Preset : dates' = Dash!Applied(p, Dash!PresetRange(p, dates.day))
      BY <2>3 DEF Dash!ApplyPreset, Dash!OnlyDates
    <3> QED BY <1>2, <2>2, <3>1, PresetSpans, AppliedTells
  <2>4. CASE Dash!TypeDates
    <3>1. PICK f \in {-1, 0, None}, t \in {-1, 0, None} :
            dates' = [dates EXCEPT !.typed = [from |-> f, to |-> t]]
      BY <2>4 DEF Dash!TypeDates, Dash!OnlyDates
    <3>2. [from |-> f, to |-> t] \in SpanOf
      BY DEF SpanOf, DateOf
    <3>3. dates' \in DatesOf /\ dates'.url = dates.url /\ dates'.preset = dates.preset
          /\ dates'.range = dates.range
      BY <2>1, <3>1, <3>2 DEF DatesOf
    <3>4. Told(dates')
      BY <2>1, <3>3 DEF Told
    <3> QED BY <3>3, <3>4 DEF DatesInv, Told
  <2>5. CASE Dash!ApplyTyped
    <3>1. dates' = Dash!Applied("custom", dates.typed) /\ "custom" \in Dash!Preset
      BY <2>5 DEF Dash!ApplyTyped, Dash!OnlyDates, Dash!Preset
    <3> QED BY <1>2, <2>2, <3>1, AppliedTells
  <2>6. CASE Dash!ReloadDates
    <3> DEFINE d == Dash!Opened(dates.url, dates.day)
    <3>1. dates' = d
      BY <2>6 DEF Dash!ReloadDates, Dash!OnlyDates
    <3>2. d \in DatesOf /\ d.url = dates.url
      BY <2>2, OpenedTells DEF Dash!Opened
    <3>3. CASE dates.url.from = None \/ dates.url.to = None
      BY <1>0, <2>2, <3>1, <3>2, <3>3, OpenedTells
    <3>4. CASE dates.url.from # None /\ dates.url.to # None
      <4>1. /\ dates.url.preset = dates.preset
            /\ dates.range = [from |-> dates.url.from, to |-> dates.url.to]
            /\ dates.preset # "custom" => dates.range.to - dates.range.from = Dash!Back(dates.preset)
        BY <2>1, <3>4 DEF Told
      <4>2. d.preset = dates.url.preset /\ d.range = [from |-> dates.url.from, to |-> dates.url.to]
        BY <2>2, <3>4, <4>1, OpenedTells
      <4> HIDE DEF d
      <4>3. d.preset = dates.preset /\ d.range = dates.range
        BY <4>1, <4>2
      <4>4. Told(d)
        BY <2>1, <3>2, <4>3 DEF Told
      <4> QED BY <1>0, <3>1, <3>2, <4>4
    <3> QED BY <3>3, <3>4
  <2>7. CASE Dash!NextDay
    <3>1. dates' = [dates EXCEPT !.day = dates.day + 1] /\ dates.day < Days
      BY <2>7 DEF Dash!NextDay, Dash!OnlyDates
    <3>2. dates.day + 1 \in 0..Days
      BY <2>2, <3>1, DashBounds
    <3>3. dates' \in DatesOf /\ dates'.url = dates.url /\ dates'.preset = dates.preset
          /\ dates'.range = dates.range
      BY <2>1, <3>1, <3>2 DEF DatesOf
    <3>4. Told(dates')
      BY <2>1, <3>3 DEF Told
    <3> QED BY <3>3, <3>4 DEF DatesInv, Told
  <2>8. CASE UNCHANGED dates
    BY <1>2, <2>8 DEF DatesInv, Told
  <2> QED BY <1>2, <2>3, <2>4, <2>5, <2>6, <2>7, <2>8 DEF Dash!DatesNext
<1> QED BY <1>1, <1>2

\* So a reload brings back the range, and a preset tells its length.
LEMMA DatesKeep == DatesInv => Dash!ReloadKeepsTheRange
<1> SUFFICES ASSUME DatesInv, dates.url.from # None, dates.url.to # None
             PROVE  /\ Dash!FromUrl(dates.url, dates.day) = [range |-> dates.range, preset |-> dates.preset]
                    /\ dates.preset # "custom" => dates.range.to - dates.range.from = Dash!Back(dates.preset)
  BY DEF Dash!ReloadKeepsTheRange
<1>1. /\ dates.url.preset = dates.preset
      /\ dates.range = [from |-> dates.url.from, to |-> dates.url.to]
      /\ dates.preset # "custom" => dates.range.to - dates.range.from = Dash!Back(dates.preset)
  BY DEF DatesInv, Told
<1>2. dates.preset \in Dash!Preset /\ None \notin Dash!Preset
  BY NothingIsNoDate DEF DatesInv, DatesOf, NothingIsNoDate, Dash!Preset
<1> QED BY <1>1, <1>2 DEF Dash!FromUrl

\* The report is at a section of those it was asked for.
ReportDone ==
  /\ report = [progress |-> report.progress, of |-> report.of, done |-> report.done,
               error |-> report.error, file |-> report.file]
  /\ report.error \in BOOLEAN /\ report.of \in Nat /\ report.done \in 0..report.of

\* No report is made at first; each step of one draws a section of it.
LEMMA StepReportDone ==
  /\ Dash!DashInit => ReportDone
  /\ ReportDone /\ [Dash!ReportNext]_report => ReportDone'
<1>0. ASSUME NEW p, NEW o \in Nat, NEW d \in 0..o, NEW e \in BOOLEAN, NEW f,
             report' = [progress |-> p, of |-> o, done |-> d, error |-> e, file |-> f]
      PROVE  ReportDone'
  BY <1>0 DEF ReportDone
<1>1. ASSUME Dash!DashInit PROVE ReportDone
  BY <1>1 DEF Dash!DashInit, ReportDone
<1>2. ASSUME ReportDone, [Dash!ReportNext]_report PROVE ReportDone'
  <2>1. /\ report = [progress |-> report.progress, of |-> report.of, done |-> report.done,
                     error |-> report.error, file |-> report.file]
        /\ report.error \in BOOLEAN /\ report.of \in Nat /\ report.done \in 0..report.of
    BY <1>2 DEF ReportDone
  <2>2. ASSUME NEW p, NEW o, NEW d, NEW e
        PROVE  [report EXCEPT !.error = e, !.progress = p, !.of = o, !.done = d] =
                 [progress |-> p, of |-> o, done |-> d, error |-> e, file |-> report.file]
    <3> DEFINE r1 == [report EXCEPT !.error = e]
               r2 == [r1 EXCEPT !.progress = p]
               r3 == [r2 EXCEPT !.of = o]
               r4 == [r3 EXCEPT !.done = d]
    <3>1. [report EXCEPT !.error = e, !.progress = p, !.of = o, !.done = d] = r4
      OBVIOUS
    <3>2. r1 = [progress |-> report.progress, of |-> report.of, done |-> report.done, error |-> e,
                file |-> report.file]
      BY <2>1
    <3> HIDE DEF r1
    <3>3. r2 = [progress |-> p, of |-> report.of, done |-> report.done, error |-> e,
                file |-> report.file]
      BY <3>2
    <3> HIDE DEF r2
    <3>4. r3 = [progress |-> p, of |-> o, done |-> report.done, error |-> e, file |-> report.file]
      BY <3>3
    <3> HIDE DEF r3
    <3>5. r4 = [progress |-> p, of |-> o, done |-> d, error |-> e, file |-> report.file]
      BY <3>4
    <3> QED BY <3>1, <3>5
  <2>3. CASE Dash!ReportClick
    <3>1. PICK n \in Sections : report' =
            IF n = 0 THEN [report EXCEPT !.error = TRUE]
            ELSE [report EXCEPT !.error = FALSE, !.progress = 0, !.of = n, !.done = 0]
      BY <2>3 DEF Dash!ReportClick, Dash!OnlyReport
    <3>2. n \in Nat
      BY BoundsAreNumbers DEF BoundsAreNumbers
    <3>3. CASE n = 0
      <4>1. report' = [progress |-> report.progress, of |-> report.of, done |-> report.done,
                       error |-> TRUE, file |-> report.file]
        BY <2>1, <3>1, <3>3
      <4> QED BY <1>0, <2>1, <4>1
    <3>4. CASE n # 0
      <4>1. report' = [progress |-> 0, of |-> n, done |-> 0, error |-> FALSE, file |-> report.file]
        BY <2>2, <3>1, <3>4
      <4>2. 0 \in 0..n
        BY <3>2
      <4> QED BY <1>0, <3>2, <4>1, <4>2
    <3> QED BY <3>3, <3>4
  <2>4. CASE Dash!ReportSection
    <3> DEFINE k == report.done + 1
               p == Dash!Percent(k, report.of)
               f == IF k = report.of THEN k ELSE report.file
    <3>1. report' = [report EXCEPT !.done = k, !.progress = p, !.file = f] /\ report.done < report.of
      BY <2>4 DEF Dash!ReportSection, Dash!OnlyReport, Dash!Drawing
    <3>2. k \in 0..report.of
      BY <2>1, <3>1
    <3> HIDE DEF k, p, f
    <3>3. report' = [progress |-> p, of |-> report.of, done |-> k, error |-> report.error, file |-> f]
      BY <2>1, <3>1
    <3> QED BY <1>0, <2>1, <3>2, <3>3
  <2>5. CASE Dash!ReportFails \/ Dash!ReportButton
    <3>1. PICK e \in {TRUE, report.error} : report' = [report EXCEPT !.progress = None, !.error = e]
      BY <2>1, <2>5 DEF Dash!ReportFails, Dash!ReportButton, Dash!OnlyReport
    <3>2. report' = [progress |-> None, of |-> report.of, done |-> report.done, error |-> e,
                     file |-> report.file]
      BY <2>1, <3>1
    <3>3. e \in BOOLEAN
      BY <2>1
    <3> QED BY <1>0, <2>1, <3>2, <3>3
  <2>6. CASE UNCHANGED report
    BY <1>2, <2>6 DEF ReportDone
  <2> QED BY <1>2, <2>3, <2>4, <2>5, <2>6 DEF Dash!ReportNext
<1> QED BY <1>1, <1>2

\* What the panels hold, and the preview they come to.
CardSet == [size : {Height[p] : p \in Platform}, text : CardField]
SharingOf ==
  [platform : Platform, text : CardField, busy : BOOLEAN,
   making : {None} \cup [name : Platform, card : CardSet], timers : Seq(CardSet),
   canvas : {None} \cup CardSet, files : Seq({None} \cup [name : Platform, card : CardSet]),
   clicks : 0..MaxClicks]
Previews(s) ==
  IF s.timers = << >> THEN s.canvas = Embedded!Card(s.platform, s.text)
  ELSE s.timers[Len(s.timers)] = Embedded!Card(s.platform, s.text)
PanelsInv ==
  /\ sharing \in SharingOf /\ Previews(sharing)
  /\ chat \in [typed : Message, messages : Seq(Message)]
  /\ drawer = [anomalies |-> drawer.anomalies, open |-> drawer.open] /\ drawer.open \in BOOLEAN
  /\ ranking \in {Endpoint[i] : i \in DOMAIN Endpoint} \cup {None}

\* A card is one of those there may be.
LEMMA CardsAreCards ==
  ASSUME NEW p \in Platform, NEW text \in CardField
  PROVE  Embedded!Card(p, text) \in CardSet
BY DEF Embedded!Card, CardSet

\* Whatever was clicked, the last timer draws the card as it is then.
LEMMA RenderedPreviews ==
  ASSUME NEW s \in SharingOf
  PROVE  Embedded!Rendered(s) \in SharingOf /\ Previews(Embedded!Rendered(s))
<1> DEFINE c == Embedded!Card(s.platform, s.text)
           more == Append(s.timers, c)
           r == [s EXCEPT !.timers = more]
<1>1. Embedded!Rendered(s) = r
  BY DEF Embedded!Rendered
<1>2. s.platform \in Platform /\ s.text \in CardField /\ s.timers \in Seq(CardSet)
  BY DEF SharingOf
<1>3. c \in CardSet
  BY <1>2, CardsAreCards
<1> HIDE DEF c
<1>4. more \in Seq(CardSet) /\ more # << >> /\ more[Len(more)] = c
  BY <1>2, <1>3
<1> HIDE DEF more
<1>5. r \in SharingOf /\ r.timers = more /\ r.platform = s.platform /\ r.text = s.text
  BY <1>4 DEF SharingOf
<1> HIDE DEF r
<1>6. Previews(r)
  BY <1>4, <1>5 DEF Previews, c
<1> QED BY <1>1, <1>5, <1>6

\* The panels open empty, and draw the preview they open with.
LEMMA InitPanels == Embedded!PanelsInit => PanelsInv
<1> SUFFICES ASSUME Embedded!PanelsInit PROVE PanelsInv
  OBVIOUS
<1>1. PICK p \in Platform : sharing = [platform |-> p, text |-> Blank, busy |-> FALSE, making |-> None,
        timers |-> <<Embedded!Card(p, Blank)>>, canvas |-> None, files |-> << >>, clicks |-> 0]
  BY Zenon DEF Embedded!PanelsInit, Blank
<1>2. chat = [typed |-> Blank, messages |-> << >>]
  BY Zenon DEF Embedded!PanelsInit, Blank
<1>3. Blank \in CardField /\ Blank \in Message
  BY Zenon, EmptyIsTyped DEF EmptyIsTyped, Blank
<1> HIDE DEF Blank
<1>4. PICK a : drawer = [anomalies |-> a, open |-> FALSE]
  BY Zenon DEF Embedded!PanelsInit
<1>5. ranking = None
  BY Zenon DEF Embedded!PanelsInit
<1>6. MaxClicks \in Nat
  BY BoundsAreNumbers DEF BoundsAreNumbers
<1> DEFINE c == Embedded!Card(p, Blank)
<1>7. c \in CardSet
  BY <1>3, CardsAreCards
<1>8. sharing = [platform |-> p, text |-> Blank, busy |-> FALSE, making |-> None,
        timers |-> <<c>>, canvas |-> None, files |-> << >>, clicks |-> 0]
  BY <1>1
<1> HIDE DEF c
<1>9. <<c>> \in Seq(CardSet) /\ <<c>> # << >> /\ <<c>>[Len(<<c>>)] = c
  BY <1>7
<1>10. sharing \in SharingOf
  BY <1>3, <1>6, <1>8, <1>9 DEF SharingOf
<1>11. Previews(sharing)
  <2>1. sharing.timers = <<c>> /\ sharing.platform = p /\ sharing.text = Blank
    BY <1>8
  <2> QED BY <1>9, <2>1 DEF Previews, c
<1>12. chat \in [typed : Message, messages : Seq(Message)]
  BY <1>2, <1>3
<1> QED BY <1>4, <1>5, <1>10, <1>11, <1>12 DEF PanelsInv

\* Each rendering sets a timer of its own, and they draw in the order they were set.
LEMMA StepSharing ==
  ASSUME sharing \in SharingOf, Previews(sharing), Embedded!SharingNext
  PROVE  sharing' \in SharingOf /\ Previews(sharing)'
<1>1. ASSUME NEW s \in SharingOf, sharing' = Embedded!Rendered(s)
      PROVE  sharing' \in SharingOf /\ Previews(sharing)'
  <2>1. sharing' \in SharingOf /\ Previews(sharing')
    BY <1>1, RenderedPreviews
  <2> QED BY <2>1 DEF Previews
<1>2. /\ sharing.platform \in Platform /\ sharing.text \in CardField /\ sharing.clicks \in 0..MaxClicks
      /\ sharing.making \in {None} \cup [name : Platform, card : CardSet]
      /\ sharing.timers \in Seq(CardSet)
      /\ sharing.files \in Seq({None} \cup [name : Platform, card : CardSet])
      /\ MaxClicks \in Nat
  BY BoundsAreNumbers DEF SharingOf, BoundsAreNumbers
<1>3. sharing.clicks < MaxClicks => sharing.clicks + 1 \in 0..MaxClicks
  BY <1>2
<1>4. ASSUME NEW p \in Platform, Embedded!ChoosePlatform(p)
      PROVE  sharing' \in SharingOf /\ Previews(sharing)'
  <2> DEFINE s == [sharing EXCEPT !.platform = p, !.clicks = sharing.clicks + 1]
  <2>1. sharing' = Embedded!Rendered(s) /\ sharing.clicks < MaxClicks
    BY <1>4 DEF Embedded!ChoosePlatform, Embedded!OnlySharing
  <2>2. s \in SharingOf
    BY <1>3, <2>1 DEF SharingOf
  <2> QED BY <1>1, <2>1, <2>2
<1>5. ASSUME NEW text \in CardField, Embedded!EditField(text)
      PROVE  sharing' \in SharingOf /\ Previews(sharing)'
  <2> DEFINE s == [sharing EXCEPT !.text = text, !.clicks = sharing.clicks + 1]
  <2>1. sharing' = Embedded!Rendered(s) /\ sharing.clicks < MaxClicks
    BY <1>5 DEF Embedded!EditField, Embedded!OnlySharing
  <2>2. s \in SharingOf
    BY <1>3, <2>1 DEF SharingOf
  <2> QED BY <1>1, <2>1, <2>2
<1>6. CASE Embedded!DrawPreview
  <2> DEFINE c == Head(sharing.timers)
             rest == Tail(sharing.timers)
             s == [sharing EXCEPT !.canvas = c, !.timers = rest]
  <2>1. sharing' = s /\ sharing.timers # << >>
    BY <1>6 DEF Embedded!DrawPreview, Embedded!OnlySharing
  <2>2. /\ c \in CardSet /\ rest \in Seq(CardSet)
        /\ rest = << >> => c = sharing.timers[Len(sharing.timers)]
        /\ rest # << >> => rest[Len(rest)] = sharing.timers[Len(sharing.timers)]
    <3> DEFINE t == sharing.timers
    <3>1. t \in Seq(CardSet) /\ t # << >>
      BY <1>2, <2>1
    <3> HIDE DEF t
    <3>2. Len(t) \in Nat /\ Len(t) > 0 /\ t[1] \in CardSet /\ t[1] = Head(t)
      BY <3>1
    <3>3. /\ Tail(t) \in Seq(CardSet) /\ Len(Tail(t)) = Len(t) - 1
          /\ \A i \in 1..(Len(t) - 1) : Tail(t)[i] = t[i + 1]
      BY <3>1
    <3>4. Tail(t) = << >> => Len(t) = 1
      <4>1. Len(<< >>) = 0
        OBVIOUS
      <4>2. Tail(t) = << >> => Len(Tail(t)) = Len(<< >>)
        OBVIOUS
      <4> QED BY <3>2, <3>3, <4>1, <4>2
    <3>5. Tail(t) # << >> => Tail(t)[Len(Tail(t))] = t[Len(t)]
      <4>1. Tail(t) # << >> => Len(t) - 1 \in 1..(Len(t) - 1)
        BY <3>2, <3>3
      <4>2. Tail(t) # << >> => Tail(t)[Len(t) - 1] = t[Len(t) - 1 + 1]
        BY <3>3, <4>1
      <4> QED BY <3>2, <3>3, <4>2
    <3> QED BY <3>2, <3>3, <3>4, <3>5 DEF t
  <2> HIDE DEF c, rest
  <2>3. /\ s \in SharingOf /\ s.timers = rest /\ s.canvas = c
        /\ s.platform = sharing.platform /\ s.text = sharing.text
    BY <2>2 DEF SharingOf
  <2> HIDE DEF s
  <2>4. Previews(s)
    BY <2>1, <2>2, <2>3 DEF Previews
  <2> QED BY <2>1, <2>3, <2>4 DEF Previews
<1>7. CASE Embedded!Download
  <2> DEFINE m == [name |-> sharing.platform, card |-> Embedded!Card(sharing.platform, sharing.text)]
             s == [sharing EXCEPT !.busy = TRUE, !.clicks = sharing.clicks + 1, !.making = m]
  <2>1. sharing' = Embedded!Rendered(s) /\ sharing.clicks < MaxClicks
    BY <1>7 DEF Embedded!Download, Embedded!OnlySharing
  <2>2. m \in [name : Platform, card : CardSet]
    BY <1>2, CardsAreCards
  <2> HIDE DEF m
  <2>3. s \in SharingOf
    BY <1>3, <2>1, <2>2 DEF SharingOf
  <2> QED BY <1>1, <2>1, <2>3
<1>8. CASE Embedded!BlobReady
  <2> DEFINE more == Append(sharing.files, sharing.making)
             s == [sharing EXCEPT !.files = more, !.making = None, !.busy = FALSE]
  <2>1. sharing' = Embedded!Rendered(s)
    BY <1>8 DEF Embedded!BlobReady, Embedded!OnlySharing
  <2>2. more \in Seq({None} \cup [name : Platform, card : CardSet])
    BY <1>2
  <2> HIDE DEF more
  <2>3. s \in SharingOf
    BY <2>2 DEF SharingOf
  <2> QED BY <1>1, <2>1, <2>3
<1>9. CASE Embedded!BlobFails
  <2> DEFINE s == [sharing EXCEPT !.making = None, !.busy = FALSE]
  <2>1. sharing' = Embedded!Rendered(s)
    BY <1>9 DEF Embedded!BlobFails, Embedded!OnlySharing
  <2>2. s \in SharingOf
    BY DEF SharingOf
  <2> QED BY <1>1, <2>1, <2>2
<1> QED BY <1>4, <1>5, <1>6, <1>7, <1>8, <1>9 DEF Embedded!SharingNext

\* Every step of a panel keeps what the panels hold.
LEMMA StepPanels == PanelsInv /\ [PanelsNext]_(Embedded!panelVars) => PanelsInv'
<1> SUFFICES ASSUME PanelsInv, [PanelsNext]_(Embedded!panelVars) PROVE PanelsInv'
  OBVIOUS
<1>0. /\ sharing \in SharingOf /\ Previews(sharing)
      /\ chat \in [typed : Message, messages : Seq(Message)]
      /\ drawer = [anomalies |-> drawer.anomalies, open |-> drawer.open] /\ drawer.open \in BOOLEAN
      /\ ranking \in {Endpoint[i] : i \in DOMAIN Endpoint} \cup {None}
  BY DEF PanelsInv
<1> USE DEF Previews
<1>1. CASE Embedded!SharingNext
  <2>1. UNCHANGED <<chat, drawer, ranking>>
    BY Zenon, <1>1 DEF Embedded!SharingNext, Embedded!ChoosePlatform, Embedded!EditField,
       Embedded!DrawPreview, Embedded!Download, Embedded!BlobReady, Embedded!BlobFails,
       Embedded!OnlySharing
  <2>2. sharing' \in SharingOf /\ Previews(sharing)'
    BY <1>0, <1>1, StepSharing
  <2> QED BY <1>0, <2>1, <2>2 DEF PanelsInv
<1>2. ASSUME NEW text \in Message, Embedded!TypeMessage(text) PROVE PanelsInv'
  <2>1. chat' = [chat EXCEPT !.typed = text] /\ UNCHANGED <<sharing, drawer, ranking>>
    BY <1>2 DEF Embedded!TypeMessage, Embedded!OnlyChat
  <2>2. chat' \in [typed : Message, messages : Seq(Message)]
    BY <1>0, <2>1
  <2> QED BY <1>0, <2>1, <2>2 DEF PanelsInv
<1>3. CASE Embedded!Send
  <2> DEFINE more == <<chat.typed>> \o chat.messages
  <2>1. chat' = [typed |-> Blank, messages |-> more] /\ UNCHANGED <<sharing, drawer, ranking>>
    BY Zenon, <1>3 DEF Embedded!Send, Embedded!OnlyChat, Blank
  <2>2. Blank \in Message
    BY Zenon, EmptyIsTyped DEF EmptyIsTyped, Blank
  <2> HIDE DEF Blank
  <2>3. chat.typed \in Message /\ chat.messages \in Seq(Message)
    BY <1>0
  <2>4. more \in Seq(Message)
    BY <2>3
  <2> HIDE DEF more
  <2>5. chat' \in [typed : Message, messages : Seq(Message)]
    BY <2>1, <2>2, <2>4
  <2> QED BY <1>0, <2>1, <2>5 DEF PanelsInv
<1>4. ASSUME NEW open \in BOOLEAN, Embedded!OnlyDrawer(open) PROVE PanelsInv'
  <2>1. drawer' = [drawer EXCEPT !.open = open] /\ UNCHANGED <<sharing, chat, ranking>>
    BY <1>4 DEF Embedded!OnlyDrawer
  <2>2. drawer' = [anomalies |-> drawer.anomalies, open |-> open]
    BY <1>0, <2>1
  <2>3. drawer' = [anomalies |-> drawer'.anomalies, open |-> drawer'.open] /\ drawer'.open \in BOOLEAN
    BY <2>2
  <2> QED BY <1>0, <2>1, <2>3 DEF PanelsInv
<1>5. CASE Embedded!DrawerNext
  BY <1>4, <1>5 DEF Embedded!DrawerNext, Embedded!OpenDrawer, Embedded!CloseDrawer
<1>6. CASE Embedded!RankingNext
  <2>1. ranking' \in {Endpoint[i] : i \in DOMAIN Endpoint} \cup {None}
        /\ UNCHANGED <<sharing, chat, drawer>>
    BY <1>6 DEF Embedded!RankingNext, Embedded!ClickBar, Embedded!CloseDetail, Embedded!OnlyRanking
  <2> QED BY <1>0, <2>1 DEF PanelsInv
<1>7. CASE UNCHANGED Embedded!panelVars
  BY <1>0, <1>7 DEF PanelsInv, Embedded!panelVars
<1> QED BY <1>1, <1>2, <1>3, <1>5, <1>6, <1>7 DEF PanelsNext, Embedded!ChatNext

\* So the preview comes to show the card chosen, and the panels have their types.
LEMMA PanelsKeep == PanelsInv => Embedded!PreviewIsCurrent /\ Embedded!PanelsTypeOK
<1> SUFFICES ASSUME PanelsInv PROVE Embedded!PreviewIsCurrent /\ Embedded!PanelsTypeOK
  OBVIOUS
<1>1. Embedded!PreviewIsCurrent
  BY DEF PanelsInv, Previews, Embedded!PreviewIsCurrent
<1>2. /\ sharing.platform \in Platform /\ sharing.text \in CardField /\ sharing.busy \in BOOLEAN
      /\ sharing.clicks \in 0..MaxClicks
  BY DEF PanelsInv, SharingOf
<1>3. chat.typed \in Message /\ Embedded!Range(chat.messages) \subseteq Message
  BY DEF PanelsInv, Embedded!Range
<1>4. drawer.open \in BOOLEAN /\ ranking \in Embedded!Range(Endpoint) \cup {None}
  BY DEF PanelsInv, Embedded!Range
<1> QED BY <1>1, <1>2, <1>3, <1>4 DEF Embedded!PanelsTypeOK
-----------------------------------------------------------------------------
(* Shown as chosen: the notes of the panel *)

\* Notes, of which n were made.
NotesIn(list, n) ==
  /\ IsList(list)
  /\ \A i \in DOMAIN list : /\ IsNote(list[i]) /\ list[i].id \in 1..n
                            /\ list[i].text \in PanelText /\ list[i].text # Blank

\* More may have been made.
LEMMA NotesInMore ==
  ASSUME NEW list, NEW n \in Nat, NotesIn(list, n) PROVE NotesIn(list, n + 1)
<1>1. \A k \in 1..n : k \in 1..(n + 1)
  OBVIOUS
<1> QED BY <1>1 DEF NotesIn

\* The note made last comes last.
LEMMA NoteAppended ==
  ASSUME NEW list, NEW n \in Nat, NotesIn(list, n),
         NEW text \in PanelText, text # Blank, NEW e, e = [id |-> n + 1, text |-> text]
  PROVE  /\ NotesIn(Append(list, e), n + 1) /\ IdsIn(Append(list, e)) = IdsIn(list) \cup {n + 1}
         /\ Rising(list) => Rising(Append(list, e))
<1> DEFINE more == Append(list, e)
<1>1. /\ IsList(list)
      /\ \A i \in DOMAIN list : /\ IsNote(list[i]) /\ list[i].id \in 1..n
                                /\ list[i].text \in PanelText /\ list[i].text # Blank
  BY DEF NotesIn
<1>2. /\ IsList(more) /\ Len(list) \in Nat /\ DOMAIN list = 1..Len(list)
      /\ DOMAIN more = 1..(Len(list) + 1) /\ more[Len(list) + 1] = e
      /\ \A i \in 1..Len(list) : more[i] = list[i]
  BY <1>1, AppendedList DEF IsList
<1> HIDE DEF more
<1>3. IsNote(e) /\ e.id = n + 1 /\ e.text = text
  BY DEF IsNote
<1>4. \A i \in DOMAIN more : \/ i \in DOMAIN list /\ more[i] = list[i]
                             \/ i = Len(list) + 1 /\ more[i] = e
  <2>1. \A i \in DOMAIN more : i \in 1..Len(list) \/ i = Len(list) + 1
    BY <1>2
  <2> QED BY <1>2, <2>1
<1>5. n + 1 \in 1..(n + 1) /\ 1..n \subseteq 1..(n + 1)
  OBVIOUS
<1>6. NotesIn(more, n + 1)
  BY <1>1, <1>2, <1>3, <1>4, <1>5 DEF NotesIn
<1>7. IdsIn(more) = IdsIn(list) \cup {n + 1}
  <2>1. \A i \in DOMAIN list : i \in DOMAIN more /\ more[i] = list[i]
    BY <1>2
  <2>2. Len(list) + 1 \in DOMAIN more
    BY <1>2
  <2> QED BY <1>2, <1>3, <1>4, <2>1, <2>2 DEF IdsIn
<1>8. ASSUME Rising(list) PROVE Rising(more)
  <2> SUFFICES ASSUME NEW i \in DOMAIN more, NEW j \in DOMAIN more, i < j
               PROVE  more[i].id < more[j].id
    BY DEF Rising
  <2>1. i \in DOMAIN list /\ more[i] = list[i]
    BY <1>2, <1>4
  <2>2. CASE j \in DOMAIN list /\ more[j] = list[j]
    BY <1>8, <2>1, <2>2 DEF Rising
  <2>3. CASE more[j] = e
    BY <1>1, <1>3, <2>1, <2>3
  <2> QED BY <1>4, <2>2, <2>3
<1> QED BY <1>6, <1>7, <1>8 DEF more

\* A note that goes leaves the others in their order.
LEMMA NoteDropped ==
  ASSUME NEW list, NEW n \in Nat, NotesIn(list, n), NEW id
  PROVE  /\ NotesIn(Embedded!Without(list, id), n)
         /\ IdsIn(Embedded!Without(list, id)) = IdsIn(list) \ {id}
         /\ Rising(list) => Rising(Embedded!Without(list, id))
<1> DEFINE A == {list[i] : i \in 1..Len(list)}
           k == Removed(list, id)
<1>1. /\ IsList(list)
      /\ \A i \in DOMAIN list : /\ IsNote(list[i]) /\ list[i].id \in 1..n
                                /\ list[i].text \in PanelText /\ list[i].text # Blank
  BY DEF NotesIn
<1>2. list \in Seq(A)
  BY <1>1, ListIsSeq
<1> HIDE DEF A
<1>3. Embedded!Without(list, id) = k
  BY OneFilter DEF Embedded!Without, Removed, Embedded!Range, Range
<1>4. /\ k \in Seq(A) /\ IdsIn(k) = IdsIn(list) \ {id}
      /\ \A i \in DOMAIN k : \E j \in DOMAIN list : list[j] = k[i]
  BY <1>2, RemovedIds
<1>5. \A i, l \in DOMAIN k : i < l =>
        \E j, m \in DOMAIN list : j < m /\ list[j] = k[i] /\ list[m] = k[l]
  <2> DEFINE S == {b \in Range(list) : b.id # id}
  <2>1. k = Kept(list, S)
    BY DEF Removed
  <2> HIDE DEF S, k
  <2>2. \A i, l \in DOMAIN Kept(list, S) : i < l =>
          \E j, m \in DOMAIN list : j < m /\ list[j] = Kept(list, S)[i] /\ list[m] = Kept(list, S)[l]
    BY <1>2, KeptFacts
  <2> QED BY <2>1, <2>2
<1> HIDE DEF k
<1>6. IsList(k)
  BY <1>4 DEF IsList
<1>7. NotesIn(k, n)
  BY <1>1, <1>4, <1>6 DEF NotesIn
<1>8. Rising(list) => Rising(k)
  BY <1>5 DEF Rising
<1> QED BY <1>3, <1>4, <1>7, <1>8

\* A note that is worded anew is the note it was.
LEMMA NoteWorded ==
  ASSUME NEW list, NEW n \in Nat, NotesIn(list, n), NEW id, NEW text \in PanelText, text # Blank
  PROVE  /\ NotesIn(Embedded!Worded(list, id, text), n)
         /\ IdsIn(Embedded!Worded(list, id, text)) = IdsIn(list)
         /\ Rising(list) => Rising(Embedded!Worded(list, id, text))
<1> DEFINE w == Embedded!Worded(list, id, text)
<1>1. /\ IsList(list)
      /\ \A i \in DOMAIN list : /\ IsNote(list[i]) /\ list[i].id \in 1..n
                                /\ list[i].text \in PanelText /\ list[i].text # Blank
  BY DEF NotesIn
<1>2. w = [i \in DOMAIN list |->
             IF list[i].id = id THEN [list[i] EXCEPT !.text = text] ELSE list[i]]
  BY DEF Embedded!Worded
<1> HIDE DEF w
<1>3. DOMAIN w = DOMAIN list /\ \A i \in DOMAIN list :
        w[i] = IF list[i].id = id THEN [list[i] EXCEPT !.text = text] ELSE list[i]
  BY <1>2
<1>4. ASSUME NEW e, IsNote(e)
      PROVE  /\ IsNote([e EXCEPT !.text = text]) /\ [e EXCEPT !.text = text].id = e.id
             /\ [e EXCEPT !.text = text].text = text
  BY <1>4 DEF IsNote
<1>5. \A i \in DOMAIN list : /\ IsNote(w[i]) /\ w[i].id = list[i].id
                             /\ w[i].text \in PanelText /\ w[i].text # Blank
  BY <1>1, <1>3, <1>4
<1>6. IsList(w)
  <2>1. DOMAIN list = 1..Len(list) /\ Len(list) \in Nat
    BY <1>1 DEF IsList
  <2>2. Len(w) = Len(list)
    BY <1>3, <2>1
  <2> QED BY <1>2, <2>1, <2>2 DEF IsList
<1>7. NotesIn(w, n)
  BY <1>1, <1>3, <1>5, <1>6 DEF NotesIn
<1>8. IdsIn(w) = IdsIn(list)
  BY <1>3, <1>5 DEF IdsIn
<1>9. Rising(list) => Rising(w)
  BY <1>3, <1>5 DEF Rising
<1> QED BY <1>7, <1>8, <1>9 DEF w

\* What the panel lists and what is stored differ by what another tab did.
Differ(list, remaining, from) ==
  /\ \A id \in IdsIn(remaining) \ IdsIn(list) : from[id] = "there"
  /\ \A id \in IdsIn(list) \ IdsIn(remaining) : from[id] = "taken"
ShownNotesInv ==
  /\ panel = [list |-> panel.list, editing |-> panel.editing, text |-> panel.text]
  /\ panel.text = Blank \/ panel.text \in PanelText
  /\ IsList(origin) /\ NotesIn(stored, Len(origin)) /\ NotesIn(panel.list, Len(origin))
  /\ Rising(stored) /\ Differ(panel.list, stored, origin)

\* The panel opens without notes.
LEMMA InitShownNotes == Embedded!PanelInit => ShownNotesInv
<1> SUFFICES ASSUME Embedded!PanelInit PROVE ShownNotesInv
  OBVIOUS
<1>1. panel = [list |-> << >>, editing |-> 0, text |-> Blank] /\ stored = << >> /\ origin = << >>
  BY Zenon DEF Embedded!PanelInit, Blank
<1>2. IsList(<< >>) /\ DOMAIN << >> = {}
  BY DEF IsList
<1>3. NotesIn(<< >>, Len(origin)) /\ Rising(<< >>) /\ IdsIn(<< >>) = {}
  BY <1>2 DEF NotesIn, Rising, IdsIn
<1> QED BY <1>1, <1>2, <1>3 DEF ShownNotesInv, Differ

\* A note is added here or there, and goes by a hand here or there.
LEMMA StepShownNotes == ShownNotesInv /\ [EmbeddedNext]_(Embedded!builderVars) => ShownNotesInv'
<1> SUFFICES ASSUME ShownNotesInv, [EmbeddedNext]_(Embedded!builderVars) PROVE ShownNotesInv'
  OBVIOUS
<1> DEFINE n == Len(origin)
<1>1. /\ panel = [list |-> panel.list, editing |-> panel.editing, text |-> panel.text]
      /\ panel.text = Blank \/ panel.text \in PanelText
      /\ IsList(origin) /\ n \in Nat /\ DOMAIN origin = 1..n
      /\ NotesIn(stored, n) /\ NotesIn(panel.list, n)
      /\ Rising(stored) /\ Differ(panel.list, stored, origin)
  BY DEF ShownNotesInv, IsList
<1>2. \A id \in IdsIn(stored) \cup IdsIn(panel.list) : id \in 1..n
  BY <1>1 DEF NotesIn, IdsIn
<1>3. CASE UNCHANGED <<panel, stored, origin>>
  BY <1>1, <1>3 DEF ShownNotesInv
<1>4. CASE Embedded!SegmentNext \/ Embedded!QueryNext \/ UNCHANGED Embedded!builderVars
  <2>1. UNCHANGED <<panel, stored, origin>>
    BY <1>4, Zenon DEF Embedded!SegmentNext, Embedded!NewRow, Embedded!DropRow, Embedded!ChooseField,
       Embedded!ChooseValue, Embedded!ChooseOp, Embedded!ChooseLogic, Embedded!HandleSave,
       Embedded!WithCondition, Embedded!Change, Embedded!OnlySegment, Embedded!panelState,
       Embedded!QueryNext, Embedded!ToggleColumn, Embedded!AddFilter, Embedded!UpdateFilter,
       Embedded!RemoveFilter, Embedded!NameQuery, Embedded!SaveQuery, Embedded!LoadQuery,
       Embedded!Remount, Embedded!OnlyBuilder, Embedded!builderVars
  <2> QED BY <1>3, <2>1, SMTT(20)
<1>5. ASSUME NEW text, text = Blank \/ text \in PanelText, NEW editing,
             panel' = [list |-> panel.list, editing |-> editing, text |-> text],
             stored' = stored, origin' = origin
      PROVE  ShownNotesInv'
  <2>1. panel'.list = panel.list /\ panel'.text = text /\ panel'.editing = editing
    BY <1>5
  <2> QED BY <1>1, <1>5, <2>1 DEF ShownNotesInv
<1>6. CASE Embedded!AddNote
  <2>1. PICK text \in PanelText :
          /\ text # Blank
          /\ stored' = Append(stored, Embedded!Made(text)) /\ origin' = Append(origin, "here")
          /\ panel' = [panel EXCEPT !.list = Append(panel.list, Embedded!Made(text))]
    BY Zenon, <1>6 DEF Embedded!AddNote, Blank
  <2> DEFINE e == Embedded!Made(text)
             more == Append(panel.list, e)
  <2>2. e = [id |-> n + 1, text |-> text]
    BY DEF Embedded!Made
  <2> HIDE DEF e
  <2>3. /\ NotesIn(stored', n + 1) /\ NotesIn(more, n + 1) /\ Rising(stored')
        /\ IdsIn(stored') = IdsIn(stored) \cup {n + 1} /\ IdsIn(more) = IdsIn(panel.list) \cup {n + 1}
    BY <1>1, <2>1, <2>2, NoteAppended DEF e
  <2>4. panel' = [list |-> more, editing |-> panel.editing, text |-> panel.text]
    BY <1>1, <2>1 DEF e
  <2> HIDE DEF more
  <2>5. /\ panel'.list = more /\ panel'.text = panel.text
        /\ panel' = [list |-> panel'.list, editing |-> panel'.editing, text |-> panel'.text]
    BY <2>4
  <2>6. /\ IsList(origin') /\ Len(origin') = n + 1
        /\ \A i \in 1..n : origin'[i] = origin[i]
    BY <1>1, <2>1, AppendedList
  <2>7. Differ(more, stored', origin')
    BY <1>1, <1>2, <2>3, <2>6 DEF Differ
  <2> QED BY <1>1, <2>3, <2>5, <2>6, <2>7 DEF ShownNotesInv
<1>7. CASE Embedded!StartEdit
  <2>1. PICK i \in DOMAIN panel.list :
          /\ panel' = [panel EXCEPT !.editing = panel.list[i].id, !.text = panel.list[i].text]
          /\ UNCHANGED <<stored, origin>>
    BY <1>7 DEF Embedded!StartEdit
  <2>2. panel.list[i].text \in PanelText
    BY <1>1 DEF NotesIn
  <2>3. panel' = [list |-> panel.list, editing |-> panel.list[i].id, text |-> panel.list[i].text]
    BY <1>1, <2>1
  <2> QED BY <1>5, <2>1, <2>2, <2>3
<1>8. CASE Embedded!TypeText
  <2>1. PICK text \in PanelText : panel' = [panel EXCEPT !.text = text] /\ UNCHANGED <<stored, origin>>
    BY <1>8 DEF Embedded!TypeText
  <2>2. panel' = [list |-> panel.list, editing |-> panel.editing, text |-> text]
    BY <1>1, <2>1
  <2> QED BY <1>5, <2>1, <2>2
<1>9. CASE Embedded!CancelEdit
  <2>1. panel' = [panel EXCEPT !.editing = 0] /\ UNCHANGED <<stored, origin>>
    BY <1>9 DEF Embedded!CancelEdit
  <2>2. panel' = [list |-> panel.list, editing |-> 0, text |-> panel.text]
    BY <1>1, <2>1
  <2> QED BY <1>1, <1>5, <2>1, <2>2
<1>10. CASE Embedded!CommitEdit
  <2>1. /\ stored' = IF panel.text = Blank THEN stored
                     ELSE Embedded!Worded(stored, panel.editing, panel.text)
        /\ panel' = [panel EXCEPT !.editing = 0, !.list = IF panel.text = Blank THEN panel.list ELSE stored']
        /\ origin' = origin
    BY Zenon, <1>10 DEF Embedded!CommitEdit, Blank
  <2>2. CASE panel.text = Blank
    <3>1. panel' = [list |-> panel.list, editing |-> 0, text |-> panel.text] /\ stored' = stored
      BY <1>1, <2>1, <2>2
    <3> QED BY <1>1, <1>5, <2>1, <3>1
  <2>3. CASE panel.text # Blank
    <3>1. stored' = Embedded!Worded(stored, panel.editing, panel.text)
          /\ panel' = [list |-> stored', editing |-> 0, text |-> panel.text]
      BY <1>1, <2>1, <2>3
    <3>2. NotesIn(stored', n) /\ Rising(stored')
      BY <1>1, <2>3, <3>1, NoteWorded
    <3>3. /\ panel'.list = stored' /\ panel'.text = panel.text
          /\ panel' = [list |-> panel'.list, editing |-> panel'.editing, text |-> panel'.text]
      BY <3>1
    <3> QED BY <1>1, <2>1, <3>2, <3>3 DEF ShownNotesInv, Differ
  <2> QED BY <2>2, <2>3
<1>11. CASE Embedded!RemoveNote
  <2>1. PICK i \in DOMAIN panel.list :
          LET id == panel.list[i].id IN
          /\ stored' = Embedded!Without(stored, id)
          /\ panel' = [panel EXCEPT !.list = Embedded!Without(panel.list, id)]
          /\ origin' = [origin EXCEPT ![id] = "removed"]
    BY <1>11 DEF Embedded!RemoveNote
  <2> DEFINE id == panel.list[i].id
             fewer == Embedded!Without(panel.list, id)
  <2>2. /\ stored' = Embedded!Without(stored, id) /\ panel' = [panel EXCEPT !.list = fewer]
        /\ origin' = [origin EXCEPT ![id] = "removed"]
    BY <2>1
  <2> HIDE DEF id
  <2>3. /\ NotesIn(stored', n) /\ NotesIn(fewer, n) /\ Rising(stored')
        /\ IdsIn(stored') = IdsIn(stored) \ {id} /\ IdsIn(fewer) = IdsIn(panel.list) \ {id}
    BY <1>1, <2>2, NoteDropped
  <2>4. panel' = [list |-> fewer, editing |-> panel.editing, text |-> panel.text]
    BY <1>1, <2>2
  <2> HIDE DEF fewer
  <2>5. /\ panel'.list = fewer /\ panel'.text = panel.text
        /\ panel' = [list |-> panel'.list, editing |-> panel'.editing, text |-> panel'.text]
    BY <2>4
  <2>6. /\ IsList(origin') /\ Len(origin') = n
        /\ \A k \in 1..n : k # id => origin'[k] = origin[k]
    <3>1. DOMAIN origin' = 1..n /\ origin' = [k \in 1..n |-> origin'[k]]
      BY <1>1, <2>2
    <3>2. Len(origin') = n
      BY <1>1, <3>1
    <3> QED BY <1>1, <2>2, <3>1, <3>2 DEF IsList
  <2>7. Differ(fewer, stored', origin')
    BY <1>1, <1>2, <2>3, <2>6 DEF Differ
  <2> QED BY <1>1, <2>3, <2>5, <2>6, <2>7 DEF ShownNotesInv
<1>12. CASE Embedded!ShowPanel
  <2>1. panel' = [list |-> stored, editing |-> 0, text |-> Blank] /\ UNCHANGED <<stored, origin>>
    BY Zenon, <1>12 DEF Embedded!ShowPanel, Blank
  <2>2. /\ panel'.list = stored /\ panel'.text = Blank
        /\ panel' = [list |-> panel'.list, editing |-> panel'.editing, text |-> panel'.text]
    BY <2>1
  <2> QED BY <1>1, <2>1, <2>2 DEF ShownNotesInv, Differ
<1>13. CASE Embedded!OtherTab
  <2>1. panel' = panel
    BY Zenon, <1>13 DEF Embedded!OtherTab
  <2>2. ASSUME NEW text \in PanelText, text # Blank, stored' = Append(stored, Embedded!Made(text)),
               origin' = Append(origin, "there")
        PROVE  ShownNotesInv'
    <3>1. Embedded!Made(text) = [id |-> n + 1, text |-> text]
      BY DEF Embedded!Made
    <3>2. /\ NotesIn(stored', n + 1) /\ Rising(stored') /\ IdsIn(stored') = IdsIn(stored) \cup {n + 1}
      BY <1>1, <2>2, <3>1, NoteAppended
    <3>3. /\ IsList(origin') /\ Len(origin') = n + 1 /\ origin'[n + 1] = "there"
          /\ \A i \in 1..n : origin'[i] = origin[i]
      <4> DEFINE by == "there"
      <4>1. origin' = Append(origin, by)
        BY <2>2
      <4> HIDE DEF by
      <4>2. /\ IsList(origin') /\ Len(origin') = n + 1 /\ origin'[n + 1] = by
            /\ \A i \in 1..n : origin'[i] = origin[i]
        BY <1>1, <4>1, AppendedList
      <4> QED BY <4>2 DEF by
    <3>4. NotesIn(panel.list, n + 1)
      BY <1>1, NotesInMore
    <3>5. Differ(panel.list, stored', origin')
      BY <1>1, <1>2, <3>2, <3>3 DEF Differ
    <3> QED BY <1>1, <2>1, <3>2, <3>3, <3>4, <3>5 DEF ShownNotesInv
  <2>3. ASSUME NEW id \in IdsIn(stored), stored' = Embedded!Without(stored, id),
               origin' = [origin EXCEPT ![id] = "taken"]
        PROVE  ShownNotesInv'
    <3>1. NotesIn(stored', n) /\ Rising(stored') /\ IdsIn(stored') = IdsIn(stored) \ {id}
      BY <1>1, <2>3, NoteDropped
    <3>2. /\ IsList(origin') /\ Len(origin') = n /\ origin'[id] = "taken"
          /\ \A k \in 1..n : k # id => origin'[k] = origin[k]
      <4>1. DOMAIN origin' = 1..n /\ origin' = [k \in 1..n |-> origin'[k]] /\ id \in 1..n
        BY <1>1, <1>2, <2>3
      <4>2. Len(origin') = n
        BY <1>1, <4>1
      <4> QED BY <1>1, <2>3, <4>1, <4>2 DEF IsList
    <3>3. Differ(panel.list, stored', origin')
      BY <1>1, <1>2, <3>1, <3>2 DEF Differ
    <3> QED BY <1>1, <2>1, <3>1, <3>2, <3>3 DEF ShownNotesInv
  <2>4. \/ \E text \in PanelText : /\ text # Blank /\ stored' = Append(stored, Embedded!Made(text))
                                   /\ origin' = Append(origin, "there")
        \/ \E id \in IdsIn(stored) : /\ stored' = Embedded!Without(stored, id)
                                     /\ origin' = [origin EXCEPT ![id] = "taken"]
    BY Zenon, <1>13 DEF Embedded!OtherTab, Blank, IdsIn
  <2> QED BY <2>2, <2>3, <2>4
<1> QED BY <1>4, <1>6, <1>7, <1>8, <1>9, <1>10, <1>11, <1>12, <1>13
        DEF EmbeddedNext, Embedded!PanelNext

\* So the panel differs from the storage by what another tab did alone.
LEMMA ShownNotesKeep ==
  ShownNotesInv =>
    /\ Embedded!PanelShowsItsNotes
    /\ \A i \in DOMAIN stored : /\ stored[i].id \in DOMAIN origin /\ stored[i].text \in PanelText
                                /\ stored[i].text # Blank
<1> SUFFICES ASSUME ShownNotesInv
             PROVE  /\ Embedded!PanelShowsItsNotes
                    /\ \A i \in DOMAIN stored :
                         /\ stored[i].id \in DOMAIN origin /\ stored[i].text \in PanelText
                         /\ stored[i].text # Blank
  OBVIOUS
<1>1. Differ(panel.list, stored, origin) /\ Rising(stored) /\ NotesIn(stored, Len(origin))
      /\ DOMAIN origin = 1..Len(origin)
  BY DEF ShownNotesInv, IsList
<1>2. Embedded!PanelShowsItsNotes
  BY <1>1 DEF Differ, Rising, IdsIn, Embedded!PanelShowsItsNotes
<1> QED BY <1>1, <1>2 DEF NotesIn
-----------------------------------------------------------------------------
(* Entries, as the source lists them and as a page sorts them *)

\* A list of all entries, each of them once.
Listing(s) ==
  /\ s \in Seq(Entry)
  /\ \A i, j \in DOMAIN s : s[i] = s[j] => i = j
  /\ \A e \in Entry : \E i \in DOMAIN s : s[i] = e

PlaceIn(s, e) == CHOOSE i \in DOMAIN s : s[i] = e
Ahead(s, w) ==
  {p \in Entry \X Entry : \/ w[p[1]] > w[p[2]]
                          \/ w[p[1]] = w[p[2]] /\ PlaceIn(s, p[1]) < PlaceIn(s, p[2])}

\* In a list of all entries each has its place.
LEMMA PlacesOf ==
  ASSUME NEW s, Listing(s)
  PROVE  /\ \A e \in Entry : PlaceIn(s, e) \in DOMAIN s /\ s[PlaceIn(s, e)] = e
         /\ \A i \in DOMAIN s : s[i] \in Entry /\ PlaceIn(s, s[i]) = i
         /\ DOMAIN s \subseteq Nat /\ Forms!Range(s) = Entry
         /\ IsFiniteSet(Entry)
<1>1. DOMAIN s = 1..Len(s) /\ Len(s) \in Nat /\ \A i \in DOMAIN s : s[i] \in Entry
  BY DEF Listing
<1>2. ASSUME NEW e \in Entry PROVE PlaceIn(s, e) \in DOMAIN s /\ s[PlaceIn(s, e)] = e
  BY DEF Listing, PlaceIn
<1>3. ASSUME NEW i \in DOMAIN s PROVE PlaceIn(s, s[i]) = i
  BY <1>1, <1>2 DEF Listing
<1>4. Forms!Range(s) = Entry
  BY <1>1 DEF Listing, Forms!Range
<1>5. s \in Surjection(1..Len(s), Entry)
  BY <1>1 DEF Listing, Surjection
<1>6. IsFiniteSet(1..Len(s))
  BY <1>1, FS_Interval
<1>7. IsFiniteSet(Entry)
  BY <1>5, <1>6, FS_Surjection
<1> QED BY <1>1, <1>2, <1>3, <1>4, <1>7

\* A stable sort lists all entries again, those of more weight first.
LEMMA SortedLists ==
  ASSUME NEW s, Listing(s), NEW w \in [Entry -> Int]
  PROVE  /\ Forms!Sorted(s, w) = Ranked(Entry, Ahead(s, w)) /\ Listing(Forms!Sorted(s, w))
         /\ \A i, j \in DOMAIN Forms!Sorted(s, w) :
              i < j => <<Forms!Sorted(s, w)[i], Forms!Sorted(s, w)[j]>> \in Ahead(s, w)
<1>1. /\ \A e \in Entry : PlaceIn(s, e) \in DOMAIN s /\ s[PlaceIn(s, e)] = e
      /\ DOMAIN s \subseteq Nat /\ Forms!Range(s) = Entry /\ IsFiniteSet(Entry)
  BY PlacesOf
<1>2. Forms!Ranked(Entry, Ahead(s, w)) = Ranked(Entry, Ahead(s, w))
  BY DEF Ranked, Forms!Ranked, Cardinality, Forms!Cardinality
<1>3. Forms!Sorted(s, w) = Forms!Ranked(Entry, Ahead(s, w))
  BY <1>1 DEF Forms!Sorted, Ahead, PlaceIn
<1>4. \A x, y \in Entry :
        <<x, y>> \in Ahead(s, w) <=> \/ w[x] > w[y]
                                     \/ w[x] = w[y] /\ PlaceIn(s, x) < PlaceIn(s, y)
  BY DEF Ahead
<1>5. \A x \in Entry : w[x] \in Int /\ PlaceIn(s, x) \in Int
  BY <1>1
<1>6. \A x, y \in Entry : PlaceIn(s, x) = PlaceIn(s, y) => x = y
  BY <1>1
<1>7. Orders(Ahead(s, w), Entry)
  <2>1. ASSUME NEW x \in Entry, NEW y \in Entry, <<x, y>> \in Ahead(s, w)
        PROVE  <<y, x>> \notin Ahead(s, w)
    BY <1>4, <1>5, <2>1
  <2>2. ASSUME NEW x \in Entry, NEW y \in Entry, NEW z \in Entry,
               <<x, y>> \in Ahead(s, w), <<y, z>> \in Ahead(s, w)
        PROVE  <<x, z>> \in Ahead(s, w)
    BY <1>4, <1>5, <2>2
  <2>3. ASSUME NEW x \in Entry, NEW y \in Entry, x # y
        PROVE  <<x, y>> \in Ahead(s, w) \/ <<y, x>> \in Ahead(s, w)
    BY <1>4, <1>5, <1>6, <2>3
  <2> QED BY <2>1, <2>2, <2>3 DEF Orders
<1> QED BY <1>1, <1>2, <1>3, <1>7, RankedOnce DEF Listing

\* Sorting what is sorted changes nothing.
LEMMA SortedTwice ==
  ASSUME NEW s, Listing(s), NEW w \in [Entry -> Int]
  PROVE  Forms!Sorted(Forms!Sorted(s, w), w) = Forms!Sorted(s, w)
<1> DEFINE t == Forms!Sorted(s, w)
<1>1. /\ t = Ranked(Entry, Ahead(s, w)) /\ Listing(t)
      /\ \A i, j \in DOMAIN t : i < j => <<t[i], t[j]>> \in Ahead(s, w)
  BY SortedLists
<1> HIDE DEF t
<1>2. Forms!Sorted(t, w) = Ranked(Entry, Ahead(t, w))
  BY <1>1, SortedLists
<1>3. \A e \in Entry : PlaceIn(s, e) \in Nat /\ PlaceIn(t, e) \in Nat
  BY <1>1, PlacesOf
<1>4. ASSUME NEW x \in Entry, NEW y \in Entry, w[x] = w[y], PlaceIn(t, x) < PlaceIn(t, y)
      PROVE  PlaceIn(s, x) < PlaceIn(s, y)
  <2>1. /\ PlaceIn(t, x) \in DOMAIN t /\ t[PlaceIn(t, x)] = x
        /\ PlaceIn(t, y) \in DOMAIN t /\ t[PlaceIn(t, y)] = y
    BY <1>1, PlacesOf
  <2>2. <<x, y>> \in Ahead(s, w)
    BY <1>1, <1>4, <2>1
  <2>3. w[x] \in Int /\ w[y] \in Int
    OBVIOUS
  <2> QED BY <1>4, <2>2, <2>3 DEF Ahead
<1>5. ASSUME NEW x \in Entry, NEW y \in Entry, w[x] = w[y], PlaceIn(s, x) < PlaceIn(s, y)
      PROVE  PlaceIn(t, x) < PlaceIn(t, y)
  <2>1. x # y
    BY <1>3, <1>5
  <2>2. /\ PlaceIn(t, x) \in DOMAIN t /\ t[PlaceIn(t, x)] = x
        /\ PlaceIn(t, y) \in DOMAIN t /\ t[PlaceIn(t, y)] = y
    BY <1>1, PlacesOf
  <2>3. CASE PlaceIn(t, y) < PlaceIn(t, x)
    BY <1>3, <1>4, <1>5, <2>3
  <2> QED BY <1>3, <2>1, <2>2, <2>3
<1>6. \A x, y \in Entry :
        /\ w[x] = w[y] /\ PlaceIn(t, x) < PlaceIn(t, y) => PlaceIn(s, x) < PlaceIn(s, y)
        /\ w[x] = w[y] /\ PlaceIn(s, x) < PlaceIn(s, y) => PlaceIn(t, x) < PlaceIn(t, y)
  BY <1>4, <1>5
<1>7. Ahead(t, w) = Ahead(s, w)
  <2>1. ASSUME NEW p \in Entry \X Entry PROVE p \in Ahead(t, w) <=> p \in Ahead(s, w)
    <3>1. p[1] \in Entry /\ p[2] \in Entry
      OBVIOUS
    <3> QED BY <1>6, <3>1 DEF Ahead
  <2> QED BY <2>1 DEF Ahead
<1> QED BY <1>1, <1>2, <1>7 DEF t

\* The orders that the source's list takes.
LEMMA SourceLists ==
  /\ Listing(ListedFirst) /\ Listing(Forms!Sorted(ListedFirst, Priority))
  /\ Forms!Sorted(Forms!Sorted(ListedFirst, Priority), Priority)
       = Forms!Sorted(ListedFirst, Priority)
  /\ FirstModel \in DOMAIN ModelCredit
  /\ \A m \in DOMAIN ModelCredit :
       /\ Listing(Forms!Sorted(ListedFirst, ModelCredit[m]))
       /\ Forms!Sorted(Forms!Sorted(ListedFirst, ModelCredit[m]), ModelCredit[m])
            = Forms!Sorted(ListedFirst, ModelCredit[m])
<1>1. Listing(ListedFirst) /\ Priority \in [Entry -> Int] /\ FirstModel \in DOMAIN ModelCredit
  BY EntriesAreListed DEF EntriesAreListed, Listing
<1>2. \A m \in DOMAIN ModelCredit : ModelCredit[m] \in [Entry -> Int]
  BY EntriesAreListed DEF EntriesAreListed
<1>3. \A w \in [Entry -> Int] :
        /\ Listing(Forms!Sorted(ListedFirst, w))
        /\ Forms!Sorted(Forms!Sorted(ListedFirst, w), w) = Forms!Sorted(ListedFirst, w)
  BY <1>1, SortedLists, SortedTwice
<1> QED BY <1>1, <1>2, <1>3


\* What a page shows are entries, of a kind there is.
ViewTyped(v) ==
  /\ v.kind \in {All} \cup Forms!Range(Kind)
  /\ v.found \subseteq Entry /\ v.open \subseteq Entry

\* The roadmap's array stays as the source lists it until it is first drawn; the
\* memo of the attribution page is sorted by the model shown.
SortInv ==
  LET ByPriority == Forms!Sorted(ListedFirst, Priority) IN
  /\ page \in Forms!Pages /\ ViewTyped(view)
  /\ features \in {ListedFirst, ByPriority} /\ Listing(model.memo)
  /\ model = [by |-> model.by, against |-> model.against, memo |-> model.memo]
  /\ page = "roadmap" => features = ByPriority /\ drawn \in {ListedFirst, ByPriority}
  /\ page = "attribution" =>
       LET ByCredit == Forms!Sorted(ListedFirst, ModelCredit[model.by]) IN
       /\ model.by \in DOMAIN ModelCredit /\ model.memo = ByCredit
       /\ drawn \in {ListedFirst, ByCredit}

\* A draw sorts the roadmap's array, which is in one of its two orders.
LEMMA DrawSorts ==
  ASSUME features \in {ListedFirst, Forms!Sorted(ListedFirst, Priority)}, NEW p, NEW memo,
         Forms!Draw(p, memo)
  PROVE  /\ features' \in {ListedFirst, Forms!Sorted(ListedFirst, Priority)}
         /\ p = "roadmap" => /\ features' = Forms!Sorted(ListedFirst, Priority)
                             /\ drawn' \in {ListedFirst, Forms!Sorted(ListedFirst, Priority)}
         /\ p = "attribution" => drawn' = memo
<1> DEFINE sorted == Forms!Sorted(ListedFirst, Priority)
           again == Forms!Sorted(features, Priority)
<1>1. again = sorted
  BY SourceLists
<1>2. /\ p = "roadmap" => drawn' = features /\ features' = again
      /\ p = "attribution" => drawn' = memo
      /\ p # "roadmap" => features' = features
  BY DEF Forms!Draw
<1> HIDE DEF sorted, again
<1>3. features \in {ListedFirst, sorted}
  BY DEF sorted
<1>4. /\ features' \in {ListedFirst, sorted}
      /\ p = "roadmap" => features' = sorted /\ drawn' \in {ListedFirst, sorted}
      /\ p = "attribution" => drawn' = memo
  BY <1>1, <1>2, <1>3
<1> QED BY <1>4 DEF sorted

\* A page that is opened shows entries.
LEMMA OpenedTyped ==
  ASSUME features \in {ListedFirst, Forms!Sorted(ListedFirst, Priority)}, NEW p
  PROVE  ViewTyped(Forms!Opened(p))
<1> DEFINE v == Forms!Opened(p)
<1>1. Entry # {}
  BY BrowserConstants DEF BrowserConstants
<1>2. ASSUME NEW s, Listing(s) PROVE s[1] \in Entry
  <2>1. DOMAIN s = 1..Len(s) /\ Len(s) \in Nat /\ \A i \in DOMAIN s : s[i] \in Entry
    BY <1>2 DEF Listing
  <2>2. DOMAIN s # {}
    BY <1>1, <1>2 DEF Listing
  <2> QED BY <2>1, <2>2
<1>3. features[1] \in Entry /\ ListedFirst[1] \in Entry
  BY <1>2, SourceLists
<1>4. v.kind = All /\ v.found = Entry
  BY DEF Forms!Opened
<1>5. v.open \in {{features[1]}, {ListedFirst[1]}, Entry, {}}
  <2> DEFINE selected == p \in Forms!Selected
             first == IF p = "roadmap" THEN features[1] ELSE ListedFirst[1]
  <2>1. v.open = CASE selected -> {first} [] p = "social" -> Entry [] OTHER -> {}
    BY DEF Forms!Opened
  <2> HIDE DEF v, selected
  <2>2. selected => v.open = {first}
    BY <2>1 DEF Forms!Selected, selected
  <2>3. ~selected /\ p = "social" => v.open = Entry
    BY <2>1
  <2>4. ~selected /\ p # "social" => v.open = {}
    BY <2>1
  <2> QED BY <2>2, <2>3, <2>4
<1> HIDE DEF v
<1>6. v.open \subseteq Entry
  BY <1>3, <1>5
<1> QED BY <1>4, <1>6 DEF ViewTyped, v

\* The events page is open at first.
LEMMA InitSorted == Forms!ListInit => SortInv
<1> SUFFICES ASSUME Forms!ListInit PROVE SortInv
  OBVIOUS
<1>1. page = "events" /\ features = ListedFirst /\ view = Forms!Opened("events")
  BY DEF Forms!ListInit
<1>2. model = [by |-> FirstModel, against |-> FirstCompared, memo |-> ListedFirst]
  BY DEF Forms!ListInit
<1>3. ViewTyped(view)
  BY <1>1, OpenedTyped
<1> QED BY <1>1, <1>2, <1>3, SourceLists DEF SortInv, Forms!Pages

\* Filters, and entries that open and close, leave the order as it is.
LEMMA ShowKeepsOrder ==
  ASSUME SortInv, UNCHANGED <<page, features, model, drawn>>, ViewTyped(view')
  PROVE  SortInv'
BY DEF SortInv

\* Pages are opened, an entry is selected and a model picked: each draws.
LEMMA DrawKeepsOrder ==
  ASSUME SortInv, ListsInv, [Forms!ListNext]_(Forms!listVars)
  PROVE  /\ \A p \in Forms!Pages : Forms!OpenPage(p) => SortInv'
         /\ \A p : Forms!Select(p) => SortInv'
         /\ \A m : Forms!Attribute(m) /\ m.by \in DOMAIN ModelCredit
                   /\ m = [by |-> m.by, against |-> m.against, memo |-> m.memo]
                   /\ ViewTyped(view') => SortInv'
<1>0. /\ view = [kind |-> view.kind, found |-> view.found, open |-> view.open]
      /\ ViewTyped(view) /\ page \in Forms!Pages
      /\ features \in {ListedFirst, Forms!Sorted(ListedFirst, Priority)}
      /\ model = [by |-> model.by, against |-> model.against, memo |-> model.memo]
      /\ Listing(model.memo)
  BY DEF ListsInv, SortInv
<1>1. ASSUME NEW p \in Forms!Pages, Forms!OpenPage(p) PROVE SortInv'
  <2>1. page' = p /\ view' = Forms!Opened(p) /\ Forms!Draw(p, ListedFirst)
    BY <1>1 DEF Forms!OpenPage
  <2>2. /\ features' \in {ListedFirst, Forms!Sorted(ListedFirst, Priority)}
        /\ p = "roadmap" => /\ features' = Forms!Sorted(ListedFirst, Priority)
                            /\ drawn' \in {ListedFirst, Forms!Sorted(ListedFirst, Priority)}
        /\ p = "attribution" => drawn' = ListedFirst
    BY <1>0, <2>1, DrawSorts
  <2>3. ViewTyped(view')
    BY <1>0, <2>1, OpenedTyped
  <2>4. CASE p # "attribution"
    <3>1. model' = model
      BY <1>1, <2>4 DEF Forms!OpenPage
    <3> QED BY <1>0, <2>1, <2>2, <2>3, <2>4, <3>1 DEF SortInv
  <2>5. CASE p = "attribution"
    <3>1. model' = [by |-> FirstModel, against |-> FirstCompared,
                    memo |-> Forms!Sorted(ListedFirst, ModelCredit[FirstModel])]
      BY <1>1, <2>5 DEF Forms!OpenPage
    <3>2. /\ model'.by = FirstModel
          /\ model'.memo = Forms!Sorted(ListedFirst, ModelCredit[FirstModel])
          /\ model' = [by |-> model'.by, against |-> model'.against, memo |-> model'.memo]
      BY <3>1
    <3>3. Listing(model'.memo) /\ model'.by \in DOMAIN ModelCredit
      BY <3>2, SourceLists
    <3> QED BY <1>0, <2>1, <2>2, <2>3, <2>5, <3>2, <3>3 DEF SortInv
  <2> QED BY <2>4, <2>5
<1>2. ASSUME NEW p, Forms!Select(p) PROVE SortInv'
  <2>1. /\ page = p /\ page' = page /\ model' = model /\ Forms!Draw(p, ListedFirst)
        /\ \E e \in Entry : view' = [view EXCEPT !.open = {e}]
    BY <1>2 DEF Forms!Select
  <2>2. /\ features' \in {ListedFirst, Forms!Sorted(ListedFirst, Priority)}
        /\ p = "roadmap" => /\ features' = Forms!Sorted(ListedFirst, Priority)
                            /\ drawn' \in {ListedFirst, Forms!Sorted(ListedFirst, Priority)}
        /\ p = "attribution" => drawn' = ListedFirst
    BY <1>0, <2>1, DrawSorts
  <2>3. ViewTyped(view')
    BY <1>0, <2>1 DEF ViewTyped
  <2> QED BY <2>1, <2>2, <2>3 DEF SortInv
<1>3. ASSUME NEW m, Forms!Attribute(m), m.by \in DOMAIN ModelCredit, ViewTyped(view'),
             m = [by |-> m.by, against |-> m.against, memo |-> m.memo]
      PROVE  SortInv'
  <2> DEFINE memo == IF m.by = model.by THEN model.memo ELSE ListedFirst
             list == Forms!Sorted(ListedFirst, ModelCredit[m.by])
             again == Forms!Sorted(drawn', ModelCredit[m.by])
  <2>1. page = "attribution" /\ page' = page /\ Forms!Draw(page, memo)
    BY <1>3 DEF Forms!Attribute
  <2>2. model' = [m EXCEPT !.memo = again]
    BY <1>3 DEF Forms!Attribute
  <2>3. drawn' = memo /\ features' \in {ListedFirst, Forms!Sorted(ListedFirst, Priority)}
    <3> HIDE DEF memo
    <3> QED BY <1>0, <2>1, DrawSorts
  <2>4. m.by = model.by => model.memo = list
    BY <2>1 DEF SortInv
  <2>5. Listing(list) /\ Forms!Sorted(list, ModelCredit[m.by]) = list
    BY <1>3, SourceLists
  <2>6. memo \in {ListedFirst, list}
    BY <2>4
  <2>7. again = list
    <3> HIDE DEF memo
    <3>1. CASE memo = ListedFirst
      BY <2>3, <3>1
    <3>2. CASE memo = list
      <4>1. again = Forms!Sorted(list, ModelCredit[m.by])
        BY <2>3, <3>2
      <4> QED BY <2>5, <4>1
    <3> QED BY <2>6, <3>1, <3>2
  <2> HIDE DEF memo, again
  <2>8. /\ model'.by = m.by /\ model'.memo = list
        /\ model' = [by |-> model'.by, against |-> model'.against, memo |-> model'.memo]
    <3> HIDE DEF list
    <3> QED BY <1>3, <2>2, <2>7
  <2>9. /\ Listing(model'.memo) /\ model'.by \in DOMAIN ModelCredit
        /\ model'.memo = Forms!Sorted(ListedFirst, ModelCredit[model'.by])
        /\ drawn' \in {ListedFirst, Forms!Sorted(ListedFirst, ModelCredit[model'.by])}
    BY <1>3, <2>3, <2>5, <2>6, <2>8
  <2> HIDE DEF list
  <2> QED BY <1>0, <1>3, <2>1, <2>3, <2>8, <2>9 DEF SortInv
<1> QED BY <1>1, <1>2, <1>3

\* Whatever is done on a page that lists, its orders are the source's or the
\* weights', and what it shows are entries.
LEMMA StepSorted == SortInv /\ ListsInv /\ [Forms!ListNext]_(Forms!listVars) => SortInv'
<1> SUFFICES ASSUME SortInv, ListsInv, [Forms!ListNext]_(Forms!listVars) PROVE SortInv'
  OBVIOUS
<1>0. /\ view = [kind |-> view.kind, found |-> view.found, open |-> view.open]
      /\ view.kind \in {All} \cup Forms!Range(Kind)
      /\ view.found \subseteq Entry /\ view.open \subseteq Entry
      /\ model = [by |-> model.by, against |-> model.against, memo |-> model.memo]
      /\ page = "attribution" => model.by \in DOMAIN ModelCredit
  BY DEF ListsInv, SortInv, ViewTyped
<1>1. Forms!Visible(view) \subseteq Entry
  BY <1>0 DEF Forms!Visible
<1>2. ASSUME NEW v, Forms!Show(v), ViewTyped(v) PROVE SortInv'
  BY <1>2, ShowKeepsOrder DEF Forms!Show
<1>3. CASE UNCHANGED Forms!listVars
  BY <1>3, ShowKeepsOrder DEF Forms!listVars, SortInv
<1>4. ASSUME NEW p, NEW k \in {All} \cup Forms!Range(Kind), Forms!Filter(p, k) PROVE SortInv'
  BY <1>0, <1>2, <1>4 DEF Forms!Filter, ViewTyped
<1>5. CASE Forms!PickType
  <2>1. PICK k \in {All} \cup Forms!Range(Kind) :
          LET v == [view EXCEPT !.kind = k] IN
            Forms!Show([v EXCEPT !.open = @ \cap Forms!Visible(v)])
    BY <1>5 DEF Forms!PickType
  <2> DEFINE v == [view EXCEPT !.kind = k]
             w == [v EXCEPT !.open = @ \cap Forms!Visible(v)]
  <2>2. v = [kind |-> k, found |-> view.found, open |-> view.open]
    BY <1>0
  <2> HIDE DEF v
  <2>3. w.kind = k /\ w.found = view.found /\ w.open \subseteq view.open
    BY <2>2
  <2>4. Forms!Show(w)
    BY <2>1 DEF v
  <2> HIDE DEF w
  <2> QED BY <1>0, <1>2, <2>3, <2>4 DEF ViewTyped
<1>6. CASE Forms!TypeSearch
  <2>1. PICK found \in EntrySearch : Forms!Show([view EXCEPT !.found = found])
    BY <1>6 DEF Forms!TypeSearch
  <2>2. found \subseteq Entry
    BY EntriesAreListed DEF EntriesAreListed
  <2> QED BY <1>0, <1>2, <2>1, <2>2 DEF ViewTyped
<1>7. ASSUME NEW p, NEW e \in Entry, Forms!Toggle(p, e) PROVE SortInv'
  BY <1>0, <1>2, <1>7 DEF Forms!Toggle, ViewTyped
<1>8. CASE Forms!ToggleRow
  <2>1. PICK e \in Forms!Visible(view) :
          Forms!Show([view EXCEPT !.open = Forms!Toggled(@, e)])
    BY <1>8 DEF Forms!ToggleRow
  <2>2. Forms!Toggled(view.open, e) \subseteq Entry
    BY <1>0, <1>1 DEF Forms!Toggled
  <2> QED BY <1>0, <1>2, <2>1, <2>2 DEF ViewTyped
<1>9. CASE Forms!FollowLink
  <2>1. PICK e \in view.open \cap Forms!Visible(view) :
          \E r \in Related[e] : Forms!Show([view EXCEPT !.open = {r}])
    BY <1>9 DEF Forms!FollowLink
  <2>2. Related[e] \subseteq Entry
    BY <1>0, EntriesAreListed DEF EntriesAreListed
  <2> QED BY <1>0, <1>2, <2>1, <2>2 DEF ViewTyped
<1>10. ASSUME NEW p, Forms!Close(p) PROVE SortInv'
  BY <1>0, <1>2, <1>10 DEF Forms!Close, ViewTyped
<1>11. CASE Forms!TogglePlatform
  <2>1. PICK e \in Entry :
          Forms!Show([view EXCEPT !.open = IF @ = {e} THEN @ ELSE Forms!Toggled(@, e)])
    BY <1>11 DEF Forms!TogglePlatform
  <2>2. Forms!Toggled(view.open, e) \subseteq Entry
    BY <1>0 DEF Forms!Toggled
  <2> QED BY <1>0, <1>2, <2>1, <2>2 DEF ViewTyped
<1>12. CASE Forms!PickModel
  <2>1. PICK m \in DOMAIN ModelCredit :
          Forms!Attribute([model EXCEPT !.by = m]) /\ UNCHANGED view
    BY <1>12 DEF Forms!PickModel, Forms!Models
  <2> DEFINE picked == [model EXCEPT !.by = m]
  <2>2. picked = [by |-> m, against |-> model.against, memo |-> model.memo]
    BY <1>0
  <2>3. Forms!Attribute(picked) /\ ViewTyped(view')
    BY <1>0, <2>1 DEF ViewTyped
  <2> HIDE DEF picked
  <2>4. picked.by \in DOMAIN ModelCredit
        /\ picked = [by |-> picked.by, against |-> picked.against, memo |-> picked.memo]
    BY <2>2
  <2> QED BY <2>3, <2>4, DrawKeepsOrder
<1>13. CASE Forms!ToggleCompare
  <2>1. Forms!Attribute(model) /\ view' = [view EXCEPT !.open = IF @ = {} THEN Entry ELSE {}]
    BY <1>13 DEF Forms!ToggleCompare
  <2>2. ViewTyped(view')
    BY <1>0, <2>1 DEF ViewTyped
  <2>3. page = "attribution"
    BY <2>1 DEF Forms!Attribute
  <2> QED BY <1>0, <2>1, <2>2, <2>3, DrawKeepsOrder
<1>14. CASE Forms!PickCompared
  <2>1. PICK m : Forms!Attribute([model EXCEPT !.against = m]) /\ UNCHANGED view
    BY <1>14 DEF Forms!PickCompared
  <2> DEFINE picked == [model EXCEPT !.against = m]
  <2>2. picked = [by |-> model.by, against |-> m, memo |-> model.memo]
    BY <1>0
  <2>3. Forms!Attribute(picked) /\ ViewTyped(view') /\ page = "attribution"
    BY <1>0, <2>1 DEF ViewTyped, Forms!Attribute
  <2> HIDE DEF picked
  <2>4. picked.by \in DOMAIN ModelCredit
        /\ picked = [by |-> picked.by, against |-> picked.against, memo |-> picked.memo]
    BY <1>0, <2>2, <2>3
  <2> QED BY <2>3, <2>4, DrawKeepsOrder
<1>15. CASE \E p \in Forms!Pages \ {page} : Forms!OpenPage(p)
  BY <1>15, DrawKeepsOrder
<1>16. CASE Forms!PickCategory \/ Forms!PickSentiment \/ Forms!PickWordFilter
  BY <1>4, <1>16 DEF Forms!PickCategory, Forms!PickSentiment, Forms!PickWordFilter
<1>17. CASE Forms!ToggleTerm \/ Forms!ToggleWord \/ Forms!ToggleCampaign \/ Forms!OpenBadge
  BY <1>1, <1>7, <1>17 DEF Forms!ToggleTerm, Forms!ToggleWord, Forms!ToggleCampaign,
       Forms!OpenBadge
<1>18. CASE Forms!ClearWord \/ Forms!CloseStage \/ Forms!CloseBadge
  BY <1>10, <1>18 DEF Forms!ClearWord, Forms!CloseStage, Forms!CloseBadge
<1>19. CASE Forms!SelectEvent \/ Forms!SelectFeature \/ Forms!SelectTab
            \/ Forms!SelectCampaignModel \/ Forms!SelectStage
  BY <1>19, DrawKeepsOrder DEF Forms!SelectEvent, Forms!SelectFeature, Forms!SelectTab,
       Forms!SelectCampaignModel, Forms!SelectStage
<1> QED BY <1>3, <1>5, <1>6, <1>8, <1>9, <1>11, <1>12, <1>13, <1>14, <1>15, <1>16, <1>17, <1>18,
           <1>19 DEF Forms!ListNext

\* What a page lists is drawn in the order of its model.
LEMMA SortedKeep == SortInv => Forms!DrawnByTheModel /\ Forms!ListTypeOK
<1> SUFFICES ASSUME SortInv PROVE Forms!DrawnByTheModel /\ Forms!ListTypeOK
  OBVIOUS
<1>1. Forms!DrawnByTheModel
  BY DEF SortInv, Forms!DrawnByTheModel
<1>2. Listing(features) /\ Listing(model.memo)
  BY SourceLists DEF SortInv
<1>3. Forms!Range(features) = Entry /\ Forms!Range(model.memo) = Entry
  BY <1>2, PlacesOf
<1> QED BY <1>1, <1>3 DEF SortInv, ViewTyped, Forms!ListTypeOK
-----------------------------------------------------------------------------
(* What is shown is current: the composition *)

\* That what is shown is current rests on the invariants of the parts.
CurrentInv ==
  /\ FoundInv /\ ThemeInv /\ BornInv /\ CalmInv /\ Report!LayoutIsKept
  /\ Segments!TickedIsStored /\ Embedded!Page!TickedIsStored /\ ChoiceInv /\ SortInv
  /\ ToastsInv /\ DatesInv /\ ReportDone /\ PanelsInv /\ ShownNotesInv

\* The browser opens on what is shown of it.
LEMMA InitCurrent == Init => CurrentInv
<1> SUFFICES ASSUME Init PROVE CurrentInv
  OBVIOUS
<1>1. FoundInv /\ ThemeInv /\ BornInv /\ CalmInv /\ Report!LayoutIsKept /\ Segments!TickedIsStored
  BY InitShown, InitCalm, StepLayout, StepTicked DEF Init
<1>2. Embedded!Page!TickedIsStored /\ ChoiceInv /\ SortInv /\ PanelsInv /\ ShownNotesInv
  BY StepDone, InitChoice, InitSorted, InitPanels, InitShownNotes DEF Init
<1>3. ToastsInv /\ DatesInv /\ ReportDone
  BY StepToasts, StepDates, StepReportDone DEF Init
<1> QED BY <1>1, <1>2, <1>3 DEF CurrentInv

\* Every step keeps it: of each part the step is one of its own, or none.
LEMMA StepCurrent == BrowserInv /\ KeptInv /\ CurrentInv /\ [Next]_browserVars => CurrentInv'
<1> SUFFICES ASSUME BrowserInv, KeptInv, CurrentInv, [Next]_browserVars PROVE CurrentInv'
  OBVIOUS
<1>1. FoundInv' /\ ThemeInv'
  BY PartsMove, StepFound, StepTheme DEF BrowserInv, CurrentInv
<1>2. BornInv' /\ CalmInv'
  BY PartsMove, StepCalm DEF KeptInv, CurrentInv
<1>3. (Report!LayoutIsKept)'
  BY PartsMove, StepLayout DEF CurrentInv
<1>4. (Segments!TickedIsStored)'
  BY PartsMove, StepTicked DEF KeptInv, CurrentInv
<1>5. (Embedded!Page!TickedIsStored)'
  <2>1. [Embedded!Page!SegmentsNext]_(Embedded!segmentState)
    BY StepKept
  <2> QED BY <2>1, StepDone DEF KeptInv, CurrentInv
<1>6. ChoiceInv' /\ SortInv'
  BY PartsMove, StepChoice, StepSorted DEF BrowserInv, CurrentInv
<1>7. ToastsInv' /\ DatesInv' /\ ReportDone'
  <2>1. [Dash!ToastsNext]_toasts /\ [Dash!DatesNext]_dates /\ [Dash!ReportNext]_report
    BY PartsMove, DashParted
  <2> QED BY <2>1, StepToasts, StepDates, StepReportDone DEF CurrentInv
<1>8. PanelsInv' /\ ShownNotesInv'
  BY PartsMove, StepPanels, StepShownNotes DEF CurrentInv
<1> QED BY <1>1, <1>2, <1>3, <1>4, <1>5, <1>6, <1>7, <1>8 DEF CurrentInv

\* So every state of every behaviour satisfies it.
LEMMA BrowserKeepsCurrent == Spec => []BrowserInv /\ []KeptInv /\ []CurrentInv
BY InitKept, StepKept, InitCurrent, StepCurrent, BrowserKeepsInv, PTL DEF Spec

\* What is shown is what was chosen, stored or asked for last, whatever was clicked
\* between: the results answer the text typed last, a calm map shows the table, the
\* order drawn goes by the model chosen, a reload brings back the range of days and
\* the theme, the preview is of the card last asked for, and the panel shows the
\* notes that are stored.
THEOREM ShownStaysCurrent == Spec => []ShownIsCurrent
<1>1. CurrentInv => ShownIsCurrent
  <2> SUFFICES ASSUME CurrentInv PROVE ShownIsCurrent
    OBVIOUS
  <2>1. Palette!ResultsAnswerTheQuery
    BY DEF CurrentInv, FoundInv, Palette!ResultsAnswerTheQuery
  <2>2. Palette!ThemeOutlivesReload
    BY DEF CurrentInv, ThemeInv
  <2>3. Regions!CalmMapIsTheTable
    BY CalmKeeps DEF CurrentInv
  <2>4. Forms!DrawnByTheModel /\ Embedded!PreviewIsCurrent /\ Embedded!PanelShowsItsNotes
    BY SortedKeep, PanelsKeep, ShownNotesKeep DEF CurrentInv
  <2>5. Forms!ChoiceIsShown
    BY DEF CurrentInv, ChoiceInv, Forms!ChoiceIsShown
  <2>6. Dash!ToastsStayInOrder /\ Dash!ReloadKeepsTheRange
    BY ToastsKeep, DatesKeep DEF CurrentInv
  <2> QED BY <2>1, <2>2, <2>3, <2>4, <2>5, <2>6 DEF CurrentInv, ShownIsCurrent
<1> QED BY <1>1, BrowserKeepsCurrent, PTL
-----------------------------------------------------------------------------
(* Types: what is stored, the map, the report and the segments *)

\* Bookmarks and notes are of the ids made, and a note's place is on the axis.
LEMMA SavedTypes ==
  BookmarksInv /\ NotesInv => Saved!BookmarksTypeOK /\ Saved!NotesTypeOK
<1> SUFFICES ASSUME BookmarksInv, NotesInv PROVE Saved!BookmarksTypeOK /\ Saved!NotesTypeOK
  OBVIOUS
<1>1. Saved!BookmarksTypeOK
  <2>1. ids \in 0..MaxIds /\ tab \in [Tab -> TabOf(ids)]
    BY DEF BookmarksInv
  <2>2. ASSUME NEW t \in Tab PROVE tab[t] \in TabOf(ids)
    BY <2>1
  <2>3. \A t \in Tab : /\ tab[t].path \in Url /\ tab[t].open \in BOOLEAN
                       /\ tab[t].renaming \in 1..ids \cup {None}
    BY <2>2 DEF TabOf
  <2> QED BY <2>1, <2>3 DEF Saved!BookmarksTypeOK
<1>2. noteCount \in 0..MaxChartNotes /\ notes \in Seq(NoteOf(noteCount))
      /\ noteView \in [Tab -> ViewOf(noteCount)]
  BY DEF NotesInv
<1>3. Saved!NoteIds(notes) \subseteq 1..noteCount
  <2>1. \A i \in DOMAIN notes : notes[i] \in NoteOf(noteCount)
    BY <1>2, SeqElements
  <2> QED BY <2>1 DEF NoteOf, Saved!NoteIds
<1>4. \A t \in Tab : noteView[t].modal.editing \in 1..noteCount \cup {None}
  <2>1. ASSUME NEW t \in Tab PROVE noteView[t] \in ViewOf(noteCount)
    BY <1>2
  <2> QED BY <2>1 DEF ViewOf, ModalOf
<1>5. ASSUME NEW date PROVE Saved!PlaceOf(date) \in 0..Len(Label)
  <2> DEFINE near == {i \in DOMAIN Label : Label[i] \in Near[date]}
  <2>1. Len(Label) \in Nat /\ near \subseteq 1..Len(Label)
    BY LabelsAreListed DEF LabelsAreListed
  <2>2. Saved!PlaceOf(date) = IF near = {} THEN 0 ELSE Saved!Min(near)
    BY DEF Saved!PlaceOf
  <2> HIDE DEF near
  <2>3. near # {} => \E n \in near : \A m \in near : n <= m
    <3>1. near \subseteq Nat
      BY <2>1
    <3> QED BY <3>1, LeastNatural
  <2>4. near # {} => Saved!Min(near) \in near
    BY <2>3 DEF Saved!Min
  <2> DEFINE low == Saved!Min(near)
  <2>5. ASSUME near # {} PROVE low \in 0..Len(Label)
    <3>1. low \in near
      BY <2>4, <2>5
    <3> HIDE DEF low
    <3>2. low \in 1..Len(Label)
      BY <2>1, <3>1
    <3> QED BY <2>1, <3>2
  <2>6. 0 \in 0..Len(Label)
    BY <2>1
  <2> QED BY <2>2, <2>5, <2>6
<1> QED BY <1>1, <1>2, <1>3, <1>4, <1>5 DEF Saved!NotesTypeOK

\* No more rows are stored than posts were sent, and one fewer while a post is on
\* its way; a toast tells of a post or is away.
SentInv ==
  /\ rows \in Nat /\ sent \in Nat /\ sent <= MaxPosts /\ rows <= sent
  /\ post # None /\ post.stage = "sent" => rows < sent
  /\ toast \in {None, "success", "error"}

\* A row is stored for a post that was sent and had none.
LEMMA StepSent ==
  /\ GistMap!MapInit => SentInv
  /\ MapInv /\ SentInv /\ [GistMap!MapNext]_(GistMap!mapVars) => SentInv'
<1>0. MaxPosts \in Nat
  BY BoundsAreNumbers DEF BoundsAreNumbers
<1>1. GistMap!MapInit => SentInv
  BY <1>0 DEF GistMap!MapInit, SentInv
<1>2. ASSUME MapInv, SentInv, [GistMap!MapNext]_(GistMap!mapVars) PROVE SentInv'
  <2>1. /\ rows \in Nat /\ sent \in Nat /\ sent <= MaxPosts /\ rows <= sent
        /\ post # None /\ post.stage = "sent" => rows < sent
        /\ toast \in {None, "success", "error"}
    BY <1>2 DEF SentInv
  <2>2. post = None \/ post = [id |-> post.id, at |-> post.at, stage |-> post.stage]
    BY <1>2 DEF MapInv, PostOf
  <2>3. CASE UNCHANGED <<rows, sent, post, toast>>
    BY <2>1, <2>3 DEF SentInv
  <2>4. CASE GistMap!Locate
    BY <2>3, <2>4 DEF GistMap!Locate
  <2>5. CASE GistMap!OpenModal \/ GistMap!CloseModal \/ \E text : GistMap!TypeContent(text)
    BY <2>3, <2>5 DEF GistMap!OpenModal, GistMap!CloseModal, GistMap!TypeContent, GistMap!OnlyModal
  <2>6. CASE GistMap!Submit
    <3>1. sent < MaxPosts /\ sent' = sent + 1 /\ UNCHANGED <<rows, toast>>
      BY <2>6 DEF GistMap!Submit
    <3> QED BY <1>0, <2>1, <3>1 DEF SentInv
  <2>7. ASSUME NEW s \in {"stored", "failed"}, post # None, GistMap!Stage(s),
               rows' = rows \/ (post.stage = "sent" /\ rows' = rows + 1)
        PROVE  SentInv'
    <3>1. post' = [post EXCEPT !.stage = s] /\ UNCHANGED <<sent, toast>>
      BY <2>7 DEF GistMap!Stage
    <3>2. post'.stage # "sent"
      BY <2>2, <2>7, <3>1
    <3> QED BY <2>1, <2>7, <3>1, <3>2 DEF SentInv
  <2>8. CASE GistMap!BackendStores \/ GistMap!BackendRefuses \/ GistMap!AnswerLost
    <3>1. CASE GistMap!BackendStores
      BY <2>7, <3>1 DEF GistMap!BackendStores
    <3>2. CASE GistMap!BackendRefuses
      BY <2>7, <3>2 DEF GistMap!BackendRefuses
    <3>3. CASE GistMap!AnswerLost
      BY <2>7, <3>3 DEF GistMap!AnswerLost
    <3> QED BY <2>8, <3>1, <3>2, <3>3
  <2>9. CASE GistMap!Succeed \/ GistMap!FailPost
    <3>1. toast' \in {"success", "error"} /\ post' = None /\ UNCHANGED <<rows, sent>>
      BY <2>9 DEF GistMap!Succeed, GistMap!FailPost, GistMap!Finish
    <3> QED BY <2>1, <3>1 DEF SentInv
  <2>10. CASE GistMap!ToastExpires
    BY <2>1, <2>10 DEF GistMap!ToastExpires, SentInv
  <2>11. CASE UNCHANGED GistMap!mapVars
    BY <2>3, <2>11 DEF GistMap!mapVars
  <2> QED BY <1>2, <2>4, <2>5, <2>6, <2>8, <2>9, <2>10, <2>11 DEF GistMap!MapNext
<1> QED BY <1>1, <1>2

\* The map's pins and the report's widgets and form have their types.
LEMMA MapAndReportTypes ==
  /\ MapInv /\ SentInv => GistMap!MapTypeOK
  /\ ReportInv /\ CanvasInv => Report!ReportTypeOK
<1>1. ASSUME MapInv, SentInv PROVE GistMap!MapTypeOK
  <2>1. \A i \in DOMAIN pins : pins[i] \in PinOf(sent)
    BY <1>1, SeqElements DEF MapInv
  <2>2. \A i \in DOMAIN pins : pins[i].status \in GistMap!Statuses /\ pins[i].at \in {"default", "found"}
    BY <2>1 DEF PinOf, Place
  <2> QED BY <1>1, <2>2 DEF SentInv, GistMap!MapTypeOK
<1>2. ASSUME ReportInv, CanvasInv PROVE Report!ReportTypeOK
  <2>1. \A n \in DOMAIN canvas : canvas[n] \in Widget
    BY <1>2, SeqElements DEF CanvasInv
  <2>2. \A n \in DOMAIN canvas : canvas[n].y \in {"infinity", "null", "placed"}
    BY <2>1 DEF Widget
  <2>3. /\ form.frequency \in Frequency
        /\ form.metrics \in Seq(ReportMetric) /\ form.recipients \in Seq(Recipient)
    BY <1>2 DEF ReportInv, FormOf, Once
  <2>4. Report!Range(form.metrics) \subseteq ReportMetric
    BY <2>3, SeqElements DEF Report!Range
  <2>5. Report!Range(form.recipients) \subseteq Recipient
    BY <2>3, SeqElements DEF Report!Range
  <2> QED BY <2>2, <2>3, <2>4, <2>5 DEF Report!ReportTypeOK
<1> QED BY <1>1, <1>2

\* Segments join their conditions by AND or by OR, and the builder's is one of those
\* stored or new.
LogicInv ==
  /\ ticked \in BOOLEAN /\ active.id \in 0..Len(segments) /\ active.logic \in Segments!Logics
  /\ \A i \in DOMAIN segments : segments[i].logic \in Segments!Logics

\* So it is in the builder that a page embeds.
InnerLogicInv ==
  /\ done \in BOOLEAN /\ segment.logic \in Segments!Logics
  /\ \A i \in DOMAIN given : given[i].logic \in Segments!Logics

\* A field of a segment set anew leaves how it joins its conditions.
LEMMA LogicStays ==
  ASSUME NEW s, IsSegment(s), NEW v
  PROVE  /\ [s EXCEPT !.id = v].logic = s.logic /\ [s EXCEPT !.logic = v].logic = v
         /\ [s EXCEPT !.conditions = v].logic = s.logic
         /\ \A i : [s EXCEPT !.conditions[i] = v].logic = s.logic
BY DEF IsSegment

\* What is saved is joined as the builder joins it.
LEMMA LogicSaved ==
  ASSUME NEW list, SegmentsAre(list), NEW s, IsSegment(s), s.logic \in Segments!Logics,
         \A i \in DOMAIN list : list[i].logic \in Segments!Logics
  PROVE  LET more == Append(list, [s EXCEPT !.id = Len(list) + 1])
         IN /\ \A i \in DOMAIN more : more[i].logic \in Segments!Logics
            /\ Len(more) = Len(list) + 1 /\ Len(list) \in Nat
<1> DEFINE new == [s EXCEPT !.id = Len(list) + 1]
           more == Append(list, new)
<1>1. new.logic \in Segments!Logics
  BY LogicStays
<1> HIDE DEF new
<1>2. /\ IsList(list) /\ DOMAIN more = 1..(Len(list) + 1) /\ more[Len(list) + 1] = new
      /\ \A i \in 1..Len(list) : more[i] = list[i]
      /\ Len(more) = Len(list) + 1
  BY AppendedList DEF SegmentsAre
<1>3. Len(list) \in Nat /\ DOMAIN list = 1..Len(list)
  BY <1>2 DEF IsList
<1> HIDE DEF more
<1>4. \A i \in DOMAIN more : i = Len(list) + 1 \/ i \in 1..Len(list)
  BY <1>2, <1>3
<1>5. \A i \in DOMAIN more : more[i].logic \in Segments!Logics
  BY <1>1, <1>2, <1>3, <1>4
<1> QED BY <1>2, <1>3, <1>5 DEF more, new

\* On the page of segments every step leaves them so.
LEMMA StepLogic ==
  /\ Segments!SegmentsInit => LogicInv
  /\ SegmentsInv /\ LogicInv /\ [Segments!SegmentsNext]_(Segments!segmentVars) => LogicInv'
<1>1. Segments!SegmentsInit => LogicInv
  <2> SUFFICES ASSUME Segments!SegmentsInit PROVE LogicInv
    OBVIOUS
  <2>1. ticked \in BOOLEAN
    BY Zenon DEF Segments!SegmentsInit
  <2>2. active.id = 0 /\ active.logic = "AND" /\ segments = << >> /\ Len(segments) = 0
    BY DEF Segments!SegmentsInit
  <2> QED BY <2>1, <2>2 DEF LogicInv, Segments!Logics
<1>2. ASSUME SegmentsInv, LogicInv, [Segments!SegmentsNext]_(Segments!segmentVars) PROVE LogicInv'
  <2>1. /\ SegmentsAre(segments) /\ IsSegment(active) /\ Len(segments) \in Nat
        /\ DOMAIN segments = 1..Len(segments)
        /\ \A i \in DOMAIN segments : segments[i].id = i /\ IsSegment(segments[i])
    BY <1>2 DEF SegmentsInv, SegmentsAre, IsList
  <2>2. /\ ticked \in BOOLEAN /\ active.id \in 0..Len(segments) /\ active.logic \in Segments!Logics
        /\ \A i \in DOMAIN segments : segments[i].logic \in Segments!Logics
    BY <1>2 DEF LogicInv
  <2>3. ASSUME NEW s, s.id = active.id, s.logic \in Segments!Logics, Segments!Edit(s)
        PROVE  LogicInv'
    BY <2>2, <2>3 DEF Segments!Edit, LogicInv
  <2>4. ASSUME NEW i, NEW c, Segments!UpdateCondition(i, c) PROVE LogicInv'
    BY <2>1, <2>2, <2>3, <2>4, SegmentChanges, LogicStays DEF Segments!UpdateCondition
  <2>5. CASE Segments!AddCondition \/ Segments!RemoveCondition
    BY <2>1, <2>2, <2>3, <2>5, SegmentChanges, LogicStays
       DEF Segments!AddCondition, Segments!RemoveCondition
  <2>6. CASE Segments!PickField \/ Segments!PickValue \/ Segments!PickOp
    BY <2>4, <2>6 DEF Segments!PickField, Segments!PickValue, Segments!PickOp
  <2>7. CASE Segments!SaveSegment
    <3>1. CASE \E i \in DOMAIN segments : segments[i].id = active.id
      <4>1. segments' = [i \in DOMAIN segments |->
                           IF segments[i].id = active.id THEN active ELSE segments[i]]
            /\ active' = active /\ ticked' = TRUE
        BY <2>7, <3>1 DEF Segments!SaveSegment
      <4>2. /\ DOMAIN segments' = 1..Len(segments)
            /\ \A i \in DOMAIN segments' : segments'[i] \in {active, segments[i]}
        BY <2>1, <4>1
      <4>3. Len(segments') = Len(segments)
        BY <2>1, <4>2
      <4>4. \A i \in DOMAIN segments' : segments'[i].logic \in Segments!Logics
        BY <2>1, <2>2, <4>2
      <4> QED BY <2>2, <4>1, <4>3, <4>4 DEF LogicInv
    <3>2. CASE ~\E i \in DOMAIN segments : segments[i].id = active.id
      <4>1. /\ segments' = Append(segments, [active EXCEPT !.id = Len(segments) + 1])
            /\ active' = active /\ ticked' = TRUE
        BY <2>7, <3>2 DEF Segments!SaveSegment
      <4>2. /\ \A i \in DOMAIN segments' : segments'[i].logic \in Segments!Logics
            /\ Len(segments') = Len(segments) + 1
        BY <2>1, <2>2, <4>1, LogicSaved
      <4> QED BY <2>1, <2>2, <4>1, <4>2 DEF LogicInv
    <3> QED BY <3>1, <3>2
  <2>8. CASE Segments!EditSegment
    <3>1. PICK i \in DOMAIN segments :
            active' = segments[i] /\ ticked' = TRUE /\ segments' = segments
      BY <2>8 DEF Segments!EditSegment
    <3> QED BY <2>1, <2>2, <3>1 DEF LogicInv
  <2>9. ASSUME NEW logic \in Segments!Logics, Segments!PickLogic(logic) PROVE LogicInv'
    <3> DEFINE s == [active EXCEPT !.logic = logic]
    <3>1. s.id = active.id /\ s.logic = logic /\ Segments!Edit(s)
      BY <2>1, <2>9, SegmentChanges, LogicStays DEF Segments!PickLogic
    <3> HIDE DEF s
    <3> QED BY <2>3, <2>9, <3>1
  <2>10. CASE UNCHANGED Segments!segmentVars
    BY <2>2, <2>10 DEF Segments!segmentVars, LogicInv
  <2> QED BY <1>2, <2>5, <2>6, <2>7, <2>8, <2>9, <2>10 DEF Segments!SegmentsNext
<1> QED BY <1>1, <1>2

\* And in the builder that a page embeds.
LEMMA StepInnerLogic ==
  /\ Embedded!SegmentInit => InnerLogicInv
  /\ SegmenterInv /\ InnerLogicInv /\ [Embedded!Page!SegmentsNext]_(Embedded!segmentState)
       => InnerLogicInv'
<1>0. Embedded!Page!Logics = Segments!Logics
  BY DEF Embedded!Page!Logics, Segments!Logics
<1>1. Embedded!SegmentInit => InnerLogicInv
  <2> SUFFICES ASSUME Embedded!SegmentInit PROVE InnerLogicInv
    OBVIOUS
  <2>1. done \in BOOLEAN
    BY Zenon DEF Embedded!SegmentInit, Embedded!Page!SegmentsInit
  <2>2. segment.logic = "AND" /\ given = << >>
    BY DEF Embedded!SegmentInit, Embedded!Page!SegmentsInit
  <2> QED BY <2>1, <2>2 DEF InnerLogicInv, Segments!Logics
<1>2. ASSUME SegmenterInv, InnerLogicInv, [Embedded!Page!SegmentsNext]_(Embedded!segmentState)
      PROVE  InnerLogicInv'
  <2>1. /\ SegmentsAre(given) /\ IsSegment(segment)
        /\ \A i \in DOMAIN given : given[i].id = i /\ IsSegment(given[i])
    BY <1>2 DEF SegmenterInv, SegmentsAre
  <2>2. /\ done \in BOOLEAN /\ segment.logic \in Segments!Logics
        /\ \A i \in DOMAIN given : given[i].logic \in Segments!Logics
    BY <1>2 DEF InnerLogicInv
  <2>3. ASSUME NEW s, s.logic \in Segments!Logics, Embedded!Page!Edit(s) PROVE InnerLogicInv'
    BY <2>2, <2>3 DEF Embedded!Page!Edit, InnerLogicInv
  <2>4. ASSUME NEW i, NEW c, Embedded!Page!UpdateCondition(i, c) PROVE InnerLogicInv'
    BY <2>1, <2>2, <2>3, <2>4, LogicStays DEF Embedded!Page!UpdateCondition
  <2>5. CASE Embedded!Page!AddCondition \/ Embedded!Page!RemoveCondition
    BY <2>1, <2>2, <2>3, <2>5, LogicStays
       DEF Embedded!Page!AddCondition, Embedded!Page!RemoveCondition
  <2>6. CASE Embedded!Page!PickField \/ Embedded!Page!PickValue \/ Embedded!Page!PickOp
    BY <2>4, <2>6 DEF Embedded!Page!PickField, Embedded!Page!PickValue, Embedded!Page!PickOp
  <2>7. CASE Embedded!Page!SaveSegment
    <3>1. CASE \E i \in DOMAIN given : given[i].id = segment.id
      <4>1. given' = [i \in DOMAIN given |->
                        IF given[i].id = segment.id THEN segment ELSE given[i]]
            /\ segment' = segment /\ done' = TRUE
        BY <2>7, <3>1 DEF Embedded!Page!SaveSegment
      <4>2. \A i \in DOMAIN given' : i \in DOMAIN given /\ given'[i] \in {segment, given[i]}
        BY <4>1
      <4>3. \A i \in DOMAIN given' : given'[i].logic \in Segments!Logics
        BY <2>2, <4>2
      <4> QED BY <2>2, <4>1, <4>3 DEF InnerLogicInv
    <3>2. CASE ~\E i \in DOMAIN given : given[i].id = segment.id
      <4>1. /\ given' = Append(given, [segment EXCEPT !.id = Len(given) + 1])
            /\ segment' = segment /\ done' = TRUE
        BY <2>7, <3>2 DEF Embedded!Page!SaveSegment
      <4>2. \A i \in DOMAIN given' : given'[i].logic \in Segments!Logics
        BY <2>1, <2>2, <4>1, LogicSaved
      <4> QED BY <2>2, <4>1, <4>2 DEF InnerLogicInv
    <3> QED BY <3>1, <3>2
  <2>8. CASE Embedded!Page!EditSegment
    BY <2>2, <2>8 DEF Embedded!Page!EditSegment, InnerLogicInv
  <2>9. ASSUME NEW logic \in Segments!Logics, Embedded!Page!PickLogic(logic) PROVE InnerLogicInv'
    <3> DEFINE s == [segment EXCEPT !.logic = logic]
    <3>1. s.logic = logic /\ Embedded!Page!Edit(s)
      BY <2>1, <2>9, LogicStays DEF Embedded!Page!PickLogic
    <3> HIDE DEF s
    <3> QED BY <2>3, <2>9, <3>1
  <2>10. CASE UNCHANGED Embedded!segmentState
    BY <2>2, <2>10 DEF Embedded!segmentState, InnerLogicInv
  <2> QED BY <1>0, <1>2, <2>5, <2>6, <2>7, <2>8, <2>9, <2>10 DEF Embedded!Page!SegmentsNext
<1> QED BY <1>1, <1>2

\* Segments are numbered from 1 on.
LEMMA SegmentTypes ==
  /\ SegmentsInv /\ LogicInv => Segments!SegmentsTypeOK
  /\ SegmenterInv /\ InnerLogicInv => Embedded!Page!SegmentsTypeOK
<1>1. SegmentsInv /\ LogicInv => Segments!SegmentsTypeOK
  BY DEF SegmentsInv, SegmentsAre, LogicInv, Segments!SegmentsTypeOK
<1>2. ASSUME SegmenterInv, InnerLogicInv PROVE Embedded!Page!SegmentsTypeOK
  <2>1. Embedded!Page!Logics = Segments!Logics
    BY DEF Embedded!Page!Logics, Segments!Logics
  <2>2. Len(given) \in Nat /\ segment.id = 0 /\ \A i \in DOMAIN given : given[i].id = i
    BY <1>2 DEF SegmenterInv, SegmentsAre, IsList
  <2>3. segment.id \in 0..Len(given)
    BY <2>2
  <2> QED BY <1>2, <2>1, <2>2, <2>3 DEF InnerLogicInv, Embedded!Page!SegmentsTypeOK
<1> QED BY <1>1, <1>2
-----------------------------------------------------------------------------
(* Types: widgets, figures and forms *)

\* The intervals of the player are as many as Play started at most; the counter shows
\* no more than it counted and, once it rests, exactly that.
CounterInv ==
  /\ Len(player.runs) <= MaxPlays
  /\ home.stage \in 0..2 /\ home.frames \in 0..2 /\ home.count \in 0..MaxGists
  /\ home.shown \in 0..home.count /\ (home.frames = 0 => home.shown = home.count)

\* Play starts an interval while there is room for one.
LEMMA StepRuns ==
  player \in PlayerOf /\ Len(player.runs) <= MaxPlays /\ Widgets!PlayerNext
    => Len(player'.runs) <= MaxPlays
<1> SUFFICES ASSUME player \in PlayerOf, Len(player.runs) <= MaxPlays, Widgets!PlayerNext
             PROVE  Len(player'.runs) <= MaxPlays
  OBVIOUS
<1>0. MaxPlays \in Nat
  BY BoundsAreNumbers DEF BoundsAreNumbers
<1>1. player.runs \in Seq(Session) /\ player.session \in Session /\ Len(player.runs) \in Nat
  BY DEF PlayerOf
<1>2. ASSUME player'.runs = player.runs PROVE Len(player'.runs) <= MaxPlays
  BY <1>2
<1>3. CASE Widgets!TogglePlay
  <2>1. CASE player.playing
    <3>1. player' = [player EXCEPT !.playing = FALSE]
      BY <1>3, <2>1 DEF Widgets!TogglePlay, Widgets!OnlyPlayer
    <3>2. player'.runs = player.runs
      BY <3>1 DEF PlayerOf
    <3> QED BY <1>2, <3>2
  <2>2. CASE ~player.playing
    <3>1. Len(player.runs) < MaxPlays /\ player'.runs = Append(player.runs, player.session)
      BY <1>3, <2>2 DEF Widgets!TogglePlay, Widgets!OnlyPlayer, PlayerOf
    <3>2. Len(player'.runs) = Len(player.runs) + 1
      BY <1>1, <3>1
    <3> QED BY <1>0, <1>1, <3>1, <3>2
  <2> QED BY <2>1, <2>2
<1>4. CASE Widgets!Reset \/ Widgets!Scrub \/ \E s \in Session : Widgets!SelectSession(s)
  BY <1>2, <1>4 DEF Widgets!Reset, Widgets!Scrub, Widgets!SelectSession, Widgets!OnlyPlayer, PlayerOf
<1>5. CASE Widgets!Second
  <2>1. PICK i \in DOMAIN player.runs : player' =
          IF Widgets!Ended(i) THEN [player EXCEPT !.playing = FALSE, !.runs = Widgets!Spliced(@, i)]
          ELSE [player EXCEPT !.at = @ + 1]
    BY <1>5 DEF Widgets!Second, Widgets!OnlyPlayer
  <2>2. CASE Widgets!Ended(i)
    <3> DEFINE front == SubSeq(player.runs, 1, i - 1)
               back == SubSeq(player.runs, i + 1, Len(player.runs))
    <3>1. i \in 1..Len(player.runs)
      BY <1>1
    <3>2. front \in Seq(Session) /\ Len(front) = i - 1
      BY <1>1, <3>1
    <3>3. back \in Seq(Session) /\ Len(back) = Len(player.runs) - i
      BY <1>1, <3>1
    <3> HIDE DEF front, back
    <3>4. player'.runs = front \o back
      <4>1. player' = [player EXCEPT !.playing = FALSE, !.runs = front \o back]
        BY <2>1, <2>2 DEF Widgets!Spliced, front, back
      <4> QED BY <4>1 DEF PlayerOf
    <3>5. Len(player'.runs) = Len(front) + Len(back)
      BY <3>2, <3>3, <3>4, ConcatProperties
    <3> QED BY <1>0, <1>1, <3>1, <3>2, <3>3, <3>5
  <2>3. CASE ~Widgets!Ended(i)
    BY <1>2, <2>1, <2>3 DEF PlayerOf
  <2> QED BY <2>2, <2>3
<1> QED BY <1>3, <1>4, <1>5 DEF Widgets!PlayerNext

\* A frame shows a count between what was shown and what there is, the last one what
\* there is, and the next batch waits for it.
LEMMA StepCounter ==
  /\ Widgets!WidgetsInit => CounterInv
  /\ WidgetsInv /\ CounterInv /\ [WidgetsNext]_(Widgets!widgetVars) => CounterInv'
<1>0. MaxGists \in Nat /\ MaxPlays \in Nat /\ Batch \subseteq 0..MaxGists
  BY BoundsAreNumbers, BatchesAreCounted DEF BoundsAreNumbers, BatchesAreCounted
<1>1. Widgets!WidgetsInit => CounterInv
  BY <1>0 DEF Widgets!WidgetsInit, CounterInv
<1>2. ASSUME WidgetsInv, CounterInv, [WidgetsNext]_(Widgets!widgetVars) PROVE CounterInv'
  <2>1. /\ player \in PlayerOf /\ home \in HomeOf /\ Len(player.runs) <= MaxPlays
        /\ home.stage \in 0..2 /\ home.frames \in 0..2 /\ home.count \in 0..MaxGists
        /\ home.shown \in 0..home.count /\ (home.frames = 0 => home.shown = home.count)
    BY <1>2 DEF WidgetsInv, CounterInv
  <2>2. ASSUME player' = player, home'.stage \in 0..2, home'.count = home.count,
               home'.shown = home.shown, home'.frames = home.frames
        PROVE  CounterInv'
    BY <2>1, <2>2 DEF CounterInv
  <2>3. CASE Widgets!TeamNext
    BY <2>1, <2>2, <2>3 DEF Widgets!TeamNext, Widgets!TeamTick, Widgets!AddNote,
       Widgets!TypeNote, Widgets!OnlyTeam
  <2>4. CASE Widgets!PlayerNext
    <3>1. home' = home
      BY <2>4 DEF Widgets!PlayerNext, Widgets!TogglePlay, Widgets!Reset, Widgets!Scrub,
         Widgets!Second, Widgets!SelectSession, Widgets!OnlyPlayer
    <3>2. Len(player'.runs) <= MaxPlays
      BY <2>1, <2>4, StepRuns
    <3> QED BY <2>1, <3>1, <3>2 DEF CounterInv
  <2>5. CASE Widgets!Load
    <3>1. player' = player /\ home.stage < 2 /\ home' = [home EXCEPT !.stage = @ + 1]
      BY <2>5 DEF Widgets!Load, Widgets!OnlyHome
    <3>2. /\ home'.stage = home.stage + 1 /\ home'.count = home.count
          /\ home'.shown = home.shown /\ home'.frames = home.frames
      BY <2>1, <3>1 DEF HomeOf
    <3> QED BY <2>1, <2>2, <3>1, <3>2
  <2>6. CASE Widgets!Frame
    <3>1. PICK n \in (IF home.frames = 1 THEN {home.count}
                      ELSE (IF home.list = <<0, -1>> THEN 0 ELSE home.shown)..home.count) :
            home' = [home EXCEPT !.shown = n, !.frames = @ - 1]
      BY <2>6 DEF Widgets!Frame, Widgets!OnlyHome
    <3>2. player' = player /\ home.frames > 0
      BY <2>6 DEF Widgets!Frame, Widgets!OnlyHome
    <3>3. /\ home'.stage = home.stage /\ home'.count = home.count
          /\ home'.shown = n /\ home'.frames = home.frames - 1
      BY <2>1, <3>1 DEF HomeOf
    <3>4. n \in 0..home.count /\ (home.frames = 1 => n = home.count)
      BY <2>1, <3>1
    <3> QED BY <2>1, <3>2, <3>3, <3>4 DEF CounterInv
  <2>7. CASE Widgets!FlashEnds \/ Widgets!NewsEnds \/ Widgets!PulseEnds
    <3>1. player' = player
      BY <2>7 DEF Widgets!FlashEnds, Widgets!NewsEnds, Widgets!PulseEnds, Widgets!OnlyHome
    <3>2. \/ home' = [home EXCEPT !.flash = FALSE]
          \/ home' = [home EXCEPT !.news = 0]
          \/ home' = [home EXCEPT !.pulse = FALSE]
      BY <2>7 DEF Widgets!FlashEnds, Widgets!NewsEnds, Widgets!PulseEnds, Widgets!OnlyHome
    <3>3. /\ home'.stage = home.stage /\ home'.count = home.count
          /\ home'.shown = home.shown /\ home'.frames = home.frames
      BY <2>1, <3>2 DEF HomeOf
    <3> QED BY <2>1, <2>2, <3>1, <3>3
  <2>8. ASSUME NEW n \in Batch, Widgets!Gists(n) PROVE CounterInv'
    <3> DEFINE new == [i \in 1..n |-> home.count + n + 1 - i]
    <3>1. /\ home' = [home EXCEPT !.count = @ + n, !.frames = 2, !.list = Widgets!Listed(new, n),
                                  !.news = Widgets!Low(n, Keep), !.flash = TRUE, !.pulse = TRUE]
          /\ player' = player /\ home.count + n <= MaxGists /\ home.frames = 0
      BY <2>8 DEF Widgets!Gists, Widgets!OnlyHome, Widgets!Quiet
    <3> HIDE DEF new
    <3>2. /\ home'.stage = home.stage /\ home'.count = home.count + n
          /\ home'.shown = home.shown /\ home'.frames = 2
      <4>1. ASSUME NEW list, NEW news, NEW count,
                   home' = [home EXCEPT !.count = count, !.frames = 2, !.list = list,
                                        !.news = news, !.flash = TRUE, !.pulse = TRUE]
            PROVE  /\ home'.stage = home.stage /\ home'.count = count
                   /\ home'.shown = home.shown /\ home'.frames = 2
        BY <2>1, <4>1 DEF HomeOf
      <4> QED BY <3>1, <4>1
    <3> QED BY <1>0, <2>1, <3>1, <3>2 DEF CounterInv
  <2>9. CASE UNCHANGED Widgets!widgetVars
    BY <2>1, <2>2, <2>9 DEF Widgets!widgetVars
  <2> QED BY <1>2, <2>3, <2>4, <2>5, <2>6, <2>7, <2>8, <2>9 DEF WidgetsNext, Widgets!HomeNext
<1> QED BY <1>1, <1>2

\* The widgets have their types.
LEMMA WidgetTypes == WidgetsInv /\ CounterInv => Widgets!WidgetsTypeOK
<1> SUFFICES ASSUME WidgetsInv, CounterInv PROVE Widgets!WidgetsTypeOK
  OBVIOUS
<1>1. /\ team.cursor \in 1..Edge /\ team.cursorIn \in 1..CursorEvery
      /\ team.feedIn \in 1..FeedEvery
  BY DEF WidgetsInv, TeamOf
<1>2. player.playing \in BOOLEAN
  BY DEF WidgetsInv, PlayerOf
<1>3. home.shown \in 0..MaxGists
  <2>1. MaxGists \in Nat
    BY BoundsAreNumbers DEF BoundsAreNumbers
  <2> QED BY <2>1 DEF CounterInv
<1> QED BY <1>1, <1>2, <1>3 DEF CounterInv, Widgets!WidgetsTypeOK

\* The number of the builder's next filter has room for the filters there may be.
NextInv == query.next <= MaxFilters + 1

\* A filter is added while it has.
LEMMA StepNext ==
  /\ Forms!FormsInit => NextInv
  /\ QueryInv /\ NextInv /\ [FormsNext]_(Forms!formVars) => NextInv'
<1>0. MaxFilters \in Nat
  BY BoundsAreNumbers DEF BoundsAreNumbers
<1>1. Forms!FormsInit => NextInv
  BY <1>0 DEF Forms!FormsInit, NextInv
<1>2. ASSUME QueryInv, NextInv, [FormsNext]_(Forms!formVars) PROVE NextInv'
  <2>1. query.next \in Nat /\ query.next <= MaxFilters + 1
    BY <1>2 DEF QueryInv, NextInv
  <2>2. PICK n : query \in QueryOf(n)
    BY <1>2 DEF QueryInv
  <2>3. ASSUME query'.next = query.next PROVE NextInv'
    BY <2>1, <2>3 DEF NextInv
  <2>4. CASE Forms!SettingsNext \/ Forms!MailNext \/ Forms!FlagsNext \/ Forms!CardNext \/ Forms!PlanNext
    <3>1. UNCHANGED query
      BY <2>4 DEF Forms!SettingsNext, Forms!EditPrefs, Forms!SavePrefs, Forms!Reopen,
         Forms!SendTest, Forms!TestEnds, Forms!OnlySettings, Forms!MailNext, Forms!TypeRecipient,
         Forms!TestSend, Forms!OnlyMail, Forms!CardNext, Forms!PickTemplate, Forms!PickMetric,
         Forms!Generate, Forms!Download, Forms!OnlyCard, Forms!PlanNext, Forms!ApplyScenario,
         Forms!MoveSlider, Forms!OnlyPlan, Forms!FlagsNext, Forms!ToggleFlag, Forms!SetRollout,
         Forms!OnlyFlags
    <3> QED BY <2>3, <3>1
  <2>5. CASE Forms!AddFilter
    <3>1. query.next <= MaxFilters /\ \E v \in FilterValue : query' =
            [query EXCEPT !.filters = Append(@, [id |-> query.next, value |-> v]), !.next = @ + 1]
      BY <2>5 DEF Forms!AddFilter, Forms!OnlyQuery
    <3>2. query'.next = query.next + 1
      BY <2>2, <3>1 DEF QueryOf
    <3> QED BY <1>0, <2>1, <3>1, <3>2 DEF NextInv
  <2>7. CASE Forms!ToggleColumn
    <3>1. PICK columns : query' = [query EXCEPT !.columns = columns]
      BY <2>7 DEF Forms!ToggleColumn, Forms!OnlyQuery
    <3>2. query'.next = query.next
      BY <2>2, <3>1 DEF QueryOf
    <3> QED BY <2>3, <3>2
  <2>8. CASE Forms!UpdateFilter \/ Forms!RemoveFilter
    <3>1. PICK filters : query' = [query EXCEPT !.filters = filters]
      BY <2>8 DEF Forms!UpdateFilter, Forms!RemoveFilter, Forms!OnlyQuery
    <3>2. query'.next = query.next
      BY <2>2, <3>1 DEF QueryOf
    <3> QED BY <2>3, <3>2
  <2>9. CASE Forms!TypeQueryName \/ Forms!SaveQuery \/ Forms!LoadQuery
    <3>1. \/ \E named : query' = [query EXCEPT !.name = named]
          \/ \E saves : query' = [query EXCEPT !.saved = saves, !.name = FALSE]
          \/ \E columns, filters : query' = [query EXCEPT !.columns = columns, !.filters = filters]
      BY <2>9 DEF Forms!TypeQueryName, Forms!SaveQuery, Forms!LoadQuery, Forms!OnlyQuery
    <3>2. query'.next = query.next
      BY <2>2, <3>1 DEF QueryOf
    <3> QED BY <2>3, <3>2
  <2>10. CASE UNCHANGED Forms!formVars
    BY <2>3, <2>10 DEF Forms!formVars
  <2> QED BY <1>2, <2>4, <2>5, <2>7, <2>8, <2>9, <2>10 DEF FormsNext, Forms!QueryNext
<1> QED BY <1>1, <1>2

\* The forms have their types: a tenth of the users is a rollout the slider offers.
LEMMA FormTypes == FormsInv /\ FlagsInv /\ NextInv => Forms!FormsTypeOK
<1> SUFFICES ASSUME FormsInv, FlagsInv, NextInv PROVE Forms!FormsTypeOK
  OBVIOUS
<1>0. MaxFilters \in Nat
  BY BoundsAreNumbers DEF BoundsAreNumbers
<1>1. settings.prefs \in Forms!Prefs /\ settings.stored \in Forms!Prefs \cup {None}
  BY DEF FormsInv, SettingsInv, SettingsOf
<1>2. flags \in [Flag -> [on : BOOLEAN, rollout : Rollout]]
  <2>1. Rollout \cup {10} = Rollout
    BY TenthIsOffered DEF TenthIsOffered
  <2> QED BY <2>1 DEF FlagsInv
<1>3. query.next \in 1..(MaxFilters + 1)
  <2>1. query.next \in Nat \ {0} /\ query.next <= MaxFilters + 1
    BY DEF FormsInv, QueryInv, NextInv
  <2> QED BY <1>0, <2>1
<1>4. ASSUME NEW p \in DOMAIN QueryColumn
      PROVE  Forms!Range(query.columns[p]) \subseteq QueryColumn[p]
  <2>1. PICK n : query \in QueryOf(n)
    BY DEF FormsInv, QueryInv
  <2>2. query.columns[p] \in Seq(QueryColumn[p])
    BY <2>1 DEF QueryOf, ColumnsOf, Once
  <2> QED BY <2>2, SeqElements DEF Forms!Range
<1> QED BY <1>1, <1>2, <1>3, <1>4 DEF Forms!FormsTypeOK

\* A share of a whole is a hundred per cent at most.
LEMMA ShareOfAWhole ==
  ASSUME NEW a \in Nat, NEW n \in Nat \ {0}, a <= n
  PROVE  Files!Percent(a, n) \in 0..100
<1> DEFINE q == (200 * a + n) \div (2 * n)
<1>1. 200 * a + n \in Nat /\ 2 * n \in Nat \ {0} /\ 200 * a + n <= 201 * n
  OBVIOUS
<1>2. q \in Nat /\ (2 * n) * q <= 200 * a + n
  BY <1>1, Quotient
<1> HIDE DEF q
<1>3. ASSUME q >= 101 PROVE FALSE
  <2> DEFINE m == q - 101
  <2>1. m \in Nat /\ q = 101 + m
    BY <1>2, <1>3
  <2> HIDE DEF m
  <2>2. (2 * n) * q = 202 * n + (2 * n) * m
    BY <2>1
  <2>3. (2 * n) * m \in Nat
    BY <1>1, <2>1
  <2> DEFINE x == (2 * n) * m
             y == (2 * n) * q
  <2> HIDE DEF x, y
  <2>4. y = 202 * n + x /\ x \in Nat /\ y <= 200 * a + n
    BY <1>2, <2>2, <2>3 DEF x, y
  <2> QED BY <1>1, <2>4
<1> QED BY <1>2, <1>3 DEF Files!Percent, q

\* The table shown is one of the tables, the button shows a share or nothing, and a
\* message has as many timers as there may be.
ExportInv ==
  /\ csv.table \in Table /\ csv.progress \in 0..100 \cup {None}
  /\ book.timers <= MaxMessageTimers /\ json.timers <= MaxMessageTimers

\* What a chunk leaves to show.
LEMMA ChunkShows ==
  ASSUME NEW run \in RunOf, run.at <= Len(run.rows)
  PROVE  Files!Progress(Files!Chunk(run)) \in 0..100
<1> DEFINE next == Files!Chunk(run)
<1>1. next \in RunOf /\ next.rows = run.rows /\ next.at <= Len(run.rows)
  BY ChunkGoesOn
<1> HIDE DEF next
<1>2. next.at \in Nat /\ next.rows \in Seq(TableRow) /\ Len(next.rows) \in Nat
  BY <1>1 DEF RunOf
<1>3. CASE next.rows = << >>
  BY <1>3 DEF Files!Progress, next
<1>4. CASE next.rows # << >>
  <2>1. Len(next.rows) \in Nat \ {0}
    BY <1>2, <1>4
  <2>2. Files!Percent(next.at, Len(next.rows)) \in 0..100
    BY <1>1, <1>2, <2>1, ShareOfAWhole
  <2> QED BY <1>4, <2>2 DEF Files!Progress, next
<1> QED BY <1>3, <1>4

\* A step of an export shows what the chunk leaves, a hundred, or nothing.
LEMMA StepShare ==
  ASSUME CsvInv, ExportInv, Files!CsvNext
  PROVE  csv'.table \in Table /\ csv'.progress \in 0..100 \cup {None}
<1>1. /\ csv = [table |-> csv.table, run |-> csv.run, progress |-> csv.progress,
                file |-> csv.file, error |-> csv.error]
      /\ csv.table \in Seq(TableRow) /\ csv.table \in Table /\ csv.progress \in 0..100 \cup {None}
      /\ csv.run # None => csv.run \in RunOf /\ csv.run.at <= Len(csv.run.rows)
  BY DEF CsvInv, ExportInv
<1>2. ASSUME NEW run, run \in RunOf, run.at <= Len(run.rows), Files!Advance(Files!Chunk(run))
      PROVE  csv'.table \in Table /\ csv'.progress \in 0..100
  <2> DEFINE next == Files!Chunk(run)
             portion == Files!Progress(next)
  <2>1. csv' = [csv EXCEPT !.run = next, !.progress = portion, !.error = FALSE]
    BY <1>2 DEF Files!Advance, Files!OnlyCsv
  <2>2. portion \in 0..100
    BY <1>2, ChunkShows
  <2> HIDE DEF next, portion
  <2>3. csv' = [table |-> csv.table, run |-> next, progress |-> portion, file |-> csv.file,
                error |-> FALSE]
    BY <1>1, <2>1
  <2> QED BY <1>1, <2>2, <2>3
<1>3. CASE Files!ChangeTable
  <2>1. PICK t \in Table : csv' = [csv EXCEPT !.table = t]
    BY <1>3 DEF Files!ChangeTable, Files!OnlyCsv
  <2>2. csv'.table = t /\ csv'.progress = csv.progress
    BY <1>1, <2>1
  <2> QED BY <1>1, <2>1, <2>2
<1>4. CASE Files!ClickExport
  <2> DEFINE first == [rows |-> csv.table, at |-> 0, output |-> << >>]
  <2>1. first \in RunOf /\ first.at <= Len(first.rows)
    BY <1>1 DEF RunOf
  <2>2. Files!Advance(Files!Chunk(first))
    BY <1>4 DEF Files!ClickExport, Files!Begun
  <2> HIDE DEF first
  <2> QED BY <1>2, <2>1, <2>2
<1>5. CASE Files!NextChunk
  BY <1>1, <1>2, <1>5 DEF Files!NextChunk
<1>6. CASE Files!WriteFile
  <2>1. csv' = [csv EXCEPT !.file = csv.run, !.run = None, !.progress = 100]
    BY <1>6 DEF Files!WriteFile, Files!OnlyCsv
  <2>2. csv'.table = csv.table /\ csv'.progress = 100
    BY <1>1, <2>1
  <2> QED BY <1>1, <2>2
<1>7. CASE Files!LoadFails
  <2>1. csv' = [csv EXCEPT !.run = None, !.progress = None, !.error = TRUE]
    BY <1>7 DEF Files!LoadFails, Files!OnlyCsv
  <2>2. csv'.table = csv.table /\ csv'.progress = None
    BY <1>1, <2>1
  <2> QED BY <1>1, <2>2
<1>8. CASE Files!ButtonBack
  <2>1. csv' = [csv EXCEPT !.progress = None]
    BY <1>8 DEF Files!ButtonBack, Files!OnlyCsv
  <2>2. csv'.table = csv.table /\ csv'.progress = None
    BY <1>1, <2>1
  <2> QED BY <1>1, <2>2
<1> QED BY <1>3, <1>4, <1>5, <1>6, <1>7, <1>8 DEF Files!CsvNext

\* A message is shown while a timer can be started for it.
LEMMA StepExport ==
  /\ Files!ExportsInit => ExportInv
  /\ CsvInv /\ FilesInv /\ ExportInv /\ [FilesNext]_(Files!exportVars) => ExportInv'
<1>0. MaxMessageTimers \in Nat
  BY BoundsAreNumbers DEF BoundsAreNumbers
<1>1. Files!ExportsInit => ExportInv
  BY <1>0 DEF Files!ExportsInit, ExportInv
<1>2. ASSUME CsvInv, FilesInv, ExportInv, [FilesNext]_(Files!exportVars) PROVE ExportInv'
  <2>1. /\ csv.table \in Table /\ csv.progress \in 0..100 \cup {None}
        /\ book.timers <= MaxMessageTimers /\ json.timers <= MaxMessageTimers
    BY <1>2 DEF ExportInv
  <2>2. /\ book = [loading |-> book.loading, status |-> book.status, error |-> book.error,
                   timers |-> book.timers, top |-> book.top]
        /\ json = [pretty |-> json.pretty, status |-> json.status, timers |-> json.timers,
                   top |-> json.top]
        /\ book.timers \in Nat /\ json.timers \in Nat
    BY <1>2 DEF FilesInv, Timed, TimedJson
  <2>3. CASE Files!CsvNext
    <3>1. UNCHANGED <<book, json>>
      BY <2>3 DEF Files!CsvNext, Files!ChangeTable, Files!ClickExport, Files!NextChunk,
         Files!WriteFile, Files!LoadFails, Files!ButtonBack, Files!Advance, Files!OnlyCsv
    <3> QED BY <1>2, <2>1, <2>3, <3>1, StepShare DEF ExportInv
  <2>4. ASSUME csv' = csv, book'.timers <= MaxMessageTimers, json'.timers <= MaxMessageTimers
        PROVE  ExportInv'
    BY <2>1, <2>4 DEF ExportInv
  <2>5. CASE Files!BookNext
    <3>1. UNCHANGED <<csv, json>>
      BY <2>5 DEF Files!BookNext, Files!ClickBook, Files!BookFails, Files!BookMessageEnds,
         Files!BookDone, Files!OnlyBook
    <3>2. \/ book' = [book EXCEPT !.loading = TRUE, !.status = FALSE, !.error = FALSE]
          \/ book' = [book EXCEPT !.loading = FALSE, !.error = TRUE]
          \/ book.timers > 0 /\ book' = [book EXCEPT !.timers = @ - 1, !.status = FALSE]
          \/ book.timers < MaxMessageTimers /\ \E top :
               book' = [book EXCEPT !.loading = FALSE, !.status = TRUE, !.timers = @ + 1, !.top = top]
      BY <2>5 DEF Files!BookNext, Files!ClickBook, Files!BookFails, Files!BookMessageEnds,
         Files!BookDone, Files!OnlyBook
    <3>3. \/ book'.timers = book.timers
          \/ book.timers > 0 /\ book'.timers = book.timers - 1
          \/ book.timers < MaxMessageTimers /\ book'.timers = book.timers + 1
      BY <2>2, <3>2
    <3>4. book'.timers <= MaxMessageTimers
      BY <1>0, <2>1, <2>2, <3>3
    <3> QED BY <2>1, <2>4, <3>1, <3>4
  <2>6. CASE Files!JsonNext
    <3>1. UNCHANGED <<csv, book>>
      BY <2>6 DEF Files!JsonNext, Files!PickPretty, Files!JsonMessageEnds, Files!ClickJson,
         Files!OnlyJson
    <3>2. \/ \E pretty : json' = [json EXCEPT !.pretty = pretty]
          \/ json.timers > 0 /\ json' = [json EXCEPT !.timers = @ - 1, !.status = None]
          \/ json.timers < MaxMessageTimers /\ \E status, top :
               json' = [json EXCEPT !.status = status, !.timers = @ + 1, !.top = top]
      BY <2>6 DEF Files!JsonNext, Files!PickPretty, Files!JsonMessageEnds, Files!ClickJson,
         Files!OnlyJson
    <3>3. \/ json'.timers = json.timers
          \/ json.timers > 0 /\ json'.timers = json.timers - 1
          \/ json.timers < MaxMessageTimers /\ json'.timers = json.timers + 1
      BY <2>2, <3>2
    <3>4. json'.timers <= MaxMessageTimers
      BY <1>0, <2>1, <2>2, <3>3
    <3> QED BY <2>1, <2>4, <3>1, <3>4
  <2>7. CASE Files!PictureNext
    <3>1. UNCHANGED <<csv, book, json>>
      BY <2>7 DEF Files!PictureNext, Files!PickBackground, Files!ClickPicture,
         Files!PictureTaken, Files!PictureFails, Files!OnlyPicture
    <3> QED BY <2>1, <2>4, <3>1
  <2>8. CASE UNCHANGED Files!exportVars
    BY <2>1, <2>4, <2>8 DEF Files!exportVars
  <2> QED BY <1>2, <2>3, <2>5, <2>6, <2>7, <2>8 DEF FilesNext
<1> QED BY <1>1, <1>2

\* The exports have their types.
LEMMA ExportTypes == FilesInv /\ ExportInv => Files!ExportsTypeOK
<1> SUFFICES ASSUME FilesInv, ExportInv PROVE Files!ExportsTypeOK
  OBVIOUS
<1>1. MaxMessageTimers \in Nat /\ book.timers \in Nat /\ json.timers \in Nat
  BY BoundsAreNumbers DEF BoundsAreNumbers, FilesInv, Timed, TimedJson
<1>2. book.timers <= MaxMessageTimers /\ json.timers <= MaxMessageTimers
  BY DEF ExportInv
<1>3. book.timers \in 0..MaxMessageTimers /\ json.timers \in 0..MaxMessageTimers
  BY <1>1, <1>2
<1> QED BY <1>3 DEF ExportInv, Files!ExportsTypeOK
-----------------------------------------------------------------------------
(* The types of the component library *)

\* The select box's place is one of its options, or none.
SelectPlace == select.active \in -1..Components!LastPlace(Len(Option))
\* The menu's is one of its items, or none.
MenuInv == menu \in [open : BOOLEAN, active : -1..Len(MenuOff) - 1]
\* The palette's is one of the commands or of those used recently, or none.
CommandPlace ==
  palette \in [open : BOOLEAN, query : TypedText \cup {<< >>}, ran : 0..Len(Command),
               cursor : -1..Components!LastPlace(Components!Larger(Len(Command), Len(Recent)))]
TabPlace == tabs \in [active : 1..Len(TabOff), chosen : BOOLEAN]
PagerPlace == pager \in [page : 1..MaxPages, total : 1..MaxPages]

\* There are places from none to the last, and none is before the first.
LEMMA PlacesAre ==
  ASSUME NEW n \in Nat
  PROVE  /\ Components!LastPlace(n) \in Nat /\ n - 1 <= Components!LastPlace(n)
         /\ -1 \in -1..Components!LastPlace(n) /\ 0 \in -1..Components!LastPlace(n)
         /\ -1..n - 1 \subseteq -1..Components!LastPlace(n)
BY DEF Components!LastPlace, Components!Larger

\* The keys go from a place to the next or to the one before, among those listed.
LEMMA KeysKeepPlaces ==
  ASSUME NEW n \in Nat, NEW m \in 0..n, NEW a \in -1..Components!LastPlace(n)
  PROVE  /\ Components!Smaller(a + 1, m - 1) \in -1..Components!LastPlace(n)
         /\ Components!Larger(a - 1, 0) \in -1..Components!LastPlace(n)
<1> DEFINE last == Components!LastPlace(n)
<1>1. last \in Nat /\ n - 1 <= last
  BY PlacesAre
<1> HIDE DEF last
<1>2. Components!Smaller(a + 1, m - 1) \in -1..last
  BY <1>1 DEF last, Components!Smaller
<1>3. Components!Larger(a - 1, 0) \in -1..last
  BY <1>1 DEF last, Components!Larger
<1> QED BY <1>2, <1>3 DEF last

\* An option chosen, by key or by click, leaves the place where it was.
LEMMA StepSelectPlace ==
  /\ Components!KitInit => SelectPlace
  /\ SelectInv /\ SelectPlace /\ [Components!SelectNext]_select => SelectPlace'
<1>0. Len(Option) \in Nat
  BY KitConstants
<1>1. ASSUME Components!KitInit PROVE SelectPlace
  <2>1. PICK m \in BOOLEAN : select = [multiple |-> m, open |-> FALSE, search |-> Blank,
                                       active |-> -1, value |-> << >>]
    BY <1>1 DEF Components!KitInit, Blank
  <2> QED BY <1>0, <2>1, PlacesAre DEF SelectPlace
<1>2. ASSUME SelectInv, SelectPlace, [Components!SelectNext]_select PROVE SelectPlace'
  <2>1. select \in SelectOf /\ select.active \in -1..Components!LastPlace(Len(Option))
    BY <1>2 DEF SelectInv, SelectPlace
  <2>2. ASSUME NEW a \in -1..Components!LastPlace(Len(Option)), select'.active = a
        PROVE  SelectPlace'
    BY <2>2 DEF SelectPlace
  <2>3. CASE Components!SelectTrigger \/ Components!SelectOutside \/ Components!SelectSearch
    <3>1. PICK b, q : \/ select' = [select EXCEPT !.open = b]
                      \/ select' = [select EXCEPT !.search = q]
      BY <2>3 DEF Components!SelectTrigger, Components!SelectOutside, Components!SelectSearch,
           Components!OnlySelect
    <3>2. select'.active = select.active
      BY <2>1, <3>1 DEF SelectOf
    <3> QED BY <2>1, <2>2, <3>2
  <2>4. CASE Components!SelectTriggerKey
    <3>1. select' = [select EXCEPT !.open = TRUE, !.active = 0]
      BY <2>4 DEF Components!SelectTriggerKey, Components!OnlySelect
    <3>2. select'.active = 0
      BY <2>1, <3>1 DEF SelectOf
    <3> QED BY <1>0, <2>2, <3>2, PlacesAre
  <2>5. CASE Components!SelectEscape
    <3>1. select' = [select EXCEPT !.open = FALSE, !.active = -1]
      BY <2>5 DEF Components!SelectEscape, Components!OnlySelect
    <3>2. select'.active = -1
      BY <2>1, <3>1 DEF SelectOf
    <3> QED BY <1>0, <2>2, <3>2, PlacesAre
  <2>6. CASE Components!SelectDown \/ Components!SelectUp
    <3> DEFINE list == Components!Filtered(select)
               all == [i \in 1..Len(Option) |-> i]
    <3>1. Len(list) \in 0..Len(Option)
      <4>1. all \in Seq(1..Len(Option)) /\ Len(all) = Len(Option)
        BY <1>0, CountingUp
      <4>2. list = Kept(all, FoundBy[select.search])
        BY OneFilter DEF Components!Filtered
      <4> HIDE DEF all, list
      <4>3. list \in Seq(1..Len(Option)) /\ Len(list) <= Len(all)
        BY <4>1, <4>2, KeptFacts
      <4> QED BY <4>1, <4>3
    <3>2. PICK a : /\ select' = [select EXCEPT !.active = a]
                   /\ a \in {Components!Smaller(select.active + 1, Len(list) - 1),
                             Components!Larger(select.active - 1, 0)}
      BY <2>6 DEF Components!SelectDown, Components!SelectUp, Components!OnlySelect
    <3> HIDE DEF list
    <3>3. a \in -1..Components!LastPlace(Len(Option))
      BY <1>0, <2>1, <3>1, <3>2, KeysKeepPlaces
    <3>4. select'.active = a
      BY <2>1, <3>2 DEF SelectOf
    <3> QED BY <2>2, <3>3, <3>4
  <2>7. CASE Components!SelectEnter \/ Components!SelectOption
    <3>1. PICK o : select' = Components!Toggle(select, o)
      BY <2>7 DEF Components!SelectEnter, Components!SelectOption, Components!OnlySelect
    <3>2. PICK v : \/ select' = [select EXCEPT !.value = v, !.open = FALSE]
                   \/ select' = [select EXCEPT !.value = v]
      BY <3>1 DEF Components!Toggle
    <3>3. select'.active = select.active
      BY <2>1, <3>2 DEF SelectOf
    <3> QED BY <2>1, <2>2, <3>3
  <2>8. CASE UNCHANGED select
    BY <2>1, <2>2, <2>8
  <2> QED BY <1>2, <2>3, <2>4, <2>5, <2>6, <2>7, <2>8 DEF Components!SelectNext
<1> QED BY <1>1, <1>2
\* The arrows go round the menu's items, from none as well.
LEMMA StepMenu ==
  /\ Components!KitInit => MenuInv
  /\ MenuInv /\ [Components!MenuNext]_menu => MenuInv'
<1> DEFINE n == Len(MenuOff)
           place == -1..n - 1
<1>1. n \in Nat \ {0}
  <2>1. MenuOff \in Seq(BOOLEAN) /\ MenuOff # << >>
    BY MenuHasItems DEF MenuHasItems
  <2> QED BY <2>1
<1> HIDE DEF n
<1>2. -1 \in place /\ 0 \in place
  BY <1>1
<1>3. \A m : m \in [open : BOOLEAN, active : place] /\ menu = m => MenuInv
  BY DEF MenuInv, n
<1>4. \A m : m \in [open : BOOLEAN, active : place] /\ menu' = m => MenuInv'
  BY DEF MenuInv, n
<1>5. MenuInv => menu \in [open : BOOLEAN, active : place]
  BY DEF MenuInv, n
<1>6. ASSUME NEW a \in place PROVE /\ Components!Rem(a + 1, n) \in place
                                   /\ Components!Rem(a - 1 + n, n) \in place
  <2>1. a \in Int /\ -1 <= a /\ a <= n - 1
    BY <1>1
  <2>2. \A b \in Nat : b % n \in 0..n - 1
    BY <1>1
  <2>3. Components!Rem(a + 1, n) \in place
    <3>1. a + 1 >= 0 /\ a + 1 \in Nat
      BY <2>1
    <3>2. (a + 1) % n \in place
      BY <1>1, <2>2, <3>1
    <3> HIDE DEF place
    <3> QED BY <3>1, <3>2 DEF Components!Rem
  <2>4. Components!Rem(a - 1 + n, n) \in place
    <3> DEFINE b == a - 1 + n
    <3>1. CASE b >= 0
      <4>1. b \in Nat
        BY <1>1, <2>1, <3>1
      <4> HIDE DEF b
      <4>2. b % n \in place
        BY <1>1, <2>2, <4>1
      <4> HIDE DEF place
      <4>3. Components!Rem(b, n) \in place
        BY <3>1, <4>2 DEF Components!Rem
      <4> QED BY <4>3 DEF b
    <3>2. CASE ~(b >= 0)
      <4>1. b = -1 /\ n = 1
        BY <1>1, <2>1, <3>2
      <4>2. (-b) % n = 0
        BY <4>1
      <4> HIDE DEF b
      <4>3. Components!Rem(b, n) = 0
        BY <3>2, <4>1, <4>2 DEF Components!Rem
      <4> QED BY <1>2, <4>3 DEF b
    <3> QED BY <3>1, <3>2
  <2> QED BY <2>3, <2>4
<1> HIDE DEF place
<1>9. /\ [open |-> FALSE, active |-> -1] \in [open : BOOLEAN, active : place]
      /\ [open |-> TRUE, active |-> 0] \in [open : BOOLEAN, active : place]
  BY <1>2
<1>7. ASSUME Components!KitInit PROVE MenuInv
  <2>1. menu = [open |-> FALSE, active |-> -1]
    BY <1>7 DEF Components!KitInit
  <2> QED BY <1>3, <1>9, <2>1
<1>8. ASSUME MenuInv, [Components!MenuNext]_menu PROVE MenuInv'
  <2>1. menu \in [open : BOOLEAN, active : place]
    BY <1>5, <1>8
  <2>2. CASE Components!MenuTrigger \/ Components!MenuItem
    <3>1. PICK b \in BOOLEAN : menu' = [menu EXCEPT !.open = b]
      <4>1. (~menu.open) \in BOOLEAN /\ FALSE \in BOOLEAN
        OBVIOUS
      <4> QED BY <2>2, <4>1 DEF Components!MenuTrigger, Components!MenuItem, Components!OnlyMenu
    <3>2. menu' \in [open : BOOLEAN, active : place]
      BY <2>1, <3>1
    <3> QED BY <1>4, <3>2
  <2>3. CASE Components!MenuTriggerKey \/ Components!MenuOutside \/ Components!MenuEscape
    <3>1. menu' \in {[open |-> TRUE, active |-> 0], [open |-> FALSE, active |-> -1]}
      BY <2>3 DEF Components!MenuTriggerKey, Components!MenuOutside, Components!MenuEscape,
           Components!OnlyMenu
    <3>2. menu' \in [open : BOOLEAN, active : place]
      BY <1>9, <3>1
    <3> QED BY <1>4, <3>2
  <2>4. CASE Components!MenuDown \/ Components!MenuUp
    <3>1. PICK a : /\ menu' = [menu EXCEPT !.active = a]
                   /\ a \in {Components!Rem(menu.active + 1, n), Components!Rem(menu.active - 1 + n, n)}
      BY <2>4 DEF Components!MenuDown, Components!MenuUp, Components!OnlyMenu, n
    <3>2. a \in place
      BY <1>6, <2>1, <3>1
    <3>3. menu' \in [open : BOOLEAN, active : place]
      BY <2>1, <3>1, <3>2
    <3> QED BY <1>4, <3>3
  <2>5. CASE UNCHANGED menu
    BY <1>4, <2>1, <2>5
  <2> QED BY <1>8, <2>2, <2>3, <2>4, <2>5 DEF Components!MenuNext
<1> QED BY <1>7, <1>8

\* No more commands are listed than there are, or than were used recently.
LEMMA ListedAreFew ==
  ASSUME NEW q \in Seq(STRING)
  PROVE  /\ Components!Larger(Len(Command), Len(Recent)) \in Nat
         /\ Len(Components!Commands(q)) \in 0..Components!Larger(Len(Command), Len(Recent))
<1> DEFINE every == [i \in 1..Len(Command) |-> i]
           fit == {c \in 1..Len(Command) : Components!Fuzzy(q, Command[c])}
           n == Components!Smaller(Unfiltered, Len(Command))
           most == Components!Larger(Len(Command), Len(Recent))
<1>1. Len(Command) \in Nat /\ Unfiltered \in Nat /\ Recent \in Seq(1..Len(Command))
  BY KitConstants
<1>2. Len(Recent) \in Nat
  BY <1>1
<1>3. most \in Nat /\ Len(Command) <= most /\ Len(Recent) <= most
  BY <1>1, <1>2 DEF Components!Larger
<1>4. Components!Commands(q) \in Seq(1..Len(Command)) /\ Len(Components!Commands(q)) \in Nat
  <2>1. Components!Commands(q) \in Seq(1..Len(Command))
    BY CommandsAreListed
  <2> QED BY <2>1
<1> HIDE DEF most
<1>5. CASE q # << >>
  <2>1. every \in Seq(1..Len(Command)) /\ Len(every) = Len(Command)
    BY <1>1, CountingUp
  <2>2. Components!Commands(q) = Kept(every, fit)
    BY <1>5, OneFilter DEF Components!Commands
  <2> HIDE DEF every, fit
  <2>3. Len(Kept(every, fit)) <= Len(every)
    BY <2>1, KeptFacts
  <2> QED BY <1>1, <1>3, <1>4, <2>1, <2>2, <2>3 DEF most
<1>6. CASE q = << >> /\ Recent # << >>
  <2>1. Components!Commands(q) = Recent
    BY <1>6 DEF Components!Commands
  <2> QED BY <1>2, <1>3, <2>1 DEF most
<1>7. CASE q = << >> /\ Recent = << >>
  <2>1. n \in Nat /\ n <= Len(Command)
    BY <1>1 DEF Components!Smaller
  <2>2. Components!Commands(q) = [i \in 1..n |-> i]
    BY <1>7 DEF Components!Commands
  <2> HIDE DEF n
  <2>3. Len([i \in 1..n |-> i]) = n
    BY <2>1, CountingUp
  <2> QED BY <1>1, <1>3, <2>1, <2>2, <2>3 DEF most
<1> QED BY <1>5, <1>6, <1>7
\* The cursor is on a command listed, or where one was; what ran is a command.
LEMMA StepCommandPlace ==
  /\ Components!KitInit => CommandPlace
  /\ CommandInv /\ CommandPlace /\ [Components!PaletteNext]_palette => CommandPlace'
<1> DEFINE most == Components!Larger(Len(Command), Len(Recent))
           text == TypedText \cup {<< >>}
           place == -1..Components!LastPlace(most)
           typed == [open : BOOLEAN, query : text, ran : 0..Len(Command), cursor : place]
<1>1. most \in Nat
  <2>1. << >> \in Seq(STRING)
    OBVIOUS
  <2> QED BY <2>1, ListedAreFew
<1>2. CommandPlace <=> palette \in typed
  BY DEF CommandPlace
<1>3. CommandPlace' <=> palette' \in typed
  BY DEF CommandPlace
<1>4. 0 \in place /\ 0 \in 0..Len(Command) /\ << >> \in text
  BY <1>1, PlacesAre, KitConstants
<1>5. most - 1 <= Components!LastPlace(most) /\ Components!LastPlace(most) \in Nat
  BY <1>1, PlacesAre
<1> HIDE DEF most, text
<1>6. ASSUME Components!KitInit PROVE CommandPlace
  <2>1. palette = [open |-> FALSE, query |-> << >>, cursor |-> 0, ran |-> 0]
    BY <1>6 DEF Components!KitInit
  <2> HIDE DEF place
  <2>2. palette \in typed
    BY <1>4, <2>1
  <2> QED BY <1>2, <2>2
<1>7. ASSUME CommandInv, CommandPlace, [Components!PaletteNext]_palette PROVE CommandPlace'
  <2>1. palette \in typed /\ palette.query \in Seq(STRING)
    BY <1>2, <1>7 DEF CommandInv, CommandOf
  <2> DEFINE offered == Components!Listed
  <2>2. offered \in Seq(1..Len(Command)) /\ Len(offered) \in 0..most
    BY <2>1, CommandsAreListed, ListedAreFew DEF Components!Listed, most
  <2> HIDE DEF offered
  <2>3. \A b \in BOOLEAN : palette' = [palette EXCEPT !.open = b] => palette' \in typed
    BY <2>1
  <2>4. \A a \in place : palette' = [palette EXCEPT !.cursor = a] => palette' \in typed
    BY <2>1
  <2>5. CASE Components!PaletteKey \/ Components!PaletteClose
    <3>1. CASE palette' = [palette EXCEPT !.open = FALSE]
      BY <1>3, <2>3, <3>1
    <3>2. CASE palette' = [palette EXCEPT !.open = TRUE, !.query = << >>, !.cursor = 0]
      <4> DEFINE s == [palette EXCEPT !.open = TRUE]
                 t == [s EXCEPT !.query = << >>]
                 u == [t EXCEPT !.cursor = 0]
      <4> HIDE DEF place
      <4>1. palette' = u
        BY <3>2
      <4>2. s \in typed
        BY <2>1
      <4> HIDE DEF s
      <4>3. t \in typed
        BY <1>4, <4>2
      <4> HIDE DEF t
      <4>4. u \in typed
        BY <1>4, <4>3
      <4> HIDE DEF u
      <4> QED BY <1>3, <4>1, <4>4
    <3> QED BY <2>5, <3>1, <3>2 DEF Components!PaletteKey, Components!PaletteClose,
              Components!OnlyPalette
  <2>6. CASE Components!PaletteType
    <3>1. PICK q \in TypedText : palette' = [palette EXCEPT !.query = q, !.cursor = 0]
      BY <2>6 DEF Components!PaletteType, Components!OnlyPalette
    <3>2. q \in text
      BY DEF text
    <3> DEFINE t == [palette EXCEPT !.query = q]
               u == [t EXCEPT !.cursor = 0]
    <3> HIDE DEF place
    <3>3. palette' = u
      BY <3>1
    <3>4. t \in typed
      BY <2>1, <3>2
    <3> HIDE DEF t
    <3>5. u \in typed
      BY <1>4, <3>4
    <3> HIDE DEF u
    <3> QED BY <1>3, <3>3, <3>5
  <2>7. CASE Components!PaletteClear
    <3>1. palette' = [palette EXCEPT !.query = << >>]
      BY <2>7 DEF Components!PaletteClear, Components!OnlyPalette
    <3> HIDE DEF place
    <3>2. palette' \in typed
      BY <1>4, <2>1, <3>1
    <3> QED BY <1>3, <3>2
  <2>8. CASE Components!PaletteDown \/ Components!PaletteUp
    <3>1. PICK a : /\ palette' = [palette EXCEPT !.cursor = a]
                   /\ a \in {Components!Smaller(palette.cursor + 1, Len(offered) - 1),
                             Components!Larger(palette.cursor - 1, 0)}
      BY <2>8 DEF Components!PaletteDown, Components!PaletteUp, Components!OnlyPalette, offered
    <3>2. a \in place
      BY <1>1, <2>1, <2>2, <3>1, KeysKeepPlaces
    <3> QED BY <1>3, <2>4, <3>1, <3>2
  <2>9. CASE Components!PaletteHover
    <3>1. PICK i \in Components!Places(offered) : palette' = [palette EXCEPT !.cursor = i]
      BY <2>9 DEF Components!PaletteHover, Components!OnlyPalette, offered
    <3>2. i \in 0..Len(offered) - 1
      BY <3>1 DEF Components!Places
    <3>3. i \in place
      BY <1>1, <1>5, <2>2, <3>2
    <3> QED BY <1>3, <2>4, <3>1, <3>3
  <2>10. CASE Components!PaletteEnter \/ Components!PaletteClick
    <3>1. PICK i \in DOMAIN offered : palette' = [palette EXCEPT !.ran = offered[i], !.open = FALSE]
      <4>1. CASE Components!PaletteEnter
        <5>1. palette.cursor \in Int /\ palette.cursor \in 0..Len(offered) - 1
          BY <2>1, <4>1, <1>7 DEF CommandInv, CommandOf, Components!PaletteEnter, Components!Places, offered
        <5>2. palette.cursor + 1 \in DOMAIN offered
          BY <2>2, <5>1
        <5> QED BY <4>1, <5>2 DEF Components!PaletteEnter, Components!OnlyPalette, offered
      <4>2. CASE Components!PaletteClick
        BY <4>2 DEF Components!PaletteClick, Components!OnlyPalette, Components!Range, offered
      <4> QED BY <2>10, <4>1, <4>2
    <3>2. offered[i] \in 1..Len(Command)
      BY <2>2, SeqElements
    <3>3. offered[i] \in 0..Len(Command)
      BY <3>2, KitConstants
    <3> DEFINE t == [palette EXCEPT !.ran = offered[i]]
    <3>4. palette' = [t EXCEPT !.open = FALSE]
      BY <3>1
    <3> HIDE DEF place
    <3>5. t \in typed
      BY <2>1, <3>3
    <3> HIDE DEF t
    <3>6. palette' \in typed
      BY <3>4, <3>5
    <3> QED BY <1>3, <3>6
  <2>11. CASE UNCHANGED palette
    BY <1>3, <2>1, <2>11
  <2> QED BY <1>7, <2>5, <2>6, <2>7, <2>8, <2>9, <2>10, <2>11 DEF Components!PaletteNext
<1> QED BY <1>6, <1>7

\* A strip of tabs starts with one of them, and one of them is chosen.
LEMMA StepTabPlace ==
  /\ Components!KitInit => TabPlace
  /\ TabPlace /\ [Components!TabsNext]_tabs => TabPlace'
<1>1. ASSUME Components!KitInit PROVE TabPlace
  <2>1. PICK t \in FirstTab : tabs = [active |-> t, chosen |-> FALSE]
    BY <1>1 DEF Components!KitInit
  <2>2. t \in 1..Len(TabOff)
    BY TabsAreThere DEF TabsAreThere
  <2> QED BY <2>1, <2>2 DEF TabPlace
<1>2. ASSUME TabPlace, [Components!TabsNext]_tabs PROVE TabPlace'
  <2>1. CASE Components!TabsNext
    <3>1. PICK i : i \in 1..Len(TabOff) /\ Components!OnlyTabs(i)
      BY <2>1, TabsAreChosen
    <3> QED BY <3>1 DEF Components!OnlyTabs, TabPlace
  <2>2. CASE UNCHANGED tabs
    BY <1>2, <2>2 DEF TabPlace
  <2> QED BY <1>2, <2>1, <2>2
<1> QED BY <1>1, <1>2
\* The page shown is one that a table may have.
LEMMA StepPagerPlace ==
  /\ Components!KitInit => PagerPlace
  /\ PagerInv /\ PagerPlace /\ [Components!PagerNext]_pager => PagerPlace'
<1>0. MaxPages \in Nat
  BY BoundsAreNumbers DEF BoundsAreNumbers
<1>1. ASSUME Components!KitInit PROVE PagerPlace
  <2>1. PICK n \in 1..MaxPages : pager = [page |-> 1, total |-> n]
    BY <1>1, Zenon DEF Components!KitInit
  <2>2. 1 \in 1..MaxPages
    BY <1>0
  <2> QED BY <2>1, <2>2 DEF PagerPlace
<1>2. ASSUME PagerInv, PagerPlace, [Components!PagerNext]_pager PROVE PagerPlace'
  <2>1. pager \in [page : 1..MaxPages, total : 1..MaxPages]
    BY <1>2 DEF PagerPlace
  <2>2. CASE Components!PagePrevious \/ Components!PageFollowing \/ Components!PageNumber
    <3>1. PICK p : pager' = [pager EXCEPT !.page = p]
      BY <2>2 DEF Components!PagePrevious, Components!PageFollowing, Components!PageNumber,
           Components!OnlyPager
    <3>2. CASE pager'.page = pager.page
      <4>1. pager' = pager
        BY <2>1, <3>1, <3>2
      <4> QED BY <1>2, <4>1 DEF PagerPlace
    <3>3. CASE pager'.page # pager.page
      <4>1. pager'.page \in 1..pager.total
        BY <1>2, <3>3, StepPager DEF PagerGoes
      <4>2. pager'.page \in 1..MaxPages
        BY <1>0, <2>1, <4>1
      <4>3. pager'.page = p
        BY <2>1, <3>1
      <4> QED BY <2>1, <3>1, <4>2, <4>3 DEF PagerPlace
    <3> QED BY <3>2, <3>3
  <2>3. CASE Components!PageSize
    <3>1. PICK n \in 1..MaxPages : pager' = [pager EXCEPT !.total = n]
      BY <2>3 DEF Components!PageSize, Components!OnlyPager
    <3> QED BY <2>1, <3>1 DEF PagerPlace
  <2>4. CASE UNCHANGED pager
    BY <1>2, <2>4 DEF PagerPlace
  <2> QED BY <1>2, <2>2, <2>3, <2>4 DEF Components!PagerNext
<1> QED BY <1>1, <1>2

\* Each component is where it can be.
KitInv ==
  /\ SelectPlace /\ MenuInv /\ CommandPlace /\ TabPlace /\ PagerPlace

\* Every component of the kit keeps its place within what it lists.
LEMMA StepKit ==
  /\ Components!KitInit => KitInv
  /\ SelectInv /\ CommandInv /\ PagerInv /\ KitInv /\ [Components!KitNext]_(Components!kitVars) => KitInv'
<1>1. Components!KitInit => KitInv
  BY StepSelectPlace, StepMenu, StepCommandPlace, StepTabPlace, StepPagerPlace DEF KitInv
<1>2. ASSUME SelectInv, CommandInv, PagerInv, KitInv, [Components!KitNext]_(Components!kitVars)
      PROVE  KitInv'
  BY <1>2, KitMoves, StepSelectPlace, StepMenu, StepCommandPlace, StepTabPlace, StepPagerPlace
     DEF KitInv
<1> QED BY <1>1, <1>2

\* So the component library has its types.
LEMMA KitTypes ==
  SelectInv /\ SectionsInv /\ RangeInv /\ KitInv => Components!KitTypeOK
<1> SUFFICES ASSUME SelectInv, SectionsInv, RangeInv, KitInv PROVE Components!KitTypeOK
  OBVIOUS
<1>1. select \in [multiple : BOOLEAN, open : BOOLEAN, search : DOMAIN FoundBy,
                  active : -1..Components!LastPlace(Len(Option)), value : Seq(1..Len(Option))]
  <2>1. select \in SelectOf /\ select.active \in -1..Components!LastPlace(Len(Option))
    BY DEF SelectInv, KitInv, SelectPlace
  <2> DEFINE place == -1..Components!LastPlace(Len(Option))
  <2> HIDE DEF place
  <2>2. select.active \in place /\ Once(1..Len(Option)) \subseteq Seq(1..Len(Option))
    BY <2>1 DEF place, Once
  <2>3. select \in [multiple : BOOLEAN, open : BOOLEAN, search : DOMAIN FoundBy,
                    active : place, value : Seq(1..Len(Option))]
    BY <2>1, <2>2 DEF SelectOf
  <2> QED BY <2>3 DEF place
<1>2. sections \in [multiple : BOOLEAN, first : SUBSET Section, open : SUBSET Section]
  BY DEF SectionsInv, SectionsOf
<1>3. range \in [lo : RangeMin..RangeMax, hi : RangeMin..RangeMax]
  BY DEF RangeInv, RangeOf
<1> QED BY <1>1, <1>2, <1>3 DEF Components!KitTypeOK, KitInv, MenuInv, CommandPlace, TabPlace, PagerPlace
-----------------------------------------------------------------------------
(* The types of what surrounds the charts *)

\* No more refreshes begin than the bound lets.
RefreshesAreFew == refresh.started <= MaxRefresh

\* A refresh starts only while the bound is not reached.
LEMMA StepRefreshes ==
  /\ Dash!DashInit => RefreshesAreFew
  /\ RefreshInv /\ RefreshesAreFew /\ [Dash!RefreshNext]_refresh => RefreshesAreFew'
<1>0. MaxRefresh \in Nat
  BY BoundsAreNumbers DEF BoundsAreNumbers
<1>1. ASSUME Dash!DashInit PROVE RefreshesAreFew
  <2>1. refresh.started = 0
    BY <1>1 DEF Dash!DashInit
  <2> QED BY <1>0, <2>1 DEF RefreshesAreFew
<1>2. ASSUME RefreshInv, RefreshesAreFew, [Dash!RefreshNext]_refresh PROVE RefreshesAreFew'
  <2>1. refresh \in RefreshOf /\ refresh.started \in Nat
    BY <1>2 DEF RefreshInv, RefreshOf
  <2>2. CASE Dash!RefreshClick \/ Dash!RefreshTimer
    <3>1. /\ refresh.started < MaxRefresh
          /\ refresh' = Dash!Begin(refresh, "user") \/ refresh' = Dash!Begin(refresh, "timer")
      BY <2>2 DEF Dash!RefreshClick, Dash!RefreshTimer, Dash!MayBegin, Dash!OnlyRefresh
    <3>2. PICK r : refresh' = [refresh EXCEPT !.running = r, !.busy = TRUE, !.started = refresh.started + 1]
      BY <3>1 DEF Dash!Begin
    <3>3. refresh'.started = refresh.started + 1
      BY <2>1, <3>2 DEF RefreshOf
    <3> QED BY <1>0, <2>1, <3>1, <3>3 DEF RefreshesAreFew
  <2>3. CASE Dash!RefreshEnds \/ Dash!NoteEnds \/ Dash!AutoRefresh
    <3>1. refresh'.started = refresh.started
      BY <2>1, <2>3 DEF Dash!RefreshEnds, Dash!NoteEnds, Dash!AutoRefresh, Dash!OnlyRefresh, RefreshOf
    <3> QED BY <1>2, <3>1 DEF RefreshesAreFew
  <2>4. CASE UNCHANGED refresh
    BY <1>2, <2>4 DEF RefreshesAreFew
  <2> QED BY <1>2, <2>2, <2>3, <2>4 DEF Dash!RefreshNext
<1> QED BY <1>1, <1>2

\* So toasts, button, dates, table and report have their types.
LEMMA DashTypes ==
  ToastsInv /\ RefreshInv /\ RefreshesAreFew /\ DatesInv /\ TableInv /\ ReportDone => Dash!DashTypeOK
<1> SUFFICES ASSUME ToastsInv, RefreshInv, RefreshesAreFew, DatesInv, TableInv, ReportDone
             PROVE  Dash!DashTypeOK
  OBVIOUS
<1>1. /\ toasts.added \in 0..MaxToasts /\ toasts.redraw \in BOOLEAN
      /\ \A i \in DOMAIN toasts.shown : toasts.shown[i] \in [id : 1..MaxToasts, left : 0..Duration]
  <2>1. toasts.shown \in Seq(ToastOf) /\ toasts.added \in 0..MaxToasts /\ toasts.redraw \in BOOLEAN
    BY DEF ToastsInv
  <2>2. \A i \in DOMAIN toasts.shown : toasts.shown[i] \in ToastOf
    BY <2>1, SeqElements
  <2> QED BY <2>1, <2>2 DEF ToastOf
<1>2. refresh \in [auto : BOOLEAN, running : Seq({"user", "timer"}), busy : BOOLEAN, note : BOOLEAN,
                   at : 0..MaxRefresh, started : 0..MaxRefresh]
  <2>0. MaxRefresh \in Nat
    BY BoundsAreNumbers DEF BoundsAreNumbers
  <2>1. refresh \in RefreshOf /\ refresh.started = refresh.at + Len(refresh.running)
    BY DEF RefreshInv, Dash!BusyMeansRunning
  <2>2. refresh.started \in Nat /\ refresh.at \in Nat /\ refresh.running \in Seq({"user", "timer"})
    BY <2>1 DEF RefreshOf
  <2>3. Len(refresh.running) \in Nat
    BY <2>2
  <2> DEFINE upto == 0..MaxRefresh
  <2>4. refresh.started \in upto /\ refresh.at \in upto
    BY <2>0, <2>1, <2>2, <2>3 DEF RefreshesAreFew
  <2> HIDE DEF upto
  <2>5. refresh \in [auto : BOOLEAN, running : Seq({"user", "timer"}), busy : BOOLEAN,
                     note : BOOLEAN, at : upto, started : upto]
    BY <2>1, <2>4 DEF RefreshOf
  <2> QED BY <2>5 DEF upto
<1>3. dates.preset \in Dash!Preset /\ dates.day \in 0..Days
  BY DEF DatesInv, DatesOf
<1>4. table \in [key : Dash!SortKey, dir : {"asc", "desc"}, found : SUBSET Location, page : Nat \ {0}]
  <2>1. table \in TableOf /\ table.found \in SUBSET Location
    BY DEF TableInv, TableOf
  <2>2. PagesFor(Cardinality(table.found), RowsPerPage) \in Nat
    BY <2>1, TableLengths
  <2>3. table.page \in Nat \ {0}
    BY <2>2 DEF TableInv
  <2> QED BY <2>1, <2>3 DEF TableOf
<1>5. report.error \in BOOLEAN /\ report.done \in 0..report.of
  BY DEF ReportDone
<1> QED BY <1>1, <1>2, <1>3, <1>4, <1>5 DEF Dash!DashTypeOK
-----------------------------------------------------------------------------
(* The types of figures and tests *)

\* A behaviour is one of one part.
LEMMA PartStays == [Next]_browserVars => part' = part
<1>1. Next => part' = part
  BY DEF Next, OnlyBookmarks, OnlyPalette, OnlyNotes, OnlyRegions, OnlyMap, OnlyReport,
     OnlySegments, OnlyWidgets, OnlyFigures, OnlyLists, OnlyForms, OnlyFiles, OnlyComponents,
     OnlyDash, OnlyImport, OnlyTests, OnlyEmbedded, OnlyPanels
<1> QED BY <1>1 DEF browserVars

\* A figure that is asked for is one that the dashboard computes.
AskedInv == part = "figures" => job.kind \in Fig!Kinds

\* What is asked is drawn from the kinds, and no step of the figures asks anew.
LEMMA StepAsked ==
  /\ Init => AskedInv
  /\ AskedInv /\ [Next]_browserVars => AskedInv'
<1>1. ASSUME Init, part = "figures" PROVE job.kind \in Fig!Kinds
  <2>1. Fig!FiguresInit
    BY <1>1 DEF Init
  <2>2. PICK kinds \in SUBSET Fig!Kinds :
          \/ \E d : job \in [kind : kinds, data : d]
          \/ \E d, e : job \in [kind : kinds, data : d, daily : e]
          \/ \E d, e : job \in [kind : kinds, data : d, model : e]
          \/ \E d, e : job \in [kind : kinds, data : d, at : e]
    <3>1. CASE job \in [kind : {"anomaly", "forecast", "funnel"}, data : Series]
      BY <3>1 DEF Fig!Kinds
    <3>2. CASE job \in [kind : {"quality"}, data : Series, daily : BOOLEAN]
      BY <3>2 DEF Fig!Kinds
    <3>3. CASE job \in [kind : {"attribution"}, data : Touches, model : Fig!Models]
      BY <3>3 DEF Fig!Kinds
    <3>4. CASE job \in [kind : {"scores"}, data : Items]
      BY <3>4 DEF Fig!Kinds
    <3>5. CASE job \in [kind : {"region"}, data : Polygon, at : Point]
      BY <3>5 DEF Fig!Kinds
    <3>6. CASE job \in [kind : {"compare"}, data : [1..4 -> ShownDates \cup {Cleared}]]
      BY <3>6 DEF Fig!Kinds
    <3> QED BY <2>1, <3>1, <3>2, <3>3, <3>4, <3>5, <3>6 DEF Fig!FiguresInit
  <2> QED BY <2>2
<1>2. ASSUME AskedInv, [Next]_browserVars PROVE AskedInv'
  <2>1. part' = part
    BY <1>2, PartStays
  <2>2. part = "figures" => job' = job
    <3>1. CASE part = "figures" /\ Next
      <4>1. Fig!FiguresNext
        BY <3>1 DEF Next
      <4> QED BY <4>1 DEF Fig!FiguresNext
    <3>2. CASE UNCHANGED browserVars
      BY <3>2 DEF browserVars, figureVars
    <3> QED BY <1>2, <3>1, <3>2
  <2> QED BY <1>2, <2>1, <2>2 DEF AskedInv
<1> QED BY <1>1, <1>2 DEF AskedInv

\* A test runs or is over, and its winner is one of its variants.
LEMMA TestTypes == TestsInv => Tests!ExperimentsTypeOK
BY DEF TestsInv, TestOf, Tests!ExperimentsTypeOK, Tests!Side
-----------------------------------------------------------------------------
(* The types of the import *)

ImportPlace == {"off", "labels", "issues", "gh", "log", "exit"}
SourceOf == 1..IssueCount
ScriptOf ==
  [at : ImportPlace, range : SUBSET SourceOf, todo : Seq(SourceOf), tags : SUBSET IssueLabel,
   named : SUBSET IssueLabel, already : SUBSET SourceOf, files : SUBSET SourceOf, made : Nat,
   skipped : SUBSET SourceOf, failed : Nat, attempt : Nat, answer : Nat]
RecordOf == [source : SourceOf, number : Nat]
\* A run that waits for GitHub, or is about to log, has an issue in hand.
InHand(p) == p.at \in {"gh", "log"} => p.todo # << >>
ImportInv ==
  /\ made \in Seq(SourceOf) /\ labels \subseteq IssueLabel /\ known \subseteq IssueLabel
  /\ body \subseteq SourceOf /\ log \subseteq RecordOf
  /\ proc \in ScriptOf /\ InHand(proc)

\* The fields of a run may change one at a time.
LEMMA ScriptChanges ==
  ASSUME NEW p \in ScriptOf
  PROVE  /\ \A v \in ImportPlace : LET q == [p EXCEPT !.at = v] IN
              q \in ScriptOf /\ q.at = v /\ q.todo = p.todo
         /\ \A v \in Seq(SourceOf) : LET q == [p EXCEPT !.todo = v] IN
              q \in ScriptOf /\ q.at = p.at /\ q.todo = v
         /\ \A v \in SUBSET IssueLabel : LET q == [p EXCEPT !.tags = v] IN
              q \in ScriptOf /\ q.at = p.at /\ q.todo = p.todo
         /\ \A v \in SUBSET IssueLabel : LET q == [p EXCEPT !.named = v] IN
              q \in ScriptOf /\ q.at = p.at /\ q.todo = p.todo
         /\ \A v \in SUBSET SourceOf : LET q == [p EXCEPT !.already = v] IN
              q \in ScriptOf /\ q.at = p.at /\ q.todo = p.todo
         /\ \A v \in SUBSET SourceOf : LET q == [p EXCEPT !.files = v] IN
              q \in ScriptOf /\ q.at = p.at /\ q.todo = p.todo
         /\ \A v \in Nat : LET q == [p EXCEPT !.made = v] IN
              q \in ScriptOf /\ q.at = p.at /\ q.todo = p.todo
         /\ \A v \in SUBSET SourceOf : LET q == [p EXCEPT !.skipped = v] IN
              q \in ScriptOf /\ q.at = p.at /\ q.todo = p.todo
         /\ \A v \in Nat : LET q == [p EXCEPT !.failed = v] IN
              q \in ScriptOf /\ q.at = p.at /\ q.todo = p.todo
         /\ \A v \in Nat : LET q == [p EXCEPT !.attempt = v] IN
              q \in ScriptOf /\ q.at = p.at /\ q.todo = p.todo
         /\ \A v \in Nat : LET q == [p EXCEPT !.answer = v] IN
              q \in ScriptOf /\ q.at = p.at /\ q.todo = p.todo
<1>1. \A v \in ImportPlace : LET q == [p EXCEPT !.at = v] IN
        q \in ScriptOf /\ q.at = v /\ q.todo = p.todo
  BY DEF ScriptOf
<1>2. \A v \in Seq(SourceOf) : LET q == [p EXCEPT !.todo = v] IN
        q \in ScriptOf /\ q.at = p.at /\ q.todo = v
  BY DEF ScriptOf
<1>3. \A v \in SUBSET IssueLabel : LET q == [p EXCEPT !.tags = v] IN
        q \in ScriptOf /\ q.at = p.at /\ q.todo = p.todo
  BY DEF ScriptOf
<1>4. \A v \in SUBSET IssueLabel : LET q == [p EXCEPT !.named = v] IN
        q \in ScriptOf /\ q.at = p.at /\ q.todo = p.todo
  BY DEF ScriptOf
<1>5. \A v \in SUBSET SourceOf : LET q == [p EXCEPT !.already = v] IN
        q \in ScriptOf /\ q.at = p.at /\ q.todo = p.todo
  BY DEF ScriptOf
<1>6. \A v \in SUBSET SourceOf : LET q == [p EXCEPT !.files = v] IN
        q \in ScriptOf /\ q.at = p.at /\ q.todo = p.todo
  BY DEF ScriptOf
<1>7. \A v \in Nat : LET q == [p EXCEPT !.made = v] IN
        q \in ScriptOf /\ q.at = p.at /\ q.todo = p.todo
  BY DEF ScriptOf
<1>8. \A v \in SUBSET SourceOf : LET q == [p EXCEPT !.skipped = v] IN
        q \in ScriptOf /\ q.at = p.at /\ q.todo = p.todo
  BY DEF ScriptOf
<1>9. \A v \in Nat : LET q == [p EXCEPT !.failed = v] IN
        q \in ScriptOf /\ q.at = p.at /\ q.todo = p.todo
  BY DEF ScriptOf
<1>10. \A v \in Nat : LET q == [p EXCEPT !.attempt = v] IN
        q \in ScriptOf /\ q.at = p.at /\ q.todo = p.todo
  BY DEF ScriptOf
<1>11. \A v \in Nat : LET q == [p EXCEPT !.answer = v] IN
        q \in ScriptOf /\ q.at = p.at /\ q.todo = p.todo
  BY DEF ScriptOf
<1> QED BY <1>1, <1>2, <1>3, <1>4, <1>5, <1>6, <1>7, <1>8, <1>9, <1>10, <1>11

\* An issue that is done with is left, and the next one is begun from the start.
LEMMA PassedIsLeft ==
  ASSUME NEW p \in ScriptOf, p.todo # << >>
  PROVE  /\ Import!Passed(p) \in ScriptOf /\ Import!Passed(p).at = "issues"
         /\ Import!Passed(p).made \in Nat /\ Import!Passed(p).failed \in Nat
         /\ Import!Passed(p).skipped \in SUBSET SourceOf
         /\ Import!Passed(p).already \in SUBSET SourceOf
<1> DEFINE q == [p EXCEPT !.at = "issues"]
           r == [q EXCEPT !.todo = Tail(p.todo)]
           s == [r EXCEPT !.attempt = 0]
<1>1. Import!Passed(p) = s
  BY DEF Import!Passed
<1>2. p.todo \in Seq(SourceOf)
  BY DEF ScriptOf
<1>3. Tail(p.todo) \in Seq(SourceOf)
  BY <1>2
<1>4. q \in ScriptOf /\ q.at = "issues"
  BY ScriptChanges DEF ImportPlace
<1> HIDE DEF q
<1>5. r \in ScriptOf /\ r.at = "issues"
  BY <1>3, <1>4, ScriptChanges
<1> HIDE DEF r
<1>6. s \in ScriptOf /\ s.at = "issues"
  BY <1>5, ScriptChanges
<1> HIDE DEF s
<1>7. s.made \in Nat /\ s.failed \in Nat /\ s.skipped \in SUBSET SourceOf /\ s.already \in SUBSET SourceOf
  BY <1>6 DEF ScriptOf
<1> QED BY <1>1, <1>6, <1>7

\* A run that does not go on is of no issue.
LEMMA OffIsOf == Import!Off \in ScriptOf /\ InHand(Import!Off)
<1>1. << >> \in Seq(SourceOf) /\ 0 \in Nat
  OBVIOUS
<1>2. Import!Off \in ScriptOf
  BY <1>1 DEF Import!Off, ScriptOf, ImportPlace
<1>3. Import!Off.at = "off"
  BY DEF Import!Off
<1> QED BY <1>2, <1>3 DEF InHand
\* The issues of a range are those of the document between its ends.
LEMMA TargetsAre ==
  ASSUME NEW s \in SourceOf, NEW e \in SourceOf, NEW l \in Nat, s <= e, l >= 1
  PROVE  Import!Targets(s, e, l) \in Seq(SourceOf)
<1>0. IssueCount \in Nat
  BY BoundsAreNumbers DEF BoundsAreNumbers
<1> DEFINE n == Import!Min({e - s + 1, l})
           least == IF e - s + 1 < l THEN e - s + 1 ELSE l
<1>1. s \in Nat /\ e \in Nat /\ 1 <= s /\ e <= IssueCount
  BY <1>0 DEF SourceOf
<1>2. least \in {e - s + 1, l} /\ \A y \in {e - s + 1, l} : least <= y
  BY <1>1
<1>3. n \in {e - s + 1, l} /\ n <= e - s + 1
  BY <1>2 DEF Import!Min
<1>4. n \in Nat /\ s + n - 1 <= e
  BY <1>1, <1>3
<1>5. Import!Targets(s, e, l) = [i \in 1..n |-> s + i - 1]
  BY DEF Import!Targets
<1> HIDE DEF n
<1>6. \A i \in 1..n : s + i - 1 \in SourceOf
  BY <1>0, <1>1, <1>4 DEF SourceOf
<1> QED BY <1>4, <1>5, <1>6, SeqDef

\* A run ends where it was, with or without its issue.
LEMMA ScriptKeeps ==
  ASSUME ImportInv, NEW p \in ScriptOf, InHand(p), proc' = p,
         UNCHANGED <<made, labels, log, known, body>>
  PROVE  ImportInv'
BY DEF ImportInv, InHand

\* A run that goes on to the log has its issue in hand still.
LEMMA ToTheLog ==
  ASSUME ImportInv, proc.at = "gh", NEW n \in Nat,
         proc' = [proc EXCEPT !.at = "log", !.answer = n]
  PROVE  proc' \in ScriptOf /\ InHand(proc')
<1> DEFINE q == [proc EXCEPT !.at = "log"]
           r == [q EXCEPT !.answer = n]
<1>1. proc' = r
  OBVIOUS
<1>2. proc \in ScriptOf /\ proc.todo # << >>
  BY DEF ImportInv, InHand
<1>3. q \in ScriptOf /\ q.todo = proc.todo
  BY <1>2, ScriptChanges DEF ImportPlace
<1> HIDE DEF q
<1>4. r \in ScriptOf /\ r.todo = proc.todo
  BY <1>3, ScriptChanges
<1> HIDE DEF r
<1> QED BY <1>1, <1>2, <1>4 DEF InHand

\* The first of the issues to do is one of the document.
LEMMA CurrentIsSource ==
  ImportInv /\ proc.todo # << >> => Import!Current \in SourceOf
<1> SUFFICES ASSUME ImportInv, proc.todo # << >> PROVE Import!Current \in SourceOf
  OBVIOUS
<1>1. proc.todo \in Seq(SourceOf)
  BY DEF ImportInv, ScriptOf
<1> QED BY <1>1 DEF Import!Current

\* A run starts with what the files tell; it reads and writes sources and labels only.
LEMMA StepImport ==
  /\ Import!ImportInit => ImportInv
  /\ ImportInv /\ [Import!ImportNext]_(Import!vars) => ImportInv'
<1>1. ASSUME Import!ImportInit PROVE ImportInv
  <2>1. << >> \in Seq(SourceOf)
    OBVIOUS
  <2> QED BY <1>1, <2>1, OffIsOf DEF Import!ImportInit, ImportInv
<1>2. ASSUME ImportInv, [Import!ImportNext]_(Import!vars) PROVE ImportInv'
  <2>1. /\ proc \in ScriptOf /\ InHand(proc) /\ made \in Seq(SourceOf) /\ labels \subseteq IssueLabel
        /\ known \subseteq IssueLabel /\ body \subseteq SourceOf /\ log \subseteq RecordOf
    BY <1>2 DEF ImportInv
  <2>2. /\ proc.todo \in Seq(SourceOf) /\ proc.tags \in SUBSET IssueLabel
        /\ proc.named \in SUBSET IssueLabel /\ proc.already \in SUBSET SourceOf
        /\ proc.files \in SUBSET SourceOf /\ proc.attempt \in Nat /\ proc.answer \in Nat
    BY <2>1 DEF ScriptOf
  <2>3. CASE \E s \in 1..IssueCount, e \in 1..IssueCount, n \in Limits : Import!Start(s, e, n)
    <3>1. PICK s \in SourceOf, e \in SourceOf, n \in Limits : Import!Start(s, e, n)
      BY <2>3 DEF SourceOf
    <3> DEFINE targets == Import!Targets(s, e, n)
    <3>2. n \in Nat /\ s <= e /\ n >= 1
      BY <3>1, LimitsAreCounted DEF LimitsAreCounted, Import!Start, Import!ValidRange, SourceOf
    <3>3. targets \in Seq(SourceOf)
      BY <3>2, TargetsAre
    <3> HIDE DEF targets
    <3>4. Import!Range(targets) \in SUBSET SourceOf
      BY <3>3, SeqElements DEF Import!Range
    <3>5. Import!Resumed(log) \in SUBSET SourceOf
      BY <2>1 DEF Import!Resumed, RecordOf
    <3>6. proc' = [Import!Off EXCEPT !.at = "labels", !.todo = targets, !.range = Import!Range(targets),
                     !.tags = IssueLabel \ known, !.named = known, !.already = Import!Resumed(log)]
      BY <3>1 DEF Import!Start, targets
    <3>7. proc' = [at |-> "labels", range |-> Import!Range(targets), todo |-> targets,
                   tags |-> IssueLabel \ known, named |-> known, already |-> Import!Resumed(log),
                   files |-> {}, made |-> 0, skipped |-> {}, failed |-> 0, attempt |-> 0, answer |-> 0]
      BY <3>6 DEF Import!Off
    <3>8. "labels" \in ImportPlace /\ IssueLabel \ known \in SUBSET IssueLabel
          /\ known \in SUBSET IssueLabel /\ {} \in SUBSET SourceOf /\ 0 \in Nat
      BY <2>1 DEF ImportPlace
    <3>9. proc' \in ScriptOf
      BY <3>3, <3>4, <3>5, <3>7, <3>8 DEF ScriptOf
    <3>10. proc'.at = "labels"
      BY <3>7
    <3>11. InHand(proc')
      BY <3>10 DEF InHand
    <3>12. UNCHANGED <<made, labels, log, known, body>>
      BY <3>1 DEF Import!Start
    <3> QED BY <1>2, <3>9, <3>11, <3>12, ScriptKeeps
  <2>4. CASE \E l \in IssueLabel : Import!CreateLabel(l)
    <3>1. PICK l \in IssueLabel : Import!CreateLabel(l)
      BY <2>4
    <3> DEFINE q == [proc EXCEPT !.tags = proc.tags \ {l}]
               r == [q EXCEPT !.named = proc.named \cup {l}]
    <3>2. /\ proc' = q \/ proc' = r
          /\ labels' \subseteq IssueLabel /\ proc.at = "labels"
          /\ UNCHANGED <<made, log, known, body>>
      BY <2>1, <3>1 DEF Import!CreateLabel
    <3>3. proc.tags \ {l} \in SUBSET IssueLabel /\ proc.named \cup {l} \in SUBSET IssueLabel
      BY <2>2
    <3>4. q \in ScriptOf /\ q.at = proc.at
      BY <2>1, <3>3, ScriptChanges
    <3> HIDE DEF q
    <3>5. r \in ScriptOf /\ r.at = proc.at
      BY <3>3, <3>4, ScriptChanges
    <3> HIDE DEF r
    <3>6. proc' \in ScriptOf /\ proc'.at = "labels"
      BY <3>2, <3>4, <3>5
    <3> QED BY <2>1, <3>2, <3>6 DEF ImportInv, InHand
  <2>5. CASE Import!SaveLabels
    <3>1. /\ proc' = [proc EXCEPT !.at = "issues"] /\ known' = proc.named
          /\ UNCHANGED <<made, labels, log, body>>
      BY <2>5 DEF Import!SaveLabels
    <3>2. proc' \in ScriptOf /\ proc'.at = "issues"
      BY <2>1, <3>1, ScriptChanges DEF ImportPlace
    <3> QED BY <2>1, <2>2, <3>1, <3>2 DEF ImportInv, InHand
  <2>6. CASE Import!Skip
    <3> DEFINE p == Import!Passed(proc)
    <3>1. proc.todo # << >> /\ UNCHANGED <<made, labels, log, known, body>>
      BY <2>6 DEF Import!Skip, Import!Working, Import!ScriptOnly
    <3>2. proc' = [p EXCEPT !.skipped = p.skipped \cup {Import!Current}]
      BY <2>6 DEF Import!Skip
    <3>3. p \in ScriptOf /\ p.at = "issues" /\ p.skipped \in SUBSET SourceOf
      BY <2>1, <3>1, PassedIsLeft
    <3> HIDE DEF p
    <3>4. p.skipped \cup {Import!Current} \in SUBSET SourceOf
      BY <1>2, <3>1, <3>3, CurrentIsSource
    <3>5. proc' \in ScriptOf /\ proc'.at = "issues"
      BY <3>2, <3>3, <3>4, ScriptChanges
    <3>6. InHand(proc')
      BY <3>5 DEF InHand
    <3> QED BY <1>2, <3>1, <3>5, <3>6, ScriptKeeps
  <2>7. CASE Import!WriteBody
    <3> DEFINE q == [proc EXCEPT !.at = "gh"]
               r == [q EXCEPT !.files = proc.files \cup {Import!Current}]
    <3>1. /\ proc.todo # << >> /\ body' = body \cup {Import!Current} /\ proc' = r
          /\ UNCHANGED <<made, labels, log, known>>
      BY <2>7 DEF Import!WriteBody, Import!Working
    <3>2. Import!Current \in SourceOf
      BY <1>2, <3>1, CurrentIsSource
    <3>3. proc.files \cup {Import!Current} \in SUBSET SourceOf
      BY <2>2, <3>2
    <3>4. q \in ScriptOf /\ q.todo = proc.todo
      BY <2>1, ScriptChanges DEF ImportPlace
    <3> HIDE DEF q
    <3>5. r \in ScriptOf /\ r.todo = proc.todo
      BY <3>3, <3>4, ScriptChanges
    <3> HIDE DEF r
    <3>6. proc' \in ScriptOf /\ InHand(proc')
      BY <3>1, <3>5 DEF InHand
    <3>7. body' \subseteq SourceOf
      BY <2>1, <3>1, <3>2
    <3> QED BY <2>1, <3>1, <3>6, <3>7 DEF ImportInv, InHand
  <2>8. CASE Import!CreateIssue \/ Import!FailIssue
    <3>1. proc.at = "gh" /\ proc.todo # << >>
      BY <2>1, <2>8 DEF Import!CreateIssue, Import!FailIssue, InHand
    <3>2. Import!NextNumber \in Nat
      <4>1. FirstNumber \in Nat
        BY BoundsAreNumbers DEF BoundsAreNumbers
      <4> QED BY <2>1, <4>1 DEF Import!NextNumber
    <3>3. PICK n \in Nat : /\ proc' = [proc EXCEPT !.at = "log", !.answer = n]
                           /\ made' \in {made, Append(made, Import!Current)}
                           /\ UNCHANGED <<labels, log, known, body>>
      BY <2>8, <3>2 DEF Import!CreateIssue, Import!FailIssue
    <3>4. proc' \in ScriptOf /\ InHand(proc')
      BY <1>2, <3>1, <3>3, ToTheLog
    <3>5. Import!Current \in SourceOf
      BY <1>2, <3>1, CurrentIsSource
    <3>6. made' \in Seq(SourceOf)
      BY <2>1, <3>3, <3>5
    <3> QED BY <2>1, <3>3, <3>4, <3>6 DEF ImportInv, InHand
  <2>9. CASE Import!RateLimited
    <3>1. proc.at = "gh" /\ UNCHANGED <<made, labels, log, known, body>>
      BY <2>9 DEF Import!RateLimited, Import!ScriptOnly
    <3>2. CASE proc' = [proc EXCEPT !.at = "log", !.answer = 0]
      BY <1>2, <3>1, <3>2, ToTheLog, ScriptKeeps
    <3>3. CASE proc' = [proc EXCEPT !.attempt = proc.attempt + 1]
      <4>1. proc.attempt + 1 \in Nat
        BY <2>2
      <4>2. proc' \in ScriptOf /\ proc'.todo = proc.todo
        BY <2>1, <3>3, <4>1, ScriptChanges
      <4>3. InHand(proc')
        BY <2>1, <3>1, <4>2 DEF InHand
      <4> QED BY <1>2, <3>1, <4>2, <4>3, ScriptKeeps
    <3> QED BY <2>9, <3>2, <3>3 DEF Import!RateLimited
  <2>10. CASE Import!WriteLog
    <3> DEFINE p == Import!Passed(proc)
               q == [p EXCEPT !.failed = p.failed + 1]
               r == [p EXCEPT !.made = p.made + 1]
               s == [r EXCEPT !.already = p.already \cup {Import!Current}]
    <3>1. proc.at = "log" /\ proc.todo # << >>
      BY <2>1, <2>10 DEF Import!WriteLog, InHand
    <3>2. p \in ScriptOf /\ p.at = "issues" /\ p.made \in Nat /\ p.failed \in Nat
          /\ p.already \in SUBSET SourceOf
      BY <2>1, <3>1, PassedIsLeft
    <3>3. /\ proc' = q \/ proc' = s
          /\ log' = log \cup {[source |-> Import!Current, number |-> proc.answer]}
          /\ UNCHANGED <<made, labels, known, body>>
      BY <2>10 DEF Import!WriteLog
    <3> HIDE DEF p
    <3>4. Import!Current \in SourceOf
      BY <1>2, <3>1, CurrentIsSource
    <3>5. p.failed + 1 \in Nat /\ p.made + 1 \in Nat /\ p.already \cup {Import!Current} \in SUBSET SourceOf
      BY <3>2, <3>4
    <3>6. q \in ScriptOf /\ q.at = "issues"
      BY <3>2, <3>5, ScriptChanges
    <3>7. r \in ScriptOf /\ r.at = "issues"
      BY <3>2, <3>5, ScriptChanges
    <3> HIDE DEF r
    <3>8. s \in ScriptOf /\ s.at = "issues"
      BY <3>5, <3>7, ScriptChanges
    <3> HIDE DEF q, s
    <3>9. proc' \in ScriptOf /\ proc'.at = "issues"
      BY <3>3, <3>6, <3>8
    <3>10. log' \subseteq RecordOf
      BY <2>1, <2>2, <3>3, <3>4 DEF RecordOf
    <3> QED BY <2>1, <3>3, <3>9, <3>10 DEF ImportInv, InHand
  <2>11. CASE Import!Finish
    <3>1. /\ proc' = [proc EXCEPT !.at = "exit"] /\ body' = body \ proc.files
          /\ UNCHANGED <<made, labels, log, known>>
      BY <2>11 DEF Import!Finish
    <3>2. proc' \in ScriptOf /\ proc'.at = "exit"
      BY <2>1, <3>1, ScriptChanges DEF ImportPlace
    <3> QED BY <2>1, <3>1, <3>2 DEF ImportInv, InHand
  <2>12. CASE Import!Leave \/ Import!Die
    <3>1. proc' = Import!Off /\ UNCHANGED <<made, labels, log, known, body>>
      BY <2>12 DEF Import!Leave, Import!Die, Import!ScriptOnly
    <3> QED BY <1>2, <3>1, OffIsOf, ScriptKeeps
  <2>13. CASE UNCHANGED Import!vars
    BY <2>1, <2>13 DEF Import!vars, ImportInv, InHand
  <2> QED BY <1>2, <2>3, <2>4, <2>5, <2>6, <2>7, <2>8, <2>9, <2>10, <2>11, <2>12, <2>13
            DEF Import!ImportNext
<1> QED BY <1>1, <1>2

\* So files, log and GitHub have their types.
LEMMA ImportTypes == ImportInv => Import!ImportTypeOK
<1> SUFFICES ASSUME ImportInv PROVE Import!ImportTypeOK
  OBVIOUS
<1>1. \A i \in DOMAIN made : made[i] \in SourceOf
  BY SeqElements DEF ImportInv
<1>2. proc.at \in ImportPlace
  BY DEF ImportInv, ScriptOf
<1> QED BY <1>1, <1>2 DEF ImportInv, Import!ImportTypeOK, SourceOf, RecordOf, ImportPlace
-----------------------------------------------------------------------------
(* The types of the builders that a page embeds *)

\* Filters and mounts are numbered from 1 on.
MountInv == builder.next \in 1..MaxFilters + 1 /\ builder.mount \in 1..MaxMounts

\* The segment builder and the panel leave the query builder as it is.
LEMMA BuilderIsLeft == Embedded!SegmentNext \/ Embedded!PanelNext => builder' = builder
<1>1. Embedded!SegmentNext => builder' = builder
  BY DEF Embedded!SegmentNext, Embedded!NewRow, Embedded!DropRow, Embedded!ChooseField,
     Embedded!ChooseValue, Embedded!ChooseOp, Embedded!ChooseLogic, Embedded!HandleSave,
     Embedded!WithCondition, Embedded!Change, Embedded!OnlySegment, Embedded!queryState
<1>2. Embedded!PanelNext => builder' = builder
  BY DEF Embedded!PanelNext, Embedded!AddNote, Embedded!StartEdit, Embedded!TypeText,
     Embedded!CommitEdit, Embedded!CancelEdit, Embedded!RemoveNote, Embedded!ShowPanel,
     Embedded!OtherTab, Embedded!OnlyPanel, Embedded!queryState
<1> QED BY <1>1, <1>2

\* A filter is added and the page mounted anew only within the bounds.
LEMMA StepMount ==
  /\ Embedded!QueryInit => MountInv
  /\ QueriesInv /\ MountInv /\ [EmbeddedNext]_(Embedded!builderVars) => MountInv'
<1>0. MaxFilters \in Nat /\ MaxMounts \in Nat
  BY BoundsAreNumbers DEF BoundsAreNumbers
<1>1. MaxMounts >= 1
  BY BuilderIsMounted DEF BuilderIsMounted
<1>2. \A m : Embedded!Mounted(m).next = 1 /\ Embedded!Mounted(m).mount = m
  BY DEF Embedded!Mounted
<1>3. ASSUME Embedded!QueryInit PROVE MountInv
  <2>1. builder = Embedded!Mounted(1)
    BY <1>3 DEF Embedded!QueryInit
  <2>2. builder.next = 1 /\ builder.mount = 1
    BY <1>2, <2>1
  <2> QED BY <1>0, <1>1, <2>2 DEF MountInv
<1>4. ASSUME QueriesInv, MountInv, [EmbeddedNext]_(Embedded!builderVars) PROVE MountInv'
  <2>1. builder \in BuilderOf /\ builder.next \in 1..MaxFilters + 1 /\ builder.mount \in 1..MaxMounts
    BY <1>4 DEF QueriesInv, MountInv
  <2>2. ASSUME builder'.next = builder.next, builder'.mount = builder.mount PROVE MountInv'
    BY <2>1, <2>2 DEF MountInv
  <2>3. CASE Embedded!ToggleColumn
    <3>1. PICK c : builder' = [builder EXCEPT !.columns = c]
      BY <2>3 DEF Embedded!ToggleColumn, Embedded!OnlyBuilder
    <3> QED BY <2>1, <2>2, <3>1 DEF BuilderOf
  <2>4. CASE Embedded!UpdateFilter \/ Embedded!RemoveFilter
    <3>1. PICK f : builder' = [builder EXCEPT !.filters = f]
      BY <2>4 DEF Embedded!UpdateFilter, Embedded!RemoveFilter, Embedded!OnlyBuilder
    <3> QED BY <2>1, <2>2, <3>1 DEF BuilderOf
  <2>5. CASE Embedded!NameQuery \/ Embedded!SaveQuery
    <3>1. PICK b : builder' = [builder EXCEPT !.named = b]
      BY <2>5 DEF Embedded!NameQuery, Embedded!SaveQuery, Embedded!OnlyBuilder
    <3> QED BY <2>1, <2>2, <3>1 DEF BuilderOf
  <2>6. CASE Embedded!LoadQuery
    <3>1. PICK c, f, b : builder' = [builder EXCEPT !.columns = c, !.filters = f, !.foreign = b]
      BY <2>6 DEF Embedded!LoadQuery, Embedded!OnlyBuilder
    <3> QED BY <2>1, <2>2, <3>1 DEF BuilderOf
  <2>7. CASE Embedded!AddFilter
    <3>1. PICK f : builder' = [builder EXCEPT !.filters = f, !.next = builder.next + 1]
      BY <2>7 DEF Embedded!AddFilter, Embedded!OnlyBuilder
    <3>2. builder.next <= MaxFilters
      BY <2>7 DEF Embedded!AddFilter
    <3>3. builder'.next = builder.next + 1 /\ builder'.mount = builder.mount
      BY <2>1, <3>1 DEF BuilderOf
    <3>4. builder.next + 1 \in 1..MaxFilters + 1
      BY <1>0, <2>1, <3>2
    <3> QED BY <2>1, <3>3, <3>4 DEF MountInv
  <2>8. CASE Embedded!Remount
    <3>1. builder' = Embedded!Mounted(builder.mount + 1) /\ builder.mount < MaxMounts
      BY <2>8 DEF Embedded!Remount, Embedded!OnlyBuilder
    <3>2. builder'.next = 1 /\ builder'.mount = builder.mount + 1
      BY <1>2, <3>1
    <3>3. 1 \in 1..MaxFilters + 1 /\ builder.mount + 1 \in 1..MaxMounts
      BY <1>0, <2>1, <3>1
    <3> QED BY <3>2, <3>3 DEF MountInv
  <2>9. CASE builder' = builder
    BY <2>2, <2>9
  <2>10. UNCHANGED Embedded!builderVars => builder' = builder
    BY DEF Embedded!builderVars
  <2> QED BY <1>4, <2>3, <2>4, <2>5, <2>6, <2>7, <2>8, <2>9, <2>10, BuilderIsLeft
            DEF EmbeddedNext, Embedded!QueryNext
<1> QED BY <1>3, <1>4

\* So the three builders have their types.
LEMMA BuilderTypes ==
  SegmenterInv /\ InnerLogicInv /\ MountInv /\ ShownNotesInv => Embedded!BuildersTypeOK
<1> SUFFICES ASSUME SegmenterInv, InnerLogicInv, MountInv, ShownNotesInv
             PROVE  Embedded!BuildersTypeOK
  OBVIOUS
<1>1. Embedded!Page!SegmentsTypeOK /\ segment.id = 0
  BY SegmentTypes DEF SegmenterInv
<1>2. \A i \in DOMAIN stored : /\ stored[i].id \in DOMAIN origin /\ stored[i].text \in PanelText
                               /\ stored[i].text # Blank
  BY ShownNotesKeep
<1>3. \A i \in DOMAIN stored : stored[i].id \in DOMAIN origin /\ stored[i].text \in PanelText \ {""}
  BY <1>2, Zenon DEF Blank
<1> QED BY <1>1, <1>3, Zenon DEF MountInv, Embedded!BuildersTypeOK
-----------------------------------------------------------------------------
(* Types: the composition *)

\* What the types need beside the invariants of the proofs before.
TypesInv ==
  /\ SentInv /\ LogicInv /\ InnerLogicInv /\ CounterInv /\ NextInv /\ ExportInv /\ KitInv
  /\ RefreshesAreFew /\ AskedInv /\ ImportInv /\ MountInv

\* The browser opens on values of its types.
LEMMA InitTypes == Init => TypesInv
<1> SUFFICES ASSUME Init PROVE TypesInv
  OBVIOUS
<1>1. SentInv /\ LogicInv /\ CounterInv /\ NextInv /\ ExportInv
  BY StepSent, StepLogic, StepCounter, StepNext, StepExport DEF Init
<1>2. InnerLogicInv /\ MountInv
  BY StepInnerLogic, StepMount DEF Init
<1>3. KitInv /\ RefreshesAreFew /\ ImportInv
  BY StepKit, StepRefreshes, StepImport DEF Init
<1>4. AskedInv
  BY StepAsked
<1> QED BY <1>1, <1>2, <1>3, <1>4 DEF TypesInv

\* Every step keeps the types: of each part the step is one of its own, or none.
LEMMA StepTypes == BrowserInv /\ KeptInv /\ TypesInv /\ [Next]_browserVars => TypesInv'
<1> SUFFICES ASSUME BrowserInv, KeptInv, TypesInv, [Next]_browserVars PROVE TypesInv'
  OBVIOUS
<1>1. SentInv'
  BY PartsMove, StepSent DEF BrowserInv, TypesInv
<1>2. LogicInv'
  BY PartsMove, StepLogic DEF KeptInv, TypesInv
<1>3. InnerLogicInv'
  <2>1. [Embedded!Page!SegmentsNext]_(Embedded!segmentState)
    BY StepKept
  <2> QED BY <2>1, StepInnerLogic DEF KeptInv, TypesInv
<1>4. CounterInv'
  BY PartsMove, StepCounter DEF BrowserInv, TypesInv
<1>5. NextInv'
  BY PartsMove, StepNext DEF BrowserInv, FormsInv, TypesInv
<1>6. ExportInv'
  BY PartsMove, StepExport DEF BrowserInv, KeptInv, TypesInv
<1>7. KitInv'
  BY PartsMove, StepKit DEF BrowserInv, KeptInv, TypesInv
<1>8. RefreshesAreFew'
  <2>1. [Dash!RefreshNext]_refresh
    BY PartsMove, DashMoves
  <2> QED BY <2>1, StepRefreshes DEF BrowserInv, TypesInv
<1>9. AskedInv'
  BY StepAsked DEF TypesInv
<1>10. ImportInv'
  BY PartsMove, StepImport DEF TypesInv
<1>11. MountInv'
  BY PartsMove, StepMount DEF BrowserInv, TypesInv
<1> QED BY <1>1, <1>2, <1>3, <1>4, <1>5, <1>6, <1>7, <1>8, <1>9, <1>10, <1>11 DEF TypesInv

\* So every state of every behaviour satisfies them.
LEMMA BrowserKeepsTypes == Spec => []TypesInv
BY InitTypes, StepTypes, BrowserKeepsCurrent, PTL DEF Spec

\* Every variable of the browser keeps to its type, the bounds included: a highlighted
\* entry is one of those listed or none, an interval has the tables it was drawn from,
\* a share of the rows is a percentage, an issue is made of a source.
THEOREM BrowserTypes == Spec => []TypeOK
<1>1. BrowserInv /\ KeptInv /\ CurrentInv /\ TypesInv => TypeOK
  <2> SUFFICES ASSUME BrowserInv, KeptInv, CurrentInv, TypesInv PROVE TypeOK
    OBVIOUS
  <2>1. Saved!BookmarksTypeOK /\ Saved!NotesTypeOK
    BY SavedTypes DEF BrowserInv
  <2>2. Palette!PaletteTypeOK
    BY PaletteTypes DEF BrowserInv, CurrentInv
  <2>3. Regions!RegionsTypeOK
    BY CalmKeeps DEF CurrentInv
  <2>4. GistMap!MapTypeOK /\ Report!ReportTypeOK
    BY MapAndReportTypes DEF BrowserInv, KeptInv, TypesInv
  <2>5. Segments!SegmentsTypeOK
    BY SegmentTypes DEF KeptInv, TypesInv
  <2>6. Widgets!WidgetsTypeOK
    BY WidgetTypes DEF BrowserInv, TypesInv
  <2>7. part = "figures" => Fig!FiguresTypeOK
    BY DEF TypesInv, AskedInv, Fig!FiguresTypeOK
  <2>8. Forms!ListTypeOK
    BY SortedKeep DEF CurrentInv
  <2>9. Forms!FormsTypeOK
    BY FormTypes DEF BrowserInv, KeptInv, TypesInv
  <2>10. Files!ExportsTypeOK
    BY ExportTypes DEF BrowserInv, TypesInv
  <2>11. Components!KitTypeOK
    BY KitTypes DEF BrowserInv, TypesInv
  <2>12. Dash!DashTypeOK
    BY DashTypes DEF BrowserInv, CurrentInv, TypesInv
  <2>13. Import!ImportTypeOK /\ Tests!ExperimentsTypeOK
    BY ImportTypes, TestTypes DEF KeptInv, TypesInv
  <2>14. Embedded!BuildersTypeOK /\ Embedded!PanelsTypeOK
    BY BuilderTypes, PanelsKeep DEF KeptInv, CurrentInv, TypesInv
  <2> QED BY <2>1, <2>2, <2>3, <2>4, <2>5, <2>6, <2>7, <2>8, <2>9, <2>10, <2>11, <2>12, <2>13,
             <2>14 DEF TypeOK
<1> QED BY <1>1, BrowserKeepsInv, BrowserKeepsCurrent, BrowserKeepsTypes, PTL
-----------------------------------------------------------------------------
(* The import: each issue once, and the counts of a run *)

\* One script counts what the other does.
SameCounts(q, p) ==
  /\ q.range = p.range /\ q.already = p.already /\ q.skipped = p.skipped
  /\ q.made = p.made /\ q.failed = p.failed

\* What a run counts stays when another of its fields changes, and one count changes alone.
LEMMA CountsStay ==
  ASSUME NEW p \in ScriptOf, NEW v
  PROVE  /\ SameCounts([p EXCEPT !.at = v], p) /\ SameCounts([p EXCEPT !.todo = v], p)
         /\ SameCounts([p EXCEPT !.tags = v], p) /\ SameCounts([p EXCEPT !.named = v], p)
         /\ SameCounts([p EXCEPT !.files = v], p) /\ SameCounts([p EXCEPT !.attempt = v], p)
         /\ SameCounts([p EXCEPT !.answer = v], p)
<1>1. SameCounts([p EXCEPT !.at = v], p)
  BY DEF ScriptOf, SameCounts
<1>2. SameCounts([p EXCEPT !.todo = v], p)
  BY DEF ScriptOf, SameCounts
<1>3. SameCounts([p EXCEPT !.tags = v], p)
  BY DEF ScriptOf, SameCounts
<1>4. SameCounts([p EXCEPT !.named = v], p)
  BY DEF ScriptOf, SameCounts
<1>5. SameCounts([p EXCEPT !.files = v], p)
  BY DEF ScriptOf, SameCounts
<1>6. SameCounts([p EXCEPT !.attempt = v], p)
  BY DEF ScriptOf, SameCounts
<1>7. SameCounts([p EXCEPT !.answer = v], p)
  BY DEF ScriptOf, SameCounts
<1> QED BY <1>1, <1>2, <1>3, <1>4, <1>5, <1>6, <1>7

\* A run starts on a range of issues, with what the log tells.
StartsRun ==
  /\ proc.at = "off" /\ UNCHANGED <<made, log, twins>>
  /\ \E s \in SourceOf, n \in Nat :
       /\ proc'.todo = [i \in 1..n |-> s + i - 1] /\ proc'.range = Import!Range(proc'.todo)
       /\ proc'.at = "labels" /\ proc'.already = Import!Resumed(log)
       /\ proc'.skipped = {} /\ proc'.made = 0 /\ proc'.failed = 0
\* It goes on with the same issue.
GoesOn ==
  /\ UNCHANGED <<made, log, twins>> /\ proc'.todo = proc.todo /\ SameCounts(proc', proc)
  /\ proc.at # "log" /\ (proc'.at = "exit" => proc.todo = << >>)
  /\ proc'.at = "gh" => proc.at = "gh" \/ Import!Current \notin proc.already
SkipsIssue ==
  /\ UNCHANGED <<made, log, twins>> /\ proc.todo # << >> /\ proc'.todo = Tail(proc.todo)
  /\ proc.at = "issues" /\ proc'.at = "issues" /\ Import!Current \in proc.already
  /\ proc'.skipped = proc.skipped \cup {Import!Current} /\ proc'.already = proc.already
  /\ proc'.range = proc.range /\ proc'.made = proc.made /\ proc'.failed = proc.failed
MakesIssue ==
  /\ proc.at = "gh" /\ proc'.at = "log" /\ proc.todo # << >> /\ proc'.todo = proc.todo
  /\ SameCounts(proc', proc) /\ made' \in {made, Append(made, Import!Current)}
  /\ UNCHANGED <<log, twins>>
LogsIssue ==
  /\ proc.at = "log" /\ proc'.at = "issues" /\ proc.todo # << >> /\ proc'.todo = Tail(proc.todo)
  /\ Import!Resumed(log') = Import!Resumed(log) \cup {Import!Current} /\ UNCHANGED <<made, twins>>
  /\ proc'.range = proc.range /\ proc'.skipped = proc.skipped
  /\ \/ proc'.failed = proc.failed + 1 /\ proc'.made = proc.made /\ proc'.already = proc.already
     \/ /\ proc'.failed = proc.failed /\ proc'.made = proc.made + 1
        /\ proc'.already = proc.already \cup {Import!Current}
StopsRun ==
  /\ proc' = Import!Off /\ UNCHANGED <<made, log>> /\ twins \subseteq twins'
  /\ proc.at = "log" /\ Len(made) > 0 /\ made[Len(made)] = Import!Current => Import!Current \in twins'

\* An issue that is left takes no count with it.
LEMMA PassedKeepsCounts ==
  ASSUME NEW p \in ScriptOf, p.todo # << >>
  PROVE  SameCounts(Import!Passed(p), p) /\ Import!Passed(p).todo = Tail(p.todo)
<1> DEFINE q == [p EXCEPT !.at = "issues"]
           r == [q EXCEPT !.todo = Tail(p.todo)]
           s == [r EXCEPT !.attempt = 0]
<1>1. Import!Passed(p) = s
  BY DEF Import!Passed
<1>2. Tail(p.todo) \in Seq(SourceOf)
  <2>1. p.todo \in Seq(SourceOf)
    BY DEF ScriptOf
  <2> QED BY <2>1
<1>3. q \in ScriptOf /\ SameCounts(q, p)
  BY ScriptChanges, CountsStay DEF ImportPlace
<1> HIDE DEF q
<1>4. r \in ScriptOf /\ SameCounts(r, q) /\ r.todo = Tail(p.todo)
  BY <1>2, <1>3, ScriptChanges, CountsStay
<1> HIDE DEF r
<1>5. SameCounts(s, r) /\ s.todo = r.todo
  BY <1>4, ScriptChanges, CountsStay
<1> HIDE DEF s
<1> QED BY <1>1, <1>3, <1>4, <1>5 DEF SameCounts

\* These are the steps of the script.
LEMMA ImportMoves ==
  ImportInv /\ [Import!ImportNext]_(Import!vars) =>
    StartsRun \/ GoesOn \/ SkipsIssue \/ MakesIssue \/ LogsIssue \/ StopsRun \/ UNCHANGED Import!vars
<1> SUFFICES ASSUME ImportInv, Import!ImportNext
             PROVE  StartsRun \/ GoesOn \/ SkipsIssue \/ MakesIssue \/ LogsIssue \/ StopsRun
  OBVIOUS
<1>1. proc \in ScriptOf /\ InHand(proc) /\ made \in Seq(SourceOf) /\ log \subseteq RecordOf
  BY DEF ImportInv
<1>2. /\ proc.todo \in Seq(SourceOf) /\ proc.tags \in SUBSET IssueLabel
      /\ proc.named \in SUBSET IssueLabel /\ proc.already \in SUBSET SourceOf
      /\ proc.files \in SUBSET SourceOf /\ proc.attempt \in Nat /\ proc.answer \in Nat
  BY <1>1 DEF ScriptOf
<1>3. CASE \E s \in 1..IssueCount, e \in 1..IssueCount, n \in Limits : Import!Start(s, e, n)
  <2>1. PICK s \in SourceOf, e \in SourceOf, l \in Limits : Import!Start(s, e, l)
    BY <1>3 DEF SourceOf
  <2> DEFINE targets == Import!Targets(s, e, l)
             n == Import!Min({e - s + 1, l})
             least == IF e - s + 1 < l THEN e - s + 1 ELSE l
  <2>2. l \in Nat /\ l >= 1 /\ s <= e /\ s \in Nat /\ e \in Nat
    <3>1. IssueCount \in Nat
      BY BoundsAreNumbers DEF BoundsAreNumbers
    <3>2. s \in Nat /\ e \in Nat
      BY <3>1 DEF SourceOf
    <3> QED BY <2>1, <3>2, LimitsAreCounted DEF LimitsAreCounted, Import!Start, Import!ValidRange
  <2>3. least \in {e - s + 1, l} /\ \A y \in {e - s + 1, l} : least <= y
    BY <2>2
  <2>4. n \in {e - s + 1, l}
    BY <2>3 DEF Import!Min
  <2>5. n \in Nat
    BY <2>2, <2>4
  <2>6. targets = [i \in 1..n |-> s + i - 1]
    BY DEF Import!Targets
  <2> HIDE DEF n, targets, least
  <2>7. proc' = [Import!Off EXCEPT !.at = "labels", !.todo = targets, !.range = Import!Range(targets),
                   !.tags = IssueLabel \ known, !.named = known, !.already = Import!Resumed(log)]
    BY <2>1 DEF Import!Start, targets
  <2>8. proc' = [at |-> "labels", range |-> Import!Range(targets), todo |-> targets,
                 tags |-> IssueLabel \ known, named |-> known, already |-> Import!Resumed(log),
                 files |-> {}, made |-> 0, skipped |-> {}, failed |-> 0, attempt |-> 0, answer |-> 0]
    BY <2>7 DEF Import!Off
  <2>9. proc.at = "off" /\ UNCHANGED <<made, log, twins>>
    BY <2>1 DEF Import!Start
  <2>10. /\ proc'.todo = targets /\ proc'.range = Import!Range(targets) /\ proc'.at = "labels"
         /\ proc'.already = Import!Resumed(log) /\ proc'.skipped = {} /\ proc'.made = 0
         /\ proc'.failed = 0
    BY <2>8
  <2> QED BY <2>1, <2>5, <2>6, <2>9, <2>10 DEF StartsRun
<1>4. CASE \E l \in IssueLabel : Import!CreateLabel(l)
  <2>1. PICK l \in IssueLabel : Import!CreateLabel(l)
    BY <1>4
  <2> DEFINE q == [proc EXCEPT !.tags = proc.tags \ {l}]
             r == [q EXCEPT !.named = proc.named \cup {l}]
  <2>2. (proc' = q \/ proc' = r) /\ proc.at = "labels" /\ UNCHANGED <<made, log, twins>>
    BY <2>1 DEF Import!CreateLabel
  <2>3. proc.tags \ {l} \in SUBSET IssueLabel /\ proc.named \cup {l} \in SUBSET IssueLabel
    BY <1>2
  <2>4. q \in ScriptOf /\ q.at = proc.at /\ q.todo = proc.todo /\ SameCounts(q, proc)
    BY <1>1, <2>3, ScriptChanges, CountsStay
  <2> HIDE DEF q
  <2>5. r.at = proc.at /\ r.todo = proc.todo /\ SameCounts(r, q)
    BY <2>3, <2>4, ScriptChanges, CountsStay
  <2> HIDE DEF r
  <2>6. proc'.at = "labels" /\ proc'.todo = proc.todo /\ SameCounts(proc', proc)
    BY <2>2, <2>4, <2>5 DEF SameCounts
  <2> QED BY <2>2, <2>6 DEF GoesOn
<1>5. CASE Import!SaveLabels
  <2>1. proc' = [proc EXCEPT !.at = "issues"] /\ proc.at = "labels" /\ UNCHANGED <<made, log, twins>>
    BY <1>5 DEF Import!SaveLabels
  <2>2. proc'.at = "issues" /\ proc'.todo = proc.todo /\ SameCounts(proc', proc)
    BY <1>1, <2>1, ScriptChanges, CountsStay DEF ImportPlace
  <2> QED BY <2>1, <2>2 DEF GoesOn
<1>6. CASE Import!Skip
  <2> DEFINE p == Import!Passed(proc)
  <2>1. /\ proc.todo # << >> /\ proc.at = "issues" /\ Import!Current \in proc.already
        /\ UNCHANGED <<made, log, twins>>
    BY <1>6 DEF Import!Skip, Import!Working, Import!ScriptOnly
  <2>2. proc' = [p EXCEPT !.skipped = p.skipped \cup {Import!Current}]
    BY <1>6 DEF Import!Skip
  <2>3. p \in ScriptOf /\ p.at = "issues" /\ p.todo = Tail(proc.todo) /\ SameCounts(p, proc)
    BY <1>1, <2>1, PassedIsLeft, PassedKeepsCounts
  <2> HIDE DEF p
  <2>4. /\ proc'.skipped = p.skipped \cup {Import!Current} /\ proc'.already = p.already
        /\ proc'.range = p.range /\ proc'.made = p.made /\ proc'.failed = p.failed
        /\ proc'.at = p.at /\ proc'.todo = p.todo
    BY <2>2, <2>3 DEF ScriptOf
  <2>5. /\ p.skipped = proc.skipped /\ p.already = proc.already /\ p.range = proc.range
        /\ p.made = proc.made /\ p.failed = proc.failed
    BY <2>3 DEF SameCounts
  <2>6. /\ proc'.todo = Tail(proc.todo) /\ proc'.at = "issues"
        /\ proc'.skipped = proc.skipped \cup {Import!Current} /\ proc'.already = proc.already
        /\ proc'.range = proc.range /\ proc'.made = proc.made /\ proc'.failed = proc.failed
    BY <2>3, <2>4, <2>5
  <2> QED BY <2>1, <2>6 DEF SkipsIssue
<1>7. CASE Import!WriteBody
  <2> DEFINE q == [proc EXCEPT !.at = "gh"]
             r == [q EXCEPT !.files = proc.files \cup {Import!Current}]
  <2>1. /\ proc.todo # << >> /\ proc.at = "issues" /\ proc' = r /\ Import!Current \notin proc.already
        /\ UNCHANGED <<made, log, twins>>
    BY <1>7 DEF Import!WriteBody, Import!Working
  <2>2. proc.files \cup {Import!Current} \in SUBSET SourceOf
    BY <1>2, <2>1, CurrentIsSource
  <2>3. q \in ScriptOf /\ q.at = "gh" /\ q.todo = proc.todo /\ SameCounts(q, proc)
    BY <1>1, ScriptChanges, CountsStay DEF ImportPlace
  <2> HIDE DEF q
  <2>4. r.at = "gh" /\ r.todo = proc.todo /\ SameCounts(r, q)
    BY <2>2, <2>3, ScriptChanges, CountsStay
  <2> HIDE DEF r
  <2>5. proc'.at = "gh" /\ proc'.todo = proc.todo /\ SameCounts(proc', proc)
    BY <2>1, <2>3, <2>4 DEF SameCounts
  <2> QED BY <2>1, <2>5 DEF GoesOn
<1>8. ASSUME NEW n \in Nat, proc' = [proc EXCEPT !.at = "log", !.answer = n]
      PROVE  proc'.at = "log" /\ proc'.todo = proc.todo /\ SameCounts(proc', proc)
  <2> DEFINE q == [proc EXCEPT !.at = "log"]
             r == [q EXCEPT !.answer = n]
  <2>1. proc' = r
    BY <1>8
  <2>2. q \in ScriptOf /\ q.at = "log" /\ q.todo = proc.todo /\ SameCounts(q, proc)
    BY <1>1, ScriptChanges, CountsStay DEF ImportPlace
  <2> HIDE DEF q
  <2>3. r.at = "log" /\ r.todo = proc.todo /\ SameCounts(r, q)
    BY <2>2, ScriptChanges, CountsStay
  <2> HIDE DEF r
  <2> QED BY <2>1, <2>2, <2>3 DEF SameCounts
<1>9. CASE Import!CreateIssue \/ Import!FailIssue
  <2>1. proc.at = "gh" /\ proc.todo # << >>
    BY <1>1, <1>9 DEF Import!CreateIssue, Import!FailIssue, InHand
  <2>2. Import!NextNumber \in Nat
    <3>1. FirstNumber \in Nat
      BY BoundsAreNumbers DEF BoundsAreNumbers
    <3> QED BY <1>1, <3>1 DEF Import!NextNumber
  <2>3. PICK n \in Nat : /\ proc' = [proc EXCEPT !.at = "log", !.answer = n]
                         /\ made' \in {made, Append(made, Import!Current)}
                         /\ UNCHANGED <<log, twins>>
    BY <1>9, <2>2 DEF Import!CreateIssue, Import!FailIssue
  <2>4. proc'.at = "log" /\ proc'.todo = proc.todo /\ SameCounts(proc', proc)
    BY <1>8, <2>3
  <2> QED BY <2>1, <2>3, <2>4 DEF MakesIssue
<1>10. CASE Import!RateLimited
  <2>1. proc.at = "gh" /\ UNCHANGED <<made, log, twins>>
    BY <1>10 DEF Import!RateLimited, Import!ScriptOnly
  <2>2. CASE proc' = [proc EXCEPT !.at = "log", !.answer = 0]
    <3>1. proc'.at = "log" /\ proc'.todo = proc.todo /\ SameCounts(proc', proc)
      BY <1>8, <2>2
    <3> QED BY <2>1, <3>1 DEF GoesOn
  <2>3. CASE proc' = [proc EXCEPT !.attempt = proc.attempt + 1]
    <3>1. proc.attempt + 1 \in Nat
      BY <1>2
    <3>2. proc'.at = "gh" /\ proc'.todo = proc.todo /\ SameCounts(proc', proc)
      BY <1>1, <2>1, <2>3, <3>1, ScriptChanges, CountsStay
    <3> QED BY <2>1, <3>2 DEF GoesOn
  <2> QED BY <1>10, <2>2, <2>3 DEF Import!RateLimited
<1>11. CASE Import!WriteLog
  <2> DEFINE p == Import!Passed(proc)
             q == [p EXCEPT !.failed = p.failed + 1]
             r == [p EXCEPT !.made = p.made + 1]
             s == [r EXCEPT !.already = p.already \cup {Import!Current}]
  <2>1. proc.at = "log" /\ proc.todo # << >>
    BY <1>1, <1>11 DEF Import!WriteLog, InHand
  <2>2. p \in ScriptOf /\ p.at = "issues" /\ p.made \in Nat /\ p.failed \in Nat
        /\ p.already \in SUBSET SourceOf /\ p.todo = Tail(proc.todo) /\ SameCounts(p, proc)
    BY <1>1, <2>1, PassedIsLeft, PassedKeepsCounts
  <2>3. /\ proc' = q \/ proc' = s
        /\ log' = log \cup {[source |-> Import!Current, number |-> proc.answer]}
        /\ UNCHANGED <<made, twins>>
    BY <1>11 DEF Import!WriteLog
  <2> HIDE DEF p
  <2>4. Import!Resumed(log') = Import!Resumed(log) \cup {Import!Current}
    <3> DEFINE told == {line.source : line \in log}
               new == [source |-> Import!Current, number |-> proc.answer]
    <3>1. new.source = Import!Current
      OBVIOUS
    <3> HIDE DEF new
    <3>2. {line.source : line \in log \cup {new}} = told \cup {new.source}
      <4>1. ASSUME NEW x \in {line.source : line \in log \cup {new}} PROVE x \in told \cup {new.source}
        OBVIOUS
      <4>2. ASSUME NEW x \in told \cup {new.source} PROVE x \in {line.source : line \in log \cup {new}}
        OBVIOUS
      <4> QED BY <4>1, <4>2
    <3>3. log' = log \cup {new}
      BY <2>3 DEF new
    <3> QED BY <3>1, <3>2, <3>3 DEF Import!Resumed
  <2>5. p.made + 1 \in Nat
    BY <2>2
  <2>6. /\ q.failed = p.failed + 1 /\ q.made = p.made /\ q.already = p.already
        /\ q.at = p.at /\ q.todo = p.todo /\ q.range = p.range /\ q.skipped = p.skipped
    BY <2>2 DEF ScriptOf
  <2>7. /\ r \in ScriptOf /\ r.failed = p.failed /\ r.made = p.made + 1 /\ r.already = p.already
        /\ r.at = p.at /\ r.todo = p.todo /\ r.range = p.range /\ r.skipped = p.skipped
    <3>1. r \in ScriptOf
      BY <2>2, <2>5, ScriptChanges
    <3> QED BY <2>2, <3>1 DEF ScriptOf
  <2> HIDE DEF r
  <2>8. /\ s.failed = r.failed /\ s.made = r.made /\ s.already = p.already \cup {Import!Current}
        /\ s.at = r.at /\ s.todo = r.todo /\ s.range = r.range /\ s.skipped = r.skipped
    BY <2>7 DEF ScriptOf
  <2> HIDE DEF q, s
  <2>9. /\ p.skipped = proc.skipped /\ p.already = proc.already /\ p.range = proc.range
        /\ p.made = proc.made /\ p.failed = proc.failed
    BY <2>2 DEF SameCounts
  <2>10. CASE proc' = q
    BY <2>1, <2>2, <2>3, <2>4, <2>6, <2>9, <2>10 DEF LogsIssue
  <2>11. CASE proc' = s
    BY <2>1, <2>2, <2>3, <2>4, <2>7, <2>8, <2>9, <2>11 DEF LogsIssue
  <2> QED BY <2>3, <2>10, <2>11
<1>12. CASE Import!Finish
  <2>1. /\ proc' = [proc EXCEPT !.at = "exit"] /\ proc.at = "issues" /\ proc.todo = << >>
        /\ UNCHANGED <<made, log, twins>>
    BY <1>12 DEF Import!Finish
  <2>2. proc'.at = "exit" /\ proc'.todo = proc.todo /\ SameCounts(proc', proc)
    BY <1>1, <2>1, ScriptChanges, CountsStay DEF ImportPlace
  <2> QED BY <2>1, <2>2 DEF GoesOn
<1>13. CASE Import!Leave
  BY <1>13 DEF Import!Leave, Import!ScriptOnly, StopsRun
<1>14. CASE Import!Die
  BY <1>14 DEF Import!Die, StopsRun
<1> QED BY <1>3, <1>4, <1>5, <1>6, <1>7, <1>9, <1>10, <1>11, <1>12, <1>13, <1>14
         DEF Import!ImportNext

\* A source that has an issue is in the log, unless a run died before it got there or is
\* about to write it. What is ahead of a run is in the log only if the run knows, and
\* what it asks for is not.
OnceInv ==
  /\ \A i \in DOMAIN made : \/ made[i] \in Import!Resumed(log) \cup twins
                            \/ proc.at = "log" /\ i = Len(made) /\ made[i] = Import!Current
  /\ Import!IssuesAreMadeOnce
  /\ proc.at = "gh" => Import!Current \notin proc.already
  /\ \A k \in DOMAIN proc.todo :
       proc.todo[k] \in Import!Resumed(log) => proc.todo[k] \in proc.already
  /\ \A j, k \in DOMAIN proc.todo : proc.todo[j] = proc.todo[k] => j = k

\* The first of what is to do, and the rest.
LEMMA HeadAndRest ==
  ASSUME NEW s \in Seq(SourceOf), s # << >>
  PROVE  /\ 1 \in DOMAIN s /\ Head(s) = s[1] /\ Len(s) \in Nat /\ Len(Tail(s)) = Len(s) - 1
         /\ \A k \in DOMAIN Tail(s) : k \in Nat /\ k + 1 \in DOMAIN s /\ Tail(s)[k] = s[k + 1]
                                      /\ k + 1 # 1
         /\ \A k \in DOMAIN s : k # 1 => k - 1 \in DOMAIN Tail(s) /\ Tail(s)[k - 1] = s[k]
OBVIOUS

\* An issue is made once: no two runs go on at a time, and each looks before it asks.
LEMMA StepOnce ==
  /\ Import!ImportInit => OnceInv
  /\ ImportInv /\ OnceInv /\ [Import!ImportNext]_(Import!vars) => OnceInv'
<1>0. Import!Off.todo = << >> /\ Import!Off.at = "off"
  BY DEF Import!Off
<1>1. ASSUME Import!ImportInit PROVE OnceInv
  BY <1>0, <1>1 DEF Import!ImportInit, OnceInv, Import!IssuesAreMadeOnce
<1>2. ASSUME ImportInv, OnceInv, [Import!ImportNext]_(Import!vars) PROVE OnceInv'
  <2> DEFINE told == Import!Resumed(log)
             todo == proc.todo
             m == made
             c == Import!Current
  <2>1. proc \in ScriptOf /\ m \in Seq(SourceOf) /\ todo \in Seq(SourceOf)
    BY <1>2 DEF ImportInv, ScriptOf
  <2>2. /\ \A i \in DOMAIN m : m[i] \in told \cup twins \/ (proc.at = "log" /\ i = Len(m) /\ m[i] = c)
        /\ \A i, j \in DOMAIN m : i # j /\ m[i] = m[j] => m[i] \in twins
        /\ proc.at = "gh" => c \notin proc.already
        /\ \A k \in DOMAIN todo : todo[k] \in told => todo[k] \in proc.already
        /\ \A j, k \in DOMAIN todo : todo[j] = todo[k] => j = k
    BY <1>2 DEF OnceInv, Import!IssuesAreMadeOnce
  <2>3. todo # << >> => /\ c = todo[1] /\ 1 \in DOMAIN todo
                        /\ \A k \in DOMAIN Tail(todo) :
                             k + 1 \in DOMAIN todo /\ Tail(todo)[k] = todo[k + 1] /\ k \in Nat /\ k + 1 # 1
    BY <2>1, HeadAndRest DEF Import!Current
  <2> SUFFICES /\ \A i \in DOMAIN m' :
                    m'[i] \in told' \cup twins' \/ (proc'.at = "log" /\ i = Len(m') /\ m'[i] = c')
               /\ \A i, j \in DOMAIN m' : i # j /\ m'[i] = m'[j] => m'[i] \in twins'
               /\ proc'.at = "gh" => c' \notin proc'.already
               /\ \A k \in DOMAIN todo' : todo'[k] \in told' => todo'[k] \in proc'.already
               /\ \A j, k \in DOMAIN todo' : todo'[j] = todo'[k] => j = k
    BY DEF OnceInv, Import!IssuesAreMadeOnce
  <2>4. c' = Head(todo') /\ c = Head(todo)
    BY DEF Import!Current
  <2>5. log' = log => told' = told
    BY DEF Import!Resumed
  <2> HIDE DEF told, todo, m, c
  <2>6. CASE StartsRun
    <3>1. m' = m /\ log' = log /\ twins' = twins /\ proc'.at = "labels" /\ proc'.already = told
      BY <2>6 DEF StartsRun, m, told
    <3>2. PICK s \in SourceOf, n \in Nat : todo' = [i \in 1..n |-> s + i - 1]
      BY <2>6 DEF StartsRun, todo
    <3>3. s \in Nat
      <4>1. IssueCount \in Nat
        BY BoundsAreNumbers DEF BoundsAreNumbers
      <4> QED BY <4>1 DEF SourceOf
    <3>4. \A j, k \in DOMAIN todo' : todo'[j] = todo'[k] => j = k
      BY <3>2, <3>3
    <3>5. proc.at # "log"
      BY <2>6 DEF StartsRun
    <3> QED BY <2>2, <2>5, <3>1, <3>4, <3>5
  <2>7. CASE GoesOn
    <3>1. /\ m' = m /\ log' = log /\ twins' = twins /\ todo' = todo /\ proc'.already = proc.already
          /\ proc.at # "log" /\ (proc'.at = "gh" => proc.at = "gh" \/ c \notin proc.already)
      BY <2>7 DEF GoesOn, SameCounts, m, todo, c
    <3>2. c' = c /\ told' = told
      BY <2>4, <2>5, <3>1
    <3> QED BY <2>2, <3>1, <3>2
  <2>8. CASE SkipsIssue
    <3>1. /\ m' = m /\ log' = log /\ twins' = twins /\ todo # << >> /\ todo' = Tail(todo)
          /\ proc'.already = proc.already /\ proc.at = "issues" /\ proc'.at = "issues"
      BY <2>8 DEF SkipsIssue, m, todo
    <3>2. told' = told
      BY <2>5, <3>1
    <3>3. \A k \in DOMAIN todo' : todo'[k] \in told' => todo'[k] \in proc'.already
      BY <2>2, <2>3, <3>1, <3>2
    <3>4. \A j, k \in DOMAIN todo' : todo'[j] = todo'[k] => j = k
      <4>1. ASSUME NEW j \in DOMAIN todo', NEW k \in DOMAIN todo', todo'[j] = todo'[k] PROVE j = k
        <5>1. j + 1 = k + 1
          BY <2>2, <2>3, <3>1, <4>1
        <5> QED BY <2>3, <3>1, <5>1
      <4> QED BY <4>1
    <3> QED BY <2>2, <3>1, <3>2, <3>3, <3>4
  <2>9. CASE MakesIssue
    <3>1. /\ log' = log /\ twins' = twins /\ todo # << >> /\ todo' = todo /\ proc'.already = proc.already
          /\ proc.at = "gh" /\ proc'.at = "log" /\ m' \in {m, Append(m, c)}
      BY <2>9 DEF MakesIssue, SameCounts, m, todo, c
    <3>2. c' = c /\ told' = told
      BY <2>4, <2>5, <3>1
    <3>3. CASE m' = m
      BY <2>2, <3>1, <3>2, <3>3
    <3>4. CASE m' = Append(m, c)
      <4> DEFINE n == Len(m)
      <4>1. n \in Nat /\ Len(m') = n + 1 /\ DOMAIN m' = 1..n + 1 /\ m'[n + 1] = c
            /\ DOMAIN m = 1..n /\ \A i \in 1..n : m'[i] = m[i]
        <5>1. m \in Seq(SourceOf)
          BY <2>1
        <5>2. c \in SourceOf
          BY <2>1, <2>3, <3>1
        <5> QED BY <3>4, <5>1, <5>2
      <4> HIDE DEF n
      <4>2. \A i \in DOMAIN m' : i \in 1..n \/ i = n + 1
        BY <4>1
      <4>3. c \notin told
        BY <2>2, <2>3, <3>1
      <4>4. \A i \in 1..n : m[i] \in told \cup twins
        BY <2>2, <3>1, <4>1
      <4>5. \A i \in 1..n : m'[i] \in told' \cup twins'
        BY <3>1, <3>2, <4>1, <4>4
      <4>6. \A i \in 1..n : m'[i] = c => m'[i] \in twins'
        BY <3>1, <4>1, <4>3, <4>4
      <4>7. ASSUME NEW i \in DOMAIN m', NEW j \in DOMAIN m', i # j, m'[i] = m'[j]
            PROVE  m'[i] \in twins'
        <5>1. CASE i \in 1..n /\ j \in 1..n
          BY <2>2, <3>1, <4>1, <4>7, <5>1
        <5>2. CASE i = n + 1
          BY <4>1, <4>2, <4>6, <4>7, <5>2
        <5>3. CASE j = n + 1
          BY <4>1, <4>2, <4>6, <4>7, <5>3
        <5> QED BY <4>2, <4>7, <5>1, <5>2, <5>3
      <4>8. \A i \in DOMAIN m' :
              m'[i] \in told' \cup twins' \/ (proc'.at = "log" /\ i = Len(m') /\ m'[i] = c')
        BY <3>1, <3>2, <4>1, <4>2, <4>5
      <4> QED BY <2>2, <3>1, <3>2, <4>7, <4>8
    <3> QED BY <3>1, <3>3, <3>4
  <2>10. CASE LogsIssue
    <3>1. /\ m' = m /\ twins' = twins /\ todo # << >> /\ todo' = Tail(todo) /\ told' = told \cup {c}
          /\ proc'.at = "issues" /\ proc.already \subseteq proc'.already
      BY <2>10 DEF LogsIssue, m, todo, told, c
    <3>2. \A i \in DOMAIN m' : m'[i] \in told' \cup twins'
      BY <2>2, <3>1
    <3>3. ASSUME NEW k \in DOMAIN todo', todo'[k] \in told' PROVE todo'[k] \in proc'.already
      <4>1. k + 1 \in DOMAIN todo /\ todo'[k] = todo[k + 1] /\ k + 1 # 1 /\ c = todo[1] /\ 1 \in DOMAIN todo
        BY <2>3, <3>1, <3>3
      <4>2. todo[k + 1] # c
        BY <2>2, <4>1
      <4> QED BY <2>2, <3>1, <3>3, <4>1, <4>2
    <3>4. ASSUME NEW j \in DOMAIN todo', NEW k \in DOMAIN todo', todo'[j] = todo'[k] PROVE j = k
      <4>1. j + 1 = k + 1
        BY <2>2, <2>3, <3>1, <3>4
      <4> QED BY <2>3, <3>1, <4>1
    <3> QED BY <2>2, <3>1, <3>2, <3>3, <3>4
  <2>11. CASE StopsRun
    <3>1. m' = m /\ log' = log /\ twins \subseteq twins' /\ proc'.at = "off" /\ todo' = << >>
      BY <1>0, <2>11 DEF StopsRun, m, todo
    <3>2. told' = told
      BY <2>5, <3>1
    <3>3. ASSUME NEW i \in DOMAIN m PROVE m[i] \in told' \cup twins'
      <4>1. CASE m[i] \in told \cup twins
        BY <3>1, <3>2, <4>1
      <4>2. CASE proc.at = "log" /\ i = Len(m) /\ m[i] = c
        <5>1. Len(m) > 0
          BY <2>1, <3>3
        <5>2. c \in twins'
          BY <2>11, <4>2, <5>1 DEF StopsRun, m, c
        <5> QED BY <4>2, <5>2
      <4> QED BY <2>2, <4>1, <4>2
    <3>4. \A i, j \in DOMAIN m' : i # j /\ m'[i] = m'[j] => m'[i] \in twins'
      BY <2>2, <3>1
    <3> QED BY <3>1, <3>3, <3>4
  <2>12. CASE UNCHANGED Import!vars
    <3>1. m' = m /\ log' = log /\ twins' = twins /\ proc' = proc
      BY <2>12 DEF Import!vars, m
    <3>2. told' = told /\ todo' = todo
      BY <2>5, <3>1 DEF todo
    <3>3. c' = c
      BY <2>4, <3>2
    <3> QED BY <2>2, <3>1, <3>2, <3>3
  <2> QED BY <1>2, <2>6, <2>7, <2>8, <2>9, <2>10, <2>11, <2>12, ImportMoves
<1> QED BY <1>1, <1>2

\* What a run has made, skipped and failed at, and what is ahead of it, is its range; if
\* nothing failed, what is behind it is known to be in the log.
CountInv ==
  /\ proc.made + Cardinality(proc.skipped) + proc.failed + Len(proc.todo) = Cardinality(proc.range)
  /\ IsFiniteSet(proc.skipped) /\ \A k \in DOMAIN proc.todo : proc.todo[k] \notin proc.skipped
  /\ proc.failed = 0 => \A x \in proc.range :
       x \in proc.already \/ \E k \in DOMAIN proc.todo : proc.todo[k] = x
  /\ proc.at = "exit" => proc.todo = << >>

\* A range has as many issues as its list.
LEMMA RangeIsCounted ==
  ASSUME NEW s \in Nat, NEW n \in Nat, NEW t,
         DOMAIN t = 1..n, \A i \in 1..n : t[i] = s + i - 1
  PROVE  Cardinality(Import!Range(t)) = n
<1>1. Import!Range(t) = s..(s + n - 1)
  <2>1. ASSUME NEW x \in s..(s + n - 1) PROVE x \in Import!Range(t)
    <3>1. x - s + 1 \in 1..n /\ t[x - s + 1] = x
      BY <2>1
    <3> QED BY <3>1 DEF Import!Range
  <2>2. ASSUME NEW i \in 1..n PROVE t[i] \in s..(s + n - 1)
    OBVIOUS
  <2>3. \A x \in Import!Range(t) : x \in s..(s + n - 1)
    BY <2>2 DEF Import!Range
  <2> QED BY <2>1, <2>3
<1>2. Cardinality(s..(s + n - 1)) = n
  BY FS_Interval
<1> QED BY <1>1, <1>2

\* Numbers that add up still do when one of them grows for another.
LEMMA OneForAnother ==
  ASSUME NEW a \in Nat, NEW b \in Nat, NEW c \in Nat, NEW d \in Nat, NEW total,
         a + b + c + d = total
  PROVE  /\ a + (b + 1) + c + (d - 1) = total
         /\ \A x, y : x + y = a + c + 1 /\ x \in Nat /\ y \in Nat => x + b + y + (d - 1) = total
OBVIOUS

\* Each issue of the range is counted once, when the run is done with it.
LEMMA StepCount ==
  /\ Import!ImportInit => CountInv
  /\ ImportInv /\ OnceInv /\ CountInv /\ [Import!ImportNext]_(Import!vars) => CountInv'
<1>0. ASSUME NEW p, p = Import!Off
      PROVE  /\ p.todo = << >> /\ p.at = "off" /\ p.made = 0 /\ p.failed = 0 /\ p.skipped = {}
             /\ p.range = {}
  BY <1>0 DEF Import!Off
<1>a. IsFiniteSet({}) /\ Cardinality({}) = 0
  BY FS_EmptySet
<1>1. ASSUME Import!ImportInit PROVE CountInv
  <2>1. proc = Import!Off
    BY <1>1 DEF Import!ImportInit
  <2>2. /\ proc.todo = << >> /\ proc.at # "exit" /\ proc.made = 0 /\ proc.failed = 0
        /\ proc.skipped = {} /\ proc.range = {}
    BY <1>0, <2>1
  <2>3. Len(proc.todo) = 0 /\ Cardinality(proc.skipped) = 0 /\ Cardinality(proc.range) = 0
    BY <1>a, <2>2
  <2>4. proc.made + Cardinality(proc.skipped) + proc.failed + Len(proc.todo) = Cardinality(proc.range)
    BY <2>2, <2>3
  <2>5. IsFiniteSet(proc.skipped) /\ \A k \in DOMAIN proc.todo : proc.todo[k] \notin proc.skipped
    BY <1>a, <2>2
  <2> QED BY <2>2, <2>4, <2>5 DEF CountInv
<1>2. ASSUME ImportInv, OnceInv, CountInv, [Import!ImportNext]_(Import!vars) PROVE CountInv'
  <2> DEFINE todo == proc.todo
             c == Import!Current
  <2>1. /\ todo \in Seq(SourceOf) /\ proc.made \in Nat /\ proc.failed \in Nat
    BY <1>2 DEF ImportInv, ScriptOf
  <2>2. /\ proc.made + Cardinality(proc.skipped) + proc.failed + Len(todo) = Cardinality(proc.range)
        /\ IsFiniteSet(proc.skipped) /\ \A k \in DOMAIN todo : todo[k] \notin proc.skipped
        /\ proc.failed = 0 => \A x \in proc.range :
             x \in proc.already \/ \E k \in DOMAIN todo : todo[k] = x
        /\ proc.at = "exit" => todo = << >>
        /\ \A j, k \in DOMAIN todo : todo[j] = todo[k] => j = k
    BY <1>2 DEF CountInv, OnceInv
  <2>3. Cardinality(proc.skipped) \in Nat
    BY <2>2, FS_CardinalityType
  <2>4. todo # << >> =>
          /\ c = todo[1] /\ 1 \in DOMAIN todo /\ Len(todo) \in Nat /\ Len(Tail(todo)) = Len(todo) - 1
          /\ \A k \in DOMAIN Tail(todo) :
               k + 1 \in DOMAIN todo /\ Tail(todo)[k] = todo[k + 1] /\ k \in Nat /\ k + 1 # 1
          /\ \A k \in DOMAIN todo : k # 1 => k - 1 \in DOMAIN Tail(todo) /\ Tail(todo)[k - 1] = todo[k]
    BY <2>1, HeadAndRest DEF Import!Current
  <2> SUFFICES
        /\ proc'.made + Cardinality(proc'.skipped) + proc'.failed + Len(todo') = Cardinality(proc'.range)
        /\ IsFiniteSet(proc'.skipped) /\ \A k \in DOMAIN todo' : todo'[k] \notin proc'.skipped
        /\ proc'.failed = 0 => \A x \in proc'.range :
             x \in proc'.already \/ \E k \in DOMAIN todo' : todo'[k] = x
        /\ proc'.at = "exit" => todo' = << >>
    BY DEF CountInv
  <2> HIDE DEF todo, c
  <2>5. CASE StartsRun
    <3>1. proc'.at = "labels" /\ proc'.skipped = {} /\ proc'.made = 0 /\ proc'.failed = 0
          /\ proc'.range = Import!Range(todo')
      BY <2>5 DEF StartsRun, todo
    <3>2. PICK s \in SourceOf, n \in Nat : todo' = [i \in 1..n |-> s + i - 1]
      BY <2>5 DEF StartsRun, todo
    <3>3. s \in Nat
      <4>1. IssueCount \in Nat
        BY BoundsAreNumbers DEF BoundsAreNumbers
      <4> QED BY <4>1 DEF SourceOf
    <3>4. Cardinality(Import!Range(todo')) = Len(todo') /\ Len(todo') \in Nat
      <4>1. DOMAIN todo' = 1..n /\ Len(todo') = n /\ \A i \in 1..n : todo'[i] = s + i - 1
        BY <3>2
      <4> QED BY <3>3, <4>1, RangeIsCounted
    <3>5. \A x \in Import!Range(todo') : \E k \in DOMAIN todo' : todo'[k] = x
      BY DEF Import!Range
    <3> QED BY <1>a, <3>1, <3>4, <3>5
  <2>6. CASE GoesOn
    <3>1. /\ todo' = todo /\ proc'.range = proc.range /\ proc'.already = proc.already
          /\ proc'.skipped = proc.skipped /\ proc'.made = proc.made /\ proc'.failed = proc.failed
          /\ proc'.at = "exit" => todo = << >>
      BY <2>6 DEF GoesOn, SameCounts, todo
    <3> QED BY <2>2, <3>1
  <2>7. CASE SkipsIssue
    <3>1. /\ todo # << >> /\ todo' = Tail(todo) /\ proc'.at = "issues" /\ c \in proc.already
          /\ proc'.skipped = proc.skipped \cup {c} /\ proc'.already = proc.already
          /\ proc'.range = proc.range /\ proc'.made = proc.made /\ proc'.failed = proc.failed
      BY <2>7 DEF SkipsIssue, todo, c
    <3>2. c \notin proc.skipped
      BY <2>2, <2>4, <3>1
    <3>3. IsFiniteSet(proc'.skipped) /\ Cardinality(proc'.skipped) = Cardinality(proc.skipped) + 1
      BY <2>2, <3>1, <3>2, FS_AddElement
    <3>4. Len(todo') = Len(todo) - 1 /\ Len(todo) \in Nat
      BY <2>4, <3>1
    <3>5. proc'.made + Cardinality(proc'.skipped) + proc'.failed + Len(todo') = Cardinality(proc'.range)
      <4>1. proc.made + Cardinality(proc.skipped) + proc.failed + Len(todo) = Cardinality(proc.range)
        BY <2>2
      <4> DEFINE a == proc.made
                 b == Cardinality(proc.skipped)
                 d == proc.failed
                 e == Len(todo)
                 total == Cardinality(proc.range)
      <4>2. a + (b + 1) + d + (e - 1) = total
        <5>1. a \in Nat /\ b \in Nat /\ d \in Nat /\ e \in Nat /\ a + b + d + e = total
          BY <2>1, <2>3, <3>4, <4>1
        <5> HIDE DEF a, b, d, e, total
        <5> QED BY <5>1, OneForAnother
      <4>3. /\ proc'.made = proc.made /\ Cardinality(proc'.skipped) = Cardinality(proc.skipped) + 1
            /\ proc'.failed = proc.failed /\ Len(todo') = Len(todo) - 1
            /\ Cardinality(proc'.range) = Cardinality(proc.range)
        BY <3>1, <3>3, <3>4
      <4> QED BY <4>2, <4>3
    <3>6. ASSUME NEW k \in DOMAIN todo' PROVE todo'[k] \notin proc'.skipped
      <4>1. k + 1 \in DOMAIN todo /\ todo'[k] = todo[k + 1] /\ k + 1 # 1 /\ c = todo[1] /\ 1 \in DOMAIN todo
        BY <2>4, <3>1, <3>6
      <4>2. todo[k + 1] # c /\ todo[k + 1] \notin proc.skipped
        BY <2>2, <4>1
      <4> QED BY <3>1, <4>1, <4>2
    <3>7. ASSUME proc'.failed = 0, NEW x \in proc'.range
          PROVE  x \in proc'.already \/ \E k \in DOMAIN todo' : todo'[k] = x
      <4>1. x \in proc.already \/ \E k \in DOMAIN todo : todo[k] = x
        BY <2>2, <3>1, <3>7
      <4>2. ASSUME NEW k \in DOMAIN todo, todo[k] = x, k # 1 PROVE \E j \in DOMAIN todo' : todo'[j] = x
        <5>1. k - 1 \in DOMAIN todo' /\ todo'[k - 1] = x
          BY <2>4, <3>1, <4>2
        <5> QED BY <5>1
      <4>3. todo[1] \in proc'.already
        BY <2>4, <3>1
      <4> QED BY <3>1, <4>1, <4>2, <4>3
    <3> QED BY <3>1, <3>3, <3>5, <3>6, <3>7
  <2>8. CASE MakesIssue
    <3>1. /\ todo' = todo /\ proc'.range = proc.range /\ proc'.already = proc.already
          /\ proc'.skipped = proc.skipped /\ proc'.made = proc.made /\ proc'.failed = proc.failed
          /\ proc'.at = "log"
      BY <2>8 DEF MakesIssue, SameCounts, todo
    <3> QED BY <2>2, <3>1
  <2>9. CASE LogsIssue
    <3>1. /\ todo # << >> /\ todo' = Tail(todo) /\ proc'.at = "issues"
          /\ proc'.skipped = proc.skipped /\ proc'.range = proc.range
      BY <2>9 DEF LogsIssue, todo
    <3>2. \/ proc'.failed = proc.failed + 1 /\ proc'.made = proc.made
          \/ /\ proc'.failed = proc.failed /\ proc'.made = proc.made + 1
             /\ proc'.already = proc.already \cup {c}
      BY <2>9 DEF LogsIssue, c
    <3>3. Len(todo') = Len(todo) - 1 /\ Len(todo) \in Nat
      BY <2>4, <3>1
    <3>4. proc'.made + Cardinality(proc'.skipped) + proc'.failed + Len(todo') = Cardinality(proc'.range)
      <4>1. proc.made + Cardinality(proc.skipped) + proc.failed + Len(todo) = Cardinality(proc.range)
        BY <2>2
      <4>2. proc'.made + proc'.failed = proc.made + proc.failed + 1
            /\ proc'.made \in Nat /\ proc'.failed \in Nat
        BY <2>1, <3>2
      <4>3. /\ Cardinality(proc'.skipped) = Cardinality(proc.skipped) /\ Len(todo') = Len(todo) - 1
            /\ Cardinality(proc'.range) = Cardinality(proc.range)
        BY <3>1, <3>3
      <4> DEFINE a == proc.made
                 b == Cardinality(proc.skipped)
                 d == proc.failed
                 e == Len(todo)
                 x == proc'.made
                 y == proc'.failed
                 total == Cardinality(proc.range)
      <4>4. /\ a \in Nat /\ b \in Nat /\ d \in Nat /\ e \in Nat /\ a + b + d + e = total
            /\ x + y = a + d + 1 /\ x \in Nat /\ y \in Nat
        BY <2>1, <2>3, <3>3, <4>1, <4>2
      <4> HIDE DEF a, b, d, e, x, y, total
      <4>5. x + b + y + (e - 1) = total
        BY <4>4, OneForAnother
      <4> QED BY <4>3, <4>5 DEF a, b, d, e, x, y, total
    <3>5. ASSUME NEW k \in DOMAIN todo' PROVE todo'[k] \notin proc'.skipped
      BY <2>2, <2>4, <3>1, <3>5
    <3>6. ASSUME proc'.failed = 0, NEW x \in proc'.range
          PROVE  x \in proc'.already \/ \E k \in DOMAIN todo' : todo'[k] = x
      <4>1. proc.failed = 0 /\ proc'.already = proc.already \cup {c}
        BY <2>1, <3>2, <3>6
      <4>2. x \in proc.already \/ \E k \in DOMAIN todo : todo[k] = x
        BY <2>2, <3>1, <3>6, <4>1
      <4>3. ASSUME NEW k \in DOMAIN todo, todo[k] = x, k # 1 PROVE \E j \in DOMAIN todo' : todo'[j] = x
        <5>1. k - 1 \in DOMAIN todo' /\ todo'[k - 1] = x
          BY <2>4, <3>1, <4>3
        <5> QED BY <5>1
      <4>4. todo[1] \in proc'.already
        BY <2>4, <3>1, <4>1
      <4> QED BY <4>1, <4>2, <4>3, <4>4
    <3> QED BY <2>2, <3>1, <3>4, <3>5, <3>6
  <2>10. CASE StopsRun
    <3>1. proc' = Import!Off
      BY <2>10 DEF StopsRun
    <3>2. /\ todo' = << >> /\ proc'.at = "off" /\ proc'.made = 0 /\ proc'.failed = 0
          /\ proc'.skipped = {} /\ proc'.range = {}
      BY <1>0, <3>1 DEF todo
    <3> QED BY <1>a, <3>2
  <2>11. CASE UNCHANGED Import!vars
    <3>1. proc' = proc /\ todo' = todo
      BY <2>11 DEF Import!vars, todo
    <3> QED BY <2>2, <3>1
  <2> QED BY <1>2, <2>5, <2>6, <2>7, <2>8, <2>9, <2>10, <2>11, ImportMoves
<1> QED BY <1>1, <1>2

\* The scripts count as everybody does.
LEMMA ImportCounts == \A S : Import!Cardinality(S) = Cardinality(S)
BY DEF Import!Cardinality, Cardinality

\* A run that ends has counted its whole range.
LEMMA CountedKeeps == ImportInv /\ OnceInv /\ CountInv => Import!IssuesAreMadeOnce /\ Import!CountsAddUp
<1> SUFFICES ASSUME ImportInv, OnceInv, CountInv PROVE Import!CountsAddUp
  BY DEF OnceInv
<1> SUFFICES ASSUME proc.at = "exit"
             PROVE  /\ proc.made + Cardinality(proc.skipped) + proc.failed = Cardinality(proc.range)
                    /\ Import!ExitCode = 0 => proc.range \subseteq proc.already
  BY ImportCounts DEF Import!CountsAddUp
<1>1. proc.made \in Nat /\ proc.failed \in Nat
  BY DEF ImportInv, ScriptOf
<1>2. Len(proc.todo) = 0 /\ DOMAIN proc.todo = {} /\ Cardinality(proc.skipped) \in Nat
  BY FS_CardinalityType DEF CountInv
<1>3. proc.made + Cardinality(proc.skipped) + proc.failed = Cardinality(proc.range)
  BY <1>1, <1>2 DEF CountInv
<1>4. Import!ExitCode = 0 => proc.failed = 0
  BY <1>1 DEF Import!ExitCode
<1> QED BY <1>2, <1>3, <1>4 DEF CountInv
-----------------------------------------------------------------------------
(* The map: what is delivered is stored *)

\* The ids of the pins told as delivered.
DeliveredIds == {pins[i].id : i \in GistMap!Drawn("delivered")}
\* The backend has a row for every gist shown as delivered, and one more while the answer
\* to a stored post is on its way.
DeliveredInv ==
  /\ IsFiniteSet(DeliveredIds) /\ Cardinality(DeliveredIds) <= rows
  /\ post # None /\ post.stage = "stored" => Cardinality(DeliveredIds) < rows

\* No id is delivered that was not, when the pins that show one were delivered before.
LEMMA DeliveredStay ==
  ASSUME \A i \in DOMAIN pins' : pins'[i].status = "delivered" =>
           \E j \in DOMAIN pins : pins[j].status = "delivered" /\ pins[j].id = pins'[i].id
  PROVE  DeliveredIds' \subseteq DeliveredIds
<1>1. ASSUME NEW i \in DOMAIN pins', pins'[i].status = "delivered" PROVE pins'[i].id \in DeliveredIds
  <2>1. PICK j \in DOMAIN pins : pins[j].status = "delivered" /\ pins[j].id = pins'[i].id
    BY <1>1
  <2>2. j \in GistMap!Drawn("delivered")
    BY <2>1 DEF GistMap!Drawn
  <2> QED BY <2>1, <2>2 DEF DeliveredIds
<1>2. DeliveredIds' = {pins'[i].id : i \in {k \in DOMAIN pins' : pins'[k].status = "delivered"}}
  BY DEF DeliveredIds, GistMap!Drawn
<1> QED BY <1>1, <1>2

\* A row is stored before its post is delivered, and delivered once.
LEMMA StepDelivered ==
  /\ GistMap!MapInit => DeliveredInv
  /\ MapInv /\ SentInv /\ DeliveredInv /\ [GistMap!MapNext]_(GistMap!mapVars) => DeliveredInv'
<1>1. ASSUME GistMap!MapInit PROVE DeliveredInv
  <2> DEFINE pin == [id |-> 0, status |-> "seeded", at |-> "default"]
  <2>1. pins = <<pin>> /\ rows = 0 /\ post = None
    BY <1>1 DEF GistMap!MapInit
  <2>2. pin.status # "delivered"
    OBVIOUS
  <2> HIDE DEF pin
  <2>3. GistMap!Drawn("delivered") = {}
    BY <2>1, <2>2 DEF GistMap!Drawn
  <2>4. DeliveredIds = {}
    BY <2>3 DEF DeliveredIds
  <2>5. IsFiniteSet({}) /\ Cardinality({}) = 0
    BY FS_EmptySet
  <2> QED BY <2>1, <2>4, <2>5 DEF DeliveredInv
<1>2. ASSUME MapInv, SentInv, DeliveredInv, [GistMap!MapNext]_(GistMap!mapVars) PROVE DeliveredInv'
  <2> DEFINE D == DeliveredIds
             n == Cardinality(D)
  <2>1. /\ IsFiniteSet(D) /\ n <= rows /\ (post # None /\ post.stage = "stored" => n < rows)
        /\ rows \in Nat /\ pins \in Seq(PinOf(sent)) /\ OwnIds(pins)
        /\ post = None \/ post \in PostOf(sent)
    BY <1>2 DEF DeliveredInv, SentInv, MapInv
  <2>2. n \in Nat
    BY <2>1, FS_CardinalityType
  <2>3. ASSUME D' \subseteq D, rows' = rows, post' # None /\ post'.stage = "stored" => post' = post
        PROVE  DeliveredInv'
    <3>1. IsFiniteSet(D') /\ Cardinality(D') <= n /\ Cardinality(D') \in Nat
      BY <2>1, <2>3, FS_Subset, FS_CardinalityType
    <3> HIDE DEF D, n
    <3>2. Cardinality(D') <= rows' /\ (post' # None /\ post'.stage = "stored" => Cardinality(D') < rows')
      BY <2>1, <2>2, <2>3, <3>1
    <3> QED BY <3>1, <3>2 DEF DeliveredInv, D
  <2>4. pins' = pins => D' = D
    BY DEF DeliveredIds, GistMap!Drawn
  <2>5. CASE UNCHANGED <<pins, rows, post>>
    BY <2>3, <2>4, <2>5
  <2>6. CASE GistMap!Locate \/ GistMap!ToastExpires
    BY <2>5, <2>6 DEF GistMap!Locate, GistMap!ToastExpires
  <2>7. CASE GistMap!OpenModal \/ GistMap!CloseModal \/ \E text : GistMap!TypeContent(text)
    BY <2>5, <2>7 DEF GistMap!OpenModal, GistMap!CloseModal, GistMap!TypeContent, GistMap!OnlyModal
  <2>8. CASE GistMap!Submit
    <3> DEFINE pin == [id |-> sent', status |-> "pending", at |-> here]
    <3>1. pins' = Append(pins, pin) /\ rows' = rows /\ post' = [id |-> sent', at |-> here, stage |-> "sent"]
      BY <2>8 DEF GistMap!Submit
    <3>2. pin.status # "delivered" /\ post'.stage # "stored"
      BY <3>1
    <3> HIDE DEF pin
    <3>3. \A i \in DOMAIN pins' : pins'[i] = pin \/ (i \in DOMAIN pins /\ pins'[i] = pins[i])
      BY <2>1, <3>1
    <3>4. D' \subseteq D
      BY <3>2, <3>3, DeliveredStay
    <3> QED BY <2>3, <3>1, <3>2, <3>4
  <2>9. CASE GistMap!BackendStores
    <3>1. rows' = rows + 1 /\ pins' = pins
      BY <2>9 DEF GistMap!BackendStores, GistMap!Stage
    <3>2. D' = D
      BY <2>4, <3>1
    <3> HIDE DEF D
    <3>3. IsFiniteSet(D') /\ Cardinality(D') < rows'
      BY <2>1, <2>2, <3>1, <3>2
    <3>4. Cardinality(D') <= rows'
      <4>1. Cardinality(D') = n
        BY <3>2
      <4> HIDE DEF n
      <4> QED BY <2>1, <2>2, <3>1, <4>1
    <3> QED BY <3>3, <3>4 DEF DeliveredInv, D
  <2>10. CASE GistMap!BackendRefuses \/ GistMap!AnswerLost
    <3>1. rows' = rows /\ pins' = pins /\ post' = [post EXCEPT !.stage = "failed"] /\ post # None
      BY <2>10 DEF GistMap!BackendRefuses, GistMap!AnswerLost, GistMap!Stage
    <3>2. post'.stage # "stored"
      BY <2>1, <3>1 DEF PostOf
    <3> QED BY <2>3, <2>4, <3>1, <3>2
  <2>11. CASE GistMap!Succeed
    <3> DEFINE told == [i \in DOMAIN pins |->
          IF pins[i].id = post.id THEN [pins[i] EXCEPT !.status = "delivered"] ELSE pins[i]]
    <3>1. pins' = told /\ rows' = rows /\ post' = None /\ post # None /\ post.stage = "stored"
      BY <2>11 DEF GistMap!Succeed, GistMap!Finish
    <3>2. \A i \in DOMAIN pins : pins[i] \in PinOf(sent)
      BY <2>1, SeqElements
    <3>3. \A i \in DOMAIN pins : told[i].id = pins[i].id /\ (pins[i].id # post.id => told[i] = pins[i])
      BY <3>2 DEF PinOf
    <3>4. DOMAIN told = DOMAIN pins
      OBVIOUS
    <3> HIDE DEF told
    <3>5. D' = {pins'[i].id : i \in {k \in DOMAIN pins' : pins'[k].status = "delivered"}}
      BY DEF DeliveredIds, GistMap!Drawn
    <3>6. ASSUME NEW i \in DOMAIN pins', pins'[i].status = "delivered" PROVE pins'[i].id \in D \cup {post.id}
      <4>1. CASE pins[i].id = post.id
        BY <3>1, <3>3, <3>4, <3>6, <4>1
      <4>2. CASE pins[i].id # post.id
        <5>1. pins'[i] = pins[i] /\ i \in DOMAIN pins
          BY <3>1, <3>3, <3>4, <3>6, <4>2
        <5>2. i \in GistMap!Drawn("delivered")
          BY <3>6, <5>1 DEF GistMap!Drawn
        <5> QED BY <5>1, <5>2 DEF DeliveredIds
      <4> QED BY <4>1, <4>2
    <3>7. D' \subseteq D \cup {post.id}
      BY <3>5, <3>6
    <3> HIDE DEF D
    <3>8. IsFiniteSet(D \cup {post.id}) /\ Cardinality(D \cup {post.id}) <= n + 1
      <4>1. IsFiniteSet(D \cup {post.id})
            /\ Cardinality(D \cup {post.id}) = (IF post.id \in D THEN n ELSE n + 1)
        BY <2>1, FS_AddElement
      <4> HIDE DEF n
      <4> QED BY <2>2, <4>1
    <3>9. IsFiniteSet(D') /\ Cardinality(D') <= Cardinality(D \cup {post.id})
          /\ Cardinality(D') \in Nat /\ Cardinality(D \cup {post.id}) \in Nat
      BY <3>7, <3>8, FS_Subset, FS_CardinalityType
    <3>10. Cardinality(D') <= rows'
      <4> HIDE DEF n
      <4> QED BY <2>1, <2>2, <3>1, <3>8, <3>9
    <3> QED BY <3>1, <3>9, <3>10 DEF DeliveredInv, D
  <2>12. CASE GistMap!FailPost
    <3> DEFINE S == {p \in GistMap!Range(pins) : p.id # post.id}
               left == Kept(pins, S)
               Pins == PinOf(sent)
    <3>1. pins' = left /\ post' = None /\ rows' = rows
      BY <2>12, OneFilter DEF GistMap!FailPost, GistMap!Finish, GistMap!WithoutPin
    <3>2. pins \in Seq(Pins)
      BY <2>1
    <3> HIDE DEF Pins, S
    <3>3. \A i \in DOMAIN left : \E j \in DOMAIN pins : pins[j] = left[i]
      BY <3>2, KeptFacts
    <3> HIDE DEF left
    <3>4. D' \subseteq D
      <4>1. ASSUME NEW i \in DOMAIN pins', pins'[i].status = "delivered"
            PROVE  \E j \in DOMAIN pins : pins[j].status = "delivered" /\ pins[j].id = pins'[i].id
        <5>1. PICK j \in DOMAIN pins : pins[j] = pins'[i]
          BY <3>1, <3>3, <4>1
        <5> QED BY <4>1, <5>1
      <4> QED BY <4>1, DeliveredStay
    <3> QED BY <2>3, <3>1, <3>4
  <2>13. CASE UNCHANGED GistMap!mapVars
    BY <2>5, <2>13 DEF GistMap!mapVars
  <2> QED BY <1>2, <2>6, <2>7, <2>8, <2>9, <2>10, <2>11, <2>12, <2>13 DEF GistMap!MapNext
<1> QED BY <1>1, <1>2

\* Each pin shown as delivered is one of another id.
LEMMA DeliveredKeeps == MapInv /\ SentInv /\ DeliveredInv => GistMap!DeliveredPinsAreStored
<1> SUFFICES ASSUME MapInv, SentInv, DeliveredInv PROVE GistMap!DeliveredPinsAreStored
  OBVIOUS
<1> DEFINE S == GistMap!Drawn("delivered")
           f == [i \in S |-> pins[i].id]
<1>1. \A i, j \in S : pins[i].id = pins[j].id => i = j
  BY DEF MapInv, OwnIds, GistMap!Drawn
<1>2. f \in Injection(S, DeliveredIds)
  <2>1. \A i \in S : pins[i].id \in DeliveredIds
    BY DEF DeliveredIds
  <2> HIDE DEF S
  <2>2. f \in [S -> DeliveredIds]
    BY <2>1
  <2>3. \A i, j \in S : f[i] = f[j] => i = j
    BY <1>1
  <2> HIDE DEF f
  <2> QED BY <2>2, <2>3 DEF Injection, IsInjective
<1> HIDE DEF f
<1>3. IsFiniteSet(S) /\ Cardinality(S) <= Cardinality(DeliveredIds)
  BY <1>2, FS_Injection DEF DeliveredInv
<1>4. Cardinality(S) \in Nat /\ Cardinality(DeliveredIds) \in Nat
  BY <1>3, FS_CardinalityType DEF DeliveredInv
<1>5. Cardinality(DeliveredIds) <= rows /\ rows \in Nat
  BY DEF DeliveredInv, SentInv
<1> HIDE DEF S
<1>6. Cardinality(S) <= rows
  BY <1>3, <1>4, <1>5
<1> QED BY <1>6, MapCount DEF S, GistMap!DeliveredPinsAreStored
-----------------------------------------------------------------------------
(* Exports: every row is written *)

\* The file holds the rows of its click, and the export under way those up to where it
\* is, of which the button tells the portion.
RowsInv ==
  /\ csv.file # None => csv.file.output = csv.file.rows
  /\ csv.run # None => /\ csv.run.output = SubSeq(csv.run.rows, 1, csv.run.at)
                       /\ csv.progress = Files!Progress(csv.run)

\* A chunk writes the rows after those written, up to where it gets.
LEMMA ChunkWrites ==
  ASSUME NEW run, run \in RunOf, run.at <= Len(run.rows), run.output = SubSeq(run.rows, 1, run.at)
  PROVE  Files!Chunk(run).output = SubSeq(Files!Chunk(run).rows, 1, Files!Chunk(run).at)
<1> DEFINE size == Len(run.rows)
           to == Files!Least(size, run.at + Files!ChunkSize(size))
           more == SubSeq(run.rows, run.at + 1, to)
           joined == run.output \o more
           next == Files!Chunk(run)
<1>1. run.rows \in Seq(TableRow) /\ run.at \in Nat /\ size \in Nat /\ run.at <= size
  BY DEF RunOf
<1>2. Files!ChunkSize(size) \in Nat
  BY <1>1, FileConstants DEF Files!ChunkSize
<1>3. to \in run.at..size
  BY <1>1, <1>2 DEF Files!Least
<1>4. next = [run EXCEPT !.at = to, !.output = joined]
  BY DEF Files!Chunk
<1>5. joined = SubSeq(run.rows, 1, to)
  <2> HIDE DEF to
  <2>1. 1 \in 1..Len(run.rows) + 1 /\ run.at \in 1 - 1..Len(run.rows) /\ to \in run.at..Len(run.rows)
    BY <1>1, <1>3
  <2>2. SubSeq(run.rows, 1, run.at) \o SubSeq(run.rows, run.at + 1, to) = SubSeq(run.rows, 1, to)
    BY <1>1, <2>1, ConcatAdjacentSubSeq
  <2> QED BY <2>2
<1> HIDE DEF to, joined, next
<1>6. next.at = to /\ next.output = joined /\ next.rows = run.rows
  <2>1. run = [rows |-> run.rows, at |-> run.at, output |-> run.output]
    BY DEF RunOf
  <2>2. next = [rows |-> run.rows, at |-> to, output |-> joined]
    BY <1>4, <2>1
  <2> QED BY <2>2
<1> QED BY <1>5, <1>6 DEF next

\* All of a whole is a hundred per cent.
LEMMA WholeIsAHundred == \A n \in Nat \ {0} : Files!Percent(n, n) = 100
<1> TAKE n \in Nat \ {0}
<1> DEFINE q == (200 * n + n) \div (2 * n)
<1>1. 200 * n + n \in Nat /\ 2 * n \in Nat \ {0}
  OBVIOUS
<1>2. q \in Nat /\ 200 * n + n < (2 * n) * q + 2 * n
  BY <1>1, Quotient
<1>3. q <= 100
  <2>1. Files!Percent(n, n) \in 0..100
    BY ShareOfAWhole
  <2> QED BY <2>1 DEF Files!Percent
<1> HIDE DEF q
<1>4. ASSUME q <= 99 PROVE FALSE
  <2> DEFINE m == 99 - q
  <2>1. m \in Nat /\ q = 99 - m
    BY <1>2, <1>4
  <2> HIDE DEF m
  <2>2. (2 * n) * q = 198 * n - (2 * n) * m
    BY <2>1
  <2>3. (2 * n) * m \in Nat
    BY <1>1, <2>1
  <2> DEFINE x == (2 * n) * m
             y == (2 * n) * q
  <2> HIDE DEF x, y
  <2>4. y = 198 * n - x /\ x \in Nat /\ 200 * n + n < y + 2 * n
    BY <1>2, <2>2, <2>3 DEF x, y
  <2> QED BY <1>1, <2>4
<1>5. q = 100
  BY <1>2, <1>3, <1>4
<1> QED BY <1>5 DEF Files!Percent, q

\* Whatever the chunks, each row of the click is written once and in its place.
LEMMA StepRows ==
  /\ Files!ExportsInit => RowsInv
  /\ CsvInv /\ RowsInv /\ [FilesNext]_(Files!exportVars) => RowsInv'
<1>1. Files!ExportsInit => RowsInv
  BY DEF Files!ExportsInit, RowsInv
<1>2. ASSUME CsvInv, RowsInv, [FilesNext]_(Files!exportVars) PROVE RowsInv'
  <2>1. /\ csv = [table |-> csv.table, run |-> csv.run, progress |-> csv.progress,
                  file |-> csv.file, error |-> csv.error]
        /\ csv.table \in Seq(TableRow)
        /\ csv.run # None => csv.run \in RunOf /\ csv.run.at <= Len(csv.run.rows)
    BY <1>2 DEF CsvInv
  <2>2. /\ csv.file # None => csv.file.output = csv.file.rows
        /\ csv.run # None => /\ csv.run.output = SubSeq(csv.run.rows, 1, csv.run.at)
                             /\ csv.progress = Files!Progress(csv.run)
    BY <1>2 DEF RowsInv
  <2>3. CASE csv' = csv
    BY <2>2, <2>3 DEF RowsInv
  <2>4. ASSUME NEW run, run \in RunOf, run.at <= Len(run.rows),
               run.output = SubSeq(run.rows, 1, run.at), Files!Advance(Files!Chunk(run))
        PROVE  RowsInv'
    <3> DEFINE next == Files!Chunk(run)
               portion == Files!Progress(next)
    <3>1. csv' = [csv EXCEPT !.run = next, !.progress = portion, !.error = FALSE]
      BY <2>4 DEF Files!Advance, Files!OnlyCsv
    <3>2. next.output = SubSeq(next.rows, 1, next.at)
      BY <2>4, ChunkWrites
    <3> HIDE DEF next, portion
    <3>3. csv' = [table |-> csv.table, run |-> next, progress |-> portion, file |-> csv.file,
                  error |-> FALSE]
      BY <2>1, <3>1
    <3>4. csv'.run = next /\ csv'.progress = portion /\ csv'.file = csv.file
      BY <3>3
    <3> QED BY <2>2, <3>2, <3>4 DEF RowsInv, portion
  <2>5. CASE Files!ChangeTable
    <3>1. PICK t \in Table : csv' = [csv EXCEPT !.table = t]
      BY <2>5 DEF Files!ChangeTable, Files!OnlyCsv
    <3>2. csv'.run = csv.run /\ csv'.progress = csv.progress /\ csv'.file = csv.file
      BY <2>1, <3>1
    <3> QED BY <2>2, <3>2 DEF RowsInv
  <2>6. CASE Files!ClickExport
    <3> DEFINE first == [rows |-> csv.table, at |-> 0, output |-> << >>]
    <3>1. first \in RunOf /\ first.at <= Len(first.rows)
      BY <2>1 DEF RunOf
    <3>2. Files!Advance(Files!Chunk(first))
      BY <2>6 DEF Files!ClickExport, Files!Begun
    <3>3. first.output = SubSeq(first.rows, 1, first.at)
      <4>1. SubSeq(csv.table, 1, 0) = << >>
        BY <2>1
      <4> QED BY <4>1
    <3> HIDE DEF first
    <3> QED BY <2>4, <3>1, <3>2, <3>3
  <2>7. CASE Files!NextChunk
    BY <2>1, <2>2, <2>4, <2>7 DEF Files!NextChunk
  <2>8. CASE Files!WriteFile
    <3>1. /\ csv' = [csv EXCEPT !.file = csv.run, !.run = None, !.progress = 100]
          /\ csv.run # None /\ csv.run.at = Len(csv.run.rows)
      BY <2>8 DEF Files!WriteFile, Files!OnlyCsv, Files!Written
    <3>2. csv'.file = csv.run /\ csv'.run = None
      BY <2>1, <3>1
    <3>3. csv.run.rows \in Seq(TableRow)
      BY <2>1, <3>1 DEF RunOf
    <3>4. csv.run.output = csv.run.rows
      <4>1. SubSeq(csv.run.rows, 1, Len(csv.run.rows)) = csv.run.rows
        BY <3>3
      <4> QED BY <2>2, <3>1, <4>1
    <3> QED BY <3>2, <3>4 DEF RowsInv
  <2>9. CASE Files!LoadFails
    <3>1. csv' = [csv EXCEPT !.run = None, !.progress = None, !.error = TRUE]
      BY <2>9 DEF Files!LoadFails, Files!OnlyCsv
    <3>2. csv'.file = csv.file /\ csv'.run = None
      BY <2>1, <3>1
    <3> QED BY <2>2, <3>2 DEF RowsInv
  <2>10. CASE Files!ButtonBack
    <3>1. csv' = [csv EXCEPT !.progress = None] /\ csv.run = None
      BY <2>10 DEF Files!ButtonBack, Files!OnlyCsv
    <3>2. csv'.file = csv.file /\ csv'.run = None
      BY <2>1, <3>1
    <3> QED BY <2>2, <3>2 DEF RowsInv
  <2>11. CASE Files!BookNext \/ Files!JsonNext \/ Files!PictureNext
    <3>1. UNCHANGED csv
      BY <2>11 DEF Files!BookNext, Files!ClickBook, Files!BookFails, Files!BookMessageEnds,
           Files!BookDone, Files!OnlyBook, Files!JsonNext, Files!PickPretty, Files!JsonMessageEnds,
           Files!ClickJson, Files!OnlyJson, Files!PictureNext, Files!PickBackground,
           Files!ClickPicture, Files!PictureTaken, Files!PictureFails, Files!OnlyPicture
    <3> QED BY <2>3, <3>1
  <2>12. CASE UNCHANGED Files!exportVars
    BY <2>3, <2>12 DEF Files!exportVars
  <2> QED BY <1>2, <2>5, <2>6, <2>7, <2>8, <2>9, <2>10, <2>11, <2>12 DEF FilesNext, Files!CsvNext
<1> QED BY <1>1, <1>2

\* So what is written begins as the table does, and is all of it when the button says so.
LEMMA RowsKeep == CsvInv /\ RowsInv => Files!FilesAreComplete
<1> SUFFICES ASSUME CsvInv, RowsInv, csv.run # None
             PROVE  /\ Files!Begins(csv.run.output, csv.run.rows)
                    /\ Len(csv.run.output) = Len(csv.run.rows) => csv.progress = 100
  BY DEF RowsInv, Files!FilesAreComplete
<1> DEFINE n == Len(csv.run.rows)
           at == csv.run.at
<1>1. /\ csv.run.rows \in Seq(TableRow) /\ n \in Nat /\ at \in 0..n
      /\ csv.run.output = SubSeq(csv.run.rows, 1, at) /\ csv.progress = Files!Progress(csv.run)
  BY DEF CsvInv, RowsInv, RunOf
<1>2. Files!Begins(csv.run.output, csv.run.rows)
  BY <1>1 DEF Files!Begins
<1>3. Len(csv.run.output) = at
  BY <1>1
<1>4. ASSUME at = n PROVE csv.progress = 100
  <2>1. CASE csv.run.rows = << >>
    BY <1>1, <2>1 DEF Files!Progress
  <2>2. CASE csv.run.rows # << >>
    <3>1. n \in Nat \ {0}
      BY <1>1, <2>2
    <3>2. Files!Percent(at, n) = 100
      BY <1>4, <3>1, WholeIsAHundred
    <3> QED BY <1>1, <2>2, <3>2 DEF Files!Progress
  <2> QED BY <2>1, <2>2
<1> QED BY <1>2, <1>3, <1>4
-----------------------------------------------------------------------------
(* The counter: the newest gists first *)

\* Newest first, down to those there were at first.
Chained(list) == \A i \in 1..Len(list) - 1 : list[i] = list[i + 1] + 1 \/ list[i + 1] <= 0
\* The list goes down by one from the gist counted last, or from those there were at first.
NewestInv ==
  /\ Len(home.list) >= 1 /\ Chained(home.list)
  /\ home.list[1] = home.count \/ home.list[1] <= 0

\* New gists go on top of the list, which is cut at its end.
LEMMA ListedIsChained ==
  ASSUME NEW list \in Seq(Int), Len(list) >= 1, Chained(list), NEW count \in Nat,
         list[1] = count \/ list[1] <= 0, NEW n \in Nat, NEW to \in 1..n + Len(list),
         NEW new, new = [i \in 1..n |-> count + n + 1 - i]
  PROVE  LET cut == SubSeq(new \o list, 1, to)
         IN  /\ Len(cut) >= 1 /\ Chained(cut) /\ (cut[1] = count + n \/ cut[1] <= 0)
<1>1. new \in Seq(Int) /\ Len(new) = n /\ Len(list) \in Nat
  OBVIOUS
<1>2. \A i \in 1..n : new[i] = count + n + 1 - i
  OBVIOUS
<1> DEFINE all == new \o list
           cut == SubSeq(all, 1, to)
<1>3. /\ all \in Seq(Int) /\ Len(all) = n + Len(list)
      /\ \A i \in 1..n + Len(list) : all[i] = IF i <= n THEN new[i] ELSE list[i - n]
  BY <1>1, ConcatProperties
<1> HIDE DEF all
<1>4. to \in 1..Len(all)
  BY <1>3
<1>5. Len(cut) = to /\ \A i \in 1..to : cut[i] = all[i]
  BY <1>3, <1>4
<1> HIDE DEF cut
<1>6. ASSUME NEW i \in 1..to - 1 PROVE cut[i] = cut[i + 1] + 1 \/ cut[i + 1] <= 0
  <2>1. i \in 1..n + Len(list) /\ i + 1 \in 1..n + Len(list) /\ i \in 1..to /\ i + 1 \in 1..to
    BY <1>1, <1>4, <1>3
  <2>2. cut[i] = all[i] /\ cut[i + 1] = all[i + 1]
    BY <1>5, <2>1
  <2>3. CASE i + 1 <= n
    <3>1. all[i] = new[i] /\ all[i + 1] = new[i + 1] /\ i \in 1..n /\ i + 1 \in 1..n
      BY <1>3, <2>1, <2>3
    <3>2. new[i] = count + n + 1 - i /\ new[i + 1] = count + n + 1 - (i + 1)
      BY <1>2, <3>1
    <3> QED BY <2>1, <2>2, <3>1, <3>2
  <2>4. CASE i = n
    <3>1. all[i] = new[i] /\ all[i + 1] = list[1] /\ n \in 1..n
      <4>1. i <= n /\ ~(i + 1 <= n) /\ i + 1 - n = 1
        BY <2>1, <2>4
      <4>2. all[i + 1] = list[i + 1 - n]
        BY <1>3, <2>1, <4>1
      <4>3. all[i] = new[i]
        BY <1>3, <2>1, <4>1
      <4>4. n \in 1..n
        BY <2>1, <2>4
      <4> QED BY <4>1, <4>2, <4>3, <4>4
    <3>2. new[n] = count + n + 1 - n
      BY <1>2, <3>1
    <3>3. count + n + 1 - n = count + 1
      OBVIOUS
    <3> QED BY <2>2, <2>4, <3>1, <3>2, <3>3
  <2>5. CASE i > n
    <3>1. ~(i <= n) /\ ~(i + 1 <= n) /\ i + 1 - n = (i - n) + 1 /\ i - n \in 1..Len(list) - 1
      BY <1>1, <2>1, <2>5
    <3>2. all[i] = list[i - n] /\ all[i + 1] = list[i + 1 - n]
      BY <1>3, <2>1, <3>1
    <3>3. list[i - n] = list[(i - n) + 1] + 1 \/ list[(i - n) + 1] <= 0
      BY <3>1 DEF Chained
    <3> QED BY <2>2, <3>1, <3>2, <3>3
  <2> QED BY <2>1, <2>3, <2>4, <2>5
<1>7. cut[1] = count + n \/ cut[1] <= 0
  <2>1. cut[1] = all[1] /\ 1 \in 1..n + Len(list)
    BY <1>1, <1>4, <1>5
  <2>2. CASE n = 0
    BY <1>3, <2>1, <2>2
  <2>3. CASE n # 0
    <3>1. 1 \in 1..n /\ 1 <= n /\ new[1] = count + n + 1 - 1
      BY <1>2, <2>3
    <3> QED BY <1>3, <2>1, <3>1
  <2> QED BY <2>2, <2>3
<1>8. Len(cut) >= 1 /\ Chained(cut)
  BY <1>4, <1>5, <1>6 DEF Chained
<1> QED BY <1>7, <1>8 DEF cut, all

\* Only a batch changes the list, and the count with it.
LEMMA StepNewest ==
  /\ Widgets!WidgetsInit => NewestInv
  /\ WidgetsInv /\ NewestInv /\ [WidgetsNext]_(Widgets!widgetVars) => NewestInv'
<1>1. ASSUME Widgets!WidgetsInit PROVE NewestInv
  <2>1. PICK n \in Batch : home = [stage |-> 0, count |-> n, shown |-> n, frames |-> 2,
              list |-> <<0, -1>>, news |-> 0, flash |-> FALSE, pulse |-> FALSE]
    BY <1>1 DEF Widgets!WidgetsInit
  <2>2. home.list = <<0, -1>>
    BY <2>1
  <2>3. Len(<<0, -1>>) = 2 /\ <<0, -1>>[1] = 0 /\ <<0, -1>>[2] = -1
    OBVIOUS
  <2> QED BY <2>2, <2>3 DEF NewestInv, Chained
<1>2. ASSUME WidgetsInv, NewestInv, [WidgetsNext]_(Widgets!widgetVars) PROVE NewestInv'
  <2>1. /\ home \in HomeOf /\ home.list \in Seq(Int) /\ home.count \in Nat /\ Len(home.list) \in Nat
        /\ Len(home.list) >= 1 /\ Chained(home.list)
        /\ home.list[1] = home.count \/ home.list[1] <= 0
    BY <1>2 DEF WidgetsInv, NewestInv, HomeOf
  <2>2. ASSUME home'.list = home.list, home'.count = home.count PROVE NewestInv'
    BY <2>1, <2>2 DEF NewestInv, Chained
  <2>3. CASE home' = home
    BY <2>2, <2>3
  <2>4. CASE Widgets!TeamNext
    BY <2>3, <2>4 DEF Widgets!TeamNext, Widgets!TeamTick, Widgets!AddNote,
       Widgets!TypeNote, Widgets!OnlyTeam
  <2>5. CASE Widgets!PlayerNext
    BY <2>3, <2>5 DEF Widgets!PlayerNext, Widgets!TogglePlay, Widgets!Reset, Widgets!Scrub,
       Widgets!Second, Widgets!SelectSession, Widgets!OnlyPlayer
  <2>6. CASE Widgets!Load \/ Widgets!FlashEnds \/ Widgets!NewsEnds \/ Widgets!PulseEnds
    <3>1. \/ home' = [home EXCEPT !.stage = @ + 1] \/ home' = [home EXCEPT !.flash = FALSE]
          \/ home' = [home EXCEPT !.news = 0] \/ home' = [home EXCEPT !.pulse = FALSE]
      BY <2>6 DEF Widgets!Load, Widgets!FlashEnds, Widgets!NewsEnds, Widgets!PulseEnds,
         Widgets!OnlyHome
    <3> QED BY <2>1, <2>2, <3>1 DEF HomeOf
  <2>7. CASE Widgets!Frame
    <3>1. PICK n : home' = [home EXCEPT !.shown = n, !.frames = @ - 1]
      BY <2>7 DEF Widgets!Frame, Widgets!OnlyHome
    <3> QED BY <2>1, <2>2, <3>1 DEF HomeOf
  <2>8. ASSUME NEW n \in Batch, Widgets!Gists(n) PROVE NewestInv'
    <3> DEFINE new == [i \in 1..n |-> home.count + n + 1 - i]
               to == Widgets!Low(Keep, n + Len(home.list))
               cut == SubSeq(new \o home.list, 1, to)
               news == Widgets!Low(n, Keep)
    <3>1. n \in Nat /\ Keep \in Nat /\ 2 <= Keep
      BY WidgetConstants
    <3>2. home' = [home EXCEPT !.count = home.count + n, !.frames = 2, !.list = cut,
                               !.news = news, !.flash = TRUE, !.pulse = TRUE]
      BY <2>8 DEF Widgets!Gists, Widgets!OnlyHome, Widgets!Listed
    <3>3. to \in 1..n + Len(home.list)
      BY <2>1, <3>1 DEF Widgets!Low
    <3> HIDE DEF to
    <3>4. Len(cut) >= 1 /\ Chained(cut) /\ (cut[1] = home.count + n \/ cut[1] <= 0)
      BY <2>1, <3>1, <3>3, ListedIsChained
    <3> HIDE DEF cut, news
    <3>5. home'.list = cut /\ home'.count = home.count + n
      BY <2>1, <3>2 DEF HomeOf
    <3>6. Chained(home'.list)
      BY <3>4, <3>5
    <3> QED BY <3>4, <3>5, <3>6 DEF NewestInv, Chained
  <2>9. CASE UNCHANGED Widgets!widgetVars
    BY <2>3, <2>9 DEF Widgets!widgetVars
  <2> QED BY <1>2, <2>4, <2>5, <2>6, <2>7, <2>8, <2>9 DEF WidgetsNext, Widgets!HomeNext
<1> QED BY <1>1, <1>2

\* So the counter comes to the count, over a list of the newest.
LEMMA NewestKeeps == CounterInv /\ NewestInv => Widgets!CounterShowsTheCount
BY DEF CounterInv, NewestInv, Chained, Widgets!CounterShowsTheCount
-----------------------------------------------------------------------------
(* The files of the segments, the pager, and the cards of the tests *)

\* A segment without conditions takes everybody or nobody; the others are counted as
\* they are exported.
LEMMA FilesAreCounted == Segments!SegmentsTypeOK => Segments!FilesHaveTheCountedUsers
<1>1. ASSUME NEW s, s.logic = "AND" \/ s.logic = "OR"
      PROVE  \/ Segments!Cardinality(Segments!Exported(s)) = Segments!EstimateSize(s)
             \/ s.conditions = << >> /\ s.logic = "OR" /\ Segments!Exported(s) = {}
  <2>1. CASE s.conditions # << >>
    BY <2>1 DEF Segments!EstimateSize
  <2>2. CASE s.conditions = << >> /\ s.logic = "AND"
    <3>1. Segments!Exported(s) = User
      BY <2>2 DEF Segments!Exported, Segments!Every
    <3> QED BY <2>2, <3>1 DEF Segments!EstimateSize
  <2>3. CASE s.conditions = << >> /\ s.logic = "OR"
    <3>1. Segments!Exported(s) = {}
      BY <2>3 DEF Segments!Exported, Segments!Some
    <3> QED BY <2>3, <3>1
  <2> QED BY <1>1, <2>1, <2>2, <2>3
<1>2. ASSUME Segments!SegmentsTypeOK, NEW i \in DOMAIN segments
      PROVE  segments[i].logic = "AND" \/ segments[i].logic = "OR"
  BY <1>2 DEF Segments!SegmentsTypeOK, Segments!Logics
<1> QED BY <1>1, <1>2 DEF Segments!FilesHaveTheCountedUsers

\* So are those of the builder with the page in it.
LEMMA InnerFilesAreCounted ==
  Embedded!Page!SegmentsTypeOK => Embedded!Page!FilesHaveTheCountedUsers
<1>1. ASSUME NEW s, s.logic = "AND" \/ s.logic = "OR"
      PROVE  \/ Embedded!Page!Cardinality(Embedded!Page!Exported(s)) = Embedded!Page!EstimateSize(s)
             \/ s.conditions = << >> /\ s.logic = "OR" /\ Embedded!Page!Exported(s) = {}
  <2>1. CASE s.conditions # << >>
    BY <2>1 DEF Embedded!Page!EstimateSize
  <2>2. CASE s.conditions = << >> /\ s.logic = "AND"
    <3>1. Embedded!Page!Exported(s) = User
      BY <2>2 DEF Embedded!Page!Exported, Embedded!Page!Every
    <3> QED BY <2>2, <3>1 DEF Embedded!Page!EstimateSize
  <2>3. CASE s.conditions = << >> /\ s.logic = "OR"
    <3>1. Embedded!Page!Exported(s) = {}
      BY <2>3 DEF Embedded!Page!Exported, Embedded!Page!Some
    <3> QED BY <2>3, <3>1
  <2> QED BY <1>1, <2>1, <2>2, <2>3
<1>2. ASSUME Embedded!Page!SegmentsTypeOK, NEW i \in DOMAIN given
      PROVE  given[i].logic = "AND" \/ given[i].logic = "OR"
  BY <1>2 DEF Embedded!Page!SegmentsTypeOK, Embedded!Page!Logics
<1> QED BY <1>1, <1>2 DEF Embedded!Page!FilesHaveTheCountedUsers

\* Numbers and gaps in the order of the pager.
Ascends(s) == \A i \in 1..Len(s) - 1 : s[i] # 0 =>
  IF s[i + 1] = 0 THEN s[i + 2] > s[i] + 2 ELSE s[i + 1] = s[i] + 1

\* Seven places, of which the neighbours are checked one by one.
LEMMA SevenAscend ==
  ASSUME NEW s, DOMAIN s = 1..7, Len(s) = 7, \A i \in 1..7 : s[i] \in Nat,
         s[1] # 0, s[3] # 0, s[4] # 0, s[5] # 0, s[7] # 0,
         IF s[2] = 0 THEN s[3] > s[1] + 2 ELSE s[2] = s[1] + 1 /\ s[3] = s[2] + 1,
         s[4] = s[3] + 1, s[5] = s[4] + 1,
         IF s[6] = 0 THEN s[7] > s[5] + 2 ELSE s[6] = s[5] + 1 /\ s[7] = s[6] + 1
  PROVE  Ascends(s) /\ Components!Range(s) = {s[1], s[2], s[3], s[4], s[5], s[6], s[7]}
<1>1. \A i \in 1..6 : i = 1 \/ i = 2 \/ i = 3 \/ i = 4 \/ i = 5 \/ i = 6
  OBVIOUS
<1>2. \A i \in 1..7 : i = 1 \/ i = 2 \/ i = 3 \/ i = 4 \/ i = 5 \/ i = 6 \/ i = 7
  OBVIOUS
<1>3. ASSUME NEW i \in 1..6, s[i] # 0
      PROVE  IF s[i + 1] = 0 THEN s[i + 2] > s[i] + 2 ELSE s[i + 1] = s[i] + 1
  BY <1>1, <1>3
<1>4. Ascends(s)
  BY <1>3 DEF Ascends
<1>5. Components!Range(s) = {s[i] : i \in 1..7}
  BY DEF Components!Range
<1>6. /\ 1 \in 1..7 /\ 2 \in 1..7 /\ 3 \in 1..7 /\ 4 \in 1..7 /\ 5 \in 1..7 /\ 6 \in 1..7
      /\ 7 \in 1..7
  OBVIOUS
<1> QED BY <1>2, <1>4, <1>5, <1>6

\* Whatever the page, the pager lists it with its neighbours and the ends.
LEMMA PagerLists == PagerPlace => Components!PagesAreListed
<1> DEFINE p == pager.page
           n == pager.total
           s == Components!PageNumbers(p, n)
<1> SUFFICES ASSUME PagerPlace, p <= n
             PROVE  /\ ({1, n} \cup ((p - 1 .. p + 1) \cap (1..n))) \subseteq Components!Range(s)
                    /\ Ascends(s)
  BY DEF Components!PagesAreListed, Components!Gap, Ascends
<1>1. p \in Nat /\ n \in Nat /\ p >= 1
  BY BoundsAreNumbers DEF PagerPlace, BoundsAreNumbers
<1> HIDE DEF p, n
<1>2. CASE n <= 7
  <2>1. s = [i \in 1..n |-> i]
    BY <1>2 DEF Components!PageNumbers
  <2> HIDE DEF s
  <2>2. DOMAIN s = 1..n /\ Len(s) = n /\ \A i \in 1..n : s[i] = i
    BY <1>1, <2>1
  <2>3. Components!Range(s) = 1..n
    BY <2>2 DEF Components!Range
  <2>4. Ascends(s)
    BY <1>1, <2>2 DEF Ascends
  <2> QED BY <1>1, <2>3, <2>4
<1>3. CASE n > 7 /\ p <= 4
  <2>1. s = <<1, 2, 3, 4, 5, 0, n>>
    BY <1>1, <1>3 DEF Components!PageNumbers, Components!Gap
  <2> HIDE DEF s
  <2>2. /\ DOMAIN s = 1..7 /\ Len(s) = 7
        /\ s[1] = 1 /\ s[2] = 2 /\ s[3] = 3 /\ s[4] = 4
        /\ s[5] = 5 /\ s[6] = 0 /\ s[7] = n
    BY <2>1
  <2>3. \A i \in 1..7 : s[i] \in Nat
    <3>1. \A i \in 1..7 : i = 1 \/ i = 2 \/ i = 3 \/ i = 4 \/ i = 5 \/ i = 6 \/ i = 7
      OBVIOUS
    <3> QED BY <1>1, <1>3, <2>2, <3>1
  <2>4. Ascends(s) /\ Components!Range(s) = {s[1], s[2], s[3], s[4], s[5], s[6], s[7]}
    BY <1>1, <1>3, <2>2, <2>3, SevenAscend
  <2>5. ASSUME NEW q \in p - 1 .. p + 1, q \in 1..n
        PROVE  q \in {1, 2, 3, 4, 5, 0, n}
    BY <1>1, <1>3, <2>5
  <2> QED BY <2>2, <2>4, <2>5
<1>4. CASE n > 7 /\ p > 4 /\ p >= n - 3
  <2>1. s = <<1, 0, n - 4, n - 3, n - 2, n - 1, n>>
    BY <1>1, <1>4 DEF Components!PageNumbers, Components!Gap
  <2> HIDE DEF s
  <2>2. /\ DOMAIN s = 1..7 /\ Len(s) = 7
        /\ s[1] = 1 /\ s[2] = 0 /\ s[3] = n - 4 /\ s[4] = n - 3
        /\ s[5] = n - 2 /\ s[6] = n - 1 /\ s[7] = n
    BY <2>1
  <2>3. \A i \in 1..7 : s[i] \in Nat
    <3>1. \A i \in 1..7 : i = 1 \/ i = 2 \/ i = 3 \/ i = 4 \/ i = 5 \/ i = 6 \/ i = 7
      OBVIOUS
    <3> QED BY <1>1, <1>4, <2>2, <3>1
  <2>4. Ascends(s) /\ Components!Range(s) = {s[1], s[2], s[3], s[4], s[5], s[6], s[7]}
    BY <1>1, <1>4, <2>2, <2>3, SevenAscend
  <2>5. ASSUME NEW q \in p - 1 .. p + 1, q \in 1..n
        PROVE  q \in {1, 0, n - 4, n - 3, n - 2, n - 1, n}
    BY <1>1, <1>4, <2>5
  <2> QED BY <2>2, <2>4, <2>5
<1>5. CASE n > 7 /\ p > 4 /\ p < n - 3
  <2>1. s = <<1, 0, p - 1, p, p + 1, 0, n>>
    BY <1>1, <1>5 DEF Components!PageNumbers, Components!Gap
  <2> HIDE DEF s
  <2>2. /\ DOMAIN s = 1..7 /\ Len(s) = 7
        /\ s[1] = 1 /\ s[2] = 0 /\ s[3] = p - 1 /\ s[4] = p
        /\ s[5] = p + 1 /\ s[6] = 0 /\ s[7] = n
    BY <2>1
  <2>3. \A i \in 1..7 : s[i] \in Nat
    <3>1. \A i \in 1..7 : i = 1 \/ i = 2 \/ i = 3 \/ i = 4 \/ i = 5 \/ i = 6 \/ i = 7
      OBVIOUS
    <3> QED BY <1>1, <1>5, <2>2, <3>1
  <2>4. Ascends(s) /\ Components!Range(s) = {s[1], s[2], s[3], s[4], s[5], s[6], s[7]}
    BY <1>1, <1>5, <2>2, <2>3, SevenAscend
  <2>5. ASSUME NEW q \in p - 1 .. p + 1, q \in 1..n
        PROVE  q \in {1, 0, p - 1, p, p + 1, 0, n}
    BY <1>1, <1>5, <2>5
  <2> QED BY <2>2, <2>4, <2>5
<1> QED BY <1>1, <1>2, <1>3, <1>4, <1>5

\* Of two variants the statistic is the same from either side, and doubled visits
\* only make it larger.
LEMMA SignificanceIsFair ==
  ASSUME NEW a \in Tried, NEW b \in Tried
  PROVE  LET twice(v) == [visitors |-> 2 * v.visitors, conversions |-> 2 * v.conversions]
         IN  /\ Tests!Significant(a, b) <=> Tests!Significant(b, a)
             /\ Tests!Significant(a, b) =>
                  /\ a.conversions * b.visitors # b.conversions * a.visitors
                  /\ Tests!Significant(twice(a), twice(b))
<1> DEFINE twice(v) == [visitors |-> 2 * v.visitors, conversions |-> 2 * v.conversions]
           av == a.visitors
           bv == b.visitors
           ac == a.conversions
           bc == b.conversions
           det(x, y, z, w) == z * y - w * x
           num(x, y, z, w) == (x + y) * det(x, y, z, w) * det(x, y, z, w)
           den(x, y, z, w) == x * y * (z + w) * ((x + y) - (z + w))
           sig(x, y, z, w) == den(x, y, z, w) > 0 /\ num(x, y, z, w) * 1000 > 1957 * den(x, y, z, w)
<1>1. Tests!Significant(a, b) <=> sig(av, bv, ac, bc)
  BY DEF Tests!Significant, Tests!Above, Tests!Chi2
<1>2. Tests!Significant(b, a) <=> sig(bv, av, bc, ac)
  BY DEF Tests!Significant, Tests!Above, Tests!Chi2
<1>3. Tests!Significant(twice(a), twice(b)) <=> sig(2 * av, 2 * bv, 2 * ac, 2 * bc)
  BY DEF Tests!Significant, Tests!Above, Tests!Chi2
<1>4. av \in Nat /\ bv \in Nat /\ ac \in Nat /\ bc \in Nat
  BY DEF Tried
<1>5. a.conversions * b.visitors = ac * bv /\ b.conversions * a.visitors = bc * av
  OBVIOUS
<1> HIDE DEF av, bv, ac, bc
<1>6. det(bv, av, bc, ac) = 0 - det(av, bv, ac, bc)
  BY <1>4
<1>7. det(2 * av, 2 * bv, 2 * ac, 2 * bc) = 4 * det(av, bv, ac, bc)
  BY <1>4
<1>8. \A x, y, z, w \in Nat : det(x, y, z, w) \in Int /\ den(x, y, z, w) \in Int
  OBVIOUS
<1>9. den(bv, av, bc, ac) = den(av, bv, ac, bc)
  BY <1>4
<1>10. den(2 * av, 2 * bv, 2 * ac, 2 * bc) = 16 * den(av, bv, ac, bc)
  BY <1>4
<1>11. sig(av, bv, ac, bc) => ac * bv # bc * av
  <2>1. ASSUME ac * bv = bc * av PROVE ~sig(av, bv, ac, bc)
    <3>1. det(av, bv, ac, bc) = 0
      BY <1>4, <2>1
    <3> QED BY <1>4, <1>8, <3>1
  <2> QED BY <2>1
<1> DEFINE m == det(av, bv, ac, bc)
           k == den(av, bv, ac, bc)
           n == av + bv
<1>12. m \in Int /\ k \in Int /\ n \in Nat
  BY <1>4, <1>8
<1>13. sig(av, bv, ac, bc) <=> k > 0 /\ n * m * m * 1000 > 1957 * k
  OBVIOUS
<1>14. sig(bv, av, bc, ac) <=> k > 0 /\ n * (0 - m) * (0 - m) * 1000 > 1957 * k
  BY <1>4, <1>6, <1>9
<1>15. sig(2 * av, 2 * bv, 2 * ac, 2 * bc)
         <=> 16 * k > 0 /\ (2 * n) * (4 * m) * (4 * m) * 1000 > 1957 * (16 * k)
  BY <1>4, <1>7, <1>10
<1> HIDE DEF m, k, n, sig
<1>16. n * (0 - m) * (0 - m) = n * m * m /\ (2 * n) * (4 * m) * (4 * m) = 32 * (n * m * m)
       /\ n * m * m \in Int
  BY <1>12
<1>17. sig(av, bv, ac, bc) <=> sig(bv, av, bc, ac)
  BY <1>13, <1>14, <1>16
<1>18. sig(av, bv, ac, bc) => sig(2 * av, 2 * bv, 2 * ac, 2 * bc)
  <2> DEFINE t == n * m * m
  <2>1. t \in Int
    BY <1>16
  <2> HIDE DEF t
  <2>2. k > 0 /\ t * 1000 > 1957 * k => 16 * k > 0 /\ 32 * t * 1000 > 1957 * (16 * k)
    BY <1>12, <2>1
  <2> QED BY <1>13, <1>15, <1>16, <2>2 DEF t
<1> QED BY <1>1, <1>2, <1>3, <1>5, <1>11, <1>17, <1>18

\* So a card offers the same whichever variant is called A.
LEMMA CardsAreFairOf == TestsInv => Tests!CardsAreFair
<1> SUFFICES ASSUME TestsInv, NEW i \in DOMAIN experiments
             PROVE  LET a == experiments[i].variants[1]
                        b == experiments[i].variants[2]
                        twice(v) == [visitors |-> 2 * v.visitors, conversions |-> 2 * v.conversions]
                    IN /\ Tests!Significant(a, b) <=> Tests!Significant(b, a)
                       /\ Tests!Significant(a, b) =>
                            /\ a.conversions * b.visitors # b.conversions * a.visitors
                            /\ Tests!Significant(twice(a), twice(b))
                            /\ Tests!Leading(a, b) # Tests!Leading(b, a)
  BY DEF Tests!CardsAreFair
<1>1. experiments[i].variants[1] \in Tried /\ experiments[i].variants[2] \in Tried
  BY DEF TestsInv, TestOf
<1> QED BY <1>1, SignificanceIsFair, SignificantDiffers
-----------------------------------------------------------------------------
(* The report of a page, and the pictures of a card *)

\* The sections are too few for a share short of all of them to be a hundred.
WholeInv == Dash!ReportIsWhole /\ report.of <= 199

\* Of less than two hundred sections only all are told as a hundred.
LEMMA HundredIsAll ==
  ASSUME NEW n \in Nat, n <= 199, n # 0, NEW k \in 0..n, Dash!Percent(k, n) = 100
  PROVE  k = n
<1> DEFINE m == 2 * n
           t == 200 * k + n
<1>1. n \in Nat /\ k \in Nat /\ k <= n /\ n <= 199 /\ n > 0
  OBVIOUS
<1>2. m \in Nat \ {0} /\ t \in Nat /\ m = 2 * n /\ t = 200 * k + n
  BY <1>1
<1>3. t \div m = 100
  BY DEF Dash!Percent
<1> HIDE DEF m, t
<1>4. m * 100 <= t
  BY <1>2, <1>3
<1>5. k < n => 200 * k + 200 <= 200 * n
  BY <1>1
<1> QED BY <1>1, <1>2, <1>4, <1>5

\* No report is made at first; each section drawn moves one on.
LEMMA StepWhole ==
  /\ Dash!DashInit => WholeInv
  /\ ReportDone /\ WholeInv /\ [Dash!ReportNext]_report => WholeInv'
<1>0. None # 100 /\ Sections \subseteq 0..199
  <2>1. None \notin Nat
    BY BrowserConstants DEF BrowserConstants
  <2> QED BY <2>1, ReportsAreShort DEF ReportsAreShort
<1>1. ASSUME Dash!DashInit PROVE WholeInv
  <2>1. report = [progress |-> None, of |-> 0, done |-> 0, error |-> FALSE, file |-> None]
    BY <1>1 DEF Dash!DashInit
  <2> QED BY <1>0, <2>1 DEF WholeInv, Dash!ReportIsWhole
<1>2. ASSUME ReportDone, WholeInv, [Dash!ReportNext]_report PROVE WholeInv'
  <2>1. /\ report = [progress |-> report.progress, of |-> report.of, done |-> report.done,
                     error |-> report.error, file |-> report.file]
        /\ report.error \in BOOLEAN /\ report.of \in Nat /\ report.done \in 0..report.of
    BY <1>2 DEF ReportDone
  <2>2. /\ report.progress = 100 => report.file = report.of
        /\ report.error => report.progress = None
        /\ report.of <= 199
    BY <1>2 DEF WholeInv, Dash!ReportIsWhole
  <2>7. ASSUME NEW p, NEW o, NEW d, NEW e
        PROVE  [report EXCEPT !.error = e, !.progress = p, !.of = o, !.done = d] =
                 [progress |-> p, of |-> o, done |-> d, error |-> e, file |-> report.file]
    <3> DEFINE r1 == [report EXCEPT !.error = e]
               r2 == [r1 EXCEPT !.progress = p]
               r3 == [r2 EXCEPT !.of = o]
               r4 == [r3 EXCEPT !.done = d]
    <3>1. [report EXCEPT !.error = e, !.progress = p, !.of = o, !.done = d] = r4
      OBVIOUS
    <3>2. r1 = [progress |-> report.progress, of |-> report.of, done |-> report.done, error |-> e,
                file |-> report.file]
      BY <2>1
    <3> HIDE DEF r1
    <3>3. r2 = [progress |-> p, of |-> report.of, done |-> report.done, error |-> e,
                file |-> report.file]
      BY <3>2
    <3> HIDE DEF r2
    <3>4. r3 = [progress |-> p, of |-> o, done |-> report.done, error |-> e, file |-> report.file]
      BY <3>3
    <3> HIDE DEF r3
    <3>5. r4 = [progress |-> p, of |-> o, done |-> d, error |-> e, file |-> report.file]
      BY <3>4
    <3> QED BY <3>1, <3>5
  <2>3. CASE Dash!ReportClick
    <3>1. PICK n \in Sections : report' =
            IF n = 0 THEN [report EXCEPT !.error = TRUE]
            ELSE [report EXCEPT !.error = FALSE, !.progress = 0, !.of = n, !.done = 0]
      BY <2>3 DEF Dash!ReportClick, Dash!OnlyReport
    <3>2. report.progress = None
      BY <2>3 DEF Dash!ReportClick
    <3>3. CASE n = 0
      <4>1. report' = [report EXCEPT !.error = TRUE]
        BY <3>1, <3>3
      <4>2. report'.progress = report.progress /\ report'.of = report.of
        BY <2>1, <4>1
      <4> QED BY <1>0, <2>2, <3>2, <4>2 DEF WholeInv, Dash!ReportIsWhole
    <3>4. CASE n # 0
      <4>1. report' = [report EXCEPT !.error = FALSE, !.progress = 0, !.of = n, !.done = 0]
        BY <3>1, <3>4
      <4>2. report'.progress = 0 /\ report'.of = n /\ ~report'.error
        <5>1. report' = [progress |-> 0, of |-> n, done |-> 0, error |-> FALSE, file |-> report.file]
          BY <2>7, <4>1
        <5> QED BY <5>1
      <4>3. n <= 199
        BY <1>0
      <4> QED BY <4>2, <4>3 DEF WholeInv, Dash!ReportIsWhole
    <3> QED BY <3>3, <3>4
  <2>4. CASE Dash!ReportSection
    <3> DEFINE k == report.done + 1
               p == Dash!Percent(k, report.of)
               f == IF k = report.of THEN k ELSE report.file
    <3>1. report' = [report EXCEPT !.done = k, !.progress = p, !.file = f]
          /\ report.done < report.of /\ report.progress # None
      BY <2>4 DEF Dash!ReportSection, Dash!OnlyReport, Dash!Drawing
    <3>2. k \in 0..report.of /\ report.of \in Nat /\ report.of <= 199 /\ report.of # 0
      BY <2>1, <2>2, <3>1
    <3> HIDE DEF k
    <3>3. p = 100 => k = report.of
      BY <3>2, HundredIsAll
    <3>4. k = report.of => f = report.of
      OBVIOUS
    <3> HIDE DEF p, f
    <3>5. report' = [progress |-> p, of |-> report.of, done |-> k, error |-> report.error, file |-> f]
      BY <2>1, <3>1
    <3>6. report'.progress = p /\ report'.of = report.of /\ report'.file = f
          /\ report'.error = report.error
      BY <3>5
    <3>7. ~report.error
      BY <2>2, <3>1
    <3> QED BY <2>2, <3>3, <3>4, <3>6, <3>7 DEF WholeInv, Dash!ReportIsWhole
  <2>5. CASE Dash!ReportFails \/ Dash!ReportButton
    <3>1. PICK e \in {TRUE, report.error} : report' = [report EXCEPT !.progress = None, !.error = e]
      BY <2>1, <2>5 DEF Dash!ReportFails, Dash!ReportButton, Dash!OnlyReport
    <3>2. report' = [progress |-> None, of |-> report.of, done |-> report.done, error |-> e,
                     file |-> report.file]
      BY <2>1, <3>1
    <3>3. report'.progress = None /\ report'.of = report.of
      BY <3>2
    <3> QED BY <1>0, <2>2, <3>3 DEF WholeInv, Dash!ReportIsWhole
  <2>6. CASE UNCHANGED report
    BY <1>2, <2>6 DEF WholeInv, Dash!ReportIsWhole
  <2> QED BY <1>2, <2>3, <2>4, <2>5, <2>6 DEF Dash!ReportNext
<1> QED BY <1>1, <1>2

\* The button is off while a picture is made, which fits the name it was begun with, as
\* do the files.
Fits(m) == m.card.size = Height[m.name]
FitInv ==
  /\ sharing.busy <=> sharing.making # None
  /\ sharing.making # None => Fits(sharing.making)
  /\ \A i \in DOMAIN sharing.files : Fits(sharing.files[i])
FitsOf(s) ==
  /\ s.busy <=> s.making # None
  /\ s.making # None => Fits(s.making)
  /\ \A i \in DOMAIN s.files : Fits(s.files[i])

\* A rendering leaves the button, the picture and the files as they are.
LEMMA RenderedFits ==
  ASSUME NEW s \in SharingOf, FitsOf(s)
  PROVE  FitsOf(Embedded!Rendered(s))
<1> DEFINE c == Embedded!Card(s.platform, s.text)
           more == Append(s.timers, c)
           r == [s EXCEPT !.timers = more]
<1>1. Embedded!Rendered(s) = r
  BY DEF Embedded!Rendered
<1> HIDE DEF c, more
<1>2. r.busy = s.busy /\ r.making = s.making /\ r.files = s.files
  BY DEF SharingOf
<1> HIDE DEF r
<1> QED BY <1>1, <1>2 DEF FitsOf

\* A picture is made of the card as it was when the button was clicked.
LEMMA StepSharingFits ==
  ASSUME sharing \in SharingOf, FitsOf(sharing), Embedded!SharingNext
  PROVE  FitsOf(sharing')
<1>1. ASSUME NEW s \in SharingOf, FitsOf(s), sharing' = Embedded!Rendered(s) PROVE FitsOf(sharing')
  BY <1>1, RenderedFits
<1>2. /\ sharing.platform \in Platform /\ sharing.text \in CardField /\ sharing.clicks \in 0..MaxClicks
      /\ sharing.making \in {None} \cup [name : Platform, card : CardSet]
      /\ sharing.timers \in Seq(CardSet) /\ sharing.busy \in BOOLEAN
      /\ sharing.files \in Seq({None} \cup [name : Platform, card : CardSet])
      /\ MaxClicks \in Nat
  BY BoundsAreNumbers DEF SharingOf, BoundsAreNumbers
<1>3. sharing.clicks < MaxClicks => sharing.clicks + 1 \in 0..MaxClicks
  BY <1>2
<1>4. /\ sharing.busy <=> sharing.making # None
      /\ sharing.making # None => Fits(sharing.making)
      /\ \A i \in DOMAIN sharing.files : Fits(sharing.files[i])
  BY DEF FitsOf
<1>5. ASSUME NEW p \in Platform, Embedded!ChoosePlatform(p) PROVE FitsOf(sharing')
  <2> DEFINE s == [sharing EXCEPT !.platform = p, !.clicks = sharing.clicks + 1]
  <2>1. sharing' = Embedded!Rendered(s) /\ sharing.clicks < MaxClicks
    BY <1>5 DEF Embedded!ChoosePlatform, Embedded!OnlySharing
  <2>2. s \in SharingOf
    BY <1>3, <2>1 DEF SharingOf
  <2>3. s.busy = sharing.busy /\ s.making = sharing.making /\ s.files = sharing.files
    BY DEF SharingOf
  <2> HIDE DEF s
  <2>4. FitsOf(s)
    BY <1>4, <2>3 DEF FitsOf
  <2> QED BY <1>1, <2>1, <2>2, <2>4
<1>6. ASSUME NEW text \in CardField, Embedded!EditField(text) PROVE FitsOf(sharing')
  <2> DEFINE s == [sharing EXCEPT !.text = text, !.clicks = sharing.clicks + 1]
  <2>1. sharing' = Embedded!Rendered(s) /\ sharing.clicks < MaxClicks
    BY <1>6 DEF Embedded!EditField, Embedded!OnlySharing
  <2>2. s \in SharingOf
    BY <1>3, <2>1 DEF SharingOf
  <2>3. s.busy = sharing.busy /\ s.making = sharing.making /\ s.files = sharing.files
    BY DEF SharingOf
  <2> HIDE DEF s
  <2>4. FitsOf(s)
    BY <1>4, <2>3 DEF FitsOf
  <2> QED BY <1>1, <2>1, <2>2, <2>4
<1>7. CASE Embedded!DrawPreview
  <2> DEFINE c == Head(sharing.timers)
             rest == Tail(sharing.timers)
             s == [sharing EXCEPT !.canvas = c, !.timers = rest]
  <2>1. sharing' = s
    BY <1>7 DEF Embedded!DrawPreview, Embedded!OnlySharing
  <2> HIDE DEF c, rest
  <2>2. s.busy = sharing.busy /\ s.making = sharing.making /\ s.files = sharing.files
    BY DEF SharingOf
  <2> HIDE DEF s
  <2> QED BY <1>4, <2>1, <2>2 DEF FitsOf
<1>8. CASE Embedded!Download
  <2> DEFINE m == [name |-> sharing.platform, card |-> Embedded!Card(sharing.platform, sharing.text)]
             s == [sharing EXCEPT !.busy = TRUE, !.clicks = sharing.clicks + 1, !.making = m]
  <2>1. sharing' = Embedded!Rendered(s) /\ sharing.clicks < MaxClicks
    BY <1>8 DEF Embedded!Download, Embedded!OnlySharing
  <2>2. m \in [name : Platform, card : CardSet]
    BY <1>2, CardsAreCards
  <2>3. Fits(m) /\ m # None
    <3>1. m.card = Embedded!Card(sharing.platform, sharing.text) /\ m.name = sharing.platform
      OBVIOUS
    <3>2. Fits(m)
      BY <3>1 DEF Fits, Embedded!Card
    <3>3. m # None
      BY <2>2, NoneIsNotMade DEF NoneIsNotMade, CardSet
    <3> QED BY <3>2, <3>3
  <2> HIDE DEF m
  <2>4. s \in SharingOf
    BY <1>3, <2>1, <2>2 DEF SharingOf
  <2>5. s.busy /\ s.making = m /\ s.files = sharing.files
    BY DEF SharingOf
  <2> HIDE DEF s
  <2>6. FitsOf(s)
    BY <1>4, <2>3, <2>5 DEF FitsOf
  <2> QED BY <1>1, <2>1, <2>4, <2>6
<1>9. CASE Embedded!BlobReady
  <2> DEFINE more == Append(sharing.files, sharing.making)
             s == [sharing EXCEPT !.files = more, !.making = None, !.busy = FALSE]
  <2>1. sharing' = Embedded!Rendered(s) /\ sharing.making # None
    BY <1>9 DEF Embedded!BlobReady, Embedded!OnlySharing, Embedded!Making
  <2>2. more \in Seq({None} \cup [name : Platform, card : CardSet])
    BY <1>2
  <2>3. \A i \in DOMAIN more : Fits(more[i])
    <3> DEFINE fs == sharing.files
               m == sharing.making
    <3>1. fs \in Seq({None} \cup [name : Platform, card : CardSet]) /\ Fits(m)
          /\ m \in {None} \cup [name : Platform, card : CardSet]
          /\ \A i \in DOMAIN fs : Fits(fs[i])
      BY <1>2, <1>4, <2>1
    <3>2. more = Append(fs, m)
      OBVIOUS
    <3> HIDE DEF fs, m, more
    <3>3. DOMAIN more = 1..Len(fs) + 1 /\ more[Len(fs) + 1] = m /\ DOMAIN fs = 1..Len(fs)
          /\ \A i \in 1..Len(fs) : more[i] = fs[i]
      BY <3>1, <3>2
    <3>4. ASSUME NEW i \in 1..Len(fs) + 1 PROVE i \in 1..Len(fs) \/ i = Len(fs) + 1
      <4>1. Len(fs) \in Nat
        BY <3>1
      <4> QED BY <4>1
    <3> QED BY <3>1, <3>3, <3>4
  <2> HIDE DEF more
  <2>4. s \in SharingOf
    BY <2>2 DEF SharingOf
  <2>5. ~s.busy /\ s.making = None /\ s.files = more
    BY DEF SharingOf
  <2> HIDE DEF s
  <2>6. FitsOf(s)
    BY <2>3, <2>5 DEF FitsOf
  <2> QED BY <1>1, <2>1, <2>4, <2>6
<1>10. CASE Embedded!BlobFails
  <2> DEFINE s == [sharing EXCEPT !.making = None, !.busy = FALSE]
  <2>1. sharing' = Embedded!Rendered(s)
    BY <1>10 DEF Embedded!BlobFails, Embedded!OnlySharing
  <2>2. s \in SharingOf
    BY DEF SharingOf
  <2>3. ~s.busy /\ s.making = None /\ s.files = sharing.files
    BY DEF SharingOf
  <2> HIDE DEF s
  <2>4. FitsOf(s)
    BY <1>4, <2>3 DEF FitsOf
  <2> QED BY <1>1, <2>1, <2>2, <2>4
<1> QED BY <1>5, <1>6, <1>7, <1>8, <1>9, <1>10 DEF Embedded!SharingNext

\* No picture is made at first, and no other panel touches one.
LEMMA StepFits ==
  /\ Embedded!PanelsInit => FitInv
  /\ PanelsInv /\ FitInv /\ [PanelsNext]_(Embedded!panelVars) => FitInv'
<1>1. ASSUME Embedded!PanelsInit PROVE FitInv
  <2>1. PICK p \in Platform : sharing =
          [platform |-> p, text |-> Blank, busy |-> FALSE, making |-> None,
           timers |-> <<Embedded!Card(p, Blank)>>, canvas |-> None, files |-> << >>, clicks |-> 0]
    BY <1>1, Zenon DEF Embedded!PanelsInit, Blank
  <2> HIDE DEF Blank
  <2>2. ~sharing.busy /\ sharing.making = None /\ sharing.files = << >>
    BY <2>1
  <2> QED BY <2>2 DEF FitInv
<1>2. ASSUME PanelsInv, FitInv, [PanelsNext]_(Embedded!panelVars) PROVE FitInv'
  <2>1. sharing \in SharingOf /\ FitsOf(sharing)
    BY <1>2 DEF PanelsInv, FitInv, FitsOf
  <2>2. CASE Embedded!SharingNext
    <3>1. FitsOf(sharing')
      BY <2>1, <2>2, StepSharingFits
    <3> QED BY <3>1 DEF FitInv, FitsOf
  <2>3. CASE UNCHANGED sharing
    BY <1>2, <2>3 DEF FitInv, Fits
  <2>4. Embedded!SharingNext \/ UNCHANGED sharing
    BY <1>2, Zenon DEF PanelsNext, Embedded!panelVars, Embedded!ChatNext, Embedded!TypeMessage,
       Embedded!Send, Embedded!OnlyChat, Embedded!DrawerNext, Embedded!OpenDrawer,
       Embedded!CloseDrawer, Embedded!OnlyDrawer, Embedded!RankingNext, Embedded!ClickBar,
       Embedded!CloseDetail, Embedded!OnlyRanking
  <2> QED BY <2>2, <2>3, <2>4
<1> QED BY <1>1, <1>2

\* So a file has the size of the platform it is named after.
LEMMA FitsKeep == PanelsInv /\ FitInv => Embedded!FilesFitTheirNames
<1> SUFFICES ASSUME PanelsInv, FitInv PROVE Embedded!FilesFitTheirNames
  OBVIOUS
<1>1. sharing.busy \in BOOLEAN
  BY DEF PanelsInv, SharingOf
<1>2. sharing.busy = Embedded!Making
  BY <1>1, Zenon DEF FitInv, Embedded!Making
<1>3. \A i \in DOMAIN sharing.files : sharing.files[i].card.size = Height[sharing.files[i].name]
  BY DEF FitInv, Fits
<1> QED BY <1>2, <1>3 DEF Embedded!FilesFitTheirNames
-----------------------------------------------------------------------------
(* Counts: the composition *)

\* What the counts need beside the invariants of the proofs before.
MatchInv ==
  OnceInv /\ CountInv /\ DeliveredInv /\ RowsInv /\ NewestInv /\ WholeInv /\ FitInv

\* The browser opens on counts that match.
LEMMA InitMatch == Init => MatchInv
<1> SUFFICES ASSUME Init PROVE MatchInv
  OBVIOUS
<1>1. OnceInv /\ CountInv
  BY StepOnce, StepCount DEF Init
<1>2. DeliveredInv /\ RowsInv /\ NewestInv
  BY StepDelivered, StepRows, StepNewest DEF Init
<1>3. WholeInv /\ FitInv
  BY StepWhole, StepFits DEF Init
<1> QED BY <1>1, <1>2, <1>3 DEF MatchInv

\* Every step keeps them: of each part the step is one of its own, or none.
LEMMA StepMatch ==
  BrowserInv /\ KeptInv /\ CurrentInv /\ TypesInv /\ MatchInv /\ [Next]_browserVars => MatchInv'
<1> SUFFICES ASSUME BrowserInv, KeptInv, CurrentInv, TypesInv, MatchInv, [Next]_browserVars
             PROVE  MatchInv'
  OBVIOUS
<1>1. OnceInv' /\ CountInv'
  <2>1. [Import!ImportNext]_(Import!vars) /\ ImportInv
    BY PartsMove DEF TypesInv
  <2> QED BY <2>1, StepOnce, StepCount DEF MatchInv
<1>2. DeliveredInv'
  BY PartsMove, StepDelivered DEF BrowserInv, TypesInv, MatchInv
<1>3. RowsInv'
  BY PartsMove, StepRows DEF KeptInv, MatchInv
<1>4. NewestInv'
  BY PartsMove, StepNewest DEF BrowserInv, MatchInv
<1>5. WholeInv'
  <2>1. [Dash!ReportNext]_report
    BY PartsMove, DashParted
  <2> QED BY <2>1, StepWhole DEF CurrentInv, MatchInv
<1>6. FitInv'
  BY PartsMove, StepFits DEF CurrentInv, MatchInv
<1> QED BY <1>1, <1>2, <1>3, <1>4, <1>5, <1>6 DEF MatchInv

\* So every state of every behaviour satisfies them.
LEMMA BrowserKeepsMatch == Spec => []MatchInv
BY InitMatch, StepMatch, BrowserKeepsCurrent, BrowserKeepsTypes, PTL DEF Spec

\* Whatever was posted, exported, imported, crashed or chosen between, the pins told as
\* delivered are in the table, each file holds the rows and users its card counts, the
\* counter is that of its list, the pager lists its pages, a hundred percent is every
\* section, no source is made an issue twice and a run's counts add up to its range, a
\* card is fair to both variants, and a picture has the size its name says.
THEOREM CountsAgree == Spec => []CountsMatch
<1>1. BrowserInv /\ KeptInv /\ CurrentInv /\ TypesInv /\ MatchInv => CountsMatch
  <2> SUFFICES ASSUME BrowserInv, KeptInv, CurrentInv, TypesInv, MatchInv PROVE CountsMatch
    OBVIOUS
  <2>1. GistMap!DeliveredPinsAreStored
    BY DeliveredKeeps DEF BrowserInv, TypesInv, MatchInv
  <2>2. Segments!FilesHaveTheCountedUsers /\ Embedded!Page!FilesHaveTheCountedUsers
    <3>1. Segments!SegmentsTypeOK
      BY SegmentTypes DEF KeptInv, TypesInv
    <3>2. Embedded!Page!SegmentsTypeOK
      BY SegmentTypes DEF KeptInv, TypesInv, SegmenterInv
    <3> QED BY <3>1, <3>2, FilesAreCounted, InnerFilesAreCounted
  <2>3. Widgets!CounterShowsTheCount
    BY NewestKeeps DEF TypesInv, MatchInv
  <2>4. Files!FilesAreComplete
    BY RowsKeep DEF KeptInv, MatchInv
  <2>5. Components!PagesAreListed
    BY PagerLists DEF TypesInv, KitInv
  <2>6. Dash!ReportIsWhole
    BY DEF MatchInv, WholeInv
  <2>7. Import!IssuesAreMadeOnce /\ Import!CountsAddUp
    BY CountedKeeps DEF TypesInv, MatchInv
  <2>8. Tests!CardsAreFair
    BY CardsAreFairOf DEF KeptInv
  <2>9. Embedded!FilesFitTheirNames
    BY FitsKeep DEF CurrentInv, MatchInv
  <2> QED BY <2>1, <2>2, <2>3, <2>4, <2>5, <2>6, <2>7, <2>8, <2>9 DEF CountsMatch
<1> QED BY <1>1, BrowserKeepsInv, BrowserKeepsCurrent, BrowserKeepsTypes, BrowserKeepsMatch, PTL
=============================================================================

----------------------------- MODULE RegionMap -----------------------------
(***************************************************************************)
(* The geofence page: analytics/components/GeoFence.tsx, its requests      *)
(* (lib/geofencing.ts) and the handlers behind them (pages/api/regions).   *)
(* A request is sent, served by the database and answered in three steps,  *)
(* or lost in between; requests overtake each other.                       *)
(***************************************************************************)
EXTENDS Lists

CONSTANTS
  Name,       \* names a user types; "" is an empty field
  MaxRegions, \* bound on the regions ever made
  MaxPending, \* bound on the requests in flight
  MaxPoints,  \* bound on the points of the polygon being drawn, 3 at least
  NoRegion

VARIABLES
  stored,  \* the table: a sequence of [id, name]
  born,    \* regions ever made
  map,     \* [regions, points, drawing, selected, edit]: the component
  pending, \* requests in flight
  calm     \* no request overlapped another, and every one succeeded

regionVars == <<stored, born, map, pending, calm>>
Nameless == ""
RegionIds(list) == {list[i].id : i \in DOMAIN list}
NameOf(list, id) == (CHOOSE r \in Range(list) : r.id = id).name
Renamed(list, id, r) == [i \in DOMAIN list |-> IF list[i].id = id THEN r ELSE list[i]]
Dropped(list, id) == Kept(list, {r \in Range(list) : r.id # id})

\* The effect on the selection and the regions fills the rename field anew.
Refilled(m) == [m EXCEPT !.edit =
  IF m.selected \in RegionIds(m.regions) THEN NameOf(m.regions, m.selected) ELSE Nameless]

\* `n' tells requests apart that say the same.
Request(kind, id, name) ==
  [n |-> CHOOSE n \in 1..MaxPending : \A r \in pending : r.n # n, kind |-> kind,
   id |-> id, name |-> name, seen |-> map.selected, served |-> FALSE, ok |-> FALSE,
   answer |-> << >>]
FirstLoad == [n |-> 1, kind |-> "load", id |-> NoRegion, name |-> Nameless, seen |-> NoRegion,
              served |-> FALSE, ok |-> FALSE, answer |-> << >>]
Blank == [regions |-> << >>, points |-> 0, drawing |-> FALSE, selected |-> NoRegion, edit |-> Nameless]

\* The page is mounted: loadRegions is under way.
RegionInit ==
  /\ stored = << >> /\ born = 0 /\ map = Blank /\ calm = TRUE
  /\ pending = {FirstLoad}

Click(m) == map' = m /\ UNCHANGED <<stored, born, pending, calm>>
Send(r) ==
  /\ Cardinality(pending) < MaxPending /\ pending' = pending \cup {r}
  /\ calm' = (calm /\ pending = {})
  /\ UNCHANGED <<stored, born, map>>

(* The component *)
StartDrawing == ~map.drawing /\ Click([map EXCEPT !.drawing = TRUE, !.points = 0])
AddPoint == map.drawing /\ map.points < MaxPoints /\ Click([map EXCEPT !.points = @ + 1])
CancelDrawing == map.drawing /\ Click([map EXCEPT !.drawing = FALSE, !.points = 0])
ClosePolygon ==
  /\ map.drawing /\ map.points >= 3
  /\ \E name \in Name : Send(Request("create", NoRegion, name))
\* A click on a shape selects it; one on its entry in the list selects or unselects.
Select(id) == Click(IF id = map.selected THEN map ELSE Refilled([map EXCEPT !.selected = id]))
SelectShape == \E id \in RegionIds(map.regions) : Select(id)
ToggleEntry == \E id \in RegionIds(map.regions) :
  Select(IF id = map.selected THEN NoRegion ELSE id)
TypeName(name) ==
  map.selected \in RegionIds(map.regions) /\ Click([map EXCEPT !.edit = name])
DeleteRegion == \E id \in RegionIds(map.regions) : Send(Request("delete", id, Nameless))
UpdateRegion ==
  map.selected \in RegionIds(map.regions) /\ Send(Request("patch", map.selected, map.edit))
\* The user leaves the page and comes back; a visit that starts while requests
\* of an earlier one are in flight is left out.
Mount ==
  /\ pending = {} /\ map' = Blank /\ pending' = {FirstLoad}
  /\ UNCHANGED <<stored, born, calm>>

(* The handlers, one statement of SQL each *)
Settled(r, ok, answer) ==
  /\ pending' = (pending \ {r}) \cup {[r EXCEPT !.served = TRUE, !.ok = ok, !.answer = answer]}
  /\ calm' = (calm /\ ok)
  /\ UNCHANGED map
ServeLoad(r) == Settled(r, TRUE, stored) /\ UNCHANGED <<stored, born>>
ServeCreate(r) ==
  /\ born < MaxRegions /\ born' = born + 1
  /\ stored' = Append(stored, [id |-> born', name |-> r.name])
  /\ Settled(r, TRUE, <<[id |-> born', name |-> r.name]>>)
ServeDelete(r) ==
  /\ stored' = Dropped(stored, r.id) /\ UNCHANGED born
  /\ Settled(r, r.id \in RegionIds(stored), << >>)
\* An empty name is "nothing to update" (400), an unknown region is a 404.
ServePatch(r) ==
  LET new == [id |-> r.id, name |-> r.name]
      ok == r.name # Nameless /\ r.id \in RegionIds(stored)
  IN /\ stored' = (IF ok THEN Renamed(stored, r.id, new) ELSE stored) /\ UNCHANGED born
     /\ Settled(r, ok, <<new>>)
Serve == \E r \in pending :
  /\ ~r.served
  /\ CASE r.kind = "load" -> ServeLoad(r)
       [] r.kind = "create" -> ServeCreate(r)
       [] r.kind = "delete" -> ServeDelete(r)
       [] r.kind = "patch" -> ServePatch(r)

\* The request or its answer is lost, or the handler answers 500: the component
\* logs it and changes nothing; a load then shows no regions.
Lose == \E r \in pending :
  /\ pending' = pending \ {r} /\ calm' = FALSE
  /\ map' = IF r.kind = "load" THEN Refilled([map EXCEPT !.regions = << >>]) ELSE map
  /\ UNCHANGED <<stored, born>>

\* What a successful answer makes of the component.
Shown(r) ==
  CASE r.kind = "load" -> [map EXCEPT !.regions = r.answer]
    [] r.kind = "create" ->
         [map EXCEPT !.regions = @ \o r.answer, !.points = 0, !.drawing = FALSE,
                     !.selected = r.answer[1].id]
    [] r.kind = "delete" ->
         [map EXCEPT !.regions = Dropped(@, r.id),
                     !.selected = IF r.seen = r.id THEN NoRegion ELSE @]
    [] r.kind = "patch" -> [map EXCEPT !.regions = Renamed(@, r.id, r.answer[1])]
Answer == \E r \in pending :
  /\ r.served /\ pending' = pending \ {r}
  /\ map' = IF r.ok THEN Refilled(Shown(r)) ELSE map
  /\ UNCHANGED <<stored, born, calm>>

RegionNext ==
  \/ StartDrawing \/ AddPoint \/ CancelDrawing \/ ClosePolygon
  \/ SelectShape \/ ToggleEntry \/ DeleteRegion \/ UpdateRegion \/ Mount
  \/ Serve \/ Lose \/ Answer
  \/ \E name \in Name \cup {Nameless} : TypeName(name)
-----------------------------------------------------------------------------
RegionsTypeOK ==
  /\ RegionIds(stored) \subseteq 1..born /\ born <= MaxRegions
  /\ map.drawing \in BOOLEAN /\ map.points \in 0..MaxPoints
  /\ map.selected \in 1..born \cup {NoRegion} /\ calm \in BOOLEAN

\* As long as requests do not overlap and succeed, the page shows the table as
\* it is whenever it waits for nothing.
CalmMapIsTheTable == calm /\ pending = {} => map.regions = stored

\* The panel of a selected region is for one that is shown, or there is no panel:
\* while requests do not overlap, only a region deleted between the click and the
\* answer can leave a selection behind.
RenameFieldHasARegion == map.edit # Nameless => map.selected \in RegionIds(map.regions)

\* A region that is shown goes from the map only when the table has lost it,
\* or when the map is loaded anew.
NoRegionIsHidden ==
  [][\A id \in RegionIds(map.regions) \ RegionIds(map'.regions) :
       \/ \E r \in pending : r.kind = "delete" /\ r.id = id /\ r.ok
       \/ \E r \in pending \ pending' : r.kind = "load"
       \/ map' = Blank]_regionVars
=============================================================================

---------------------------- MODULE NearbyPaging ----------------------------
(***************************************************************************)
(* GET /gists page by page (Backend/src): GistsService.findNearby with its *)
(* cached first page, GistRepository.findNearby and PaginationHelper.  One *)
(* client walks the pages while gists of the same place are inserted.      *)
(*                                                                         *)
(* Time is counted in ticks of the database, TicksPerMs to a millisecond:  *)
(* created_at has microseconds, a cursor is a Date of JavaScript.          *)
(***************************************************************************)
EXTENDS Integers, FiniteSets, Sequences

CONSTANTS
  Row,        \* gists within the radius
  Limit,      \* limit of the query
  TicksPerMs, \* resolution of the database over that of the cursor
  MaxTime,    \* the run ends here
  None

VARIABLES
  created, \* table gists: created_at of the rows there are
  now,     \* the clock of the database
  cached,  \* the cached first page, or None
  walk     \* the client

pagingVars == <<created, now, cached, walk>>

Rows == DOMAIN created
NoWalk == [pc |-> "idle", cursor |-> None, pages |-> <<>>, began |-> {}]

PagingInit ==
  /\ created = [r \in {} |-> 0]
  /\ now = 0
  /\ cached = None
  /\ walk = NoWalk
-----------------------------------------------------------------------------
Tick == now < MaxTime /\ now' = now + 1 /\ UNCHANGED <<created, cached, walk>>

\* DEFAULT NOW() is the start of the transaction, which is visible only later.
InsertRow(r, at) ==
  /\ r \notin Rows /\ at \in {now, now - 1} \cap Nat
  /\ created' = [x \in Rows \cup {r} |-> IF x = r THEN at ELSE created[x]]
  /\ UNCHANGED <<now, cached, walk>>

\* A Date keeps milliseconds; toISOString and base64 lose nothing more.
EncodeCursor(at) == (at \div TicksPerMs) * TicksPerMs

\* cursorClause
FaultyBefore(r, cursor) == cursor = None \/ created[r] <= cursor
Before(r, cursor) == cursor = None \/ created[r] < cursor

\* ORDER BY created_at DESC LIMIT: which of the rows that tie come first, or
\* get in at all, is up to the database.
IsPage(page, cursor) ==
  LET eligible == {r \in Rows : Before(r, cursor)} IN
  /\ page \subseteq eligible
  /\ Cardinality(page) = IF Cardinality(eligible) < Limit
                         THEN Cardinality(eligible) ELSE Limit
  /\ \A r \in page, s \in eligible \ page : created[s] <= created[r]

Oldest(page) == CHOOSE at \in {created[r] : r \in page} :
                  \A r \in page : at <= created[r]

\* buildResponse
HasMore(page) == Cardinality(page) = Limit
Response(page) ==
  [rows |-> page,
   cursor |-> IF HasMore(page) THEN EncodeCursor(Oldest(page)) ELSE None,
   snapshot |-> Rows]

\* The client keeps the answer; it began with what the table held then.
Shown(q, answer) ==
  [q EXCEPT !.pages = Append(@, answer),
            !.cursor = answer.cursor,
            !.began = IF q.pc = "idle" THEN answer.snapshot ELSE @,
            !.pc = IF answer.cursor = None THEN "done" ELSE "walking"]

\* Without a cursor the cache is asked first, and filled.
FirstPage ==
  /\ walk.pc = "idle"
  /\ \/ /\ cached # None
        /\ walk' = Shown(walk, cached)
        /\ UNCHANGED cached
     \/ /\ cached = None
        /\ \E page \in SUBSET Rows :
             /\ IsPage(page, None)
             /\ cached' = Response(page)
             /\ walk' = Shown(walk, Response(page))
  /\ UNCHANGED <<created, now>>

\* A query with a cursor goes to the table.
NextPage ==
  /\ walk.pc = "walking"
  /\ \E page \in SUBSET Rows :
       IsPage(page, walk.cursor) /\ walk' = Shown(walk, Response(page))
  /\ UNCHANGED <<created, now, cached>>

\* The 60 seconds are over, or a post invalidated the key.
ForgetPage == cached # None /\ cached' = None /\ UNCHANGED <<created, now, walk>>

\* Another client comes, and may find the page the first one left cached.
Leave == walk.pc = "done" /\ walk' = NoWalk /\ UNCHANGED <<created, now, cached>>

PagingNext ==
  \/ Tick \/ FirstPage \/ NextPage \/ ForgetPage \/ Leave
  \/ \E r \in Row, at \in 0..MaxTime : InsertRow(r, at)
-----------------------------------------------------------------------------
PagingTypeOK ==
  /\ Rows \subseteq Row /\ \A r \in Rows : created[r] \in 0..now
  /\ cached # None => cached.rows \subseteq cached.snapshot /\ cached.snapshot \subseteq Rows
  /\ walk.pc \in {"idle", "walking", "done"}
  /\ \A i \in DOMAIN walk.pages : walk.pages[i].rows \subseteq Rows

\* A later page holds only gists older than every gist of an earlier one, so
\* nothing is shown twice, whatever was posted in between and however stale
\* the cached first page was.
PagesNeverOverlap ==
  \A i, j \in DOMAIN walk.pages : i < j =>
    \A r \in walk.pages[i].rows, s \in walk.pages[j].rows : created[s] < created[r]

\* A client that has reached the last page has seen every gist there was when
\* its first page was read, except those that share a millisecond with the
\* last gist of a page: the cursor cannot tell them apart.
OnlyTiesAreSkipped ==
  walk.pc = "done" => \A r \in walk.began :
    \E i \in DOMAIN walk.pages : LET page == walk.pages[i] IN
      \/ r \in page.rows
      \/ page.cursor # None /\ EncodeCursor(created[r]) = page.cursor
=============================================================================

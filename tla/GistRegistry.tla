---------------------------- MODULE GistRegistry ----------------------------
(***************************************************************************)
(* The on-chain gist registry, contracts/gist-registry/src/lib.rs, with    *)
(* clients that page through a cell with list_gists_by_cell while gists    *)
(* are still being posted.                                                 *)
(***************************************************************************)
EXTENDS Integers, Sequences, FiniteSets

CONSTANTS
  Cell,     \* location cells
  Hash,     \* content hashes
  Client,   \* clients that list gists
  Limit,    \* page sizes the clients ask for
  MaxGists  \* bound on the gists an instance posts

GistRegistryConstants ==
  /\ Limit \subseteq Nat \ {0}
  /\ MaxGists \in Nat

VARIABLES
  gist,   \* gist[id]: cell and content hash of gist id; ids are 1..GCOUNT
  reader  \* reader[c]: the cell c pages through, its page size, the cursor of
          \* its next call, what it got so far, whether it saw the last page

vars == <<gist, reader>>

Gist == [cell: Cell, hash: Hash]
GCount == Len(gist)

Init ==
  /\ gist = << >>
  /\ reader \in [Client -> [cell: Cell, limit: Limit, cursor: {0},
                            got: {<< >>}, done: {FALSE}]]

\* post_gist: the id is the count plus one.
PostGist(cell, hash) ==
  /\ GCount < MaxGists
  /\ gist' = Append(gist, [cell |-> cell, hash |-> hash])
  /\ UNCHANGED reader

\* Where a scan starts: at the cursor itself, 0 standing for the first id.
FaultyStart(cursor) == cursor + 1
Start(cursor) == IF cursor = 0 THEN 1 ELSE cursor

\* The scan of list_gists_by_cell: ids in ascending order, stopping once
\* limit gists of the cell were collected.
ListGistsByCell(cell, cursor, limit) ==
  LET scanned[id \in 0..GCount] ==
        IF id < Start(cursor) THEN << >>
        ELSE IF Len(scanned[id - 1]) < limit /\ gist[id].cell = cell
             THEN Append(scanned[id - 1], id)
             ELSE scanned[id - 1]
  IN scanned[GCount]

\* What follows from the cursor being inclusive: the next page starts after
\* the last gist of this one.
FaultyNextCursor(cursor, page) == IF page = << >> THEN cursor ELSE page[Len(page)]
NextCursor(cursor, page) == IF page = << >> THEN cursor ELSE page[Len(page)] + 1

\* One call by client c; a page that is not full is the last.
ReadPage(c) ==
  LET r == reader[c]
      page == ListGistsByCell(r.cell, r.cursor, r.limit)
  IN /\ ~r.done
     /\ reader' = [reader EXCEPT ![c].got = @ \o page,
                                 ![c].cursor = NextCursor(@, page),
                                 ![c].done = Len(page) < r.limit]
     /\ UNCHANGED gist

Next ==
  \/ \E cell \in Cell, hash \in Hash : PostGist(cell, hash)
  \/ \E c \in Client : ReadPage(c)

Spec == Init /\ [][Next]_vars
-----------------------------------------------------------------------------
\* The registry and the readers have their types.
TypeOK ==
  /\ gist \in Seq(Gist) /\ GCount <= MaxGists
  /\ \A c \in Client :
       /\ reader[c].cursor \in 0..(MaxGists + 1)
       /\ reader[c].got \in Seq(1..MaxGists)
       /\ Len(reader[c].got) <= MaxGists

InCell(cell) == {id \in 1..GCount : gist[id].cell = cell}

\* A page is the first limit gists of the cell at or after the cursor, in
\* order: the reference the scan is compared with, for every cursor and limit.
PageIsFirstMatches ==
  \A cell \in Cell, cursor \in 0..(GCount + 1), limit \in Limit :
    LET page == ListGistsByCell(cell, cursor, limit)
        ids == {page[i] : i \in DOMAIN page}
        due == {id \in InCell(cell) : id >= cursor}
    IN /\ ids \subseteq due
       /\ \A i, j \in DOMAIN page : i < j => page[i] < page[j]
       /\ \A id \in due \ ids : Len(page) = limit /\ \A x \in ids : x < id

\* Paging misses nothing and repeats nothing, although gists keep arriving: a
\* reader holds exactly the gists of its cell below its cursor, once each.
PagingIsExact ==
  \A c \in Client :
    LET r == reader[c] IN
    /\ {r.got[i] : i \in DOMAIN r.got} = {id \in InCell(r.cell) : id < r.cursor}
    /\ \A i, j \in DOMAIN r.got : i < j => r.got[i] < r.got[j]

\* A reader is told it is done only when it holds every gist of the cell that
\* existed at that call.
DoneMeansAll ==
  [][\A c \in Client : reader'[c].done /\ ~reader[c].done =>
       {reader'[c].got[i] : i \in DOMAIN reader'[c].got} = InCell(reader[c].cell)]_vars
=============================================================================

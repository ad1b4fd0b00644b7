------------------------------ MODULE GistEdit ------------------------------
(***************************************************************************)
(* PATCH /gists/:id, GistsService.update of                                *)
(* Backend/src/gists/gists.service.ts, served concurrently.                *)
(*                                                                         *)
(* A request runs from one await to the next without interruption.  Between*)
(* two awaits other requests run and the clock moves: the row a request    *)
(* read, and the window it checked, may be out of date when it writes.     *)
(* The cache is off, as it is while REDIS_URL is not set.                  *)
(***************************************************************************)
EXTENDS Integers

CONSTANTS
  Gist,        \* the rows of table gists
  UnknownGist, \* an id that is no row's
  Author,      \* values of the author field
  NoAuthor,    \* author of an anonymous gist: NULL, or the empty string
  Content,     \* contents after stripHtml
  NoContent,   \* stands for the content a gist was posted with
  NoCid,       \* previous_cid of a gist never edited: NULL
  Request,     \* PATCH requests
  EditWindow,  \* EDIT_WINDOW_MS
  MaxAttempts, \* IPFS_RETRY_ATTEMPTS
  MaxTime      \* bound on the clock

GistEditConstants ==
  /\ UnknownGist \notin Gist
  /\ NoAuthor \notin Author
  /\ NoContent \notin Content
  /\ EditWindow \in Nat
  /\ MaxAttempts \in Nat \ {0}
  /\ MaxTime \in Nat

VARIABLES
  now,    \* Date.now()
  row,    \* table gists
  req,    \* the requests
  pinned, \* what IPFS holds
  held    \* history: the content_hash values each row has had

vars == <<now, row, req, pinned, held>>

Time == 0..MaxTime

\* A CID names the payload it was computed from: the gist's place, the content
\* and the created_at stamp.
Cid == [gist: Gist, content: Content \cup {NoContent}, stamp: Time]
Posted(g) == [gist |-> g, content |-> NoContent, stamp |-> 0]

Row == [author: Author \cup {NoAuthor}, content_hash: Cid,
        previous_cid: Cid \cup {NoCid}, created_at: Time]

Waiting == {"idle", "select", "check", "pin", "store"}
Answer == {"200", "403", "404", "410", "500"}
Refusal == {"403", "404", "410"}
-----------------------------------------------------------------------------
\* Gists posted at time 0, by someone or by nobody.
Init ==
  /\ now = 0
  /\ row \in {[g \in Gist |-> [author |-> by[g], content_hash |-> Posted(g),
                               previous_cid |-> NoCid, created_at |-> 0]] :
              by \in [Gist -> Author \cup {NoAuthor}]}
  /\ req = [r \in Request |-> [pc |-> "idle"]]
  /\ pinned = {Posted(g) : g \in Gist}
  /\ held = [g \in Gist |-> {Posted(g)}]

Goto(r, pc) == req' = [req EXCEPT ![r].pc = pc]

Receive(r, g, a, c) ==
  /\ req[r].pc = "idle"
  /\ req' = [req EXCEPT ![r] =
               [pc |-> "select", gist |-> g, author |-> a, content |-> c]]
  /\ UNCHANGED <<now, row, pinned, held>>

\* The SELECT of findByGistId; the handler resumes later with the row it saw.
Select(r) ==
  /\ req[r].pc = "select"
  /\ IF req[r].gist \in Gist
     THEN req' = [req EXCEPT ![r] =
                    [pc |-> "check", gist |-> @.gist, author |-> @.author,
                     content |-> @.content, seen |-> row[@.gist]]]
     ELSE Goto(r, "404")
  /\ UNCHANGED <<now, row, pinned, held>>

WindowOpen(seen) == now - seen.created_at <= EditWindow

\* !gist.author || gist.author !== dto.author
FaultyIsAuthor(seen, author) == seen.author = author \/ seen.author = NoAuthor
IsAuthor(seen, author) == seen.author # NoAuthor /\ seen.author = author

\* The checks, in the code's order, and the payload with its stamp.
Check(r) ==
  LET q == req[r] IN
  /\ q.pc = "check"
  /\ \/ ~WindowOpen(q.seen) /\ Goto(r, "410")
     \/ WindowOpen(q.seen) /\ ~IsAuthor(q.seen, q.author) /\ Goto(r, "403")
     \/ /\ WindowOpen(q.seen) /\ IsAuthor(q.seen, q.author)
        /\ req' = [req EXCEPT ![r] =
             [pc |-> "pin", gist |-> q.gist, seen |-> q.seen, tries |-> 0,
              cid |-> [gist |-> q.gist, content |-> q.content, stamp |-> now]]]
  /\ UNCHANGED <<now, row, pinned, held>>

\* withRetry: the attempts made, and what becomes of a request whose attempt
\* number n failed.
FaultyTried(n) == (n + 1) % MaxAttempts
Tried(n) == n + 1
FaultyAfterFailure(n) == IF n <= MaxAttempts THEN "pin" ELSE "500"
SwallowedFailure(n) == IF n < MaxAttempts THEN "pin" ELSE "store"
AfterFailure(n) == IF n < MaxAttempts THEN "pin" ELSE "500"

\* One attempt of pinJson.  An attempt that fails may have reached Pinata.
Pin(r) ==
  LET q == req[r] IN
  /\ q.pc = "pin"
  /\ \/ /\ pinned' = pinned \cup {q.cid}
        /\ Goto(r, "store")
     \/ /\ pinned' \in {pinned, pinned \cup {q.cid}}
        /\ req' = [req EXCEPT ![r].tries = Tried(@),
                              ![r].pc = AfterFailure(Tried(q.tries))]
  /\ UNCHANGED <<now, row, held>>

\* UPDATE gists SET ... WHERE id: no condition on what the row holds by now.
FaultyStored(old, seen, cid) ==
  [old EXCEPT !.content_hash = cid, !.previous_cid = cid]
Stored(old, seen, cid) ==
  [old EXCEPT !.content_hash = cid, !.previous_cid = seen.content_hash]

\* The UPDATE may fail, or its answer may be lost after it took effect.
Store(r) ==
  LET q == req[r] IN
  /\ q.pc = "store"
  /\ \/ /\ row' = [row EXCEPT ![q.gist] = Stored(@, q.seen, q.cid)]
        /\ held' = [held EXCEPT ![q.gist] = @ \cup {q.cid}]
        /\ \E answer \in {"200", "500"} : Goto(r, answer)
     \/ Goto(r, "500") /\ UNCHANGED <<row, held>>
  /\ UNCHANGED <<now, pinned>>

Tick ==
  /\ now < MaxTime
  /\ now' = now + 1
  /\ UNCHANGED <<row, req, pinned, held>>

Serve(r) == Select(r) \/ Check(r) \/ Pin(r) \/ Store(r)

Next ==
  \/ Tick
  \/ \E r \in Request :
       \/ \E g \in Gist \cup {UnknownGist}, a \in Author, c \in Content :
            Receive(r, g, a, c)
       \/ Serve(r)

\* The event loop runs what is ready, and every query and network call it
\* waits for settles, one way or the other.
Spec == Init /\ [][Next]_vars /\ \A r \in Request : WF_vars(Serve(r))
-----------------------------------------------------------------------------
TypeOK ==
  /\ now \in Time
  /\ row \in [Gist -> Row]
  /\ \A r \in Request :
       /\ req[r].pc \in Waiting \cup Answer
       /\ req[r].pc = "pin" => req[r].tries \in 0..MaxAttempts - 1
  /\ pinned \subseteq Cid
  /\ held \in [Gist -> SUBSET Cid]

\* Whatever fails, and however often, a row never names content that IPFS does
\* not hold, neither its current one nor the one it replaced.
RowsArePinned ==
  \A g \in Gist : {row[g].content_hash, row[g].previous_cid} \ {NoCid} \subseteq pinned

\* previous_cid is always a content this gist showed before, even when edits of
\* one gist race: never the new content, nor another gist's.
PreviousWasShown ==
  [][\A g \in Gist : row'[g].content_hash # row[g].content_hash
       => row'[g].previous_cid \in held[g]]_vars

\* An anonymous gist never changes, and a request refused with 403, 404 or 410
\* has left no content anywhere, neither in the row nor on IPFS.
Owned(g, cid) ==
  \/ cid = Posted(g)
  \/ \E r \in Request : req[r].pc \notin Refusal \cup {"idle"} /\ req[r].gist = g
                        /\ "cid" \in DOMAIN req[r] /\ req[r].cid = cid
RefusedLeavesNothing ==
  /\ \A g \in Gist : row[g].author = NoAuthor => held[g] = {Posted(g)}
  /\ \A cid \in pinned : Owned(cid.gist, cid)

\* Every request is answered: the retries end.
EveryRequestAnswered ==
  \A r \in Request : req[r].pc # "idle" ~> req[r].pc \in Answer

\* Backend/README.md:197: "The prior IPFS CID is kept in `previous_cid`", "the
\* edit is an append, not an overwrite of history".
LineageIsKept ==
  [][\A g \in Gist : row'[g].content_hash # row[g].content_hash
       => row'[g].previous_cid = row[g].content_hash]_vars

\* Backend/README.md:195: once the edit window has elapsed "the content is
\* permanent"; the row is the content, whenever its edit was decided.
ClosedIsPermanent ==
  [][\A g \in Gist : now - row[g].created_at > EditWindow
       => row'[g].content_hash = row[g].content_hash]_vars
=============================================================================

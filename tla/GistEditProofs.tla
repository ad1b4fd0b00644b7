--------------------------- MODULE GistEditProofs ---------------------------
(***************************************************************************)
(* Proofs about GistEdit, for any number of concurrent requests, gists,    *)
(* authors and attempts, and any window.                                   *)
(***************************************************************************)
EXTENDS GistEdit, TLAPS

\* What a request holds between two awaits.
Fresh == [pc: {"idle"}]
Asking == [pc: {"select", "404"}, gist: Gist \cup {UnknownGist}, author: Author,
           content: Content]
Judged == [pc: {"check", "403", "410"}, gist: Gist, author: Author, content: Content,
           seen: Row]
Writing == [pc: {"pin", "store", "200", "500"}, gist: Gist, seen: Row,
            tries: 0..MaxAttempts, cid: Cid]
Requests == Fresh \cup Asking \cup Judged \cup Writing

IsJudged(r) == req[r].pc \in {"check", "403", "410"}
IsWriting(r) == req[r].pc \in {"pin", "store", "200", "500"}

TypeInv ==
  /\ GistEditConstants
  /\ now \in Time
  /\ row \in [Gist -> Row]
  /\ req \in [Request -> Requests]
  /\ \A r \in Request : req[r].pc = "pin" => req[r].tries \in 0..MaxAttempts - 1
  /\ pinned \subseteq Cid
  /\ held \in [Gist -> SUBSET Cid]
-----------------------------------------------------------------------------
\* The shape of a request is known from where it waits.
LEMMA RequestShapes ==
  ASSUME TypeInv, NEW r \in Request
  PROVE  /\ req[r].pc \in Waiting \cup Answer
         /\ req[r].pc = "select" => req[r] \in Asking
         /\ IsJudged(r) => req[r] \in Judged
         /\ IsWriting(r) => req[r] \in Writing
<1>1. req[r] \in Fresh \cup Asking \cup Judged \cup Writing
  BY DEF TypeInv, Requests
<1>2. CASE req[r] \in Fresh
  BY <1>2 DEF Fresh, Waiting, IsJudged, IsWriting
<1>3. CASE req[r] \in Asking
  BY <1>3 DEF Asking, Waiting, Answer, IsJudged, IsWriting
<1>4. CASE req[r] \in Judged
  BY <1>4 DEF Judged, Waiting, Answer, IsJudged, IsWriting
<1>5. CASE req[r] \in Writing
  BY <1>5 DEF Writing, Waiting, Answer, IsJudged, IsWriting
<1> QED BY <1>1, <1>2, <1>3, <1>4, <1>5

LEMMA PostedIsCid == ASSUME GistEditConstants, NEW g \in Gist PROVE Posted(g) \in Cid
<1>1. 0 \in Time
  BY DEF Time, GistEditConstants
<1> QED BY <1>1 DEF Posted, Cid

LEMMA InitTypeInv == GistEditConstants /\ Init => TypeInv
<1> SUFFICES ASSUME GistEditConstants, Init PROVE TypeInv
  OBVIOUS
<1>1. 0 \in Time
  BY DEF Time, GistEditConstants
<1>2. PICK by \in [Gist -> Author \cup {NoAuthor}] :
        row = [g \in Gist |-> [author |-> by[g], content_hash |-> Posted(g),
                               previous_cid |-> NoCid, created_at |-> 0]]
  BY DEF Init
<1>3. row \in [Gist -> Row]
  BY <1>1, <1>2, PostedIsCid DEF Row
<1>4. req \in [Request -> Requests]
  BY DEF Init, Requests, Fresh
<1>5. \A r \in Request : req[r].pc # "pin"
  BY DEF Init
<1>6. pinned \subseteq Cid /\ held \in [Gist -> SUBSET Cid]
  BY PostedIsCid DEF Init
<1> QED BY <1>1, <1>3, <1>4, <1>5, <1>6 DEF Init, TypeInv

\* A step of one request leaves the others where they are.
LEMMA StepTypeInv == TypeInv /\ [Next]_vars => TypeInv'
<1> SUFFICES ASSUME TypeInv, [Next]_vars PROVE TypeInv'
  OBVIOUS
<1>const. /\ GistEditConstants /\ GistEditConstants'
          /\ MaxAttempts \in Nat \ {0} /\ MaxTime \in Nat
  BY DEF TypeInv, GistEditConstants
\* It is enough to give the request that moves a shape.
<1>req. ASSUME NEW r \in Request, NEW q \in Requests, req' = [req EXCEPT ![r] = q],
               q.pc = "pin" => q.tries \in 0..MaxAttempts - 1
        PROVE  /\ req' \in [Request -> Requests]
               /\ \A x \in Request : req'[x].pc = "pin" => req'[x].tries \in 0..MaxAttempts - 1
  BY <1>req DEF TypeInv
<1>1. CASE Tick
  <2>1. now' \in Time
    BY <1>1, <1>const DEF Tick, Time, TypeInv
  <2> QED BY <1>1, <1>const, <2>1 DEF Tick, TypeInv
<1>2. ASSUME NEW r \in Request, NEW g \in Gist \cup {UnknownGist}, NEW a \in Author,
             NEW c \in Content, Receive(r, g, a, c)
      PROVE  TypeInv'
  <2> DEFINE q == [pc |-> "select", gist |-> g, author |-> a, content |-> c]
  <2>1. q \in Requests /\ q.pc # "pin" /\ req' = [req EXCEPT ![r] = q]
    BY <1>2 DEF Receive, Requests, Asking
  <2> HIDE DEF q
  <2> QED BY <1>2, <1>const, <1>req, <2>1 DEF Receive, TypeInv
<1>3. ASSUME NEW r \in Request, Select(r) PROVE TypeInv'
  <2>1. req[r] \in Asking /\ UNCHANGED <<now, row, pinned, held>>
    BY <1>3, RequestShapes DEF Select
  <2>2. CASE req[r].gist \in Gist
    <3> DEFINE q == [pc |-> "check", gist |-> req[r].gist, author |-> req[r].author,
                     content |-> req[r].content, seen |-> row[req[r].gist]]
    <3>1. q \in Requests /\ q.pc # "pin"
      BY <2>1, <2>2 DEF Requests, Asking, Judged, TypeInv
    <3>2. req' = [req EXCEPT ![r] = q]
      BY <1>3, <2>2 DEF Select, TypeInv
    <3> HIDE DEF q
    <3> QED BY <1>const, <1>req, <2>1, <3>1, <3>2 DEF TypeInv
  <2>3. CASE req[r].gist \notin Gist
    <3> DEFINE q == [req[r] EXCEPT !.pc = "404"]
    <3>1. q \in Requests /\ q.pc # "pin"
      BY <2>1 DEF Requests, Asking
    <3>2. req' = [req EXCEPT ![r] = q]
      BY <1>3, <2>3 DEF Select, Goto, TypeInv
    <3> HIDE DEF q
    <3> QED BY <1>const, <1>req, <2>1, <3>1, <3>2 DEF TypeInv
  <2> QED BY <2>2, <2>3
<1>4. ASSUME NEW r \in Request, Check(r) PROVE TypeInv'
  <2>1. /\ req[r] \in Judged /\ UNCHANGED <<now, row, pinned, held>>
    BY <1>4, RequestShapes DEF Check, IsJudged
  <2>2. ASSUME NEW code \in {"403", "410"}, Goto(r, code) PROVE TypeInv'
    <3> DEFINE q == [req[r] EXCEPT !.pc = code]
    <3>1. q \in Requests /\ q.pc # "pin"
      BY <2>1 DEF Requests, Judged
    <3>2. req' = [req EXCEPT ![r] = q]
      BY <2>2 DEF Goto, TypeInv
    <3> HIDE DEF q
    <3> QED BY <1>const, <1>req, <2>1, <3>1, <3>2 DEF TypeInv
  <2>3. ASSUME req' = [req EXCEPT ![r] =
                 [pc |-> "pin", gist |-> req[r].gist, seen |-> req[r].seen, tries |-> 0,
                  cid |-> [gist |-> req[r].gist, content |-> req[r].content, stamp |-> now]]]
        PROVE  TypeInv'
    <3> DEFINE c == [gist |-> req[r].gist, content |-> req[r].content, stamp |-> now]
               q == [pc |-> "pin", gist |-> req[r].gist, seen |-> req[r].seen, tries |-> 0,
                     cid |-> c]
    <3>1. c \in Cid
      BY <2>1 DEF Judged, Cid, TypeInv
    <3>2. q \in Requests /\ q.tries \in 0..MaxAttempts - 1
      <4> HIDE DEF c
      <4> QED BY <1>const, <2>1, <3>1 DEF Requests, Judged, Writing
    <3> HIDE DEF q
    <3>3. req' = [req EXCEPT ![r] = q]
      BY <2>3 DEF q
    <3> QED BY <1>const, <1>req, <2>1, <3>2, <3>3 DEF TypeInv
  <2> QED BY <1>4, <2>2, <2>3 DEF Check
<1>5. ASSUME NEW r \in Request, Pin(r) PROVE TypeInv'
  <2>1. /\ req[r] \in Writing /\ req[r].tries \in 0..MaxAttempts - 1
        /\ UNCHANGED <<now, row, held>>
    BY <1>5, RequestShapes DEF Pin, IsWriting, TypeInv
  <2>2. req[r].cid \in Cid /\ pinned' \subseteq Cid
    BY <1>5, <2>1 DEF Pin, Writing, TypeInv
  <2>3. CASE Goto(r, "store")
    <3> DEFINE q == [req[r] EXCEPT !.pc = "store"]
    <3>1. q \in Requests /\ q.pc # "pin"
      BY <2>1 DEF Requests, Writing
    <3>2. req' = [req EXCEPT ![r] = q]
      BY <2>3 DEF Goto, TypeInv
    <3> HIDE DEF q
    <3> QED BY <1>const, <1>req, <2>1, <2>2, <3>1, <3>2 DEF TypeInv
  <2>4. CASE req' = [req EXCEPT ![r].tries = Tried(@),
                                ![r].pc = AfterFailure(Tried(req[r].tries))]
    <3> DEFINE n == req[r].tries + 1
               q == [req[r] EXCEPT !.tries = n, !.pc = AfterFailure(n)]
    <3>1. n \in 0..MaxAttempts /\ AfterFailure(n) \in {"pin", "500"}
          /\ (AfterFailure(n) = "pin" => n \in 0..MaxAttempts - 1)
      BY <1>const, <2>1 DEF AfterFailure
    <3>2. req' = [req EXCEPT ![r] = q]
      BY <2>4 DEF Tried, TypeInv
    <3>3. q \in Requests /\ (q.pc = "pin" => q.tries \in 0..MaxAttempts - 1)
      <4> HIDE DEF n
      <4> QED BY <2>1, <3>1 DEF Requests, Writing
    <3> HIDE DEF q
    <3> QED BY <1>const, <1>req, <2>1, <2>2, <3>2, <3>3 DEF TypeInv
  <2> QED BY <1>5, <2>3, <2>4 DEF Pin
<1>6. ASSUME NEW r \in Request, Store(r) PROVE TypeInv'
  <2>1. req[r] \in Writing /\ UNCHANGED <<now, pinned>>
    BY <1>6, RequestShapes DEF Store, IsWriting
  <2>2. PICK code \in {"200", "500"} : Goto(r, code)
    BY <1>6 DEF Store
  <2> DEFINE q == [req[r] EXCEPT !.pc = code]
  <2>3. q \in Requests /\ q.pc # "pin"
    BY <2>1 DEF Requests, Writing
  <2>4. req' = [req EXCEPT ![r] = q]
    BY <2>2 DEF Goto, TypeInv
  <2>5. row' \in [Gist -> Row] /\ held' \in [Gist -> SUBSET Cid]
    <3>1. /\ req[r].gist \in Gist /\ req[r].cid \in Cid /\ req[r].seen \in Row
      BY <2>1 DEF Writing
    <3>2. Stored(row[req[r].gist], req[r].seen, req[r].cid) \in Row
      BY <3>1 DEF Stored, Row, TypeInv
    <3> QED BY <1>6, <3>1, <3>2 DEF Store, TypeInv
  <2> HIDE DEF q
  <2> QED BY <1>const, <1>req, <2>1, <2>3, <2>4, <2>5 DEF TypeInv
<1>7. CASE UNCHANGED vars
  BY <1>7, <1>const DEF vars, TypeInv
<1> QED BY <1>1, <1>2, <1>3, <1>4, <1>5, <1>6, <1>7 DEF Next, Serve

\* Type correctness: whatever interleaves, a row has its columns' types, a
\* request the fields of the await it is at, and attempts stay below their limit.
THEOREM EditTypeCorrect == GistEditConstants /\ Spec => []TypeOK
<1>1. TypeInv => TypeOK
  BY RequestShapes DEF TypeInv, TypeOK
<1> QED BY InitTypeInv, StepTypeInv, <1>1, PTL DEF Spec
-----------------------------------------------------------------------------
\* What a request read of a row is out of date at most in its content: author
\* and created_at never change, and the content it saw the row did show.
SeenWasShown ==
  \A r \in Request : IsJudged(r) \/ IsWriting(r) =>
    /\ req[r].seen.content_hash \in held[req[r].gist]
    /\ req[r].seen.created_at = row[req[r].gist].created_at
    /\ req[r].seen.author = row[req[r].gist].author

\* What the checks let through stays attached to what is being written.
WritesWereAllowed ==
  \A r \in Request : IsWriting(r) =>
    /\ req[r].cid.gist = req[r].gist
    /\ row[req[r].gist].author # NoAuthor

\* A request comes to its UPDATE only after a pin that succeeded.
StoredArePinned == \A r \in Request : req[r].pc = "store" => req[r].cid \in pinned

\* What a row shows it has shown, and everything shown is on IPFS.
HeldIsPinned ==
  \A g \in Gist :
    /\ row[g].content_hash \in held[g]
    /\ row[g].previous_cid \in held[g] \cup {NoCid}
    /\ held[g] \subseteq pinned

AnonymousNeverChange == \A g \in Gist : row[g].author = NoAuthor => held[g] = {Posted(g)}

PinnedAreOwned == \A cid \in pinned : Owned(cid.gist, cid)

EditInv ==
  /\ TypeInv /\ SeenWasShown /\ WritesWereAllowed /\ StoredArePinned
  /\ HeldIsPinned /\ AnonymousNeverChange /\ PinnedAreOwned

LEMMA InitEditInv == GistEditConstants /\ Init => EditInv
<1> SUFFICES ASSUME GistEditConstants, Init PROVE EditInv
  OBVIOUS
<1>1. TypeInv
  BY InitTypeInv
<1>2. \A r \in Request : req[r].pc = "idle"
  BY DEF Init
<1>3. \A g \in Gist : /\ row[g].content_hash = Posted(g) /\ row[g].previous_cid = NoCid
                      /\ row[g].created_at = 0 /\ held[g] = {Posted(g)}
  <2>1. PICK by \in [Gist -> Author \cup {NoAuthor}] :
          row = [g \in Gist |-> [author |-> by[g], content_hash |-> Posted(g),
                                 previous_cid |-> NoCid, created_at |-> 0]]
    BY DEF Init
  <2> QED BY <2>1 DEF Init
<1>4. SeenWasShown /\ WritesWereAllowed /\ StoredArePinned
  BY <1>2 DEF SeenWasShown, WritesWereAllowed, StoredArePinned, IsJudged, IsWriting
<1>5. HeldIsPinned /\ AnonymousNeverChange
  BY <1>3 DEF HeldIsPinned, AnonymousNeverChange, Init
<1>6. PinnedAreOwned
  <2>1. pinned = {Posted(g) : g \in Gist} /\ \A g \in Gist : Posted(g).gist = g
    BY DEF Init, Posted
  <2> QED BY <2>1 DEF PinnedAreOwned, Owned
<1> QED BY <1>1, <1>4, <1>5, <1>6 DEF EditInv

\* What a step does to one request: nothing, or one of the moves of its handler.
Asks(x) == req[x].pc \in {"idle", "select"} /\ req'[x].pc \in {"select", "404"}
Reads(x) == /\ req[x].pc = "select" /\ req'[x].pc = "check" /\ req'[x].gist \in Gist
            /\ req'[x].seen = row[req'[x].gist]
            /\ UNCHANGED <<row, held, pinned>>
Refuses(x) == /\ IsJudged(x) /\ req'[x].pc \in {"403", "410"}
              /\ req'[x].gist = req[x].gist /\ req'[x].seen = req[x].seen
Admits(x) == /\ IsJudged(x) /\ req'[x].pc = "pin"
             /\ req'[x].gist = req[x].gist /\ req'[x].seen = req[x].seen
             /\ req'[x].cid = [gist |-> req[x].gist, content |-> req[x].content, stamp |-> now]
             /\ req[x].seen.author # NoAuthor
Writes(x) == /\ IsWriting(x) /\ req'[x].pc \in {"pin", "store", "200", "500"}
             /\ req'[x].gist = req[x].gist /\ req'[x].seen = req[x].seen
             /\ req'[x].cid = req[x].cid
             /\ req'[x].pc = "store" => req[x].cid \in pinned'

LEMMA RequestSteps ==
  ASSUME TypeInv, [Next]_vars, NEW x \in Request
  PROVE  UNCHANGED req[x] \/ Asks(x) \/ Reads(x) \/ Refuses(x) \/ Admits(x) \/ Writes(x)
<1> DEFINE Moves == Asks(x) \/ Reads(x) \/ Refuses(x) \/ Admits(x) \/ Writes(x)
<1>fun. req \in [Request -> Requests]
  BY DEF TypeInv
<1>1. CASE Tick \/ UNCHANGED vars
  BY <1>1 DEF Tick, vars
<1>2. ASSUME NEW r \in Request, NEW g \in Gist \cup {UnknownGist}, NEW a \in Author,
             NEW c \in Content, Receive(r, g, a, c)
      PROVE  UNCHANGED req[x] \/ Asks(x)
  BY <1>2, <1>fun DEF Receive, Asks
<1>3. ASSUME NEW r \in Request, Select(r) PROVE UNCHANGED req[x] \/ Asks(x) \/ Reads(x)
  <2>1. CASE x # r
    BY <1>3, <1>fun, <2>1 DEF Select, Goto
  <2>2. CASE x = r /\ req[r].gist \in Gist
    BY <1>3, <1>fun, <2>2 DEF Select, Reads
  <2>3. CASE x = r /\ req[r].gist \notin Gist
    <3>1. req[r] \in Asking
      BY <1>3, RequestShapes DEF Select
    <3> QED BY <1>3, <1>fun, <2>3, <3>1 DEF Select, Goto, Asks, Asking
  <2> QED BY <2>1, <2>2, <2>3
<1>4. ASSUME NEW r \in Request, Check(r)
      PROVE  UNCHANGED req[x] \/ Refuses(x) \/ Admits(x)
  <2>1. req[r] \in Judged /\ IsJudged(r)
    BY <1>4, RequestShapes DEF Check, IsJudged
  <2>2. CASE x # r
    BY <1>4, <1>fun, <2>2 DEF Check, Goto
  <2>3. ASSUME x = r, NEW code \in {"403", "410"}, Goto(r, code) PROVE Refuses(x)
    BY <1>fun, <2>1, <2>3 DEF Goto, Refuses, Judged
  <2>4. ASSUME x = r, WindowOpen(req[r].seen), IsAuthor(req[r].seen, req[r].author),
               req' = [req EXCEPT ![r] =
                 [pc |-> "pin", gist |-> req[r].gist, seen |-> req[r].seen, tries |-> 0,
                  cid |-> [gist |-> req[r].gist, content |-> req[r].content, stamp |-> now]]]
        PROVE  Admits(x)
    BY <1>fun, <2>1, <2>4 DEF Admits, WindowOpen, IsAuthor
  <2> QED BY <1>4, <2>2, <2>3, <2>4 DEF Check
<1>5. ASSUME NEW r \in Request, Pin(r) PROVE UNCHANGED req[x] \/ Writes(x)
  <2>1. req[r] \in Writing /\ IsWriting(r)
    BY <1>5, RequestShapes DEF Pin, IsWriting
  <2>2. CASE x # r
    BY <1>5, <1>fun, <2>2 DEF Pin, Goto
  <2>3. CASE x = r /\ Goto(r, "store") /\ pinned' = pinned \cup {req[r].cid}
    BY <1>fun, <2>1, <2>3 DEF Goto, Writes, Writing
  <2>4. CASE x = r /\ req' = [req EXCEPT ![r].tries = Tried(@),
                                         ![r].pc = AfterFailure(Tried(req[r].tries))]
    <3>1. AfterFailure(Tried(req[r].tries)) \in {"pin", "500"}
      BY DEF AfterFailure
    <3> QED BY <1>fun, <2>1, <2>4, <3>1 DEF Writes, Writing
  <2> QED BY <1>5, <2>2, <2>3, <2>4 DEF Pin
<1>6. ASSUME NEW r \in Request, Store(r) PROVE UNCHANGED req[x] \/ Writes(x)
  <2>1. req[r] \in Writing /\ IsWriting(r)
    BY <1>6, RequestShapes DEF Store, IsWriting
  <2>2. PICK code \in {"200", "500"} : Goto(r, code)
    BY <1>6 DEF Store
  <2> QED BY <1>fun, <2>1, <2>2 DEF Goto, Writes, Writing
<1> QED BY <1>1, <1>2, <1>3, <1>4, <1>5, <1>6 DEF Next, Serve

\* Only a pin adds to IPFS, and only the content of the request that makes it.
LEMMA PinnedSteps ==
  ASSUME TypeInv, [Next]_vars
  PROVE  /\ pinned \subseteq pinned'
         /\ \A cid \in pinned' \ pinned :
              \E r \in Request : req[r].pc = "pin" /\ cid = req[r].cid
<1>1. ASSUME NEW r \in Request, Pin(r)
      PROVE  req[r].pc = "pin" /\ pinned' \in {pinned, pinned \cup {req[r].cid}}
  BY <1>1 DEF Pin
<1>2. UNCHANGED pinned \/ \E r \in Request : Pin(r)
  BY DEF Next, Serve, vars, Tick, Receive, Select, Check, Store
<1> QED BY <1>1, <1>2

\* Only an UPDATE changes a row, and of a row only its content.
LEMMA RowSteps ==
  ASSUME TypeInv, [Next]_vars, NEW g \in Gist
  PROVE  /\ held[g] \subseteq held'[g]
         /\ row'[g].author = row[g].author /\ row'[g].created_at = row[g].created_at
         /\ \/ UNCHANGED <<row[g], held[g]>>
            \/ \E r \in Request :
                 /\ req[r].pc = "store" /\ req[r].gist = g
                 /\ row'[g].content_hash = req[r].cid
                 /\ row'[g].previous_cid = req[r].seen.content_hash
                 /\ held'[g] = held[g] \cup {req[r].cid}
<1>1. UNCHANGED <<row, held>> \/ \E r \in Request : Store(r)
  BY DEF Next, Serve, vars, Tick, Receive, Select, Check, Pin
<1>2. CASE UNCHANGED <<row, held>>
  BY <1>2
<1>3. ASSUME NEW r \in Request, Store(r), ~UNCHANGED <<row, held>>
      PROVE  /\ req[r].pc = "store" /\ req[r].gist \in Gist
             /\ row' = [row EXCEPT ![req[r].gist] = Stored(@, req[r].seen, req[r].cid)]
             /\ held' = [held EXCEPT ![req[r].gist] = @ \cup {req[r].cid}]
  BY <1>3, RequestShapes DEF Store, IsWriting, Writing
<1>4. /\ row \in [Gist -> Row] /\ held \in [Gist -> SUBSET Cid] /\ row[g] \in Row
  BY DEF TypeInv
<1>5. ASSUME NEW r \in Request, Store(r), ~UNCHANGED <<row, held>>, req[r].gist = g
      PROVE  /\ row'[g] = [row[g] EXCEPT !.content_hash = req[r].cid,
                                         !.previous_cid = req[r].seen.content_hash]
             /\ held'[g] = held[g] \cup {req[r].cid}
  BY <1>3, <1>4, <1>5 DEF Stored
<1>6. ASSUME NEW r \in Request, Store(r), ~UNCHANGED <<row, held>>, req[r].gist # g
      PROVE  UNCHANGED <<row[g], held[g]>>
  BY <1>3, <1>4, <1>6
<1>7. CASE ~UNCHANGED <<row, held>>
  <2>1. PICK r \in Request : Store(r)
    BY <1>1, <1>7
  <2>2. CASE req[r].gist = g
    BY <1>3, <1>4, <1>5, <1>7, <2>1, <2>2 DEF Row
  <2>3. CASE req[r].gist # g
    BY <1>6, <1>7, <2>1, <2>3
  <2> QED BY <2>2, <2>3
<1> QED BY <1>2, <1>7

\* What EditInv says of one request, taken together.
Sound(x) ==
  /\ IsJudged(x) \/ IsWriting(x) =>
       /\ req[x].gist \in Gist
       /\ req[x].seen.content_hash \in held[req[x].gist]
       /\ req[x].seen.created_at = row[req[x].gist].created_at
       /\ req[x].seen.author = row[req[x].gist].author
  /\ IsWriting(x) =>
       /\ req[x].cid.gist = req[x].gist
       /\ row[req[x].gist].author # NoAuthor
  /\ req[x].pc = "store" => req[x].cid \in pinned

LEMMA RequestsAreSound ==
  ASSUME TypeInv
  PROVE  SeenWasShown /\ WritesWereAllowed /\ StoredArePinned
           <=> \A x \in Request : Sound(x)
<1>1. \A x \in Request : IsJudged(x) \/ IsWriting(x) => req[x].gist \in Gist
  BY RequestShapes DEF Judged, Writing
<1> QED BY <1>1 DEF Sound, SeenWasShown, WritesWereAllowed, StoredArePinned

LEMMA StepSound ==
  ASSUME EditInv, [Next]_vars, NEW x \in Request
  PROVE  Sound(x)'
<1>1. TypeInv /\ Sound(x) /\ HeldIsPinned
  BY RequestsAreSound DEF EditInv
<1>2. /\ pinned \subseteq pinned'
      /\ \A g \in Gist : /\ held[g] \subseteq held'[g]
                         /\ row'[g].author = row[g].author
                         /\ row'[g].created_at = row[g].created_at
  BY <1>1, PinnedSteps, RowSteps
<1>3. CASE UNCHANGED req[x]
  BY <1>1, <1>2, <1>3 DEF Sound, IsJudged, IsWriting
<1>4. CASE Asks(x)
  BY <1>4 DEF Asks, Sound, IsJudged, IsWriting
<1>5. CASE Reads(x)
  BY <1>1, <1>5 DEF Reads, Sound, IsJudged, IsWriting, HeldIsPinned
<1>6. CASE Refuses(x)
  BY <1>1, <1>2, <1>6 DEF Refuses, Sound, IsJudged, IsWriting
<1>7. CASE Admits(x)
  <2>1. req[x].gist \in Gist /\ req'[x].cid.gist = req[x].gist
    BY <1>1, <1>7 DEF Admits, Sound
  <2> QED BY <1>1, <1>2, <1>7, <2>1 DEF Admits, Sound, IsJudged, IsWriting
<1>8. CASE Writes(x)
  BY <1>1, <1>2, <1>8 DEF Writes, Sound, IsJudged, IsWriting
<1> QED BY <1>1, <1>3, <1>4, <1>5, <1>6, <1>7, <1>8, RequestSteps

LEMMA StepRows ==
  ASSUME EditInv, [Next]_vars
  PROVE  HeldIsPinned' /\ AnonymousNeverChange'
<1>1. TypeInv /\ \A r \in Request : Sound(r)
  BY RequestsAreSound DEF EditInv
<1>2. pinned \subseteq pinned'
  BY <1>1, PinnedSteps
<1>3. ASSUME NEW g \in Gist
      PROVE  /\ row'[g].content_hash \in held'[g]
             /\ row'[g].previous_cid \in held'[g] \cup {NoCid}
             /\ held'[g] \subseteq pinned'
             /\ row'[g].author = NoAuthor => held'[g] = {Posted(g)}
  <2>1. /\ row[g].content_hash \in held[g] /\ row[g].previous_cid \in held[g] \cup {NoCid}
        /\ held[g] \subseteq pinned
        /\ row[g].author = NoAuthor => held[g] = {Posted(g)}
    BY DEF EditInv, HeldIsPinned, AnonymousNeverChange
  <2>2. CASE UNCHANGED <<row[g], held[g]>>
    BY <1>2, <2>1, <2>2
  <2>3. CASE \E r \in Request :
               /\ req[r].pc = "store" /\ req[r].gist = g
               /\ row'[g].content_hash = req[r].cid
               /\ row'[g].previous_cid = req[r].seen.content_hash
               /\ held'[g] = held[g] \cup {req[r].cid}
    <3>1. PICK r \in Request :
               /\ req[r].pc = "store" /\ req[r].gist = g
               /\ row'[g].content_hash = req[r].cid
               /\ row'[g].previous_cid = req[r].seen.content_hash
               /\ held'[g] = held[g] \cup {req[r].cid}
      BY <2>3
    <3>2. /\ req[r].cid \in pinned /\ row[g].author # NoAuthor
          /\ req[r].seen.content_hash \in held[g]
      BY <1>1, <3>1 DEF Sound, IsWriting
    <3>3. row'[g].author = row[g].author /\ row'[g].created_at = row[g].created_at
      BY <1>1, RowSteps
    <3> QED BY <1>2, <2>1, <3>1, <3>2, <3>3
  <2> QED BY <1>1, <2>2, <2>3, RowSteps
<1> QED BY <1>3 DEF HeldIsPinned, AnonymousNeverChange

\* The request that owns a content keeps it, and is not refused any more.
LEMMA WritersStay ==
  ASSUME TypeInv, [Next]_vars, NEW r \in Request, IsWriting(r)
  PROVE  IsWriting(r)' /\ req'[r].gist = req[r].gist /\ req'[r].cid = req[r].cid
<1>1. ~IsJudged(r) /\ ~Asks(r) /\ ~Reads(r)
  BY DEF IsJudged, IsWriting, Asks, Reads
<1>2. UNCHANGED req[r] \/ Writes(r)
  BY <1>1, RequestSteps DEF Refuses, Admits
<1> QED BY <1>2 DEF Writes, IsWriting

\* Owned, with the request named.
LEMMA OwnersWrite ==
  ASSUME TypeInv, NEW g \in Gist, NEW cid \in Cid
  PROVE  Owned(g, cid) <=> \/ cid = Posted(g)
                           \/ \E r \in Request : IsWriting(r) /\ req[r].gist = g
                                                 /\ req[r].cid = cid
<1>1. ASSUME NEW r \in Request, IsWriting(r)
      PROVE  req[r].pc \notin Refusal \cup {"idle"} /\ "cid" \in DOMAIN req[r]
  <2>1. req[r] \in Writing
    BY <1>1, RequestShapes
  <2> QED BY <2>1 DEF Writing, Refusal
<1>2. ASSUME NEW r \in Request, req[r].pc \notin Refusal \cup {"idle"},
             "cid" \in DOMAIN req[r]
      PROVE  IsWriting(r)
  <2>1. req[r] \in Fresh \cup Asking \cup Judged \cup Writing
    BY DEF TypeInv, Requests
  <2>2. CASE req[r] \in Writing
    BY <2>2 DEF Writing, IsWriting
  <2>3. CASE req[r] \in Fresh
    BY <1>2, <2>3 DEF Fresh
  <2>4. CASE req[r] \in Asking
    BY <1>2, <2>4 DEF Asking
  <2>5. CASE req[r] \in Judged
    BY <1>2, <2>5 DEF Judged
  <2> QED BY <2>1, <2>2, <2>3, <2>4, <2>5
<1> QED BY <1>1, <1>2 DEF Owned

LEMMA StepOwned == ASSUME EditInv, [Next]_vars PROVE PinnedAreOwned'
<1>1. /\ TypeInv /\ TypeInv' /\ PinnedAreOwned /\ pinned \subseteq Cid
      /\ \A r \in Request : Sound(r)
  BY StepTypeInv, RequestsAreSound DEF EditInv, TypeInv
<1> SUFFICES ASSUME NEW cid \in pinned' PROVE Owned(cid.gist, cid)'
  BY DEF PinnedAreOwned
<1>2. cid \in Cid /\ cid.gist \in Gist
  BY <1>1 DEF TypeInv, Cid
<1>3. ASSUME NEW r \in Request, IsWriting(r), req[r].gist = cid.gist, req[r].cid = cid
      PROVE  Owned(cid.gist, cid)'
  <2>1. /\ IsWriting(r)' /\ req'[r].gist = cid.gist /\ req'[r].cid = cid
    BY <1>1, <1>3, WritersStay
  <2>2. req'[r] \in Writing
    <3>1. req'[r] \in Fresh \cup Asking \cup Judged \cup Writing
      BY <1>1 DEF TypeInv, Requests
    <3>2. req'[r].pc \in {"pin", "store", "200", "500"}
      BY <2>1 DEF IsWriting
    <3> QED BY <3>1, <3>2 DEF Fresh, Asking, Judged
  <2>3. req'[r].pc \notin Refusal \cup {"idle"} /\ "cid" \in DOMAIN req'[r]
    BY <2>2 DEF Writing, Refusal
  <2> QED BY <2>1, <2>3 DEF Owned
<1>4. CASE cid \in pinned
  <2>1. Owned(cid.gist, cid)
    BY <1>1, <1>4 DEF PinnedAreOwned
  <2>2. CASE cid = Posted(cid.gist)
    BY <2>2 DEF Owned, Posted
  <2> QED BY <1>1, <1>2, <1>3, <2>1, <2>2, OwnersWrite
<1>5. CASE cid \notin pinned
  <2>1. PICK r \in Request : req[r].pc = "pin" /\ cid = req[r].cid
    BY <1>1, <1>5, PinnedSteps
  <2>2. IsWriting(r) /\ req[r].gist = cid.gist
    BY <1>1, <2>1 DEF IsWriting, Sound
  <2> QED BY <1>3, <2>1, <2>2
<1> QED BY <1>4, <1>5

LEMMA StepEditInv == EditInv /\ [Next]_vars => EditInv'
<1> SUFFICES ASSUME EditInv, [Next]_vars PROVE EditInv'
  OBVIOUS
<1>1. TypeInv'
  BY StepTypeInv DEF EditInv
<1>2. \A x \in Request : Sound(x)'
  BY StepSound
<1>3. SeenWasShown' /\ WritesWereAllowed' /\ StoredArePinned'
  BY <1>2 DEF Sound, SeenWasShown, WritesWereAllowed, StoredArePinned
<1> QED BY <1>1, <1>3, StepRows, StepOwned DEF EditInv

\* However pins fail, are retried or lose their answers, and whatever edits race,
\* the two CIDs of a row are on IPFS.
THEOREM EditedRowsArePinned == GistEditConstants /\ Spec => []RowsArePinned
<1>1. EditInv => RowsArePinned
  BY DEF EditInv, HeldIsPinned, RowsArePinned
<1> QED BY InitEditInv, StepEditInv, <1>1, PTL DEF Spec

\* A refused request pinned nothing and an anonymous gist keeps its content.
THEOREM RefusalsLeaveNothing == GistEditConstants /\ Spec => []RefusedLeavesNothing
<1>1. EditInv => RefusedLeavesNothing
  BY DEF EditInv, AnonymousNeverChange, PinnedAreOwned, RefusedLeavesNothing
<1> QED BY InitEditInv, StepEditInv, <1>1, PTL DEF Spec

\* Of edits that race, each records as previous_cid a content the gist did show.
THEOREM PreviousIsHistory == GistEditConstants /\ Spec => PreviousWasShown
<1>1. EditInv /\ [Next]_vars =>
        [\A g \in Gist : row'[g].content_hash # row[g].content_hash
           => row'[g].previous_cid \in held[g]]_vars
  <2> SUFFICES ASSUME EditInv, [Next]_vars, NEW g \in Gist,
                      row'[g].content_hash # row[g].content_hash
               PROVE  row'[g].previous_cid \in held[g]
    OBVIOUS
  <2>1. TypeInv /\ \A r \in Request : Sound(r)
    BY RequestsAreSound DEF EditInv
  <2>2. PICK r \in Request : /\ req[r].pc = "store" /\ req[r].gist = g
                             /\ row'[g].previous_cid = req[r].seen.content_hash
    BY <2>1, RowSteps
  <2> QED BY <2>1, <2>2 DEF Sound, IsWriting
<1> QED BY InitEditInv, StepEditInv, <1>1, PTL DEF Spec, PreviousWasShown
=============================================================================

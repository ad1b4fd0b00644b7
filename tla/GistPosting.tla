----------------------------- MODULE GistPosting -----------------------------
(***************************************************************************)
(* POST /gists and POST /gists/batch: GistsService.create and createBatch  *)
(* of Backend/src/gists/gists.service.ts, with IpfsService.pinJsonBatch and *)
(* SorobanService.postGist.  create is a batch of one.                     *)
(*                                                                         *)
(* A batch is a tree of promises.  Its pins run concurrently, then each    *)
(* item is posted and inserted on its own; Promise.all answers with the    *)
(* first failure and does not stop the others.  The cache is off, as it is *)
(* while REDIS_URL is not set.                                             *)
(***************************************************************************)
EXTENDS Integers, Sequences, FiniteSets

CONSTANTS
  Request,     \* POST requests
  Observation, \* what an item says: content after stripHtml, lat, lon, cell
  BatchSize,   \* MAX_GISTS_PER_BATCH
  MaxAttempts, \* IPFS_RETRY_ATTEMPTS
  MaxTime      \* bound on the clock

GistPostingConstants ==
  /\ BatchSize \in Nat \ {0}
  /\ MaxAttempts \in Nat \ {0}
  /\ MaxTime \in Nat

VARIABLES
  mockMode, \* CONTRACT_ID_GIST_REGISTRY is not set; fixed when the server starts
  now,      \* Date.now()
  req,      \* the requests
  pinned,   \* what IPFS holds
  rows      \* table gists, in the order of the inserts

vars == <<mockMode, now, req, pinned, rows>>

Time == 0..MaxTime

\* A payload is an observation with its created_at stamp; the CID that pinning
\* it gives names it.
Payload == [obs: Observation, stamp: Time]

\* A row, with the request and the item it came from.
Row == [req: Request, item: 1..BatchSize, cid: Payload, chainId: Time]

Stage == {"pin", "post", "insert", "stored", "failed"}
Answer == {"none", "201", "500"}

Idle == [items |-> << >>, stamp |-> 0, pins |-> << >>, stage |-> << >>,
         chainId |-> << >>, answer |-> "none"]
Items(r) == req[r].items
PayloadOf(r, obs) == [obs |-> obs, stamp |-> req[r].stamp]
CidOf(r, i) == PayloadOf(r, Items(r)[i])
-----------------------------------------------------------------------------
Init ==
  /\ mockMode \in BOOLEAN
  /\ now = 0
  /\ req = [r \in Request |-> Idle]
  /\ pinned = {}
  /\ rows = << >>

Observations(items) == {items[i] : i \in DOMAIN items}

\* The payloads share one created_at, so items with the same observation have
\* the same key and one pin: pins[obs] is its state, tries the attempts made.
Receive(r, items) ==
  /\ req[r] = Idle
  /\ req' = [req EXCEPT ![r] =
       [items |-> items, stamp |-> now,
        pins |-> [obs \in Observations(items) |-> [state |-> "trying", tries |-> 0]],
        stage |-> [i \in DOMAIN items |-> "pin"],
        chainId |-> [i \in DOMAIN items |-> 0],
        answer |-> "none"]]
  /\ UNCHANGED <<mockMode, now, pinned, rows>>

\* Promise.all over the pins: the items go on once every pin has resolved.
PinsDone(pins) == \A obs \in DOMAIN pins : pins[obs].state = "pinned"

\* The first rejection is the request's answer; a later one finds it settled.
Rejected(q) == IF q.answer = "none" THEN [q EXCEPT !.answer = "500"] ELSE q

\* withRetry: the attempts made, and the state after attempt n failed.
Tried(n) == n + 1
AfterFailure(n) == IF n < MaxAttempts THEN "trying" ELSE "failed"

PinSucceeds(r, obs) ==
  LET pins == [req[r].pins EXCEPT ![obs].state = "pinned"] IN
  /\ req' = [req EXCEPT ![r].pins = pins,
                        ![r].stage = IF PinsDone(pins)
                                     THEN [i \in DOMAIN @ |-> "post"] ELSE @]
  /\ pinned' = pinned \cup {PayloadOf(r, obs)}

\* An attempt that fails may have reached Pinata all the same.
PinFails(r, obs) ==
  LET n == Tried(req[r].pins[obs].tries)
      q == [req[r] EXCEPT !.pins[obs] = [state |-> AfterFailure(n), tries |-> n]]
  IN /\ req' = [req EXCEPT ![r] = IF AfterFailure(n) = "failed" THEN Rejected(q) ELSE q]
     /\ pinned' \in {pinned, pinned \cup {PayloadOf(r, obs)}}

Pin(r, obs) ==
  /\ obs \in DOMAIN req[r].pins
  /\ req[r].pins[obs].state = "trying"
  /\ PinSucceeds(r, obs) \/ PinFails(r, obs)
  /\ UNCHANGED <<mockMode, now, rows>>

\* postGist: the mock answers with Date.now() after its delay; the real client
\* is a stub, whose every attempt throws.
Post(r, i) ==
  /\ i \in DOMAIN Items(r) /\ req[r].stage[i] = "post"
  /\ req' = [req EXCEPT ![r] =
       IF mockMode
       THEN [@ EXCEPT !.stage[i] = "insert", !.chainId[i] = now]
       ELSE Rejected([@ EXCEPT !.stage[i] = "failed"])]
  /\ UNCHANGED <<mockMode, now, pinned, rows>>

\* The request is answered 201 when its last item is stored.
FaultyResolved(q) ==
  IF \E i \in DOMAIN q.stage : q.stage[i] = "stored"
  THEN [q EXCEPT !.answer = "201"] ELSE q
Resolved(q) ==
  IF \A i \in DOMAIN q.stage : q.stage[i] = "stored"
  THEN [q EXCEPT !.answer = "201"] ELSE q

FaultyRowOf(r, i) ==
  [req |-> r, item |-> i, cid |-> CidOf(r, 1), chainId |-> req[r].chainId[i]]
RowOf(r, i) ==
  [req |-> r, item |-> i, cid |-> CidOf(r, i), chainId |-> req[r].chainId[i]]

\* The INSERT may fail, or its answer may be lost after it took effect.
Insert(r, i) ==
  /\ i \in DOMAIN Items(r) /\ req[r].stage[i] = "insert"
  /\ \/ /\ rows' = Append(rows, RowOf(r, i))
        /\ req' = [req EXCEPT ![r] = Resolved([@ EXCEPT !.stage[i] = "stored"])]
     \/ /\ rows' \in {rows, Append(rows, RowOf(r, i))}
        /\ req' = [req EXCEPT ![r] = Rejected([@ EXCEPT !.stage[i] = "failed"])]
  /\ UNCHANGED <<mockMode, now, pinned>>

Tick ==
  /\ now < MaxTime
  /\ now' = now + 1
  /\ UNCHANGED <<mockMode, req, pinned, rows>>

Batch == UNION {[1..n -> Observation] : n \in 1..BatchSize}

Serve(r) ==
  \/ \E obs \in Observation : Pin(r, obs)
  \/ \E i \in 1..BatchSize : Post(r, i) \/ Insert(r, i)

Next ==
  \/ Tick
  \/ \E r \in Request : \/ \E items \in Batch : Receive(r, items)
                        \/ Serve(r)

\* Every promise the event loop waits for settles, one way or the other.
Fairness ==
  \A r \in Request :
    /\ \A obs \in Observation : WF_vars(Pin(r, obs))
    /\ \A i \in 1..BatchSize : WF_vars(Post(r, i)) /\ WF_vars(Insert(r, i))

Spec == Init /\ [][Next]_vars /\ Fairness
-----------------------------------------------------------------------------
TypeOK ==
  /\ mockMode \in BOOLEAN
  /\ now \in Time
  /\ pinned \subseteq Payload
  /\ rows \in Seq(Row)
  /\ \A r \in Request :
       /\ Items(r) \in Batch \cup {<< >>}
       /\ req[r].stamp \in Time
       /\ req[r].stage \in [DOMAIN Items(r) -> Stage]
       /\ req[r].chainId \in [DOMAIN Items(r) -> Time]
       /\ req[r].answer \in Answer
       /\ req[r].pins \in [Observations(Items(r)) ->
            [state: {"trying"}, tries: 0..MaxAttempts - 1]
            \cup [state: {"pinned", "failed"}, tries: 0..MaxAttempts]]

\* Content reaches IPFS before any row names it, also in a batch of which some
\* pins fail, are retried or are still under way.
RowsArePinned == \A n \in DOMAIN rows : rows[n].cid \in pinned

\* A row holds the content of its own item, stamped with its request, although
\* items share pins and finish in any order; no item is inserted twice.
RowsMatchItems ==
  /\ \A n \in DOMAIN rows :
       /\ rows[n].item \in DOMAIN Items(rows[n].req)
       /\ rows[n].cid = CidOf(rows[n].req, rows[n].item)
  /\ \A m, n \in DOMAIN rows :
       rows[m].req = rows[n].req /\ rows[m].item = rows[n].item => m = n

\* 201 means that every item has its row.  After a failed pin no item of the
\* request ever gets one: the client may send the request again unchanged.
RowsOf(r) == {rows[n].item : n \in {m \in DOMAIN rows : rows[m].req = r}}
AnswersTellRows ==
  \A r \in Request :
    /\ req[r].answer = "201" => RowsOf(r) = DOMAIN Items(r)
    /\ (\E obs \in DOMAIN req[r].pins : req[r].pins[obs].state = "failed")
         => RowsOf(r) = {}

\* Every request is answered: retries end, and no item waits for another.
EveryRequestAnswered ==
  \A r \in Request : req[r] # Idle ~> req[r].answer # "none"
=============================================================================

----------------------------- MODULE CachedApi -----------------------------
(***************************************************************************)
(* The cached endpoints with REDIS_URL set and no read replica: GET        *)
(* /gists/:id and GET /gists, POST /gists and PATCH /gists/:id behind the  *)
(* Idempotency-Key middleware, over CacheService and the circuit breakers  *)
(* it shares among all of them (Backend/src).                              *)
(*                                                                         *)
(* A handler runs from one await to the next.  A cache call is an operation*)
(* in flight until Redis carries it out, it fails, or its breaker times    *)
(* out; a breaker that is open is a call that fails at once.  The handlers *)
(* proper, modelled in GistPosting and GistEdit, are one step here.        *)
(***************************************************************************)
EXTENDS Integers

CONSTANTS
  Request,   \* HTTP requests
  Gist,      \* gist ids
  Place,     \* pairs of lat and lon
  PlaceOf,   \* the place of each gist
  IdemKey,   \* Idempotency-Key headers
  NoKey,     \* the header is absent
  None,      \* null
  RedisFails,\* Redis calls may fail or take too long
  KeysExpire \* the run is longer than the TTLs

ASSUME CachedApiConstants ==
  /\ PlaceOf \in [Gist -> Place]
  /\ NoKey \notin IdemKey
  /\ {RedisFails, KeysExpire} \subseteq BOOLEAN

\* The instances are of gists that were all posted at one place.
OnePlace == [g \in Gist |-> CHOOSE p \in Place : TRUE]

VARIABLES
  bound,   \* for each breaker the arguments of the closure it was built with
  flight,  \* cache operations under way
  store,   \* Redis
  version, \* table gists: 0 for an id without a row, then one up per edit
  changes, \* how often what a place shows changed
  req      \* the requests

vars == <<bound, flight, store, version, changes, req>>

\* A query of a place may write its coordinates as toFixed(4) does, or not.
CacheKey == ({"one"} \X Gist) \cup ({"nearby"} \X Place \X BOOLEAN)
            \cup ({"idemp"} \X IdemKey)
Breaker == {"cache.get", "cache.set", "cache.del", "cache.delPattern"}

\* A post's place is part of its body, a patch's gist part of its path.
Call ==
  [kind: {"one"}, gist: Gist]
  \cup [kind: {"nearby"}, place: Place, fixed4: BOOLEAN]
  \cup [kind: {"post"}, place: Place, key: IdemKey \cup {NoKey}]
  \cup [kind: {"patch"}, gist: Gist, key: IdemKey \cup {NoKey}]

\* What hashRequest tells apart: method and path.  main.ts puts the middleware
\* before the body parser, which Nest adds in listen(), so req.body is
\* undefined here whatever the request carries.
Endpoint == {<<"post">>} \cup ({"patch"} \X Gist)
Hash(call) == IF call.kind = "post" THEN <<"post">> ELSE <<"patch", call.gist>>

Args(key, value) == [key |-> key, value |-> value]
Idle == [call |-> None, pc |-> "idle", res |-> None, status |-> None, ran |-> 0]
Init ==
  /\ bound = [b \in Breaker |-> None]
  /\ flight = {}
  /\ store = [k \in CacheKey |-> None]
  /\ version \in [Gist -> {0, 1}]
  /\ changes = [p \in Place |-> 0]
  /\ req = [r \in Request |-> Idle]
-----------------------------------------------------------------------------
(* CircuitBreakerService.fire and CacheService *)

\* getOrCreate: a breaker keeps the closure of the first call under its name,
\* so what runs is that closure, whatever the later calls pass.
Fire(r, breaker, args, awaited) ==
  LET first == IF bound[breaker] = None THEN args ELSE bound[breaker] IN
  /\ bound' = [bound EXCEPT ![breaker] = first]
  /\ flight' = flight \cup
       {[breaker |-> breaker, args |-> first, by |-> r, awaited |-> awaited]}

NoFire == UNCHANGED <<bound, flight>>

\* What an operation does to Redis.  delPattern deletes the nearby keys of a
\* place that are written as toFixed(4) writes them.
Effect(op) ==
  IF op.breaker = "cache.get" THEN store
  ELSE [store EXCEPT ![op.args.key] =
          IF op.breaker = "cache.set" THEN op.args.value ELSE None]

\* get hands its result to the caller; fire turns every failure into null.
Return(op, result) ==
  req' = IF op.awaited /\ op.breaker = "cache.get"
         THEN [req EXCEPT ![op.by].res = result] ELSE req

Settle(op) ==
  /\ store' = Effect(op)
  /\ flight' = flight \ {op}
  /\ Return(op, store[op.args.key])
  /\ UNCHANGED <<bound, version, changes>>

\* Also after the operation took effect: its answer was lost.
Fail(op) ==
  /\ RedisFails
  /\ store' \in {store, Effect(op)}
  /\ flight' = flight \ {op}
  /\ Return(op, None)
  /\ UNCHANGED <<bound, version, changes>>

\* The breaker's timer: the caller goes on, the operation stays under way.
FaultyTimesOut(op) == op.awaited /\ op.breaker # "cache.delPattern"
TimesOut(op) == op.awaited
Timeout(op) ==
  /\ RedisFails /\ TimesOut(op)
  /\ flight' = (flight \ {op}) \cup {[op EXCEPT !.awaited = FALSE]}
  /\ Return(op, None)
  /\ UNCHANGED <<bound, store, version, changes>>

\* setex: an entry disappears when its time to live is over.
Expire(k) ==
  /\ KeysExpire /\ store[k] # None
  /\ store' = [store EXCEPT ![k] = None]
  /\ UNCHANGED <<bound, flight, version, changes, req>>
-----------------------------------------------------------------------------
(* The handlers, one action per stretch between two awaits *)

At(r, pc) == req[r].pc = pc /\ \A op \in flight : ~(op.by = r /\ op.awaited)
Goto(r, pc) == req' = [req EXCEPT ![r].pc = pc]
Answered(q, status, value) == [q EXCEPT !.pc = "done", !.status = status, !.res = value]
Answer(r, status, value) == req' = [req EXCEPT ![r] = Answered(@, status, value)]

ReadKey(call) ==
  IF call.kind = "one" THEN <<"one", call.gist>>
  ELSE IF call.kind = "nearby" THEN <<"nearby", call.place, call.fixed4>>
  ELSE <<"idemp", call.key>>

Mutates(call) == call.kind \in {"post", "patch"}

\* Reads look into the cache first, and so does a POST or PATCH with a key.
FaultyLooksUp(call) == call.kind \in {"one", "nearby", "post", "patch"}
LooksUp(call) == ~Mutates(call) \/ call.key # NoKey

Start(r, call) ==
  /\ req[r] = Idle
  /\ req' = [req EXCEPT ![r].call = call,
                        ![r].pc = IF LooksUp(call) THEN "got" ELSE "run"]
  /\ IF LooksUp(call) THEN Fire(r, "cache.get", Args(ReadKey(call), None), TRUE)
     ELSE NoFire
  /\ UNCHANGED <<store, version, changes>>

\* cached.reqHash === reqHash; what is no entry of the middleware has no hash.
SameRequest(cached, call) == cached.kind = "entry" /\ cached.hash = Hash(call)

\* After a replay the handler must not run.
FaultyAfterReplay == "run"
AfterReplay == "done"

ResumeGet(r) ==
  LET q == req[r] IN
  /\ At(r, "got")
  /\ \/ q.res = None /\ Goto(r, "run")
     \/ q.res # None /\ ~Mutates(q.call) /\ Answer(r, "200", q.res)
     \/ /\ q.res # None /\ Mutates(q.call)
        /\ IF SameRequest(q.res, q.call)
           THEN req' = [req EXCEPT ![r].pc = AfterReplay, ![r].status = "replayed"]
           ELSE Answer(r, "422", None)
  /\ NoFire /\ UNCHANGED <<store, version, changes>>

\* findByGistId, findNearby; a read without a row is answered null.
Read(r) ==
  LET q == req[r] IN
  /\ At(r, "run")
  /\ \/ /\ q.call.kind = "one" /\ version[q.call.gist] # 0
        /\ req' = [req EXCEPT ![r].pc = "fill", ![r].res =
             [kind |-> "gist", gist |-> q.call.gist, version |-> version[q.call.gist]]]
     \/ q.call.kind = "one" /\ version[q.call.gist] = 0 /\ Answer(r, "200", None)
     \/ /\ q.call.kind = "nearby"
        /\ req' = [req EXCEPT ![r].pc = "fill", ![r].res =
             [kind |-> "page", place |-> q.call.place, changes |-> changes[q.call.place]]]
  /\ NoFire /\ UNCHANGED <<store, version, changes>>

Fill(r) ==
  /\ At(r, "fill")
  /\ req' = [req EXCEPT ![r] = [Answered(@, "200", @.res) EXCEPT !.pc = "filled"]]
  /\ Fire(r, "cache.set", Args(ReadKey(req[r].call), req[r].res), TRUE)
  /\ UNCHANGED <<store, version, changes>>

Patch(r) ==
  LET q == req[r] IN
  /\ At(r, "run") /\ q.call.kind = "patch" /\ version[q.call.gist] # 0
  /\ version' = [version EXCEPT ![q.call.gist] = @ + 1]
  /\ changes' = [changes EXCEPT ![PlaceOf[q.call.gist]] = @ + 1]
  /\ req' = [req EXCEPT ![r].pc = "drop", ![r].ran = @ + 1,
                        ![r].status = IF @ = None THEN "200" ELSE @]
  /\ NoFire /\ UNCHANGED store

Drop(r) ==
  /\ At(r, "drop")
  /\ Goto(r, "clear")
  /\ Fire(r, "cache.del", Args(<<"one", req[r].call.gist>>, None), TRUE)
  /\ UNCHANGED <<store, version, changes>>

\* res.json as the middleware wraps it: the entry is handed to the cache, not
\* waited for, and then the answer goes out, an error's like any other.
FaultyEntry(r, status) ==
  [kind |-> "entry", hash |-> Hash(req[r].call), status |-> "201", of |-> r]
Entry(r, status) ==
  [kind |-> "entry", hash |-> Hash(req[r].call), status |-> status, of |-> r]

Respond(r, status) ==
  /\ Answer(r, status, None)
  /\ IF Mutates(req[r].call) /\ req[r].call.key # NoKey
     THEN Fire(r, "cache.set", Args(ReadKey(req[r].call), Entry(r, status)), FALSE)
     ELSE NoFire

Post(r) ==
  LET q == req[r] IN
  /\ At(r, "run") /\ q.call.kind = "post"
  /\ changes' = [changes EXCEPT ![q.call.place] = @ + 1]
  /\ req' = [req EXCEPT ![r].pc = "clear", ![r].ran = @ + 1,
                        ![r].status = IF @ = None THEN "201" ELSE @]
  /\ NoFire /\ UNCHANGED <<store, version>>

\* The handler throws before its row is written.
Throws(r) ==
  /\ At(r, "run") /\ Mutates(req[r].call)
  /\ Respond(r, "error")
  /\ UNCHANGED <<store, version, changes>>

\* invalidateNearbyCache
Clear(r) ==
  LET call == req[r].call
      place == IF call.kind = "post" THEN call.place ELSE PlaceOf[call.gist] IN
  /\ At(r, "clear")
  /\ Goto(r, "respond")
  /\ Fire(r, "cache.delPattern", Args(<<"nearby", place, TRUE>>, None), TRUE)
  /\ UNCHANGED <<store, version, changes>>

Finish(r) ==
  /\ \/ At(r, "respond") /\ Respond(r, req[r].status)
     \/ At(r, "filled") /\ Goto(r, "done") /\ NoFire
  /\ UNCHANGED <<store, version, changes>>

Step(r) == ResumeGet(r) \/ Read(r) \/ Fill(r) \/ Patch(r) \/ Drop(r) \/ Post(r)
           \/ Throws(r) \/ Clear(r) \/ Finish(r)

Next ==
  \/ \E r \in Request : (\E call \in Call : Start(r, call)) \/ Step(r)
  \/ \E op \in flight : Settle(op) \/ Fail(op) \/ Timeout(op)
  \/ \E k \in CacheKey : Expire(k)

\* Handlers run, and the database answers them.  Of Redis nothing is assumed:
\* a call that stays unanswered is ended by its breaker's timer.
Fairness ==
  \A r \in Request :
    /\ WF_vars(Step(r))
    /\ WF_vars(\E op \in flight : op.by = r /\ Timeout(op))

Spec == Init /\ [][Next]_vars /\ Fairness
-----------------------------------------------------------------------------
Status == {"200", "201", "422", "replayed", "error"}
Value == [kind: {"gist"}, gist: Gist, version: Nat]
         \cup [kind: {"page"}, place: Place, changes: Nat]
         \cup [kind: {"entry"}, hash: Endpoint, status: Status, of: Request]

\* null is no status and no closure.
ASSUME NullStandsApart ==
  None \notin Status /\ None \notin [key: CacheKey, value: Value \cup {None}]

TypeOK ==
  /\ \A b \in Breaker : bound[b] # None =>
       bound[b].key \in CacheKey /\ bound[b].value \in Value \cup {None}
  /\ \A op \in flight : op.breaker \in Breaker /\ op.args = bound[op.breaker]
  /\ store \in [CacheKey -> Value \cup {None}]
  /\ version \in [Gist -> Nat] /\ changes \in [Place -> Nat]
  /\ \A r \in Request :
       /\ req[r].status \in Status \cup {None}
       /\ req[r].res \in Value \cup {None}
       /\ req[r].ran \in 0..1

\* A request answered from the idempotency cache did not run, and gets the
\* answer of a request with the same method and path, as it was given.
ReplaysAreFaithful ==
  \A r \in Request : req[r].status = "replayed" =>
    /\ req[r].ran = 0
    /\ req[r].res.kind = "entry"
    /\ Hash(req[req[r].res.of].call) = Hash(req[r].call)
    /\ req[req[r].res.of].status = req[r].res.status

\* Nothing is cached that was never so: no row or page ahead of the table, no
\* entry other than the answer its request was given.
CacheTellsThePast ==
  \A k \in CacheKey : LET v == store[k] IN
    v # None =>
      \/ v.kind = "gist" /\ v.version \in 1..version[v.gist]
      \/ v.kind = "page" /\ v.changes <= changes[v.place]
      \/ v.kind = "entry" /\ req[v.of].status = v.status /\ req[v.of].pc = "done"

\* A dead or stuck Redis costs time, never an answer.
EveryRequestAnswered ==
  \A r \in Request : req[r].pc # "idle" ~> req[r].pc = "done"

\* Backend/src/common/circuit/circuit-breaker.service.spec.ts:45: fire "should
\* return the action result on success", here the gist the request asks for.
OneIsTheGistAskedFor ==
  \A r \in Request :
    req[r].pc = "done" /\ req[r].call.kind = "one" /\ req[r].res # None
      => req[r].res.kind = "gist" /\ req[r].res.gist = req[r].call.gist

\* Backend/src/common/middleware/idempotency.middleware.spec.ts:86: the
\* middleware "returns 422 when the same key is used with a different body", so
\* a post never gets the answer to a post of another place.
OtherBodyIsRefused ==
  \A r \in Request :
    req[r].call # None /\ req[r].call.kind = "post" /\ req[r].status = "replayed"
      => req[req[r].res.of].call.place = req[r].call.place

=============================================================================

-------------------------- MODULE CachedApiProofs --------------------------
(***************************************************************************)
(* Proofs about CachedApi, for any number of requests, gists, places and   *)
(* keys, and whatever Redis does.                                          *)
(***************************************************************************)
EXTENDS CachedApi, TLAPS

Closure == [key: CacheKey, value: Value \cup {None}]
Operation == [breaker: Breaker, args: Closure, by: Request, awaited: BOOLEAN]
Pc == {"idle", "got", "run", "fill", "filled", "drop", "clear", "respond", "done"}
Served == [call: Call \cup {None}, pc: Pc, res: Value \cup {None},
           status: Status \cup {None}, ran: 0..1]

\* What a request holds at each await.
Shape(q) ==
  /\ q.pc # "idle" => q.call \in Call
  /\ q.pc \in {"got", "run"} => q.ran = 0 /\ q.status = None
  /\ q.pc = "got" => LooksUp(q.call)
  /\ q.pc \in {"fill", "filled"} => q.call.kind \in {"one", "nearby"} /\ q.res \in Value
  /\ q.pc = "drop" => q.call.kind = "patch"
  /\ q.pc \in {"clear", "respond"} => q.call.kind \in {"post", "patch"}
  /\ q.pc \in {"drop", "clear", "respond"} => q.status \in {"200", "201"}

\* A read somebody waits for.
Gets(op) == op.awaited /\ op.breaker = "cache.get"

TypeInv ==
  /\ bound \in [Breaker -> Closure \cup {None}]
  /\ flight \subseteq Operation
  /\ \A op \in flight : op.args = bound[op.breaker]
  /\ \A op \in flight : Gets(op) => req[op.by].pc = "got"
  /\ store \in [CacheKey -> Value \cup {None}]
  /\ version \in [Gist -> Nat]
  /\ changes \in [Place -> Nat]
  /\ req \in [Request -> Served]
  /\ \A r \in Request : Shape(req[r])
-----------------------------------------------------------------------------
LEMMA InitTypeInv == Init => TypeInv
<1> SUFFICES ASSUME Init PROVE TypeInv
  OBVIOUS
<1>1. Idle \in Served /\ Shape(Idle)
  BY DEF Idle, Served, Pc, Shape
<1> QED BY <1>1 DEF Init, TypeInv

\* What a step fires is an operation, and those under way stay bound.
LEMMA FireTypes ==
  ASSUME TypeInv, NEW r \in Request, NEW breaker \in Breaker, NEW args \in Closure,
         NEW awaited \in BOOLEAN, Fire(r, breaker, args, awaited)
  PROVE  /\ bound' \in [Breaker -> Closure \cup {None}]
         /\ flight' \subseteq Operation
         /\ \A op \in flight' : op.args = bound'[op.breaker]
<1> DEFINE first == IF bound[breaker] = None THEN args ELSE bound[breaker]
           new == [breaker |-> breaker, args |-> first, by |-> r, awaited |-> awaited]
<1>1. first \in Closure
  BY DEF TypeInv
<1>2. new \in Operation
  BY <1>1 DEF Operation
<1>3. bound' = [bound EXCEPT ![breaker] = first] /\ flight' = flight \cup {new}
  BY DEF Fire
<1>4. bound' \in [Breaker -> Closure \cup {None}] /\ bound'[breaker] = first
  BY <1>1, <1>3 DEF TypeInv
<1>5. ASSUME NEW op \in flight PROVE op.args = bound'[op.breaker]
  <2>1. op \in Operation /\ op.args = bound[op.breaker]
    BY DEF TypeInv
  <2>2. bound[op.breaker] # None
    BY <2>1, NullStandsApart DEF Operation, Closure
  <2> QED BY <1>3, <2>1, <2>2 DEF TypeInv, Operation
<1>6. new.args = bound'[new.breaker]
  BY <1>4
<1> QED BY <1>2, <1>3, <1>4, <1>5, <1>6 DEF TypeInv

\* The key a call reads or fills.
LEMMA ReadKeys ==
  ASSUME NEW call \in Call, Mutates(call) => call.key # NoKey
  PROVE  ReadKey(call) \in CacheKey
<1>1. CASE call \in [kind: {"one"}, gist: Gist]
  BY <1>1 DEF ReadKey, CacheKey
<1>2. CASE call \in [kind: {"nearby"}, place: Place, fixed4: BOOLEAN]
  BY <1>2 DEF ReadKey, CacheKey
<1>3. CASE call \in [kind: {"post"}, place: Place, key: IdemKey \cup {NoKey}]
  BY <1>3 DEF ReadKey, CacheKey, Mutates
<1>4. CASE call \in [kind: {"patch"}, gist: Gist, key: IdemKey \cup {NoKey}]
  BY <1>4 DEF ReadKey, CacheKey, Mutates
<1> QED BY <1>1, <1>2, <1>3, <1>4 DEF Call

LEMMA CallPlaces ==
  ASSUME NEW call \in Call
  PROVE  /\ call.kind = "post" => call.place \in Place
         /\ call.kind \in {"one", "patch"} => call.gist \in Gist
         /\ call.kind = "nearby" => call.place \in Place
         /\ call.kind \in {"one", "patch", "nearby", "post"}
         /\ Mutates(call) => Hash(call) \in Endpoint
<1>1. /\ call.kind = "post" => call.place \in Place
      /\ call.kind \in {"one", "patch"} => call.gist \in Gist
      /\ call.kind = "nearby" => call.place \in Place
      /\ call.kind \in {"one", "patch", "nearby", "post"}
  BY DEF Call
<1>2. CASE call.kind = "post"
  BY <1>1, <1>2 DEF Mutates, Hash, Endpoint
<1>3. CASE call.kind = "patch"
  BY <1>1, <1>3 DEF Mutates, Hash, Endpoint
<1> QED BY <1>1, <1>2, <1>3 DEF Mutates

LEMMA EffectTypes ==
  ASSUME TypeInv, NEW op \in flight
  PROVE  Effect(op) \in [CacheKey -> Value \cup {None}]
<1>1. /\ op.breaker \in Breaker /\ op.args.key \in CacheKey
      /\ op.args.value \in Value \cup {None}
  BY DEF TypeInv, Operation, Closure
<1> QED BY <1>1 DEF TypeInv, Effect

\* The answer of a cache call reaches at most a request that waits for a read.
LEMMA ReturnTypes ==
  ASSUME TypeInv, NEW op \in flight, NEW result \in Value \cup {None}, Return(op, result)
  PROVE  /\ req' \in [Request -> Served]
         /\ \A r \in Request : Shape(req'[r]) /\ req'[r].pc = req[r].pc
<1>1. /\ op \in Operation /\ op.by \in Request
      /\ Gets(op) => req[op.by].pc = "got"
  BY DEF TypeInv, Operation
<1>2. CASE ~Gets(op)
  BY <1>2 DEF Return, Gets, TypeInv
<1>3. CASE Gets(op)
  <2> DEFINE q == [req[op.by] EXCEPT !.res = result]
  <2>1. req' = [req EXCEPT ![op.by] = q]
    BY <1>3 DEF Return, Gets
  <2>2. req[op.by] \in Served /\ Shape(req[op.by]) /\ req[op.by].pc = "got"
    BY <1>1, <1>3 DEF TypeInv
  <2>3. q \in Served /\ Shape(q) /\ q.pc = "got"
    BY <2>2 DEF Served, Shape
  <2> HIDE DEF q
  <2> QED BY <1>1, <2>1, <2>2, <2>3 DEF TypeInv
<1> QED BY <1>2, <1>3

\* A request goes on: its record is replaced, and it waits for no read of before.
LEMMA RequestTypes ==
  ASSUME TypeInv, NEW r \in Request, NEW q \in Served, Shape(q),
         req' = [req EXCEPT ![r] = q],
         flight' \subseteq Operation,
         \A op \in flight : op.by = r => ~Gets(op),
         \A op \in flight' \ flight : op.by = r /\ (Gets(op) => q.pc = "got")
  PROVE  /\ req' \in [Request -> Served]
         /\ \A s \in Request : Shape(req'[s])
         /\ \A op \in flight' : Gets(op) => req'[op.by].pc = "got"
<1>1. req' \in [Request -> Served] /\ \A s \in Request : Shape(req'[s])
  BY DEF TypeInv
<1>2. ASSUME NEW op \in flight', Gets(op) PROVE req'[op.by].pc = "got"
  <2>1. op.by \in Request
    BY DEF Operation
  <2>2. CASE op \in flight
    BY <1>2, <2>1, <2>2 DEF TypeInv
  <2>3. CASE op \notin flight
    BY <1>2, <2>3 DEF TypeInv
  <2> QED BY <2>2, <2>3
<1> QED BY <1>1, <1>2

\* Nothing of r is awaited where it goes on.
LEMMA AtTypes ==
  ASSUME TypeInv, NEW r \in Request, NEW pc, At(r, pc)
  PROVE  /\ req[r] \in Served /\ Shape(req[r]) /\ req[r].pc = pc
         /\ \A op \in flight : op.by = r => ~Gets(op)
BY DEF TypeInv, At, Gets

\* What is fired is all that is new.
LEMMA FiredIsNew ==
  ASSUME NEW r, NEW breaker, NEW args, NEW awaited, Fire(r, breaker, args, awaited)
  PROVE  \A op \in flight' \ flight :
           op.by = r /\ op.breaker = breaker /\ op.awaited = awaited
BY DEF Fire
-----------------------------------------------------------------------------
LEMMA RedisTypes ==
  ASSUME TypeInv, NEW op \in flight, Settle(op) \/ Fail(op) \/ Timeout(op)
  PROVE  TypeInv'
<1> DEFINE left == [op EXCEPT !.awaited = FALSE]
<1>1. /\ op \in Operation /\ Effect(op) \in [CacheKey -> Value \cup {None}]
      /\ store[op.args.key] \in Value \cup {None} /\ op.args = bound[op.breaker]
  BY EffectTypes DEF TypeInv, Operation, Closure
<1>2. /\ left \in Operation /\ left.args = bound[left.breaker] /\ ~Gets(left)
  BY <1>1 DEF Operation, Gets
<1>3. /\ flight' \subseteq flight \cup {left} /\ UNCHANGED <<bound, version, changes>>
      /\ store' \in {store, Effect(op)}
      /\ Return(op, store[op.args.key]) \/ Return(op, None)
  BY DEF Settle, Fail, Timeout
<1>4. /\ req' \in [Request -> Served]
      /\ \A r \in Request : Shape(req'[r]) /\ req'[r].pc = req[r].pc
  BY <1>1, <1>3, ReturnTypes
<1> HIDE DEF left
<1>5. \A o \in flight' : /\ o \in Operation /\ o.args = bound'[o.breaker]
                         /\ Gets(o) => req'[o.by].pc = "got"
  <2>1. \A o \in flight : o \in Operation /\ o.args = bound[o.breaker]
                          /\ (Gets(o) => req[o.by].pc = "got")
    BY DEF TypeInv
  <2>2. \A o \in Operation : o.by \in Request
    BY DEF Operation
  <2> QED BY <1>2, <1>3, <1>4, <2>1, <2>2
<1> QED BY <1>1, <1>3, <1>4, <1>5 DEF TypeInv

LEMMA ExpiryTypes == ASSUME TypeInv, NEW k \in CacheKey, Expire(k) PROVE TypeInv'
BY DEF TypeInv, Expire

LEMMA StartTypes ==
  ASSUME TypeInv, NEW r \in Request, NEW call \in Call, Start(r, call)
  PROVE  TypeInv'
<1> DEFINE pc == IF LooksUp(call) THEN "got" ELSE "run"
           q == [Idle EXCEPT !.call = call, !.pc = pc]
<1>1. req' = [req EXCEPT ![r] = q]
  BY DEF Start
<1>2. q \in Served /\ Shape(q) /\ q.pc = pc
  <2>1. pc \in {"got", "run"} /\ (pc = "got" => LooksUp(call))
    OBVIOUS
  <2> HIDE DEF pc
  <2>2. Idle \in Served /\ Idle.ran = 0 /\ Idle.status = None
    BY DEF Idle, Served, Pc
  <2>3. /\ q \in Served /\ q.call = call /\ q.pc = pc
        /\ q.ran = 0 /\ q.status = None
    BY <2>1, <2>2 DEF Served, Pc
  <2> HIDE DEF q
  <2> QED BY <2>1, <2>3 DEF Shape
<1>3. \A op \in flight : op.by = r => ~Gets(op)
  BY DEF TypeInv, Start, Idle
<1> HIDE DEF q
<1>4. CASE LooksUp(call)
  <2>1. ReadKey(call) \in CacheKey
    BY <1>4, ReadKeys DEF LooksUp
  <2>2. Fire(r, "cache.get", Args(ReadKey(call), None), TRUE)
    BY <1>4 DEF Start
  <2>3. Args(ReadKey(call), None) \in Closure /\ "cache.get" \in Breaker
    BY <2>1 DEF Args, Closure, Breaker
  <2>4. /\ bound' \in [Breaker -> Closure \cup {None}] /\ flight' \subseteq Operation
        /\ \A op \in flight' : op.args = bound'[op.breaker]
    BY <2>2, <2>3, FireTypes
  <2>5. \A op \in flight' \ flight : op.by = r
    BY <2>2, FiredIsNew
  <2>6. q.pc = "got"
    BY <1>2, <1>4
  <2> QED BY <1>1, <1>2, <1>3, <2>4, <2>5, <2>6, RequestTypes DEF TypeInv, Start
<1>5. CASE ~LooksUp(call)
  <2>1. UNCHANGED <<bound, flight>>
    BY <1>5 DEF Start, NoFire
  <2> QED BY <1>1, <1>2, <1>3, <2>1, RequestTypes DEF TypeInv, Start
<1> QED BY <1>4, <1>5

\* A step that fires nothing and leaves the cache alone.
LEMMA QuietTypes ==
  ASSUME TypeInv, NEW r \in Request, NEW pc, At(r, pc), NEW q \in Served, Shape(q),
         req' = [req EXCEPT ![r] = q], NoFire, UNCHANGED store,
         version' \in [Gist -> Nat], changes' \in [Place -> Nat]
  PROVE  TypeInv'
<1>1. UNCHANGED <<bound, flight>>
  BY DEF NoFire
<1>2. \A op \in flight : op.by = r => ~Gets(op)
  BY AtTypes
<1> QED BY <1>1, <1>2, RequestTypes DEF TypeInv

\* A step that fires a write.
LEMMA WriteTypes ==
  ASSUME TypeInv, NEW r \in Request, NEW pc, At(r, pc), NEW q \in Served, Shape(q),
         req' = [req EXCEPT ![r] = q], UNCHANGED <<store, version, changes>>,
         NEW breaker \in Breaker \ {"cache.get"}, NEW args \in Closure,
         NEW awaited \in BOOLEAN, Fire(r, breaker, args, awaited)
  PROVE  TypeInv'
<1>1. /\ bound' \in [Breaker -> Closure \cup {None}] /\ flight' \subseteq Operation
      /\ \A op \in flight' : op.args = bound'[op.breaker]
  BY FireTypes
<1>2. \A op \in flight : op.by = r => ~Gets(op)
  BY AtTypes
<1>3. \A op \in flight' \ flight : op.by = r /\ ~Gets(op)
  BY FiredIsNew DEF Gets
<1> QED BY <1>1, <1>2, <1>3, RequestTypes DEF TypeInv

\* An answer is the last thing a request gets.
LEMMA AnswerTypes ==
  ASSUME TypeInv, NEW r \in Request, req[r].pc # "idle",
         NEW status \in Status, NEW value \in Value \cup {None}
  PROVE  /\ Answered(req[r], status, value) \in Served
         /\ Shape(Answered(req[r], status, value))
<1>1. req[r] \in Served /\ req[r].call \in Call
  BY DEF TypeInv, Shape
<1> QED BY <1>1 DEF Answered, Served, Shape, Pc

LEMMA ResumeTypes == ASSUME TypeInv, NEW r \in Request, ResumeGet(r) PROVE TypeInv'
<1> DEFINE q == req[r]
<1>1. /\ At(r, "got") /\ NoFire /\ UNCHANGED <<store, version, changes>>
      /\ version' \in [Gist -> Nat] /\ changes' \in [Place -> Nat]
  BY DEF ResumeGet, TypeInv
<1>2. /\ q \in Served /\ q.call \in Call /\ q.pc = "got" /\ q.ran = 0 /\ q.status = None
      /\ q.res \in Value \cup {None}
  BY <1>1, AtTypes DEF Shape, Served
<1>3. CASE Goto(r, "run")
  <2> DEFINE p == [q EXCEPT !.pc = "run"]
  <2>1. p \in Served /\ p.call \in Call /\ p.pc = "run" /\ p.ran = 0 /\ p.status = None
    BY <1>2 DEF Served, Pc
  <2>2. req' = [req EXCEPT ![r] = p]
    BY <1>3 DEF Goto
  <2> HIDE DEF p
  <2>3. Shape(p)
    BY <2>1 DEF Shape
  <2> QED BY <1>1, <2>1, <2>2, <2>3, QuietTypes
<1>4. ASSUME NEW status \in {"200", "422"}, NEW value \in Value \cup {None},
             Answer(r, status, value)
      PROVE  TypeInv'
  <2>1. status \in Status /\ req[r].pc # "idle"
    BY <1>2 DEF Status
  <2>2. req' = [req EXCEPT ![r] = Answered(q, status, value)]
    BY <1>4 DEF Answer
  <2> QED BY <1>1, <2>1, <2>2, AnswerTypes, QuietTypes
<1>5. CASE req' = [req EXCEPT ![r].pc = AfterReplay, ![r].status = "replayed"]
  <2> DEFINE p == [q EXCEPT !.pc = AfterReplay, !.status = "replayed"]
  <2>1. p \in Served /\ p.call \in Call /\ p.pc = "done"
    BY <1>2 DEF Served, Pc, AfterReplay, Status
  <2>2. req' = [req EXCEPT ![r] = p]
    BY <1>5
  <2> HIDE DEF p
  <2>3. Shape(p)
    BY <2>1 DEF Shape
  <2> QED BY <1>1, <2>1, <2>2, <2>3, QuietTypes
<1>6. \/ Goto(r, "run") \/ Answer(r, "200", q.res) \/ Answer(r, "422", None)
      \/ req' = [req EXCEPT ![r].pc = AfterReplay, ![r].status = "replayed"]
  BY DEF ResumeGet
<1> QED BY <1>2, <1>3, <1>4, <1>5, <1>6

LEMMA ReadTypes == ASSUME TypeInv, NEW r \in Request, Read(r) PROVE TypeInv'
<1> DEFINE q == req[r]
<1>1. /\ At(r, "run") /\ NoFire /\ UNCHANGED <<store, version, changes>>
      /\ version' \in [Gist -> Nat] /\ changes' \in [Place -> Nat]
  BY DEF Read, TypeInv
<1>2. q \in Served /\ q.call \in Call /\ q.pc = "run"
  BY <1>1, AtTypes DEF Shape
<1>3. ASSUME NEW v \in Value, q.call.kind \in {"one", "nearby"},
             req' = [req EXCEPT ![r].pc = "fill", ![r].res = v]
      PROVE  TypeInv'
  <2> DEFINE p == [q EXCEPT !.pc = "fill", !.res = v]
  <2>1. p \in Served /\ p.call = q.call /\ p.pc = "fill" /\ p.res = v
    BY <1>2 DEF Served, Pc
  <2>2. req' = [req EXCEPT ![r] = p]
    BY <1>3
  <2> HIDE DEF p
  <2>3. Shape(p)
    BY <1>2, <1>3, <2>1 DEF Shape
  <2> QED BY <1>1, <2>1, <2>2, <2>3, QuietTypes
<1>4. CASE Answer(r, "200", None)
  <2>1. "200" \in Status /\ req[r].pc # "idle"
    BY <1>2 DEF Status
  <2>2. req' = [req EXCEPT ![r] = Answered(q, "200", None)]
    BY <1>4 DEF Answer
  <2> QED BY <1>1, <2>1, <2>2, AnswerTypes, QuietTypes
<1>5. CASE q.call.kind = "one"
  <2>1. q.call.gist \in Gist
    BY <1>2, <1>5, CallPlaces
  <2>2. [kind |-> "gist", gist |-> q.call.gist, version |-> version[q.call.gist]] \in Value
    BY <2>1 DEF TypeInv, Value
  <2> QED BY <1>3, <1>4, <1>5, <2>2 DEF Read
<1>6. CASE q.call.kind = "nearby"
  <2>1. q.call.place \in Place
    BY <1>2, <1>6, CallPlaces
  <2>2. [kind |-> "page", place |-> q.call.place, changes |-> changes[q.call.place]] \in Value
    BY <2>1 DEF TypeInv, Value
  <2> QED BY <1>3, <1>6, <2>2 DEF Read
<1> QED BY <1>5, <1>6 DEF Read

LEMMA FillTypes == ASSUME TypeInv, NEW r \in Request, Fill(r) PROVE TypeInv'
<1> DEFINE q == req[r]
           p == [Answered(q, "200", q.res) EXCEPT !.pc = "filled"]
<1>1. /\ At(r, "fill") /\ UNCHANGED <<store, version, changes>>
      /\ req' = [req EXCEPT ![r] = p]
      /\ Fire(r, "cache.set", Args(ReadKey(q.call), q.res), TRUE)
  BY DEF Fill
<1>2. /\ q \in Served /\ q.call \in Call /\ q.call.kind \in {"one", "nearby"}
      /\ q.res \in Value
  BY <1>1, AtTypes DEF Shape
<1>3. p \in Served /\ p.call = q.call /\ p.pc = "filled" /\ p.res = q.res
  BY <1>2 DEF Answered, Served, Pc, Status
<1>4. Args(ReadKey(q.call), q.res) \in Closure
  BY <1>2, ReadKeys DEF Args, Closure, Mutates
<1>5. "cache.set" \in Breaker \ {"cache.get"}
  BY DEF Breaker
<1> HIDE DEF p
<1>6. Shape(p)
  BY <1>2, <1>3 DEF Shape
<1> QED BY <1>1, <1>3, <1>4, <1>5, <1>6, WriteTypes

LEMMA PatchTypes == ASSUME TypeInv, NEW r \in Request, Patch(r) PROVE TypeInv'
<1> DEFINE q == req[r]
<1>1. /\ At(r, "run") /\ NoFire /\ UNCHANGED store /\ q.call.kind = "patch"
  BY DEF Patch
<1>2. q \in Served /\ q.call \in Call /\ q.call.gist \in Gist /\ q.ran = 0 /\ q.status = None
  BY <1>1, AtTypes, CallPlaces DEF Shape
<1> DEFINE p == [q EXCEPT !.pc = "drop", !.ran = 1, !.status = "200"]
<1>3. /\ p \in Served /\ p.call = q.call /\ p.pc = "drop" /\ p.status = "200"
      /\ req' = [req EXCEPT ![r] = p]
  <2>1. p \in Served /\ p.call = q.call /\ p.pc = "drop" /\ p.status = "200"
    <3>1. "drop" \in Pc /\ "200" \in Status /\ 1 \in 0..1
      BY DEF Pc, Status
    <3> HIDE DEF q
    <3> QED BY <1>2, <3>1 DEF Served
  <2>2. req' = [req EXCEPT ![r] = [q EXCEPT !.pc = "drop", !.ran = q.ran + 1,
                  !.status = IF q.status = None THEN "200" ELSE q.status]]
    BY DEF Patch
  <2>3. q.ran + 1 = 1 /\ (IF q.status = None THEN "200" ELSE q.status) = "200"
    BY <1>2
  <2> QED BY <2>1, <2>2, <2>3
<1>4. version' \in [Gist -> Nat] /\ changes' \in [Place -> Nat]
  <2>1. /\ version' = [version EXCEPT ![q.call.gist] = @ + 1]
        /\ changes' = [changes EXCEPT ![PlaceOf[q.call.gist]] = @ + 1]
    BY DEF Patch
  <2>2. PlaceOf[q.call.gist] \in Place
    BY <1>2, CachedApiConstants
  <2>3. version \in [Gist -> Nat] /\ changes \in [Place -> Nat]
    BY DEF TypeInv
  <2> QED BY <1>2, <2>1, <2>2, <2>3
<1> HIDE DEF p
<1>5. Shape(p)
  BY <1>1, <1>2, <1>3 DEF Shape
<1> QED BY <1>1, <1>3, <1>4, <1>5, QuietTypes

LEMMA PostTypes == ASSUME TypeInv, NEW r \in Request, Post(r) PROVE TypeInv'
<1> DEFINE q == req[r]
           p == [q EXCEPT !.pc = "clear", !.ran = 1, !.status = "201"]
<1>1. /\ At(r, "run") /\ NoFire /\ UNCHANGED <<store, version>> /\ q.call.kind = "post"
      /\ changes' = [changes EXCEPT ![q.call.place] = @ + 1]
  BY DEF Post
<1>2. /\ q \in Served /\ q.call \in Call /\ q.ran = 0 /\ q.status = None
      /\ q.call.place \in Place
  BY <1>1, AtTypes, CallPlaces DEF Shape
<1>3. /\ p \in Served /\ p.call = q.call /\ p.pc = "clear" /\ p.status = "201"
      /\ req' = [req EXCEPT ![r] = p]
  <2>1. p \in Served /\ p.call = q.call /\ p.pc = "clear" /\ p.status = "201"
    <3>1. "clear" \in Pc /\ "201" \in Status /\ 1 \in 0..1
      BY DEF Pc, Status
    <3> HIDE DEF q
    <3> QED BY <1>2, <3>1 DEF Served
  <2>2. req' = [req EXCEPT ![r] = [q EXCEPT !.pc = "clear", !.ran = q.ran + 1,
                  !.status = IF q.status = None THEN "201" ELSE q.status]]
    BY DEF Post
  <2>3. q.ran + 1 = 1 /\ (IF q.status = None THEN "201" ELSE q.status) = "201"
    BY <1>2
  <2> QED BY <2>1, <2>2, <2>3
<1> HIDE DEF p
<1>4. Shape(p)
  BY <1>1, <1>2, <1>3 DEF Shape
<1>5. version' \in [Gist -> Nat] /\ changes' \in [Place -> Nat]
  BY <1>1, <1>2 DEF TypeInv
<1> QED BY <1>1, <1>3, <1>4, <1>5, QuietTypes

\* Drop and Clear wait for an invalidation; what they need of a request is the same.
LEMMA InvalidationTypes ==
  ASSUME TypeInv, NEW r \in Request, Drop(r) \/ Clear(r)
  PROVE  TypeInv'
<1> DEFINE q == req[r]
<1>1. UNCHANGED <<store, version, changes>>
  BY DEF Drop, Clear
<1>2. ASSUME NEW pc \in {"drop", "clear"}, At(r, pc), NEW next \in {"clear", "respond"},
             Goto(r, next)
      PROVE  /\ [q EXCEPT !.pc = next] \in Served /\ Shape([q EXCEPT !.pc = next])
             /\ req' = [req EXCEPT ![r] = [q EXCEPT !.pc = next]]
             /\ q.call \in Call /\ q.call.kind \in {"post", "patch"}
  <2> DEFINE p == [q EXCEPT !.pc = next]
  <2>1. /\ q \in Served /\ q.call \in Call /\ q.call.kind \in {"post", "patch"}
        /\ q.status \in {"200", "201"}
    BY <1>2, AtTypes DEF Shape
  <2>2. p \in Served /\ p.call = q.call /\ p.pc = next /\ p.status = q.status
    BY <2>1 DEF Served, Pc
  <2>3. req' = [req EXCEPT ![r] = p]
    BY <1>2 DEF Goto
  <2> HIDE DEF p
  <2>4. Shape(p)
    BY <2>1, <2>2 DEF Shape
  <2> QED BY <2>1, <2>2, <2>3, <2>4 DEF p
<1>3. CASE Drop(r)
  <2> DEFINE p == [q EXCEPT !.pc = "clear"]
             args == Args(<<"one", q.call.gist>>, None)
  <2>1. At(r, "drop") /\ Goto(r, "clear") /\ Fire(r, "cache.del", args, TRUE)
    BY <1>3 DEF Drop
  <2>2. p \in Served /\ Shape(p) /\ req' = [req EXCEPT ![r] = p] /\ q.call \in Call
    BY <2>1, <1>2
  <2>3. q.call.gist \in Gist
    BY <2>1, <2>2, AtTypes, CallPlaces DEF Shape
  <2>4. args \in Closure
    BY <2>3 DEF Args, Closure, CacheKey
  <2>5. "cache.del" \in Breaker \ {"cache.get"}
    BY DEF Breaker
  <2> HIDE DEF p, args
  <2> QED BY <1>1, <2>1, <2>2, <2>4, <2>5, WriteTypes
<1>4. CASE Clear(r)
  <2> DEFINE p == [q EXCEPT !.pc = "respond"]
             place == IF q.call.kind = "post" THEN q.call.place ELSE PlaceOf[q.call.gist]
             args == Args(<<"nearby", place, TRUE>>, None)
  <2>1. At(r, "clear") /\ Goto(r, "respond") /\ Fire(r, "cache.delPattern", args, TRUE)
    BY <1>4 DEF Clear
  <2>2. /\ p \in Served /\ Shape(p) /\ req' = [req EXCEPT ![r] = p]
        /\ q.call \in Call /\ q.call.kind \in {"post", "patch"}
    BY <2>1, <1>2
  <2>3. place \in Place
    BY <2>2, CallPlaces, CachedApiConstants
  <2> HIDE DEF place
  <2>4. args \in Closure
    BY <2>3 DEF Args, Closure, CacheKey
  <2>5. "cache.delPattern" \in Breaker \ {"cache.get"}
    BY DEF Breaker
  <2> HIDE DEF p, args
  <2> QED BY <1>1, <2>1, <2>2, <2>4, <2>5, WriteTypes
<1> QED BY <1>3, <1>4

\* The middleware's res.json: the answer, and for a call with a key its entry.
LEMMA RespondTypes ==
  ASSUME TypeInv, NEW r \in Request, NEW pc, pc # "idle", At(r, pc), NEW status \in Status,
         Respond(r, status), UNCHANGED <<store, version, changes>>
  PROVE  TypeInv'
<1> DEFINE q == req[r]
           p == Answered(q, status, None)
<1>1. q.call \in Call /\ q.pc # "idle" /\ req' = [req EXCEPT ![r] = p]
  BY AtTypes DEF Shape, Respond, Answer
<1>2. p \in Served /\ Shape(p)
  BY <1>1, AnswerTypes
<1> HIDE DEF p
<1>3. CASE Mutates(q.call) /\ q.call.key # NoKey
  <2> DEFINE args == Args(ReadKey(q.call), Entry(r, status))
  <2>1. Fire(r, "cache.set", args, FALSE)
    BY <1>3 DEF Respond
  <2>2. Entry(r, status) \in Value
    <3>1. Hash(q.call) \in Endpoint
      BY <1>1, <1>3, CallPlaces
    <3> QED BY <3>1 DEF Entry, Value
  <2>3. args \in Closure
    BY <1>1, <1>3, <2>2, ReadKeys DEF Args, Closure
  <2>4. "cache.set" \in Breaker \ {"cache.get"}
    BY DEF Breaker
  <2> HIDE DEF args
  <2> QED BY <1>1, <1>2, <2>1, <2>3, <2>4, WriteTypes
<1>4. CASE ~(Mutates(q.call) /\ q.call.key # NoKey)
  <2>1. NoFire
    BY <1>4 DEF Respond
  <2>2. version' \in [Gist -> Nat] /\ changes' \in [Place -> Nat]
    BY DEF TypeInv
  <2> QED BY <1>1, <1>2, <2>1, <2>2, QuietTypes
<1> QED BY <1>3, <1>4

LEMMA EndTypes ==
  ASSUME TypeInv, NEW r \in Request, Throws(r) \/ Finish(r)
  PROVE  TypeInv'
<1> DEFINE q == req[r]
<1>1. UNCHANGED <<store, version, changes>>
  BY DEF Throws, Finish
<1>2. CASE Throws(r)
  <2>1. "error" \in Status
    BY DEF Status
  <2> QED BY <1>1, <1>2, <2>1, RespondTypes DEF Throws
<1>3. CASE At(r, "respond") /\ Respond(r, q.status)
  <2>1. q.status \in Status
    BY <1>3, AtTypes DEF Shape, Status
  <2> QED BY <1>1, <1>3, <2>1, RespondTypes
<1>4. CASE At(r, "filled") /\ Goto(r, "done") /\ NoFire
  <2> DEFINE p == [q EXCEPT !.pc = "done"]
  <2>1. q \in Served /\ q.call \in Call
    BY <1>4, AtTypes DEF Shape
  <2>2. p \in Served /\ p.call = q.call /\ p.pc = "done"
    BY <2>1 DEF Served, Pc
  <2>3. req' = [req EXCEPT ![r] = p]
    BY <1>4 DEF Goto
  <2> HIDE DEF p
  <2>4. Shape(p)
    BY <2>1, <2>2 DEF Shape
  <2>5. version' \in [Gist -> Nat] /\ changes' \in [Place -> Nat]
    BY <1>1 DEF TypeInv
  <2> QED BY <1>1, <1>4, <2>2, <2>3, <2>4, <2>5, QuietTypes
<1> QED BY <1>2, <1>3, <1>4 DEF Finish

LEMMA StepTypeInv == TypeInv /\ [Next]_vars => TypeInv'
<1> SUFFICES ASSUME TypeInv, [Next]_vars PROVE TypeInv'
  OBVIOUS
<1>1. CASE UNCHANGED vars
  BY <1>1 DEF vars, TypeInv
<1>2. ASSUME NEW r \in Request, NEW call \in Call, Start(r, call) PROVE TypeInv'
  BY <1>2, StartTypes
<1>3. ASSUME NEW r \in Request, Step(r) PROVE TypeInv'
  BY <1>3, ResumeTypes, ReadTypes, FillTypes, PatchTypes, PostTypes, InvalidationTypes,
     EndTypes DEF Step
<1>4. ASSUME NEW op \in flight, Settle(op) \/ Fail(op) \/ Timeout(op) PROVE TypeInv'
  BY <1>4, RedisTypes
<1>5. ASSUME NEW k \in CacheKey, Expire(k) PROVE TypeInv'
  BY <1>5, ExpiryTypes
<1> QED BY <1>1, <1>2, <1>3, <1>4, <1>5 DEF Next

\* Requests, operations, closures and entries keep their types.
THEOREM CacheTypeCorrect == Spec => []TypeOK
<1>1. TypeInv => TypeOK
  <2> SUFFICES ASSUME TypeInv PROVE TypeOK
    OBVIOUS
  <2>1. \A b \in Breaker : bound[b] # None =>
          bound[b].key \in CacheKey /\ bound[b].value \in Value \cup {None}
    BY DEF TypeInv, Closure
  <2>2. \A op \in flight : op.breaker \in Breaker /\ op.args = bound[op.breaker]
    BY DEF TypeInv, Operation
  <2>3. \A r \in Request : /\ req[r].status \in Status \cup {None}
                           /\ req[r].res \in Value \cup {None}
                           /\ req[r].ran \in 0..1
    BY DEF TypeInv, Served
  <2> QED BY <2>1, <2>2, <2>3 DEF TypeInv, TypeOK
<1> QED BY InitTypeInv, StepTypeInv, <1>1, PTL DEF Spec
-----------------------------------------------------------------------------
\* A value is so in a table and its requests: a row or page no younger than the
\* table's, an entry that is the answer its request was given.
IsSo(v, ver, chg, rq) ==
  /\ v.kind = "gist" => v.version \in 1..ver[v.gist]
  /\ v.kind = "page" => v.changes <= chg[v.place]
  /\ v.kind = "entry" => /\ rq[v.of].pc = "done" /\ rq[v.of].status = v.status
                         /\ Hash(rq[v.of].call) = v.hash
Sound(v, ver, chg, rq) == v = None \/ IsSo(v, ver, chg, rq)

StoreIsSound == \A k \in CacheKey : Sound(store[k], version, changes, req)
ClosuresAreSound ==
  \A b \in Breaker : bound[b] # None => Sound(bound[b].value, version, changes, req)
ResultsAreSound == \A r \in Request : Sound(req[r].res, version, changes, req)
ReplaysAreSound ==
  \A r \in Request : req[r].status = "replayed" =>
    /\ req[r].pc = "done" /\ req[r].ran = 0 /\ req[r].res.kind = "entry"
    /\ req[r].res \in Value /\ IsSo(req[r].res, version, changes, req)
    /\ req[r].res.hash = Hash(req[r].call)

CacheInv ==
  TypeInv /\ StoreIsSound /\ ClosuresAreSound /\ ResultsAreSound /\ ReplaysAreSound

LEMMA InitCacheInv == Init => CacheInv
<1> SUFFICES ASSUME Init PROVE CacheInv
  OBVIOUS
<1>1. \A r \in Request : req[r].res = None /\ req[r].pc = "idle" /\ req[r].status = None
  BY DEF Init, Idle
<1>2. None # "replayed"
  BY NullStandsApart DEF Status
<1> QED BY InitTypeInv, <1>1, <1>2 DEF Init, CacheInv, StoreIsSound, ClosuresAreSound,
        ResultsAreSound, ReplaysAreSound, Sound

\* Tables only grow, and what is done stays as it is.
LEMMA TablesGrow ==
  ASSUME TypeInv, [Next]_vars
  PROVE  /\ \A g \in Gist : version[g] <= version'[g]
         /\ \A p \in Place : changes[p] <= changes'[p]
<1>1. /\ version \in [Gist -> Nat] /\ changes \in [Place -> Nat]
      /\ \A g \in Gist : version[g] \in Nat
      /\ \A p \in Place : changes[p] \in Nat
  BY DEF TypeInv
<1>2. CASE UNCHANGED <<version, changes>>
  BY <1>1, <1>2
<1>3. ASSUME NEW r \in Request, Patch(r) \/ Post(r)
      PROVE  /\ \A g \in Gist : version[g] <= version'[g]
             /\ \A p \in Place : changes[p] <= changes'[p]
  <2>1. CASE Patch(r)
    BY <1>1, <2>1 DEF Patch
  <2>2. CASE Post(r)
    BY <1>1, <2>2 DEF Post
  <2> QED BY <1>3, <2>1, <2>2
<1>4. ASSUME NEW r \in Request, Step(r) PROVE Patch(r) \/ Post(r) \/ UNCHANGED <<version, changes>>
  BY <1>4 DEF Step, ResumeGet, Read, Fill, Drop, Throws, Clear, Finish
<1>5. \/ \E r \in Request : Step(r)
      \/ UNCHANGED <<version, changes>>
  BY DEF Next, vars, Start, Settle, Fail, Timeout, Expire
<1> QED BY <1>2, <1>3, <1>4, <1>5

LEMMA DoneStays ==
  ASSUME TypeInv, [Next]_vars, NEW s \in Request, req[s].pc = "done"
  PROVE  req'[s] = req[s]
<1>1. req \in [Request -> Served]
  BY DEF TypeInv
<1>2. ASSUME NEW op \in flight, NEW result, Return(op, result) PROVE req'[s] = req[s]
  <2>1. op.by \in Request /\ (Gets(op) => req[op.by].pc = "got")
    BY DEF TypeInv, Operation
  <2> QED BY <1>1, <1>2, <2>1 DEF Return, Gets
<1>3. ASSUME NEW op \in flight, Settle(op) \/ Fail(op) \/ Timeout(op)
      PROVE  req'[s] = req[s]
  BY <1>2, <1>3 DEF Settle, Fail, Timeout
<1>4. ASSUME NEW r \in Request, NEW call \in Call, Start(r, call) PROVE req'[s] = req[s]
  <2>1. r # s
    BY <1>4 DEF Start, Idle
  <2> QED BY <1>1, <1>4, <2>1 DEF Start
<1>5. ASSUME NEW r \in Request, Step(r) PROVE req'[s] = req[s]
  <2>1. r # s
    BY <1>5 DEF Step, ResumeGet, Read, Fill, Patch, Drop, Post, Throws, Clear, Finish, At
  <2> QED BY <1>1, <1>5, <2>1 DEF Step, ResumeGet, Read, Fill, Patch, Drop, Post, Throws,
        Clear, Finish, Respond, Answer, Goto
<1>6. CASE UNCHANGED req
  BY <1>6
<1> QED BY <1>3, <1>4, <1>5, <1>6 DEF Next, vars, Expire

\* What was so stays so.
LEMMA SoStays ==
  ASSUME TypeInv, [Next]_vars, NEW v \in Value, IsSo(v, version, changes, req)
  PROVE  IsSo(v, version', changes', req')
<1>1. CASE v \in [kind: {"gist"}, gist: Gist, version: Nat]
  <2>1. version[v.gist] \in Nat /\ version'[v.gist] \in Nat
        /\ version[v.gist] <= version'[v.gist]
    BY <1>1, TablesGrow, StepTypeInv DEF TypeInv
  <2> QED BY <1>1, <2>1 DEF IsSo
<1>2. CASE v \in [kind: {"page"}, place: Place, changes: Nat]
  <2>1. changes[v.place] \in Nat /\ changes'[v.place] \in Nat
        /\ changes[v.place] <= changes'[v.place]
    BY <1>2, TablesGrow, StepTypeInv DEF TypeInv
  <2> QED BY <1>2, <2>1 DEF IsSo
<1>3. CASE v \in [kind: {"entry"}, hash: Endpoint, status: Status, of: Request]
  <2>1. req[v.of].pc = "done" /\ v.of \in Request
    BY <1>3 DEF IsSo
  <2>2. req'[v.of] = req[v.of]
    BY <2>1, DoneStays
  <2> QED BY <1>3, <2>2 DEF IsSo
<1> QED BY <1>1, <1>2, <1>3 DEF Value

LEMMA SoundStays ==
  ASSUME TypeInv, [Next]_vars, NEW v \in Value \cup {None}, Sound(v, version, changes, req)
  PROVE  Sound(v, version', changes', req')
<1>1. CASE v = None
  BY <1>1 DEF Sound
<1>2. CASE v # None
  <2>1. v \in Value /\ IsSo(v, version, changes, req)
    BY <1>2 DEF Sound
  <2> QED BY <2>1, SoStays DEF Sound
<1> QED BY <1>1, <1>2

\* Whatever a call was built with, is stored or was returned is still so.
LEMMA KnownStaysSound ==
  ASSUME CacheInv, [Next]_vars
  PROVE  /\ \A k \in CacheKey : Sound(store[k], version', changes', req')
         /\ \A b \in Breaker : bound[b] # None =>
              Sound(bound[b].value, version', changes', req')
         /\ \A r \in Request : Sound(req[r].res, version', changes', req')
<1>1. ASSUME NEW k \in CacheKey PROVE Sound(store[k], version', changes', req')
  BY SoundStays DEF CacheInv, TypeInv, StoreIsSound
<1>2. ASSUME NEW b \in Breaker, bound[b] # None
      PROVE  Sound(bound[b].value, version', changes', req')
  <2>1. bound[b].value \in Value \cup {None}
    BY <1>2 DEF CacheInv, TypeInv, Closure
  <2> QED BY <1>2, <2>1, SoundStays DEF CacheInv, ClosuresAreSound
<1>3. ASSUME NEW r \in Request PROVE Sound(req[r].res, version', changes', req')
  <2>1. req[r].res \in Value \cup {None}
    BY DEF CacheInv, TypeInv, Served
  <2> QED BY <2>1, SoundStays DEF CacheInv, ResultsAreSound
<1> QED BY <1>1, <1>2, <1>3

LEMMA StepStore == CacheInv /\ [Next]_vars => StoreIsSound'
<1> SUFFICES ASSUME CacheInv, [Next]_vars, NEW k \in CacheKey
             PROVE  Sound(store'[k], version', changes', req')
  BY DEF StoreIsSound
<1>1. Sound(store[k], version', changes', req') /\ Sound(None, version', changes', req')
  BY KnownStaysSound DEF Sound
<1>2. CASE store'[k] = store[k] \/ store'[k] = None
  BY <1>1, <1>2
<1>3. ASSUME NEW op \in flight, Settle(op) \/ Fail(op)
      PROVE  Sound(store'[k], version', changes', req')
  <2>1. /\ op \in Operation /\ op.args = bound[op.breaker] /\ op.breaker \in Breaker
        /\ store \in [CacheKey -> Value \cup {None}]
    BY DEF CacheInv, TypeInv, Operation
  <2>2. bound[op.breaker] # None
    BY <2>1, NullStandsApart DEF Operation, Closure
  <2>3. Sound(op.args.value, version', changes', req')
    BY <2>1, <2>2, KnownStaysSound
  <2>4. store' \in {store, Effect(op)}
    BY <1>3 DEF Settle, Fail
  <2>5. store'[k] \in {store[k], op.args.value, None}
    BY <2>1, <2>4 DEF Effect
  <2> QED BY <1>1, <2>3, <2>5
<1>4. \/ \E op \in flight : Settle(op) \/ Fail(op)
      \/ store'[k] = store[k] \/ store'[k] = None
  <2>1. ASSUME NEW x \in CacheKey, Expire(x) PROVE store'[k] = store[k] \/ store'[k] = None
    BY <2>1 DEF Expire, CacheInv, TypeInv
  <2>2. ASSUME NEW r \in Request, Step(r) PROVE store' = store
    BY <2>2 DEF Step, ResumeGet, Read, Fill, Patch, Drop, Post, Throws, Clear, Finish
  <2> QED BY <2>1, <2>2 DEF Next, vars, Start, Timeout
<1> QED BY <1>2, <1>3, <1>4

\* The closures stay sound if what is fired is.
LEMMA FireSound ==
  ASSUME CacheInv, [Next]_vars, NEW r, NEW breaker \in Breaker, NEW args, NEW awaited,
         Fire(r, breaker, args, awaited), Sound(args.value, version', changes', req')
  PROVE  ClosuresAreSound'
<1> SUFFICES ASSUME NEW b \in Breaker, bound'[b] # None
             PROVE  Sound(bound'[b].value, version', changes', req')
  BY DEF ClosuresAreSound
<1>1. bound'[b] = args \/ bound'[b] = bound[b]
  BY DEF Fire, CacheInv, TypeInv
<1> QED BY <1>1, KnownStaysSound

\* The entry the middleware hands to the cache is the answer that goes out.
LEMMA EntryIsSound ==
  ASSUME CacheInv, [Next]_vars, NEW r \in Request, NEW status, Respond(r, status)
  PROVE  Sound(Entry(r, status), version', changes', req')
<1>1. req \in [Request -> Served]
  BY DEF CacheInv, TypeInv
<1>2. req' = [req EXCEPT ![r] = Answered(req[r], status, None)]
  BY DEF Respond, Answer
<1>3. req'[r] = Answered(req[r], status, None)
  BY <1>1, <1>2
<1>4. req'[r].pc = "done" /\ req'[r].status = status /\ req'[r].call = req[r].call
  BY <1>1, <1>3 DEF Answered, Served
<1>5. /\ Entry(r, status).kind = "entry" /\ Entry(r, status).of = r
      /\ Entry(r, status).status = status /\ Entry(r, status).hash = Hash(req[r].call)
  BY DEF Entry
<1> QED BY <1>4, <1>5 DEF Sound, IsSo

LEMMA StepClosures == CacheInv /\ [Next]_vars => ClosuresAreSound'
<1> SUFFICES ASSUME CacheInv, [Next]_vars PROVE ClosuresAreSound'
  OBVIOUS
<1>1. CASE UNCHANGED bound
  BY <1>1, KnownStaysSound DEF ClosuresAreSound
<1>2. /\ Breaker = {"cache.get", "cache.set", "cache.del", "cache.delPattern"}
      /\ \A key, value : Args(key, value).value = value
      /\ Sound(None, version', changes', req')
  BY DEF Breaker, Args, Sound
<1>3. ASSUME NEW r \in Request, NEW call \in Call, Start(r, call), ~UNCHANGED bound
      PROVE  ClosuresAreSound'
  <2>1. Fire(r, "cache.get", Args(ReadKey(call), None), TRUE)
    BY <1>3 DEF Start, NoFire
  <2> QED BY <1>2, <2>1, FireSound
<1>4. ASSUME NEW r \in Request, Fill(r) PROVE ClosuresAreSound'
  <2>1. Fire(r, "cache.set", Args(ReadKey(req[r].call), req[r].res), TRUE)
    BY <1>4 DEF Fill
  <2> QED BY <1>2, <2>1, FireSound, KnownStaysSound
<1>5. ASSUME NEW r \in Request, Drop(r) PROVE ClosuresAreSound'
  <2>1. Fire(r, "cache.del", Args(<<"one", req[r].call.gist>>, None), TRUE)
    BY <1>5 DEF Drop
  <2> QED BY <1>2, <2>1, FireSound
<1>6. ASSUME NEW r \in Request, Clear(r) PROVE ClosuresAreSound'
  <2>1. PICK place :
          Fire(r, "cache.delPattern", Args(<<"nearby", place, TRUE>>, None), TRUE)
    BY <1>6 DEF Clear
  <2> QED BY <1>2, <2>1, FireSound
<1>7. ASSUME NEW r \in Request, NEW status, Respond(r, status), ~UNCHANGED bound
      PROVE  ClosuresAreSound'
  <2>1. Fire(r, "cache.set", Args(ReadKey(req[r].call), Entry(r, status)), FALSE)
    BY <1>7 DEF Respond, NoFire
  <2>2. Sound(Entry(r, status), version', changes', req')
    BY <1>7, EntryIsSound
  <2> QED BY <1>2, <2>1, <2>2, FireSound
<1>8. ASSUME NEW r \in Request, Step(r)
      PROVE  \/ UNCHANGED bound
             \/ Fill(r) \/ Drop(r) \/ Clear(r) \/ \E status : Respond(r, status)
  BY <1>8 DEF Step, ResumeGet, Read, Patch, Post, Throws, Finish, NoFire
<1>9. \/ UNCHANGED bound
      \/ \E r \in Request : Step(r) \/ \E call \in Call : Start(r, call)
  BY DEF Next, vars, Settle, Fail, Timeout, Expire
<1> QED BY <1>1, <1>3, <1>4, <1>5, <1>6, <1>7, <1>8, <1>9

\* What is read from the table is so.
LEMMA ReadIsSound ==
  ASSUME TypeInv, NEW r \in Request, Read(r)
  PROVE  Sound(req'[r].res, version', changes', req') \/ req'[r].res = req[r].res
<1> DEFINE q == req[r]
<1>1. /\ req \in [Request -> Served] /\ UNCHANGED <<version, changes>>
      /\ q.call \in Call /\ q \in Served
  BY AtTypes DEF Read, TypeInv, Shape
<1>2. ASSUME NEW v, req' = [req EXCEPT ![r].pc = "fill", ![r].res = v] PROVE req'[r].res = v
  BY <1>1, <1>2 DEF Served
<1>3. CASE Answer(r, "200", None)
  <2>1. req'[r].res = None
    BY <1>1, <1>3 DEF Answer, Answered, Served
  <2> QED BY <2>1 DEF Sound
<1>4. CASE q.call.kind = "one" /\ ~Answer(r, "200", None)
  <2> DEFINE v == [kind |-> "gist", gist |-> q.call.gist, version |-> version[q.call.gist]]
  <2>1. version[q.call.gist] \in Nat /\ version[q.call.gist] # 0
    BY <1>1, <1>4, CallPlaces DEF Read, TypeInv
  <2>2. req'[r].res = v
    BY <1>2, <1>4 DEF Read
  <2>3. Sound(v, version, changes, req')
    BY <2>1 DEF Sound, IsSo
  <2> QED BY <1>1, <2>2, <2>3
<1>5. CASE q.call.kind = "nearby"
  <2> DEFINE v == [kind |-> "page", place |-> q.call.place,
                   changes |-> changes[q.call.place]]
  <2>1. changes[q.call.place] \in Nat
    BY <1>1, <1>5, CallPlaces DEF TypeInv
  <2>2. req'[r].res = v
    BY <1>2, <1>5 DEF Read
  <2>3. Sound(v, version, changes, req')
    BY <2>1 DEF Sound, IsSo
  <2> QED BY <1>1, <2>2, <2>3
<1> QED BY <1>3, <1>4, <1>5 DEF Read

LEMMA StepResults == CacheInv /\ [Next]_vars => ResultsAreSound'
<1> SUFFICES ASSUME CacheInv, [Next]_vars, NEW s \in Request
             PROVE  Sound(req'[s].res, version', changes', req')
  BY DEF ResultsAreSound
<1>1. /\ req \in [Request -> Served] /\ TypeInv
      /\ Sound(req[s].res, version', changes', req')
      /\ Sound(None, version', changes', req')
  BY KnownStaysSound DEF CacheInv, TypeInv, Sound
<1>2. CASE req'[s].res = req[s].res \/ req'[s].res = None
  BY <1>1, <1>2
<1>3. ASSUME NEW op \in flight, Settle(op) \/ Fail(op) \/ Timeout(op)
      PROVE  Sound(req'[s].res, version', changes', req')
  <2>1. op.args.key \in CacheKey /\ op.by \in Request
    BY <1>1 DEF TypeInv, Operation, Closure
  <2>2. req'[s].res \in {req[s].res, store[op.args.key], None}
    <3>1. ASSUME NEW result, Return(op, result) PROVE req'[s].res \in {req[s].res, result}
      BY <1>1, <2>1, <3>1 DEF Return, Served
    <3> QED BY <1>3, <3>1 DEF Settle, Fail, Timeout
  <2>3. Sound(store[op.args.key], version', changes', req')
    BY <2>1, KnownStaysSound
  <2> QED BY <1>1, <2>2, <2>3
<1>4. ASSUME NEW r \in Request, NEW call \in Call, Start(r, call)
      PROVE  req'[s].res = req[s].res
  BY <1>1, <1>4 DEF Start, Served
<1>5. ASSUME NEW r \in Request, Read(r)
      PROVE  Sound(req'[s].res, version', changes', req')
  <2>1. CASE r = s
    BY <1>1, <1>5, <2>1, ReadIsSound
  <2>2. CASE r # s
    BY <1>1, <1>5, <2>2 DEF Read, Answer
  <2> QED BY <2>1, <2>2
<1>6. ASSUME NEW r \in Request, Step(r), ~Read(r)
      PROVE  req'[s].res = req[s].res \/ req'[s].res = None
  <2>1. ASSUME NEW status, NEW value \in {None, req[r].res}, Answer(r, status, value)
        PROVE  req'[s].res = req[s].res \/ req'[s].res = None
    BY <1>1, <2>1 DEF Answer, Answered, Served
  <2>2. ASSUME NEW pc, Goto(r, pc) PROVE req'[s].res = req[s].res
    BY <1>1, <2>2 DEF Goto, Served
  <2>3. CASE ResumeGet(r)
    BY <1>1, <2>1, <2>2, <2>3 DEF ResumeGet, Served
  <2>4. CASE Fill(r)
    BY <1>1, <2>4 DEF Fill, Answered, Served
  <2>5. CASE Patch(r)
    BY <1>1, <2>1, <2>5 DEF Patch, Served
  <2>6. CASE Post(r)
    BY <1>1, <2>6 DEF Post, Served
  <2>7. CASE Drop(r) \/ Clear(r) \/ Throws(r) \/ Finish(r)
    BY <2>1, <2>2, <2>7 DEF Drop, Clear, Throws, Finish, Respond
  <2> QED BY <1>6, <2>3, <2>4, <2>5, <2>6, <2>7 DEF Step
<1>7. CASE UNCHANGED req
  BY <1>1, <1>7
<1> QED BY <1>2, <1>3, <1>4, <1>5, <1>6, <1>7 DEF Next, vars, Expire

\* Only a request that finds its own hash in the cache becomes a replay.
LEMMA ReplayBegins ==
  ASSUME CacheInv, [Next]_vars, NEW s \in Request,
         req[s].status # "replayed", req'[s].status = "replayed"
  PROVE  /\ req[s].pc = "got" /\ req[s].res # None
         /\ SameRequest(req[s].res, req[s].call)
         /\ req' = [req EXCEPT ![s].pc = AfterReplay, ![s].status = "replayed"]
<1>1. req \in [Request -> Served] /\ TypeInv /\ None # "replayed"
  BY NullStandsApart DEF CacheInv, TypeInv, Status
<1>2. ASSUME NEW op \in flight, Settle(op) \/ Fail(op) \/ Timeout(op) PROVE FALSE
  <2>1. ASSUME NEW result, Return(op, result) PROVE req'[s].status = req[s].status
    BY <1>1, <2>1 DEF Return, Served
  <2> QED BY <1>2, <2>1 DEF Settle, Fail, Timeout
<1>3. ASSUME NEW r \in Request, NEW call \in Call, Start(r, call) PROVE FALSE
  BY <1>1, <1>3 DEF Start, Served
<1>4. PICK r \in Request : Step(r)
  BY <1>2, <1>3 DEF Next, vars, Expire
<1>5. /\ req[r] \in Served /\ Shape(req[r])
  BY <1>1 DEF TypeInv
<1>6. ASSUME NEW status, status # "replayed", NEW value, Answer(r, status, value) PROVE FALSE
  BY <1>1, <1>6 DEF Answer, Answered, Served
<1>7. ASSUME NEW pc, Goto(r, pc) PROVE FALSE
  BY <1>1, <1>7 DEF Goto, Served
<1>8. CASE ResumeGet(r)
  <2>1. /\ req[r].pc = "got" /\ req[r].res # None /\ SameRequest(req[r].res, req[r].call)
        /\ req' = [req EXCEPT ![r].pc = AfterReplay, ![r].status = "replayed"]
    BY <1>6, <1>7, <1>8 DEF ResumeGet, At
  <2>2. r = s
    BY <1>1, <2>1
  <2> QED BY <2>1, <2>2
<1>9. CASE Read(r)
  <2>1. ~Answer(r, "200", None)
    BY <1>6
  <2>2. req'[s].status = req[s].status
    BY <1>1, <1>9, <2>1 DEF Read, Served
  <2> QED BY <2>2
<1>10. CASE Fill(r)
  BY <1>1, <1>10 DEF Fill, Answered, Served
<1>11. CASE Patch(r)
  <2>1. req[r].status = None
    BY <1>5, <1>11 DEF Patch, At, Shape
  <2>2. req'[r].status = "200"
    BY <1>1, <1>11, <2>1 DEF Patch, Served
  <2>3. r = s
    BY <1>1, <1>11 DEF Patch, Served
  <2> QED BY <2>2, <2>3
<1>12. CASE Post(r)
  <2>1. req[r].status = None
    BY <1>5, <1>12 DEF Post, At, Shape
  <2>2. req'[r].status = "201"
    BY <1>1, <1>12, <2>1 DEF Post, Served
  <2>3. r = s
    BY <1>1, <1>12 DEF Post, Served
  <2> QED BY <2>2, <2>3
<1>13. CASE Throws(r)
  BY <1>6, <1>13 DEF Throws, Respond
<1>14. CASE Drop(r) \/ Clear(r)
  BY <1>7, <1>14 DEF Drop, Clear
<1>15. CASE Finish(r)
  <2>1. CASE At(r, "respond") /\ Respond(r, req[r].status)
    <3>1. req[r].status # "replayed"
      BY <1>5, <2>1 DEF At, Shape
    <3> QED BY <1>6, <2>1, <3>1 DEF Respond
  <2> QED BY <1>7, <1>15, <2>1 DEF Finish
<1> QED BY <1>4, <1>8, <1>9, <1>10, <1>11, <1>12, <1>13, <1>14, <1>15 DEF Step

LEMMA StepReplays == CacheInv /\ [Next]_vars => ReplaysAreSound'
<1> SUFFICES ASSUME CacheInv, [Next]_vars, NEW s \in Request, req'[s].status = "replayed"
             PROVE  /\ req'[s].pc = "done" /\ req'[s].ran = 0
                    /\ req'[s].res.kind = "entry" /\ req'[s].res \in Value
                    /\ IsSo(req'[s].res, version', changes', req')
                    /\ req'[s].res.hash = Hash(req'[s].call)
  BY DEF ReplaysAreSound
<1>1. TypeInv /\ req[s] \in Served /\ Shape(req[s]) /\ req \in [Request -> Served]
  BY DEF CacheInv, TypeInv
<1>2. CASE req[s].status = "replayed"
  <2>1. /\ req[s].pc = "done" /\ req[s].ran = 0 /\ req[s].res.kind = "entry"
        /\ req[s].res \in Value /\ IsSo(req[s].res, version, changes, req)
        /\ req[s].res.hash = Hash(req[s].call)
    BY <1>2 DEF CacheInv, ReplaysAreSound
  <2>2. req'[s] = req[s]
    BY <1>1, <2>1, DoneStays
  <2> QED BY <1>1, <2>1, <2>2, SoStays
<1>3. CASE req[s].status # "replayed"
  <2>1. /\ req[s].pc = "got" /\ req[s].res # None
        /\ SameRequest(req[s].res, req[s].call)
        /\ req' = [req EXCEPT ![s].pc = AfterReplay, ![s].status = "replayed"]
    BY <1>3, ReplayBegins
  <2>2. /\ req'[s].pc = "done" /\ req'[s].ran = req[s].ran /\ req'[s].res = req[s].res
        /\ req'[s].call = req[s].call
    BY <1>1, <2>1 DEF AfterReplay, Served
  <2>3. req[s].res \in Value /\ req[s].ran = 0
    BY <1>1, <2>1 DEF Served, Shape
  <2>4. IsSo(req[s].res, version, changes, req)
    BY <2>1 DEF CacheInv, ResultsAreSound, Sound
  <2>5. IsSo(req[s].res, version', changes', req')
    BY <1>1, <2>3, <2>4, SoStays
  <2> QED BY <2>1, <2>2, <2>3, <2>5 DEF SameRequest
<1> QED BY <1>2, <1>3

LEMMA StepCacheInv == CacheInv /\ [Next]_vars => CacheInv'
BY StepTypeInv, StepStore, StepClosures, StepResults, StepReplays DEF CacheInv

\* Whatever Redis loses, delays or expires and whichever closure a breaker
\* kept, a replayed request ran nothing and got the very answer of a request
\* with its method and path.
THEOREM ReplaysStayFaithful == Spec => []ReplaysAreFaithful
<1>1. CacheInv => ReplaysAreFaithful
  <2> SUFFICES ASSUME CacheInv, NEW r \in Request, req[r].status = "replayed"
               PROVE  /\ req[r].ran = 0 /\ req[r].res.kind = "entry"
                      /\ Hash(req[req[r].res.of].call) = Hash(req[r].call)
                      /\ req[req[r].res.of].status = req[r].res.status
    BY DEF ReplaysAreFaithful
  <2> QED BY DEF CacheInv, ReplaysAreSound, IsSo
<1> QED BY InitCacheInv, StepCacheInv, <1>1, PTL DEF Spec

\* No handler ever puts into the cache what the tables did not show.
THEOREM CacheIsHistory == Spec => []CacheTellsThePast
<1>1. CacheInv => CacheTellsThePast
  <2> SUFFICES ASSUME CacheInv, NEW k \in CacheKey, store[k] # None
               PROVE  \/ /\ store[k].kind = "gist"
                         /\ store[k].version \in 1..version[store[k].gist]
                      \/ /\ store[k].kind = "page"
                         /\ store[k].changes <= changes[store[k].place]
                      \/ /\ store[k].kind = "entry"
                         /\ req[store[k].of].status = store[k].status
                         /\ req[store[k].of].pc = "done"
    BY DEF CacheTellsThePast
  <2>1. store[k] \in Value /\ IsSo(store[k], version, changes, req)
    BY DEF CacheInv, TypeInv, StoreIsSound, Sound
  <2>2. store[k].kind \in {"gist", "page", "entry"}
    BY <2>1 DEF Value
  <2> QED BY <2>1, <2>2 DEF IsSo
<1> QED BY InitCacheInv, StepCacheInv, <1>1, PTL DEF Spec
=============================================================================

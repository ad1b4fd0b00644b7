---------------------------- MODULE BackendProofs ----------------------------
(***************************************************************************)
(* Proofs about Backend: for each of its parts an invariant that its steps *)
(* preserve, and at the end the properties of the composition.             *)
(***************************************************************************)
EXTENDS Backend, GistEditProofs, FiniteSetTheorems, SequenceTheorems, WellFoundedInduction

-----------------------------------------------------------------------------
(* Cache connections *)

ReplicaChecks == [pc: {"idle", "ping", "quit"}, client: Nat \cup {None}]

\* A client replaces the one its check found, and without overlap there is one
\* check at a time, none of them after the shutdown began.
ReplicaTypes ==
  /\ Replica!ClientTypeOK /\ overlap \in BOOLEAN
  /\ check \in [HealthCheck -> ReplicaChecks]
  /\ primary \in {"unset", "off"} => open = {} /\ Replica!Busy = {}
CalmReplica ==
  /\ open \subseteq {replica}
  /\ \A c, d \in Replica!Busy : c = d
  /\ \A c \in HealthCheck : check[c].pc = "quit" => check[c].client = replica
  /\ primary \in {"closing", "closed"} => Replica!Busy = {}
  /\ primary = "closed" => open = {}
ReplicaInv == ReplicaTypes /\ (overlap = FALSE => CalmReplica)

LEMMA InitReplica == Replica!ClientInit => ReplicaInv
<1> SUFFICES ASSUME Replica!ClientInit PROVE ReplicaInv
  OBVIOUS
<1>1. check \in [HealthCheck -> ReplicaChecks] /\ \A c \in HealthCheck : check[c].pc = "idle"
  BY DEF Replica!ClientInit, ReplicaChecks
<1>2. Replica!Busy = {}
  BY <1>1 DEF Replica!Busy
<1>3. Replica!ClientTypeOK /\ open = {} /\ primary = "unset"
  BY BackendConstants DEF Replica!ClientInit, Replica!ClientTypeOK, BackendConstants
<1>4. overlap \in BOOLEAN
  BY DEF Replica!ClientInit
<1>5. CalmReplica
  BY <1>1, <1>2, <1>3 DEF CalmReplica
<1> QED BY <1>1, <1>2, <1>3, <1>4, <1>5 DEF ReplicaInv, ReplicaTypes

\* What a step makes of one check.
LEMMA ChecksStep ==
  ASSUME check \in [HealthCheck -> ReplicaChecks], NEW c \in HealthCheck,
         NEW new \in ReplicaChecks, check' = [check EXCEPT ![c] = new]
  PROVE  /\ check' \in [HealthCheck -> ReplicaChecks]
         /\ \A d \in HealthCheck : check'[d] = IF d = c THEN new ELSE check[d]
         /\ new.pc = "idle" => Replica!Busy' = Replica!Busy \ {c}
         /\ new.pc # "idle" => Replica!Busy' = Replica!Busy \cup {c}
<1>1. /\ check' \in [HealthCheck -> ReplicaChecks]
      /\ \A d \in HealthCheck : check'[d] = IF d = c THEN new ELSE check[d]
  OBVIOUS
<1> QED BY <1>1 DEF Replica!Busy

LEMMA StepReplica == ReplicaInv /\ [Replica!ClientNext]_(Replica!clientVars) => ReplicaInv'
<1> SUFFICES ASSUME ReplicaInv, [Replica!ClientNext]_(Replica!clientVars) PROVE ReplicaInv'
  OBVIOUS
<1>1. MaxClients \in Nat /\ None \notin Nat
  BY BackendConstants DEF BackendConstants
<1>2. /\ check \in [HealthCheck -> ReplicaChecks] /\ made \in 0..MaxClients
      /\ replica \in 1..made \cup {None} /\ open \subseteq 1..made
      /\ primary \in {"unset", "connected", "off", "closing", "closed"}
      /\ overlap \in BOOLEAN
  BY DEF ReplicaInv, ReplicaTypes, Replica!ClientTypeOK
<1>3. CASE UNCHANGED Replica!clientVars
  BY <1>3 DEF Replica!clientVars, ReplicaInv, ReplicaTypes, CalmReplica,
     Replica!ClientTypeOK, Replica!Busy
<1>4. CASE Replica!Connect
  <2>1. check' = check /\ overlap' = overlap /\ primary = "unset" /\ Replica!Busy = {}
        /\ open = {} /\ replica = None
    BY <1>4 DEF Replica!Connect, ReplicaInv, ReplicaTypes, Replica!ClientTypeOK
  <2>2. Replica!Busy' = Replica!Busy
    BY <2>1 DEF Replica!Busy
  <2>3. /\ Replica!ClientTypeOK' /\ open' \subseteq {replica'}
        /\ primary' = "connected" \/ (primary' = "off" /\ open' = {})
    <3>1. CASE Replica!Replaced /\ primary' = "connected" /\ open' = {made + 1}
      <4>1. made' = made + 1 /\ replica' = made + 1 /\ made' \in 0..MaxClients
        BY <1>1, <1>2, <3>1 DEF Replica!Replaced
      <4>2. replica' \in 1..made' /\ open' \subseteq 1..made'
        BY <1>2, <3>1, <4>1
      <4> QED BY <3>1, <4>1, <4>2 DEF Replica!ClientTypeOK
    <3>2. CASE UNCHANGED <<replica, made, open>> /\ primary' \in {"connected", "off"}
      <4>1. replica' = None /\ made' = made /\ open' = {}
        BY <2>1, <3>2
      <4> QED BY <1>2, <3>2, <4>1 DEF Replica!ClientTypeOK
    <3> QED BY <1>4, <3>1, <3>2 DEF Replica!Connect
  <2>4. \A c \in HealthCheck : check[c].pc # "quit"
    BY <2>1 DEF Replica!Busy
  <2> QED BY <1>2, <2>1, <2>2, <2>3, <2>4 DEF ReplicaInv, ReplicaTypes, CalmReplica
<1>5. CASE Replica!Drop
  <2>1. Replica!Busy' = Replica!Busy
    BY <1>5 DEF Replica!Busy, Replica!Drop
  <2> QED BY <1>5, <2>1 DEF ReplicaInv, ReplicaTypes, CalmReplica, Replica!ClientTypeOK, Replica!Drop
<1>6. CASE Replica!Stop
  <2>1. Replica!Busy' = Replica!Busy
    BY <1>6 DEF Replica!Busy, Replica!Stop
  <2>2. Replica!ClientTypeOK' /\ overlap' \in BOOLEAN
    BY <1>6 DEF ReplicaInv, ReplicaTypes, Replica!ClientTypeOK, Replica!Stop
  <2> QED BY <1>6, <2>1, <2>2 DEF ReplicaInv, ReplicaTypes, CalmReplica, Replica!Stop
<1>7. CASE Replica!CloseReplica
  <2>1. Replica!Busy' = Replica!Busy
    BY <1>7 DEF Replica!Busy, Replica!CloseReplica
  <2>2. Replica!ClientTypeOK'
    BY <1>7 DEF ReplicaInv, ReplicaTypes, Replica!ClientTypeOK, Replica!CloseReplica, Replica!Left
  <2> QED BY <1>7, <2>1, <2>2 DEF ReplicaInv, ReplicaTypes, CalmReplica, Replica!CloseReplica, Replica!Left
<1>8. ASSUME NEW c \in HealthCheck, Replica!Ping(c) PROVE ReplicaInv'
  <2> DEFINE new == [pc |-> "ping", client |-> replica]
  <2>1. /\ new \in ReplicaChecks /\ check' = [check EXCEPT ![c] = new]
        /\ overlap' = (overlap \/ Replica!Busy # {})
        /\ UNCHANGED <<primary, replica, made, open>>
        /\ primary = "connected" /\ new.pc = "ping"
    BY <1>2, <1>8 DEF ReplicaChecks, Replica!Ping, ReplicaInv, ReplicaTypes,
       Replica!ClientTypeOK
  <2>2. /\ check' \in [HealthCheck -> ReplicaChecks]
        /\ \A d \in HealthCheck : check'[d] = IF d = c THEN new ELSE check[d]
        /\ Replica!Busy' = Replica!Busy \cup {c}
    <3> HIDE DEF new
    <3> QED BY <1>2, <2>1, ChecksStep
  <2>3. Replica!ClientTypeOK'
    BY <2>1 DEF ReplicaInv, ReplicaTypes, Replica!ClientTypeOK
  <2> QED BY <2>1, <2>2, <2>3 DEF ReplicaInv, ReplicaTypes, CalmReplica
<1>9. ASSUME NEW c \in HealthCheck, Replica!Pong(c) PROVE ReplicaInv'
  <2> DEFINE new == [pc |-> "idle", client |-> None]
  <2>1. /\ new \in ReplicaChecks /\ check' = [check EXCEPT ![c] = new]
        /\ UNCHANGED <<primary, replica, made, open, overlap>>
    BY <1>9 DEF ReplicaChecks, Replica!Pong
  <2>2. /\ check' \in [HealthCheck -> ReplicaChecks]
        /\ \A d \in HealthCheck : check'[d] = IF d = c THEN new ELSE check[d]
        /\ Replica!Busy' = Replica!Busy \ {c}
    BY <1>2, <2>1, ChecksStep
  <2>3. Replica!ClientTypeOK'
    BY <2>1 DEF ReplicaInv, ReplicaTypes, Replica!ClientTypeOK
  <2> QED BY <2>1, <2>2, <2>3 DEF ReplicaInv, ReplicaTypes, CalmReplica
<1>10. ASSUME NEW c \in HealthCheck, Replica!PingFails(c) PROVE ReplicaInv'
  <2> DEFINE new == [pc |-> "quit", client |-> replica]
  <2>1. /\ new \in ReplicaChecks /\ check' = [check EXCEPT ![c] = new]
        /\ UNCHANGED <<primary, replica, made, open, overlap>> /\ c \in Replica!Busy
    BY <1>2, <1>10 DEF ReplicaChecks, Replica!PingFails, Replica!Busy
  <2>2. /\ check' \in [HealthCheck -> ReplicaChecks]
        /\ \A d \in HealthCheck : check'[d] = IF d = c THEN new ELSE check[d]
        /\ Replica!Busy' = Replica!Busy \cup {c}
    BY <1>2, <2>1, ChecksStep
  <2>3. Replica!ClientTypeOK'
    BY <2>1 DEF ReplicaInv, ReplicaTypes, Replica!ClientTypeOK
  <2>4. Replica!Busy' = Replica!Busy
    BY <2>1, <2>2
  <2> QED BY <2>1, <2>2, <2>3, <2>4 DEF ReplicaInv, ReplicaTypes, CalmReplica
<1>11. ASSUME NEW c \in HealthCheck, Replica!Rebuild(c) PROVE ReplicaInv'
  <2> DEFINE new == [pc |-> "idle", client |-> None]
  <2>1. /\ new \in ReplicaChecks /\ check' = [check EXCEPT ![c] = new]
        /\ made < MaxClients /\ made' = made + 1 /\ replica' = made + 1
        /\ open' = (open \ {check[c].client}) \cup {made + 1}
        /\ UNCHANGED <<primary, overlap>> /\ c \in Replica!Busy /\ check[c].pc = "quit"
    BY <1>11 DEF ReplicaChecks, Replica!Rebuild, Replica!Replaced, Replica!Closed, Replica!Busy
  <2>2. /\ check' \in [HealthCheck -> ReplicaChecks]
        /\ \A d \in HealthCheck : check'[d] = IF d = c THEN new ELSE check[d]
        /\ Replica!Busy' = Replica!Busy \ {c}
    BY <1>2, <2>1, ChecksStep
  <2>3. primary \notin {"unset", "off"}
    BY <2>1 DEF ReplicaInv, ReplicaTypes, CalmReplica
  <2>4. Replica!ClientTypeOK'
    <3>1. made' \in 0..MaxClients /\ replica' \in 1..made' /\ 1..made \subseteq 1..made'
      BY <1>1, <1>2, <2>1
    <3>2. open' \subseteq 1..made'
      BY <1>2, <2>1, <3>1
    <3> QED BY <1>2, <2>1, <2>3, <3>1, <3>2 DEF Replica!ClientTypeOK
  <2>5. overlap' = FALSE => open' = {replica'} /\ Replica!Busy' = {}
    BY <2>1, <2>2 DEF ReplicaInv, CalmReplica
  <2>6. overlap' = FALSE => primary \notin {"closing", "closed"}
    BY <2>1 DEF ReplicaInv, CalmReplica
  <2>7. overlap' = FALSE => \A d \in HealthCheck : check'[d].pc # "quit"
    BY <2>2, <2>5 DEF Replica!Busy
  <2> QED BY <1>2, <2>1, <2>2, <2>3, <2>4, <2>5, <2>6, <2>7
        DEF ReplicaInv, ReplicaTypes, CalmReplica
<1> QED BY <1>3, <1>4, <1>5, <1>6, <1>7, <1>8, <1>9, <1>10, <1>11 DEF Replica!ClientNext
LEMMA ReplicaKeeps == ReplicaInv => Replica!ClientTypeOK /\ ReplicasAreClosed
<1> SUFFICES ASSUME ReplicaInv PROVE Replica!ClientTypeOK /\ Replica!ReplicasAreClosed
  BY DEF ReplicasAreClosed
<1>1. CASE overlap = FALSE
  BY <1>1 DEF ReplicaInv, ReplicaTypes, CalmReplica, Replica!ReplicasAreClosed
<1>2. CASE overlap = TRUE
  BY <1>2 DEF ReplicaInv, ReplicaTypes, Replica!ReplicasAreClosed
<1> QED BY <1>1, <1>2 DEF ReplicaInv, ReplicaTypes
-----------------------------------------------------------------------------
(* Stellar headers *)

\* What was signed is canonical and not from further ahead than a client's clock;
\* a decided request carries a signature that there was when it was decided.
SignedAreCanonical ==
  \A s \in signed : s.body.sorted = TRUE /\ s.ts <= clock + Ahead
VerdictIsSound ==
  verdict # None =>
    /\ verdict.is \in {"anonymous", "verified", "refused"}
    /\ verdict.request.signature \in signed \cup {None}
AuthInv ==
  /\ clock \in 0..SignTime /\ signed \subseteq Auth!Signature
  /\ SignedAreCanonical /\ VerdictIsSound /\ Auth!VerifiedWasSigned

LEMMA AuthConstants ==
  /\ SignTime \in Nat /\ Window \in Nat /\ Ahead \in Nat /\ BadKey \notin Key
  /\ None \notin Nat /\ None \notin Key /\ None \notin Auth!Signature
BY BackendConstants DEF BackendConstants

LEMMA InitAuth == Auth!AuthInit => AuthInv
BY AuthConstants DEF Auth!AuthInit, AuthInv, SignedAreCanonical, VerdictIsSound,
   Auth!VerifiedWasSigned

LEMMA DeliverIsSound ==
  ASSUME AuthInv, Auth!Deliver
  PROVE  AuthInv'
<1>1. PICK signature \in signed \cup {None}, address \in Key \cup {BadKey, None},
           ts \in 0..SignTime \cup {None}, b \in Auth!Body :
        /\ verdict' = [request |-> [signature |-> signature, address |-> address, ts |-> ts,
                                    body |-> b],
                       at |-> clock,
                       is |-> Auth!CanActivate([signature |-> signature, address |-> address,
                                                ts |-> ts, body |-> b])]
        /\ UNCHANGED <<clock, signed>>
  BY DEF Auth!Deliver
<1> DEFINE r == [signature |-> signature, address |-> address, ts |-> ts, body |-> b]
<1>2. /\ r.signature = signature /\ r.address = address /\ r.ts = ts /\ r.body = b
      /\ verdict'.request = r /\ verdict'.at = clock /\ verdict'.is = Auth!CanActivate(r)
  BY <1>1
<1> HIDE DEF r
<1>3. \A s \in signed : /\ s \in Auth!Signature /\ s.key \in Key /\ s.ts \in 0..SignTime
                        /\ s.body \in Auth!Body /\ s.body.sorted = TRUE
                        /\ s.ts <= clock + Ahead
  BY DEF AuthInv, SignedAreCanonical, Auth!Signature
<1>4. Auth!CanActivate(r) \in {"anonymous", "verified", "refused"}
  BY DEF Auth!CanActivate
<1>5. ASSUME Auth!CanActivate(r) = "verified"
      PROVE  Auth!Genuine(r) /\ clock - r.ts <= Window /\ r.ts - clock <= Ahead
  <2>1. /\ signature # None /\ Auth!InWindow(ts) /\ address # BadKey /\ Auth!Verifies(r)
    BY <1>2, <1>5 DEF Auth!CanActivate
  <2>2. /\ signature \in signed /\ signature.key = address /\ signature.ts = ts
        /\ signature.body = Auth!CanonicalizeBody(b)
    BY <1>2, <2>1 DEF Auth!Verifies
  <2>3. signature.body.value = b.value
    BY <2>2 DEF Auth!CanonicalizeBody, Auth!Body
  <2>4. ts \in Nat /\ clock \in Nat
    BY <1>1, <2>1, AuthConstants DEF AuthInv, Auth!InWindow
  <2>5. clock - ts <= Window /\ ts - clock <= Ahead
    BY <2>1, <2>4, AuthConstants DEF Auth!InWindow
  <2> QED BY <1>2, <2>2, <2>3, <2>5 DEF Auth!Genuine
<1>6. ASSUME Auth!CanActivate(r) = "refused", Auth!Genuine(r)
      PROVE  clock - r.ts > Window \/ r.signature.body.inArrays # r.body.inArrays
  <2>1. /\ signature \in signed /\ address = signature.key /\ ts = signature.ts
        /\ b.value = signature.body.value
    BY <1>2, <1>6 DEF Auth!Genuine
  <2>2. /\ signature # None /\ address # None /\ address # BadKey
        /\ ts \in 0..SignTime /\ ts # None /\ ts <= clock + Ahead
    BY <1>3, <2>1, AuthConstants DEF AuthInv
  <2>3. CASE ~Auth!Verifies(r)
    <3>1. signature.body # Auth!CanonicalizeBody(b)
      BY <1>2, <2>1, <2>2, <2>3 DEF Auth!Verifies
    <3>2. signature.body \in Auth!Body /\ signature.body.sorted = TRUE
      BY <1>3, <2>1
    <3>3. signature.body.inArrays # b.inArrays
      BY <2>1, <3>1, <3>2 DEF Auth!CanonicalizeBody, Auth!Body
    <3> QED BY <1>2, <3>3
  <2>4. CASE Auth!Verifies(r)
    <3>1. ~Auth!InWindow(ts)
      BY <1>2, <1>6, <2>2, <2>4 DEF Auth!CanActivate
    <3>2. clock - ts > Window
      BY <2>2, <3>1, AuthConstants DEF Auth!InWindow, AuthInv
    <3> QED BY <1>2, <3>2
  <2> QED BY <2>3, <2>4
<1>7. ASSUME Auth!CanActivate(r) = "anonymous" PROVE r.address = None
  BY <1>7 DEF Auth!CanActivate
<1>8. Auth!Genuine(r)' <=> Auth!Genuine(r)
  BY <1>1 DEF Auth!Genuine
<1>9. Auth!VerifiedWasSigned'
  BY <1>2, <1>5, <1>6, <1>7, <1>8 DEF Auth!VerifiedWasSigned
<1>10. VerdictIsSound'
  BY <1>1, <1>2, <1>4 DEF VerdictIsSound
<1> QED BY <1>1, <1>9, <1>10 DEF AuthInv, SignedAreCanonical

\* A signature made later makes no request genuine that was decided before.
LEMMA SignIsSound ==
  ASSUME AuthInv, Auth!Sign PROVE AuthInv'
<1>1. PICK key \in Key, ts \in 0..SignTime, b \in Auth!Body :
        /\ signed = {} /\ ts \in (clock - Ahead)..(clock + Ahead)
        /\ signed' = {[key |-> key, ts |-> ts, body |-> Auth!CanonicalizeBody(b)]}
        /\ clock' = clock /\ verdict' = verdict
  BY DEF Auth!Sign
<1> DEFINE s == [key |-> key, ts |-> ts, body |-> Auth!CanonicalizeBody(b)]
<1>2. Auth!CanonicalizeBody(b) \in Auth!Body /\ Auth!CanonicalizeBody(b).sorted = TRUE
  BY DEF Auth!CanonicalizeBody, Auth!Body
<1>3. s \in Auth!Signature /\ s.body.sorted = TRUE /\ s.ts = ts
  BY <1>2 DEF Auth!Signature
<1>4. ts <= clock + Ahead
  BY <1>1, AuthConstants DEF AuthInv
<1>5. clock' \in 0..SignTime /\ signed' \subseteq Auth!Signature /\ SignedAreCanonical'
  BY <1>1, <1>3, <1>4 DEF AuthInv, SignedAreCanonical
<1>6. ASSUME verdict # None
      PROVE  verdict.request.signature = None /\ verdict.is \in {"anonymous", "verified", "refused"}
  BY <1>1, <1>6 DEF AuthInv, VerdictIsSound
<1>7. VerdictIsSound'
  BY <1>1, <1>6 DEF VerdictIsSound
<1>8. ASSUME verdict # None
      PROVE  ~Auth!Genuine(verdict.request) /\ ~Auth!Genuine(verdict.request)'
  <2>1. ~Auth!Genuine(verdict.request)
    BY <1>1 DEF Auth!Genuine
  <2>2. s # None
    BY <1>3, AuthConstants
  <2> HIDE DEF s
  <2>3. ~Auth!Genuine(verdict.request)'
    BY <1>1, <1>6, <1>8, <2>2 DEF Auth!Genuine, s
  <2> QED BY <2>1, <2>3
<1>9. Auth!VerifiedWasSigned'
  BY <1>1, <1>8 DEF AuthInv, Auth!VerifiedWasSigned
<1> QED BY <1>5, <1>7, <1>9 DEF AuthInv

LEMMA StepAuth == AuthInv /\ [Auth!AuthNext]_(Auth!authVars) => AuthInv'
<1> SUFFICES ASSUME AuthInv, [Auth!AuthNext]_(Auth!authVars) PROVE AuthInv'
  OBVIOUS
<1>1. CASE UNCHANGED Auth!authVars
  BY <1>1 DEF Auth!authVars, AuthInv, SignedAreCanonical, VerdictIsSound,
     Auth!VerifiedWasSigned, Auth!Genuine
<1>2. CASE Auth!Tick
  <2>1. clock \in 0..SignTime /\ clock' = clock + 1 /\ clock' \in 0..SignTime
        /\ signed' = signed /\ verdict' = verdict
    BY <1>2, AuthConstants DEF Auth!Tick, AuthInv
  <2>2. SignedAreCanonical'
    <3> SUFFICES ASSUME NEW s \in signed
                 PROVE  s.body.sorted = TRUE /\ s.ts <= clock' + Ahead
      BY <2>1 DEF SignedAreCanonical
    <3>1. s.body.sorted = TRUE /\ s.ts <= clock + Ahead /\ s.ts \in 0..SignTime
      BY DEF AuthInv, SignedAreCanonical, Auth!Signature
    <3> QED BY <2>1, <3>1, AuthConstants
  <2> QED BY <2>1, <2>2 DEF AuthInv, VerdictIsSound, Auth!VerifiedWasSigned, Auth!Genuine
<1> QED BY <1>1, <1>2, DeliverIsSound, SignIsSound DEF Auth!AuthNext

LEMMA AuthKeeps == AuthInv => Auth!AuthTypeOK /\ Auth!VerifiedWasSigned
BY DEF AuthInv, VerdictIsSound, Auth!AuthTypeOK
-----------------------------------------------------------------------------
(* CSRF protection *)

Sent == [pc: {"sent"}, kind: {"token", "post"}, cookie: Nat \cup {None},
         token: Nat \cup {None}]
Answered == [pc: {"answered"}, kind: {"token", "post"}, cookie: Nat \cup {None},
             token: Nat \cup {None}, secret: Nat, ok: BOOLEAN]
Secrets == 1..issued \cup {None}

\* A request carries what the browser held, a post its page's token.
CallIsSound(p) ==
  call[p] \in Sent \cup Answered =>
    /\ call[p].cookie \in Secrets /\ call[p].token \in Secrets
    /\ call[p].kind = "post" => call[p].token # None
AnswerIsSound(p) ==
  call[p] \in Answered =>
    /\ call[p].secret \in 1..issued
    /\ call[p].cookie # None => call[p].secret = call[p].cookie
    /\ call[p].kind = "post" =>
         /\ call[p].cookie = call[p].token => call[p].ok = TRUE
         /\ call[p].ok = TRUE => call[p].cookie = call[p].token
GateTypes ==
  /\ issued \in 0..MaxSecrets /\ jar \in Secrets /\ calm \in BOOLEAN
  /\ token \in [Page -> Secrets]
  /\ call \in [Page -> {Gate!Idle} \cup Sent \cup Answered]
  /\ \A p \in Page : CallIsSound(p) /\ AnswerIsSound(p)

\* While all is calm there is one secret that the jar, the pages and the requests
\* share, or there is none and at most one request that will bring it.
CalmGate ==
  /\ \A p, q \in Gate!Cookieless : p = q
  /\ jar # None => Gate!Cookieless = {}
  /\ \A p \in Page : token[p] # None => token[p] = jar
  /\ \A p \in Page : call[p] \in Sent \cup Answered =>
       /\ call[p].cookie # None => call[p].cookie = jar
       /\ call[p].kind = "post" => call[p].cookie = call[p].token
GateInv == GateTypes /\ (calm = TRUE => CalmGate)

LEMMA GateConstants == MaxSecrets \in Nat /\ None \notin Nat
BY BackendConstants DEF BackendConstants

LEMMA InitGate == Gate!GateInit => GateInv
<1> SUFFICES ASSUME Gate!GateInit PROVE GateInv
  OBVIOUS
<1>1. /\ issued = 0 /\ jar = None /\ calm = TRUE
      /\ token = [p \in Page |-> None] /\ call = [p \in Page |-> Gate!Idle]
  BY DEF Gate!GateInit
<1>2. \A p \in Page : call[p] = Gate!Idle /\ call[p].pc = "idle"
  BY <1>1 DEF Gate!Idle
<1>3. \A p \in Page : call[p] \notin Sent \cup Answered
  BY <1>2 DEF Sent, Answered
<1>4. Gate!Cookieless = {}
  BY <1>2 DEF Gate!Cookieless
<1>5. CalmGate
  BY <1>1, <1>3, <1>4 DEF CalmGate
<1>6. GateTypes
  BY <1>1, <1>3, GateConstants DEF GateTypes, CallIsSound, AnswerIsSound, Secrets
<1> QED BY <1>5, <1>6 DEF GateInv

\* The three forms of a request.
LEMMA CallForms ==
  ASSUME GateTypes, NEW p \in Page
  PROVE  /\ call[p].pc \in {"idle", "sent", "answered"}
         /\ call[p].pc = "sent" <=> call[p] \in Sent
         /\ call[p].pc = "answered" <=> call[p] \in Answered
         /\ call[p].pc = "idle" <=> call[p] = Gate!Idle
BY DEF GateTypes, Gate!Idle, Sent, Answered

LEMMA StepGate == GateInv /\ [Gate!GateNext]_(Gate!gateVars) => GateInv'
<1> SUFFICES ASSUME GateInv, [Gate!GateNext]_(Gate!gateVars) PROVE GateInv'
  OBVIOUS
<1>1. /\ issued \in 0..MaxSecrets /\ issued \in Nat /\ jar \in Secrets /\ calm \in BOOLEAN
      /\ token \in [Page -> Secrets]
      /\ call \in [Page -> {Gate!Idle} \cup Sent \cup Answered]
  BY GateConstants DEF GateInv, GateTypes
<1>2. \A p \in Page : CallIsSound(p) /\ AnswerIsSound(p)
  BY DEF GateInv, GateTypes
<1>3. Gate!Cookieless = {p \in Page : call[p] \in Sent \cup Answered /\ call[p].cookie = None}
  BY CallForms DEF Gate!Cookieless, GateInv
<1>4. CASE UNCHANGED Gate!gateVars
  BY <1>4 DEF Gate!gateVars, GateInv, GateTypes, CalmGate, CallIsSound, AnswerIsSound, Secrets,
     Gate!Cookieless
<1>5. CASE Gate!Expire
  <2>1. GateTypes'
    BY <1>5 DEF Gate!Expire, GateInv, GateTypes, CallIsSound, AnswerIsSound, Secrets
  <2> QED BY <1>5, <2>1 DEF Gate!Expire, GateInv
<1>6. ASSUME NEW p \in Page, Gate!Lose(p) PROVE GateInv'
  <2>1. /\ call' = [call EXCEPT ![p] = Gate!Idle] /\ calm' = FALSE
        /\ UNCHANGED <<jar, token, issued>>
    BY <1>6 DEF Gate!Lose
  <2>2. Gate!Idle \notin Sent \cup Answered
    BY DEF Gate!Idle, Sent, Answered
  <2>3. call' \in [Page -> {Gate!Idle} \cup Sent \cup Answered]
        /\ \A q \in Page : call'[q] = IF q = p THEN Gate!Idle ELSE call[q]
    BY <1>1, <2>1
  <2>4. GateTypes'
    BY <1>1, <1>2, <2>1, <2>2, <2>3 DEF GateTypes, CallIsSound, AnswerIsSound, Secrets
  <2> QED BY <2>1, <2>4 DEF GateInv
<1>7. ASSUME NEW p \in Page, NEW kind \in {"token", "post"}, Gate!Send(p, kind) PROVE GateInv'
  <2> DEFINE new == [pc |-> "sent", kind |-> kind, cookie |-> jar, token |-> token[p]]
  <2>1. /\ call' = [call EXCEPT ![p] = new] /\ UNCHANGED <<jar, token, issued>>
        /\ calm' = (calm /\ (jar = None => Gate!Cookieless = {}))
        /\ kind = "post" => token[p] # None
    BY <1>7 DEF Gate!Send
  <2>2. /\ new \in Sent /\ new.cookie = jar /\ new.token = token[p] /\ new.kind = kind
        /\ new.cookie \in Secrets /\ new.token \in Secrets /\ new \notin Answered
    BY <1>1 DEF Sent, Secrets, Answered
  <2> HIDE DEF new
  <2>3. call' \in [Page -> {Gate!Idle} \cup Sent \cup Answered]
        /\ \A q \in Page : call'[q] = IF q = p THEN new ELSE call[q]
    BY <1>1, <2>1, <2>2
  <2>4. calm' \in BOOLEAN
    BY <2>1
  <2>5. GateTypes'
    BY <1>1, <1>2, <2>1, <2>2, <2>3, <2>4 DEF GateTypes, CallIsSound, AnswerIsSound, Secrets
  <2>6. ASSUME calm' = TRUE PROVE CalmGate'
    <3>1. CalmGate /\ (jar = None => Gate!Cookieless = {})
      BY <2>1, <2>6 DEF GateInv
    <3>2. \A q \in Page : q \in Gate!Cookieless' =>
            IF q = p THEN jar = None ELSE q \in Gate!Cookieless
      <4>1. GateTypes'
        BY <2>5
      <4>2. \A q \in Page : q \in Gate!Cookieless' <=>
              (call'[q].pc \in {"sent", "answered"} /\ call'[q].cookie = None)
        BY DEF Gate!Cookieless
      <4> QED BY <2>2, <2>3, <4>2 DEF Gate!Cookieless
    <3>3. Gate!Cookieless' \subseteq Page
      BY DEF Gate!Cookieless
    <3>4. kind = "post" => token[p] = jar
      BY <2>1, <3>1 DEF CalmGate
    <3> QED BY <2>1, <2>2, <2>3, <3>1, <3>2, <3>3, <3>4 DEF CalmGate
  <2> QED BY <2>5, <2>6 DEF GateInv
<1>8. ASSUME NEW p \in Page, Gate!Protect(p) PROVE GateInv'
  <2> DEFINE q == call[p]
             secret == Gate!Secret(q)
             new == [pc |-> "answered", kind |-> q.kind, cookie |-> q.cookie, token |-> q.token,
                     secret |-> secret, ok |-> Gate!Admitted(q, secret)]
  <2>1. /\ q.pc = "sent" /\ issued < MaxSecrets
        /\ issued' = (IF q.cookie = None THEN issued + 1 ELSE issued)
        /\ call' = [call EXCEPT ![p] = new] /\ UNCHANGED <<jar, token, calm>>
    BY <1>8 DEF Gate!Protect
  <2>2. /\ q \in Sent /\ q.cookie \in Secrets /\ q.token \in Secrets
        /\ q.kind = "post" => q.token # None
    BY <1>2, <2>1, CallForms DEF GateInv, CallIsSound
  <2>3. /\ issued' \in 0..MaxSecrets /\ issued' \in Nat /\ Secrets \subseteq Secrets'
        /\ 1..issued \subseteq 1..issued'
    BY <1>1, <2>1, GateConstants DEF Secrets
  <2>4. /\ secret \in 1..issued' /\ (q.cookie # None => secret = q.cookie)
        /\ q.cookie = None => secret \notin 1..issued
    BY <1>1, <2>1, <2>2, GateConstants DEF Gate!Secret, Secrets
  <2>5. Gate!Admitted(q, secret) \in BOOLEAN
    BY DEF Gate!Admitted
  <2>6. ASSUME q.kind = "post"
        PROVE  Gate!Admitted(q, secret) <=> q.cookie = q.token
    BY <2>2, <2>4, <2>6 DEF Gate!Admitted, Secrets
  <2>7. /\ new \in Answered /\ new.cookie = q.cookie /\ new.token = q.token
        /\ new.kind = q.kind /\ new.secret = secret /\ new.ok = Gate!Admitted(q, secret)
        /\ new \notin Sent
    BY <2>2, <2>3, <2>4, <2>5 DEF Answered, Sent
  <2> HIDE DEF new, secret
  <2>8. call' \in [Page -> {Gate!Idle} \cup Sent \cup Answered]
        /\ \A r \in Page : call'[r] = IF r = p THEN new ELSE call[r]
    BY <1>1, <2>1, <2>7
  <2>9. \A r \in Page : CallIsSound(r)'
    BY <1>2, <2>2, <2>3, <2>7, <2>8 DEF CallIsSound
  <2>10. AnswerIsSound(p)'
    BY <2>4, <2>5, <2>6, <2>7, <2>8 DEF AnswerIsSound
  <2>11. \A r \in Page : AnswerIsSound(r)'
    BY <1>2, <2>3, <2>8, <2>10 DEF AnswerIsSound
  <2>12. GateTypes'
    BY <1>1, <2>1, <2>3, <2>8, <2>9, <2>11 DEF GateTypes
  <2>13. Gate!Cookieless' = Gate!Cookieless
    <3>1. \A r \in Page : r \in Gate!Cookieless' <=> r \in Gate!Cookieless
      BY <2>1, <2>2, <2>7, <2>8 DEF Gate!Cookieless, Sent, Answered
    <3> QED BY <3>1 DEF Gate!Cookieless
  <2>14. CalmGate => CalmGate'
    BY <2>1, <2>2, <2>7, <2>8, <2>13 DEF CalmGate
  <2> QED BY <2>1, <2>12, <2>14 DEF GateInv
<1>9. ASSUME NEW p \in Page, Gate!Receive(p) PROVE GateInv'
  <2> DEFINE q == call[p]
  <2>1. /\ q.pc = "answered"
        /\ jar' = (IF q.cookie = None THEN q.secret ELSE jar)
        /\ token' = (IF q.kind = "token" THEN [token EXCEPT ![p] = q.secret] ELSE token)
        /\ call' = [call EXCEPT ![p] = Gate!Idle]
        /\ UNCHANGED <<issued, calm>>
    BY <1>9 DEF Gate!Receive
  <2>2. /\ q \in Answered /\ q.secret \in 1..issued /\ q.cookie \in Secrets
        /\ q.cookie # None => q.secret = q.cookie
    BY <1>2, <2>1, CallForms DEF GateInv, AnswerIsSound, CallIsSound
  <2>3. Gate!Idle \notin Sent \cup Answered /\ Gate!Idle.pc = "idle"
    BY DEF Gate!Idle, Sent, Answered
  <2>4. call' \in [Page -> {Gate!Idle} \cup Sent \cup Answered]
        /\ \A r \in Page : call'[r] = IF r = p THEN Gate!Idle ELSE call[r]
    BY <1>1, <2>1
  <2>5. jar' \in Secrets /\ token' \in [Page -> Secrets] /\ Secrets' = Secrets
    BY <1>1, <2>1, <2>2 DEF Secrets
  <2>6. GateTypes'
    BY <1>1, <1>2, <2>1, <2>3, <2>4, <2>5 DEF GateTypes, CallIsSound, AnswerIsSound
  <2>7. ASSUME CalmGate PROVE CalmGate'
    <3>1. Gate!Cookieless' = Gate!Cookieless \ {p}
      <4>1. \A r \in Page : r \in Gate!Cookieless' <=> r \in Gate!Cookieless /\ r # p
        BY <2>3, <2>4 DEF Gate!Cookieless
      <4> QED BY <4>1 DEF Gate!Cookieless
    <3>2. CASE q.cookie = None
      <4>1. p \in Gate!Cookieless
        BY <1>3, <2>2, <3>2
      <4>2. jar = None /\ Gate!Cookieless' = {}
        BY <2>7, <3>1, <4>1 DEF CalmGate
      <4>3. \A r \in Page : token[r] = None
        BY <2>7, <4>2 DEF CalmGate
      <4>4. \A r \in Page : token'[r] # None => token'[r] = jar'
        BY <1>1, <2>1, <3>2, <4>3
      <4>5. \A r \in Page : r # p => call[r] \notin Sent \cup Answered
        <5>1. \A r \in Page : call[r] \in Sent \cup Answered => call[r].cookie = None
          BY <2>7, <4>2 DEF CalmGate
        <5> QED BY <1>3, <2>7, <4>1, <5>1 DEF CalmGate
      <4> QED BY <2>3, <2>4, <4>2, <4>4, <4>5 DEF CalmGate
    <3>3. CASE q.cookie # None
      <4>1. jar' = jar /\ q.secret = jar /\ jar # None
        BY <2>1, <2>2, <2>7, <3>3 DEF CalmGate
      <4>2. \A r \in Page : token'[r] # None => token'[r] = jar'
        BY <1>1, <2>1, <2>7, <4>1 DEF CalmGate
      <4> QED BY <2>3, <2>4, <2>7, <3>1, <4>1, <4>2 DEF CalmGate
    <3> QED BY <3>2, <3>3
  <2> QED BY <2>1, <2>6, <2>7 DEF GateInv
<1> QED BY <1>4, <1>5, <1>6, <1>7, <1>8, <1>9 DEF Gate!GateNext

LEMMA GateKeeps == GateInv => Gate!GateTypeOK /\ Gate!TokensAdmit
<1> SUFFICES ASSUME GateInv PROVE Gate!GateTypeOK /\ Gate!TokensAdmit
  OBVIOUS
<1>1. 1..issued \subseteq 1..MaxSecrets /\ issued \in 0..MaxSecrets
  BY GateConstants DEF GateInv, GateTypes
<1>2. Gate!GateTypeOK
  BY <1>1, CallForms DEF GateInv, GateTypes, Secrets, Gate!GateTypeOK
<1>3. ASSUME NEW p \in Page, call[p].pc = "answered", call[p].kind = "post"
      PROVE  (calm => call[p].ok) /\ (call[p].ok => call[p].cookie = call[p].token)
  <2>1. call[p] \in Answered /\ AnswerIsSound(p)
    BY <1>3, CallForms DEF GateInv, GateTypes
  <2>2. call[p].ok \in BOOLEAN /\ calm \in BOOLEAN
    BY <2>1 DEF Answered, GateInv, GateTypes
  <2>3. calm = TRUE => call[p].cookie = call[p].token
    BY <1>3, <2>1 DEF GateInv, CalmGate
  <2> QED BY <1>3, <2>1, <2>2, <2>3 DEF AnswerIsSound
<1> QED BY <1>2, <1>3 DEF Gate!TokensAdmit
-----------------------------------------------------------------------------
(* Response compression *)

Chunks == [chunk: Nat, form: {"raw", "zip"}]
Headers == [encoding: {"br", "gzip", None}, length: BOOLEAN]
Live == zip.state \in {"open", "ending"}

\* Before the request there is nothing.
StreamIsFresh ==
  /\ mode = "off" /\ given = 0 /\ wire = << >> /\ zip = Stream!NoZip /\ header = None
  /\ ending = FALSE /\ socket = "open"

\* The mode tells what was negotiated and what the response is.
ModeIsSound ==
  /\ header \in Headers
  /\ header.encoding = IF mode = "zip" THEN Stream!Encoding(ask.q) ELSE None
  /\ mode # "off" => Stream!Encoding(ask.q) # None /\ ask.skipped = FALSE
  /\ mode = "zip" => header.length = FALSE /\ ask.status = "200" /\ zip.state # "none"
  /\ mode # "zip" => zip = Stream!NoZip
  /\ mode = "empty" => ask.status = "204"
  /\ mode = "raw" => ask.status = "200"
  /\ mode = "unset" => given = 0 /\ ending = FALSE

\* What went out are the first chunks in order, and what zlib holds comes next.
WireIsSound ==
  /\ Len(wire) <= given
  /\ \A i \in DOMAIN wire : wire[i] = [chunk |-> i, form |-> IF mode = "zip" THEN "zip" ELSE "raw"]
  /\ ask.status = "204" => wire = << >>
  /\ socket = "open" /\ ask.status = "200" /\ mode \in {"off", "unset", "raw"} =>
       Len(wire) = given
  /\ socket = "open" /\ Live =>
       /\ Len(wire) + Len(zip.left) = given
       /\ \A i \in DOMAIN zip.left : zip.left[i] = Len(wire) + i

\* The response ends after the handler has, and with all that it wrote.
EndIsSound ==
  /\ zip.state = "destroyed" => socket # "open"
  /\ zip.state = "ending" => ending = TRUE
  /\ socket = "ended" => ending = TRUE /\ (ask.status = "200" => Len(wire) = given)

StreamTypes ==
  /\ ask \in Stream!Asks \cup {None} /\ mode \in {"off", "unset", "empty", "raw", "zip"}
  /\ given \in 0..MaxChunks /\ ending \in BOOLEAN /\ wire \in Seq(Chunks)
  /\ zip \in [state: {"none", "open", "ending", "destroyed"}, left: Seq(Nat)]
  /\ socket \in {"open", "ended", "broken"}
StreamInv ==
  /\ StreamTypes
  /\ ask = None => StreamIsFresh
  /\ ask # None => ModeIsSound /\ WireIsSound /\ EndIsSound

LEMMA StreamConstants ==
  MaxChunks \in Nat /\ FullQ \in Nat \ {0} /\ None \notin Nat /\ None \notin {"br", "gzip"}
BY BackendConstants DEF BackendConstants, Stream!Codings

LEMMA InitStream == Stream!StreamInit => StreamInv
<1> SUFFICES ASSUME Stream!StreamInit PROVE StreamInv
  OBVIOUS
<1>1. ask = None /\ StreamIsFresh
  BY DEF Stream!StreamInit, StreamIsFresh
<1>2. zip \in [state: {"none", "open", "ending", "destroyed"}, left: Seq(Nat)]
  BY <1>1 DEF StreamIsFresh, Stream!NoZip
<1>3. wire \in Seq(Chunks)
  BY <1>1 DEF StreamIsFresh
<1>4. mode = "off" /\ given = 0 /\ ending = FALSE /\ socket = "open"
  BY <1>1 DEF StreamIsFresh
<1>5. StreamTypes
  <2>1. ask \in Stream!Asks \cup {None}
    BY <1>1
  <2>2. given \in 0..MaxChunks
    BY <1>4, StreamConstants
  <2>3. mode \in {"off", "unset", "empty", "raw", "zip"}
    BY <1>4
  <2>4. socket \in {"open", "ended", "broken"} /\ ending \in BOOLEAN
    BY <1>4
  <2> QED BY <1>2, <1>3, <2>1, <2>2, <2>3, <2>4 DEF StreamTypes
<1> QED BY <1>1, <1>5 DEF StreamInv

\* One more at the end of a sequence.
LEMMA Appended ==
  ASSUME NEW S, NEW s \in Seq(S), NEW x \in S
  PROVE  /\ Append(s, x) \in Seq(S) /\ Len(Append(s, x)) = Len(s) + 1 /\ Len(s) \in Nat
         /\ DOMAIN Append(s, x) = DOMAIN s \cup {Len(s) + 1} /\ Len(s) + 1 \notin DOMAIN s
         /\ \A i \in DOMAIN s : Append(s, x)[i] = s[i]
         /\ Append(s, x)[Len(s) + 1] = x
<1>1. /\ Append(s, x) \in Seq(S) /\ Len(Append(s, x)) = Len(s) + 1 /\ Len(s) \in Nat
      /\ \A i \in 1..Len(s) : Append(s, x)[i] = s[i]
      /\ Append(s, x)[Len(s) + 1] = x
  OBVIOUS
<1>2. DOMAIN Append(s, x) = 1..(Len(s) + 1) /\ DOMAIN s = 1..Len(s)
  BY <1>1, LenProperties
<1> QED BY <1>1, <1>2

\* A chunk after the others.
LEMMA OneMore ==
  ASSUME NEW S, NEW s \in Seq(S), NEW x \in S
  PROVE  /\ s \o <<x>> \in Seq(S) /\ Len(s \o <<x>>) = Len(s) + 1
         /\ DOMAIN (s \o <<x>>) = DOMAIN s \cup {Len(s) + 1}
         /\ (s \o <<x>>)[Len(s) + 1] = x /\ \A i \in DOMAIN s : (s \o <<x>>)[i] = s[i]
         /\ s \o << >> = s
<1>1. s \o <<x>> = Append(s, x) /\ s \o << >> = s
  BY AppendIsConcat, ConcatEmptySeq
<1> QED BY <1>1, Appended

Zips == [state: {"none", "open", "ending", "destroyed"}, left: Seq(Nat)]

\* The handler wrote these chunks, and perhaps it ended.
LEMMA HandledStream ==
  ASSUME StreamInv, ask # None, ending = FALSE, ask' = ask, ending' \in BOOLEAN,
         NEW chunks \in {<< >>, <<given + 1>>}, given + Len(chunks) <= MaxChunks,
         Stream!Routed(Stream!InitMode, chunks),
         socket' = IF ending' = TRUE /\ Stream!InitMode # "zip" /\ socket = "open"
                   THEN "ended" ELSE socket
  PROVE  StreamInv'
<1> DEFINE m == Stream!InitMode
           z == Stream!InitZip(m)
           in == IF m = "zip" /\ z.state = "open" THEN chunks ELSE << >>
           none == m = "zip" \/ m = "empty" \/ (m = "off" /\ ask.status = "204") \/ socket # "open"
           out == IF none THEN << >>
                  ELSE [i \in DOMAIN chunks |-> [chunk |-> chunks[i], form |-> "raw"]]
<1>1. /\ StreamTypes /\ ModeIsSound /\ WireIsSound /\ EndIsSound
      /\ ask.status \in {"200", "204"} /\ None \notin Nat
  BY StreamConstants DEF StreamInv, StreamTypes, Stream!Asks
<1>2. /\ given \in Nat /\ wire \in Seq(Chunks) /\ zip \in Zips /\ Len(wire) \in Nat
      /\ mode \in {"off", "unset", "empty", "raw", "zip"} /\ socket \in {"open", "broken"}
  BY <1>1, StreamConstants DEF StreamTypes, Zips, EndIsSound
<1>3. /\ m \in {"off", "empty", "raw", "zip"}
      /\ m = "zip" \/ m = "raw" => ask.status = "200"
      /\ m = "empty" => ask.status = "204"
      /\ m = "off" <=> mode = "off"
      /\ mode # "unset" => m = mode
  BY <1>1, <1>2 DEF Stream!InitMode, ModeIsSound
<1>4. /\ mode' = m /\ header' = Stream!InitHeader(m) /\ wire' = wire \o out
      /\ given' = given + Len(chunks)
      /\ zip' = [z EXCEPT !.left = z.left \o in,
                          !.state = IF ending' /\ z.state = "open" THEN "ending" ELSE z.state]
  BY DEF Stream!Routed
<1>5. /\ header' \in Headers
      /\ header'.encoding = IF m = "zip" THEN Stream!Encoding(ask.q) ELSE None
      /\ m = "zip" => header'.length = FALSE
  <2>1. header \in Headers /\ header.encoding = IF mode = "zip" THEN Stream!Encoding(ask.q) ELSE None
    BY <1>1 DEF ModeIsSound
  <2>2. Stream!Encoding(ask.q) \in {"br", "gzip", None}
    BY DEF Stream!Encoding
  <2>3. CASE mode # "unset"
    <3>1. header' = header /\ m = mode
      BY <1>3, <1>4, <2>3 DEF Stream!InitHeader
    <3> QED BY <1>1, <2>1, <3>1 DEF ModeIsSound
  <2>4. CASE mode = "unset"
    <3>1. /\ header.encoding = None /\ header \in Headers
          /\ m = "zip" => header' = [encoding |-> Stream!Encoding(ask.q), length |-> FALSE]
          /\ m = "empty" => header' = [header EXCEPT !.length = FALSE]
          /\ m = "raw" => header' = header
      BY <1>3, <1>4, <2>1, <2>4 DEF Stream!InitHeader
    <3>2. m \in {"zip", "empty", "raw"}
      BY <1>3, <2>4
    <3>3. m = "empty" => header' \in Headers /\ header'.encoding = None
      BY <3>1 DEF Headers
    <3>4. m = "zip" => header' \in Headers
      <4>1. \A e \in {"br", "gzip", None} : [encoding |-> e, length |-> FALSE] \in Headers
        BY DEF Headers
      <4> QED BY <2>2, <3>1, <4>1
    <3> QED BY <3>1, <3>2, <3>3, <3>4
  <2> QED BY <2>3, <2>4
<1>6. /\ Len(chunks) \in {0, 1} /\ chunks \in Seq(Nat)
      /\ given' \in 0..MaxChunks /\ given' \in Nat /\ given' >= given
  BY <1>2, <1>4, StreamConstants
<1>7. m # "off" => Stream!Encoding(ask.q) # None /\ ask.skipped = FALSE
  BY <1>1, <1>3 DEF ModeIsSound
<1>8. CASE m = "zip"
  <2>1. /\ z \in Zips /\ z.state \in {"open", "destroyed"}
        /\ z.state = "destroyed" => socket # "open"
        /\ socket = "open" /\ z.state = "open" =>
             /\ Len(wire) + Len(z.left) = given
             /\ \A i \in DOMAIN z.left : z.left[i] = Len(wire) + i
    <3>1. CASE mode = "unset"
      <4>1. zip = Stream!NoZip /\ given = 0 /\ Len(wire) = 0
        BY <1>1, <1>2, <3>1 DEF ModeIsSound, WireIsSound
      <4>2. z = [state |-> "open", left |-> << >>]
        BY <1>8, <3>1, <4>1 DEF Stream!InitZip, Stream!NoZip
      <4> QED BY <4>1, <4>2 DEF Zips
    <3>2. CASE mode # "unset"
      <4>1. z = zip /\ mode = "zip"
        BY <1>3, <1>8, <3>2 DEF Stream!InitZip
      <4>2. zip.state # "none" /\ zip.state # "ending"
        BY <1>1, <4>1 DEF ModeIsSound, EndIsSound
      <4>3. z.state \in {"open", "destroyed"}
        BY <1>2, <4>1, <4>2 DEF Zips
      <4> QED BY <1>1, <1>2, <4>1, <4>3 DEF WireIsSound, EndIsSound, Live
    <3> QED BY <3>1, <3>2
  <2> HIDE DEF z
  <2>2. wire' = wire
    BY <1>2, <1>4, <1>8, ConcatEmptySeq
  <2>3. /\ zip' \in Zips
        /\ zip'.left = z.left \o in
        /\ zip'.state = IF ending' = TRUE /\ z.state = "open" THEN "ending" ELSE z.state
    <3>1. z.left \in Seq(Nat) /\ in \in Seq(Nat)
      BY <1>6, <2>1 DEF Zips
    <3>2. z.left \o in \in Seq(Nat)
      BY <3>1, ConcatProperties
    <3> QED BY <1>4, <2>1, <3>2 DEF Zips
  <2>4. socket' = socket
    BY <1>8
  <2>5. ASSUME socket = "open", zip'.state \in {"open", "ending"}
        PROVE  /\ Len(wire) + Len(zip'.left) = given'
               /\ \A i \in DOMAIN zip'.left : zip'.left[i] = Len(wire) + i
    <3>1. z.state = "open" /\ in = chunks /\ z.left \in Seq(Nat) /\ zip'.left = z.left \o chunks
      BY <1>8, <2>1, <2>3, <2>5 DEF Zips
    <3>2. Len(z.left) \in Nat /\ DOMAIN z.left = 1..Len(z.left)
      BY <3>1
    <3>3. CASE chunks = << >>
      <4>1. zip'.left = z.left
        BY <3>1, <3>3, ConcatEmptySeq
      <4> QED BY <1>2, <1>4, <2>1, <2>5, <3>1, <3>3, <4>1
    <3>4. CASE chunks = <<given + 1>>
      <4>1. /\ Len(zip'.left) = Len(z.left) + 1
            /\ DOMAIN zip'.left = DOMAIN z.left \cup {Len(z.left) + 1}
            /\ zip'.left[Len(z.left) + 1] = given + 1
            /\ \A i \in DOMAIN z.left : zip'.left[i] = z.left[i]
        BY <1>2, <3>1, <3>4, OneMore
      <4>2. Len(chunks) = 1
        BY <3>4
      <4>3. /\ Len(wire) + Len(z.left) = given
            /\ \A i \in DOMAIN z.left : z.left[i] = Len(wire) + i
        BY <2>1, <2>5, <3>1
      <4>4. Len(wire) + Len(zip'.left) = given'
        <5>1. given' = given + 1
          BY <1>4, <4>2
        <5>2. Len(zip'.left) = Len(z.left) + 1 /\ Len(wire) \in Nat /\ Len(z.left) \in Nat
          BY <1>2, <3>2, <4>1
        <5>3. Len(wire) + Len(z.left) = given
          BY <4>3
        <5> QED BY <5>1, <5>2, <5>3
      <4>5. zip'.left[Len(z.left) + 1] = Len(wire) + (Len(z.left) + 1)
        BY <1>2, <3>2, <4>1, <4>3
      <4> QED BY <4>1, <4>3, <4>4, <4>5
    <3> QED BY <3>3, <3>4
  <2>6. StreamTypes'
    <3>1. zip' \in [state: {"none", "open", "ending", "destroyed"}, left: Seq(Nat)]
      BY <2>3 DEF Zips
    <3>2. mode' \in {"off", "unset", "empty", "raw", "zip"} /\ socket' \in {"open", "ended", "broken"}
      BY <1>2, <1>4, <1>8, <2>4
    <3> QED BY <1>1, <1>2, <1>6, <2>2, <3>1, <3>2 DEF StreamTypes
  <2>7. ModeIsSound'
    BY <1>3, <1>4, <1>5, <1>7, <1>8, <2>1, <2>3 DEF ModeIsSound
  <2>8. WireIsSound'
    <3>1. \A i \in DOMAIN wire : wire[i] = [chunk |-> i, form |-> "zip"]
      <4>1. CASE mode = "unset"
        <5>1. given = 0 /\ Len(wire) = 0 /\ DOMAIN wire = 1..Len(wire)
          BY <1>1, <1>2, <4>1 DEF ModeIsSound, WireIsSound
        <5> QED BY <5>1
      <4>2. CASE mode = "zip"
        BY <1>1, <4>2 DEF WireIsSound
      <4> QED BY <1>3, <1>8, <4>1, <4>2
    <3>2. Len(wire) <= given'
      BY <1>1, <1>2, <1>6 DEF WireIsSound
    <3> QED BY <1>1, <1>3, <1>4, <1>8, <2>2, <2>4, <2>5, <3>1, <3>2 DEF WireIsSound, Live
  <2>9. EndIsSound'
    BY <1>2, <2>1, <2>3, <2>4 DEF EndIsSound
  <2> QED BY <2>6, <2>7, <2>8, <2>9 DEF StreamInv
<1>9. CASE m # "zip"
  <2>1. zip = Stream!NoZip /\ z = zip /\ in = << >>
    BY <1>1, <1>3, <1>9 DEF ModeIsSound, Stream!InitZip
  <2>2. zip' = Stream!NoZip
    <3>1. z.left = << >> /\ z.state = "none" /\ z = [state |-> "none", left |-> << >>]
      BY <2>1 DEF Stream!NoZip
    <3>2. z.left \o in = << >>
      BY <2>1, <3>1, ConcatEmptySeq
    <3> HIDE DEF z, in
    <3>3. zip' = [z EXCEPT !.left = << >>, !.state = "none"]
      BY <1>4, <3>1, <3>2
    <3> QED BY <3>1, <3>3 DEF Stream!NoZip
  <2>3. zip' \in Zips /\ zip'.state = "none" /\ zip'.left = << >>
    BY <2>2 DEF Zips, Stream!NoZip
  <2>4. CASE none \/ chunks = << >>
    <3>1. out = << >>
      BY <2>4
    <3>2. wire' = wire
      BY <1>2, <1>4, <3>1, ConcatEmptySeq
    <3>3. StreamTypes'
      <4>1. mode' \in {"off", "unset", "empty", "raw", "zip"} /\ socket' \in {"open", "ended", "broken"}
        BY <1>2, <1>3, <1>4
      <4> QED BY <1>1, <1>2, <1>6, <2>3, <3>2, <4>1 DEF StreamTypes, Zips
    <3>4. ModeIsSound'
      BY <1>3, <1>4, <1>5, <1>7, <1>9, <2>2 DEF ModeIsSound
    <3>5. socket = "open" /\ ask.status = "200" => Len(wire) = given /\ given' = given
      <4>1. ASSUME socket = "open", ask.status = "200" PROVE Len(wire) = given /\ given' = given
        <5>1. chunks = << >> /\ mode \in {"off", "unset", "raw"}
          BY <1>2, <1>3, <1>9, <2>4, <4>1
        <5> QED BY <1>1, <1>2, <1>4, <4>1, <5>1 DEF WireIsSound
      <4> QED BY <4>1
    <3>6. WireIsSound'
      <4>1. /\ Len(wire) <= given'
            /\ ask.status = "204" => wire = << >>
        BY <1>1, <1>2, <1>6 DEF WireIsSound
      <4>2. \A i \in DOMAIN wire : wire[i] = [chunk |-> i, form |-> "raw"]
        BY <1>1, <1>3, <1>9 DEF WireIsSound
      <4>3. socket' = "open" => socket = "open"
        BY <1>2
      <4> QED BY <1>4, <1>9, <2>3, <3>2, <3>5, <4>1, <4>2, <4>3 DEF WireIsSound, Live
    <3>7. EndIsSound'
      BY <1>2, <2>3, <3>2, <3>5 DEF EndIsSound
    <3> QED BY <3>3, <3>4, <3>6, <3>7 DEF StreamInv
  <2>5. CASE ~none /\ chunks = <<given + 1>>
    <3>1. out = <<[chunk |-> given + 1, form |-> "raw"]>> /\ Len(chunks) = 1
      BY <2>5
    <3>2. /\ ask.status = "200" /\ socket = "open" /\ mode \in {"off", "unset", "raw"}
          /\ m \in {"off", "raw"}
      BY <1>1, <1>2, <1>3, <2>5
    <3>3. Len(wire) = given /\ DOMAIN wire = 1..Len(wire)
      BY <1>1, <1>2, <3>2 DEF WireIsSound
    <3>4. [chunk |-> given + 1, form |-> "raw"] \in Chunks
      BY <1>2 DEF Chunks
    <3>5. /\ wire' \in Seq(Chunks) /\ Len(wire') = Len(wire) + 1
          /\ DOMAIN wire' = DOMAIN wire \cup {Len(wire) + 1}
          /\ wire'[Len(wire) + 1] = [chunk |-> given + 1, form |-> "raw"]
          /\ \A i \in DOMAIN wire : wire'[i] = wire[i]
      BY <1>2, <1>4, <3>1, <3>4, OneMore
    <3>6. StreamTypes'
      <4>1. mode' \in {"off", "unset", "empty", "raw", "zip"} /\ socket' \in {"open", "ended", "broken"}
        BY <1>2, <1>3, <1>4
      <4> QED BY <1>1, <1>6, <2>3, <3>5, <4>1 DEF StreamTypes, Zips
    <3>7. ModeIsSound'
      BY <1>3, <1>4, <1>5, <1>7, <1>9, <2>2 DEF ModeIsSound
    <3>8. Len(wire') = given'
      BY <1>2, <1>4, <3>1, <3>3, <3>5
    <3>9. \A i \in DOMAIN wire' : wire'[i] = [chunk |-> i, form |-> "raw"]
      <4>1. \A i \in DOMAIN wire : wire[i] = [chunk |-> i, form |-> "raw"]
        BY <1>1, <3>2 DEF WireIsSound
      <4> QED BY <3>3, <3>5, <4>1
    <3>10. WireIsSound'
      <4>1. Len(wire') <= given'
        BY <1>6, <3>8
      <4> QED BY <1>4, <1>9, <2>3, <3>2, <3>8, <3>9, <4>1 DEF WireIsSound, Live
    <3>11. EndIsSound'
      BY <1>2, <2>3, <3>8 DEF EndIsSound
    <3> QED BY <3>6, <3>7, <3>10, <3>11 DEF StreamInv
  <2> QED BY <2>4, <2>5
<1> QED BY <1>8, <1>9
\* The compressor is there only when the response is compressed.
LEMMA LiveMeansZip ==
  ASSUME StreamInv, Live
  PROVE  ask # None /\ mode = "zip" /\ zip \in Zips
<1>1. zip # Stream!NoZip
  BY DEF Live, Stream!NoZip
<1> QED BY <1>1 DEF StreamInv, StreamTypes, StreamIsFresh, ModeIsSound, Zips

\* The compressor is gone, and the response is over.
LEMMA DestroyedStream ==
  ASSUME StreamInv, Live, zip' = [state |-> "destroyed", left |-> << >>],
         UNCHANGED <<ask, header, mode, given, ending, wire>>,
         \/ socket' = IF socket = "open" THEN "broken" ELSE socket
         \/ /\ zip.state = "ending" /\ zip.left = << >>
            /\ socket' = IF socket = "open" THEN "ended" ELSE socket
  PROVE  StreamInv'
<1>1. /\ StreamTypes /\ ModeIsSound /\ WireIsSound /\ EndIsSound
      /\ ask # None /\ mode = "zip"
  BY LiveMeansZip DEF StreamInv
<1>2. /\ ask' = ask /\ header' = header /\ mode' = mode /\ given' = given /\ ending' = ending
      /\ wire' = wire
  OBVIOUS
<1>3. zip' \in Zips /\ zip'.state = "destroyed"
  BY DEF Zips
<1>4. socket' \in {"ended", "broken"} /\ (socket' = "ended" => ending = TRUE)
  BY <1>1 DEF StreamTypes, EndIsSound
<1>5. ask.status = "200" /\ socket' = "ended" => Len(wire) = given
  <2>1. CASE socket # "open"
    BY <1>1, <2>1 DEF EndIsSound, StreamTypes
  <2>2. CASE socket = "open"
    <3>1. socket' = "ended" => zip.left = << >>
      BY <2>2
    <3>2. wire \in Seq(Chunks) /\ Len(wire) \in Nat
      BY <1>1 DEF StreamTypes
    <3>3. Len(wire) + Len(zip.left) = given
      BY <1>1, <2>2 DEF WireIsSound
    <3> QED BY <3>1, <3>2, <3>3
  <2> QED BY <2>1, <2>2
<1>6. StreamTypes'
  BY <1>1, <1>2, <1>3, <1>4 DEF StreamTypes, Zips
<1>7. ModeIsSound'
  BY <1>1, <1>2, <1>3 DEF ModeIsSound
<1>8. WireIsSound'
  BY <1>1, <1>2, <1>3, <1>4 DEF WireIsSound, Live
<1>9. EndIsSound'
  BY <1>1, <1>2, <1>3, <1>4, <1>5 DEF EndIsSound
<1> QED BY <1>1, <1>2, <1>6, <1>7, <1>8, <1>9 DEF StreamInv

LEMMA DataStream == StreamInv /\ Stream!Data => StreamInv'
<1> SUFFICES ASSUME StreamInv, Stream!Data PROVE StreamInv'
  OBVIOUS
<1>1. Live /\ zip.left # << >>
  BY DEF Stream!Data, Live
<1>2. /\ StreamTypes /\ ModeIsSound /\ WireIsSound /\ EndIsSound
      /\ ask # None /\ mode = "zip" /\ zip \in Zips
  BY <1>1, LiveMeansZip DEF StreamInv
<1>3. /\ ask' = ask /\ header' = header /\ mode' = mode /\ given' = given /\ ending' = ending
      /\ socket' = socket
      /\ zip' = [zip EXCEPT !.left = Tail(zip.left)]
      /\ wire' = IF socket = "open" THEN Append(wire, [chunk |-> Head(zip.left), form |-> "zip"])
                 ELSE wire
  BY DEF Stream!Data
<1>4. /\ zip.left \in Seq(Nat) /\ wire \in Seq(Chunks) /\ Len(wire) \in Nat /\ given \in Nat
      /\ Len(zip.left) \in Nat /\ Len(zip.left) > 0 /\ DOMAIN zip.left = 1..Len(zip.left)
      /\ DOMAIN wire = 1..Len(wire)
  BY <1>1, <1>2, StreamConstants DEF Zips, StreamTypes
<1>5. /\ Tail(zip.left) \in Seq(Nat) /\ Len(Tail(zip.left)) = Len(zip.left) - 1
      /\ \A i \in DOMAIN Tail(zip.left) :
           i + 1 \in DOMAIN zip.left /\ Tail(zip.left)[i] = zip.left[i + 1]
      /\ Head(zip.left) = zip.left[1] /\ 1 \in DOMAIN zip.left
  BY <1>1, <1>4
<1>6. /\ zip' \in Zips /\ zip'.state = zip.state /\ zip'.left = Tail(zip.left)
  BY <1>2, <1>3, <1>5 DEF Zips
<1>7. CASE socket # "open"
  <2>1. wire' = wire
    BY <1>3, <1>7
  <2>2. StreamTypes'
    BY <1>2, <1>3, <1>6, <2>1 DEF StreamTypes, Zips
  <2>3. ModeIsSound' /\ EndIsSound'
    BY <1>2, <1>3, <1>6, <2>1 DEF ModeIsSound, EndIsSound
  <2>4. WireIsSound'
    BY <1>2, <1>3, <1>7, <2>1 DEF WireIsSound
  <2> QED BY <1>2, <1>3, <2>2, <2>3, <2>4 DEF StreamInv
<1>8. CASE socket = "open"
  <2> DEFINE c == [chunk |-> Head(zip.left), form |-> "zip"]
  <2>1. /\ Len(wire) + Len(zip.left) = given
        /\ \A i \in DOMAIN zip.left : zip.left[i] = Len(wire) + i
    BY <1>1, <1>2, <1>8 DEF WireIsSound
  <2>2. Head(zip.left) = Len(wire) + 1 /\ c = [chunk |-> Len(wire) + 1, form |-> "zip"]
    BY <1>5, <2>1
  <2>3. c \in Chunks
    BY <1>4, <2>2 DEF Chunks
  <2>4. /\ wire' \in Seq(Chunks) /\ Len(wire') = Len(wire) + 1
        /\ \A i \in 1..Len(wire) : wire'[i] = wire[i]
        /\ wire'[Len(wire) + 1] = c /\ DOMAIN wire' = 1..(Len(wire) + 1)
    <3>1. wire' = Append(wire, c)
      BY <1>3, <1>8
    <3> HIDE DEF c
    <3>2. /\ wire' \in Seq(Chunks) /\ Len(wire') = Len(wire) + 1
          /\ \A i \in 1..Len(wire) : wire'[i] = wire[i]
          /\ wire'[Len(wire) + 1] = c
      BY <1>4, <2>3, <3>1, AppendProperties
    <3> QED BY <3>2, LenProperties
  <2>5. StreamTypes'
    BY <1>2, <1>3, <1>6, <2>4 DEF StreamTypes, Zips
  <2>6. ModeIsSound' /\ EndIsSound'
    BY <1>2, <1>3, <1>6, <1>8 DEF ModeIsSound, EndIsSound
  <2>7. WireIsSound'
    <3>1. Len(wire') <= given' /\ Len(wire') + Len(zip'.left) = given'
      <4>1. Len(wire') = Len(wire) + 1 /\ Len(zip'.left) = Len(zip.left) - 1 /\ given' = given
        BY <1>3, <1>5, <1>6, <2>4
      <4>2. Len(wire) + Len(zip.left) = given
        BY <2>1
      <4>3. /\ Len(wire) \in Nat /\ Len(zip.left) \in Nat /\ Len(zip.left) > 0
            /\ given \in Nat
        BY <1>4
      <4>4. Len(wire') + Len(zip'.left) = given'
        <5>1. \A a, b \in Nat : (a + 1) + (b - 1) = a + b
          OBVIOUS
        <5>2. (Len(wire) + 1) + (Len(zip.left) - 1) = Len(wire) + Len(zip.left)
          BY <4>3, <5>1, Zenon
        <5>3. Len(wire') + Len(zip'.left) = (Len(wire) + 1) + (Len(zip.left) - 1)
          BY <4>1
        <5> QED BY <4>1, <4>2, <5>2, <5>3
      <4>5. Len(wire) + 1 <= given
        BY <4>2, <4>3
      <4> QED BY <4>1, <4>4, <4>5
    <3>2. \A i \in DOMAIN wire' : wire'[i] = [chunk |-> i, form |-> "zip"]
      <4>1. \A i \in 1..Len(wire) : wire[i] = [chunk |-> i, form |-> "zip"]
        BY <1>2, <1>4 DEF WireIsSound
      <4> QED BY <1>4, <2>2, <2>4, <4>1
    <3>3. \A i \in DOMAIN zip'.left : zip'.left[i] = Len(wire') + i
      <4>1. \A i \in DOMAIN Tail(zip.left) : i \in Nat
        BY <1>5
      <4>2. \A i \in DOMAIN Tail(zip.left) : Tail(zip.left)[i] = Len(wire) + (i + 1)
        BY <1>5, <2>1
      <4>3. Len(wire') = Len(wire) + 1 /\ Len(wire) \in Nat /\ zip'.left = Tail(zip.left)
        BY <1>4, <1>6, <2>4
      <4>4. \A m \in Nat : \A i \in Nat : m + (i + 1) = (m + 1) + i
        OBVIOUS
      <4>5. \A i \in DOMAIN Tail(zip.left) : Tail(zip.left)[i] = (Len(wire) + 1) + i
        BY <4>1, <4>2, <4>3, <4>4, Zenon
      <4> QED BY <4>3, <4>5, Zenon
    <3>4. ask.status # "204"
      BY <1>2, StreamConstants DEF ModeIsSound
    <3> QED BY <1>2, <1>3, <3>1, <3>2, <3>3, <3>4 DEF WireIsSound
  <2> QED BY <1>2, <1>3, <2>5, <2>6, <2>7 DEF StreamInv
<1> QED BY <1>7, <1>8

LEMMA StepStream == StreamInv /\ [Stream!StreamNext]_(Stream!streamVars) => StreamInv'
<1> SUFFICES ASSUME StreamInv, [Stream!StreamNext]_(Stream!streamVars) PROVE StreamInv'
  OBVIOUS
<1>1. CASE UNCHANGED Stream!streamVars
  BY <1>1 DEF Stream!streamVars, StreamInv, StreamTypes, StreamIsFresh, ModeIsSound, WireIsSound,
    EndIsSound, Live
<1>2. ASSUME NEW a \in Stream!Asks, Stream!Arrive(a) PROVE StreamInv'
  <2>1. /\ ask = None /\ StreamIsFresh /\ StreamTypes
        /\ ask' = a /\ header' = [encoding |-> None, length |-> a.length]
        /\ mode' = IF a.skipped \/ Stream!Encoding(a.q) = None THEN "off" ELSE "unset"
        /\ given' = given /\ ending' = ending /\ zip' = zip /\ wire' = wire /\ socket' = socket
    BY <1>2 DEF Stream!Arrive, StreamInv
  <2>2. a.length \in BOOLEAN /\ a.skipped \in BOOLEAN /\ a.status \in {"200", "204"}
    BY DEF Stream!Asks
  <2>3. header' \in Headers /\ header'.encoding = None
    BY <2>1, <2>2 DEF Headers
  <2>4. StreamTypes'
    BY <2>1 DEF StreamTypes
  <2>5. a # None
    BY BackendConstants DEF BackendConstants
  <2>6. ModeIsSound'
    BY <2>1, <2>2, <2>3 DEF ModeIsSound, StreamIsFresh
  <2>7. WireIsSound'
    BY <2>1 DEF WireIsSound, StreamIsFresh, Live, Stream!NoZip
  <2>8. EndIsSound'
    BY <2>1 DEF EndIsSound, StreamIsFresh, Stream!NoZip
  <2> QED BY <2>1, <2>4, <2>5, <2>6, <2>7, <2>8 DEF StreamInv
<1>3. ASSUME Stream!Write PROVE StreamInv'
  <2>1. /\ ask # None /\ ending = FALSE /\ given < MaxChunks /\ ending' = ending
        /\ ask' = ask /\ socket' = socket /\ Stream!Routed(Stream!InitMode, <<given + 1>>)
    <3>1. ending \in BOOLEAN
      BY DEF StreamInv, StreamTypes
    <3> QED BY <1>3, <3>1 DEF Stream!Write, Stream!Handling
  <2>2. given + Len(<<given + 1>>) <= MaxChunks
    BY <2>1, StreamConstants DEF StreamInv, StreamTypes
  <2> QED BY <2>1, <2>2, HandledStream
<1>4. ASSUME Stream!End PROVE StreamInv'
  <2>1. /\ ask # None /\ ending = FALSE /\ ending' = TRUE /\ ask' = ask
        /\ socket' = IF Stream!InitMode # "zip" /\ socket = "open" THEN "ended" ELSE socket
    <3>1. ending \in BOOLEAN
      BY DEF StreamInv, StreamTypes
    <3> QED BY <1>4, <3>1 DEF Stream!End, Stream!Handling, Stream!EndsNow
  <2>2. PICK chunks \in {<< >>, <<given + 1>>} :
          given + Len(chunks) <= MaxChunks /\ Stream!Routed(Stream!InitMode, chunks)
    BY <1>4 DEF Stream!End
  <2> QED BY <2>1, <2>2, HandledStream
<1>5. ASSUME Stream!Finish PROVE StreamInv'
  BY <1>5, DestroyedStream DEF Stream!Finish, Stream!Destroyed, Live
<1>6. ASSUME Stream!Break PROVE StreamInv'
  BY <1>6, DestroyedStream DEF Stream!Break, Stream!Destroyed, Live
<1>7. ASSUME Stream!Disconnect PROVE StreamInv'
  <2>1. /\ ask # None /\ socket = "open" /\ socket' = "broken"
        /\ ask' = ask /\ header' = header /\ mode' = mode /\ given' = given /\ ending' = ending
        /\ wire' = wire /\ Stream!OnClose
    BY <1>7 DEF Stream!Disconnect
  <2>2. CASE Live
    <3>1. zip' = [state |-> "destroyed", left |-> << >>]
      BY <2>1, <2>2 DEF Live, Stream!OnClose, Stream!Destroyed
    <3> QED BY <2>1, <2>2, <3>1, DestroyedStream
  <2>3. CASE ~Live
    <3>1. zip' = zip
      BY <2>1, <2>3 DEF Live, Stream!OnClose
    <3> QED BY <2>1, <3>1 DEF StreamInv, StreamTypes, ModeIsSound, WireIsSound, EndIsSound, Live
  <2> QED BY <2>2, <2>3
<1> QED BY <1>1, <1>2, <1>3, <1>4, <1>5, <1>6, <1>7, DataStream DEF Stream!StreamNext, Stream!Zlib

LEMMA StreamKeeps == StreamInv => Stream!StreamTypeOK /\ Stream!AnswersAreWhole
<1> SUFFICES ASSUME StreamInv PROVE Stream!StreamTypeOK /\ Stream!AnswersAreWhole
  OBVIOUS
<1>1. Stream!StreamTypeOK
  BY DEF StreamInv, StreamTypes, Stream!StreamTypeOK
<1>2. SUFFICES ASSUME ask # None PROVE Stream!AnswersAreWhole
  BY <1>1 DEF Stream!AnswersAreWhole
<1>3. /\ StreamTypes /\ ModeIsSound /\ WireIsSound /\ EndIsSound
      /\ ask \in Stream!Asks
  BY <1>2 DEF StreamInv, StreamTypes
<1>4. header.encoding # None <=> mode = "zip"
  BY <1>3 DEF ModeIsSound
<1>5. /\ \A i \in DOMAIN wire : wire[i].chunk = i
           /\ wire[i].form = IF header.encoding = None THEN "raw" ELSE "zip"
      /\ ask.status = "204" => wire = << >>
      /\ socket = "ended" /\ ask.status = "200" => Len(wire) = given
  BY <1>3, <1>4 DEF WireIsSound, EndIsSound
<1>6. ASSUME header.encoding # None
      PROVE  /\ ~header.length /\ ask.q[header.encoding] # 0 /\ ~ask.skipped
             /\ ask.q[header.encoding] # None \/ ask.q["*"] # None
             /\ \A c \in Stream!Codings : ask.q[c] # None /\ ask.q[header.encoding] # None
                                   => ask.q[c] <= ask.q[header.encoding]
  <2>1. /\ header.length = FALSE /\ ask.skipped = FALSE
        /\ header.encoding = Stream!Encoding(ask.q) /\ Stream!Encoding(ask.q) # None
    BY <1>3, <1>4, <1>6 DEF ModeIsSound
  <2> DEFINE q == ask.q
             e == header.encoding
  <2>2. q \in [{"br", "gzip"} \cup {"*"} -> 0..FullQ \cup {None}]
    BY <1>3 DEF Stream!Asks, Stream!Codings
  <2>3. /\ q["br"] \in 0..FullQ \cup {None} /\ q["gzip"] \in 0..FullQ \cup {None}
        /\ q["*"] \in 0..FullQ \cup {None}
    BY <2>2
  <2>4. /\ e = Stream!Encoding(q) /\ Stream!Encoding(q) # None
    BY <2>1
  <2> HIDE DEF q, e
  <2>5. /\ q[e] # 0 /\ (q[e] # None \/ q["*"] # None)
        /\ \A c \in {"br", "gzip"} : q[c] # None /\ q[e] # None => q[c] <= q[e]
    BY <2>3, <2>4, StreamConstants DEF Stream!Encoding, Stream!Weight, Stream!Codings
  <2> QED BY <2>1, <2>5 DEF q, e, Stream!Codings
<1> QED BY <1>1, <1>5, <1>6 DEF Stream!AnswersAreWhole
-----------------------------------------------------------------------------
(* Posting *)

PinStates == [state: {"trying"}, tries: 0..PinAttempts - 1]
             \cup [state: {"pinned", "failed"}, tries: 0..PinAttempts]
PinMaps == UNION {[S -> PinStates] : S \in SUBSET Observation}
StageMaps == UNION {[S -> Posting!Stage] : S \in SUBSET (1..BatchSize)}
TimeMaps == UNION {[S -> Posting!Time] : S \in SUBSET (1..BatchSize)}
PostForms == [items: Posting!Batch \cup {<< >>}, stamp: Posting!Time, pins: PinMaps,
              stage: StageMaps, chainId: TimeMaps, answer: Posting!Answer]

\* A request against what IPFS holds and the items that have a row: the items go
\* on when all pins have, an item has its row from its insert on and no sooner,
\* and 201 is said when all of them have.
PostIsSound(q, ipfs, done) ==
  /\ q \in PostForms
  /\ q.pins \in [Posting!Observations(q.items) -> PinStates]
  /\ q.stage \in [DOMAIN q.items -> Posting!Stage]
  /\ q.chainId \in [DOMAIN q.items -> Posting!Time]
  /\ done \subseteq DOMAIN q.items
  /\ \A obs \in DOMAIN q.pins :
       q.pins[obs].state = "pinned" => [obs |-> obs, stamp |-> q.stamp] \in ipfs
  /\ \A i \in DOMAIN q.items : q.stage[i] # "pin" =>
       \A obs \in DOMAIN q.pins : q.pins[obs].state = "pinned"
  /\ \A i \in DOMAIN q.items : q.stage[i] = "pin" =>
       \A j \in DOMAIN q.items : q.stage[j] = "pin"
  /\ \A i \in DOMAIN q.items :
       /\ q.stage[i] \in {"pin", "post", "insert"} => i \notin done
       /\ q.stage[i] = "stored" => i \in done
  /\ q.answer = "201" => \A i \in DOMAIN q.items : q.stage[i] = "stored"

CidIn(reqs, r, i) == [obs |-> reqs[r].items[i], stamp |-> reqs[r].stamp]
RowsAreSound ==
  /\ rows \in Seq(Posting!Row)
  /\ \A n \in DOMAIN rows :
       /\ rows[n].req \in PostRequest
       /\ rows[n].cid \in postPinned
       /\ rows[n].cid = CidIn(postReq, rows[n].req, rows[n].item)
  /\ \A k, n \in DOMAIN rows :
       rows[k].req = rows[n].req /\ rows[k].item = rows[n].item => k = n

PostInv ==
  /\ mockMode \in BOOLEAN /\ postNow \in Posting!Time /\ postPinned \subseteq Posting!Payload
  /\ DOMAIN postReq = PostRequest /\ postReq = [r \in PostRequest |-> postReq[r]]
  /\ \A r \in PostRequest : PostIsSound(postReq[r], postPinned, Posting!RowsOf(r))
  /\ RowsAreSound

LEMMA PostConstants ==
  BatchSize \in Nat \ {0} /\ PinAttempts \in Nat \ {0} /\ PostTime \in Nat
BY BackendConstants DEF BackendConstants, Posting!GistPostingConstants

LEMMA BatchForm ==
  ASSUME NEW items \in Posting!Batch \cup {<< >>}
  PROVE  /\ DOMAIN items \in SUBSET (1..BatchSize) /\ DOMAIN items \subseteq Nat
         /\ \A i \in DOMAIN items : items[i] \in Observation
         /\ Posting!Observations(items) \subseteq Observation
         /\ \A i \in DOMAIN items : items[i] \in Posting!Observations(items)
         /\ DOMAIN items = {} => Posting!Observations(items) = {}
         /\ items \in Posting!Batch => 1 \in DOMAIN items
<1>1. CASE items = << >>
  <2>1. DOMAIN items = {} /\ items \notin Posting!Batch
    <3>1. DOMAIN items = {}
      BY <1>1
    <3>2. ASSUME NEW n \in 1..BatchSize, NEW b \in [1..n -> Observation] PROVE 1 \in DOMAIN b
      BY PostConstants
    <3> QED BY <3>1, <3>2 DEF Posting!Batch
  <2> QED BY <2>1 DEF Posting!Observations
<1>2. CASE items \in Posting!Batch
  <2>1. PICK n \in 1..BatchSize : items \in [1..n -> Observation]
    BY <1>2 DEF Posting!Batch
  <2>2. DOMAIN items = 1..n /\ 1..n \subseteq 1..BatchSize /\ 1 \in 1..n /\ 1..n \subseteq Nat
    BY <2>1, PostConstants
  <2> QED BY <2>1, <2>2 DEF Posting!Observations
<1> QED BY <1>1, <1>2

\* The fields of a request and what an update of one of them gives.
LEMMA PostFields ==
  ASSUME NEW q \in PostForms
  PROVE  /\ q.items \in Posting!Batch \cup {<< >>} /\ q.stamp \in Posting!Time
         /\ q.pins \in PinMaps /\ q.stage \in StageMaps /\ q.chainId \in TimeMaps
         /\ q.answer \in Posting!Answer
BY DEF PostForms

LEMMA SetPins ==
  ASSUME NEW q \in PostForms, NEW p \in PinMaps, NEW u, u = [q EXCEPT !.pins = p]
  PROVE  /\ u \in PostForms /\ u.pins = p /\ u.items = q.items /\ u.stamp = q.stamp
         /\ u.stage = q.stage /\ u.chainId = q.chainId /\ u.answer = q.answer
BY DEF PostForms

LEMMA SetStage ==
  ASSUME NEW q \in PostForms, NEW s \in StageMaps, NEW u, u = [q EXCEPT !.stage = s]
  PROVE  /\ u \in PostForms /\ u.stage = s /\ u.items = q.items /\ u.stamp = q.stamp
         /\ u.pins = q.pins /\ u.chainId = q.chainId /\ u.answer = q.answer
BY DEF PostForms

LEMMA SetChainId ==
  ASSUME NEW q \in PostForms, NEW c \in TimeMaps, NEW u, u = [q EXCEPT !.chainId = c]
  PROVE  /\ u \in PostForms /\ u.chainId = c /\ u.items = q.items /\ u.stamp = q.stamp
         /\ u.pins = q.pins /\ u.stage = q.stage /\ u.answer = q.answer
BY DEF PostForms

LEMMA SetAnswer ==
  ASSUME NEW q \in PostForms, NEW a \in Posting!Answer, NEW u, u = [q EXCEPT !.answer = a]
  PROVE  /\ u \in PostForms /\ u.answer = a /\ u.items = q.items /\ u.stamp = q.stamp
         /\ u.pins = q.pins /\ u.stage = q.stage /\ u.chainId = q.chainId
BY DEF PostForms
LEMMA NothingPosted == Posting!Init => PostInv
<1> SUFFICES ASSUME Posting!Init PROVE PostInv
  OBVIOUS
<1>1. /\ mockMode \in BOOLEAN /\ postNow = 0 /\ postPinned = {} /\ rows = << >>
      /\ postReq = [r \in PostRequest |-> Posting!Idle]
  BY DEF Posting!Init
<1>2. 0 \in Posting!Time
  BY PostConstants DEF Posting!Time
<1>3. \A S : << >> \in [{} -> S]
  OBVIOUS
<1>4. DOMAIN << >> = {} /\ Posting!Observations(<< >>) = {}
  BY DEF Posting!Observations
<1>5. << >> \in PinMaps /\ << >> \in StageMaps /\ << >> \in TimeMaps
  <2>1. {} \in SUBSET Observation /\ {} \in SUBSET (1..BatchSize)
    OBVIOUS
  <2> QED BY <1>3, <2>1 DEF PinMaps, StageMaps, TimeMaps
<1>6. /\ Posting!Idle.items = << >> /\ Posting!Idle.pins = << >> /\ Posting!Idle.stage = << >>
      /\ Posting!Idle.chainId = << >> /\ Posting!Idle.answer = "none"
  BY DEF Posting!Idle
<1>7. Posting!Idle \in PostForms
  BY <1>2, <1>5 DEF PostForms, Posting!Idle, Posting!Answer
<1>8. PostIsSound(Posting!Idle, {}, {})
  BY <1>3, <1>4, <1>6, <1>7 DEF PostIsSound
<1>9. \A r \in PostRequest : Posting!RowsOf(r) = {}
  BY <1>1 DEF Posting!RowsOf
<1>10. RowsAreSound
  <2>1. << >> \in Seq(Posting!Row)
    OBVIOUS
  <2> QED BY <1>1, <1>4, <2>1 DEF RowsAreSound
<1> QED BY <1>1, <1>2, <1>8, <1>9, <1>10 DEF PostInv

\* One request takes a step: the others and their rows are as they were.
LEMMA PostedStep ==
  ASSUME PostInv, NEW r \in PostRequest, NEW q, postReq' = [postReq EXCEPT ![r] = q],
         mockMode' = mockMode, postNow' = postNow,
         postPinned' \subseteq Posting!Payload, postPinned \subseteq postPinned',
         \/ postReq[r] = Posting!Idle /\ rows' = rows
         \/ /\ q.items = postReq[r].items /\ q.stamp = postReq[r].stamp
            /\ \/ rows' = rows
               \/ \E i \in DOMAIN postReq[r].items :
                    postReq[r].stage[i] = "insert" /\ rows' = Append(rows, Posting!RowOf(r, i)),
         PostIsSound(q, postPinned', Posting!RowsOf(r)')
  PROVE  PostInv'
<1>1. /\ \A s \in PostRequest : postReq'[s] = IF s = r THEN q ELSE postReq[s]
      /\ DOMAIN postReq' = PostRequest /\ postReq' = [s \in PostRequest |-> postReq'[s]]
  BY DEF PostInv
<1>2. RowsAreSound /\ rows \in Seq(Posting!Row) /\ Len(rows) \in Nat /\ DOMAIN rows = 1..Len(rows)
  BY DEF PostInv, RowsAreSound
<1>3. PostIsSound(postReq[r], postPinned, Posting!RowsOf(r))
  BY DEF PostInv
<1>4. \A s \in PostRequest : PostIsSound(postReq[s], postPinned, Posting!RowsOf(s))
  BY DEF PostInv
<1>5. \A s \in PostRequest : PostIsSound(postReq[s], postPinned', Posting!RowsOf(s))
  BY <1>4 DEF PostIsSound
<1>6. ASSUME NEW n \in DOMAIN rows
      PROVE  CidIn(postReq', rows[n].req, rows[n].item) = rows[n].cid
  <2>1. /\ rows[n].req \in PostRequest /\ rows[n].item \in Posting!RowsOf(rows[n].req)
        /\ rows[n].cid = CidIn(postReq, rows[n].req, rows[n].item)
    BY <1>2, <1>6 DEF RowsAreSound, Posting!RowsOf
  <2>2. rows[n].item \in DOMAIN postReq[rows[n].req].items
    BY <1>4, <2>1 DEF PostIsSound
  <2>3. rows[n].req = r => postReq[r] # Posting!Idle
    BY <2>2 DEF Posting!Idle
  <2>4. /\ postReq'[rows[n].req].items = postReq[rows[n].req].items
        /\ postReq'[rows[n].req].stamp = postReq[rows[n].req].stamp
    BY <1>1, <2>1, <2>3
  <2> QED BY <2>1, <2>4 DEF CidIn
<1>7. CASE rows' = rows
  <2>1. \A s \in PostRequest : Posting!RowsOf(s)' = Posting!RowsOf(s)
    BY <1>7 DEF Posting!RowsOf
  <2>2. \A s \in PostRequest : PostIsSound(postReq'[s], postPinned', Posting!RowsOf(s)')
    BY <1>1, <1>5, <2>1
  <2>3. RowsAreSound'
    <3>1. \A n \in DOMAIN rows : rows[n].req \in PostRequest /\ rows[n].cid \in postPinned'
      BY <1>2 DEF RowsAreSound
    <3>2. \A k, n \in DOMAIN rows :
            rows[k].req = rows[n].req /\ rows[k].item = rows[n].item => k = n
      BY <1>2 DEF RowsAreSound
    <3> QED BY <1>2, <1>6, <1>7, <3>1, <3>2 DEF RowsAreSound
  <2> QED BY <1>1, <2>2, <2>3 DEF PostInv
<1>8. ASSUME NEW i \in DOMAIN postReq[r].items, postReq[r].stage[i] = "insert",
             rows' = Append(rows, Posting!RowOf(r, i)),
             q.items = postReq[r].items, q.stamp = postReq[r].stamp
      PROVE  PostInv'
  <2> DEFINE x == Posting!RowOf(r, i)
  <2>1. /\ postReq[r] \in PostForms /\ postReq[r].items \in Posting!Batch \cup {<< >>}
        /\ postReq[r].stamp \in Posting!Time
        /\ postReq[r].chainId \in [DOMAIN postReq[r].items -> Posting!Time]
    BY <1>3, PostFields DEF PostIsSound
  <2>2. i \in 1..BatchSize /\ postReq[r].items[i] \in Observation
        /\ postReq[r].items[i] \in Posting!Observations(postReq[r].items)
    BY <1>8, <2>1, BatchForm
  <2>3. /\ x.req = r /\ x.item = i /\ x.cid = CidIn(postReq, r, i)
        /\ x.chainId = postReq[r].chainId[i]
    BY DEF Posting!RowOf, Posting!CidOf, Posting!PayloadOf, Posting!Items, CidIn
  <2>4. CidIn(postReq, r, i) = [obs |-> postReq[r].items[i], stamp |-> postReq[r].stamp]
    BY DEF CidIn
  <2>5. CidIn(postReq, r, i) \in Posting!Payload
    BY <2>1, <2>2, <2>4 DEF Posting!Payload
  <2>6. x \in Posting!Row
    <3>1. postReq[r].chainId[i] \in Posting!Time
      BY <1>8, <2>1
    <3>2. x = [req |-> r, item |-> i, cid |-> CidIn(postReq, r, i), chainId |-> postReq[r].chainId[i]]
      BY DEF Posting!RowOf, Posting!CidOf, Posting!PayloadOf, Posting!Items, CidIn
    <3> QED BY <2>2, <2>5, <3>1, <3>2 DEF Posting!Row
  <2>7. CidIn(postReq, r, i) \in postPinned
    BY <1>3, <1>8, <2>2, <2>4 DEF PostIsSound
  <2> HIDE DEF x
  <2>8. /\ rows' \in Seq(Posting!Row) /\ DOMAIN rows' = DOMAIN rows \cup {Len(rows) + 1}
        /\ \A n \in DOMAIN rows : rows'[n] = rows[n]
        /\ rows'[Len(rows) + 1] = x /\ Len(rows) + 1 \notin DOMAIN rows
    <3>1. rows' = Append(rows, x)
      BY <1>8 DEF x
    <3>2. rows \in Seq(Posting!Row)
      BY <1>2
    <3> QED BY <2>6, <3>1, <3>2, Appended
  <2>9. \A s \in PostRequest : s # r => Posting!RowsOf(s)' = Posting!RowsOf(s)
    BY <2>3, <2>8 DEF Posting!RowsOf
  <2>10. \A s \in PostRequest : PostIsSound(postReq'[s], postPinned', Posting!RowsOf(s)')
    BY <1>1, <1>5, <2>9
  <2>11. RowsAreSound'
    <3>1. \A n \in DOMAIN rows' : rows'[n].req \in PostRequest /\ rows'[n].cid \in postPinned'
      BY <1>2, <2>3, <2>7, <2>8 DEF RowsAreSound
    <3>2. \A n \in DOMAIN rows' : rows'[n].cid = CidIn(postReq', rows'[n].req, rows'[n].item)
      <4>1. CidIn(postReq', r, i) = CidIn(postReq, r, i)
        BY <1>1, <1>8 DEF CidIn
      <4> QED BY <1>6, <2>3, <2>8, <4>1
    <3>3. \A k, n \in DOMAIN rows' :
            rows'[k].req = rows'[n].req /\ rows'[k].item = rows'[n].item => k = n
      <4>1. i \notin Posting!RowsOf(r)
        BY <1>3, <1>8 DEF PostIsSound
      <4>2. \A n \in DOMAIN rows : ~(rows[n].req = r /\ rows[n].item = i)
        BY <4>1 DEF Posting!RowsOf
      <4>3. \A k, n \in DOMAIN rows :
              rows[k].req = rows[n].req /\ rows[k].item = rows[n].item => k = n
        BY <1>2 DEF RowsAreSound
      <4> QED BY <2>3, <2>8, <4>2, <4>3
    <3> QED BY <2>8, <3>1, <3>2, <3>3 DEF RowsAreSound
  <2> QED BY <1>1, <2>10, <2>11 DEF PostInv
<1> QED BY <1>7, <1>8
LEMMA StepReceive ==
  ASSUME PostInv, NEW r \in PostRequest, NEW items \in Posting!Batch, Posting!Receive(r, items)
  PROVE  PostInv'
<1> DEFINE q == [items |-> items, stamp |-> postNow,
        pins |-> [obs \in Posting!Observations(items) |-> [state |-> "trying", tries |-> 0]],
        stage |-> [i \in DOMAIN items |-> "pin"],
        chainId |-> [i \in DOMAIN items |-> 0],
        answer |-> "none"]
<1>1. /\ postReq[r] = Posting!Idle /\ postReq' = [postReq EXCEPT ![r] = q]
      /\ mockMode' = mockMode /\ postNow' = postNow /\ postPinned' = postPinned /\ rows' = rows
  BY DEF Posting!Receive
<1>2. /\ DOMAIN items \in SUBSET (1..BatchSize)
      /\ Posting!Observations(items) \in SUBSET Observation
  BY BatchForm
<1>3. [state |-> "trying", tries |-> 0] \in PinStates /\ 0 \in Posting!Time /\ "pin" \in Posting!Stage
  BY PostConstants DEF PinStates, Posting!Time, Posting!Stage
<1>4. /\ q.pins \in [Posting!Observations(items) -> PinStates]
      /\ q.stage \in [DOMAIN items -> Posting!Stage]
      /\ q.chainId \in [DOMAIN items -> Posting!Time]
      /\ q.items = items /\ q.answer = "none"
      /\ \A i \in DOMAIN items : q.stage[i] = "pin"
      /\ \A obs \in DOMAIN q.pins : q.pins[obs].state = "trying"
  BY <1>3
<1>5. q \in PostForms
  <2>1. q.pins \in PinMaps /\ q.stage \in StageMaps /\ q.chainId \in TimeMaps
    BY <1>2, <1>4 DEF PinMaps, StageMaps, TimeMaps
  <2>2. postNow \in Posting!Time /\ "none" \in Posting!Answer
    BY DEF PostInv, Posting!Answer
  <2> QED BY <2>1, <2>2 DEF PostForms
<1> HIDE DEF q
<1>6. Posting!RowsOf(r) = {}
  <2>1. Posting!RowsOf(r) \subseteq DOMAIN postReq[r].items
    BY DEF PostInv, PostIsSound
  <2> QED BY <1>1, <2>1 DEF Posting!Idle
<1>7. Posting!RowsOf(r)' = {}
  BY <1>1, <1>6 DEF Posting!RowsOf
<1>8. PostIsSound(q, postPinned', {})
  BY <1>4, <1>5 DEF PostIsSound
<1>9. postPinned' \subseteq Posting!Payload
  BY <1>1 DEF PostInv
<1> QED BY <1>1, <1>7, <1>8, <1>9, PostedStep

\* The same request, rows and content, when nothing but the request changes.
LEMMA StepPin ==
  ASSUME PostInv, NEW r \in PostRequest, NEW obs \in Observation, Posting!Pin(r, obs)
  PROVE  PostInv'
<1> DEFINE q == postReq[r]
           payload == [obs |-> obs, stamp |-> q.stamp]
           done == Posting!RowsOf(r)
<1>1. /\ obs \in DOMAIN q.pins /\ q.pins[obs].state = "trying"
      /\ mockMode' = mockMode /\ postNow' = postNow /\ rows' = rows
  BY DEF Posting!Pin
<1>2. PostIsSound(q, postPinned, done) /\ postPinned \subseteq Posting!Payload
  BY DEF PostInv
<1>3. Posting!RowsOf(r)' = done
  BY <1>1 DEF Posting!RowsOf
<1>4. Posting!PayloadOf(r, obs) = payload /\ payload \in Posting!Payload
  BY <1>2, PostFields DEF PostIsSound, Posting!PayloadOf, Posting!Payload
<1>5. \A i \in DOMAIN q.items : q.stage[i] = "pin"
  BY <1>1, <1>2 DEF PostIsSound
<1> HIDE DEF q, payload, done
<1>6. /\ q \in PostForms /\ q.pins \in [Posting!Observations(q.items) -> PinStates]
      /\ q.pins \in PinMaps /\ q.stage \in StageMaps /\ q.answer \in Posting!Answer
      /\ q.stage \in [DOMAIN q.items -> Posting!Stage]
      /\ Posting!Observations(q.items) \in SUBSET Observation
      /\ DOMAIN q.items \in SUBSET (1..BatchSize)
      /\ q.items \in Posting!Batch \cup {<< >>}
  BY <1>2, PostFields, BatchForm DEF PostIsSound
<1>7. q.answer # "201"
  <2>1. DOMAIN q.items # {}
    BY <1>1, <1>6, BatchForm
  <2> QED BY <1>2, <1>5, <2>1 DEF PostIsSound
\* What the pins become and what becomes of the content.
<1>8. ASSUME NEW new \in PinStates, NEW u, u \in PostForms,
             u.pins = [q.pins EXCEPT ![obs] = new],
             u.items = q.items, u.stamp = q.stamp, u.chainId = q.chainId,
             \/ u.stage = q.stage
             \/ /\ \A o \in DOMAIN u.pins : u.pins[o].state = "pinned"
                /\ u.stage = [i \in DOMAIN q.stage |-> "post"],
             u.answer # "201",
             postPinned' \in {postPinned, postPinned \cup {payload}},
             new.state = "pinned" => payload \in postPinned',
             postReq' = [postReq EXCEPT ![r] = u]
      PROVE  PostInv'
  <2>1. /\ u.pins \in [Posting!Observations(u.items) -> PinStates]
        /\ \A o \in DOMAIN u.pins : u.pins[o] = IF o = obs THEN new ELSE q.pins[o]
        /\ DOMAIN u.pins = DOMAIN q.pins
    BY <1>6, <1>8
  <2>2. u.stage \in [DOMAIN u.items -> Posting!Stage]
    BY <1>6, <1>8 DEF Posting!Stage
  <2>3. \A o \in DOMAIN u.pins :
          u.pins[o].state = "pinned" => [obs |-> o, stamp |-> u.stamp] \in postPinned'
    <3>1. \A o \in DOMAIN q.pins :
            q.pins[o].state = "pinned" => [obs |-> o, stamp |-> q.stamp] \in postPinned
      BY <1>2 DEF PostIsSound
    <3> QED BY <1>8, <2>1, <3>1 DEF payload
  <2>4. /\ \A i \in DOMAIN u.items : u.stage[i] # "pin" =>
             \A o \in DOMAIN u.pins : u.pins[o].state = "pinned"
        /\ \A i \in DOMAIN u.items : u.stage[i] = "pin" =>
             \A j \in DOMAIN u.items : u.stage[j] = "pin"
        /\ \A i \in DOMAIN u.items :
             /\ u.stage[i] \in {"pin", "post", "insert"} => i \notin done
             /\ u.stage[i] = "stored" => i \in done
    <3>1. \A i \in DOMAIN u.items : i \notin done
      BY <1>2, <1>5, <1>8 DEF PostIsSound
    <3>2. CASE u.stage = q.stage
      BY <1>5, <1>8, <3>1, <3>2
    <3>3. CASE /\ \A o \in DOMAIN u.pins : u.pins[o].state = "pinned"
               /\ u.stage = [i \in DOMAIN q.stage |-> "post"]
      <4>1. \A i \in DOMAIN u.items : u.stage[i] = "post"
        BY <1>6, <1>8, <3>3
      <4> QED BY <3>1, <3>3, <4>1
    <3> QED BY <1>8, <3>2, <3>3
  <2>5. /\ u.chainId \in [DOMAIN u.items -> Posting!Time] /\ done \subseteq DOMAIN u.items
    BY <1>2, <1>8 DEF PostIsSound
  <2>6. PostIsSound(u, postPinned', done)
    BY <1>8, <2>1, <2>2, <2>3, <2>4, <2>5 DEF PostIsSound
  <2>7. postPinned' \subseteq Posting!Payload /\ postPinned \subseteq postPinned'
    BY <1>2, <1>4, <1>8
  <2> QED BY <1>1, <1>3, <1>8, <2>6, <2>7, PostedStep DEF q
<1>9. CASE Posting!PinSucceeds(r, obs)
  <2> DEFINE pins == [q.pins EXCEPT ![obs].state = "pinned"]
             stage == IF Posting!PinsDone(pins) THEN [i \in DOMAIN q.stage |-> "post"] ELSE q.stage
             new == [q.pins[obs] EXCEPT !.state = "pinned"]
             u1 == [q EXCEPT !.pins = pins]
             u == [u1 EXCEPT !.stage = stage]
  <2>1. /\ postReq' = [postReq EXCEPT ![r] = u]
        /\ postPinned' = postPinned \cup {payload}
    BY <1>4, <1>9 DEF Posting!PinSucceeds, q
  <2>2. new \in PinStates /\ new.state = "pinned"
    <3>1. q.pins[obs] \in PinStates
      BY <1>1, <1>6
    <3>2. q.pins[obs] \in [state: {"trying"}, tries: 0..PinAttempts - 1]
      BY <1>1, <3>1 DEF PinStates, q
    <3> QED BY <3>2, PostConstants DEF PinStates
  <2>3. pins = [q.pins EXCEPT ![obs] = new] /\ pins \in PinMaps
    <3>1. pins = [q.pins EXCEPT ![obs] = new]
      OBVIOUS
    <3>2. pins \in [Posting!Observations(q.items) -> PinStates]
      BY <1>6, <2>2, <3>1
    <3> QED BY <1>6, <3>1, <3>2 DEF PinMaps
  <2>4. stage \in StageMaps
    <3>1. [i \in DOMAIN q.stage |-> "post"] \in [DOMAIN q.items -> Posting!Stage]
      BY <1>6 DEF Posting!Stage
    <3> QED BY <1>6, <3>1 DEF StageMaps
  <2>5. Posting!PinsDone(pins) => \A o \in DOMAIN pins : pins[o].state = "pinned"
    BY DEF Posting!PinsDone
  <2>6. stage = q.stage \/ (Posting!PinsDone(pins) /\ stage = [i \in DOMAIN q.stage |-> "post"])
    OBVIOUS
  <2> HIDE DEF pins, new, stage
  <2>7. /\ u1 \in PostForms /\ u1.pins = pins /\ u1.items = q.items /\ u1.stamp = q.stamp
        /\ u1.stage = q.stage /\ u1.chainId = q.chainId /\ u1.answer = q.answer
    BY <1>6, <2>3, SetPins
  <2> HIDE DEF u1
  <2>8. /\ u \in PostForms /\ u.stage = stage /\ u.items = u1.items /\ u.stamp = u1.stamp
        /\ u.pins = u1.pins /\ u.chainId = u1.chainId /\ u.answer = u1.answer
    BY <2>4, <2>7, SetStage
  <2> HIDE DEF u
  <2>9. /\ u.pins = [q.pins EXCEPT ![obs] = new] /\ u.items = q.items /\ u.stamp = q.stamp
        /\ u.chainId = q.chainId /\ u.answer # "201"
    BY <1>7, <2>3, <2>7, <2>8
  <2>10. \/ u.stage = q.stage
         \/ /\ \A o \in DOMAIN u.pins : u.pins[o].state = "pinned"
            /\ u.stage = [i \in DOMAIN q.stage |-> "post"]
    BY <2>3, <2>5, <2>6, <2>8, <2>9
  <2>11. payload \in postPinned' /\ postPinned' \in {postPinned, postPinned \cup {payload}}
    BY <2>1
  <2>12. u \in PostForms /\ new \in PinStates /\ postReq' = [postReq EXCEPT ![r] = u]
    BY <2>1, <2>2, <2>8
  <2> QED BY <1>8, <2>9, <2>10, <2>11, <2>12
<1>10. CASE Posting!PinFails(r, obs)
  <2> DEFINE n == Posting!Tried(q.pins[obs].tries)
             new == [state |-> Posting!AfterFailure(n), tries |-> n]
             u1 == [q EXCEPT !.pins = [q.pins EXCEPT ![obs] = new]]
             u == IF Posting!AfterFailure(n) = "failed" THEN Posting!Rejected(u1) ELSE u1
  <2>1. /\ postReq' = [postReq EXCEPT ![r] = u]
        /\ postPinned' \in {postPinned, postPinned \cup {payload}}
    BY <1>4, <1>10 DEF Posting!PinFails, q
  <2>2. new \in PinStates /\ new.state # "pinned"
    <3>1. q.pins[obs] \in PinStates
      BY <1>1, <1>6
    <3>2. q.pins[obs].tries \in 0..PinAttempts - 1
      BY <1>1, <3>1 DEF PinStates, q
    <3>3. n \in 1..PinAttempts
      BY <3>2, PostConstants DEF Posting!Tried
    <3> HIDE DEF n
    <3>4. CASE n < PinAttempts
      BY <3>3, <3>4, PostConstants DEF Posting!AfterFailure, PinStates
    <3>5. CASE ~(n < PinAttempts)
      BY <3>3, <3>5, PostConstants DEF Posting!AfterFailure, PinStates
    <3> QED BY <3>4, <3>5
  <2> HIDE DEF new
  <2>3. [q.pins EXCEPT ![obs] = new] \in PinMaps
    <3>1. [q.pins EXCEPT ![obs] = new] \in [Posting!Observations(q.items) -> PinStates]
      BY <1>6, <2>2
    <3> QED BY <1>6, <3>1 DEF PinMaps
  <2>4. /\ u1 \in PostForms /\ u1.pins = [q.pins EXCEPT ![obs] = new]
        /\ u1.items = q.items /\ u1.stamp = q.stamp
        /\ u1.stage = q.stage /\ u1.chainId = q.chainId /\ u1.answer = q.answer
    BY <1>6, <2>3, SetPins
  <2> HIDE DEF u1
  <2>5. /\ u \in PostForms /\ u.pins = u1.pins /\ u.items = u1.items /\ u.stamp = u1.stamp
        /\ u.stage = u1.stage /\ u.chainId = u1.chainId /\ u.answer # "201"
    <3>1. "500" \in Posting!Answer
      BY DEF Posting!Answer
    <3>2. u = u1 \/ u = [u1 EXCEPT !.answer = "500"]
      BY DEF Posting!Rejected
    <3> HIDE DEF u
    <3> QED BY <1>7, <2>4, <3>1, <3>2, SetAnswer
  <2> HIDE DEF u
  <2> QED BY <1>7, <1>8, <2>1, <2>2, <2>4, <2>5
<1> QED BY <1>9, <1>10 DEF Posting!Pin
\* One item goes on.
LEMMA ItemStep ==
  ASSUME NEW q, NEW ipfs, NEW done, PostIsSound(q, ipfs, done),
         NEW i \in DOMAIN q.items, q.stage[i] \in {"post", "insert"},
         NEW s \in {"insert", "stored", "failed"}, NEW u \in PostForms,
         u.pins = q.pins, u.items = q.items, u.stamp = q.stamp,
         u.chainId \in [DOMAIN q.items -> Posting!Time],
         u.stage = [q.stage EXCEPT ![i] = s],
         NEW more, more = done \/ (s # "insert" /\ more = done \cup {i}),
         s = "stored" => i \in more,
         u.answer = "201" => \A j \in DOMAIN u.items : u.stage[j] = "stored"
  PROVE  PostIsSound(u, ipfs, more)
<1>1. /\ q.stage \in [DOMAIN q.items -> Posting!Stage]
      /\ \A j \in DOMAIN q.items : u.stage[j] = IF j = i THEN s ELSE q.stage[j]
  BY DEF PostIsSound
<1>2. u.stage \in [DOMAIN u.items -> Posting!Stage]
  BY <1>1 DEF Posting!Stage
<1>3. \A j \in DOMAIN u.items : u.stage[j] # "pin"
  BY <1>1 DEF PostIsSound
<1>4. \A o \in DOMAIN u.pins : u.pins[o].state = "pinned"
  BY DEF PostIsSound
<1>5. \A j \in DOMAIN u.items :
        /\ u.stage[j] \in {"pin", "post", "insert"} => j \notin more
        /\ u.stage[j] = "stored" => j \in more
  <2>1. i \notin done
    BY DEF PostIsSound
  <2> QED BY <1>1, <2>1 DEF PostIsSound
<1> QED BY <1>2, <1>3, <1>4, <1>5 DEF PostIsSound

\* An item's stage is one of the stages, and 201 is not yet said.
LEMMA ItemUnderWay ==
  ASSUME NEW q, NEW ipfs, NEW done, PostIsSound(q, ipfs, done),
         NEW i \in DOMAIN q.items, q.stage[i] \in {"post", "insert"},
         NEW s \in {"insert", "stored", "failed"}
  PROVE  /\ q \in PostForms /\ [q.stage EXCEPT ![i] = s] \in StageMaps /\ q.answer # "201"
         /\ i \in 1..BatchSize /\ q.answer \in Posting!Answer
<1>1. /\ q \in PostForms /\ q.stage \in [DOMAIN q.items -> Posting!Stage]
      /\ q.items \in Posting!Batch \cup {<< >>} /\ q.answer \in Posting!Answer
  BY PostFields DEF PostIsSound
<1>2. DOMAIN q.items \in SUBSET (1..BatchSize)
  BY <1>1, BatchForm
<1>3. [q.stage EXCEPT ![i] = s] \in [DOMAIN q.items -> Posting!Stage]
  BY <1>1 DEF Posting!Stage
<1>4. [q.stage EXCEPT ![i] = s] \in StageMaps
  BY <1>2, <1>3 DEF StageMaps
<1> QED BY <1>1, <1>2, <1>4 DEF PostIsSound

LEMMA StepPost ==
  ASSUME PostInv, NEW r \in PostRequest, NEW i \in 1..BatchSize, Posting!Post(r, i)
  PROVE  PostInv'
<1> DEFINE q == postReq[r]
           done == Posting!RowsOf(r)
<1>1. /\ i \in DOMAIN q.items /\ q.stage[i] = "post"
      /\ mockMode' = mockMode /\ postNow' = postNow /\ postPinned' = postPinned /\ rows' = rows
  BY DEF Posting!Post, Posting!Items
<1>2. /\ PostIsSound(q, postPinned, done) /\ postPinned \subseteq Posting!Payload
      /\ postNow \in Posting!Time
  BY DEF PostInv
<1>3. Posting!RowsOf(r)' = done
  BY <1>1 DEF Posting!RowsOf
<1>4. postReq' = [postReq EXCEPT ![r] =
        IF mockMode
        THEN [[q EXCEPT !.stage = [q.stage EXCEPT ![i] = "insert"]]
                EXCEPT !.chainId = [q.chainId EXCEPT ![i] = postNow]]
        ELSE Posting!Rejected([q EXCEPT !.stage = [q.stage EXCEPT ![i] = "failed"]])]
  <2>1. [q EXCEPT !.stage[i] = "insert", !.chainId[i] = postNow]
        = [[q EXCEPT !.stage = [q.stage EXCEPT ![i] = "insert"]]
             EXCEPT !.chainId = [q.chainId EXCEPT ![i] = postNow]]
    <3>1. q \in PostForms
      BY <1>2 DEF PostIsSound
    <3> HIDE DEF q
    <3> QED BY <3>1 DEF PostForms
  <2> QED BY <2>1 DEF Posting!Post
<1> HIDE DEF q, done
<1>5. /\ q \in PostForms /\ q.answer # "201" /\ i \in DOMAIN q.items
      /\ q.stage[i] \in {"post", "insert"} /\ q.answer \in Posting!Answer
      /\ \A s \in {"insert", "stored", "failed"} : [q.stage EXCEPT ![i] = s] \in StageMaps
  BY <1>1, <1>2, ItemUnderWay
<1>6. ASSUME NEW u \in PostForms, postReq' = [postReq EXCEPT ![r] = u],
             PostIsSound(u, postPinned, done), u.items = q.items, u.stamp = q.stamp
      PROVE  PostInv'
  BY <1>1, <1>2, <1>3, <1>6, PostedStep DEF q
<1>7. CASE mockMode
  <2> DEFINE u1 == [q EXCEPT !.stage = [q.stage EXCEPT ![i] = "insert"]]
             ids == [q.chainId EXCEPT ![i] = postNow]
             u == [u1 EXCEPT !.chainId = ids]
  <2>1. postReq' = [postReq EXCEPT ![r] = u]
    BY <1>4, <1>7
  <2>2. /\ u1 \in PostForms /\ u1.stage = [q.stage EXCEPT ![i] = "insert"]
        /\ u1.items = q.items /\ u1.stamp = q.stamp /\ u1.pins = q.pins
        /\ u1.chainId = q.chainId /\ u1.answer = q.answer
    BY <1>5, SetStage
  <2>3. ids \in [DOMAIN q.items -> Posting!Time] /\ ids \in TimeMaps
    <3>1. ids \in [DOMAIN q.items -> Posting!Time]
      BY <1>2 DEF PostIsSound
    <3>2. DOMAIN q.items \in SUBSET (1..BatchSize)
      BY <1>5, PostFields, BatchForm
    <3> QED BY <3>1, <3>2 DEF TimeMaps
  <2> HIDE DEF u1, ids
  <2>4. /\ u \in PostForms /\ u.chainId = ids /\ u.stage = u1.stage
        /\ u.items = u1.items /\ u.stamp = u1.stamp /\ u.pins = u1.pins /\ u.answer = u1.answer
    BY <2>2, <2>3, SetChainId
  <2> HIDE DEF u
  <2>5. PostIsSound(u, postPinned, done)
    <3>1. /\ u.stage = [q.stage EXCEPT ![i] = "insert"] /\ u.chainId \in [DOMAIN q.items -> Posting!Time]
          /\ u.items = q.items /\ u.stamp = q.stamp /\ u.pins = q.pins /\ u.answer # "201"
      BY <1>5, <2>2, <2>3, <2>4
    <3> QED BY <1>2, <1>5, <2>4, <3>1, ItemStep
  <2> QED BY <1>6, <2>1, <2>2, <2>4, <2>5
<1>8. CASE ~mockMode
  <2> DEFINE u1 == [q EXCEPT !.stage = [q.stage EXCEPT ![i] = "failed"]]
             u == Posting!Rejected(u1)
  <2>1. postReq' = [postReq EXCEPT ![r] = u]
    BY <1>4, <1>8
  <2>2. /\ u1 \in PostForms /\ u1.stage = [q.stage EXCEPT ![i] = "failed"]
        /\ u1.items = q.items /\ u1.stamp = q.stamp /\ u1.pins = q.pins
        /\ u1.chainId = q.chainId /\ u1.answer = q.answer
    BY <1>5, SetStage
  <2> HIDE DEF u1
  <2>3. /\ u \in PostForms /\ u.stage = u1.stage /\ u.chainId = u1.chainId
        /\ u.items = u1.items /\ u.stamp = u1.stamp /\ u.pins = u1.pins /\ u.answer # "201"
    <3>1. "500" \in Posting!Answer
      BY DEF Posting!Answer
    <3>2. u = u1 \/ u = [u1 EXCEPT !.answer = "500"]
      BY DEF Posting!Rejected
    <3> HIDE DEF u
    <3> QED BY <1>5, <2>2, <3>1, <3>2, SetAnswer
  <2> HIDE DEF u
  <2>4. PostIsSound(u, postPinned, done)
    <3>1. q.chainId \in [DOMAIN q.items -> Posting!Time]
      BY <1>2 DEF PostIsSound
    <3>2. /\ u.stage = [q.stage EXCEPT ![i] = "failed"] /\ u.chainId \in [DOMAIN q.items -> Posting!Time]
          /\ u.items = q.items /\ u.stamp = q.stamp /\ u.pins = q.pins /\ u.answer # "201"
      BY <2>2, <2>3, <3>1
    <3> QED BY <1>2, <1>5, <2>3, <3>2, ItemStep
  <2> QED BY <1>6, <2>1, <2>2, <2>3, <2>4
<1> QED BY <1>7, <1>8

LEMMA StepInsert ==
  ASSUME PostInv, NEW r \in PostRequest, NEW i \in 1..BatchSize, Posting!Insert(r, i)
  PROVE  PostInv'
<1> DEFINE q == postReq[r]
           done == Posting!RowsOf(r)
           x == Posting!RowOf(r, i)
           Moved(s) == [q EXCEPT !.stage = [q.stage EXCEPT ![i] = s]]
<1>1. /\ i \in DOMAIN q.items /\ q.stage[i] = "insert"
      /\ mockMode' = mockMode /\ postNow' = postNow /\ postPinned' = postPinned
      /\ \/ /\ rows' = Append(rows, x)
            /\ postReq' = [postReq EXCEPT ![r] = Posting!Resolved(Moved("stored"))]
         \/ /\ rows' \in {rows, Append(rows, x)}
            /\ postReq' = [postReq EXCEPT ![r] = Posting!Rejected(Moved("failed"))]
  BY DEF Posting!Insert, Posting!Items
<1>2. /\ PostIsSound(q, postPinned, done) /\ postPinned \subseteq Posting!Payload
      /\ RowsAreSound /\ postNow \in Posting!Time
  BY DEF PostInv
<1>3. /\ rows' = rows => Posting!RowsOf(r)' = done
      /\ rows' = Append(rows, x) => Posting!RowsOf(r)' = done \cup {i}
  <2>1. x.req = r /\ x.item = i
    BY DEF Posting!RowOf
  <2> HIDE DEF x
  <2>2. CASE rows' = rows
    <3>1. Posting!RowsOf(r)' = done
      BY <2>2 DEF Posting!RowsOf
    <3>2. rows # Append(rows, x)
      <4>1. rows \in Seq(Posting!Row \cup {x})
        BY <1>2 DEF RowsAreSound
      <4> QED BY <4>1, Appended
    <3> QED BY <2>2, <3>1, <3>2
  <2>3. CASE rows' = Append(rows, x)
    <3>1. /\ DOMAIN rows' = DOMAIN rows \cup {Len(rows) + 1}
          /\ \A n \in DOMAIN rows : rows'[n] = rows[n]
          /\ rows'[Len(rows) + 1] = x /\ Len(rows) + 1 \notin DOMAIN rows
      <4>1. rows \in Seq(Posting!Row \cup {x})
        BY <1>2 DEF RowsAreSound
      <4> QED BY <2>3, <4>1, Appended
    <3> QED BY <2>1, <2>3, <3>1 DEF Posting!RowsOf
  <2> QED BY <2>2, <2>3
<1> HIDE DEF q, done, x
<1>4. /\ q \in PostForms /\ q.answer # "201" /\ i \in DOMAIN q.items
      /\ q.stage[i] \in {"post", "insert"} /\ q.answer \in Posting!Answer
      /\ \A s \in {"insert", "stored", "failed"} : [q.stage EXCEPT ![i] = s] \in StageMaps
  BY <1>1, <1>2, ItemUnderWay
<1>5. ASSUME NEW s \in {"stored", "failed"}
      PROVE  /\ Moved(s) \in PostForms /\ Moved(s).stage = [q.stage EXCEPT ![i] = s]
             /\ Moved(s).items = q.items /\ Moved(s).stamp = q.stamp /\ Moved(s).pins = q.pins
             /\ Moved(s).chainId = q.chainId /\ Moved(s).answer = q.answer
  BY <1>4, SetStage
<1>6. DOMAIN q.stage = DOMAIN q.items /\ q.chainId \in [DOMAIN q.items -> Posting!Time]
  BY <1>2 DEF PostIsSound
<1> HIDE DEF Moved
<1>7. ASSUME NEW s \in {"stored", "failed"}, NEW u, NEW a \in Posting!Answer,
             u = Moved(s) \/ u = [Moved(s) EXCEPT !.answer = a],
             postReq' = [postReq EXCEPT ![r] = u],
             \/ rows' = rows /\ s = "failed"
             \/ rows' = Append(rows, x),
             u = Moved(s) \/ a # "201" \/ \A j \in DOMAIN Moved(s).stage : Moved(s).stage[j] = "stored"
      PROVE  PostInv'
  <2>1. /\ u \in PostForms /\ u.items = q.items /\ u.stamp = q.stamp /\ u.pins = q.pins
        /\ u.stage = [q.stage EXCEPT ![i] = s] /\ u.chainId = q.chainId
        /\ u = Moved(s) \/ u.answer = a
    BY <1>5, <1>7, SetAnswer
  <2>2. u.answer = "201" => \A j \in DOMAIN u.items : u.stage[j] = "stored"
    <3>1. DOMAIN u.stage = DOMAIN u.items /\ Moved(s).stage = u.stage /\ Moved(s).answer # "201"
      BY <1>4, <1>5, <1>6, <2>1
    <3> QED BY <1>7, <2>1, <3>1
  <2>3. PostIsSound(u, postPinned, Posting!RowsOf(r)')
    <3>1. Posting!RowsOf(r)' \in {done, done \cup {i}} /\ (s = "stored" => i \in Posting!RowsOf(r)')
      BY <1>3, <1>7
    <3>2. s \in {"insert", "stored", "failed"} /\ s # "insert"
      OBVIOUS
    <3> QED BY <1>2, <1>4, <1>6, <2>1, <2>2, <3>1, <3>2, ItemStep
  <2> QED BY <1>1, <1>2, <1>4, <1>7, <2>1, <2>3, PostedStep DEF q, x
<1>8. "201" \in Posting!Answer /\ "500" \in Posting!Answer
  BY DEF Posting!Answer
<1>9. ASSUME rows' = Append(rows, x), postReq' = [postReq EXCEPT ![r] = Posting!Resolved(Moved("stored"))]
      PROVE  PostInv'
  <2>1. \/ Posting!Resolved(Moved("stored")) = Moved("stored")
        \/ /\ Posting!Resolved(Moved("stored")) = [Moved("stored") EXCEPT !.answer = "201"]
           /\ \A j \in DOMAIN Moved("stored").stage : Moved("stored").stage[j] = "stored"
    BY DEF Posting!Resolved
  <2> QED BY <1>7, <1>8, <1>9, <2>1
<1>10. ASSUME rows' \in {rows, Append(rows, x)},
              postReq' = [postReq EXCEPT ![r] = Posting!Rejected(Moved("failed"))]
      PROVE  PostInv'
  <2>1. \/ Posting!Rejected(Moved("failed")) = Moved("failed")
        \/ Posting!Rejected(Moved("failed")) = [Moved("failed") EXCEPT !.answer = "500"]
    BY DEF Posting!Rejected
  <2> QED BY <1>7, <1>8, <1>10, <2>1
<1> QED BY <1>1, <1>9, <1>10

LEMMA StepPosting == PostInv /\ [Posting!Next]_(Posting!vars) => PostInv'
<1> SUFFICES ASSUME PostInv, [Posting!Next]_(Posting!vars) PROVE PostInv'
  OBVIOUS
<1>1. ASSUME mockMode' = mockMode, postReq' = postReq, postPinned' = postPinned, rows' = rows,
             postNow' \in Posting!Time
      PROVE  PostInv'
  BY <1>1 DEF PostInv, RowsAreSound, Posting!RowsOf
<1>2. CASE UNCHANGED Posting!vars
  BY <1>1, <1>2 DEF Posting!vars, PostInv
<1>3. CASE Posting!Tick
  <2>1. postNow' \in Posting!Time
    BY <1>3, PostConstants DEF Posting!Tick, Posting!Time, PostInv
  <2> QED BY <1>1, <1>3, <2>1 DEF Posting!Tick
<1> QED BY <1>2, <1>3, StepReceive, StepPin, StepPost, StepInsert DEF Posting!Next, Posting!Serve

LEMMA PostingKeeps ==
  PostInv => /\ Posting!TypeOK /\ Posting!RowsMatchItems /\ Posting!RowsArePinned
             /\ Posting!AnswersTellRows
<1> SUFFICES ASSUME PostInv
             PROVE  /\ Posting!TypeOK /\ Posting!RowsMatchItems /\ Posting!RowsArePinned
                    /\ Posting!AnswersTellRows
  OBVIOUS
<1>1. /\ RowsAreSound
      /\ \A r \in PostRequest : PostIsSound(postReq[r], postPinned, Posting!RowsOf(r))
  BY DEF PostInv
<1>2. Posting!TypeOK
  <2>1. ASSUME NEW r \in PostRequest
        PROVE /\ Posting!Items(r) \in Posting!Batch \cup {<< >>}
              /\ postReq[r].stamp \in Posting!Time
              /\ postReq[r].stage \in [DOMAIN Posting!Items(r) -> Posting!Stage]
              /\ postReq[r].chainId \in [DOMAIN Posting!Items(r) -> Posting!Time]
              /\ postReq[r].answer \in Posting!Answer
              /\ postReq[r].pins \in [Posting!Observations(Posting!Items(r)) -> PinStates]
    BY <1>1, PostFields DEF PostIsSound, Posting!Items
  <2> QED BY <1>1, <2>1 DEF Posting!TypeOK, PostInv, RowsAreSound, PinStates
<1>3. \A n \in DOMAIN rows : rows[n].item \in DOMAIN postReq[rows[n].req].items
  BY <1>1 DEF RowsAreSound, PostIsSound, Posting!RowsOf
<1>4. Posting!RowsMatchItems /\ Posting!RowsArePinned
  BY <1>1, <1>3 DEF RowsAreSound, CidIn, Posting!RowsMatchItems, Posting!RowsArePinned,
    Posting!CidOf, Posting!PayloadOf, Posting!Items
<1>5. Posting!AnswersTellRows
  <2> SUFFICES ASSUME NEW r \in PostRequest
               PROVE  /\ postReq[r].answer = "201" => Posting!RowsOf(r) = DOMAIN postReq[r].items
                      /\ (\E obs \in DOMAIN postReq[r].pins : postReq[r].pins[obs].state = "failed")
                           => Posting!RowsOf(r) = {}
    BY DEF Posting!AnswersTellRows, Posting!Items
  <2>1. PostIsSound(postReq[r], postPinned, Posting!RowsOf(r))
    BY <1>1
  <2>2. ASSUME postReq[r].answer = "201" PROVE Posting!RowsOf(r) = DOMAIN postReq[r].items
    BY <2>1, <2>2 DEF PostIsSound
  <2>3. ASSUME NEW obs \in DOMAIN postReq[r].pins, postReq[r].pins[obs].state = "failed"
        PROVE  Posting!RowsOf(r) = {}
    BY <2>1, <2>3 DEF PostIsSound
  <2> QED BY <2>2, <2>3
<1> QED BY <1>2, <1>4, <1>5
-----------------------------------------------------------------------------
(* Paging *)

PageForms == [rows: SUBSET ListedGist, cursor: Nat \cup {None}, snapshot: SUBSET ListedGist]
WalkForms == [pc: {"idle", "walking", "done"}, cursor: Nat \cup {None},
              pages: Seq(PageForms), began: SUBSET ListedGist]

\* A gist a page leaves behind that the next page cannot show.
Tied(r, page, cr) == page.cursor # None /\ Paging!EncodeCursor(cr[r]) = page.cursor
Further(r, page, cr) == page.cursor # None /\ cr[r] < page.cursor

\* The cursor of a page is not after any gist of it.
PageIsSound(page, cr) ==
  /\ page \in PageForms /\ page.rows \subseteq page.snapshot /\ page.snapshot \subseteq DOMAIN cr
  /\ page.cursor # None => \A r \in page.rows : page.cursor <= cr[r]
FirstIsSound(page, cr) ==
  \A r \in page.snapshot : r \in page.rows \/ Tied(r, page, cr) \/ Further(r, page, cr)

\* What was shown is not older than the cursor; what was there at the start was
\* shown, is tied or is older than the cursor.
WalkIsSound(w, cr) ==
  /\ w \in WalkForms
  /\ w.pc = "idle" => w.pages = << >> /\ w.began = {}
  /\ w.pc = "walking" <=> w.cursor # None
  /\ \A i \in DOMAIN w.pages :
       /\ w.pages[i].rows \subseteq DOMAIN cr
       /\ w.cursor # None => \A r \in w.pages[i].rows : w.cursor <= cr[r]
  /\ \A i, j \in DOMAIN w.pages : i < j =>
       \A r \in w.pages[i].rows, s \in w.pages[j].rows : cr[s] < cr[r]
  /\ w.began \subseteq DOMAIN cr
  /\ \A r \in w.began :
       \/ \E i \in DOMAIN w.pages : r \in w.pages[i].rows \/ Tied(r, w.pages[i], cr)
       \/ w.cursor # None /\ cr[r] < w.cursor

CreatedIsSound(cr) ==
  /\ cr = [r \in DOMAIN cr |-> cr[r]] /\ DOMAIN cr \subseteq ListedGist
  /\ \A r \in DOMAIN cr : cr[r] \in Nat
PagingInv ==
  /\ pageNow \in Nat /\ CreatedIsSound(created)
  /\ \A r \in DOMAIN created : created[r] <= pageNow
  /\ cached = None \/ (PageIsSound(cached, created) /\ FirstIsSound(cached, created))
  /\ WalkIsSound(walk, created)

LEMMA PagingConstants ==
  /\ IsFiniteSet(ListedGist) /\ Limit \in Nat \ {0} /\ TicksPerMs \in Nat \ {0}
  /\ ListTime \in Nat /\ None \notin Nat
BY BackendConstants DEF BackendConstants

\* A set of naturals has a least member.
LEMMA LeastNatural ==
  ASSUME NEW S, S \subseteq Nat, S # {}
  PROVE  \E n \in S : \A m \in S : n <= m
<1> DEFINE R == OpToRel(<, Nat)
<1>1. IsWellFoundedOn(R, Nat)
  BY NatLessThanWellFounded
<1>2. \A a, b \in Nat : a < b => <<a, b>> \in R
  BY DEF OpToRel
<1> HIDE DEF R
<1>3. PICK n \in S : \A m \in S : ~(<<m, n>> \in R)
  BY <1>1, WFMin
<1>4. ASSUME NEW m \in S PROVE n <= m
  <2>1. m \in Nat /\ n \in Nat /\ ~(m < n)
    BY <1>2, <1>3
  <2> QED BY <2>1
<1> QED BY <1>4

LEMMA MultiplesApart ==
  ASSUME NEW T \in Nat \ {0}, NEW p \in Nat, NEW q \in Nat, p < q
  PROVE  (p + 1) * T <= q * T
OBVIOUS

\* A cursor loses what is less than a millisecond, and keeps the order.
LEMMA CursorRounds ==
  ASSUME NEW a \in Nat, NEW b \in Nat
  PROVE  /\ Paging!EncodeCursor(a) \in Nat /\ Paging!EncodeCursor(a) <= a
         /\ a <= b => \/ Paging!EncodeCursor(a) = Paging!EncodeCursor(b)
                      \/ a < Paging!EncodeCursor(b)
<1> DEFINE T == TicksPerMs
           p == a \div T
           q == b \div T
<1>1. T \in Nat \ {0}
  BY PagingConstants
<1>2. p \in Nat /\ p * T <= a /\ a < (p + 1) * T
  BY <1>1
<1>3. q \in Nat /\ q * T <= b /\ b < (q + 1) * T
  BY <1>1
<1>4. Paging!EncodeCursor(a) = p * T /\ Paging!EncodeCursor(b) = q * T
  BY DEF Paging!EncodeCursor
<1> HIDE DEF T, p, q
<1>5. p * T \in Nat /\ q * T \in Nat /\ (p + 1) * T \in Nat /\ (q + 1) * T \in Nat
  BY <1>1, <1>2, <1>3
<1>6. p < q => (p + 1) * T <= q * T
  BY <1>1, <1>2, <1>3, MultiplesApart
<1>7. q < p => (q + 1) * T <= p * T
  BY <1>1, <1>2, <1>3, MultiplesApart
<1>8. p = q \/ p < q \/ q < p
  BY <1>2, <1>3
<1> QED BY <1>2, <1>3, <1>4, <1>5, <1>6, <1>7, <1>8

LEMMA InitPaging == Paging!PagingInit => PagingInv
<1> SUFFICES ASSUME Paging!PagingInit PROVE PagingInv
  OBVIOUS
<1>1. /\ created = [r \in {} |-> 0] /\ pageNow = 0 /\ cached = None
      /\ walk = [pc |-> "idle", cursor |-> None, pages |-> << >>, began |-> {}]
  BY DEF Paging!PagingInit, Paging!NoWalk
<1>2. DOMAIN created = {} /\ CreatedIsSound(created)
  BY <1>1 DEF CreatedIsSound
<1>3. walk \in WalkForms
  BY <1>1 DEF WalkForms
<1>4. /\ walk.pc = "idle" /\ walk.cursor = None /\ walk.pages = << >> /\ walk.began = {}
      /\ DOMAIN walk.pages = {}
  BY <1>1
<1>5. WalkIsSound(walk, created)
  BY <1>2, <1>3, <1>4 DEF WalkIsSound
<1> QED BY <1>1, <1>2, <1>5 DEF PagingInv

\* The cardinality NearbyPaging speaks of.
LEMMA SameCardinality == \A S : Paging!Cardinality(S) = Cardinality(S)
BY DEF Paging!Cardinality, Cardinality

\* A page the database gives: all of it is before the cursor, and what is before
\* the cursor and not on the page is tied or comes on a later one.
LEMMA ResponseIsSound ==
  ASSUME CreatedIsSound(created), NEW since \in Nat \cup {None},
         NEW page \in SUBSET (DOMAIN created), Paging!IsPage(page, since),
         NEW a, a = Paging!Response(page)
  PROVE  /\ PageIsSound(a, created) /\ a.snapshot = DOMAIN created
         /\ since # None => \A r \in a.rows : created[r] < since
         /\ since # None /\ a.cursor # None => a.cursor <= since
         /\ \A r \in DOMAIN created : since = None \/ created[r] < since =>
              r \in a.rows \/ Tied(r, a, created) \/ Further(r, a, created)
<1> DEFINE eligible == {r \in Paging!Rows : Paging!Before(r, since)}
           stamps == {created[r] : r \in page}
           oldest == Paging!Oldest(page)
<1>1. /\ page \subseteq eligible
      /\ Cardinality(page) = IF Cardinality(eligible) < Limit THEN Cardinality(eligible) ELSE Limit
      /\ \A r \in page, s \in eligible \ page : created[s] <= created[r]
  BY SameCardinality DEF Paging!IsPage
<1>2. /\ a.rows = page /\ a.snapshot = DOMAIN created
      /\ a.cursor = IF Cardinality(page) = Limit THEN Paging!EncodeCursor(oldest) ELSE None
  <2>1. /\ a.rows = page /\ a.snapshot = Paging!Rows
        /\ a.cursor = IF Paging!HasMore(page) THEN Paging!EncodeCursor(oldest) ELSE None
    BY DEF Paging!Response
  <2> QED BY <2>1, SameCardinality DEF Paging!HasMore, Paging!Rows
<1>3. /\ \A r \in eligible : r \in DOMAIN created /\ (since # None => created[r] < since)
      /\ \A r \in DOMAIN created : since = None \/ created[r] < since => r \in eligible
  BY DEF Paging!Before, Paging!Rows
<1>4. IsFiniteSet(DOMAIN created)
  BY PagingConstants, FS_Subset DEF CreatedIsSound
<1>5. IsFiniteSet(eligible) /\ IsFiniteSet(page)
  <2>1. eligible \in SUBSET (DOMAIN created)
    BY DEF Paging!Rows
  <2> HIDE DEF eligible
  <2> QED BY <1>4, <2>1, FS_Subset
<1>6. \A r \in DOMAIN created : created[r] \in Nat
  BY DEF CreatedIsSound
<1> HIDE DEF eligible
<1>7. CASE Cardinality(page) = Limit
  <2>1. page # {}
    BY <1>7, FS_EmptySet, PagingConstants
  <2>2. stamps \subseteq Nat /\ stamps # {}
    BY <1>6, <2>1
  <2>3. PICK n \in stamps : \A k \in stamps : n <= k
    BY <2>2, LeastNatural
  <2>4. \A r \in page : n <= created[r]
    BY <2>3
  <2>5. oldest \in stamps /\ \A r \in page : oldest <= created[r]
    BY <2>3, <2>4 DEF Paging!Oldest
  <2>6. PICK o \in page : oldest = created[o]
    BY <2>5
  <2> HIDE DEF oldest, stamps
  <2>7. oldest \in Nat /\ (since # None => oldest < since)
    BY <1>1, <1>3, <1>6, <2>6
  <2>8. /\ a.cursor = Paging!EncodeCursor(oldest) /\ a.cursor \in Nat /\ a.cursor <= oldest
        /\ a.cursor # None
    BY <1>2, <1>7, <2>7, CursorRounds, PagingConstants
  <2>9. \A r \in page : a.cursor <= created[r]
    BY <1>6, <2>5, <2>7, <2>8
  <2>10. since # None => a.cursor <= since
    BY <2>7, <2>8
  <2>11. \A r \in eligible \ page : Tied(r, a, created) \/ Further(r, a, created)
    <3> SUFFICES ASSUME NEW r \in eligible \ page PROVE Tied(r, a, created) \/ Further(r, a, created)
      OBVIOUS
    <3>1. created[r] <= oldest /\ created[r] \in Nat
      BY <1>1, <1>3, <1>6, <2>6
    <3>2. \/ Paging!EncodeCursor(created[r]) = Paging!EncodeCursor(oldest)
          \/ created[r] < Paging!EncodeCursor(oldest)
      BY <2>7, <3>1, CursorRounds
    <3> QED BY <2>8, <3>2 DEF Tied, Further
  <2>12. a \in PageForms
    <3>1. a = [rows |-> page, cursor |-> a.cursor, snapshot |-> DOMAIN created]
      BY <1>2 DEF Paging!Response, Paging!Rows
    <3>2. DOMAIN created \in SUBSET ListedGist /\ page \in SUBSET ListedGist
      BY DEF CreatedIsSound
    <3> QED BY <2>8, <3>1, <3>2 DEF PageForms
  <2> QED BY <1>1, <1>2, <1>3, <2>9, <2>10, <2>11, <2>12 DEF PageIsSound
<1>8. CASE Cardinality(page) # Limit
  <2>1. Cardinality(page) = Cardinality(eligible)
    BY <1>1, <1>8
  <2>2. page = eligible
    BY <1>1, <1>5, <2>1, FS_Subset
  <2>3. a.cursor = None
    BY <1>2, <1>8
  <2>4. a \in PageForms
    <3>1. a = [rows |-> page, cursor |-> None, snapshot |-> DOMAIN created]
      BY <1>2, <2>3 DEF Paging!Response, Paging!Rows
    <3>2. DOMAIN created \in SUBSET ListedGist /\ page \in SUBSET ListedGist
      BY DEF CreatedIsSound
    <3> QED BY <3>1, <3>2 DEF PageForms
  <2> QED BY <1>1, <1>2, <1>3, <2>2, <2>3, <2>4 DEF PageIsSound
<1> QED BY <1>7, <1>8
\* The client is shown a page of what is older than its cursor.
LEMMA ShownIsSound ==
  ASSUME NEW cr, CreatedIsSound(cr), NEW w, WalkIsSound(w, cr), w.pc \in {"idle", "walking"},
         NEW a, PageIsSound(a, cr),
         w.cursor # None => \A r \in a.rows : cr[r] < w.cursor,
         w.cursor # None /\ a.cursor # None => a.cursor <= w.cursor,
         w.pc = "idle" => FirstIsSound(a, cr),
         w.pc = "walking" => \A r \in DOMAIN cr : cr[r] < w.cursor =>
           r \in a.rows \/ Tied(r, a, cr) \/ Further(r, a, cr),
         NEW u, u = Paging!Shown(w, a)
  PROVE  WalkIsSound(u, cr)
<1>1. /\ w \in WalkForms /\ w.pages \in Seq(PageForms) /\ w.cursor \in Nat \cup {None}
      /\ a \in PageForms /\ a.cursor \in Nat \cup {None} /\ a.snapshot \in SUBSET ListedGist
      /\ w.began \in SUBSET ListedGist
  BY DEF WalkIsSound, PageIsSound, WalkForms, PageForms
<1>2. /\ u.pages = Append(w.pages, a) /\ u.cursor = a.cursor
      /\ u.began = IF w.pc = "idle" THEN a.snapshot ELSE w.began
      /\ u.pc = IF a.cursor = None THEN "done" ELSE "walking"
      /\ u = [pc |-> u.pc, cursor |-> u.cursor, pages |-> u.pages, began |-> u.began]
  BY <1>1 DEF Paging!Shown, WalkForms
<1> DEFINE n == Len(w.pages) + 1
<1>3. /\ u.pages \in Seq(PageForms) /\ DOMAIN u.pages = DOMAIN w.pages \cup {n}
      /\ n \notin DOMAIN w.pages /\ u.pages[n] = a
      /\ \A i \in DOMAIN w.pages : u.pages[i] = w.pages[i]
  BY <1>1, <1>2, Appended
<1>4. u \in WalkForms
  BY <1>1, <1>2, <1>3 DEF WalkForms
<1>5. \A i \in DOMAIN w.pages : i < n /\ i \in Nat
  <2>1. Len(w.pages) \in Nat /\ DOMAIN w.pages = 1..Len(w.pages)
    BY <1>1
  <2> QED BY <2>1
<1>6. n \in Nat
  BY <1>1
<1> HIDE DEF n
<1>7. \A r \in DOMAIN cr : cr[r] \in Nat
  BY DEF CreatedIsSound
<1>8. w.pc = "idle" => w.pages = << >> /\ DOMAIN w.pages = {}
  BY DEF WalkIsSound
<1>9. w.pc = "walking" <=> w.cursor # None
  BY DEF WalkIsSound
<1>10. a.rows \subseteq DOMAIN cr /\ a.snapshot \subseteq DOMAIN cr
  BY DEF PageIsSound
<1>11. u.pc = "walking" <=> u.cursor # None
  BY <1>2
<1>12. ASSUME NEW i \in DOMAIN u.pages
       PROVE  /\ u.pages[i].rows \subseteq DOMAIN cr
              /\ u.cursor # None => \A r \in u.pages[i].rows : u.cursor <= cr[r]
  <2>1. CASE i = n
    BY <1>2, <1>3, <1>10, <2>1 DEF PageIsSound
  <2>2. CASE i # n
    <3>1. i \in DOMAIN w.pages /\ u.pages[i] = w.pages[i] /\ w.cursor # None /\ w.cursor \in Nat
      BY <1>1, <1>3, <1>8, <1>9, <2>2
    <3>2. w.pages[i].rows \subseteq DOMAIN cr /\ \A r \in w.pages[i].rows : w.cursor <= cr[r]
      BY <3>1 DEF WalkIsSound
    <3>3. u.cursor # None => u.cursor \in Nat /\ u.cursor <= w.cursor
      BY <1>1, <1>2, <3>1
    <3> QED BY <1>7, <3>1, <3>2, <3>3
  <2> QED BY <2>1, <2>2
<1>13. ASSUME NEW i \in DOMAIN u.pages, NEW j \in DOMAIN u.pages, i < j,
              NEW r \in u.pages[i].rows, NEW s \in u.pages[j].rows
       PROVE  cr[s] < cr[r]
  <2>1. i # n
    BY <1>3, <1>5, <1>6, <1>13
  <2>2. i \in DOMAIN w.pages /\ u.pages[i] = w.pages[i]
    BY <1>3, <2>1
  <2>3. CASE j = n
    <3>1. w.cursor # None /\ w.cursor \in Nat
      BY <1>1, <1>8, <1>9, <2>2
    <3>2. w.cursor <= cr[r] /\ r \in DOMAIN cr
      BY <2>2, <3>1, <1>13 DEF WalkIsSound
    <3>3. cr[s] < w.cursor /\ s \in DOMAIN cr
      BY <1>3, <1>10, <2>3, <3>1
    <3> QED BY <1>7, <3>1, <3>2, <3>3
  <2>4. CASE j # n
    <3>1. j \in DOMAIN w.pages /\ u.pages[j] = w.pages[j]
      BY <1>3, <2>4
    <3> QED BY <1>13, <2>2, <3>1 DEF WalkIsSound
  <2> QED BY <2>3, <2>4
<1>14. u.began \subseteq DOMAIN cr
  BY <1>2, <1>10 DEF WalkIsSound
<1>15. ASSUME NEW r \in u.began
       PROVE  \/ \E i \in DOMAIN u.pages : r \in u.pages[i].rows \/ Tied(r, u.pages[i], cr)
              \/ u.cursor # None /\ cr[r] < u.cursor
  <2>1. ASSUME r \in a.rows \/ Tied(r, a, cr) \/ Further(r, a, cr)
        PROVE  \/ \E i \in DOMAIN u.pages : r \in u.pages[i].rows \/ Tied(r, u.pages[i], cr)
               \/ u.cursor # None /\ cr[r] < u.cursor
    BY <1>2, <1>3, <2>1 DEF Further
  <2>2. CASE w.pc = "idle"
    BY <1>2, <2>1, <2>2 DEF FirstIsSound
  <2>3. CASE w.pc = "walking"
    <3>1. r \in w.began /\ r \in DOMAIN cr
      BY <1>2, <1>14, <2>3
    <3>2. CASE \E i \in DOMAIN w.pages : r \in w.pages[i].rows \/ Tied(r, w.pages[i], cr)
      BY <1>3, <3>2
    <3>3. CASE cr[r] < w.cursor
      BY <2>1, <2>3, <3>1, <3>3
    <3> QED BY <3>1, <3>2, <3>3 DEF WalkIsSound
  <2> QED BY <2>2, <2>3
<1>16. u.pc # "idle"
  BY <1>2
<1> QED BY <1>4, <1>11, <1>12, <1>13, <1>14, <1>15, <1>16 DEF WalkIsSound

\* A gist that is inserted changes nothing for the pages there are.
LEMMA InsertedRow ==
  ASSUME PagingInv, NEW r \in ListedGist, NEW at \in Nat, Paging!InsertRow(r, at)
  PROVE  PagingInv'
<1>1. /\ r \notin DOMAIN created /\ at \in {pageNow, pageNow - 1}
      /\ created' = [x \in DOMAIN created \cup {r} |-> IF x = r THEN at ELSE created[x]]
      /\ pageNow' = pageNow /\ cached' = cached /\ walk' = walk
  BY DEF Paging!InsertRow, Paging!Rows
<1>2. /\ DOMAIN created' = DOMAIN created \cup {r} /\ created'[r] = at
      /\ \A x \in DOMAIN created : created'[x] = created[x]
  BY <1>1
<1>3. /\ pageNow \in Nat /\ CreatedIsSound(created) /\ WalkIsSound(walk, created)
      /\ \A x \in DOMAIN created : created[x] <= pageNow
      /\ cached = None \/ (PageIsSound(cached, created) /\ FirstIsSound(cached, created))
  BY DEF PagingInv
<1>4. created' = [x \in DOMAIN created' |-> created'[x]]
  BY <1>1
<1>5. CreatedIsSound(created')
  BY <1>2, <1>3, <1>4 DEF CreatedIsSound
<1>6. \A x \in DOMAIN created' : created'[x] <= pageNow
  BY <1>1, <1>2, <1>3
<1>7. cached = None \/ (PageIsSound(cached, created') /\ FirstIsSound(cached, created'))
  <2>1. ASSUME PageIsSound(cached, created), FirstIsSound(cached, created)
        PROVE  PageIsSound(cached, created') /\ FirstIsSound(cached, created')
    BY <1>2, <2>1 DEF PageIsSound, FirstIsSound, Tied, Further
  <2> QED BY <1>3, <2>1
<1>8. WalkIsSound(walk, created')
  <2>1. \A i \in DOMAIN walk.pages : walk.pages[i].rows \subseteq DOMAIN created
    BY <1>3 DEF WalkIsSound
  <2>2. \A i, j \in DOMAIN walk.pages : i < j =>
          \A x \in walk.pages[i].rows, s \in walk.pages[j].rows : created'[s] < created'[x]
    BY <1>2, <1>3, <2>1 DEF WalkIsSound
  <2>3. \A x \in walk.began :
          \/ \E i \in DOMAIN walk.pages : x \in walk.pages[i].rows \/ Tied(x, walk.pages[i], created')
          \/ walk.cursor # None /\ created'[x] < walk.cursor
    <3>1. \A x \in walk.began : x \in DOMAIN created /\ created'[x] = created[x]
      BY <1>2, <1>3 DEF WalkIsSound
    <3> QED BY <1>3, <3>1 DEF WalkIsSound, Tied
  <2>4. \A i \in DOMAIN walk.pages :
          /\ walk.pages[i].rows \subseteq DOMAIN created'
          /\ walk.cursor # None => \A x \in walk.pages[i].rows : walk.cursor <= created'[x]
    BY <1>2, <1>3 DEF WalkIsSound
  <2>5. walk.began \subseteq DOMAIN created'
    BY <1>2, <1>3 DEF WalkIsSound
  <2> QED BY <1>3, <2>2, <2>3, <2>4, <2>5 DEF WalkIsSound
<1> QED BY <1>1, <1>3, <1>5, <1>6, <1>7, <1>8 DEF PagingInv

LEMMA StepPaging == PagingInv /\ [Paging!PagingNext]_(Paging!pagingVars) => PagingInv'
<1> SUFFICES ASSUME PagingInv, [Paging!PagingNext]_(Paging!pagingVars) PROVE PagingInv'
  OBVIOUS
<1>1. /\ pageNow \in Nat /\ CreatedIsSound(created) /\ WalkIsSound(walk, created)
      /\ \A x \in DOMAIN created : created[x] <= pageNow
      /\ cached = None \/ (PageIsSound(cached, created) /\ FirstIsSound(cached, created))
  BY DEF PagingInv
<1>2. CASE UNCHANGED Paging!pagingVars
  BY <1>1, <1>2 DEF Paging!pagingVars, PagingInv
<1>3. CASE Paging!Tick
  <2>1. pageNow' = pageNow + 1 /\ created' = created /\ cached' = cached /\ walk' = walk
    BY <1>3 DEF Paging!Tick
  <2>2. \A x \in DOMAIN created : created[x] <= pageNow + 1
    BY <1>1 DEF CreatedIsSound
  <2> QED BY <1>1, <2>1, <2>2 DEF PagingInv
<1>4. CASE Paging!FirstPage
  <2>1. walk.pc = "idle" /\ created' = created /\ pageNow' = pageNow
    BY <1>4 DEF Paging!FirstPage
  <2>2. walk.cursor = None
    BY <1>1, <2>1 DEF WalkIsSound
  <2>3. ASSUME NEW a, PageIsSound(a, created), FirstIsSound(a, created),
               walk' = Paging!Shown(walk, a), cached' = a
        PROVE  PagingInv'
    <3>1. WalkIsSound(walk', created)
      BY <1>1, <2>1, <2>2, <2>3, ShownIsSound
    <3> QED BY <1>1, <2>1, <2>3, <3>1 DEF PagingInv
  <2>4. CASE cached # None /\ walk' = Paging!Shown(walk, cached) /\ cached' = cached
    BY <1>1, <2>3, <2>4
  <2>5. ASSUME NEW page \in SUBSET Paging!Rows, Paging!IsPage(page, None),
               cached' = Paging!Response(page), walk' = Paging!Shown(walk, Paging!Response(page))
        PROVE  PagingInv'
    <3> DEFINE a == Paging!Response(page)
    <3>1. page \in SUBSET (DOMAIN created) /\ None \in Nat \cup {None}
      BY DEF Paging!Rows
    <3>2. /\ PageIsSound(a, created) /\ a.snapshot = DOMAIN created
          /\ \A r \in DOMAIN created : r \in a.rows \/ Tied(r, a, created) \/ Further(r, a, created)
      BY <1>1, <2>5, <3>1, ResponseIsSound
    <3>3. FirstIsSound(a, created)
      BY <3>2 DEF FirstIsSound
    <3> QED BY <2>3, <2>5, <3>2, <3>3
  <2> QED BY <1>4, <2>4, <2>5 DEF Paging!FirstPage
<1>5. CASE Paging!NextPage
  <2>1. /\ walk.pc = "walking" /\ created' = created /\ pageNow' = pageNow /\ cached' = cached
    BY <1>5 DEF Paging!NextPage
  <2>2. PICK page \in SUBSET Paging!Rows :
          Paging!IsPage(page, walk.cursor) /\ walk' = Paging!Shown(walk, Paging!Response(page))
    BY <1>5 DEF Paging!NextPage
  <2> DEFINE a == Paging!Response(page)
  <2>3. walk.cursor \in Nat \cup {None} /\ walk.cursor # None
    BY <1>1, <2>1 DEF WalkIsSound, WalkForms
  <2>4. page \in SUBSET (DOMAIN created)
    BY DEF Paging!Rows
  <2>5. /\ PageIsSound(a, created)
        /\ \A r \in a.rows : created[r] < walk.cursor
        /\ a.cursor # None => a.cursor <= walk.cursor
        /\ \A r \in DOMAIN created : created[r] < walk.cursor =>
             r \in a.rows \/ Tied(r, a, created) \/ Further(r, a, created)
    BY <1>1, <2>2, <2>3, <2>4, ResponseIsSound
  <2> HIDE DEF a
  <2>6. WalkIsSound(walk', created)
    <3>1. walk' = Paging!Shown(walk, a)
      BY <2>2 DEF a
    <3> QED BY <1>1, <2>1, <2>3, <2>5, <3>1, ShownIsSound
  <2> QED BY <1>1, <2>1, <2>6 DEF PagingInv
<1>6. CASE Paging!ForgetPage
  BY <1>1, <1>6 DEF Paging!ForgetPage, PagingInv
<1>7. CASE Paging!Leave
  <2>1. /\ walk' = [pc |-> "idle", cursor |-> None, pages |-> << >>, began |-> {}]
        /\ created' = created /\ pageNow' = pageNow /\ cached' = cached
    BY <1>7 DEF Paging!Leave, Paging!NoWalk
  <2>2. walk' \in WalkForms
    BY <2>1 DEF WalkForms
  <2>3. /\ walk'.pc = "idle" /\ walk'.cursor = None /\ walk'.pages = << >> /\ walk'.began = {}
        /\ DOMAIN walk'.pages = {}
    BY <2>1
  <2>4. WalkIsSound(walk', created)
    BY <2>2, <2>3 DEF WalkIsSound
  <2> QED BY <1>1, <2>1, <2>4 DEF PagingInv
<1>8. ASSUME NEW r \in ListedGist, NEW at \in 0..ListTime, Paging!InsertRow(r, at) PROVE PagingInv'
  <2>1. at \in Nat
    BY PagingConstants
  <2> QED BY <1>8, <2>1, InsertedRow
<1> QED BY <1>2, <1>3, <1>4, <1>5, <1>6, <1>7, <1>8 DEF Paging!PagingNext

LEMMA PagingKeeps ==
  PagingInv => Paging!PagingTypeOK /\ Paging!PagesNeverOverlap /\ Paging!OnlyTiesAreSkipped
<1> SUFFICES ASSUME PagingInv
             PROVE  Paging!PagingTypeOK /\ Paging!PagesNeverOverlap /\ Paging!OnlyTiesAreSkipped
  OBVIOUS
<1>1. /\ pageNow \in Nat /\ CreatedIsSound(created) /\ WalkIsSound(walk, created)
      /\ \A x \in DOMAIN created : created[x] <= pageNow
      /\ cached = None \/ (PageIsSound(cached, created) /\ FirstIsSound(cached, created))
  BY DEF PagingInv
<1>2. \A x \in DOMAIN created : created[x] \in 0..pageNow
  BY <1>1 DEF CreatedIsSound
<1>3. walk.pc \in {"idle", "walking", "done"}
  BY <1>1 DEF WalkIsSound, WalkForms
<1>4. Paging!PagingTypeOK
  BY <1>1, <1>2, <1>3 DEF Paging!PagingTypeOK, Paging!Rows, CreatedIsSound, PageIsSound, WalkIsSound
<1>5. Paging!PagesNeverOverlap
  BY <1>1 DEF Paging!PagesNeverOverlap, WalkIsSound
<1>6. Paging!OnlyTiesAreSkipped
  BY <1>1 DEF Paging!OnlyTiesAreSkipped, WalkIsSound, Tied
<1> QED BY <1>4, <1>5, <1>6
-----------------------------------------------------------------------------
(* Indexing *)

PollForms == {Index!Idle} \cup [pc: {"asked"}, since: Nat]
             \cup [pc: {"events"}, todo: SUBSET Nat, max: Nat]
EventRows(events) == [event: events, by: {"post", "index"}]

\* Index!Backed, of the table and the chain it is said of.
BackedBy(at, rs, ch) == at = 0 \/ \E r \in rs : at <= Genesis + ch[r.event]

\* What a poll has still to do is on the chain, and its maximum is a row's.
PollIsSound(q, rs, ch) ==
  q.pc = "events" => q.todo \subseteq DOMAIN ch /\ BackedBy(q.max, rs, ch)

TableIsSound ==
  /\ table \subseteq EventRows(DOMAIN chain)
  /\ \A r, s \in table : r.event = s.event => r = s
  /\ unique = FALSE => \A r \in table : r.by = "post"
IndexInv ==
  /\ unique \in BOOLEAN /\ chain \in Seq(1..MaxLedger) /\ TableIsSound
  /\ cursor \in Nat /\ BackedBy(cursor, table, chain)
  /\ file = None \/ (file \in Nat \ {0} /\ BackedBy(file, table, chain))
  /\ poll \in [Poll -> PollForms]
  /\ \A p \in Poll : PollIsSound(poll[p], table, chain)

LEMMA IndexConstants ==
  MaxLedger \in Nat /\ Genesis \in Nat /\ None \notin Nat
BY BackendConstants DEF BackendConstants

LEMMA ChainFacts ==
  ASSUME NEW ch \in Seq(1..MaxLedger)
  PROVE  /\ Len(ch) \in Nat /\ DOMAIN ch = 1..Len(ch)
         /\ \A e \in DOMAIN ch : e \in Nat /\ ch[e] \in Nat /\ ch[e] \in 1..MaxLedger
BY IndexConstants

LEMMA InitIndex == Index!IndexerInit => IndexInv
<1> SUFFICES ASSUME Index!IndexerInit PROVE IndexInv
  OBVIOUS
<1>1. /\ unique \in BOOLEAN /\ chain = << >> /\ cursor = 0 /\ file = None
      /\ poll = [p \in Poll |-> Index!Idle] /\ table = {}
  BY DEF Index!IndexerInit
<1>2. DOMAIN chain = {} /\ chain \in Seq(1..MaxLedger)
  BY <1>1
<1>3. TableIsSound
  BY <1>1, <1>2 DEF TableIsSound
<1>4. poll \in [Poll -> PollForms] /\ \A p \in Poll : poll[p].pc = "idle"
  BY <1>1 DEF PollForms, Index!Idle
<1> QED BY <1>1, <1>2, <1>3, <1>4 DEF IndexInv, BackedBy, PollIsSound

\* Events and rows are only added: what was backed stays so.
LEMMA BackedStays ==
  ASSUME NEW at, NEW rs, NEW ch, BackedBy(at, rs, ch), NEW more, rs \subseteq more,
         NEW longer, \A r \in rs : longer[r.event] = ch[r.event]
  PROVE  BackedBy(at, more, longer)
BY DEF BackedBy

\* A step adds to the chain and the table; what it sets is backed.
LEMMA IndexStep ==
  ASSUME IndexInv, unique' = unique, chain' \in Seq(1..MaxLedger),
         DOMAIN chain \subseteq DOMAIN chain', \A e \in DOMAIN chain : chain'[e] = chain[e],
         table \subseteq table', TableIsSound',
         cursor' = cursor \/ (cursor' \in Nat /\ BackedBy(cursor', table', chain')),
         \/ file' = file \/ file' = None
         \/ file' \in Nat \ {0} /\ BackedBy(file', table', chain'),
         poll' \in [Poll -> PollForms],
         \A p \in Poll : poll'[p] = poll[p] \/ PollIsSound(poll'[p], table', chain')
  PROVE  IndexInv'
<1>1. \A r \in table : chain'[r.event] = chain[r.event]
  BY DEF IndexInv, TableIsSound, EventRows
<1>2. ASSUME NEW at, BackedBy(at, table, chain) PROVE BackedBy(at, table', chain')
  BY <1>1, <1>2, BackedStays
<1>3. cursor' \in Nat /\ BackedBy(cursor', table', chain')
  BY <1>2 DEF IndexInv
<1>4. file' = None \/ (file' \in Nat \ {0} /\ BackedBy(file', table', chain'))
  BY <1>2 DEF IndexInv
<1>5. ASSUME NEW p \in Poll PROVE PollIsSound(poll'[p], table', chain')
  BY <1>2 DEF IndexInv, PollIsSound
<1> QED BY <1>3, <1>4, <1>5 DEF IndexInv

\* The step of one poll that leaves everything else as it is.
LEMMA PollSteps ==
  ASSUME IndexInv, UNCHANGED <<unique, chain, table, cursor, file>>, NEW p \in Poll,
         NEW q \in PollForms, poll' = [poll EXCEPT ![p] = q], PollIsSound(q, table, chain)
  PROVE  IndexInv'
<1>1. poll' \in [Poll -> PollForms] /\ \A o \in Poll : poll'[o] = IF o = p THEN q ELSE poll[o]
  BY DEF IndexInv
<1>2. TableIsSound'
  BY DEF IndexInv, TableIsSound
<1> QED BY <1>1, <1>2, IndexStep DEF IndexInv

LEMMA EmittedEvent ==
  ASSUME IndexInv, NEW at \in 1..MaxLedger, Index!Emit(at)
  PROVE  IndexInv'
<1> DEFINE n == Len(chain) + 1
<1>1. /\ chain' = Append(chain, at)
      /\ unique' = unique /\ cursor' = cursor /\ file' = file /\ poll' = poll /\ table' = table
  BY DEF Index!Emit
<1>2. chain \in Seq(1..MaxLedger)
  BY DEF IndexInv
<1>3. /\ chain' \in Seq(1..MaxLedger) /\ DOMAIN chain' = DOMAIN chain \cup {n}
      /\ \A e \in DOMAIN chain : chain'[e] = chain[e]
  BY <1>1, <1>2, Appended
<1>4. TableIsSound'
  <2>1. EventRows(DOMAIN chain) \subseteq EventRows(DOMAIN chain')
    BY <1>3 DEF EventRows
  <2>2. table' \subseteq EventRows(DOMAIN chain')
    BY <1>1, <2>1 DEF IndexInv, TableIsSound
  <2> QED BY <1>1, <2>2 DEF IndexInv, TableIsSound
<1> QED BY <1>1, <1>3, <1>4, IndexStep DEF IndexInv

\* The row an event gets is its only one.
LEMMA RowForEvent ==
  ASSUME TableIsSound, unique' = unique, chain' = chain, NEW e \in DOMAIN chain,
         Index!RowsOf(e) = {}, NEW writer \in {"post", "index"}, unique = FALSE => writer = "post",
         table' = table \cup {[event |-> e, by |-> writer]}
  PROVE  TableIsSound'
<1> DEFINE x == [event |-> e, by |-> writer]
<1>1. x \in EventRows(DOMAIN chain) /\ x.event = e /\ x.by = writer
  BY DEF EventRows
<1>2. \A r \in table : r.event # e
  BY DEF Index!RowsOf
<1> HIDE DEF x
<1>3. table' = table \cup {x}
  BY DEF x
<1>4. \A r, s \in table' : r.event = s.event => r = s
  BY <1>1, <1>2, <1>3 DEF TableIsSound
<1> QED BY <1>1, <1>3, <1>4 DEF TableIsSound

\* An upsert that succeeds has its row, whoever wrote it: the maximum it raises
\* to is that row's.
LEMMA StepUpsert ==
  ASSUME IndexInv, NEW p \in Poll, Index!Upsert(p)
  PROVE  IndexInv'
<1> DEFINE q == poll[p]
<1>1. /\ q.pc = "events" /\ unique = TRUE /\ unique' = unique /\ chain' = chain
      /\ cursor' = cursor /\ file' = file
  BY DEF Index!Upsert, IndexInv
<1>2. /\ q \in [pc: {"events"}, todo: SUBSET Nat, max: Nat]
      /\ q.todo \subseteq DOMAIN chain /\ BackedBy(q.max, table, chain)
  <2>1. q \in PollForms /\ PollIsSound(q, table, chain)
    BY DEF IndexInv
  <2>2. q \in [pc: {"events"}, todo: SUBSET Nat, max: Nat]
    BY <1>1, <2>1 DEF PollForms, Index!Idle
  <2> QED BY <1>1, <2>1, <2>2 DEF PollIsSound
<1>3. PICK e \in q.todo :
        /\ table' = IF Index!RowsOf(e) # {} THEN table
                    ELSE table \cup {[event |-> e, by |-> "index"]}
        /\ poll' = [poll EXCEPT ![p] = [q EXCEPT !.todo = q.todo \ {e},
                                   !.max = Index!Later(q.max, Index!CreatedAt(e))]]
  BY DEF Index!Upsert, Index!Step, Index!Upserted, Index!Reached
<1> DEFINE high == Index!Later(q.max, Index!CreatedAt(e))
           u == [q EXCEPT !.todo = q.todo \ {e}, !.max = high]
<1>4. e \in DOMAIN chain /\ chain[e] \in Nat /\ Index!CreatedAt(e) = Genesis + chain[e]
  BY <1>2, <1>3, ChainFacts DEF IndexInv, Index!CreatedAt
<1>5. table \subseteq table' /\ TableIsSound'
  <2>1. CASE Index!RowsOf(e) # {}
    BY <1>1, <1>3, <2>1 DEF IndexInv, TableIsSound
  <2>2. CASE Index!RowsOf(e) = {}
    BY <1>1, <1>3, <1>4, <2>2, RowForEvent DEF IndexInv
  <2> QED BY <1>3, <2>1, <2>2
<1>6. \E r \in table' : r.event = e
  <2>1. CASE Index!RowsOf(e) # {}
    BY <1>3, <2>1 DEF Index!RowsOf
  <2>2. CASE Index!RowsOf(e) = {}
    <3>1. [event |-> e, by |-> "index"].event = e
      OBVIOUS
    <3> QED BY <1>3, <2>2, <3>1
  <2> QED BY <2>1, <2>2
<1>7. high \in {q.max, Genesis + chain[e]} /\ high \in Nat
  BY <1>2, <1>4, IndexConstants DEF Index!Later
<1> HIDE DEF high
<1>8. u \in PollForms /\ u.todo \subseteq DOMAIN chain /\ u.max = high
  <2>1. q.todo \ {e} \in SUBSET Nat /\ q.todo \ {e} \subseteq DOMAIN chain
    BY <1>2
  <2> HIDE DEF q
  <2>2. /\ u \in [pc: {"events"}, todo: SUBSET Nat, max: Nat]
        /\ u.todo = q.todo \ {e} /\ u.max = high
    BY <1>2, <1>7, <2>1
  <2> QED BY <2>1, <2>2 DEF PollForms
<1>9. BackedBy(high, table', chain')
  <2>1. CASE high = q.max
    BY <1>1, <1>2, <1>5, <2>1 DEF BackedBy
  <2>2. CASE high = Genesis + chain[e]
    <3>1. high <= high
      BY <1>7
    <3> QED BY <1>1, <1>6, <2>2, <3>1 DEF BackedBy
  <2> QED BY <1>7, <2>1, <2>2
<1>10. PollIsSound(u, table', chain')
  BY <1>1, <1>8, <1>9 DEF PollIsSound
<1>11. poll' = [poll EXCEPT ![p] = u]
  BY <1>3 DEF high
<1> HIDE DEF u, q
<1>12. /\ poll' \in [Poll -> PollForms]
       /\ \A o \in Poll : poll'[o] = IF o = p THEN u ELSE poll[o]
  BY <1>8, <1>11 DEF IndexInv
<1>13. \A o \in Poll : poll'[o] = poll[o] \/ PollIsSound(poll'[o], table', chain')
  BY <1>10, <1>12
<1> QED BY <1>1, <1>5, <1>12, <1>13, IndexStep DEF IndexInv

LEMMA StepUpsertFails ==
  ASSUME IndexInv, NEW p \in Poll, Index!UpsertFails(p)
  PROVE  IndexInv'
<1> DEFINE q == poll[p]
<1>1. q.pc = "events" /\ UNCHANGED <<unique, chain, table, cursor, file>>
  BY DEF Index!UpsertFails
<1>2. PICK e \in q.todo : poll' = [poll EXCEPT ![p] = [q EXCEPT !.todo = q.todo \ {e}]]
  BY DEF Index!UpsertFails, Index!Step
<1>3. q \in PollForms /\ PollIsSound(q, table, chain)
  BY DEF IndexInv
<1> DEFINE u == [q EXCEPT !.todo = q.todo \ {e}]
<1> HIDE DEF q
<1>4. q \in [pc: {"events"}, todo: SUBSET Nat, max: Nat]
  BY <1>1, <1>3 DEF PollForms, Index!Idle
<1>5. u \in PollForms /\ u.todo \subseteq q.todo /\ u.max = q.max
  <2>1. u \in [pc: {"events"}, todo: SUBSET Nat, max: Nat] /\ u.todo = q.todo \ {e}
    BY <1>4
  <2> QED BY <1>4, <2>1 DEF PollForms
<1>6. PollIsSound(u, table, chain)
  BY <1>1, <1>3, <1>5 DEF PollIsSound
<1> HIDE DEF u
<1> QED BY <1>1, <1>2, <1>5, <1>6, PollSteps DEF u

LEMMA StepAnswer ==
  ASSUME IndexInv, NEW p \in Poll, NEW edge \in BOOLEAN, Index!Answer(p, edge)
  PROVE  IndexInv'
<1> DEFINE events == {e \in DOMAIN chain : \/ chain[e] > poll[p].since
                                           \/ edge /\ chain[e] = poll[p].since}
           u == IF events = {} THEN Index!Idle
                ELSE [pc |-> "events", todo |-> events, max |-> cursor]
<1>1. poll' = [poll EXCEPT ![p] = u] /\ UNCHANGED <<unique, chain, table, cursor, file>>
  BY DEF Index!Answer, Index!Step
<1>2. events \subseteq DOMAIN chain /\ events \in SUBSET Nat
  BY ChainFacts DEF IndexInv
<1> HIDE DEF events
<1>3. u \in PollForms /\ PollIsSound(u, table, chain)
  <2>1. CASE events = {}
    BY <2>1 DEF PollForms, PollIsSound, Index!Idle
  <2>2. CASE events # {}
    BY <1>2, <2>2 DEF PollForms, PollIsSound, IndexInv
  <2> QED BY <2>1, <2>2
<1> HIDE DEF u
<1> QED BY <1>1, <1>3, PollSteps

LEMMA StepFinish ==
  ASSUME IndexInv, NEW p \in Poll, Index!FinishPoll(p)
  PROVE  IndexInv'
<1> DEFINE q == poll[p]
<1>1. /\ q.pc = "events" /\ poll' = [poll EXCEPT ![p] = Index!Idle]
      /\ UNCHANGED <<unique, chain, table>>
      /\ \/ cursor' = q.max /\ file' \in {q.max, file} /\ q.max > cursor
         \/ cursor' = cursor /\ file' = file
  BY DEF Index!FinishPoll, Index!Step
<1>2. q \in PollForms /\ PollIsSound(q, table, chain)
  BY DEF IndexInv
<1>3. q.max \in Nat /\ BackedBy(q.max, table, chain)
  BY <1>1, <1>2 DEF PollForms, Index!Idle, PollIsSound
<1> HIDE DEF q
<1>4. cursor' = cursor \/ (cursor' \in Nat /\ BackedBy(cursor', table', chain'))
  BY <1>1, <1>3
<1>5. \/ file' = file
      \/ file' \in Nat \ {0} /\ BackedBy(file', table', chain')
  BY <1>1, <1>3 DEF IndexInv
<1>6. /\ poll' \in [Poll -> PollForms]
      /\ \A o \in Poll : poll'[o] = poll[o] \/ poll'[o] = Index!Idle
  BY <1>1 DEF IndexInv, PollForms
<1>7. PollIsSound(Index!Idle, table', chain')
  BY DEF PollIsSound, Index!Idle
<1>8. TableIsSound'
  BY <1>1 DEF IndexInv, TableIsSound
<1>9. \A o \in Poll : poll'[o] = poll[o] \/ PollIsSound(poll'[o], table', chain')
  BY <1>6, <1>7
<1> QED BY <1>1, <1>4, <1>5, <1>6, <1>8, <1>9, IndexStep DEF IndexInv

\* A torn file holds less than what the poll was writing.
LEMMA StepRestart == IndexInv /\ Index!Restart => IndexInv'
<1> SUFFICES ASSUME IndexInv, Index!Restart PROVE IndexInv'
  OBVIOUS
<1>1. PICK f \in {file} \cup Index!Torn :
        /\ file' = f /\ cursor' = Index!LoadCursor(f)
        /\ poll' = [p \in Poll |-> Index!Idle]
        /\ unique' = unique /\ chain' = chain /\ table' = table
  BY DEF Index!Restart
<1>2. f = None \/ (f \in Nat \ {0} /\ BackedBy(f, table, chain))
  <2>1. CASE f = file
    BY <2>1 DEF IndexInv
  <2>2. CASE f \in Index!Torn
    <3>1. PICK p \in Poll : poll[p].pc = "events" /\ f \in {None} \cup 1..(poll[p].max - 1)
      BY <2>2 DEF Index!Torn
    <3> DEFINE q == poll[p]
    <3>2. q \in PollForms /\ PollIsSound(q, table, chain)
      BY DEF IndexInv
    <3>3. q.max \in Nat /\ BackedBy(q.max, table, chain)
      BY <3>1, <3>2 DEF PollForms, Index!Idle, PollIsSound
    <3>4. f = None \/ f \in 1..(q.max - 1)
      BY <3>1
    <3> HIDE DEF q
    <3>5. ASSUME f # None PROVE f \in Nat \ {0} /\ BackedBy(f, table, chain)
      <4>1. f \in Nat \ {0} /\ f < q.max
        BY <3>3, <3>4, <3>5
      <4>2. PICK r \in table : q.max <= Genesis + chain[r.event]
        BY <3>3, <4>1 DEF BackedBy
      <4>3. Genesis + chain[r.event] \in Nat
        BY ChainFacts, IndexConstants DEF IndexInv, TableIsSound, EventRows
      <4>4. f <= Genesis + chain[r.event]
        BY <3>3, <4>1, <4>2, <4>3
      <4> QED BY <4>1, <4>4 DEF BackedBy
    <3> QED BY <3>5
  <2> QED BY <2>1, <2>2
<1>3. cursor' \in Nat /\ BackedBy(cursor', table', chain')
  <2>1. CASE f = None
    BY <1>1, <2>1 DEF Index!LoadCursor, BackedBy
  <2>2. CASE f # None
    BY <1>1, <1>2, <2>2 DEF Index!LoadCursor
  <2> QED BY <2>1, <2>2
<1>4. poll' \in [Poll -> PollForms] /\ \A o \in Poll : PollIsSound(poll'[o], table', chain')
  BY <1>1 DEF PollForms, PollIsSound, Index!Idle
<1>5. TableIsSound'
  BY <1>1 DEF IndexInv, TableIsSound
<1> QED BY <1>1, <1>2, <1>3, <1>4, <1>5, IndexStep DEF IndexInv

LEMMA StepIndex == IndexInv /\ [Index!IndexerNext]_(Index!indexerVars) => IndexInv'
<1> SUFFICES ASSUME IndexInv, [Index!IndexerNext]_(Index!indexerVars) PROVE IndexInv'
  OBVIOUS
<1>1. CASE UNCHANGED Index!indexerVars
  BY <1>1 DEF Index!indexerVars, IndexInv, TableIsSound
<1>2. ASSUME NEW e \in DOMAIN chain, Index!InsertOwn(e) PROVE IndexInv'
  <2>1. /\ \A r \in Index!RowsOf(e) : r.by # "post"
        /\ unique => Index!RowsOf(e) = {}
        /\ table' = table \cup {[event |-> e, by |-> "post"]}
        /\ unique' = unique /\ chain' = chain /\ cursor' = cursor /\ file' = file /\ poll' = poll
    BY <1>2 DEF Index!InsertOwn
  <2>2. TableIsSound /\ unique \in BOOLEAN
    BY DEF IndexInv
  <2>3. Index!RowsOf(e) = {}
    <3>1. CASE unique = FALSE
      BY <2>1, <2>2, <3>1 DEF TableIsSound, Index!RowsOf
    <3>2. CASE unique = TRUE
      BY <2>1, <3>2
    <3> QED BY <2>2, <3>1, <3>2
  <2>4. TableIsSound'
    BY <2>1, <2>2, <2>3, RowForEvent
  <2> QED BY <2>1, <2>4, IndexStep DEF IndexInv
<1>3. ASSUME NEW p \in Poll, Index!Ask(p) PROVE IndexInv'
  <2> DEFINE u == [pc |-> "asked", since |-> cursor]
  <2>1. poll' = [poll EXCEPT ![p] = u] /\ UNCHANGED <<unique, chain, table, cursor, file>>
    BY <1>3 DEF Index!Ask, Index!Step
  <2>2. u \in PollForms /\ PollIsSound(u, table, chain)
    BY DEF PollForms, PollIsSound, IndexInv
  <2> HIDE DEF u
  <2> QED BY <2>1, <2>2, PollSteps
<1>4. ASSUME NEW p \in Poll, Index!AskFails(p) PROVE IndexInv'
  <2>1. /\ poll' = [poll EXCEPT ![p] = Index!Idle]
        /\ UNCHANGED <<unique, chain, table, cursor, file>>
    BY <1>4 DEF Index!AskFails, Index!Step
  <2>2. Index!Idle \in PollForms /\ PollIsSound(Index!Idle, table, chain)
    BY DEF PollForms, PollIsSound, Index!Idle
  <2> QED BY <2>1, <2>2, PollSteps
<1> QED BY <1>1, <1>2, <1>3, <1>4, EmittedEvent, StepUpsert, StepUpsertFails, StepAnswer,
  StepFinish, StepRestart DEF Index!IndexerNext

LEMMA SameCardinalityOfRows == \A S : Index!Cardinality(S) = Cardinality(S)
BY DEF Index!Cardinality, Cardinality

LEMMA IndexKeeps ==
  IndexInv => Index!IndexerTypeOK /\ Index!OneRowEach /\ Index!CursorIsBacked
<1> SUFFICES ASSUME IndexInv
             PROVE  Index!IndexerTypeOK /\ Index!OneRowEach /\ Index!CursorIsBacked
  OBVIOUS
<1>1. Index!IndexerTypeOK
  <2>1. \A i \in DOMAIN chain : chain[i] \in 1..MaxLedger
    BY ChainFacts DEF IndexInv
  <2>2. \A p \in Poll : poll[p].pc \in {"idle", "asked", "events"}
    BY DEF IndexInv, PollForms, Index!Idle
  <2>3. \A r \in table : r.event \in DOMAIN chain /\ r.by \in {"post", "index"}
    BY DEF IndexInv, TableIsSound, EventRows
  <2>4. ASSUME NEW at \in Nat, BackedBy(at, table, chain) PROVE at \in 0..(Genesis + MaxLedger)
    <3>1. CASE at = 0
      BY <3>1, IndexConstants
    <3>2. ASSUME NEW r \in table, at <= Genesis + chain[r.event]
          PROVE  at \in 0..(Genesis + MaxLedger)
      <4>1. chain[r.event] \in 1..MaxLedger
        BY <2>1, <2>3
      <4> QED BY <3>2, <4>1, IndexConstants
    <3> QED BY <2>4, <3>1, <3>2 DEF BackedBy
  <2>5. cursor \in 0..(Genesis + MaxLedger)
    BY <2>4 DEF IndexInv
  <2>6. file \in 1..(Genesis + MaxLedger) \cup {None}
    <3>1. file = None \/ (file \in Nat \ {0} /\ file \in 0..(Genesis + MaxLedger))
      BY <2>4 DEF IndexInv
    <3> QED BY <3>1, IndexConstants
  <2> QED BY <2>1, <2>2, <2>3, <2>5, <2>6 DEF Index!IndexerTypeOK
<1>2. ASSUME NEW e \in DOMAIN chain PROVE Cardinality(Index!RowsOf(e)) <= 1
  <2>1. \A r, s \in Index!RowsOf(e) : r = s
    BY DEF IndexInv, TableIsSound, Index!RowsOf
  <2>2. CASE Index!RowsOf(e) = {}
    BY <2>2, FS_EmptySet
  <2>3. ASSUME NEW r, r \in Index!RowsOf(e) PROVE Cardinality(Index!RowsOf(e)) <= 1
    <3>1. Index!RowsOf(e) = {r}
      BY <2>1, <2>3
    <3>2. Cardinality({r}) = 1
      BY FS_Singleton
    <3> QED BY <3>1, <3>2
  <2> QED BY <2>2, <2>3
<1>3. Index!OneRowEach
  BY <1>2, SameCardinalityOfRows DEF Index!OneRowEach
<1>4. Index!CursorIsBacked
  BY DEF IndexInv, BackedBy, Index!CursorIsBacked, Index!Backed, Index!CreatedAt
<1> QED BY <1>1, <1>3, <1>4

-----------------------------------------------------------------------------
(* Geohash *)

\* The powers of two up to the n-th, and all of them.
ArePowers(f, n) == f = [k \in 0..n |-> IF k = 0 THEN 1 ELSE 2 * f[k - 1]]

LEMMA PowersExist == \A n \in Nat : \E f : ArePowers(f, n)
<1> DEFINE Without == {n \in Nat : ~ \E f : ArePowers(f, n)}
<1> SUFFICES ASSUME Without # {} PROVE FALSE
  OBVIOUS
<1>1. PICK n \in Without : \A m \in Without : n <= m
  <2> HIDE DEF Without
  <2>1. Without \subseteq Nat
    BY DEF Without
  <2> QED BY <2>1, LeastNatural
<1>2. CASE n = 0
  <2> DEFINE f == [k \in 0..0 |-> 1]
  <2>1. ArePowers(f, 0)
    BY DEF ArePowers
  <2> QED BY <1>1, <1>2, <2>1
<1>3. CASE n # 0
  <2>1. n - 1 \in Nat /\ n - 1 \notin Without
    BY <1>1, <1>3
  <2>2. PICK f : ArePowers(f, n - 1)
    BY <2>1
  <2> DEFINE g == [k \in 0..n |-> IF k < n THEN f[k] ELSE 2 * f[n - 1]]
  <2>3. ASSUME NEW k \in 0..n PROVE g[k] = IF k = 0 THEN 1 ELSE 2 * g[k - 1]
    <3>1. CASE k = n
      BY <1>1, <1>3, <3>1
    <3>2. CASE k # n
      BY <1>1, <1>3, <2>2, <3>2 DEF ArePowers
    <3> QED BY <3>1, <3>2
  <2>4. ArePowers(g, n)
    <3>1. g = [k \in 0..n |-> g[k]]
      OBVIOUS
    <3> HIDE DEF g
    <3> QED BY <2>3, <3>1 DEF ArePowers
  <2> QED BY <1>1, <2>4
<1> QED BY <1>2, <1>3

LEMMA PowersAgree ==
  ASSUME NEW n \in Nat, NEW m \in Nat, n <= m, NEW f, NEW g, ArePowers(f, n), ArePowers(g, m)
  PROVE  \A k \in 0..n : f[k] = g[k]
<1> DEFINE Differ == {k \in 0..n : f[k] # g[k]}
<1> SUFFICES ASSUME Differ # {} PROVE FALSE
  OBVIOUS
<1>1. PICK k \in Differ : \A j \in Differ : k <= j
  <2> HIDE DEF Differ
  <2>1. Differ \subseteq Nat
    BY DEF Differ
  <2> QED BY <2>1, LeastNatural
<1>2. k \in 0..n /\ k \in 0..m /\ f[k] # g[k]
  BY <1>1
<1>3. k = 0 \/ f[k - 1] = g[k - 1]
  BY <1>1, <1>2
<1> QED BY <1>2, <1>3 DEF ArePowers

LEMMA PowersOfTwo ==
  /\ Geo!Pow2[0] = 1
  /\ \A n \in Nat : Geo!Pow2[n + 1] = 2 * Geo!Pow2[n]
  /\ \A n \in Nat : Geo!Pow2[n] \in Nat \ {0}
<1> DEFINE Upto(n) == CHOOSE f : ArePowers(f, n)
           F == [n \in Nat |-> Upto(n)[n]]
<1>1. \A n \in Nat : ArePowers(Upto(n), n)
  BY PowersExist
<1>2. ASSUME NEW n \in Nat PROVE F[n] = IF n = 0 THEN 1 ELSE 2 * F[n - 1]
  <2> HIDE DEF Upto
  <2>1. CASE n = 0
    BY <1>1, <2>1 DEF ArePowers
  <2>2. CASE n # 0
    <3>1. n - 1 \in Nat /\ n - 1 <= n /\ n - 1 \in 0..n - 1
      BY <2>2
    <3>2. Upto(n - 1)[n - 1] = Upto(n)[n - 1]
      BY <1>1, <3>1, PowersAgree
    <3>3. Upto(n)[n] = 2 * Upto(n)[n - 1]
      <4>1. n \in 0..n
        OBVIOUS
      <4>2. ArePowers(Upto(n), n)
        BY <1>1
      <4> QED BY <2>2, <4>1, <4>2 DEF ArePowers
    <3> QED BY <2>2, <3>1, <3>2, <3>3
  <2> QED BY <2>1, <2>2
<1>3. F = [n \in Nat |-> IF n = 0 THEN 1 ELSE 2 * F[n - 1]]
  <2>1. F = [n \in Nat |-> F[n]]
    OBVIOUS
  <2> HIDE DEF F
  <2> QED BY <1>2, <2>1
<1>4. Geo!Pow2 = [n \in Nat |-> IF n = 0 THEN 1 ELSE 2 * Geo!Pow2[n - 1]]
  <2> HIDE DEF F
  <2> QED BY <1>3 DEF Geo!Pow2
<1>5. Geo!Pow2[0] = 1 /\ \A n \in Nat : Geo!Pow2[n + 1] = 2 * Geo!Pow2[n]
  BY <1>4
<1> DEFINE Wrong == {n \in Nat : Geo!Pow2[n] \notin Nat \ {0}}
<1>6. ASSUME Wrong # {} PROVE FALSE
  <2>1. PICK n \in Wrong : \A m \in Wrong : n <= m
    <3> HIDE DEF Wrong
    <3>1. Wrong \subseteq Nat
      BY DEF Wrong
    <3> QED BY <1>6, <3>1, LeastNatural
  <2>2. n \in Nat /\ Geo!Pow2[n] \notin Nat \ {0}
    BY <2>1
  <2>3. n # 0
    BY <1>5, <2>2
  <2>4. n - 1 \in Nat /\ Geo!Pow2[n - 1] \in Nat \ {0}
    BY <2>1, <2>2, <2>3
  <2>5. Geo!Pow2[(n - 1) + 1] = 2 * Geo!Pow2[n - 1]
    BY <1>5, <2>4
  <2> QED BY <2>2, <2>4, <2>5
<1> QED BY <1>5, <1>6

\* The characters of a hash, each of five bits.
LEMMA BitsOfACharacter ==
  ASSUME NEW bs, bs \in Seq({0, 1}), Len(bs) = 5
  PROVE  /\ Geo!CharIndex(bs) \in 0..31
         /\ \A k \in 0..4 : (Geo!CharIndex(bs) \div Geo!Pow2[4 - k]) % 2 = bs[k + 1]
<1>1. /\ bs[1] \in {0, 1} /\ bs[2] \in {0, 1} /\ bs[3] \in {0, 1}
      /\ bs[4] \in {0, 1} /\ bs[5] \in {0, 1}
  <2>1. \A i \in 1..5 : bs[i] \in {0, 1}
    BY ElementOfSeq
  <2> QED BY <2>1
<1>2. /\ Geo!Pow2[0] = 1 /\ Geo!Pow2[1] = 2 /\ Geo!Pow2[2] = 4
      /\ Geo!Pow2[3] = 8 /\ Geo!Pow2[4] = 16
  <2>1. \A n \in Nat : Geo!Pow2[n + 1] = 2 * Geo!Pow2[n]
    BY PowersOfTwo
  <2>2. Geo!Pow2[0] = 1
    BY PowersOfTwo
  <2>3. Geo!Pow2[1] = 2
    <3>1. Geo!Pow2[0 + 1] = 2 * Geo!Pow2[0]
      BY <2>1
    <3> QED BY <2>2, <3>1
  <2>4. Geo!Pow2[2] = 4
    <3>1. Geo!Pow2[1 + 1] = 2 * Geo!Pow2[1]
      BY <2>1
    <3> QED BY <2>3, <3>1
  <2>5. Geo!Pow2[3] = 8
    <3>1. Geo!Pow2[2 + 1] = 2 * Geo!Pow2[2]
      BY <2>1
    <3> QED BY <2>4, <3>1
  <2>6. Geo!Pow2[4] = 16
    <3>1. Geo!Pow2[3 + 1] = 2 * Geo!Pow2[3]
      BY <2>1
    <3> QED BY <2>5, <3>1
  <2> QED BY <2>2, <2>3, <2>4, <2>5, <2>6
<1> DEFINE c == Geo!CharIndex(bs)
<1>4. c = 16 * bs[1] + 8 * bs[2] + 4 * bs[3] + 2 * bs[4] + bs[5]
  BY DEF Geo!CharIndex
<1>5. /\ c \in 0..31
      /\ (c \div 16) % 2 = bs[1] /\ (c \div 8) % 2 = bs[2] /\ (c \div 4) % 2 = bs[3]
      /\ (c \div 2) % 2 = bs[4] /\ (c \div 1) % 2 = bs[5]
  <2> HIDE DEF c
  <2>1. PICK b1 \in {0, 1}, b2 \in {0, 1}, b3 \in {0, 1}, b4 \in {0, 1}, b5 \in {0, 1} :
          bs[1] = b1 /\ bs[2] = b2 /\ bs[3] = b3 /\ bs[4] = b4 /\ bs[5] = b5
    BY <1>1
  <2>2. c = 16 * b1 + 8 * b2 + 4 * b3 + 2 * b4 + b5
    BY <1>4, <2>1
  <2>3. /\ c \in 0..31
        /\ (c \div 16) % 2 = b1 /\ (c \div 8) % 2 = b2 /\ (c \div 4) % 2 = b3
        /\ (c \div 2) % 2 = b4 /\ (c \div 1) % 2 = b5
    BY <2>2
  <2> QED BY <2>1, <2>3
<1>6. ASSUME NEW k \in 0..4 PROVE (c \div Geo!Pow2[4 - k]) % 2 = bs[k + 1]
  <2> HIDE DEF c
  <2>1. k = 0 \/ k = 1 \/ k = 2 \/ k = 3 \/ k = 4
    OBVIOUS
  <2>2. CASE k = 0
    <3>1. 4 - k = 4 /\ k + 1 = 1
      BY <2>2
    <3> QED BY <1>2, <1>5, <3>1, Zenon
  <2>3. CASE k = 1
    <3>1. 4 - k = 3 /\ k + 1 = 2
      BY <2>3
    <3> QED BY <1>2, <1>5, <3>1, Zenon
  <2>4. CASE k = 2
    <3>1. 4 - k = 2 /\ k + 1 = 3
      BY <2>4
    <3> QED BY <1>2, <1>5, <3>1, Zenon
  <2>5. CASE k = 3
    <3>1. 4 - k = 1 /\ k + 1 = 4
      BY <2>5
    <3> QED BY <1>2, <1>5, <3>1, Zenon
  <2>6. CASE k = 4
    <3>1. 4 - k = 0 /\ k + 1 = 5
      BY <2>6
    <3> QED BY <1>2, <1>5, <3>1, Zenon
  <2> QED BY <2>1, <2>2, <2>3, <2>4, <2>5, <2>6
<1> QED BY <1>5, <1>6

\* Of a cell halved: which half, as one bit.
Halved(cell, axis, bit) ==
  [cell EXCEPT ![axis] = IF bit = 1 THEN Geo!Upper(@) ELSE Geo!Lower(@)]
\* The m-th bit written, of the characters first and then of the one under way.
BitAt(m, h, bs) == IF m < 5 * Len(h) THEN Geo!BitOf(h, m) ELSE bs[m - 5 * Len(h) + 1]
\* The cells the first n bits lead through.
IsTrail(f, n, h, bs) ==
  f = [m \in 0..n |-> IF m = 0 THEN Geo!World
                      ELSE Halved(f[m - 1], Geo!Axis(m - 1), BitAt(m - 1, h, bs))]

Written == 5 * Len(hash) + Len(bits)
Whole == 5 * Precision

GeoTypes ==
  /\ point \in Geo!Points \cup {None}
  /\ hash \in Seq(0..31) /\ bits \in Seq({0, 1})
  /\ Len(bits) < 5 /\ Len(hash) <= Precision
  /\ Len(hash) = Precision => bits = << >>
  /\ point = None => hash = << >> /\ bits = << >>
  /\ box \in [Geo!Axes -> [min: Nat, max: Nat]]
\* A cell is as wide as the bits still to be written make it.
BoxIsSound(cell, n, p) ==
  \A axis \in Geo!Axes :
    /\ cell[axis].max = cell[axis].min
                        + Geo!Pow2[Geo!BitsOf(axis, Whole) - Geo!BitsOf(axis, n) + 1]
    /\ p # None => /\ cell[axis].min < p[axis] \/ cell[axis].min = 0
                   /\ p[axis] <= cell[axis].max
GeoInv ==
  /\ GeoTypes /\ BoxIsSound(box, Written, point)
  /\ \E f : IsTrail(f, Written, hash, bits) /\ f[Written] = box

LEMMA GeoConstants == Precision \in Nat /\ None \notin Geo!Points
BY BackendConstants DEF BackendConstants

\* The bits of either axis grow with those written, and by one for the axis whose turn it is.
LEMMA BitsGrow ==
  ASSUME NEW n \in Nat, NEW axis \in Geo!Axes
  PROVE  /\ Geo!BitsOf(axis, n) \in Nat /\ Geo!BitsOf(axis, 0) = 0
         /\ Geo!BitsOf(axis, n + 1) =
              IF axis = Geo!Axis(n) THEN Geo!BitsOf(axis, n) + 1 ELSE Geo!BitsOf(axis, n)
         /\ \A m \in Nat : n <= m => Geo!BitsOf(axis, n) <= Geo!BitsOf(axis, m)
<1>1. axis = "lat" \/ axis = "lon"
  BY DEF Geo!Axes
<1> QED BY <1>1 DEF Geo!BitsOf, Geo!Axis

LEMMA InitGeo == Geo!GeoInit => GeoInv
<1> SUFFICES ASSUME Geo!GeoInit PROVE GeoInv
  OBVIOUS
<1>1. point = None /\ bits = << >> /\ hash = << >> /\ Written = 0 /\ box = Geo!World
  BY DEF Geo!GeoInit, Written
<1>2. Whole \in Nat
  BY GeoConstants DEF Whole
<1>3. ASSUME NEW axis \in Geo!Axes
      PROVE  /\ box[axis] = [min |-> 0, max |-> Geo!Pow2[Geo!BitsOf(axis, Whole) + 1]]
             /\ Geo!Pow2[Geo!BitsOf(axis, Whole) + 1] \in Nat /\ Geo!BitsOf(axis, Whole) \in Nat
  <2>1. Geo!BitsOf(axis, Whole) + 1 \in Nat /\ Geo!BitsOf(axis, Whole) \in Nat
    BY <1>2, BitsGrow
  <2>2. Geo!Pow2[Geo!BitsOf(axis, Whole) + 1] \in Nat
    BY <2>1, PowersOfTwo
  <2> QED BY <1>1, <2>1, <2>2 DEF Geo!World, Geo!Width, Whole
<1>4. box \in [Geo!Axes -> [min: Nat, max: Nat]]
  <2>1. box = [axis \in Geo!Axes |-> box[axis]]
    BY <1>1 DEF Geo!World
  <2> QED BY <1>3, <2>1
<1>5. GeoTypes
  BY <1>1, <1>4, GeoConstants DEF GeoTypes
<1>6. BoxIsSound(box, Written, point)
  <2>1. \A axis \in Geo!Axes : Geo!BitsOf(axis, 0) = 0
    BY BitsGrow
  <2>2. ASSUME NEW axis \in Geo!Axes
        PROVE  box[axis].max = box[axis].min
                 + Geo!Pow2[Geo!BitsOf(axis, Whole) - Geo!BitsOf(axis, 0) + 1]
    <3>1. \A x \in Nat : x - 0 + 1 = x + 1 /\ (0 + x = x)
      OBVIOUS
    <3>2. /\ Geo!BitsOf(axis, Whole) \in Nat /\ Geo!BitsOf(axis, 0) = 0
          /\ box[axis].min = 0 /\ box[axis].max = Geo!Pow2[Geo!BitsOf(axis, Whole) + 1]
          /\ Geo!Pow2[Geo!BitsOf(axis, Whole) + 1] \in Nat
      <4>1. box[axis] = [min |-> 0, max |-> Geo!Pow2[Geo!BitsOf(axis, Whole) + 1]]
        BY <1>3
      <4>2. box[axis].min = 0 /\ box[axis].max = Geo!Pow2[Geo!BitsOf(axis, Whole) + 1]
        BY <4>1
      <4> QED BY <1>3, <2>1, <4>2
    <3> QED BY <3>1, <3>2
  <2> QED BY <1>1, <2>2 DEF BoxIsSound
<1>7. IsTrail([m \in 0..0 |-> Geo!World], 0, hash, bits)
  BY DEF IsTrail
<1>8. [m \in 0..0 |-> Geo!World][0] = box
  BY <1>1
<1> QED BY <1>1, <1>5, <1>6, <1>7, <1>8 DEF GeoInv

\* A cell halved at the point: the axis whose turn it is loses one power of two.
LEMMA HalfIsSound ==
  ASSUME NEW cell \in [Geo!Axes -> [min: Nat, max: Nat]], NEW n \in Nat, n < Whole,
         NEW p \in Geo!Points, BoxIsSound(cell, n, p), NEW bit,
         bit = IF p[Geo!Axis(n)] > Geo!Mid(cell[Geo!Axis(n)]) THEN 1 ELSE 0
  PROVE  /\ Halved(cell, Geo!Axis(n), bit) \in [Geo!Axes -> [min: Nat, max: Nat]]
         /\ BoxIsSound(Halved(cell, Geo!Axis(n), bit), n + 1, p)
<1> DEFINE axis == Geo!Axis(n)
           k == Geo!BitsOf(axis, Whole) - Geo!BitsOf(axis, n)
           range == cell[axis]
           half == IF bit = 1 THEN Geo!Upper(range) ELSE Geo!Lower(range)
           width == Geo!Pow2[k]
<1>1. axis \in Geo!Axes /\ range \in [min: Nat, max: Nat] /\ range.min \in Nat /\ p # None
  BY GeoConstants DEF Geo!Axis, Geo!Axes
<1>2. k \in Nat /\ k >= 1 /\ Geo!BitsOf(axis, Whole) - Geo!BitsOf(axis, n + 1) + 1 = k
  <2>1. Whole \in Nat /\ n + 1 \in Nat /\ n + 1 <= Whole
    BY GeoConstants DEF Whole
  <2>2. /\ Geo!BitsOf(axis, n) \in Nat /\ Geo!BitsOf(axis, Whole) \in Nat
        /\ Geo!BitsOf(axis, n + 1) = Geo!BitsOf(axis, n) + 1
        /\ Geo!BitsOf(axis, n + 1) <= Geo!BitsOf(axis, Whole)
    BY <1>1, <2>1, BitsGrow
  <2> HIDE DEF axis
  <2> QED BY <2>2
<1>3. width \in Nat \ {0} /\ Geo!Pow2[k + 1] = 2 * width
  BY <1>2, PowersOfTwo
<1>4. range.max = range.min + 2 * width
  <2>1. range.max = range.min + Geo!Pow2[k + 1]
    BY <1>1 DEF BoxIsSound
  <2> QED BY <1>3, <2>1
<1>5. /\ p[axis] \in Nat /\ p[axis] <= range.max
      /\ range.min < p[axis] \/ range.min = 0
  <2>1. p[axis] \in Nat
    <3>1. p \in [Geo!Axes -> 0..Geo!Width("lon")] /\ Geo!Width("lon") \in Nat
      <4>1. Geo!BitsOf("lon", 5 * Precision) + 1 \in Nat
        BY GeoConstants DEF Geo!BitsOf
      <4> QED BY <4>1, PowersOfTwo DEF Geo!Points, Geo!Width
    <3> HIDE DEF axis
    <3> QED BY <1>1, <3>1
  <2> QED BY <1>1, <2>1 DEF BoxIsSound
<1>6. Geo!Mid(range) = range.min + width
  <2>1. \A a, w \in Nat : (a + (a + 2 * w)) \div 2 = a + w
    OBVIOUS
  <2>2. Geo!Mid(range) = (range.min + (range.min + 2 * width)) \div 2
    BY <1>4 DEF Geo!Mid
  <2> QED BY <1>1, <1>3, <2>1, <2>2
<1>7. /\ half \in [min: Nat, max: Nat] /\ half.max = half.min + width
      /\ half.min < p[axis] \/ half.min = 0
      /\ p[axis] <= half.max
  <2> HIDE DEF range, width, axis
  <2>1. CASE p[axis] > Geo!Mid(range)
    <3>1. half = [range EXCEPT !.min = range.min + width]
      BY <1>6, <2>1 DEF axis, range, Geo!Upper
    <3>2. half.min = range.min + width /\ half.max = range.max
      BY <1>1, <3>1
    <3>3. half \in [min: Nat, max: Nat]
      BY <1>1, <1>3, <3>1
    <3>4. half.max = half.min + width
      BY <1>1, <1>3, <1>4, <3>2
    <3>5. half.min < p[axis] /\ p[axis] <= half.max
      BY <1>1, <1>3, <1>5, <1>6, <2>1, <3>2
    <3> QED BY <3>3, <3>4, <3>5
  <2>2. CASE ~(p[axis] > Geo!Mid(range))
    <3>1. half = [range EXCEPT !.max = range.min + width]
      BY <1>6, <2>2 DEF axis, range, Geo!Lower
    <3>2. half.min = range.min /\ half.max = range.min + width
      BY <1>1, <3>1
    <3>3. half \in [min: Nat, max: Nat]
      BY <1>1, <1>3, <3>1
    <3>4. half.max = half.min + width
      BY <3>2
    <3>5. p[axis] <= half.max
      BY <1>1, <1>3, <1>5, <1>6, <2>2, <3>2
    <3> QED BY <1>5, <3>2, <3>3, <3>4, <3>5
  <2> QED BY <2>1, <2>2
<1> DEFINE next == Halved(cell, axis, bit)
<1>8. next[axis] = half /\ \A a \in Geo!Axes : a # axis => next[a] = cell[a]
  <2> HIDE DEF axis
  <2> QED BY <1>1 DEF Halved
<1>9. next \in [Geo!Axes -> [min: Nat, max: Nat]]
  <2>1. next = [cell EXCEPT ![axis] = half]
    BY DEF Halved
  <2> HIDE DEF next, half, axis
  <2> QED BY <1>1, <1>7, <2>1
<1>10. ASSUME NEW a \in Geo!Axes
       PROVE  /\ next[a].max = next[a].min
                 + Geo!Pow2[Geo!BitsOf(a, Whole) - Geo!BitsOf(a, n + 1) + 1]
              /\ next[a].min < p[a] \/ next[a].min = 0
              /\ p[a] <= next[a].max
  <2>1. CASE a = axis
    <3> HIDE DEF next, half, axis
    <3> QED BY <1>2, <1>7, <1>8, <2>1
  <2>2. CASE a # axis
    <3>1. Geo!BitsOf(a, n + 1) = Geo!BitsOf(a, n)
      BY <2>2, BitsGrow
    <3>2. next[a] = cell[a]
      BY <1>8, <2>2
    <3> HIDE DEF next
    <3> QED BY <1>1, <3>1, <3>2 DEF BoxIsSound
  <2> QED BY <2>1, <2>2
<1> QED BY <1>9, <1>10 DEF BoxIsSound

LEMMA WrittenInRange ==
  GeoTypes => /\ Len(hash) \in Nat /\ Len(bits) \in Nat /\ Written \in Nat /\ Written <= Whole
              /\ Len(hash) < Precision => Written < Whole
<1> SUFFICES ASSUME GeoTypes
             PROVE  /\ Len(hash) \in Nat /\ Len(bits) \in Nat /\ Written \in Nat /\ Written <= Whole
                    /\ Len(hash) < Precision => Written < Whole
  OBVIOUS
<1>1. Len(hash) \in Nat /\ Len(bits) \in Nat /\ Len(bits) < 5 /\ Len(hash) <= Precision
  BY LenProperties DEF GeoTypes
<1>2. Len(hash) = Precision => Len(bits) = 0
  BY DEF GeoTypes
<1>3. \A l, b, p \in Nat : b < 5 /\ l <= p /\ (l = p => b = 0) =>
        /\ 5 * l + b \in Nat /\ 5 * l + b <= 5 * p
        /\ l < p => 5 * l + b < 5 * p
  OBVIOUS
<1> QED BY <1>1, <1>2, <1>3, GeoConstants DEF Written, Whole

\* One bit more: the trail goes on to the half it names.
LEMMA TrailGrows ==
  ASSUME NEW n \in Nat, NEW f, NEW h, NEW bs, NEW h2, NEW bs2, NEW cell,
         IsTrail(f, n, h, bs),
         \A m \in 0..n - 1 : BitAt(m, h2, bs2) = BitAt(m, h, bs),
         cell = Halved(f[n], Geo!Axis(n), BitAt(n, h2, bs2))
  PROVE  \E g : IsTrail(g, n + 1, h2, bs2) /\ g[n + 1] = cell
<1> DEFINE g == [m \in 0..n + 1 |-> IF m <= n THEN f[m] ELSE cell]
           Step(m) == IF m = 0 THEN Geo!World
                      ELSE Halved(g[m - 1], Geo!Axis(m - 1), BitAt(m - 1, h2, bs2))
<1>1. ASSUME NEW m \in 0..n + 1 PROVE g[m] = Step(m)
  <2>1. CASE m = n + 1
    <3>1. g[m] = cell /\ g[m - 1] = f[n] /\ m - 1 = n /\ m # 0
      BY <2>1
    <3> HIDE DEF g
    <3> QED BY <3>1
  <2>2. CASE m # n + 1 /\ m # 0
    <3>1. m \in 0..n /\ m - 1 \in 0..n - 1 /\ m - 1 \in 0..n + 1 /\ m - 1 <= n
      BY <2>2
    <3>2. g[m] = f[m] /\ g[m - 1] = f[m - 1]
      BY <3>1
    <3>3. f[m] = Halved(f[m - 1], Geo!Axis(m - 1), BitAt(m - 1, h, bs))
      BY <2>2, <3>1 DEF IsTrail
    <3> HIDE DEF g
    <3> QED BY <2>2, <3>1, <3>2, <3>3
  <2>3. CASE m = 0
    <3>1. g[m] = f[0]
      BY <2>3
    <3>2. f[0] = Geo!World
      BY DEF IsTrail
    <3> QED BY <2>3, <3>1, <3>2
  <2> QED BY <2>1, <2>2, <2>3
<1>2. IsTrail(g, n + 1, h2, bs2)
  <2>1. g = [m \in 0..n + 1 |-> g[m]]
    OBVIOUS
  <2> HIDE DEF g
  <2>2. g = [m \in 0..n + 1 |-> Step(m)]
    BY <1>1, <2>1
  <2> QED BY <2>2 DEF IsTrail
<1>3. g[n + 1] = cell
  OBVIOUS
<1> QED BY <1>2, <1>3

\* A bit added to those under way is the next, and a character completed is its five bits.
LEMMA BitAdded ==
  ASSUME NEW h \in Seq(0..31), NEW bs \in Seq({0, 1}), Len(bs) < 5, NEW bit \in {0, 1}
  PROVE  LET n == 5 * Len(h) + Len(bs)
             written == Append(bs, bit)
             h2 == IF Len(written) = 5 THEN Append(h, Geo!CharIndex(written)) ELSE h
             bs2 == IF Len(written) = 5 THEN << >> ELSE written
         IN /\ h2 \in Seq(0..31) /\ bs2 \in Seq({0, 1}) /\ Len(bs2) < 5
            /\ 5 * Len(h2) + Len(bs2) = n + 1
            /\ \A m \in 0..n - 1 : BitAt(m, h2, bs2) = BitAt(m, h, bs)
            /\ BitAt(n, h2, bs2) = bit
<1> DEFINE n == 5 * Len(h) + Len(bs)
           written == Append(bs, bit)
           h2 == IF Len(written) = 5 THEN Append(h, Geo!CharIndex(written)) ELSE h
           bs2 == IF Len(written) = 5 THEN << >> ELSE written
<1>1. Len(h) \in Nat /\ Len(bs) \in Nat /\ n \in Nat
  BY LenProperties
<1>2. /\ written \in Seq({0, 1}) /\ Len(written) = Len(bs) + 1 /\ written[Len(bs) + 1] = bit
      /\ \A i \in 1..Len(bs) : written[i] = bs[i]
  BY <1>1, Appended
<1>3. ASSUME NEW m \in 0..n - 1 PROVE BitAt(m, h, written) = BitAt(m, h, bs)
  <2>1. CASE m < 5 * Len(h)
    BY <2>1 DEF BitAt
  <2>2. CASE ~(m < 5 * Len(h))
    <3>1. m - 5 * Len(h) + 1 \in 1..Len(bs)
      BY <1>1, <2>2
    <3> HIDE DEF written
    <3> QED BY <1>2, <2>2, <3>1 DEF BitAt
  <2> QED BY <2>1, <2>2
<1>4. BitAt(n, h, written) = bit
  <2>1. ~(n < 5 * Len(h)) /\ n - 5 * Len(h) + 1 = Len(bs) + 1
    BY <1>1
  <2> HIDE DEF written, n
  <2> QED BY <1>2, <2>1 DEF BitAt
<1>5. CASE Len(written) # 5
  <2>1. h2 = h /\ bs2 = written
    BY <1>5
  <2>2. Len(written) < 5 /\ 5 * Len(h) + Len(written) = n + 1
    BY <1>1, <1>2, <1>5
  <2> HIDE DEF written, n, h2, bs2
  <2> QED BY <1>2, <1>3, <1>4, <2>1, <2>2 DEF written, n, h2, bs2
<1>6. CASE Len(written) = 5
  <2> DEFINE c == Geo!CharIndex(written)
  <2>1. h2 = Append(h, c) /\ bs2 = << >> /\ Len(bs2) = 0 /\ bs2 \in Seq({0, 1})
    BY <1>6
  <2>2. c \in 0..31 /\ \A k \in 0..4 : (c \div Geo!Pow2[4 - k]) % 2 = written[k + 1]
    <3> HIDE DEF written
    <3> QED BY <1>2, <1>6, BitsOfACharacter
  <2>3. /\ h2 \in Seq(0..31) /\ Len(h2) = Len(h) + 1 /\ h2[Len(h) + 1] = c
        /\ \A i \in 1..Len(h) : h2[i] = h[i]
    <3> HIDE DEF c, h2, bs2
    <3> QED BY <1>1, <2>1, <2>2, Appended
  <2>4. Len(bs) = 4 /\ n = 5 * Len(h) + 4 /\ 5 * Len(h2) = n + 1
    <3> HIDE DEF c, h2, bs2, written
    <3>1. Len(bs) = 4
      <4>1. Len(bs) + 1 = 5 /\ Len(bs) \in Nat
        BY <1>1, <1>2, <1>6, Zenon
      <4>2. \A x \in Nat : x + 1 = 5 => x = 4
        OBVIOUS
      <4> QED BY <4>1, <4>2, Zenon
    <3>2. \A l \in Nat : 5 * (l + 1) = (5 * l + 4) + 1
      OBVIOUS
    <3>3. 5 * Len(h2) = (5 * Len(h) + 4) + 1
      BY <1>1, <2>3, <3>2
    <3> QED BY <3>1, <3>3
  <2>5. ASSUME NEW m \in 0..n PROVE BitAt(m, h2, bs2) = BitAt(m, h, written)
    <3> HIDE DEF c, h2, bs2, written, n
    <3>1. m < 5 * Len(h2) /\ m \in Nat
      BY <1>1, <2>4
    <3>2. CASE m < 5 * Len(h)
      <4>1. (m \div 5) + 1 \in 1..Len(h)
        BY <1>1, <3>1, <3>2
      <4>2. Geo!BitOf(h2, m) = Geo!BitOf(h, m)
        BY <2>3, <4>1 DEF Geo!BitOf
      <4> QED BY <3>1, <3>2, <4>2 DEF BitAt
    <3>3. CASE ~(m < 5 * Len(h))
      <4>1. PICK k \in 0..4 : m = 5 * Len(h) + k
        <5>1. m - 5 * Len(h) \in 0..4
          <6>1. \A l \in Nat : \A x \in 0..5 * l + 4 : ~(x < 5 * l) => x - 5 * l \in 0..4
            OBVIOUS
          <6>2. m \in 0..5 * Len(h) + 4
            BY <2>4
          <6> QED BY <1>1, <3>3, <6>1, <6>2
        <5>2. m = 5 * Len(h) + (m - 5 * Len(h))
          BY <1>1, <3>1
        <5> QED BY <5>1, <5>2
      <4>2. m \div 5 = Len(h) /\ m % 5 = k
        <5>1. \A l \in Nat : \A j \in 0..4 : (5 * l + j) \div 5 = l /\ (5 * l + j) % 5 = j
          OBVIOUS
        <5> QED BY <1>1, <4>1, <5>1
      <4>3. Geo!BitOf(h2, m) = (c \div Geo!Pow2[4 - k]) % 2
        BY <2>3, <4>2 DEF Geo!BitOf
      <4>4. m - 5 * Len(h) + 1 = k + 1
        BY <1>1, <4>1
      <4> QED BY <2>2, <3>1, <3>3, <4>3, <4>4 DEF BitAt
    <3> QED BY <3>2, <3>3
  <2>6. n \in 0..n /\ \A m \in 0..n - 1 : m \in 0..n
    BY <1>1
  <2>7. 5 * Len(h2) + Len(bs2) = n + 1 /\ Len(bs2) < 5
    BY <1>1, <2>1, <2>4
  <2>8. /\ \A m \in 0..n - 1 : BitAt(m, h2, bs2) = BitAt(m, h, bs)
        /\ BitAt(n, h2, bs2) = bit
    <3> HIDE DEF c, h2, bs2, written, n
    <3> QED BY <1>3, <1>4, <2>5, <2>6
  <2> HIDE DEF c, h2, bs2, written, n
  <2> QED BY <2>1, <2>3, <2>7, <2>8 DEF h2, bs2, written, n
<1> QED BY <1>5, <1>6

LEMMA StepBisect == GeoInv /\ Geo!Bisect => GeoInv'
<1> SUFFICES ASSUME GeoInv, Geo!Bisect PROVE GeoInv'
  OBVIOUS
<1> DEFINE n == Written
           axis == Geo!Axis(n)
           bit == IF point[axis] > Geo!Mid(box[axis]) THEN 1 ELSE 0
           written == Append(bits, bit)
           h2 == IF Len(written) = 5 THEN Append(hash, Geo!CharIndex(written)) ELSE hash
           bs2 == IF Len(written) = 5 THEN << >> ELSE written
<1>1. /\ GeoTypes /\ BoxIsSound(box, n, point) /\ n \in Nat /\ n < Whole
      /\ Len(hash) \in Nat /\ Len(bits) \in Nat /\ Len(hash) < Precision
  BY WrittenInRange DEF GeoInv, Geo!Bisect
<1>2. /\ point \in Geo!Points /\ point' = point /\ hash' = h2 /\ bits' = bs2
      /\ box' = Halved(box, axis, bit)
  <2>1. point \in Geo!Points /\ point' = point
    BY <1>1 DEF Geo!Bisect, GeoTypes
  <2>2. hash' = h2 /\ bits' = bs2
    BY DEF Geo!Bisect, Written
  <2>3. box' = Halved(box, axis, bit)
    BY DEF Geo!Bisect, Written, Halved
  <2> QED BY <2>1, <2>2, <2>3
<1>3. box' \in [Geo!Axes -> [min: Nat, max: Nat]] /\ BoxIsSound(box', n + 1, point)
  <2>1. box \in [Geo!Axes -> [min: Nat, max: Nat]]
    BY <1>1 DEF GeoTypes
  <2> HIDE DEF n
  <2> QED BY <1>1, <1>2, <2>1, HalfIsSound
<1>4. /\ hash' \in Seq(0..31) /\ bits' \in Seq({0, 1}) /\ Len(bits') < 5
      /\ 5 * Len(hash') + Len(bits') = n + 1
      /\ \A m \in 0..n - 1 : BitAt(m, hash', bits') = BitAt(m, hash, bits)
      /\ BitAt(n, hash', bits') = bit
  <2>1. hash \in Seq(0..31) /\ bits \in Seq({0, 1}) /\ Len(bits) < 5 /\ bit \in {0, 1}
    BY <1>1 DEF GeoTypes
  <2>2. n = 5 * Len(hash) + Len(bits)
    BY DEF Written
  <2> HIDE DEF bit, n
  <2>3. /\ h2 \in Seq(0..31) /\ bs2 \in Seq({0, 1}) /\ Len(bs2) < 5
        /\ 5 * Len(h2) + Len(bs2) = n + 1
        /\ \A m \in 0..n - 1 : BitAt(m, h2, bs2) = BitAt(m, hash, bits)
        /\ BitAt(n, h2, bs2) = bit
    BY <2>1, <2>2, BitAdded
  <2> HIDE DEF h2, bs2
  <2> QED BY <1>2, <2>3
<1>5. Written' = n + 1
  BY <1>4 DEF Written
<1>6. \E g : IsTrail(g, n + 1, hash', bits') /\ g[n + 1] = box'
  <2>1. PICK f : IsTrail(f, n, hash, bits) /\ f[n] = box
    BY DEF GeoInv
  <2>2. box' = Halved(f[n], axis, BitAt(n, hash', bits'))
    <3> HIDE DEF n, axis, bit
    <3> QED BY <1>2, <1>4, <2>1
  <2> HIDE DEF n, bit
  <2> QED BY <1>1, <1>4, <2>1, <2>2, TrailGrows
<1>7. Len(hash') <= Precision /\ (Len(hash') = Precision => bits' = << >>)
  <2> HIDE DEF n, axis, bit
  <2>1. Precision \in Nat
    BY GeoConstants
  <2>2. Len(hash') \in Nat /\ Len(bits') \in Nat
    BY <1>4, LenProperties
  <2>3. n + 1 <= 5 * Precision
    BY <1>1, <2>1 DEF Whole
  <2>4. \A l, b, p, m \in Nat : 5 * l + b = m + 1 /\ m + 1 <= 5 * p => l <= p /\ (l = p => b = 0)
    OBVIOUS
  <2>5. Len(hash') <= Precision /\ (Len(hash') = Precision => Len(bits') = 0)
    BY <1>1, <1>4, <2>1, <2>2, <2>3, <2>4
  <2> QED BY <1>4, <2>5, EmptySeq
<1>8. GeoTypes'
  BY <1>2, <1>3, <1>4, <1>7, GeoConstants DEF GeoTypes
<1>9. BoxIsSound(box', Written', point') /\ \E g : IsTrail(g, Written', hash', bits') /\ g[Written'] = box'
  <2> HIDE DEF n
  <2> QED BY <1>2, <1>3, <1>5, <1>6
<1>10. GeoInv' <=> /\ GeoTypes' /\ BoxIsSound(box', Written', point')
                   /\ \E g : IsTrail(g, Written', hash', bits') /\ g[Written'] = box'
  BY DEF GeoInv, BoxIsSound, IsTrail, BitAt
<1> QED BY <1>8, <1>9, <1>10

LEMMA StepEncode == GeoInv /\ (\E p \in Geo!Points : Geo!Encode(p)) => GeoInv'
<1> SUFFICES ASSUME GeoInv, NEW p \in Geo!Points, Geo!Encode(p) PROVE GeoInv'
  OBVIOUS
<1>1. /\ point = None /\ point' = p /\ box' = box /\ bits' = bits /\ hash' = hash
      /\ bits = << >> /\ hash = << >> /\ Written = 0 /\ Written' = Written
  BY DEF GeoInv, GeoTypes, Geo!Encode, Written
<1>2. box = Geo!World
  BY <1>1 DEF GeoInv, IsTrail
<1>3. ASSUME NEW axis \in Geo!Axes PROVE box[axis].min = 0 /\ p[axis] <= box[axis].max
  <2>1. box[axis].min = 0 /\ box[axis].max = Geo!Width(axis)
    BY <1>2 DEF Geo!World
  <2>2. p[axis] <= Geo!Width(axis)
    <3>1. p \in [Geo!Axes -> 0..Geo!Width("lon")] /\ p["lat"] <= Geo!Width("lat")
      BY DEF Geo!Points
    <3>2. axis = "lat" \/ axis = "lon"
      BY DEF Geo!Axes
    <3>3. p[axis] \in 0..Geo!Width("lon")
      BY <3>1
    <3> QED BY <3>1, <3>2, <3>3
  <2> QED BY <2>1, <2>2
<1>4. BoxIsSound(box', Written', point')
  BY <1>1, <1>3 DEF GeoInv, BoxIsSound
<1>5. GeoTypes'
  BY <1>1, GeoConstants DEF GeoInv, GeoTypes
<1>6. \E f : IsTrail(f, Written', hash', bits') /\ f[Written'] = box'
  BY <1>1 DEF GeoInv
<1>7. GeoInv' <=> /\ GeoTypes' /\ BoxIsSound(box', Written', point')
                  /\ \E f : IsTrail(f, Written', hash', bits') /\ f[Written'] = box'
  BY DEF GeoInv, BoxIsSound, IsTrail, BitAt
<1> QED BY <1>4, <1>5, <1>6, <1>7

LEMMA StepGeo == GeoInv /\ [Geo!GeoNext]_(Geo!geoVars) => GeoInv'
<1> SUFFICES ASSUME GeoInv, [Geo!GeoNext]_(Geo!geoVars) PROVE GeoInv'
  OBVIOUS
<1>1. CASE UNCHANGED Geo!geoVars
  BY <1>1 DEF Geo!geoVars, GeoInv, GeoTypes, BoxIsSound, IsTrail, BitAt, Written
<1>2. CASE Geo!GeoNext
  BY <1>2, StepBisect, StepEncode DEF Geo!GeoNext
<1> QED BY <1>1, <1>2

\* The trail of a whole number of characters is the one decode follows.
LEMMA DecodeFinds ==
  ASSUME NEW h \in Seq(0..31), NEW f, IsTrail(f, 5 * Len(h), h, << >>)
  PROVE  Geo!Decode(h) = f[5 * Len(h)]
<1> DEFINE n == 5 * Len(h)
           Step(g, m) == IF m = 0 THEN Geo!World ELSE Geo!DecodeStep(g[m - 1], m - 1, h)
           cells == CHOOSE g : g = [m \in 0..n |-> Step(g, m)]
<1>1. n \in Nat
  <2>1. Len(h) \in Nat
    BY LenProperties
  <2> QED BY <2>1
<1>2. ASSUME NEW m \in 0..n PROVE f[m] = Step(f, m)
  <2>1. CASE m = 0
    BY <1>1, <2>1 DEF IsTrail
  <2>2. CASE m # 0
    <3>1. m - 1 \in Nat /\ m - 1 < n /\ m - 1 < 5 * Len(h)
      BY <1>1, <2>2
    <3>2. f[m] = Halved(f[m - 1], Geo!Axis(m - 1), Geo!BitOf(h, m - 1))
      BY <2>2, <3>1 DEF IsTrail, BitAt
    <3>3. f[m] = Geo!DecodeStep(f[m - 1], m - 1, h)
      BY <3>2 DEF Halved, Geo!DecodeStep, Geo!Axis
    <3> QED BY <2>2, <3>3
  <2> QED BY <2>1, <2>2
<1>3. f = [m \in 0..n |-> Step(f, m)]
  <2>1. f = [m \in 0..n |-> f[m]]
    BY DEF IsTrail
  <2> HIDE DEF Step, n
  <2> QED BY <1>2, <2>1
<1>4. cells = [m \in 0..n |-> Step(cells, m)]
  BY <1>3
<1>5. Geo!Decode(h) = cells[n]
  BY DEF Geo!Decode
<1> HIDE DEF cells
<1> DEFINE Differ == {m \in 0..n : cells[m] # f[m]}
<1>6. ASSUME Differ # {} PROVE FALSE
  <2>1. PICK m \in Differ : \A k \in Differ : m <= k
    <3> HIDE DEF Differ
    <3>1. Differ \subseteq Nat
      BY <1>1 DEF Differ
    <3> QED BY <1>6, <3>1, LeastNatural
  <2> HIDE DEF n
  <2>2. m \in 0..n /\ m \in Nat /\ cells[m] # f[m]
    BY <1>1, <2>1
  <2>3. m = 0 \/ cells[m - 1] = f[m - 1]
    <3>1. ASSUME m # 0 PROVE cells[m - 1] = f[m - 1]
      <4>1. m - 1 \in 0..n /\ ~(m <= m - 1)
        BY <1>1, <2>2, <3>1
      <4> QED BY <2>1, <4>1
    <3> QED BY <3>1
  <2>4. cells[m] = Step(cells, m) /\ f[m] = Step(f, m)
    <3> HIDE DEF Step
    <3>1. cells[m] = Step(cells, m)
      BY <1>4, <2>2
    <3> QED BY <1>2, <2>2, <3>1
  <2> QED BY <2>2, <2>3, <2>4
<1>7. n \in 0..n
  BY <1>1
<1> QED BY <1>5, <1>6, <1>7

LEMMA GeoKeeps == GeoInv => Geo!GeoTypeOK /\ Geo!CellsHoldTheirPoints
<1> SUFFICES ASSUME GeoInv PROVE Geo!GeoTypeOK /\ Geo!CellsHoldTheirPoints
  OBVIOUS
<1>1. GeoTypes /\ BoxIsSound(box, Written, point) /\ Written \in Nat /\ Written <= Whole
  BY WrittenInRange DEF GeoInv
<1>2. ASSUME NEW axis \in Geo!Axes
      PROVE  box[axis].min \in Nat /\ box[axis].max \in Nat /\ box[axis].min < box[axis].max
  <2> DEFINE k == Geo!BitsOf(axis, Whole) - Geo!BitsOf(axis, Written) + 1
  <2>1. k \in Nat
    <3>1. Whole \in Nat
      BY GeoConstants DEF Whole
    <3>2. /\ Geo!BitsOf(axis, Whole) \in Nat /\ Geo!BitsOf(axis, Written) \in Nat
          /\ Geo!BitsOf(axis, Written) <= Geo!BitsOf(axis, Whole)
      BY <1>1, <3>1, BitsGrow
    <3> QED BY <3>2
  <2>2. Geo!Pow2[k] \in Nat \ {0}
    BY <2>1, PowersOfTwo
  <2>3. box[axis].min \in Nat /\ box[axis].max \in Nat
    BY <1>1 DEF GeoTypes
  <2>4. box[axis].max = box[axis].min + Geo!Pow2[k]
    BY <1>1 DEF BoxIsSound
  <2> HIDE DEF k
  <2> QED BY <2>2, <2>3, <2>4
<1>3. Geo!GeoTypeOK
  BY <1>1, <1>2 DEF GeoTypes, Geo!GeoTypeOK
<1>4. ASSUME point # None, NEW axis \in Geo!Axes
      PROVE  /\ box[axis].min < point[axis] \/ box[axis].min = 0
             /\ box[axis].min <= point[axis] /\ point[axis] <= box[axis].max
  <2>1. /\ box[axis].min < point[axis] \/ box[axis].min = 0
        /\ point[axis] <= box[axis].max
    BY <1>1, <1>4 DEF BoxIsSound
  <2>2. point[axis] \in Nat
    <3>1. point \in [Geo!Axes -> 0..Geo!Width("lon")]
      BY <1>1, <1>4 DEF GeoTypes, Geo!Points
    <3>2. Geo!Width("lon") \in Nat
      <4>1. Geo!BitsOf("lon", 5 * Precision) + 1 \in Nat
        BY GeoConstants DEF Geo!BitsOf
      <4> QED BY <4>1, PowersOfTwo DEF Geo!Width
    <3> QED BY <3>1, <3>2
  <2> QED BY <1>2, <2>1, <2>2
<1>5. ASSUME bits = << >> PROVE Geo!Decode(hash) = box
  <2>1. Written = 5 * Len(hash)
    <3>1. Len(bits) = 0 /\ Len(hash) \in Nat
      BY <1>1, <1>5, WrittenInRange
    <3> QED BY <3>1 DEF Written
  <2>2. PICK f : IsTrail(f, 5 * Len(hash), hash, << >>) /\ f[5 * Len(hash)] = box
    BY <1>5, <2>1 DEF GeoInv
  <2> QED BY <1>1, <2>2, DecodeFinds DEF GeoTypes
<1> QED BY <1>3, <1>4, <1>5 DEF Geo!CellsHoldTheirPoints

-----------------------------------------------------------------------------
(* The composition *)

\* A step of the backend is a step of one part, and of no other.
LEMMA PartsMove ==
  [BackendNext]_backendVars =>
    /\ [Next]_vars
    /\ [Posting!Next]_(Posting!vars)
    /\ [Paging!PagingNext]_(Paging!pagingVars)
    /\ [Stream!StreamNext]_(Stream!streamVars)
    /\ [Geo!GeoNext]_(Geo!geoVars)
    /\ [Gate!GateNext]_(Gate!gateVars)
    /\ [Replica!ClientNext]_(Replica!clientVars)
    /\ [Index!IndexerNext]_(Index!indexerVars)
    /\ [Auth!AuthNext]_(Auth!authVars)
<1>1. /\ UNCHANGED postingVars => UNCHANGED Posting!vars
      /\ UNCHANGED pagingVars => UNCHANGED Paging!pagingVars
      /\ UNCHANGED streamVars => UNCHANGED Stream!streamVars
      /\ UNCHANGED geoVars => UNCHANGED Geo!geoVars
      /\ UNCHANGED gateVars => UNCHANGED Gate!gateVars
      /\ UNCHANGED replicaVars => UNCHANGED Replica!clientVars
      /\ UNCHANGED indexVars => UNCHANGED Index!indexerVars
      /\ UNCHANGED authVars => UNCHANGED Auth!authVars
  BY DEF postingVars, Posting!vars, pagingVars, Paging!pagingVars, streamVars,
         Stream!streamVars, geoVars, Geo!geoVars, gateVars, Gate!gateVars, replicaVars,
         Replica!clientVars, indexVars, Index!indexerVars, authVars, Auth!authVars
<1>2. CASE UNCHANGED backendVars
  BY <1>1, <1>2 DEF backendVars
<1>3. CASE Next /\ OnlyEdit
  BY <1>1, <1>3 DEF OnlyEdit
<1>4. CASE Posting!Next /\ OnlyPosting
  BY <1>1, <1>4 DEF OnlyPosting
<1>5. CASE Paging!PagingNext /\ OnlyPaging
  BY <1>1, <1>5 DEF OnlyPaging
<1>6. CASE Stream!StreamNext /\ OnlyStream
  BY <1>1, <1>6 DEF OnlyStream
<1>7. CASE Geo!GeoNext /\ OnlyGeo
  BY <1>1, <1>7 DEF OnlyGeo
<1>8. CASE Gate!GateNext /\ OnlyGate
  BY <1>1, <1>8 DEF OnlyGate
<1>9. CASE Replica!ClientNext /\ OnlyReplica
  BY <1>1, <1>9 DEF OnlyReplica
<1>10. CASE Index!IndexerNext /\ OnlyIndex
  BY <1>1, <1>10 DEF OnlyIndex
<1>11. CASE Auth!AuthNext /\ OnlyAuth
  BY <1>1, <1>11 DEF OnlyAuth
<1> QED BY <1>2, <1>3, <1>4, <1>5, <1>6, <1>7, <1>8, <1>9, <1>10, <1>11 DEF BackendNext

\* The composition implements every part of it, as specified on its own.
THEOREM EachPartRuns ==
  BackendSpec =>
    /\ Init /\ [][Next]_vars
    /\ Posting!Init /\ [][Posting!Next]_(Posting!vars)
    /\ Paging!PagingInit /\ [][Paging!PagingNext]_(Paging!pagingVars)
    /\ Stream!StreamInit /\ [][Stream!StreamNext]_(Stream!streamVars)
    /\ Geo!GeoInit /\ [][Geo!GeoNext]_(Geo!geoVars)
    /\ Gate!GateInit /\ [][Gate!GateNext]_(Gate!gateVars)
    /\ Replica!ClientInit /\ [][Replica!ClientNext]_(Replica!clientVars)
    /\ Index!IndexerInit /\ [][Index!IndexerNext]_(Index!indexerVars)
    /\ Auth!AuthInit /\ [][Auth!AuthNext]_(Auth!authVars)
<1>1. BackendInit => /\ Init /\ Posting!Init /\ Paging!PagingInit /\ Stream!StreamInit
                     /\ Geo!GeoInit /\ Gate!GateInit /\ Replica!ClientInit
                     /\ Index!IndexerInit /\ Auth!AuthInit
  BY DEF BackendInit
<1> QED BY <1>1, PartsMove, PTL DEF BackendSpec

BackendInv ==
  /\ EditInv /\ PostInv /\ PagingInv /\ StreamInv /\ GeoInv
  /\ GateInv /\ ReplicaInv /\ IndexInv /\ AuthInv

LEMMA InitBackend == BackendInit => BackendInv
<1>1. GistEditConstants
  BY BackendConstants DEF BackendConstants
<1> QED BY <1>1, InitEditInv, NothingPosted, InitPaging, InitStream, InitGeo, InitGate,
          InitReplica, InitIndex, InitAuth DEF BackendInit, BackendInv

LEMMA StepBackend == BackendInv /\ [BackendNext]_backendVars => BackendInv'
BY PartsMove, StepEditInv, StepPosting, StepPaging, StepStream, StepGeo, StepGate,
   StepReplica, StepIndex, StepAuth DEF BackendInv

LEMMA BackendKeepsInv == BackendSpec => []BackendInv
BY InitBackend, StepBackend, PTL DEF BackendSpec

\* Every part keeps its types: a request, a page, a compressor, a cell, a page's
\* jar, a health check, a poll and a signed message are what the code takes them for.
THEOREM BackendTypeCorrect == BackendSpec => []BackendTypeOK
<1>1. EditInv => TypeOK
  BY RequestShapes DEF EditInv, TypeInv, TypeOK
<1>2. BackendInv => BackendTypeOK
  BY <1>1, PostingKeeps, PagingKeeps, StreamKeeps, GeoKeeps, GateKeeps, ReplicaKeeps,
     IndexKeeps, AuthKeeps DEF BackendInv, BackendTypeOK
<1> QED BY <1>2, BackendKeepsInv, PTL

\* GistPosting and Indexer: a row is the one its item asked for and names content
\* that is pinned; a gist has one row, and the cursor never passes all the rows.
THEOREM RowsAreTheirItems == BackendSpec => []RowsMatchItems
<1>1. BackendInv => RowsMatchItems
  BY PostingKeeps, IndexKeeps DEF BackendInv, RowsMatchItems
<1> QED BY <1>1, BackendKeepsInv, PTL

\* POST /gists and /gists/batch: 201 is answered when all rows are there, and a pin
\* that fails leaves none.
THEOREM PostersAreTold == BackendSpec => []AnswersTellRows
<1>1. BackendInv => AnswersTellRows
  BY PostingKeeps DEF BackendInv, AnswersTellRows
<1> QED BY <1>1, BackendKeepsInv, PTL

\* GET /gists: a walk over the pages shows a gist once, and by its end every gist
\* that was there at the start, but for ties of one millisecond.
THEOREM PagesFollow == BackendSpec => []PagesAreExact
<1>1. BackendInv => PagesAreExact
  BY PagingKeeps DEF BackendInv, PagesAreExact
<1> QED BY <1>1, BackendKeepsInv, PTL

\* The compression middleware: the bytes that arrive are those written, in order and
\* in the encoding announced, and no length is announced that is not theirs.
THEOREM ResponsesAreWhole == BackendSpec => []AnswersAreWhole
<1>1. BackendInv => AnswersAreWhole
  BY StreamKeeps DEF BackendInv, AnswersAreWhole
<1> QED BY <1>1, BackendKeepsInv, PTL

\* GeoService: whatever the precision, the cell of a hash holds the place it was
\* computed from, and decode finds that cell.
THEOREM HashesDecode == BackendSpec => []CellsHoldTheirPoints
<1>1. BackendInv => CellsHoldTheirPoints
  BY GeoKeeps DEF BackendInv, CellsHoldTheirPoints
<1> QED BY <1>1, BackendKeepsInv, PTL

\* The CSRF guard and the Stellar guard let in only those they should.
THEOREM CallersStayKnown == BackendSpec => []CallersAreKnown
<1>1. BackendInv => CallersAreKnown
  BY GateKeeps, AuthKeeps DEF BackendInv, CallersAreKnown
<1> QED BY <1>1, BackendKeepsInv, PTL

\* The replica client: one connection at most is left open, unless health checks
\* overlapped, and none after the module is destroyed.
THEOREM ClientsAreClosed == BackendSpec => []ReplicasAreClosed
<1>1. BackendInv => ReplicasAreClosed
  BY ReplicaKeeps DEF BackendInv
<1> QED BY <1>1, BackendKeepsInv, PTL
=============================================================================

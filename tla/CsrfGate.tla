------------------------------ MODULE CsrfGate ------------------------------
(***************************************************************************)
(* csrfProtection of Backend/src/common/middleware/csrf.middleware.ts and  *)
(* GET /csrf-token, as the pages of one browser meet them: the pages share *)
(* a cookie, each keeps the token it fetched, and answers come in any order *)
(* or not at all.                                                          *)
(***************************************************************************)
EXTENDS Integers

CONSTANTS
  Page,       \* pages of the client, each with at most one request under way
  MaxSecrets, \* secrets the server makes
  None

VARIABLES
  jar,    \* the cookie of the browser: a secret, or None
  token,  \* the token each page holds, named by the secret it was made with
  call,   \* the request of each page
  issued, \* secrets made so far
  calm    \* history: no request without a cookie was sent while another one was
          \* under way, no cookie expired and no answer was lost

gateVars == <<jar, token, call, issued, calm>>

Idle == [pc |-> "idle"]
Cookieless == {p \in Page : call[p].pc \in {"sent", "answered"} /\ call[p].cookie = None}

GateInit ==
  /\ jar = None /\ issued = 0 /\ calm = TRUE
  /\ token = [p \in Page |-> None]
  /\ call = [p \in Page |-> Idle]

\* A page asks for a token, or posts with the one it has.
Send(p, kind) ==
  /\ call[p].pc = "idle" /\ (kind = "post" => token[p] # None)
  /\ call' = [call EXCEPT ![p] =
       [pc |-> "sent", kind |-> kind, cookie |-> jar, token |-> token[p]]]
  /\ calm' = (calm /\ (jar = None => Cookieless = {}))
  /\ UNCHANGED <<jar, token, issued>>

\* getCsrfSecret: the cookie's, or a new one that the answer sets.
FaultySecret(q) == issued + 1
Secret(q) == IF q.cookie = None THEN issued + 1 ELSE q.cookie

\* verify(secret, token); safe methods are not asked.
Admitted(q, secret) == q.kind = "token" \/ q.token = secret

\* csrfProtection, then the handler: token requests are answered with a token.
Protect(p) ==
  LET q == call[p] IN
  /\ q.pc = "sent" /\ issued < MaxSecrets
  /\ issued' = IF q.cookie = None THEN issued + 1 ELSE issued
  /\ call' = [call EXCEPT ![p] =
       [pc |-> "answered", kind |-> q.kind, cookie |-> q.cookie, token |-> q.token,
        secret |-> Secret(q), ok |-> Admitted(q, Secret(q))]]
  /\ UNCHANGED <<jar, token, calm>>

\* The browser takes the cookie if the answer sets one, the page the token.
Receive(p) ==
  LET q == call[p] IN
  /\ q.pc = "answered"
  /\ jar' = IF q.cookie = None THEN q.secret ELSE jar
  /\ token' = IF q.kind = "token" THEN [token EXCEPT ![p] = q.secret] ELSE token
  /\ call' = [call EXCEPT ![p] = Idle]
  /\ UNCHANGED <<issued, calm>>

\* The connection breaks, before or after the request was served.
Lose(p) ==
  /\ call[p].pc \in {"sent", "answered"}
  /\ call' = [call EXCEPT ![p] = Idle]
  /\ calm' = FALSE
  /\ UNCHANGED <<jar, token, issued>>

\* maxAge counts from the answer that set the cookie; no later answer renews it.
Expire == jar # None /\ jar' = None /\ calm' = FALSE /\ UNCHANGED <<token, call, issued>>

GateNext ==
  \/ Expire
  \/ \E p \in Page : Send(p, "token") \/ Send(p, "post") \/ Protect(p) \/ Receive(p) \/ Lose(p)
-----------------------------------------------------------------------------
GateTypeOK ==
  /\ jar \in 1..MaxSecrets \cup {None} /\ issued \in 0..MaxSecrets /\ calm \in BOOLEAN
  /\ token \in [Page -> 1..MaxSecrets \cup {None}]
  /\ \A p \in Page : call[p].pc \in {"idle", "sent", "answered"}

\* A page that holds a token has its post admitted, unless two requests without
\* a cookie overlapped and the later answer replaced the secret of the earlier,
\* or the cookie ran out, or an answer was lost; and no post is admitted by the
\* token of another secret, nor without a cookie.
TokensAdmit ==
  \A p \in Page : call[p].pc = "answered" /\ call[p].kind = "post" =>
    /\ calm => call[p].ok
    /\ call[p].ok => call[p].cookie = call[p].token
=============================================================================

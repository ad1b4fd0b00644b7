---------------------------- MODULE StellarAuth ----------------------------
(***************************************************************************)
(* Backend/src/auth/guards/stellar-auth.guard.ts: whom a request is taken  *)
(* to come from.  Owners of keys sign bodies; what arrives carries any of  *)
(* the three headers, early, late, or with the keys of its JSON in another *)
(* order.  A signature is the record of what was signed.                   *)
(***************************************************************************)
EXTENDS Integers

CONSTANTS
  Key,     \* the addresses that decode
  BadKey,  \* an address that does not
  Value,   \* what a body says, whatever the order of its keys
  Window,  \* STELLAR_REPLAY_WINDOW_SECONDS
  Ahead,   \* the five seconds a client's clock may be ahead
  MaxTime, \* the run ends here
  None     \* a header that is missing, or not a number

VARIABLES
  clock,   \* the server's seconds
  signed,  \* what owners of keys have signed
  verdict  \* the request decided last

authVars == <<clock, signed, verdict>>

\* A body: its value, whether the keys of its objects are sorted, and whether
\* those of objects inside its arrays are.
Body == [value : Value, sorted : BOOLEAN, inArrays : BOOLEAN]
Signature == [key : Key, ts : 0..MaxTime, body : Body]

\* canonicalizeBody sorts the keys of nested objects, but arrays as they are.
CanonicalizeBody(b) == [b EXCEPT !.sorted = TRUE]

AuthInit == clock = 0 /\ signed = {} /\ verdict = None

Tick == clock < MaxTime /\ clock' = clock + 1 /\ UNCHANGED <<signed, verdict>>

\* A client signs its timestamp and the hash of its body, once in a run.
Sign == \E key \in Key, ts \in 0..MaxTime, b \in Body :
  /\ signed = {} /\ ts \in (clock - Ahead)..(clock + Ahead)
  /\ signed' = {[key |-> key, ts |-> ts, body |-> CanonicalizeBody(b)]}
  /\ UNCHANGED <<clock, verdict>>

FaultyInWindow(ts) == ts # None /\ ts <= clock + Ahead
InWindow(ts) == ts # None /\ clock - ts <= Window /\ ts <= clock + Ahead

\* verifyAsync
Verifies(r) == r.signature # None /\ r.signature.key = r.address /\
  r.signature.ts = r.ts /\ r.signature.body = CanonicalizeBody(r.body)

\* canActivate
CanActivate(r) ==
  IF r.signature = None /\ r.address = None /\ r.ts = None THEN "anonymous"
  ELSE IF /\ r.signature # None /\ r.address # None /\ InWindow(r.ts)
          /\ r.address # BadKey /\ Verifies(r)
       THEN "verified" ELSE "refused"

\* One request is decided; no state of the guard outlives it.
Deliver == \E signature \in signed \cup {None}, address \in Key \cup {BadKey, None},
              ts \in 0..MaxTime \cup {None}, b \in Body :
  LET r == [signature |-> signature, address |-> address, ts |-> ts, body |-> b] IN
  /\ verdict = None
  /\ verdict' = [request |-> r, at |-> clock, is |-> CanActivate(r)]
  /\ UNCHANGED <<clock, signed>>

AuthNext == Tick \/ Sign \/ Deliver
-----------------------------------------------------------------------------
AuthTypeOK ==
  /\ clock \in 0..MaxTime /\ signed \subseteq Signature
  /\ verdict # None => verdict.is \in {"anonymous", "verified", "refused"}

Genuine(r) == \E s \in signed : /\ r.signature = s /\ r.address = s.key /\ r.ts = s.ts
                                /\ r.body.value = s.body.value

\* A request is taken to come from an address only if its owner has signed what
\* the body says, not longer ago than the window; and one that its owner signed
\* is refused only outside the window or because a proxy reordered the keys of
\* an object inside an array, which canonicalizeBody leaves as they are.
VerifiedWasSigned == verdict # None =>
  LET r == verdict.request IN
  /\ verdict.is = "verified" =>
       Genuine(r) /\ verdict.at - r.ts <= Window /\ r.ts - verdict.at <= Ahead
  /\ Genuine(r) /\ verdict.is = "refused" =>
       \/ verdict.at - r.ts > Window
       \/ r.signature.body.inArrays # r.body.inArrays
  /\ verdict.is = "anonymous" => r.address = None
=============================================================================

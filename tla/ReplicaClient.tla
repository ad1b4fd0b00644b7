--------------------------- MODULE ReplicaClient ---------------------------
(***************************************************************************)
(* The connections of CacheService (Backend/src/cache/cache.service.ts): a *)
(* primary, a read replica, and the timer that pings the replica and builds*)
(* it anew.  The timer does not wait for the check before.                 *)
(***************************************************************************)
EXTENDS Integers

CONSTANTS
  HealthCheck, \* health checks of the replica that may be under way at a time
  MaxClients,  \* replica clients made in a run
  None

VARIABLES
  primary, \* "unset" before onModuleInit, then "connected" or "off"; from
           \* onModuleDestroy on "closing" and "closed"
  replica, \* replicaClient: a number, or None
  made,    \* replica clients made so far
  open,    \* those whose connection is up
  check,   \* the health checks
  overlap  \* history: a check began, or the shutdown did, while a check was
           \* under way

clientVars == <<primary, replica, made, open, check, overlap>>

ClientInit ==
  /\ primary = "unset" /\ replica = None /\ made = 0 /\ open = {} /\ overlap = FALSE
  /\ check = [c \in HealthCheck |-> [pc |-> "idle", client |-> None]]

\* new Redis(replicaUrl)
Replaced ==
  /\ made < MaxClients
  /\ made' = made + 1 /\ replica' = made + 1

\* onModuleInit: without an answer to its ping the cache is off for good.
Connect ==
  /\ primary = "unset"
  /\ \/ /\ primary' = "connected"
        /\ \/ Replaced /\ open' = {made + 1}
           \/ UNCHANGED <<replica, made, open>>
     \/ primary' = "off" /\ UNCHANGED <<replica, made, open>>
  /\ UNCHANGED <<check, overlap>>

\* A replica connection is lost and, with retryStrategy null, stays so.
Drop == \E n \in open : open' = open \ {n} /\ UNCHANGED <<primary, replica, made, check, overlap>>

Busy == {c \in HealthCheck : check[c].pc # "idle"}

\* The interval: the client of this moment is pinged.
Ping(c) ==
  /\ primary \in {"connected", "off"} /\ replica # None /\ check[c].pc = "idle"
  /\ check' = [check EXCEPT ![c] = [pc |-> "ping", client |-> replica]]
  /\ overlap' = (overlap \/ Busy # {})
  /\ UNCHANGED <<primary, replica, made, open>>

Pong(c) ==
  /\ check[c].pc = "ping" /\ check[c].client \in open
  /\ check' = [check EXCEPT ![c] = [pc |-> "idle", client |-> None]]
  /\ UNCHANGED <<primary, replica, made, open, overlap>>

\* rebuildReplicaClient quits the client there is by now, not the one pinged.
PingFails(c) ==
  /\ check[c].pc = "ping"
  /\ check' = [check EXCEPT ![c] = [pc |-> "quit", client |-> replica]]
  /\ UNCHANGED <<primary, replica, made, open, overlap>>

\* quitClient: quit has answered, or failed and disconnect was called.
FaultyClosed(c) == {}
Closed(c) == {check[c].client}
Rebuild(c) ==
  /\ check[c].pc = "quit"
  /\ Replaced
  /\ open' = (open \ Closed(c)) \cup {made + 1}
  /\ check' = [check EXCEPT ![c] = [pc |-> "idle", client |-> None]]
  /\ UNCHANGED <<primary, overlap>>

\* onModuleDestroy: the timer is cleared and the primary quit; a check under way
\* goes on. Then the replica client of that moment is quit.
Stop ==
  /\ primary \in {"connected", "off"} /\ primary' = "closing"
  /\ overlap' = (overlap \/ Busy # {})
  /\ UNCHANGED <<replica, made, open, check>>
Left == open \ {replica}
CloseReplica ==
  /\ primary = "closing" /\ primary' = "closed" /\ open' = Left
  /\ UNCHANGED <<replica, made, check, overlap>>

ClientNext ==
  \/ Connect \/ Drop \/ Stop \/ CloseReplica
  \/ \E c \in HealthCheck : Ping(c) \/ Pong(c) \/ PingFails(c) \/ Rebuild(c)
-----------------------------------------------------------------------------
ClientTypeOK ==
  /\ primary \in {"unset", "connected", "off", "closing", "closed"} /\ open \subseteq 1..made
  /\ replica \in 1..made \cup {None} /\ made \in 0..MaxClients
  /\ primary \in {"unset", "off"} => replica = None

\* No connection to the replica is left behind that nobody uses, unless checks
\* overlapped: then each of them builds a client, and only the last is kept. And
\* none is open after the shutdown, unless a check was under way when it began.
ReplicasAreClosed ==
  /\ \A n \in open : n # replica => overlap
  /\ primary = "closed" /\ open # {} => overlap
=============================================================================

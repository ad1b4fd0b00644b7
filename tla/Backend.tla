------------------------------ MODULE Backend ------------------------------
(***************************************************************************)
(* The parts of the backend that are modelled apart, side by side.  What   *)
(* one does to another is an action of the model that needs it (the        *)
(* inserts in NearbyPaging), so a behaviour is one of one part: `part'     *)
(* names it, and the others stay as they are.  Editing is the extended     *)
(* module, so that its properties are those GistEditProofs is about.       *)
(***************************************************************************)
EXTENDS GistEdit, Sequences, FiniteSets

CONSTANTS
  PostRequest, Observation, BatchSize, PinAttempts, PostTime,  \* GistPosting
  ListedGist, Limit, TicksPerMs, ListTime,                     \* NearbyPaging
  MaxChunks, FullQ,                                            \* ResponseStream
  Precision,                                                   \* Geohash
  Page, MaxSecrets,                                            \* CsrfGate
  HealthCheck, MaxClients,                                     \* ReplicaClient
  Poll, MaxEvents, MaxLedger, Genesis,                         \* Indexer
  Key, BadKey, Value, Window, Ahead, SignTime,                 \* StellarAuth
  None

VARIABLES
  part,
  mockMode, postNow, postReq, postPinned, rows,
  created, pageNow, cached, walk,
  ask, header, mode, given, ending, zip, wire, socket,
  point, box, bits, hash,
  jar, token, call, issued, calm,
  primary, replica, made, open, check, overlap,
  unique, chain, cursor, file, poll, table,
  clock, signed, verdict

postingVars == <<mockMode, postNow, postReq, postPinned, rows>>
pagingVars == <<created, pageNow, cached, walk>>
streamVars == <<ask, header, mode, given, ending, zip, wire, socket>>
geoVars == <<point, box, bits, hash>>
gateVars == <<jar, token, call, issued, calm>>
replicaVars == <<primary, replica, made, open, check, overlap>>
indexVars == <<unique, chain, cursor, file, poll, table>>
authVars == <<clock, signed, verdict>>
backendVars == <<part, vars, postingVars, pagingVars, streamVars, geoVars,
          gateVars, replicaVars, indexVars, authVars>>

Posting == INSTANCE GistPosting WITH now <- postNow, req <- postReq, pinned <- postPinned,
  Request <- PostRequest, MaxAttempts <- PinAttempts, MaxTime <- PostTime
Paging == INSTANCE NearbyPaging WITH now <- pageNow, Row <- ListedGist, MaxTime <- ListTime
Stream == INSTANCE ResponseStream
Geo == INSTANCE Geohash
Gate == INSTANCE CsrfGate
Replica == INSTANCE ReplicaClient
Index == INSTANCE Indexer
Auth == INSTANCE StellarAuth WITH MaxTime <- SignTime

\* None is what the code has null, undefined or NaN for.
ASSUME BackendConstants ==
  /\ GistEditConstants /\ Posting!GistPostingConstants
  /\ IsFiniteSet(ListedGist) /\ Limit \in Nat \ {0} /\ TicksPerMs \in Nat \ {0}
  /\ ListTime \in Nat /\ MaxChunks \in Nat /\ FullQ \in Nat \ {0} /\ Precision \in Nat
  /\ MaxSecrets \in Nat /\ MaxClients \in Nat /\ MaxEvents \in Nat
  /\ MaxLedger \in Nat /\ Genesis \in Nat
  /\ Window \in Nat /\ Ahead \in Nat /\ SignTime \in Nat /\ BadKey \notin Key
  /\ None \notin Nat \cup Key /\ None \notin Stream!Codings /\ None \notin Stream!Asks
  /\ None \notin Auth!Signature /\ None \notin Geo!Points

Parts == {"edit", "posting", "paging", "stream", "geo", "gate", "replica", "index", "auth"}

\* The other parts start in one of the states they may start in, always the same.
BackendInit ==
  /\ part \in Parts
  /\ Init /\ (part # "edit" => \A g \in Gist : row[g].author = NoAuthor)
  /\ Posting!Init /\ (part # "posting" => mockMode)
  /\ Paging!PagingInit /\ Stream!StreamInit /\ Geo!GeoInit /\ Gate!GateInit
  /\ Replica!ClientInit /\ Auth!AuthInit
  /\ Index!IndexerInit /\ (part # "index" => unique)

OnlyEdit == UNCHANGED <<part, postingVars, pagingVars, streamVars, geoVars,
  gateVars, replicaVars, indexVars, authVars>>
OnlyPosting == UNCHANGED <<part, vars, pagingVars, streamVars, geoVars,
  gateVars, replicaVars, indexVars, authVars>>
OnlyPaging == UNCHANGED <<part, vars, postingVars, streamVars, geoVars,
  gateVars, replicaVars, indexVars, authVars>>
OnlyStream == UNCHANGED <<part, vars, postingVars, pagingVars, geoVars,
  gateVars, replicaVars, indexVars, authVars>>
OnlyGeo == UNCHANGED <<part, vars, postingVars, pagingVars, streamVars,
  gateVars, replicaVars, indexVars, authVars>>
OnlyGate == UNCHANGED <<part, vars, postingVars, pagingVars, streamVars,
  geoVars, replicaVars, indexVars, authVars>>
OnlyReplica == UNCHANGED <<part, vars, postingVars, pagingVars, streamVars,
  geoVars, gateVars, indexVars, authVars>>
OnlyIndex == UNCHANGED <<part, vars, postingVars, pagingVars, streamVars,
  geoVars, gateVars, replicaVars, authVars>>
OnlyAuth == UNCHANGED <<part, vars, postingVars, pagingVars, streamVars,
  geoVars, gateVars, replicaVars, indexVars>>

BackendNext ==
  \/ part = "edit" /\ Next /\ OnlyEdit
  \/ part = "posting" /\ Posting!Next /\ OnlyPosting
  \/ part = "paging" /\ Paging!PagingNext /\ OnlyPaging
  \/ part = "stream" /\ Stream!StreamNext /\ OnlyStream
  \/ part = "geo" /\ Geo!GeoNext /\ OnlyGeo
  \/ part = "gate" /\ Gate!GateNext /\ OnlyGate
  \/ part = "replica" /\ Replica!ClientNext /\ OnlyReplica
  \/ part = "index" /\ Index!IndexerNext /\ OnlyIndex
  \/ part = "auth" /\ Auth!AuthNext /\ OnlyAuth

\* As in each module: handlers, the database and zlib go on, and an attempt to pin
\* ends one way or the other; of the clock and the client nothing is assumed.
Fairness ==
  /\ \A r \in Request : WF_vars(part = "edit" /\ Serve(r))
  /\ \A r \in PostRequest :
       /\ \A obs \in Observation : WF_postingVars(part = "posting" /\ Posting!Pin(r, obs))
       /\ \A i \in 1..BatchSize :
            /\ WF_postingVars(part = "posting" /\ Posting!Post(r, i))
            /\ WF_postingVars(part = "posting" /\ Posting!Insert(r, i))
  /\ WF_streamVars(part = "stream" /\ Stream!Zlib)
  /\ WF_streamVars(part = "stream" /\ Stream!End)

BackendSpec == BackendInit /\ [][BackendNext]_backendVars /\ Fairness
-----------------------------------------------------------------------------
\* The state of every part has its types.
BackendTypeOK ==
  /\ TypeOK /\ Posting!TypeOK /\ Paging!PagingTypeOK
  /\ Stream!StreamTypeOK /\ Geo!GeoTypeOK /\ Gate!GateTypeOK /\ Replica!ClientTypeOK
  /\ Index!IndexerTypeOK /\ Auth!AuthTypeOK

\* Posting: every row is its own item's, once, and names content that IPFS holds.
\* Indexing: no gist has two rows, and the cursor never passes all that is stored.
RowsMatchItems ==
  /\ Posting!RowsMatchItems /\ Posting!RowsArePinned
  /\ Index!OneRowEach /\ Index!CursorIsBacked

\* Posting: 201 means all rows, a failed pin means none.
AnswersTellRows == Posting!AnswersTellRows

\* Paging: no gist is on two pages, and the last page comes only after every
\* gist that was there at the start, ties of one millisecond apart.
PagesAreExact == Paging!PagesNeverOverlap /\ Paging!OnlyTiesAreSkipped

\* Compression: what the client gets is what was written, as announced, in no
\* coding that it named with q=0.
AnswersAreWhole == Stream!AnswersAreWhole

\* Geohash: the cell of a gist contains its place, and decode finds that cell.
CellsHoldTheirPoints == Geo!CellsHoldTheirPoints

\* CSRF: a page's token is good unless first requests overlapped. Stellar
\* headers: an address is taken for the author of what its owner signed only.
CallersAreKnown == Gate!TokensAdmit /\ Auth!VerifiedWasSigned

\* Cache connections: a replica client is left open only by overlapping checks.
ReplicasAreClosed == Replica!ReplicasAreClosed

\* Every PATCH and POST is answered, and every compressor is
\* given back.
EveryoneIsAnswered ==
  /\ EveryRequestAnswered /\ Posting!EveryRequestAnswered
  /\ Stream!BuffersReclaimed
=============================================================================

# A verification project for VertexChain

VertexChain lets people pin short messages ("gists") to places. Clients post to
a NestJS backend, which pins the content to IPFS, announces it to a Soroban
(Stellar) contract and keeps a PostgreSQL table with a Redis cache in front. Four
Rust contracts hold the on-chain state; a Next.js frontend shows the map, a second
Next.js application is the analytics dashboard, and scripts look after the
infrastructure. This directory holds TLA+ models of the parts whose behaviour is
hard to test, the configurations that model-check them with TLC, and proofs
checked by TLAPS. Line numbers refer to the sources in the repository at the
commit these files sit beside; PROJECT.json maps every definition to its lines.

    tlasany M.tla                    parse a module
    tlc -config X.cfg M.tla          model-check (the table of runs below)
    tlapm GovernanceProofs.tla       check the proofs

## 1. The system

| Part | State it keeps | Operations | Talks to |
|---|---|---|---|
| `contracts/governance` | admin, required approvals, proposals with tallies, one vote entry per account and proposal, config values, proposals by proposer, executor allowlist, migration flag | initialize, update_admin, create / vote / execute_proposal, set_executor_allowlist, migrate_votes | the ledger's clock |
| `contracts/multisig` | admin, signers, thresholds, pending transactions, approvals and their count | initialize_state, set_signers, set_high_value_threshold, submit / approve / execute_transaction | - |
| `contracts/batch-wallet` | admin, wallet per address, id counter, two totals | initialize, set_admin, batch_create_wallets, batch_recover_wallets | the ledger's clock |
| `contracts/gist-registry` | gists by id | post_gist, get_gist, list_gists_by_cell | clients that page |
| Backend: gist posting | table `gists` | POST /gists, POST /gists/batch | IPFS, Soroban, database, cache |
| Backend: gist editing | the same rows | PATCH /gists/:id within 60 s | IPFS, database, cache |
| Backend: paging | the cached first page | GET /gists | database, cache |
| Backend: cache | Redis keys `gist:one:*`, `gist:nearby:*`, `idemp:*`; one circuit breaker per cache operation; a primary and a replica connection | reads, invalidation, the Idempotency-Key middleware, the replica's health check | Redis |
| Backend: indexer | cursor file, the rows of `gists` | a poll every six seconds | Soroban, database |
| Backend: guards and middleware | CSRF secret cookie; compressor per response | Stellar signature guard, CSRF check and GET /csrf-token, compression, geohash | browsers |
| Frontend: map page | gists shown, modal, toast | optimistic insert, replacement, rollback | backend |
| Dashboard: shell | toasts, refresh, date range in the address, theme, drawer | search, shortcuts, table of locations, PDF report | localStorage |
| Dashboard: things users make | bookmarks, chart notes, report canvas, scheduled report, segments, saved queries, settings, regions | make, change, delete, share, export | localStorage, pages/api/regions |
| Dashboard: live widgets | cursors, feed, session player, counter | timers | sample data |
| Dashboard: figures | - | statistics, forecasts, attribution, scores, rates | constant tables |
| Dashboard: component library | local state of select, menu, palette, tabs, ... | keys and clicks | the parent component |
| Scripts | import log, lock table, cloud resources | issue import, drift remediation, failover, canary, ... | GitHub, AWS |

What is hard here:

* *Contracts* run one call at a time and roll back on panic; what is hard is long
  sequences of legal calls (votes, migration, reconfiguration) that let two
  storage entries that are written apart drift, and integers at their limit.
* *The backend* is one event loop. Between two awaits other requests run and the
  clock moves, so a row, a cache entry or a decision may be stale when it is
  used. Pins are retried, a failed call may have taken effect, a batch is a tree
  of promises of which some fail, and Redis may fail, hang or answer late.
  Timers (the indexer, the replica's check) do not wait for the run before.
* *Breakers* are shared by name: what one caller sets up, every later one uses.
* *The browser* is an event loop per tab: tabs share a localStorage and each shows
  what it read last; answers overtake each other or get lost; timers fire after
  what they were for has gone; an index or an id outlives the list it points into.
* *Scripts* die between two calls, run twice at a time and resume from a log.

## 2. The modules

### Contracts and backend

| Module | Models | Relation to others |
|---|---|---|
| `QuorumDecisions` | abstract specification of what both deciding contracts promise | - |
| `Governance` | the governance contract | implements `QuorumDecisions` |
| `Multisig` | the multisig contract | implements `QuorumDecisions` |
| `BatchWallet` | the batch wallet contract | - |
| `GistRegistry` | the registry with paging clients | - |
| `GistPosting` | `GistsService.create`, `createBatch` with `IpfsService` and `SorobanService` | - |
| `GistEdit` | `GistsService.update` with `IpfsService` | - |
| `CachedApi` | cached reads, invalidation, idempotency, breakers | takes posting and editing as single steps |
| `NearbyPaging` | `findNearby`, its cursor and cached first page, a walking client | takes inserts as single steps |
| `ReplicaClient` | the connections of `CacheService` and the health check | - |
| `Indexer` | `poll`, the cursor file, `upsertFromEvent` | the chain's answers are external |
| `StellarAuth` | `StellarAuthGuard` with `canonicalizeBody` | - |
| `CsrfGate` | `csrfProtection` and GET /csrf-token with a browser's pages | - |
| `ResponseStream` | `compressionMiddleware` | - |
| `Geohash` | `encode` and `decode` | - |
| `Contracts` | the four contracts side by side | extends `Multisig`, instantiates the other three |
| `Backend` | the nine parts of the backend from `GistEdit` to `Geohash`, without `CachedApi` | extends `GistEdit`, instantiates the other eight |
| `GovernanceProofs`, `BatchWalletProofs`, `GistEditProofs`, `CachedApiProofs` | theorems on one module | extend their module and `TLAPS` |
| `ContractsProofs` | theorems on the composition, on the multisig contract and on the registry | extends `Contracts`, instantiates the other contracts' proofs |
| `BackendProofs` | theorems on the composition and on its parts | extends `Backend` and `GistEditProofs` |
| `MCContracts` | finite instance of `Contracts`; `Backend`, `CachedApi` and the rest get theirs from the .cfg alone | extends `Contracts` |

### Frontend, dashboard and scripts

| Module | Models |
|---|---|
| `OptimisticMap` | Map.tsx, AddGistModal.tsx, api/gists.ts |
| `SavedLists` | bookmarks and notes on a chart in localStorage, in two tabs |
| `Lists` | what the pages do with arrays (`filter`, `splice`, `sort`, `concat`) as functions that a proof can expand |
| `SearchPalette` | Layout, SearchBar, KeyboardShortcuts, lib/search.ts, theme |
| `RegionMap` | GeoFence.tsx with pages/api/regions |
| `ReportPages` | ReportBuilder.tsx and ReportConfig.tsx |
| `SegmentsPage`, `Builders` | the segments page; the same builder, the query builder and the annotation panel embedded in a page that mounts and unmounts them (`Builders` instantiates `SegmentsPage`), and the share card, team chat, drawer of anomalies and ranking of endpoints |
| `LiveWidgets` | collaboration page, session player, home counter |
| `Figures` | what lib/ and the pages compute, against what it stands for |
| `FormPages` | pages on which something is set; pages that select, filter and sort |
| `Exports` | CSV in chunks, workbook, JSON snapshot, picture of a chart |
| `Experiments` | the A/B cards |
| `Kit` | select, dropdown, command palette, tabs, accordion, pager, slider |
| `Dashboard` | toasts, refresh, date range, table of locations, PDF report |
| `IssueDocument`, `ImportIssues` | import-issues.mjs and import-issues-create.mjs |
| `Browser` | composition of the parts above |
| `MCBrowser` | its finite instance |
| `BrowserProofs`, `BrowserStateProofs` | theorems on `Browser` and on its parts; the second on what is shown and on the types |

In `Contracts`, `Backend` and `Browser` a behaviour is one of one part; the
variable `contract` or `part` names it and the others keep their first state. The
parts share no variables in the code either, or the model of one takes what
the other does to it as an action of its own.

Definitions named `Faulty...` or `Swallowed...` are mutated forms of the
definition that follows them; no specification uses them. They show that a
property can fail.

### How state and actions correspond to the code

*Contracts.* A call is one action. Its guard is the conjunction of the checks whose
failure returns an error or panics, because a failed call leaves nothing behind.
Callers range over all accounts: `require_auth` makes a caller genuine, so only the
comparisons the code makes are guards. Variables are storage keys.

* `Governance`. `userVote` entries keep the form of what is stored: absent, a
  bool of the earlier code, or a `VoteRecord` for or against. A run starts from
  an empty storage or from one left by the earlier code (`InitUpgraded`), since
  `migrate_votes` exists only for that. `executions` is the sequence of
  `proposal_executed` events; `upgradedAt` is a history variable. Left out:
  string lengths (only valid keys and values), TTL extensions, read-only entry
  points, and whether a `Proposal` written by the earlier layout decodes at all.
* `Multisig`. The transaction's recipient, amount, payload and asset are one
  opaque body: no operation looks at them. `highValueThreshold` is modelled as
  written; nothing in the code reads it. An approval of an account that is no
  signer any more still counts, as in the code.
* `BatchWallet`. The two loops are modelled one request at a time, because an
  early request changes what a later one finds. `Panic` rolls back to `saved`.
  The third check of a recovery (`RecoveryCode`, code 3 "same address") is never
  the deciding one: a recovery of an existing wallet to itself stops at code 2.
* `GistRegistry`. `ListGistsByCell` is the scan; a client resumes one past the
  last gist it saw, which is what the inclusive cursor asks of it.

*Backend.* A request runs from one await to the next in one action. Awaited calls
fail, succeed, or take effect and lose their answer. All times are of one clock.

* `GistEdit`: `Receive`, `Select` (the row is read), `Check` (window, author,
  payload and its stamp), `Pin` (one attempt, `withRetry` around it), `Store`
  (the UPDATE). The cache is off.
* `GistPosting`: `Receive` starts one pin per different item, `Pin` is an attempt
  of one, `Post` and `Insert` are per item; a first failure answers the request
  and the rest of the tree runs on. `create` is a batch of one. In mock mode
  `postGist` returns the clock; the real client is a stub that throws. The cache,
  geohash encoding, sanitising and the throttle are left out.
* `CachedApi`: a cache call is an element of `flight` until Redis settles it (`Settle`),
  it fails (`Fail`) or its breaker stops waiting (`Timeout`), after which it may still
  take effect. `Fire` keeps the arguments of the first call under a breaker's name, as
  `getOrCreate` keeps its closure. A page's content is the number of changes to its
  place. Posts and edits may carry a key. The hash of a request is its `Endpoint`,
  method and path: main.ts:43 installs the middleware with `app.use`, and Nest adds its
  body parser after that, in `listen()`, so `req.body` is undefined where it is hashed
  and two posts of different places are the same request. Left out: hit counters and the
  statistics by which opossum opens a breaker: an open breaker is a call that fails at
  once. `delPattern` matches coordinates as `toFixed(4)` writes them while a read keys
  by what the client wrote, hence the `fixed4` of a query.
* `NearbyPaging`: time is in ticks of the database, several to a millisecond, since
  `created_at` has microseconds and a cursor is a JavaScript `Date`. Rows that
  share the cursor's millisecond are what may be left out.
* `ReplicaClient`: a ping is sent, answered or fails, and a failed one makes a new
  client; two checks may do so at once and one client is then left open.
* `Indexer`: `unique` says whether the table has the unique index the entity
  declares (no migration creates it). A poll reads the cursor, upserts event by
  event (`todo` is what is left of its list, `IsNext` the oldest of it) and writes
  the file; a restart starts from the file, whole or torn. Ledgers and times are
  apart: `chain[e]` is the ledger of an event, `CreatedAt(e)` the Unix time at which
  it closed, above every ledger's number (`Genesis`); the cursor moves to the latter
  and is asked for as the former. `IndexerModule` is not imported by `AppModule` yet
  and `getEventsSince` is a stub, so what it will return is external: the events of
  the ledgers after the number it is given, with or without those of that ledger.
* `StellarAuth`: a signature is the record of what was signed; what arrives has any
  of the headers, another time, or the keys of its JSON in another order. The
  guard stands before POST /gists and /gists/batch, not before PATCH.
* `CsrfGate`: pages share a cookie and keep the token each fetched. The frontend's
  own `postGist` sends no token (the middleware answers 403).
* `ResponseStream`: encoding by `Accept-Encoding` with a q for each coding and for
  the wildcard, whose q the code drops, mode, the patched `write` and `end`, zlib's events and
  the client's disconnection. Bytes are chunk numbers.
* `Geohash`: a character is five bits that halve longitude and latitude by turns, as
  in the code. The world is an integer grid with two cells for each place the
  precision can tell apart (`Pow2`), so that every midpoint is a grid line. `Decode`
  is the code's loop over the characters of any hash.

*Browser.* A handler is one action; a promise, a timer, a debounce, an animation
frame and an effect that runs after drawing are actions of their own, so that
anything a user can do comes in between. `Figures`
is pure: an input is chosen, computed as the code does it with fractions multiplied
out, and the result is related to what it stands for. The following modules are of
components no page mounts, and their parents are any page that uses their
properties as declared: most of `Kit`, and of `Builders` all but the
drawer of anomalies. Random ids (conditions, bookmarks) are places or fresh numbers.

*Scripts.* Each call of `gh` is a step and the script may die after any.

## 3. The runs

| Run | Module, cfg | Instance | Properties |
|---|---|---|---|
| gov_votes | Governance, Governance_votes | 1 proposal, 3 voters, fresh or upgraded, any snapshot, clock 0..2 | `TypeOK`, `TalliesMatchVotes`, `ExecutedIsBacked`, `ClosedIsFinal`, `ImplementsDecisions` |
| contracts | MCContracts, MCContracts | 2 governance proposals, 2 accounts, 2 keys; 2 multisig transactions, 3 accounts, every signer list up to 3, well formed or not; 4 owners, up to 3 creations or 2 recoveries, ids end at 3; 2 clients, 2 cells, 5 gists, pages of 1 to 3 | `StorageTypeOK`, `ConfigIsLastExecuted`, `IndexIsComplete` (governance), `CountMatchesApprovals`, `PendingCanPass`, `ImplementsDecisions` (multisig), `WalletsAreIssued`, `ResultsMatchEffect`, `BatchIsAtomic` (wallets), `PagingIsExact`, `DoneMeansAll` (registry) |
| backend | Backend, Backend | 2 edits of 2 gists, 2 authors or none, 2 attempts, window 1, clock 0..3; a batch of up to 3 items with 2 contents; 3 gists, pages of 2, 2 ticks to a millisecond; 2 chunks; geohashes of 2 characters; 2 pages, 3 secrets; 2 replica checks, 4 clients; 2 polls, 2 events in ledgers 1..2, ledger 0 at time 3; 1 signature and 1 delivery, window 1 | `BackendTypeOK`, `RowsArePinned`, `RefusedLeavesNothing`, `PreviousWasShown` (edits), `RowsMatchItems` (posts, indexer), `AnswersTellRows` (posts), `PagesAreExact`, `AnswersAreWhole`, `CellsHoldTheirPoints`, `CallersAreKnown` (CSRF, Stellar headers), `ReplicasAreClosed`, `EveryoneIsAnswered` |
| cache | CachedApi, CachedApi_core | 2 requests of any kind, 2 places, 2 keys, failing Redis, expiry | `TypeOK`, `ReplaysAreFaithful`, `CacheTellsThePast`, `EveryRequestAnswered` |
| browser | MCBrowser, MCBrowser | 2 tabs or 1 page, lists of 1 to 3, see the instances in the module | `TypeOK`, `NothingIsLost`, `SelectionsExist`, `LimitsHold`, `FiguresAddUp`, `ShownIsCurrent`, `EveryWaitEnds` |
| gov_migration | Governance, Governance_migration | as gov_votes | violation of `MigrationReplacesLegacy` |
| edit_lineage | GistEdit, GistEdit_lineage | 1 gist, 2 edits | violation of `LineageIsKept` |
| edit_window | GistEdit, GistEdit_window | 1 gist, 2 edits, window 1 | violation of `ClosedIsPermanent` |
| cache_one | CachedApi, CachedApi_one | Redis never fails | violation of `OneIsTheGistAskedFor` |
| cache_body | CachedApi, CachedApi_body | Redis never fails, 2 places | violation of `OtherBodyIsRefused` |
| indexer_units | Indexer, Indexer_units | 2 polls, 2 events | violation of `LastProcessedIsProcessed` |
| import | ImportIssues, ImportIssues | 2 issues, 3 runs | violation of `SkipsSuccessfulOnes` |

The properties of the browser run are conjunctions, one conjunct per module, each
named and stated in its module: a bookmark, note, region, pin, widget, segment, query
or exported row goes only by the step that is meant to take it
(`NothingIsLost`); what refers to something refers to what there is
(`SelectionsExist`); limits hold whichever tab wrote (`LimitsHold`); figures, files
and counts agree with what they are of (`FiguresAddUp`, of which `CountsMatch` is the
part on files, counts and issues); what is shown is what
was chosen, stored or asked for last (`ShownIsCurrent`); searches, posts, animations,
exports and messages end (`EveryWaitEnds`).

Why the bounds are enough. Every property speaks of at most two proposals,
transactions, wallets, rows, requests or tabs at once, and each instance has at
least two of what its property relates and one more account than a quorum needs.
Integer types are cut to a few values so that their limits are reached inside
the run, with the checked additions of the code as guards: `U32Max`, `U64Max`,
`MaxProposals`, `MaxGists`, `MaxTime`. The clock reaches both sides of every
deadline. Two attempts per pin have a retry and a last failure. Batches of three
have equal and different items, chains of recoveries need two. Three gists with
pages of two have a full page, a last one and a tie at their border. Posting
requests share nothing but the clock and the two tables, to which they only add, so
one batch with its concurrent items is the interesting instance. Lists in the
browser have an entry before, at and after the one a handler acts on. The bounds
named `Max...` of the browser modules only stop a user from going on for ever.
Symmetry is used only where no property is a liveness property under fairness.
Deadlock is not checked: every run may end, with all requests answered, all ids
used and the clock at its bound.

### What the violations show

* `MigrationReplacesLegacy` (governance/src/lib.rs:434): `migrate_votes` skips every
  key that is present, so legacy bools stay bools; the comments at 282 and 404
  say they are replaced.
* `LineageIsKept` (gists.service.ts:217): of two concurrent edits that read the
  same row, the first one's CID ends in no column. `PreviousWasShown`, the weaker
  property that does hold, says `previous_cid` is always an earlier CID of the row.
* `ClosedIsPermanent` (gists.service.ts:195): the window is checked before the pins
  and not again, so an edit admitted in time is written after the window, when the
  backend's README says the content is permanent.
* `OneIsTheGistAskedFor` (circuit-breaker.service.ts:21): a breaker runs the
  closure it was created with, so every later cache read reads the first key.
* `OtherBodyIsRefused` (main.ts:43): with the middleware before the body parser, a post
  with another body under a used key is answered with the first one's answer. The
  middleware's spec expects 422, in an application that parses bodies first.
* `LastProcessedIsProcessed` (indexer.service.ts:90): the cursor becomes a Unix time and
  is given to `getEventsSince(ledger)`, so after the first event indexed nothing that
  follows is asked for, nor what failed before it. `CursorIsBacked`, a part of
  `RowsMatchItems`, says what the cursor is whatever happens: no younger than some row.
* `SkipsSuccessfulOnes` (import-issues-create.mjs:176): failed issues are logged with
  their number too, so a rerun skips them and exits with 0.

Further behaviours, read off the same models or the sources beside them, that have
no run of their own:

* Backend. A retry that overtakes the first answer runs the handler again
  (idempotency.middleware.ts:47). A page read before a post and set after the post's
  invalidation stays, without the post, until its TTL of 60 s ends
  (gists.service.ts:163); `CacheTellsThePast` is what does hold of such a page. After
  `*;q=0` the answer may be in br (compression.middleware.ts:119): its comment at 99
  says a wildcard implies q=1, its comment at 9 that q=0 disables. Ids of mock
  posts may repeat (soroban.service.ts:75). Through the shared breaker a fresh
  Idempotency-Key may be refused with 422 (idempotency.middleware.ts:34). An indexer
  faster than the insert of a POST makes that POST fail.
* Map. Text typed while a post is pending is wiped when it ends, and a failure
  closes the modal as well.
* Regions. A double "Close & Save" makes two regions (GeoFence.tsx:43); a 404 to a
  delete leaves the region shown (70); answers to two PATCHes may come out of
  order (88).
* Search. Enter opens a result other than the highlighted one when the list drawn is
  grouped by type (SearchBar.tsx:67, 152, 182 and search.ts:67).
* Report builder. Widget ids may repeat (ReportBuilder.tsx:55, 60), an emptied canvas
  comes back with the defaults (40), and opening a shared link overwrites the
  stored canvas (28-36, 44).
* Chart notes. `"Jan 10".includes("Jan 1")` puts a note on two points
  (AnnotatedChart.tsx:60).
* Sessions. Pause and Reset leave the interval running (SessionPlayer.tsx), and a
  player keeps its position when another session is chosen.
* Segments. An empty OR segment exports nothing where the page says it matches all
  users (app/segments/page.tsx:168, 255).
* Data quality. A gap of exactly 24 hours counts as one, where the comment says more
  than 24 (lib/data-quality.ts:48, 53).
* Experiments. The approximation of the normal tail is given chi-square and not its root
  (ExperimentCard.tsx:30), so differences with chi-square above 1.957 are called
  significant; at one degree of freedom 3.841 is needed. The model has the code's border.
* Drift remediation. The key given to `delete-item` lacks a brace
  (remediate-drift.sh:72), so a lock goes only by its TTL.
* Sorting in place changes arrays of the source files on the attribution, roadmap and
  support pages.

### Fairness

Contracts have no liveness property under fairness: nobody is obliged to call
them (`DoneMeansAll` is an action property). In `GistEdit` and
`GistPosting` the steps of a request are weakly fair: Node's event loop runs every
ready continuation, and a database or HTTP call settles, with an answer or an
error. Nothing says a call succeeds, so an answer may be an error. In
`ResponseStream` zlib goes on and the handler ends. In `CachedApi` only handler
steps and the breakers' timers are fair; of Redis nothing is assumed: a call that
hangs is ended by its breaker, which is the property's point. In the browser timers
fire, frames are drawn and a promise of the code's own (a chunk of a file, an
import of a library, a picture) settles one way or the other; a post of the map is
stored or refused and its answer or failure arrives, since `fetch` settles.
Arrival of requests, users, ticks, expiry, restarts and polls are never fair.
`Backend` and `Browser` repeat these conditions for the part a behaviour is of.

## 4. The proofs

Each theorem holds for every value of the constants that satisfies the named
assumption of its module (finitely many accounts, null values outside the sets they
extend, bounds that are naturals in the code's order), which TLC evaluates for the
instances.

| Module | Theorem | Statement |
|---|---|---|
| `GovernanceProofs` | `TypeCorrect` | `Spec => []TypeOK` |
| | `TalliesAgree` | `Spec => []TalliesMatchVotes` |
| | `ExecutionsAreBacked` | `Spec => []ExecutedIsBacked` |
| | `ClosedProposalsAreFinal` | `Spec => ClosedIsFinal` |
| | `ContractImplementsDecisions` | `Spec => ImplementsDecisions` |
| | `IndexStaysComplete` | `Spec => []IndexIsComplete` |
| | `ConfigFollowsExecutions` | `Spec => []ConfigIsLastExecuted` |
| `BatchWalletProofs` | `WalletTypeCorrect` | `BatchWalletConstants /\ Spec => []TypeOK` |
| | `WalletsStayIssued` | `... => []WalletsAreIssued` |
| | `ResultsTellEffect` | `... => []ResultsMatchEffect` |
| | `BatchesAreAtomic` | `... => BatchIsAtomic` |
| `GistEditProofs` | `EditTypeCorrect` | `GistEditConstants /\ Spec => []TypeOK` |
| | `EditedRowsArePinned` | `... => []RowsArePinned` |
| | `RefusalsLeaveNothing` | `... => []RefusedLeavesNothing` |
| | `PreviousIsHistory` | `... => PreviousWasShown` |
| `CachedApiProofs` | `CacheTypeCorrect` | `Spec => []TypeOK` |
| | `ReplaysStayFaithful` | `Spec => []ReplaysAreFaithful` |
| | `CacheIsHistory` | `Spec => []CacheTellsThePast` |
| `ContractsProofs` | `MultisigTypeCorrect` | `MultisigConstants /\ Spec => []TypeOK`, of the multisig contract |
| | `CountsAreApprovals` | `... => []CountMatchesApprovals` |
| | `PendingTransactionsCanPass` | `... => []PendingCanPass` |
| | `MultisigImplementsDecisions` | `... => ImplementsDecisions` |
| | `EachContractRuns` | `ContractsSpec` implements the specification of each contract |
| | `ContractsTypeCorrect` | `ContractsSpec => []StorageTypeOK` |
| | `ConfigStaysLast` | `ContractsSpec => []ConfigIsLastExecuted` |
| | `IndexStays` | `ContractsSpec => []IndexIsComplete` |
| | `WalletsStay` | `ContractsSpec => []WalletsAreIssued` |
| | `ResultsTell` | `ContractsSpec => []ResultsMatchEffect` |
| | `BatchesStayAtomic` | `ContractsSpec => BatchIsAtomic` |
| | `PagesAddUp` | `ContractsSpec => []PagingIsExact` |
| | `LastPageIsLast` | `ContractsSpec => DoneMeansAll` |
| `BackendProofs` | `EachPartRuns` | `BackendSpec` implements the specification of each part, without its fairness |
| | `BackendTypeCorrect` | `BackendSpec => []BackendTypeOK` |
| | `RowsAreTheirItems` | `BackendSpec => []RowsMatchItems` |
| | `PostersAreTold` | `BackendSpec => []AnswersTellRows` |
| | `PagesFollow` | `BackendSpec => []PagesAreExact` |
| | `ResponsesAreWhole` | `BackendSpec => []AnswersAreWhole` |
| | `HashesDecode` | `BackendSpec => []CellsHoldTheirPoints` |
| | `CallersStayKnown` | `BackendSpec => []CallersAreKnown` |
| | `ClientsAreClosed` | `BackendSpec => []ReplicasAreClosed` |
| `BrowserProofs` | `EachPageRuns` | `Spec` of `Browser` implements the specification of each part, without its fairness |
| | `LimitsAreKept` | `Spec => []LimitsHold` |
| | `SelectionsStay` | `Spec => []SelectionsExist` |
| | `NothingGoes` | `Spec => NothingIsLost`, fourteen action properties |
| `BrowserStateProofs` | `ShownStaysCurrent` | `Spec => []ShownIsCurrent` |
| | `BrowserTypes` | `Spec => []TypeOK` |
| | `CountsAgree` | `Spec => []CountsMatch`, eleven conjuncts of `FiguresAddUp` |

*Governance.* `TypeInv` adds to `TypeOK` that nothing is stored before initialization
and that the count stays below its bound; without the former, initialization would
reset a count that has proposals. `TallyInv` adds that an entry exists only for an
id in range and that an executed proposal's tally reached the required number.
`ExecutedIsBacked` is not inductive by itself: it needs the tally, the tally needs
`TalliesMatchVotes`, and that needs that nobody votes twice, which is the guard on
*any* entry, legacy ones included; the required number never changes after
initialization. A vote adds one account to a finite set it was not in, so cardinality
and counter move together (`FS_AddElement`); a migration only adds accounts
(`FS_Subset`). `DecisionInv` adds that the executed flags and the events agree, which
the refinement needs to show that every execution is a first decision. `ContentStays`
(no call changes what a proposal is) carries the index and the config values from
step to step; a new id is above every id listed (`CreateIndexes`), and an executed id
is in no earlier event, so that the newest event is the last for its key and
the other keys keep theirs (`ExecuteConfigures`).

*Multisig.* `CountInv` joins `TypeInv`, `CountMatchesApprovals`, `ThresholdFits` and
`EventsMatchFlags`. An approval adds one account to the approvers of one transaction
(`ApprovalAddsOne`). `ThresholdFits` says the threshold is at most the number of
signers *as a set*, while the code compares it with the length of a list; the two
agree because `validate_signer_config` refuses repeats (`DistinctSigners`, a
bijection between places and signers). `PendingCanPass` follows: all signers
together with the approvals already there reach the threshold. The
refinement maps approvals to the camp for a decision; `set_signers` is a stutter.

*Batch wallet.* The invariant `Sound` (ids held are exactly those handed out, each
once, none beyond the counter) is kept by every iteration (`CreationIsSound`,
`RecoveryIsSound`) for the working store *and* for the one a panic returns to.
`KeepsIssued` relates the two, so that a batch only ever adds; `BatchHasRoom` and
`NothingBeforeInitialize` keep the types. `OneMoreResult` moves the count of successes
with the counter of ids. `BatchIsAtomic` follows because only the step that
ends a call changes what others see.

*Gist editing.* A stored CID was pinned (`StoredArePinned`) because a request waits at
"store" only after a pin, and pinned content stays. What a request saw was once in the
row (`SeenWasShown`), so `previous_cid`, taken from what it saw, is history although the
row may have changed since. `WritesWereAllowed` carries the author of the check to the
write, though the write may come after the window. `PinnedAreOwned` says that all pinned
content beyond the posted one belongs to a request that passed its check; a refused one
therefore left nothing. `RequestSteps`, `PinnedSteps` and `RowSteps` reduce every action
to what it may do to one variable, so each invariant is proved from those three lemmas
instead of action by action.

*Cache.* Because a breaker runs a closure somebody else built, nothing can be said of
what is stored under a key from the key alone; the invariant says instead that every
value in reach is true of the tables (`IsSo`): a row or page not ahead of them, an
entry that is the answer its request was given. It holds of the store, of the
closures the breakers kept and of the results requests wait with (`StoreIsSound`,
`ClosuresAreSound`, `ResultsAreSound`), and stays true (`SoStays`) because versions
only grow (`TablesGrow`) and a request that is done stays as it is (`DoneStays`; for
this a read must never be awaited but at "got", which is part of `TypeInv`). Only a
request that finds its own method and path in the cache becomes a replay (`ReplayBegins`), and
at that await its handler has not run. The proofs use no fairness and hold
whatever Redis loses, delays or expires.

*Compositions.* A step of `Contracts` or `Backend` is a step of one part and a stutter
of the others (`StepsOfEach`, `PartsMove`), so every behaviour of the composition is one
of each part (`EachContractRuns`, `EachPartRuns`), and what is proved about a part on
its own holds in it. `WalletRuns` and `GovRuns` identify the two instances of a contract,
the one in `Contracts` and the one its proofs are about.

*Gist registry.* `ListGistsByCell` is a function defined by recursion on the gists left
to scan. That such a function exists, and that it returns the first `limit` gists of
the cell from the cursor on (`ScanExists`, `ScanIsPage`, `PageIsFirst`), is proved by
taking the least number of gists for which it would fail (`LeastNatural`).
`RegistryInv` says that a client holds, in ascending order, exactly the gists of its
cell below its cursor; a post gets an id above all cursors, so it changes no prefix
(`PostKeeps`), and a page continues the prefix it resumes (`ReadKeeps`,
`AscendingConcat`).

*Gist posting.* `PostIsSound` is about each item of a batch of any size: none leaves its
pin before all pins of the batch are done, and an item has its row from its insert
on and no sooner. From that "201" means that all rows are there and a failed pin that none is,
although the items run concurrently and the rest of the tree goes on after the answer.

*Paging.* `WalkIsSound` says that what has been shown is at or after the cursor, and that
what was there when the walk began has been shown, shares the millisecond of a cursor
it was passed by, or is older than the cursor. It needs that a page is cut at the right place
(`ResponseIsSound`), for the page in the cache too, which may be older than the table, and that a
cursor rounds down and never past a millisecond (`CursorRounds`, `MultiplesApart`).

*Compression.* `StreamInv` accounts for every chunk: what went out are the first chunks
in order, what zlib holds are the next, and together they are what the handler gave while
the socket is open. `ModeIsSound` ties the announced encoding and the missing length to
what the middleware chose.

*Geohash.* The invariant has a trail of cells, one for each bit written, each the half of
the one before (`IsTrail`), whose last is the encoder's box. A cell is as wide as the bits
to come make it (`BoxIsSound`, `HalfIsSound`), so it can be halved without remainder and
the place stays in it. A character holds its five bits (`BitsOfACharacter`), so `Decode`
follows the same trail (`DecodeFinds`), at any precision.

*CSRF and Stellar guards.* `CalmGate` says that as long as no two
requests without a cookie were under way together, none got lost and the cookie did not expire, there is one
secret, in the jar, in every token and in every request under way; then every post is let
in. `AuthInv` says that everything signed is in canonical form and that a verdict was
reached over exactly what was signed.

*Cache connections.* `CalmReplica`: without overlapping checks there is one check at a
time, the only open client is the one in use, and a check that quits a client quits
that one.

*Indexer.* `IndexInv` says that the cursor, the file and the maximum of every poll under
way are zero or no younger than some row (`BackedBy`). A poll raises its maximum only with
the row of the event it has upserted, rows are never taken away (`BackedStays`), and a torn
file holds a smaller number than the maximum it was of. So it survives any number of polls
at a time (`PollSteps`), failures and restarts. That an event has one row follows from the
unique index, without which only posts insert (`TableIsSound`).

*Browser.* A step is a step of one part (`PartsMove`), of one component within the
library (`KitMoves`) and of one hook around the charts (`DashMoves`), so `BrowserInv`
is a conjunction of invariants that are each kept on their own. The constants are
tied by the assumptions that `Browser` names, and by nothing else. `BrowserConstants` and
`EmptyIsTyped` say what the search index, the options, the commands, the tabs, tables and
shared canvases are, that a page of the table has rows, and that the lists the source
begins with fit. For what is shown, `EntriesAreListed` and `LabelsAreListed` say that the
source's lists are lists, `PagesAreThere` that what a search opens is a page, `NothingIsNoDate`
that an empty field is not a day. For the types, `BatchesAreCounted`, `LimitsAreCounted` and
`BoundsAreNumbers` say that numbers are numbers, and `MenuHasItems`, `TabsAreThere`, `TenthIsOffered`
and `BuilderIsMounted` that what the source draws first is there to be drawn. For the counts,
`ReportsAreShort` says that a page has fewer than 200 sections to print (no page of the
source carries the mark of one yet; with 200 the last but one would be told as a hundred percent), and
`NoneIsNotMade` that null is no picture.

* *Arrays.* `Lists` filters, concatenates and sorts by functions; that they exist and do
  what is expected of them is proved by the least length at which it would fail
  (`KeptFacts`, `JoinedElements`) or by counting the elements before each one
  (`RankedOnce`: every element of a finite ordered set is listed, once).
* *Bookmarks and notes.* Two tabs write the same storage. A step reads the stored list anew
  and changes that, so the invariant is about the stored list alone: within its limit,
  each id once and none above the counter, each entry named. Of what a tab shows it
  says only that it was made, for it may be long gone.
* *Reports, widgets, forms, slider.* A form lists each recipient and metric once whatever
  is typed (`KeptOnce`, `AppendOnce`); the feeds keep the newest by cutting, and the
  time of a player stays in its session; the marks of a slider are ordered because a fifth
  of its way rounded up to steps fits five times at most (`FifthFits`).
* *Search.* The results are ranked, cut and grouped by type. Each is listed once and has one of
  the four types, so the groups draw as many as there are (`GroupsDrawAll`: a list
  that hits every element of a set is as long as the set at least), and the place that
  is selected is one of them.
* *Commands.* The palette matches letter by letter, greedily. `FirstPlacesAreBest` shows that
  the greedy places are never behind those of any other embedding, so a command is
  listed exactly if it has the letters typed in their order (`FuzzyIsOrder`).
* *Choices.* Options, tabs and sections are taken from filtered lists, whose elements all
  are enabled (`FilteredAreOptions`); the arrows of the tabs stay within the enabled ones
  even when the active tab is not one of them, which JavaScript's remainder of a
  negative number could leave.
* *Table.* `PagesCover` is the arithmetic of the pager: the last page is where rows end,
  and each page begins before that. The pages cut the sorted rows at ascending places from
  none to all, so together they are the sorted rows (`PiecesMakeTheList`).
* *Regions, map, queries, messages.* The field that renames is filled only while the region
  selected is in the map's list, because an answer that takes the region empties it
  (`Refilled`). A post under way has its pending pin, and no other pin is pending. A
  filter's number is below the next one of its mount, unless it came from an earlier
  mount, and a mount numbers its queries by how many it handed over. A message shown
  has its timer.
* *Nothing is lost.* Each of the fourteen lists has a formula of what one step may do to it
  (`BookmarksGo`, `RegionsGo`, `RowsGo`, ...), proved from `BrowserInv` or from `KeptInv`,
  which says that lists are lists of what they hold and little more. What it adds: a change of
  a region is answered with the region it asked for, else an answer could rename one
  away; an export under way is as far as it wrote, so a chunk writes after it; a note
  stored was made, in this tab or in another, so an id never comes back; a
  segment's number is its place. A filter takes the elements it is told to and no other
  (`RemovedIds`, `UnplacedIds`), and at most one widget or note has the id (`AtMostOne`).
  A winner is declared on a statistic above zero, and where the statistic is
  above zero the rates differ, so one variant leads (`SignificantDiffers`). The
  embedded segment builder takes steps of the page's (`StepSegmenter`), which
  is the refinement `BuilderIsThePage`.
* *What is shown is current.* `CurrentInv` says of each page what its screen rests on. The
  results are those of the text unless a search is still due (`FoundInv`). While a map is
  calm it has one request at most and shows the table, or will once the answer to that
  request is applied (`CalmInv`; `After` is what an answer makes of a list). What is sorted
  lists the source's entries once each, ordered as the page's weights order them and, where
  those are equal, as the source does, so sorting it again gives the same list
  (`SortInv`, `Ahead`). Toasts rise in their numbers. Dates that are both in the address are
  those shown (`DatesInv`). The last preview under way is of the card as it stands
  (`PanelsInv`). And the panel differs from what is stored by no more than what another tab
  added or took (`ShownNotesInv`, `Differ`).
* *Types.* `TypesInv` adds what the types ask beyond those invariants: a counter keeps to its
  bound because the step that raises it asks for that (`CounterInv`, `NextInv`, `MountInv`,
  `RefreshesAreFew`), a share of rows written is at most a hundred because no more are
  written than there are (`ExportInv`), a cursor moved by the arrows stays among the entries
  listed however the list shrinks meanwhile (`KitInv`, `KeysKeepPlaces`), a segment's conditions
  are joined by one of the two words through every edit (`LogicInv`), and a run of the import that
  waits for an answer has an issue in hand (`ImportInv`).
* *Counts.* `MatchInv` adds what the counts ask beyond the types. The scripts keep one issue to a
  source because no two runs go on at a time and what is ahead of one is known to it if it was in
  the log when the run began (`OnceInv`); what a run has made, skipped and failed at, with what
  is ahead of it, is its range at every step, a crash between the issue and its line in the log
  included (`CountInv`). Pins told as delivered have ids of rows of the table, each its own
  (`DeliveredInv`, and the pins are as many as their ids). An export has written the rows of its
  click up to where it is, and its share is a hundred only where all are (`RowsInv`,
  `WholeIsAHundred`). The counter's list goes down by one from the gist counted last, wherever it
  is cut (`NewestInv`, `ListedIsChained`). Of less than 200 sections only all are told as a hundred
  percent (`WholeInv`, `HundredIsAll`). A picture fits the name it was begun with, whatever is
  chosen while it is made (`FitInv`). The pager's seven places are checked neighbour by neighbour
  (`SevenAscend`), and the statistic of two variants is the same from either side, grows as visits
  double and is zero where the rates are equal (`SignificanceIsFair`).

Only model-checked: liveness under fairness (`EveryRequestAnswered`,
`EveryoneIsAnswered`, `EveryWaitEnds`), which is beyond the provers at hand, and of the
browser's `FiguresAddUp` what `CountsMatch` leaves: the figures and summaries of the
pages, the grouped options of the select box, the documents of issues, and the counts of the panels. They
are sums, sorts and selections over lists, computed with the folds, `SortSeq` and `SelectSeq` of the
modules used, whose recursion takes an operator; these proofs do not reach it. Induction with a schema that takes an operator is
out of reach too; facts about recursive functions on naturals (the registry's scan, powers of
two, `Decode`, `Kept`, `Joined`, `Fuzzy`) are proved by a least counterexample instead.

## 5. What is not modelled

* Text: sanitising, error filters (`AllExceptionsFilter` is not registered), logging,
  OpenAPI. Health endpoints read the state of others.
* The database's schema and migrations, beyond the constraints that `GistPosting`,
  `GistEdit` and `Indexer` name; IPFS and Soroban themselves, which are taken as
  calls that succeed, fail or lose their answer.
* Opossum's statistics and half-open state, the sentinel URL, hit counters.
* `--dry-run` of the issue import; the drift remediation and the other shell scripts,
  which are calls to services whose state the repository does not hold.
* Landing pages, animation, the drawing of charts and of the map library; pages of
  the dashboard that only show a table (devices, network, moderation, forms,
  notifications, design system, benchmark, churn, cost, QA metrics, database); Modal,
  Switch, UserMenu, Sidebar, Alert, each with one boolean.
* The activity feed's interval of the collaboration page (page.tsx:105) never gets to
  fire because its effect is started anew too often; it is listed as a hazard, and
  no property says anything of it.
* `calcRiskScore`, `validateRange` and the words JavaScript objects inherit ("constructor") in
  sentiment.ts.
* Terraform, charts, manifests, workflows: configuration.

## 6. Plan

Done, in this order: `QuorumDecisions`, `Governance`, `Multisig`, `BatchWallet`,
`GistRegistry`, `GovernanceProofs`, `GistEdit`, `GistPosting`, `CachedApi`; then the rest
of the backend, the scripts, the map page and the dashboard; then the proofs about `Multisig`,
`BatchWalletProofs`, `GistEditProofs` and `CachedApiProofs`; then `Contracts` and
`Backend` as modules of their own with `ContractsProofs` and `BackendProofs`; then
`Browser` with `BrowserProofs` and `BrowserStateProofs`.

Worth doing next:

1. An abstract specification of the cache as a subset of past observations, which
   `CachedApi` implements, composed with `GistEdit` through the shared table.
2. The indexer with the real `getEventsSince`, once it exists and is mounted.

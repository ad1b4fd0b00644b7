---------------------------- MODULE BatchWallet ----------------------------
(***************************************************************************)
(* The on-chain batch wallet contract, contracts/batch-wallet/src/lib.rs.  *)
(*                                                                         *)
(* A batch call is a loop over its requests in which an early request      *)
(* changes what a later one finds, so the loop is modelled iteration by    *)
(* iteration: a Begin action, one action per request, End.  No other call  *)
(* runs meanwhile, and a panic part way through (an overflow) rolls the    *)
(* whole call back, which is the Panic action.                             *)
(***************************************************************************)
EXTENDS Integers, Sequences, FiniteSets

CONSTANTS
  Address,      \* accounts
  NoAddress,    \* value of an Admin entry that was never written
  NoWallet,     \* value of a Wallet entry that is not there
  CreateBatch,  \* request lists for batch_create_wallets (owners)
  RecoverBatch, \* request lists for batch_recover_wallets (<<old, new>>)
  U64Max,       \* largest u64: wallet ids and the two totals
  MaxTime       \* bound on the ledger clock of an instance

BatchWalletConstants ==
  /\ IsFiniteSet(Address)
  /\ NoAddress \notin Address
  /\ CreateBatch \subseteq Seq(Address)
  /\ RecoverBatch \subseteq Seq(Address \X Address)
  /\ U64Max \in Nat
  /\ MaxTime \in Nat
  /\ NoWallet \notin [id: 1..U64Max, owner: Address, createdAt: 0..MaxTime]

VARIABLES
  admin,   \* Admin
  store,   \* NextWalletId, TotalBatches, TotalWalletsCreated, Wallet(address)
  call,    \* the batch call in progress, or Idle
  now      \* the ledger timestamp

vars == <<admin, store, call, now>>

U64 == 0..U64Max
Wallet == [id: 1..U64Max, owner: Address, createdAt: 0..MaxTime]
Store == [nextWalletId: U64, totalBatches: U64, totalCreated: U64,
          wallet: [Address -> Wallet \cup {NoWallet}]]

\* Results are 0 for Success and the failure code otherwise.
Idle == [kind |-> "idle"]
Frame(kind, requests) ==
  [kind |-> kind, requests |-> requests, results |-> << >>, saved |-> store]

EmptyStore == [nextWalletId |-> 0, totalBatches |-> 0, totalCreated |-> 0,
               wallet |-> [a \in Address |-> NoWallet]]

Init ==
  /\ admin = NoAddress
  /\ store = EmptyStore
  /\ call = Idle
  /\ now = 0
-----------------------------------------------------------------------------
Initialize(a) ==
  /\ call = Idle
  /\ admin = NoAddress
  /\ admin' = a
  /\ store' = [store EXCEPT !.nextWalletId = 0, !.totalBatches = 0,
                            !.totalCreated = 0]
  /\ UNCHANGED <<call, now>>

IsAdmin(caller) == admin = caller /\ admin # NoAddress

SetAdmin(caller, newAdmin) ==
  /\ call = Idle
  /\ IsAdmin(caller)
  /\ admin' = newAdmin
  /\ UNCHANGED <<store, call, now>>

\* A call starts: admin only, EmptyBatch refused; the batch id it announces is
\* an addition the release profile checks for overflow.
Begin(kind, caller, requests) ==
  /\ call = Idle
  /\ IsAdmin(caller)
  /\ requests # << >>
  /\ store.totalBatches < U64Max
  /\ call' = Frame(kind, requests)
  /\ UNCHANGED <<admin, store, now>>

HasWallet(a) == store.wallet[a] # NoWallet

\* The request the loop is at, and its answer.
Current == call.requests[Len(call.results) + 1]
HasNext == call # Idle /\ Len(call.results) < Len(call.requests)
Answer(code) == call' = [call EXCEPT !.results = Append(@, code)]

\* seen_addresses: whatever an earlier request of this batch asked for, even
\* if it failed.
Seen(owner) == \E i \in 1..Len(call.results) : call.requests[i] = owner

\* The two checked additions a creation makes.
HasIdLeft == store.nextWalletId < U64Max /\ store.totalCreated < U64Max

\* next_wallet_id, the write of the wallet and increment_total_wallets_created.
FaultyWithWallet(owner) ==
  [store EXCEPT !.totalCreated = @ + 1,
                !.wallet[owner] = [id |-> store.nextWalletId + 1,
                                   owner |-> owner, createdAt |-> now]]
WithWallet(owner) ==
  [store EXCEPT !.nextWalletId = @ + 1, !.totalCreated = @ + 1,
                !.wallet[owner] = [id |-> store.nextWalletId + 1,
                                   owner |-> owner, createdAt |-> now]]

CreateOne ==
  LET owner == Current IN
  /\ HasNext /\ call.kind = "create"
  /\ \/ Seen(owner) /\ Answer(7) /\ UNCHANGED store
     \/ ~Seen(owner) /\ HasWallet(owner) /\ Answer(1) /\ UNCHANGED store
     \/ /\ ~Seen(owner) /\ ~HasWallet(owner)
        /\ HasIdLeft
        /\ store' = WithWallet(owner)
        /\ Answer(0)
  /\ UNCHANGED <<admin, now>>

\* The checks of a recovery, in order.  The third can never be the one that
\* decides: an old owner with a wallet is also a new owner with a wallet.
RecoveryCode(old, new) ==
  IF ~HasWallet(old) THEN 1
  ELSE IF HasWallet(new) THEN 2
  ELSE IF old = new THEN 3
  ELSE 0

\* The wallet moves with its id and its creation time.
FaultyMoved(old, new) ==
  [store EXCEPT !.wallet[new] = [store.wallet[old] EXCEPT !.owner = new]]
Moved(old, new) ==
  [store EXCEPT !.wallet = [@ EXCEPT
     ![old] = NoWallet,
     ![new] = [store.wallet[old] EXCEPT !.owner = new]]]

RecoverOne ==
  LET old == Current[1]  new == Current[2]  code == RecoveryCode(old, new) IN
  /\ HasNext /\ call.kind = "recover"
  /\ Answer(code)
  /\ store' = IF code = 0 THEN Moved(old, new) ELSE store
  /\ UNCHANGED <<admin, now>>

\* increment_total_batches, and the call returns.
End ==
  /\ call # Idle /\ ~HasNext
  /\ store' = [store EXCEPT !.totalBatches = @ + 1]
  /\ call' = Idle
  /\ UNCHANGED <<admin, now>>

\* A checked_add overflows and the host undoes the call: the id or the total
\* the request needs is past the last u64.
FaultyRolledBack == store
RolledBack == call.saved
Panic ==
  /\ HasNext /\ call.kind = "create"
  /\ ~Seen(Current) /\ ~HasWallet(Current)
  /\ ~HasIdLeft
  /\ store' = RolledBack
  /\ call' = Idle
  /\ UNCHANGED <<admin, now>>

Tick ==
  /\ call = Idle
  /\ now < MaxTime
  /\ now' = now + 1
  /\ UNCHANGED <<admin, store, call>>

Next ==
  \/ \E a \in Address : Initialize(a)
  \/ \E a, b \in Address : SetAdmin(a, b)
  \/ \E a \in Address, r \in CreateBatch : Begin("create", a, r)
  \/ \E a \in Address, r \in RecoverBatch : Begin("recover", a, r)
  \/ CreateOne
  \/ RecoverOne
  \/ End
  \/ Panic
  \/ Tick

Spec == Init /\ [][Next]_vars
-----------------------------------------------------------------------------
\* The store and the frame of the running call have their types.
TypeOK ==
  /\ admin \in Address \cup {NoAddress}
  /\ store \in Store
  /\ now \in 0..MaxTime
  /\ \/ call = Idle
     \/ /\ call \in [kind: {"create", "recover"},
                     requests: CreateBatch \cup RecoverBatch,
                     results: Seq({0, 1, 2, 3, 7}), saved: Store]
        /\ call.kind = "create" => call.requests \in CreateBatch
        /\ call.kind = "recover" => call.requests \in RecoverBatch
        /\ Len(call.results) <= Len(call.requests)

\* Through every prefix of every batch, chains of recoveries included, a wallet
\* id belongs to exactly one address, no id is lost or reused, and a wallet
\* names the address it is stored under.
Held == {a \in Address : HasWallet(a)}
WalletsAreIssued ==
  /\ \A a \in Held : store.wallet[a].owner = a
  /\ \A a, b \in Held : store.wallet[a].id = store.wallet[b].id => a = b
  /\ {store.wallet[a].id : a \in Held} = 1..store.nextWalletId
  /\ store.totalCreated = store.nextWalletId

\* What a caller outside the running call can see.
Committed == IF call = Idle THEN store ELSE call.saved

\* A batch call takes effect as a whole: what others see changes only when it
\* returns, by one batch, and the wallets issued so far keep their ids and
\* creation times whoever holds them; a call that panics leaves no trace.
Issued(s) == {[id |-> s.wallet[a].id, createdAt |-> s.wallet[a].createdAt] :
                a \in {b \in Address : s.wallet[b] # NoWallet}}
BatchIsAtomic ==
  [][Committed' # Committed =>
       /\ call # Idle /\ call' = Idle
       /\ Committed'.totalBatches = Committed.totalBatches + 1
       /\ Issued(Committed) \subseteq Issued(Committed')]_vars

\* The results handed back agree with the effect: as many wallets were issued
\* since the call began as it reports successes, and a recovery issues none.
Successes == {i \in DOMAIN call.results : call.results[i] = 0}
ResultsMatchEffect ==
  call # Idle =>
    store.nextWalletId - call.saved.nextWalletId =
      IF call.kind = "create" THEN Cardinality(Successes) ELSE 0
=============================================================================

-------------------------- MODULE BatchWalletProofs --------------------------
(***************************************************************************)
(* Proofs about BatchWallet, for every set of accounts and every batch of  *)
(* requests, whatever it repeats, chains or swaps.                         *)
(***************************************************************************)
EXTENDS BatchWallet, FiniteSetTheorems, SequenceTheorems, TLAPS

\* initialize resets the counters of a contract that has issued nothing.
NothingBeforeInitialize ==
  admin = NoAddress =>
    /\ call = Idle /\ store.nextWalletId = 0
    /\ store.totalCreated = 0 /\ store.totalBatches = 0
    /\ \A a \in Address : store.wallet[a] = NoWallet

\* The batch under way has the number Begin found room for.
BatchHasRoom ==
  call # Idle =>
    /\ store.totalBatches < U64Max
    /\ store.totalBatches = call.saved.totalBatches

Frames == [kind: {"create", "recover"}, requests: CreateBatch \cup RecoverBatch,
           results: Seq({0, 1, 2, 3, 7}), saved: Store]
IsFrame(c) == /\ c \in Frames
              /\ c.kind = "create" => c.requests \in CreateBatch
              /\ c.kind = "recover" => c.requests \in RecoverBatch
              /\ Len(c.results) <= Len(c.requests)

TypeInv == BatchWalletConstants /\ TypeOK /\ NothingBeforeInitialize /\ BatchHasRoom
-----------------------------------------------------------------------------
LEMMA InitTypeInv == BatchWalletConstants /\ Init => TypeInv
<1> SUFFICES ASSUME BatchWalletConstants, Init PROVE TypeInv
  OBVIOUS
<1>1. EmptyStore \in Store
  BY DEF EmptyStore, Store, U64, BatchWalletConstants
<1>2. NothingBeforeInitialize /\ BatchHasRoom
  BY DEF Init, EmptyStore, NothingBeforeInitialize, BatchHasRoom
<1> QED BY <1>1, <1>2 DEF Init, TypeInv, TypeOK, BatchWalletConstants

LEMMA CallIsFrame == ASSUME TypeOK, call # Idle PROVE IsFrame(call) /\ call.saved \in Store
BY DEF TypeOK, IsFrame, Frames

\* The request the loop is at is one of the batch.
LEMMA CurrentIsRequest ==
  ASSUME TypeInv, HasNext
  PROVE  /\ call.kind = "create" => Current \in Address
         /\ call.kind = "recover" => Current \in Address \X Address
         /\ Len(call.results) \in Nat
<1>1. IsFrame(call)
  BY CallIsFrame DEF TypeInv, HasNext
<1>2. /\ Len(call.results) \in Nat /\ Len(call.results) < Len(call.requests)
  BY <1>1 DEF IsFrame, Frames, HasNext
<1>3. CASE call.kind = "create"
  <2>1. call.requests \in Seq(Address)
    BY <1>1, <1>3 DEF IsFrame, TypeInv, BatchWalletConstants
  <2> QED BY <1>2, <1>3, <2>1 DEF Current
<1>4. CASE call.kind = "recover"
  <2>1. call.requests \in Seq(Address \X Address)
    BY <1>1, <1>4 DEF IsFrame, TypeInv, BatchWalletConstants
  <2> QED BY <1>2, <1>4, <2>1 DEF Current
<1> QED BY <1>1, <1>2, <1>3, <1>4 DEF IsFrame, Frames

\* An answer extends the results of the frame and nothing else.
LEMMA AnswerExtends ==
  ASSUME TypeInv, HasNext, NEW code \in {0, 1, 2, 3, 7}, Answer(code)
  PROVE  /\ call' # Idle /\ IsFrame(call')
         /\ call'.kind = call.kind /\ call'.saved = call.saved
         /\ call'.results = Append(call.results, code)
<1>1. IsFrame(call) /\ call \in Frames
  BY CallIsFrame DEF TypeInv, HasNext, IsFrame
<1>2. call' = [call EXCEPT !.results = Append(call.results, code)]
  BY DEF Answer
<1>3. /\ call'.kind = call.kind /\ call'.saved = call.saved
      /\ call'.requests = call.requests /\ call'.results = Append(call.results, code)
      /\ call' \in Frames
  <2> DEFINE more == Append(call.results, code)
  <2>1. call.results \in Seq({0, 1, 2, 3, 7})
    BY <1>1 DEF Frames
  <2>2. more \in Seq({0, 1, 2, 3, 7})
    BY <2>1, AppendProperties
  <2>3. call' = [call EXCEPT !.results = more]
    BY <1>2
  <2> HIDE DEF more
  <2>4. /\ call'.kind = call.kind /\ call'.saved = call.saved
        /\ call'.requests = call.requests /\ call'.results = more
        /\ call' \in Frames
    BY <1>1, <2>2, <2>3 DEF Frames
  <2> QED BY <2>4 DEF more
<1>4. Len(call'.results) <= Len(call'.requests)
  <2>1. call.results \in Seq({0, 1, 2, 3, 7}) /\ Len(call.requests) \in Nat
    BY <1>1 DEF IsFrame, Frames, TypeInv, BatchWalletConstants
  <2>2. Len(call.results) < Len(call.requests) /\ Len(call'.results) = Len(call.results) + 1
    BY <1>3, <2>1 DEF HasNext
  <2> QED BY <1>3, <2>1, <2>2
<1>5. call' # Idle
  BY <1>3 DEF Frames, Idle
<1> QED BY <1>1, <1>3, <1>4, <1>5 DEF IsFrame

\* What the three kinds of write do to the store.
LEMMA CreationStores ==
  ASSUME TypeInv, NEW a \in Address, HasIdLeft
  PROVE  /\ WithWallet(a) \in Store
         /\ WithWallet(a).nextWalletId = store.nextWalletId + 1
         /\ WithWallet(a).totalCreated = store.totalCreated + 1
         /\ WithWallet(a).totalBatches = store.totalBatches
         /\ WithWallet(a).wallet = [store.wallet EXCEPT ![a] =
              [id |-> store.nextWalletId + 1, owner |-> a, createdAt |-> now]]
<1>1. /\ store \in Store /\ now \in 0..MaxTime /\ U64Max \in Nat /\ MaxTime \in Nat
      /\ store.nextWalletId \in Nat /\ store.totalCreated \in Nat
      /\ store.nextWalletId < U64Max /\ store.totalCreated < U64Max
      /\ store.wallet \in [Address -> Wallet \cup {NoWallet}]
  BY DEF TypeInv, TypeOK, BatchWalletConstants, Store, U64, HasIdLeft
<1> DEFINE w == [id |-> store.nextWalletId + 1, owner |-> a, createdAt |-> now]
<1>2. w \in Wallet
  BY <1>1 DEF Wallet
<1>3. WithWallet(a) = [store EXCEPT !.nextWalletId = @ + 1, !.totalCreated = @ + 1,
                                    !.wallet = [store.wallet EXCEPT ![a] = w]]
  BY <1>1 DEF WithWallet, Store
<1> HIDE DEF w
<1>4. [store.wallet EXCEPT ![a] = w] \in [Address -> Wallet \cup {NoWallet}]
  BY <1>1, <1>2
<1>5. WithWallet(a) \in Store
  <2>1. store.nextWalletId + 1 \in U64 /\ store.totalCreated + 1 \in U64
    BY <1>1 DEF U64
  <2> QED BY <1>1, <1>3, <1>4, <2>1 DEF Store
<1> QED BY <1>1, <1>3, <1>5 DEF Store, w

LEMMA RecoveryStores ==
  ASSUME TypeInv, NEW old \in Address, NEW new \in Address, RecoveryCode(old, new) = 0
  PROVE  /\ Moved(old, new) \in Store
         /\ Moved(old, new).nextWalletId = store.nextWalletId
         /\ Moved(old, new).totalCreated = store.totalCreated
         /\ Moved(old, new).totalBatches = store.totalBatches
         /\ store.wallet[old] # NoWallet /\ store.wallet[new] = NoWallet /\ old # new
         /\ Moved(old, new).wallet =
              [store.wallet EXCEPT ![old] = NoWallet,
                                   ![new] = [store.wallet[old] EXCEPT !.owner = new]]
<1>1. store \in Store /\ store.wallet \in [Address -> Wallet \cup {NoWallet}]
  BY DEF TypeInv, TypeOK, Store
<1>2. store.wallet[old] # NoWallet /\ store.wallet[new] = NoWallet /\ old # new
  BY DEF RecoveryCode, HasWallet
<1>3. [store.wallet[old] EXCEPT !.owner = new] \in Wallet
  BY <1>1, <1>2 DEF Wallet
<1> DEFINE moved == [store.wallet EXCEPT ![old] = NoWallet,
                             ![new] = [store.wallet[old] EXCEPT !.owner = new]]
<1>4. moved \in [Address -> Wallet \cup {NoWallet}]
  BY <1>1, <1>3
<1>5. Moved(old, new) = [store EXCEPT !.wallet = moved]
  BY DEF Moved
<1> HIDE DEF moved
<1> QED BY <1>1, <1>2, <1>4, <1>5 DEF Store, moved

LEMMA StepTypeInv == TypeInv /\ [Next]_vars => TypeInv'
<1> SUFFICES ASSUME TypeInv, [Next]_vars PROVE TypeInv'
  OBVIOUS
<1>const. BatchWalletConstants /\ BatchWalletConstants' /\ MaxTime \in Nat /\ U64Max \in Nat
  BY DEF TypeInv, BatchWalletConstants
<1>store. /\ store \in Store
          /\ store.nextWalletId \in U64 /\ store.totalBatches \in U64
          /\ store.totalCreated \in U64
          /\ store.wallet \in [Address -> Wallet \cup {NoWallet}]
  BY DEF TypeInv, TypeOK, Store
\* A call that goes on is a frame; it is enough to follow the store.
<1>frame. ASSUME call' # Idle, IsFrame(call'), UNCHANGED <<admin, now>>, admin # NoAddress,
                 store' \in Store, BatchHasRoom'
          PROVE  TypeInv'
  BY <1>const, <1>frame DEF TypeInv, TypeOK, NothingBeforeInitialize, IsFrame, Frames
<1>idle. ASSUME call' = Idle, store' \in Store, admin' \in Address, now' \in 0..MaxTime
         PROVE  TypeInv'
  BY <1>const, <1>idle DEF TypeInv, TypeOK, NothingBeforeInitialize, BatchHasRoom,
                           BatchWalletConstants
<1>1. ASSUME NEW a \in Address, Initialize(a) PROVE TypeInv'
  <2>1. store' \in Store
    <3>1. 0 \in U64
      BY <1>const DEF U64
    <3> QED BY <1>1, <1>store, <3>1 DEF Initialize, Store
  <2> QED BY <1>1, <1>idle, <2>1 DEF Initialize, TypeInv, TypeOK
<1>2. ASSUME NEW a \in Address, NEW b \in Address, SetAdmin(a, b) PROVE TypeInv'
  BY <1>2, <1>idle, <1>store DEF SetAdmin, TypeInv, TypeOK
<1>3. ASSUME NEW kind \in {"create", "recover"}, NEW a \in Address, NEW list,
             kind = "create" => list \in CreateBatch,
             kind = "recover" => list \in RecoverBatch, Begin(kind, a, list)
      PROVE  TypeInv'
  <2>1. /\ admin # NoAddress /\ UNCHANGED <<admin, store, now>>
        /\ call' = [kind |-> kind, requests |-> list, results |-> << >>, saved |-> store]
        /\ store.totalBatches < U64Max
    BY <1>3 DEF Begin, IsAdmin, Frame
  <2>2. call' # Idle
    BY <2>1 DEF Idle
  <2>3. Len(list) \in Nat
    BY <1>const, <1>3 DEF BatchWalletConstants
  <2>4. IsFrame(call')
    BY <1>store, <1>3, <2>1, <2>3 DEF IsFrame, Frames
  <2>5. BatchHasRoom'
    BY <2>1 DEF BatchHasRoom
  <2> QED BY <1>frame, <1>store, <2>1, <2>2, <2>4, <2>5
<1>going. call # Idle => admin # NoAddress /\ BatchHasRoom
  BY DEF TypeInv, NothingBeforeInitialize
<1>4. CASE CreateOne
  <2>1. HasNext /\ call # Idle /\ UNCHANGED <<admin, now>> /\ Current \in Address
    BY <1>4, CurrentIsRequest DEF CreateOne, HasNext
  <2>2. PICK code \in {0, 1, 2, 3, 7} : Answer(code)
    BY <1>4 DEF CreateOne
  <2>3. UNCHANGED store \/ (HasIdLeft /\ store' = WithWallet(Current))
    BY <1>4 DEF CreateOne
  <2>4. store' \in Store /\ store'.totalBatches = store.totalBatches
    BY <1>store, <2>1, <2>3, CreationStores
  <2>5. call' # Idle /\ IsFrame(call') /\ call'.saved = call.saved
    BY <2>1, <2>2, AnswerExtends
  <2> QED BY <1>frame, <1>going, <2>1, <2>4, <2>5 DEF BatchHasRoom
<1>5. CASE RecoverOne
  <2> DEFINE old == Current[1]
             new == Current[2]
  <2>1. /\ HasNext /\ call # Idle /\ UNCHANGED <<admin, now>>
        /\ old \in Address /\ new \in Address
    BY <1>5, CurrentIsRequest DEF RecoverOne, HasNext
  <2>2. RecoveryCode(old, new) \in {0, 1, 2, 3, 7} /\ Answer(RecoveryCode(old, new))
    BY <1>5 DEF RecoverOne, RecoveryCode
  <2>3. UNCHANGED store \/ (RecoveryCode(old, new) = 0 /\ store' = Moved(old, new))
    BY <1>5 DEF RecoverOne
  <2> HIDE DEF old, new
  <2>4. store' \in Store /\ store'.totalBatches = store.totalBatches
    <3>1. RecoveryCode(old, new) = 0 =>
            Moved(old, new) \in Store /\ Moved(old, new).totalBatches = store.totalBatches
      BY <2>1, RecoveryStores
    <3> QED BY <1>store, <2>3, <3>1
  <2>5. call' # Idle /\ IsFrame(call') /\ call'.saved = call.saved
    BY <2>1, <2>2, AnswerExtends
  <2> QED BY <1>frame, <1>going, <2>1, <2>4, <2>5 DEF BatchHasRoom
<1>6. CASE End
  <2>1. /\ call # Idle /\ call' = Idle /\ UNCHANGED <<admin, now>>
        /\ store' = [store EXCEPT !.totalBatches = @ + 1]
    BY <1>6 DEF End
  <2>2. store.totalBatches + 1 \in U64
    BY <1>going, <1>const, <1>store, <2>1 DEF BatchHasRoom, U64
  <2>3. store' \in Store
    BY <1>store, <2>1, <2>2 DEF Store
  <2> QED BY <1>idle, <1>going, <2>1, <2>3 DEF TypeInv, TypeOK
<1>7. CASE Panic
  <2>1. /\ call # Idle /\ call' = Idle /\ UNCHANGED <<admin, now>>
        /\ store' = call.saved
    BY <1>7 DEF Panic, HasNext, RolledBack
  <2>2. store' \in Store
    BY <2>1, CallIsFrame DEF TypeInv
  <2> QED BY <1>idle, <1>going, <2>1, <2>2 DEF TypeInv, TypeOK
<1>8. CASE Tick
  <2>1. now' \in 0..MaxTime
    BY <1>8, <1>const DEF Tick, TypeInv, TypeOK
  <2> QED BY <1>8, <1>const, <2>1
          DEF Tick, TypeInv, TypeOK, NothingBeforeInitialize, BatchHasRoom
<1>9. CASE UNCHANGED vars
  BY <1>9, <1>const DEF vars, TypeInv, TypeOK, NothingBeforeInitialize, BatchHasRoom
<1> QED BY <1>1, <1>2, <1>3, <1>4, <1>5, <1>6, <1>7, <1>8, <1>9 DEF Next

\* Type correctness: ids and totals stay within a u64, the count of batches
\* included, which End adds to without asking again.
THEOREM WalletTypeCorrect == BatchWalletConstants /\ Spec => []TypeOK
<1>1. TypeInv => TypeOK
  BY DEF TypeInv
<1> QED BY InitTypeInv, StepTypeInv, <1>1, PTL DEF Spec
-----------------------------------------------------------------------------
\* WalletsAreIssued of any store, the one a panic goes back to among them.
Holders(s) == {a \in Address : s.wallet[a] # NoWallet}
Sound(s) ==
  /\ \A a \in Holders(s) : s.wallet[a].owner = a
  /\ \A a, b \in Holders(s) : s.wallet[a].id = s.wallet[b].id => a = b
  /\ {s.wallet[a].id : a \in Holders(s)} = 1..s.nextWalletId
  /\ s.totalCreated = s.nextWalletId

\* While a batch runs, what it found is still there, under the same id and time.
KeepsIssued == call # Idle => Issued(call.saved) \subseteq Issued(store)

WalletInv ==
  /\ TypeInv /\ Sound(store) /\ (call # Idle => Sound(call.saved))
  /\ KeepsIssued /\ ResultsMatchEffect

\* The holders of wallets that have these ids and times, pairwise.
LEMMA IssuedMembers ==
  ASSUME NEW s, NEW x
  PROVE  x \in Issued(s) <=>
           \E a \in Holders(s) :
             x = [id |-> s.wallet[a].id, createdAt |-> s.wallet[a].createdAt]
BY DEF Issued, Holders

LEMMA CreationIsSound ==
  ASSUME TypeInv, Sound(store), NEW a \in Address, HasIdLeft, ~HasWallet(a)
  PROVE  Sound(WithWallet(a)) /\ Issued(store) \subseteq Issued(WithWallet(a))
<1> DEFINE n == store.nextWalletId
           w == [id |-> n + 1, owner |-> a, createdAt |-> now]
           s == WithWallet(a)
<1>1. /\ store.wallet \in [Address -> Wallet \cup {NoWallet}] /\ n \in Nat
      /\ NoWallet \notin Wallet /\ w \in Wallet
  BY DEF TypeInv, TypeOK, Store, U64, BatchWalletConstants, Wallet, HasIdLeft
<1>2. /\ s.nextWalletId = n + 1 /\ s.totalCreated = store.totalCreated + 1
      /\ s.wallet = [store.wallet EXCEPT ![a] = w]
  BY CreationStores
<1>3. w.id = n + 1 /\ w.owner = a /\ w # NoWallet
  BY <1>1
<1> HIDE DEF w, s
<1>4. a \notin Holders(store) /\ Holders(s) = Holders(store) \cup {a}
  BY <1>1, <1>2, <1>3 DEF Holders, HasWallet
<1>5. s.wallet[a] = w /\ \A b \in Holders(store) : s.wallet[b] = store.wallet[b]
  BY <1>1, <1>2, <1>4 DEF Holders
<1>6. {store.wallet[b].id : b \in Holders(store)} = 1..n
  BY DEF Sound
<1>7. \A b \in Holders(store) : store.wallet[b].id \in 1..n
  BY <1>6
<1>8. \A b \in Holders(s) : s.wallet[b].owner = b
  BY <1>3, <1>4, <1>5 DEF Sound
<1>9. \A b, c \in Holders(s) : s.wallet[b].id = s.wallet[c].id => b = c
  <2> SUFFICES ASSUME NEW b \in Holders(s), NEW c \in Holders(s),
                      s.wallet[b].id = s.wallet[c].id
               PROVE  b = c
    OBVIOUS
  <2>1. ASSUME NEW d \in Holders(store) PROVE s.wallet[d].id # n + 1
    BY <1>1, <1>5, <1>7, <2>1
  <2>2. CASE b = a \/ c = a
    BY <1>3, <1>4, <1>5, <2>1, <2>2
  <2>3. CASE b # a /\ c # a
    BY <1>4, <1>5, <2>3 DEF Sound
  <2> QED BY <2>2, <2>3
<1>10. {s.wallet[b].id : b \in Holders(s)} = 1..(n + 1)
  <2>1. {s.wallet[b].id : b \in Holders(s)} =
          {store.wallet[b].id : b \in Holders(store)} \cup {n + 1}
    BY <1>3, <1>4, <1>5
  <2>2. (1..n) \cup {n + 1} = 1..(n + 1)
    BY <1>1
  <2> QED BY <1>6, <2>1, <2>2
<1>11. s.totalCreated = s.nextWalletId
  BY <1>2 DEF Sound
<1>12. Sound(s)
  BY <1>2, <1>8, <1>9, <1>10, <1>11 DEF Sound
<1>13. Issued(store) \subseteq Issued(s)
  <2> SUFFICES ASSUME NEW x \in Issued(store) PROVE x \in Issued(s)
    OBVIOUS
  <2>1. PICK b \in Holders(store) :
          x = [id |-> store.wallet[b].id, createdAt |-> store.wallet[b].createdAt]
    BY IssuedMembers
  <2> QED BY <1>4, <1>5, <2>1, IssuedMembers
<1> QED BY <1>12, <1>13 DEF s

LEMMA RecoveryIsSound ==
  ASSUME TypeInv, Sound(store), NEW old \in Address, NEW new \in Address,
         RecoveryCode(old, new) = 0
  PROVE  Sound(Moved(old, new)) /\ Issued(store) \subseteq Issued(Moved(old, new))
<1> DEFINE w == [store.wallet[old] EXCEPT !.owner = new]
           s == Moved(old, new)
<1>1. /\ store.wallet \in [Address -> Wallet \cup {NoWallet}]
      /\ NoWallet \notin Wallet
  BY DEF TypeInv, TypeOK, Store, BatchWalletConstants, Wallet
<1>2. /\ s.nextWalletId = store.nextWalletId /\ s.totalCreated = store.totalCreated
      /\ store.wallet[old] # NoWallet /\ store.wallet[new] = NoWallet /\ old # new
      /\ s.wallet = [store.wallet EXCEPT ![old] = NoWallet, ![new] = w]
  BY RecoveryStores
<1>3. /\ w \in Wallet /\ w # NoWallet /\ w.owner = new
      /\ w.id = store.wallet[old].id /\ w.createdAt = store.wallet[old].createdAt
  <2>1. store.wallet[old] \in Wallet
    BY <1>1, <1>2
  <2> QED BY <1>1, <2>1 DEF Wallet
<1> HIDE DEF w, s
<1>4. /\ s.wallet[new] = w /\ s.wallet[old] = NoWallet
      /\ \A b \in Address \ {old, new} : s.wallet[b] = store.wallet[b]
  BY <1>1, <1>2
<1>5. /\ old \in Holders(store) /\ new \notin Holders(store)
      /\ Holders(s) = (Holders(store) \ {old}) \cup {new}
      /\ \A b \in Holders(store) \ {old} : s.wallet[b] = store.wallet[b]
  BY <1>2, <1>3, <1>4 DEF Holders
<1>6. \A b \in Holders(s) : s.wallet[b].owner = b
  BY <1>3, <1>4, <1>5 DEF Sound
<1>7. \A b, c \in Holders(s) : s.wallet[b].id = s.wallet[c].id => b = c
  <2> SUFFICES ASSUME NEW b \in Holders(s), NEW c \in Holders(s),
                      s.wallet[b].id = s.wallet[c].id
               PROVE  b = c
    OBVIOUS
  <2>1. ASSUME NEW d \in Holders(store) \ {old} PROVE s.wallet[d].id # w.id
    BY <1>3, <1>5, <2>1 DEF Sound
  <2>2. CASE b = new \/ c = new
    BY <1>4, <1>5, <2>1, <2>2
  <2>3. CASE b # new /\ c # new
    BY <1>5, <2>3 DEF Sound
  <2> QED BY <2>2, <2>3
<1>8. {s.wallet[b].id : b \in Holders(s)} = {store.wallet[b].id : b \in Holders(store)}
  BY <1>3, <1>4, <1>5
<1>9. Sound(s)
  BY <1>2, <1>6, <1>7, <1>8 DEF Sound
<1>10. Issued(store) \subseteq Issued(s)
  <2> SUFFICES ASSUME NEW x \in Issued(store) PROVE x \in Issued(s)
    OBVIOUS
  <2>1. PICK b \in Holders(store) :
          x = [id |-> store.wallet[b].id, createdAt |-> store.wallet[b].createdAt]
    BY IssuedMembers
  <2>2. CASE b = old
    BY <1>3, <1>4, <1>5, <2>1, <2>2, IssuedMembers
  <2>3. CASE b # old
    BY <1>5, <2>1, <2>3, IssuedMembers
  <2> QED BY <2>2, <2>3
<1> QED BY <1>9, <1>10 DEF s

\* One more answer is one more success exactly when the answer is Success.
LEMMA OneMoreResult ==
  ASSUME TypeInv, HasNext, NEW code \in {0, 1, 2, 3, 7}, Answer(code)
  PROVE  /\ Cardinality(Successes) \in Nat
         /\ Cardinality(Successes)' = Cardinality(Successes) + (IF code = 0 THEN 1 ELSE 0)
<1> DEFINE results == call.results
           n == Len(results)
<1>1. results \in Seq({0, 1, 2, 3, 7}) /\ call'.results = Append(results, code)
  BY AnswerExtends, CallIsFrame DEF TypeInv, HasNext, IsFrame, Frames
<1>2. n \in Nat /\ DOMAIN results = 1..n /\ DOMAIN call'.results = 1..(n + 1)
  BY <1>1
<1>3. call'.results[n + 1] = code /\ \A i \in 1..n : call'.results[i] = results[i]
  BY <1>1
<1>4. /\ Successes = {i \in 1..n : results[i] = 0}
      /\ Successes' = {i \in 1..(n + 1) : call'.results[i] = 0}
  BY <1>2 DEF Successes
<1> HIDE DEF results, n
<1>5. Successes' = IF code = 0 THEN Successes \cup {n + 1} ELSE Successes
  BY <1>2, <1>3, <1>4
<1>6. n + 1 \notin Successes /\ Successes \in SUBSET (1..n)
  BY <1>2, <1>4
<1>7. IsFiniteSet(Successes) /\ Cardinality(Successes) \in Nat
  <2>1. IsFiniteSet(1..n)
    BY <1>2, FS_Interval
  <2>2. IsFiniteSet(Successes)
    BY <1>6, <2>1, FS_Subset
  <2> QED BY <2>2, FS_CardinalityType
<1>8. CASE code = 0
  <2>1. Cardinality(Successes \cup {n + 1}) = Cardinality(Successes) + 1
    BY <1>6, <1>7, FS_AddElement
  <2> QED BY <1>5, <1>7, <1>8, <2>1
<1>9. CASE code # 0
  BY <1>5, <1>7, <1>9
<1> QED BY <1>8, <1>9

LEMMA InitWalletInv == BatchWalletConstants /\ Init => WalletInv
<1> SUFFICES ASSUME BatchWalletConstants, Init PROVE WalletInv
  OBVIOUS
<1>1. /\ call = Idle /\ store.nextWalletId = 0 /\ store.totalCreated = 0
      /\ \A a \in Address : store.wallet[a] = NoWallet
  BY DEF Init, EmptyStore
<1>2. Holders(store) = {} /\ 1..0 = {}
  BY <1>1 DEF Holders
<1>3. Sound(store)
  BY <1>1, <1>2 DEF Sound
<1> QED BY <1>1, <1>3, InitTypeInv DEF WalletInv, KeepsIssued, ResultsMatchEffect

\* Two stores with the same wallets and ids are sound, and have issued the same.
LEMMA SameWallets ==
  ASSUME NEW s, NEW t, t.wallet = s.wallet, t.nextWalletId = s.nextWalletId,
         t.totalCreated = s.totalCreated
  PROVE  (Sound(s) => Sound(t)) /\ Issued(t) = Issued(s)
BY DEF Sound, Holders, Issued

\* What every step does: nothing, begin, one request, or the end in a store
\* with the same wallets or in the one saved.
LEMMA StepWalletInv == WalletInv /\ [Next]_vars => WalletInv'
<1> SUFFICES ASSUME WalletInv, [Next]_vars
             PROVE  /\ Sound(store)' /\ (call' # Idle => Sound(call.saved)')
                    /\ KeepsIssued' /\ ResultsMatchEffect'
  BY StepTypeInv DEF WalletInv
<1>typed. /\ TypeInv /\ Sound(store)
          /\ call # Idle => Sound(call.saved) /\ Issued(call.saved) \subseteq Issued(store)
          /\ store \in Store /\ store.nextWalletId \in Nat
  BY DEF WalletInv, KeepsIssued, TypeInv, TypeOK, Store, U64, BatchWalletConstants
<1>idle. ASSUME call' = Idle, Sound(store')
         PROVE  /\ Sound(store)' /\ (call' # Idle => Sound(call.saved)')
                /\ KeepsIssued' /\ ResultsMatchEffect'
  BY <1>idle DEF KeepsIssued, ResultsMatchEffect, Sound, Holders
<1>1. ASSUME NEW a \in Address, Initialize(a) PROVE call' = Idle /\ Sound(store')
  <2>1. /\ call' = Idle /\ admin = NoAddress
        /\ store' = [store EXCEPT !.nextWalletId = 0, !.totalBatches = 0, !.totalCreated = 0]
    BY <1>1 DEF Initialize
  <2>2. /\ store'.wallet = store.wallet /\ store'.nextWalletId = store.nextWalletId
        /\ store'.totalCreated = store.totalCreated
    BY <1>typed, <2>1 DEF TypeInv, NothingBeforeInitialize, Store
  <2> HIDE DEF Sound
  <2> QED BY <1>typed, <2>1, <2>2, SameWallets
<1>2. ASSUME NEW a \in Address, NEW b \in Address, SetAdmin(a, b)
      PROVE  call' = Idle /\ Sound(store')
  BY <1>2, <1>typed DEF SetAdmin
<1>3. ASSUME NEW kind \in {"create", "recover"}, NEW a \in Address, NEW list,
             Begin(kind, a, list)
      PROVE  /\ Sound(store)' /\ (call' # Idle => Sound(call.saved)')
             /\ KeepsIssued' /\ ResultsMatchEffect'
  <2>1. /\ store' = store /\ call'.saved = store /\ call'.results = << >>
        /\ call' = [kind |-> kind, requests |-> list, results |-> << >>, saved |-> store]
    BY <1>3 DEF Begin, Frame
  <2>2. Successes' = {}
    BY <2>1 DEF Successes
  <2>3. ResultsMatchEffect'
    BY <1>typed, <2>1, <2>2, FS_EmptySet DEF ResultsMatchEffect
  <2>4. Sound(store)' /\ Sound(call.saved)' /\ KeepsIssued'
    BY <1>typed, <2>1 DEF Sound, Holders, KeepsIssued, Issued
  <2> QED BY <2>3, <2>4
\* One request: its answer, and what it did to the store.
<1>request. ASSUME HasNext, NEW code \in {0, 1, 2, 3, 7}, Answer(code),
                   Sound(store'), Issued(store) \subseteq Issued(store'),
                   store'.nextWalletId = store.nextWalletId +
                     (IF call.kind = "create" /\ code = 0 THEN 1 ELSE 0)
            PROVE  /\ Sound(store)' /\ (call' # Idle => Sound(call.saved)')
                   /\ KeepsIssued' /\ ResultsMatchEffect'
  <2>1. /\ call # Idle /\ call' # Idle /\ call'.kind = call.kind
        /\ call'.saved = call.saved
    BY <1>request, <1>typed, AnswerExtends DEF HasNext
  <2>2. /\ call.saved.nextWalletId \in Nat
    BY <1>typed, <2>1, CallIsFrame DEF TypeInv, Store, U64, BatchWalletConstants
  <2>3. /\ Cardinality(Successes) \in Nat
        /\ Cardinality(Successes)' = Cardinality(Successes) + (IF code = 0 THEN 1 ELSE 0)
    BY <1>request, <1>typed, OneMoreResult
  <2>4. store.nextWalletId - call.saved.nextWalletId =
          IF call.kind = "create" THEN Cardinality(Successes) ELSE 0
    BY <2>1 DEF WalletInv, ResultsMatchEffect
  <2>5. ResultsMatchEffect'
    BY <1>request, <1>typed, <2>1, <2>2, <2>3, <2>4 DEF ResultsMatchEffect
  <2>6. Sound(store)' /\ Sound(call.saved)' /\ KeepsIssued'
    BY <1>request, <1>typed, <2>1 DEF Sound, Holders, KeepsIssued, Issued
  <2> QED BY <2>5, <2>6
<1>4. CASE CreateOne
  <2>1. HasNext /\ call.kind = "create" /\ Current \in Address
    BY <1>4, <1>typed, CurrentIsRequest DEF CreateOne
  <2>2. CASE UNCHANGED store /\ \E code \in {1, 7} : Answer(code)
    BY <1>request, <1>typed, <2>1, <2>2
  <2>3. CASE /\ ~HasWallet(Current) /\ HasIdLeft
             /\ store' = WithWallet(Current) /\ Answer(0)
    <3>1. Sound(store') /\ Issued(store) \subseteq Issued(store')
      BY <1>typed, <2>1, <2>3, CreationIsSound
    <3>2. store'.nextWalletId = store.nextWalletId + 1
      BY <1>typed, <2>1, <2>3, CreationStores
    <3> QED BY <1>request, <2>1, <2>3, <3>1, <3>2
  <2> QED BY <1>4, <2>2, <2>3 DEF CreateOne
<1>5. CASE RecoverOne
  <2> DEFINE old == Current[1]
             new == Current[2]
             code == RecoveryCode(old, new)
  <2>1. /\ HasNext /\ call.kind = "recover" /\ old \in Address /\ new \in Address
    BY <1>5, <1>typed, CurrentIsRequest DEF RecoverOne
  <2>2. /\ code \in {0, 1, 2, 3, 7} /\ Answer(code)
        /\ store' = IF code = 0 THEN Moved(old, new) ELSE store
    BY <1>5 DEF RecoverOne, RecoveryCode
  <2> HIDE DEF old, new
  <2>3. CASE code = 0
    <3>1. /\ Sound(Moved(old, new)) /\ Issued(store) \subseteq Issued(Moved(old, new))
      BY <1>typed, <2>1, <2>3, RecoveryIsSound
    <3>2. Moved(old, new).nextWalletId = store.nextWalletId
      BY <1>typed, <2>1, <2>3, RecoveryStores
    <3> HIDE DEF code
    <3> QED BY <1>request, <1>typed, <2>1, <2>2, <2>3, <3>1, <3>2
  <2>4. CASE code # 0
    <3> HIDE DEF code
    <3> QED BY <1>request, <1>typed, <2>1, <2>2, <2>4
  <2> QED BY <2>3, <2>4
<1>6. CASE End
  <2>1. /\ call' = Idle /\ store' = [store EXCEPT !.totalBatches = @ + 1]
    BY <1>6 DEF End
  <2>2. /\ store'.wallet = store.wallet /\ store'.nextWalletId = store.nextWalletId
        /\ store'.totalCreated = store.totalCreated
    BY <1>typed, <2>1 DEF Store
  <2> QED BY <1>idle, <1>typed, <2>1, <2>2, SameWallets
<1>7. CASE Panic
  BY <1>7, <1>idle, <1>typed DEF Panic, HasNext, RolledBack
<1>8. CASE Tick
  BY <1>8, <1>idle, <1>typed DEF Tick
<1>9. CASE UNCHANGED vars
  BY <1>9 DEF vars, WalletInv, Sound, Holders, KeepsIssued, ResultsMatchEffect, Successes, Issued
<1> QED BY <1>idle, <1>1, <1>2, <1>3, <1>4, <1>5, <1>6, <1>7, <1>8, <1>9 DEF Next

\* Through every prefix of every batch an id belongs to one wallet, none is lost
\* and none reused: the ids held are exactly those handed out.
THEOREM WalletsStayIssued == BatchWalletConstants /\ Spec => []WalletsAreIssued
<1>1. WalletInv => WalletsAreIssued
  <2>1. Held = Holders(store)
    BY DEF Held, HasWallet, Holders
  <2> QED BY <2>1 DEF WalletInv, Sound, WalletsAreIssued
<1> QED BY InitWalletInv, StepWalletInv, <1>1, PTL DEF Spec

\* A batch reports a success for every wallet it issued and for no other.
THEOREM ResultsTellEffect == BatchWalletConstants /\ Spec => []ResultsMatchEffect
<1>1. WalletInv => ResultsMatchEffect
  BY DEF WalletInv
<1> QED BY InitWalletInv, StepWalletInv, <1>1, PTL DEF Spec

\* Nobody else sees part of a batch, and a batch that panics leaves no trace.
THEOREM BatchesAreAtomic == BatchWalletConstants /\ Spec => BatchIsAtomic
<1>1. WalletInv /\ [Next]_vars =>
        [Committed' # Committed =>
           /\ call # Idle /\ call' = Idle
           /\ Committed'.totalBatches = Committed.totalBatches + 1
           /\ Issued(Committed) \subseteq Issued(Committed')]_vars
  <2> SUFFICES ASSUME WalletInv, [Next]_vars, Committed' # Committed
               PROVE  /\ call # Idle /\ call' = Idle
                      /\ Committed'.totalBatches = Committed.totalBatches + 1
                      /\ Issued(Committed) \subseteq Issued(Committed')
    OBVIOUS
  <2>1. /\ TypeInv /\ store \in Store
        /\ call # Idle => Issued(call.saved) \subseteq Issued(store)
    BY DEF WalletInv, KeepsIssued, TypeInv, TypeOK
  <2>2. ASSUME NEW a \in Address, Initialize(a) PROVE FALSE
    <3>1. /\ call = Idle /\ call' = Idle /\ admin = NoAddress
          /\ store' = [store EXCEPT !.nextWalletId = 0, !.totalBatches = 0,
                                    !.totalCreated = 0]
      BY <2>2 DEF Initialize
    <3>2. store' = store
      BY <2>1, <3>1 DEF TypeInv, NothingBeforeInitialize, Store
    <3> QED BY <3>1, <3>2 DEF Committed
  <2>3. ASSUME NEW kind, NEW a \in Address, NEW list, Begin(kind, a, list) PROVE FALSE
    <3>1. /\ call = Idle /\ UNCHANGED store /\ call'.saved = store
      BY <2>3 DEF Begin, Frame
    <3> QED BY <3>1 DEF Committed
  <2>4. ASSUME HasNext, NEW code \in {0, 1, 2, 3, 7}, Answer(code) PROVE FALSE
    <3>1. call # Idle /\ call' # Idle /\ call'.saved = call.saved
      BY <2>1, <2>4, AnswerExtends DEF HasNext
    <3> QED BY <3>1 DEF Committed
  <2>5. CASE CreateOne
    BY <2>4, <2>5 DEF CreateOne
  <2>6. CASE RecoverOne
    BY <2>4, <2>6 DEF RecoverOne, RecoveryCode
  <2>7. CASE End
    <3>1. /\ call # Idle /\ call' = Idle
          /\ store' = [store EXCEPT !.totalBatches = @ + 1]
          /\ store.totalBatches = call.saved.totalBatches
      BY <2>1, <2>7 DEF End, TypeInv, BatchHasRoom
    <3>2. /\ store'.totalBatches = store.totalBatches + 1
          /\ store'.wallet = store.wallet
      BY <2>1, <3>1 DEF Store
    <3>3. Issued(store') = Issued(store)
      BY <3>2 DEF Issued
    <3>4. Committed = call.saved /\ Committed' = store'
      BY <3>1 DEF Committed
    <3> QED BY <2>1, <3>1, <3>2, <3>3, <3>4
  <2>8. CASE Panic
    BY <2>8 DEF Panic, HasNext, RolledBack, Committed
  <2>9. CASE Tick \/ UNCHANGED vars \/ \E a, b \in Address : SetAdmin(a, b)
    BY <2>9 DEF Tick, vars, SetAdmin, Committed
  <2> QED BY <2>2, <2>3, <2>5, <2>6, <2>7, <2>8, <2>9 DEF Next
<1> QED BY InitWalletInv, StepWalletInv, <1>1, PTL DEF Spec, BatchIsAtomic
=============================================================================

--------------------------- MODULE ContractsProofs ---------------------------
(***************************************************************************)
(* Proofs about Contracts.  The composition behaves as each of its         *)
(* contracts, so that what is proved about one of them apart holds in it.  *)
(* The multisig contract and the gist registry have no proofs of their     *)
(* own and are proved about here, the former for every set of accounts and *)
(* every family of signer lists, well formed or not.  Its constants are    *)
(* those of the instances, so their assumption is a hypothesis of its      *)
(* theorems.  What the registry's scan computes is proved by taking the    *)
(* least gist id for which it would be wrong.                              *)
(***************************************************************************)
EXTENDS Contracts, FiniteSetTheorems, SequenceTheorems, WellFoundedInduction, TLAPS

\* The component proofs, with the constants and variables of the composition.
WalletProofs == INSTANCE BatchWalletProofs WITH Address <- Owner, U64Max <- MaxWallets,
  admin <- walletAdmin
GovProofs == INSTANCE GovernanceProofs WITH Address <- Voter, U32Max <- MaxTally,
  U64Max <- Deadline, admin <- govAdmin, now <- govNow, executions <- govExecutions
-----------------------------------------------------------------------------
(* The multisig contract *)

\* initialize resets the signers and the id counter of a contract that has none.
NothingBeforeInitialize == admin = NoAddress => signers = {} /\ nextTxId = 0

TypeInv == MultisigConstants /\ TypeOK /\ NothingBeforeInitialize
-----------------------------------------------------------------------------
LEMMA InitTypeInv == MultisigConstants /\ Init => TypeInv
<1> SUFFICES ASSUME MultisigConstants, Init PROVE TypeOK /\ NothingBeforeInitialize
  BY DEF TypeInv
<1>1. pendingTx \in [1..nextTxId -> PendingTx]
  <2>1. 1..nextTxId = {} /\ pendingTx = << >>
    BY DEF Init
  <2> QED BY <2>1
<1>2. executions \in Seq(TxId)
  BY DEF Init
<1> QED BY <1>1, <1>2 DEF Init, TypeOK, NothingBeforeInitialize, MultisigConstants, TxId

\* A submission extends the transactions by the next id.
LEMMA SubmitTypes ==
  ASSUME TypeInv, NEW a \in Address, NEW b \in Body, SubmitTransaction(a, b)
  PROVE  /\ nextTxId + 1 \in TxId /\ nextTxId' = nextTxId + 1
         /\ DOMAIN pendingTx' = DOMAIN pendingTx \cup {nextTxId + 1}
         /\ nextTxId + 1 \notin DOMAIN pendingTx
         /\ \A t \in DOMAIN pendingTx : pendingTx'[t] = pendingTx[t]
         /\ pendingTx'[nextTxId + 1] = [from |-> a, body |-> b, executed |-> FALSE]
         /\ pendingTx' \in [1..nextTxId' -> PendingTx]
<1> DEFINE id == nextTxId + 1
           new == [from |-> a, body |-> b, executed |-> FALSE]
<1>1. /\ pendingTx \in [1..nextTxId -> PendingTx] /\ nextTxId \in Nat
      /\ nextTxId < U64Max /\ U64Max \in Nat
  BY DEF TypeInv, TypeOK, MultisigConstants, SubmitTransaction, HasTxIdLeft
<1>2. id \in TxId /\ id \notin 1..nextTxId /\ (1..nextTxId) \cup {id} = 1..id
  BY <1>1 DEF TxId
<1>3. nextTxId' = id /\ pendingTx' = [t \in 1..id |-> IF t = id THEN new ELSE pendingTx[t]]
  BY <1>1, <1>2 DEF SubmitTransaction
<1>4. new \in PendingTx
  BY DEF PendingTx
<1> HIDE DEF new
<1>5. \A t \in 1..nextTxId : t \in 1..id /\ t # id
  BY <1>1
<1>6. id \in 1..id
  BY <1>1
<1> HIDE DEF id
<1>7. /\ \A t \in 1..nextTxId : pendingTx'[t] = pendingTx[t]
      /\ pendingTx'[id] = new /\ DOMAIN pendingTx' = 1..id
  BY <1>3, <1>5, <1>6
<1>8. pendingTx' \in [1..id -> PendingTx]
  BY <1>1, <1>2, <1>3, <1>4
<1> QED BY <1>1, <1>2, <1>3, <1>7, <1>8 DEF id, new

LEMMA StepTypeInv == TypeInv /\ [Next]_vars => TypeInv'
<1> SUFFICES ASSUME TypeInv, [Next]_vars PROVE TypeInv'
  OBVIOUS
<1>const. MultisigConstants /\ MultisigConstants'
  BY DEF TypeInv, MultisigConstants
<1>submit. \A a \in Address, b \in Body : SubmitTransaction(a, b) =>
        pendingTx' \in [1..nextTxId' -> PendingTx] /\ nextTxId' \in 0..U64Max
  <2> SUFFICES ASSUME NEW a \in Address, NEW b \in Body, SubmitTransaction(a, b)
               PROVE  pendingTx' \in [1..nextTxId' -> PendingTx] /\ nextTxId' \in 0..U64Max
    OBVIOUS
  <2>1. /\ nextTxId' \in TxId
        /\ pendingTx' \in [1..nextTxId' -> PendingTx]
    BY SubmitTypes
  <2> QED BY <1>const, <2>1 DEF TxId, MultisigConstants
<1> USE DEF TypeInv, TypeOK, NothingBeforeInitialize, MultisigConstants
<1>1. ASSUME NEW a \in Address, Initialize(a) PROVE TypeInv'
  BY <1>1, <1>const DEF Initialize
<1>2. ASSUME NEW a \in Address, NEW list \in SignerList, NEW n \in 0..U32Max,
             SetSigners(a, list, n)
      PROVE  TypeInv'
  <2>1. list \in Seq(Address)
    BY <1>const
  <2>2. {list[i] : i \in DOMAIN list} \subseteq Address
    BY <2>1
  <2> QED BY <1>2, <1>const, <2>2 DEF SetSigners, IsAdmin
<1>3. ASSUME NEW a \in Address, NEW x \in Amount, SetHighValueThreshold(a, x)
      PROVE  TypeInv'
  BY <1>3, <1>const DEF SetHighValueThreshold
<1>4. ASSUME NEW a \in Address, NEW b \in Body, SubmitTransaction(a, b)
      PROVE  TypeInv'
  <2>1. pendingTx' \in [1..nextTxId' -> PendingTx] /\ nextTxId' \in 0..U64Max
    BY <1>submit, <1>4
  <2>2. admin # NoAddress
    BY <1>4 DEF SubmitTransaction
  <2> QED BY <1>4, <1>const, <2>1, <2>2 DEF SubmitTransaction
<1>5. ASSUME NEW a \in Address, NEW id \in TxId, ApproveTransaction(a, id)
      PROVE  TypeInv'
  <2>1. approvalCount' \in [TxId -> 0..U32Max]
    BY <1>5, <1>const DEF ApproveTransaction
  <2> QED BY <1>5, <1>const, <2>1 DEF ApproveTransaction
<1>6. ASSUME NEW a \in Address, NEW id \in TxId, ExecuteTransaction(a, id)
      PROVE  TypeInv'
  <2>1. pendingTx' \in [1..nextTxId -> PendingTx]
    <3>1. pendingTx[id] \in PendingTx /\ id \in 1..nextTxId
      BY <1>6 DEF ExecuteTransaction, IsPending
    <3>2. [pendingTx[id] EXCEPT !.executed = TRUE] \in PendingTx
      BY <3>1 DEF PendingTx
    <3> QED BY <1>6, <3>1, <3>2 DEF ExecuteTransaction
  <2> QED BY <1>6, <1>const, <2>1 DEF ExecuteTransaction
<1>7. CASE UNCHANGED vars
  BY <1>7, <1>const DEF vars
<1> QED BY <1>1, <1>2, <1>3, <1>4, <1>5, <1>6, <1>7 DEF Next

\* Type correctness: every entry keeps its contract type, and the transactions
\* stored have the ids 1 to the counter, whatever the admin configures.
THEOREM MultisigTypeCorrect == MultisigConstants /\ Spec => []TypeOK
<1>1. TypeInv => TypeOK
  BY DEF TypeInv
<1> QED BY InitTypeInv, StepTypeInv, <1>1, PTL DEF Spec
-----------------------------------------------------------------------------
\* What set_signers checked stays true until it is called again.
ThresholdFits == threshold <= Cardinality(signers)

\* The events and the executed flags agree.
EventsMatchFlags ==
  \A i \in DOMAIN executions :
    executions[i] \in DOMAIN pendingTx /\ pendingTx[executions[i]].executed

CountInv ==
  TypeInv /\ CountMatchesApprovals /\ ThresholdFits /\ EventsMatchFlags

LEMMA AccountsFinite ==
  ASSUME MultisigConstants, NEW S \in SUBSET Address
  PROVE  IsFiniteSet(S) /\ Cardinality(S) \in Nat
<1>1. IsFiniteSet(S)
  BY FS_Subset DEF MultisigConstants
<1> QED BY <1>1, FS_CardinalityType

LEMMA ApproversAreAccounts ==
  ASSUME NEW id PROVE Approvers(id) \in SUBSET Address
BY DEF Approvers

\* A list that validate_signer_config lets through names as many accounts as it
\* has entries: nobody is counted twice in a threshold.
LEMMA DistinctSigners ==
  ASSUME NEW list \in Seq(Address), NEW n \in Nat, ValidConfig(list, n)
  PROVE  LET S == {list[i] : i \in DOMAIN list}
         IN  S # {} /\ n <= Cardinality(S)
<1> DEFINE S == {list[i] : i \in DOMAIN list}
<1>1. /\ Len(list) \in Nat /\ DOMAIN list = 1..Len(list) /\ n \in 1..Len(list)
      /\ \A i, j \in DOMAIN list : list[i] = list[j] => i = j
  BY DEF ValidConfig
<1>2. list \in Bijection(1..Len(list), S)
  BY <1>1 DEF Bijection, Injection, Surjection, IsInjective
<1>3. ExistsBijection(1..Len(list), S)
  BY <1>2 DEF ExistsBijection
<1>4. IsFiniteSet(1..Len(list)) /\ Cardinality(1..Len(list)) = Len(list)
  BY <1>1, FS_Interval
<1>5. Cardinality(S) = Len(list)
  BY <1>3, <1>4, FS_Bijection
<1>6. S # {}
  BY <1>1
<1>7. n <= Cardinality(S)
  <2> HIDE DEF S
  <2> QED BY <1>1, <1>5
<1> HIDE DEF S
<1>8. S # {} /\ n <= Cardinality(S)
  BY <1>6, <1>7
<1> QED BY <1>8 DEF S

\* An approval adds its account to the approvers of one transaction.
LEMMA ApprovalAddsOne ==
  ASSUME TypeInv, NEW a \in Address, NEW id \in TxId, ApproveTransaction(a, id),
         NEW other \in TxId
  PROVE  /\ a \notin Approvers(id)
         /\ Approvers(other)' = IF other = id THEN Approvers(id) \cup {a}
                                ELSE Approvers(other)
<1>1. /\ approval \in [TxId \X Address -> BOOLEAN]
      /\ approval' = [approval EXCEPT ![<<id, a>>] = TRUE]
      /\ ~approval[<<id, a>>]
  BY DEF TypeInv, TypeOK, ApproveTransaction, HasApproval
<1>2. \A b \in Address : approval'[<<other, b>>] =
        IF other = id /\ b = a THEN TRUE ELSE approval[<<other, b>>]
  BY <1>1
<1>3. a \notin Approvers(id)
  BY <1>1 DEF Approvers
<1>4. Approvers(other)' = {b \in Address : approval'[<<other, b>>]}
  BY DEF Approvers
<1>5. CASE other = id
  BY <1>1, <1>2, <1>4, <1>5 DEF Approvers
<1>6. CASE other # id
  BY <1>1, <1>2, <1>4, <1>6 DEF Approvers
<1> QED BY <1>3, <1>5, <1>6

LEMMA InitCountInv == MultisigConstants /\ Init => CountInv
<1> SUFFICES ASSUME MultisigConstants, Init
             PROVE  CountMatchesApprovals /\ ThresholdFits /\ EventsMatchFlags
  BY InitTypeInv DEF CountInv
<1>1. \A id \in TxId : Approvers(id) = {} /\ approvalCount[id] = 0
  BY DEF Init, Approvers
<1>2. signers = {} /\ threshold = 0 /\ executions = << >>
  BY DEF Init
<1> QED BY <1>1, <1>2, FS_EmptySet
        DEF CountMatchesApprovals, ThresholdFits, EventsMatchFlags

LEMMA StepCounts == CountInv /\ [Next]_vars => CountMatchesApprovals'
<1> SUFFICES ASSUME CountInv, [Next]_vars PROVE CountMatchesApprovals'
  OBVIOUS
<1>1. TypeInv /\ CountMatchesApprovals /\ MultisigConstants
  BY DEF CountInv, TypeInv
<1>2. ASSUME UNCHANGED <<approval, approvalCount>> PROVE CountMatchesApprovals'
  BY <1>1, <1>2 DEF CountMatchesApprovals, Approvers
<1>3. ASSUME NEW a \in Address, NEW id \in TxId, ApproveTransaction(a, id)
      PROVE  CountMatchesApprovals'
  <2> SUFFICES ASSUME NEW other \in TxId
               PROVE  approvalCount'[other] = Cardinality(Approvers(other)')
    BY DEF CountMatchesApprovals
  <2>1. /\ approvalCount \in [TxId -> 0..U32Max]
        /\ approvalCount' = [approvalCount EXCEPT ![id] = @ + 1]
        /\ approvalCount[other] = Cardinality(Approvers(other))
    BY <1>1, <1>3 DEF ApproveTransaction, CountMatchesApprovals, TypeInv, TypeOK
  <2>2. CASE other = id
    <3>1. a \notin Approvers(id) /\ Approvers(id)' = Approvers(id) \cup {a}
      BY <1>1, <1>3, ApprovalAddsOne
    <3>2. IsFiniteSet(Approvers(id))
      BY <1>1, ApproversAreAccounts, AccountsFinite
    <3>3. Cardinality(Approvers(id) \cup {a}) = Cardinality(Approvers(id)) + 1
      BY <3>1, <3>2, FS_AddElement
    <3> QED BY <2>1, <2>2, <3>1, <3>3
  <2>3. CASE other # id
    BY <1>1, <1>3, <2>1, <2>3, ApprovalAddsOne
  <2> QED BY <2>2, <2>3
<1>4. \/ UNCHANGED <<approval, approvalCount>>
      \/ \E a \in Address, id \in TxId : ApproveTransaction(a, id)
  BY DEF Next, vars, Initialize, SetSigners, SetHighValueThreshold,
     SubmitTransaction, ExecuteTransaction
<1> QED BY <1>2, <1>3, <1>4

LEMMA StepThreshold == CountInv /\ [Next]_vars => ThresholdFits'
<1> SUFFICES ASSUME CountInv, [Next]_vars PROVE ThresholdFits'
  OBVIOUS
<1>1. TypeInv /\ ThresholdFits /\ MultisigConstants
  BY DEF CountInv, TypeInv
<1>2. CASE UNCHANGED <<signers, threshold>>
  BY <1>1, <1>2 DEF ThresholdFits
<1>3. ASSUME NEW a \in Address, Initialize(a) PROVE ThresholdFits'
  BY <1>3, FS_EmptySet DEF Initialize, ThresholdFits
<1>4. ASSUME NEW a \in Address, NEW list \in SignerList, NEW n \in 0..U32Max,
             SetSigners(a, list, n)
      PROVE  ThresholdFits'
  <2>1. list \in Seq(Address) /\ n \in Nat
    BY <1>1 DEF MultisigConstants
  <2>2. /\ ValidConfig(list, n) /\ threshold' = n
        /\ signers' = {list[i] : i \in DOMAIN list}
    BY <1>4 DEF SetSigners
  <2> QED BY <2>1, <2>2, DistinctSigners DEF ThresholdFits
<1>5. \/ UNCHANGED <<signers, threshold>>
      \/ \E a \in Address : Initialize(a)
      \/ \E a \in Address, list \in SignerList, n \in 0..U32Max :
           SetSigners(a, list, n)
  BY DEF Next, vars, SetHighValueThreshold, SubmitTransaction, ApproveTransaction,
     ExecuteTransaction
<1> QED BY <1>2, <1>3, <1>4, <1>5

\* A transaction once executed is never pending again, and stays stored.
LEMMA FlagsStay ==
  ASSUME TypeInv, [Next]_vars, NEW t \in DOMAIN pendingTx
  PROVE  /\ t \in DOMAIN pendingTx'
         /\ pendingTx[t].executed => pendingTx'[t].executed
         /\ pendingTx'[t].from = pendingTx[t].from
         /\ pendingTx'[t].body = pendingTx[t].body
<1>1. pendingTx[t] \in PendingTx
  BY DEF TypeInv, TypeOK
<1>2. CASE UNCHANGED pendingTx
  BY <1>2
<1>3. ASSUME NEW a \in Address, NEW b \in Body, SubmitTransaction(a, b)
      PROVE  t \in DOMAIN pendingTx' /\ pendingTx'[t] = pendingTx[t]
  BY <1>3, SubmitTypes
<1>4. ASSUME NEW a \in Address, NEW id \in TxId, ExecuteTransaction(a, id)
      PROVE  /\ t \in DOMAIN pendingTx'
             /\ \/ pendingTx'[t] = pendingTx[t]
                \/ pendingTx'[t] = [pendingTx[t] EXCEPT !.executed = TRUE]
  BY <1>4 DEF ExecuteTransaction, TypeInv, TypeOK
<1>5. \/ UNCHANGED pendingTx
      \/ \E a \in Address, b \in Body : SubmitTransaction(a, b)
      \/ \E a \in Address, id \in TxId : ExecuteTransaction(a, id)
  BY DEF Next, vars, Initialize, SetSigners, SetHighValueThreshold, ApproveTransaction
<1> QED BY <1>1, <1>2, <1>3, <1>4, <1>5 DEF PendingTx

LEMMA StepEvents == CountInv /\ [Next]_vars => EventsMatchFlags'
<1> SUFFICES ASSUME CountInv, [Next]_vars PROVE EventsMatchFlags'
  OBVIOUS
<1>1. TypeInv /\ EventsMatchFlags /\ executions \in Seq(TxId)
  BY DEF CountInv, TypeInv, TypeOK
<1>2. CASE UNCHANGED executions
  BY <1>1, <1>2, FlagsStay DEF EventsMatchFlags
<1>3. ASSUME NEW a \in Address, NEW id \in TxId, ExecuteTransaction(a, id)
      PROVE  EventsMatchFlags'
  <2>1. /\ executions' = Append(executions, id) /\ id \in DOMAIN pendingTx
        /\ pendingTx \in [1..nextTxId -> PendingTx]
        /\ pendingTx' = [pendingTx EXCEPT ![id].executed = TRUE]
    BY <1>1, <1>3 DEF ExecuteTransaction, IsPending, TypeInv, TypeOK
  <2>2. id \in DOMAIN pendingTx' /\ pendingTx'[id].executed
    <3>1. pendingTx[id] \in PendingTx
      BY <2>1
    <3>2. pendingTx'[id] = [pendingTx[id] EXCEPT !.executed = TRUE]
      BY <2>1
    <3> QED BY <2>1, <3>1, <3>2 DEF PendingTx
  <2>3. ASSUME NEW i \in DOMAIN executions'
        PROVE  \/ executions'[i] = id
               \/ i \in DOMAIN executions /\ executions'[i] = executions[i]
    BY <1>1, <2>1, <2>3
  <2> QED BY <1>1, <2>2, <2>3, FlagsStay DEF EventsMatchFlags
<1>4. UNCHANGED executions \/ \E a \in Address, id \in TxId : ExecuteTransaction(a, id)
  BY DEF Next, vars, Initialize, SetSigners, SetHighValueThreshold, SubmitTransaction,
     ApproveTransaction
<1> QED BY <1>2, <1>3, <1>4

LEMMA StepCountInv == CountInv /\ [Next]_vars => CountInv'
BY StepTypeInv, StepCounts, StepThreshold, StepEvents DEF CountInv

\* ApprovalCount(id), which execute_transaction compares with the threshold, is
\* the number of accounts with an Approval entry, although the two are written
\* apart and the signers change in between.
THEOREM CountsAreApprovals == MultisigConstants /\ Spec => []CountMatchesApprovals
<1>1. CountInv => CountMatchesApprovals
  BY DEF CountInv
<1> QED BY InitCountInv, StepCountInv, <1>1, PTL DEF Spec

\* Whatever set_signers did while a transaction waits, its approvals and the
\* signers that have not approved yet reach the threshold together.
THEOREM PendingTransactionsCanPass == MultisigConstants /\ Spec => []PendingCanPass
<1>1. CountInv => PendingCanPass
  <2> SUFFICES ASSUME CountInv, NEW id \in DOMAIN pendingTx
               PROVE  approvalCount[id] + Cardinality(signers \ Approvers(id)) >= threshold
    BY DEF PendingCanPass
  <2> DEFINE A == Approvers(id)
  <2>1. /\ MultisigConstants /\ signers \in SUBSET Address /\ A \in SUBSET Address
        /\ threshold \in Nat /\ id \in TxId
        /\ threshold <= Cardinality(signers)
    BY ApproversAreAccounts
       DEF CountInv, TypeInv, TypeOK, ThresholdFits, MultisigConstants, TxId
  <2>2. approvalCount[id] = Cardinality(A)
    BY <2>1 DEF CountInv, CountMatchesApprovals
  <2>3. /\ IsFiniteSet(A) /\ IsFiniteSet(signers \ A) /\ IsFiniteSet(signers)
        /\ Cardinality(A) \in Nat /\ Cardinality(signers \ A) \in Nat
        /\ Cardinality(signers) \in Nat
    <3>1. signers \ A \in SUBSET Address
      BY <2>1
    <3> QED BY <2>1, <3>1, AccountsFinite
  <2>4. Cardinality(A \cup (signers \ A)) = Cardinality(A) + Cardinality(signers \ A)
    <3> HIDE DEF A
    <3>1. A \cap (signers \ A) = {}
      OBVIOUS
    <3>2. Cardinality(A \cap (signers \ A)) = 0
      BY <3>1, FS_EmptySet
    <3>3. Cardinality(A \cup (signers \ A)) =
            Cardinality(A) + Cardinality(signers \ A) - Cardinality(A \cap (signers \ A))
      BY <2>3, FS_Union
    <3> QED BY <2>3, <3>2, <3>3
  <2>5. Cardinality(signers) <= Cardinality(A \cup (signers \ A))
    <3>1. IsFiniteSet(A \cup (signers \ A)) /\ signers \in SUBSET (A \cup (signers \ A))
      BY <2>3, FS_Union
    <3> QED BY <3>1, FS_Subset
  <2> HIDE DEF A
  <2>6. Cardinality(A) + Cardinality(signers \ A) >= threshold
    BY <2>1, <2>3, <2>4, <2>5
  <2> QED BY <2>2, <2>6 DEF A
<1> QED BY InitCountInv, StepCountInv, <1>1, PTL DEF Spec
-----------------------------------------------------------------------------
\* The refinement mapping of Decisions, by name.
Quorum == IF admin = NoAddress THEN NoAddress ELSE threshold
ContentOf(tx) == [from |-> tx.from, body |-> tx.body]

LEMMA InitDecisions == MultisigConstants /\ Init => Decisions!Init
<1> SUFFICES ASSUME MultisigConstants, Init PROVE Decisions!Init
  OBVIOUS
<1> DEFINE contents == [id \in DOMAIN pendingTx |-> ContentOf(pendingTx[id])]
<1>1. executions = << >> /\ DOMAIN pendingTx = {}
  BY DEF Init
<1>2. contents \in [{} -> [from: Address, body: Body]] /\ {} \in SUBSET TxId
  BY <1>1
<1>3. \A id \in TxId : Approvers(id) \in SUBSET Address
  BY ApproversAreAccounts
<1> QED BY <1>1, <1>2, <1>3 DEF Decisions!Init, ContentOf

\* Calls that touch nothing QuorumDecisions knows of.
LEMMA SameApprovers ==
  ASSUME UNCHANGED approval
  PROVE  UNCHANGED [id \in TxId |-> Approvers(id)]
BY DEF Approvers

LEMMA SameDecisions ==
  ASSUME UNCHANGED <<pendingTx, approval, executions, Quorum>>
  PROVE  UNCHANGED Decisions!qvars
BY SameApprovers DEF Decisions!qvars, Quorum

\* set_signers and initialize choose a quorum.
LEMMA QuorumIsSet ==
  ASSUME UNCHANGED <<pendingTx, approval, executions>>, Quorum' \in Nat
  PROVE  Decisions!Next
<1>1. Decisions!SetQuorum
  BY SameApprovers DEF Decisions!SetQuorum, Quorum
<1> QED BY <1>1 DEF Decisions!Next

LEMMA SubmitOpens ==
  ASSUME CountInv, NEW a \in Address, NEW b \in Body, SubmitTransaction(a, b)
  PROVE  Decisions!Next
<1> DEFINE newId == nextTxId + 1
           new == [from |-> a, body |-> b]
           contents == [id \in DOMAIN pendingTx |-> ContentOf(pendingTx[id])]
<1>1. /\ newId \in TxId /\ newId \notin DOMAIN pendingTx
      /\ DOMAIN pendingTx' = DOMAIN pendingTx \cup {newId}
      /\ \A t \in DOMAIN pendingTx : pendingTx'[t] = pendingTx[t]
      /\ pendingTx'[newId] = [from |-> a, body |-> b, executed |-> FALSE]
  BY SubmitTypes DEF CountInv
<1>2. new \in [from: Address, body: Body] /\ ContentOf(pendingTx'[newId]) = new
  BY <1>1 DEF ContentOf
<1>3. UNCHANGED <<admin, threshold, approval, executions>>
  BY DEF SubmitTransaction
<1>4. contents' = [x \in DOMAIN contents \cup {newId} |->
                     IF x = newId THEN new ELSE contents[x]]
  <2>1. contents' = [id \in DOMAIN pendingTx \cup {newId} |-> ContentOf(pendingTx'[id])]
    BY <1>1
  <2> HIDE DEF newId, new
  <2> QED BY <1>1, <1>2, <2>1
<1>5. Quorum # NoAddress /\ Quorum' = Quorum
  <2>1. admin # NoAddress /\ threshold \in Nat
    BY DEF SubmitTransaction, CountInv, TypeInv, TypeOK, NothingBeforeInitialize,
           MultisigConstants
  <2> QED BY <1>3, <2>1 DEF Quorum, CountInv, TypeInv, MultisigConstants
<1>6. Decisions!Open(newId, new)
  <2> HIDE DEF newId, new
  <2> QED BY <1>1, <1>2, <1>3, <1>4, <1>5, SameApprovers
          DEF Decisions!Open, Decisions!Opened, Quorum, ContentOf
<1> QED BY <1>1, <1>2, <1>6 DEF Decisions!Next

LEMMA ApprovalBacks ==
  ASSUME CountInv, NEW a \in Address, NEW id \in TxId, ApproveTransaction(a, id)
  PROVE  Decisions!Next
<1> DEFINE backing == [x \in TxId |-> Approvers(x)]
<1>1. /\ TypeInv /\ EventsMatchFlags
      /\ id \in DOMAIN pendingTx /\ ~pendingTx[id].executed
      /\ UNCHANGED <<admin, threshold, pendingTx, executions>>
  BY DEF CountInv, ApproveTransaction, IsPending
<1>2. Decisions!Undecided(id)
  BY <1>1 DEF Decisions!Undecided, Decisions!Opened, Decisions!Decided, EventsMatchFlags
<1>3. a \notin Approvers(id) /\ backing' = [backing EXCEPT ![id] = @ \cup {a}]
  BY <1>1, ApprovalAddsOne
<1>4. ~Decisions!HasSide(id, a)
  BY <1>3 DEF Decisions!HasSide
<1>5. Decisions!Back(id, a)
  BY <1>1, <1>2, <1>3, <1>4 DEF Decisions!Back
<1> QED BY <1>5 DEF Decisions!Next

LEMMA ExecutionDecides ==
  ASSUME CountInv, [Next]_vars, NEW a \in Address, NEW id \in TxId,
         ExecuteTransaction(a, id)
  PROVE  Decisions!Next
<1> DEFINE contents == [x \in DOMAIN pendingTx |-> ContentOf(pendingTx[x])]
<1>1. /\ TypeInv /\ EventsMatchFlags /\ CountMatchesApprovals
      /\ id \in DOMAIN pendingTx /\ ~pendingTx[id].executed
      /\ approvalCount[id] >= threshold
      /\ pendingTx' = [pendingTx EXCEPT ![id].executed = TRUE]
      /\ executions' = Append(executions, id)
      /\ UNCHANGED <<admin, threshold, approval>>
  BY DEF CountInv, ExecuteTransaction, IsPending
<1>2. contents' = contents
  <2>1. DOMAIN pendingTx' = DOMAIN pendingTx
    BY <1>1
  <2>2. \A x \in DOMAIN pendingTx : ContentOf(pendingTx'[x]) = ContentOf(pendingTx[x])
    BY <1>1, FlagsStay DEF ContentOf
  <2> QED BY <2>1, <2>2
<1>3. Decisions!Undecided(id)
  BY <1>1 DEF Decisions!Undecided, Decisions!Opened, Decisions!Decided, EventsMatchFlags
<1>4. Cardinality(Approvers(id)) >= Quorum
  <2>1. admin # NoAddress
    BY <1>1 DEF ExecuteTransaction, IsPending, TypeInv, NothingBeforeInitialize
  <2> QED BY <1>1, <2>1 DEF Quorum, CountMatchesApprovals
<1>5. Decisions!Decide(id)
  <2>1. [x \in TxId |-> Approvers(x)][id] = Approvers(id)
    OBVIOUS
  <2>2. Decisions!Cardinality(Approvers(id)) = Cardinality(Approvers(id))
    BY DEF Decisions!Cardinality, Cardinality
  <2>3. UNCHANGED [x \in TxId |-> Approvers(x)]
    BY <1>1, SameApprovers
  <2>4. UNCHANGED contents /\ UNCHANGED Quorum
    BY <1>1, <1>2 DEF Quorum
  <2> QED BY <1>1, <1>3, <1>4, <2>1, <2>2, <2>3, <2>4
          DEF Decisions!Decide, Quorum, ContentOf
<1> QED BY <1>5 DEF Decisions!Next

LEMMA StepDecisions == CountInv /\ [Next]_vars => [Decisions!Next]_(Decisions!qvars)
<1> SUFFICES ASSUME CountInv, [Next]_vars
             PROVE  Decisions!Next \/ UNCHANGED Decisions!qvars
  OBVIOUS
<1>1. ASSUME NEW a \in Address, Initialize(a) PROVE Decisions!Next
  <2>1. UNCHANGED <<pendingTx, approval, executions>> /\ admin' = a /\ threshold' = 0
    BY <1>1 DEF Initialize
  <2>2. Quorum' \in Nat
    BY <2>1 DEF Quorum, CountInv, TypeInv, MultisigConstants
  <2> QED BY <2>1, <2>2, QuorumIsSet
<1>2. ASSUME NEW a \in Address, NEW list \in SignerList, NEW n \in 0..U32Max,
             SetSigners(a, list, n)
      PROVE  Decisions!Next
  <2>1. /\ UNCHANGED <<pendingTx, approval, executions, admin>> /\ admin # NoAddress
        /\ threshold' = n
    BY <1>2 DEF SetSigners, IsAdmin
  <2>2. Quorum' \in Nat
    BY <2>1 DEF Quorum, CountInv, TypeInv, MultisigConstants
  <2> QED BY <2>1, <2>2, QuorumIsSet
<1>3. ASSUME NEW a \in Address, NEW x \in Amount, SetHighValueThreshold(a, x)
      PROVE  UNCHANGED Decisions!qvars
  BY <1>3, SameDecisions DEF SetHighValueThreshold, Quorum
<1>4. CASE UNCHANGED vars
  BY <1>4, SameDecisions DEF vars, Quorum
<1> QED BY <1>1, <1>2, <1>3, <1>4, SubmitOpens, ApprovalBacks, ExecutionDecides DEF Next

\* The contract, with its counter, its changing signers and its threshold, does
\* nothing that deciding by a quorum of distinct accounts would not allow.
THEOREM MultisigImplementsDecisions == MultisigConstants /\ Spec => ImplementsDecisions
BY InitCountInv, StepCountInv, InitDecisions, StepDecisions, PTL
   DEF Spec, ImplementsDecisions, Decisions!Spec
-----------------------------------------------------------------------------
\* Every set of naturals that is not empty has a least element.
LEMMA LeastNatural ==
  ASSUME NEW S, S \subseteq Nat, S # {}
  PROVE  \E n \in S : \A m \in S : n <= m
<1> DEFINE R == OpToRel(<, Nat)
<1>1. IsWellFoundedOn(R, Nat)
  BY NatLessThanWellFounded
<1>2. \A a, b \in Nat : a < b => <<a, b>> \in R
  BY DEF OpToRel
<1> HIDE DEF R
<1>3. PICK n \in S : \A m \in S : ~(<<m, n>> \in R)
  BY <1>1, WFMin
<1>4. ASSUME NEW m \in S PROVE n <= m
  <2>1. m \in Nat /\ n \in Nat /\ ~(m < n)
    BY <1>2, <1>3
  <2> QED BY <2>1
<1> QED BY <1>4

(* The scan of list_gists_by_cell *)

\* What the scan has collected at an id, from what it had at the one before.
Collected(before, id, cell, cursor, limit) ==
  IF id < Registry!Start(cursor) THEN << >>
  ELSE IF Len(before) < limit /\ gist[id].cell = cell THEN Append(before, id) ELSE before
IsScan(scan, n, cell, cursor, limit) ==
  scan = [id \in 0..n |-> Collected(scan[id - 1], id, cell, cursor, limit)]

\* The recursion has a solution up to every id: a least id without one would
\* have one, which extends that of the id before.
LEMMA ScanExists ==
  ASSUME NEW cell, NEW cursor \in Nat, NEW limit, NEW n \in Nat
  PROVE  \E scan : IsScan(scan, n, cell, cursor, limit)
<1> DEFINE Without == {k \in Nat : ~ \E scan : IsScan(scan, k, cell, cursor, limit)}
<1> SUFFICES ASSUME Without # {} PROVE FALSE
  OBVIOUS
<1>1. PICK k \in Without : \A m \in Without : k <= m
  <2> HIDE DEF Without
  <2>1. Without \subseteq Nat
    BY DEF Without
  <2> QED BY <2>1, LeastNatural
<1>2. CASE k = 0
  <2> DEFINE scan == [id \in 0..0 |-> << >>]
  <2>1. IsScan(scan, 0, cell, cursor, limit)
    BY DEF IsScan, Collected, Registry!Start
  <2> QED BY <1>1, <1>2, <2>1
<1>3. CASE k # 0
  <2>1. k - 1 \in Nat /\ k - 1 \notin Without
    BY <1>1, <1>3
  <2>2. PICK before : IsScan(before, k - 1, cell, cursor, limit)
    BY <2>1
  <2> DEFINE scan == [id \in 0..k |->
               IF id < k THEN before[id] ELSE Collected(before[k - 1], k, cell, cursor, limit)]
  <2>3. ASSUME NEW id \in 0..k
        PROVE  scan[id] = Collected(scan[id - 1], id, cell, cursor, limit)
    <3>1. CASE id = k
      BY <1>1, <1>3, <3>1
    <3>2. CASE id # k /\ id # 0
      BY <1>1, <1>3, <2>2, <3>2 DEF IsScan
    <3>3. CASE id = 0
      BY <1>1, <1>3, <2>2, <3>3 DEF IsScan, Collected, Registry!Start
    <3> QED BY <3>1, <3>2, <3>3
  <2>4. IsScan(scan, k, cell, cursor, limit)
    <3>1. scan = [id \in 0..k |-> scan[id]]
      OBVIOUS
    <3> HIDE DEF scan
    <3> QED BY <2>3, <3>1 DEF IsScan
  <2> QED BY <1>1, <2>4
<1> QED BY <1>2, <1>3

\* A page is where such a scan ends.
LEMMA PageIsScanned ==
  ASSUME NEW cell, NEW cursor \in Nat, NEW limit, Len(gist) \in Nat
  PROVE  \E scan : /\ IsScan(scan, Len(gist), cell, cursor, limit)
                   /\ Registry!ListGistsByCell(cell, cursor, limit) = scan[Len(gist)]
<1> DEFINE Grown(f, id) ==
             IF id < Registry!Start(cursor) THEN << >>
             ELSE IF Len(f[id - 1]) < limit /\ gist[id].cell = cell
                  THEN Append(f[id - 1], id)
                  ELSE f[id - 1]
           scanned == CHOOSE f : f = [id \in 0..Len(gist) |-> Grown(f, id)]
<1>1. PICK f : IsScan(f, Len(gist), cell, cursor, limit)
  BY ScanExists
<1>2. f = [id \in 0..Len(gist) |-> Grown(f, id)]
  BY <1>1 DEF IsScan, Collected
<1>3. scanned = [id \in 0..Len(gist) |-> Grown(scanned, id)]
  BY <1>2
<1>4. Registry!ListGistsByCell(cell, cursor, limit) = scanned[Len(gist)]
  BY DEF Registry!ListGistsByCell, Registry!GCount
<1>5. IsScan(scanned, Len(gist), cell, cursor, limit)
  BY <1>3 DEF IsScan, Collected
<1> QED BY <1>4, <1>5
Ids(page) == {page[i] : i \in DOMAIN page}
Ascending(page) == \A i, j \in DOMAIN page : i < j => page[i] < page[j]
Due(n, cell, cursor) == {id \in 1..n : gist[id].cell = cell /\ id >= cursor}

\* The first limit gists of the cell among the first n, from the cursor on.
IsPage(page, n, cell, cursor, limit) ==
  /\ page \in Seq(Nat) /\ Len(page) <= limit
  /\ Ascending(page) /\ Ids(page) \subseteq Due(n, cell, cursor)
  /\ \A id \in Due(n, cell, cursor) \ Ids(page) :
       Len(page) = limit /\ \A x \in Ids(page) : x < id

\* One more number, larger than those there.
LEMMA AscendingAppend ==
  ASSUME NEW page \in Seq(Nat), Ascending(page), NEW id \in Nat, \A x \in Ids(page) : x < id
  PROVE  /\ Append(page, id) \in Seq(Nat) /\ Len(Append(page, id)) = Len(page) + 1
         /\ Ascending(Append(page, id))
         /\ Ids(Append(page, id)) = Ids(page) \cup {id}
<1> DEFINE more == Append(page, id)
           n == Len(page)
<1>1. /\ n \in Nat /\ DOMAIN page = 1..n /\ more \in Seq(Nat) /\ Len(more) = n + 1
      /\ DOMAIN more = 1..(n + 1) /\ more[n + 1] = id
      /\ \A i \in 1..n : more[i] = page[i] /\ page[i] \in Nat
  OBVIOUS
<1> HIDE DEF more, n
<1>2. DOMAIN more = DOMAIN page \cup {n + 1} /\ \A i \in 1..n : i # n + 1
  BY <1>1
<1>3. Ids(more) = Ids(page) \cup {id}
  BY <1>1, <1>2 DEF Ids
<1>4. ASSUME NEW i \in DOMAIN more, NEW j \in DOMAIN more, i < j PROVE more[i] < more[j]
  <2>1. i \in DOMAIN page /\ page[i] \in Ids(page) /\ more[i] = page[i]
    BY <1>1, <1>4 DEF Ids
  <2>2. CASE j \in DOMAIN page
    BY <1>1, <1>4, <2>1, <2>2 DEF Ascending
  <2>3. CASE j = n + 1
    BY <1>1, <2>1, <2>3
  <2> QED BY <1>2, <2>2, <2>3
<1> QED BY <1>1, <1>3, <1>4 DEF Ascending, more, n

\* What the scan has at an id is the page of the gists up to it.
LEMMA ScanIsPage ==
  ASSUME NEW cell, NEW cursor \in Nat, NEW limit \in Nat \ {0}, NEW n \in Nat, NEW scan,
         IsScan(scan, n, cell, cursor, limit)
  PROVE  IsPage(scan[n], n, cell, cursor, limit)
<1> DEFINE Wrong == {k \in 0..n : ~IsPage(scan[k], k, cell, cursor, limit)}
<1> SUFFICES ASSUME Wrong # {} PROVE FALSE
  BY DEF Wrong
<1>1. PICK k \in Wrong : \A m \in Wrong : k <= m
  <2> HIDE DEF Wrong
  <2>1. Wrong \subseteq Nat
    BY DEF Wrong
  <2> QED BY <2>1, LeastNatural
<1>2. k \in 0..n /\ scan[k] = Collected(scan[k - 1], k, cell, cursor, limit)
  BY <1>1 DEF IsScan
<1>3. CASE k < Registry!Start(cursor)
  <2>1. scan[k] = << >>
    BY <1>2, <1>3 DEF Collected
  <2>2. Due(k, cell, cursor) = {}
    BY <1>2, <1>3 DEF Due, Registry!Start
  <2>3. IsPage(<< >>, k, cell, cursor, limit)
    BY <2>2 DEF IsPage, Ascending, Ids
  <2> QED BY <1>1, <2>1, <2>3
<1>4. CASE ~(k < Registry!Start(cursor))
  <2> DEFINE before == scan[k - 1]
  <2>1. k - 1 \in 0..n /\ k \in Nat /\ k >= 1 /\ k >= cursor
    BY <1>2, <1>4 DEF Registry!Start
  <2>2. k - 1 \notin Wrong
    BY <1>1, <2>1
  <2>3. IsPage(before, k - 1, cell, cursor, limit)
    BY <2>1, <2>2
  <2>4. Due(k, cell, cursor) =
          Due(k - 1, cell, cursor) \cup (IF gist[k].cell = cell THEN {k} ELSE {})
    BY <2>1 DEF Due
  <2>5. \A x \in Due(k - 1, cell, cursor) : x \in Nat /\ x < k
    BY <2>1 DEF Due
  <2>6. /\ before \in Seq(Nat) /\ Len(before) \in Nat /\ Len(before) <= limit
        /\ Ascending(before) /\ Ids(before) \subseteq Due(k - 1, cell, cursor)
    BY <2>3 DEF IsPage
  <2>7. \A x \in Ids(before) : x < k
    BY <2>5, <2>6
  <2>8. \A id \in Due(k - 1, cell, cursor) \ Ids(before) :
          Len(before) = limit /\ \A x \in Ids(before) : x < id
    BY <2>3 DEF IsPage
  <2> HIDE DEF before
  <2>9. CASE Len(before) < limit /\ gist[k].cell = cell
    <3>1. scan[k] = Append(before, k)
      BY <1>2, <1>4, <2>9 DEF Collected, before
    <3>2. /\ scan[k] \in Seq(Nat) /\ Len(scan[k]) = Len(before) + 1
          /\ Ascending(scan[k]) /\ Ids(scan[k]) = Ids(before) \cup {k}
      BY <2>1, <2>6, <2>7, <3>1, AscendingAppend
    <3>3. Due(k, cell, cursor) \ Ids(scan[k]) = {}
      BY <2>4, <2>5, <2>6, <2>8, <2>9, <3>2
    <3>4. IsPage(scan[k], k, cell, cursor, limit)
      BY <2>4, <2>6, <2>9, <3>2, <3>3 DEF IsPage
    <3> QED BY <1>1, <3>4
  <2>10. CASE ~(Len(before) < limit /\ gist[k].cell = cell)
    <3>1. scan[k] = before
      BY <1>2, <1>4, <2>10 DEF Collected, before
    <3>2. IsPage(before, k, cell, cursor, limit)
      BY <2>4, <2>6, <2>7, <2>8, <2>10 DEF IsPage
    <3> QED BY <1>1, <3>1, <3>2
  <2> QED BY <2>9, <2>10
<1> QED BY <1>3, <1>4

\* So a page of the contract is what its reference says.
LEMMA PageIsFirst ==
  ASSUME NEW cell, NEW cursor \in Nat, NEW limit \in Nat \ {0}, Len(gist) \in Nat
  PROVE  IsPage(Registry!ListGistsByCell(cell, cursor, limit), Len(gist), cell, cursor, limit)
BY PageIsScanned, ScanIsPage
-----------------------------------------------------------------------------
(* The readers *)

Readers == [cell: Cell, limit: Limit, cursor: Nat, got: Seq(Nat), done: BOOLEAN]
\* A reader holds the gists of its cell below its cursor, in order, and its cursor
\* is not past the next gist.
Holds(r) ==
  /\ r.cursor \in 0..(Len(gist) + 1)
  /\ Ids(r.got) = {id \in Registry!InCell(r.cell) : id < r.cursor}
  /\ Ascending(r.got)
RegistryInv ==
  /\ gist \in Seq(Registry!Gist) /\ Len(gist) <= MaxGists
  /\ reader \in [Client -> Readers]
  /\ \A c \in Client : Holds(reader[c])

LEMMA RegistryConstants == Limit \subseteq Nat \ {0} /\ MaxGists \in Nat
BY ContractsConstants DEF ContractsConstants, Registry!GistRegistryConstants

LEMMA InitRegistry == Registry!Init => RegistryInv
<1> SUFFICES ASSUME Registry!Init PROVE RegistryInv
  OBVIOUS
<1>1. gist = << >> /\ Len(gist) = 0
  BY DEF Registry!Init
<1>2. /\ reader \in [Client -> Readers]
      /\ \A c \in Client : reader[c].cursor = 0 /\ reader[c].got = << >>
  <2> DEFINE First == [cell: Cell, limit: Limit, cursor: {0}, got: {<< >>}, done: {FALSE}]
  <2>1. ASSUME NEW r \in First PROVE r \in Readers
    <3>1. r.got \in Seq(Nat) /\ r.cursor \in Nat /\ r.done \in BOOLEAN
      <4>1. r.got = << >>
        OBVIOUS
      <4>2. r.cursor = 0
        OBVIOUS
      <4>3. r.done \in {FALSE}
        OBVIOUS
      <4>4. r.done \in BOOLEAN
        BY <4>3
      <4> QED BY <4>1, <4>2, <4>4
    <3>2. r = [cell |-> r.cell, limit |-> r.limit, cursor |-> r.cursor, got |-> r.got,
               done |-> r.done]
      OBVIOUS
    <3> QED BY <3>1, <3>2 DEF Readers
  <2>2. reader \in [Client -> First]
    BY DEF Registry!Init
  <2> QED BY <2>1, <2>2
<1>3. \A c \in Client : Holds(reader[c])
  BY <1>1, <1>2 DEF Holds, Ids, Ascending, Registry!InCell, Registry!GCount
<1> QED BY <1>1, <1>2, <1>3, RegistryConstants DEF RegistryInv

\* A gist that arrives is at or past every cursor.
LEMMA PostKeeps ==
  ASSUME RegistryInv, NEW cell \in Cell, NEW hash \in Hash, Registry!PostGist(cell, hash)
  PROVE  RegistryInv'
<1> DEFINE n == Len(gist)
           new == [cell |-> cell, hash |-> hash]
<1>1. /\ gist \in Seq(Registry!Gist) /\ n \in Nat /\ n < MaxGists /\ new \in Registry!Gist
      /\ gist' = Append(gist, new) /\ reader' = reader
  BY DEF RegistryInv, Registry!PostGist, Registry!GCount, Registry!Gist
<1>2. /\ gist' \in Seq(Registry!Gist) /\ Len(gist') = n + 1
      /\ \A id \in 1..n : gist'[id] = gist[id]
  BY <1>1
<1>3. ASSUME NEW c \in Client PROVE Holds(reader[c])'
  <2> DEFINE r == reader[c]
  <2>1. r.cursor \in 0..(n + 1) /\ Holds(r)
    BY DEF RegistryInv, Holds
  <2>2. {id \in Registry!InCell(r.cell) : id < r.cursor} =
          {id \in 1..n : gist[id].cell = r.cell /\ id < r.cursor}
    BY DEF Registry!InCell, Registry!GCount
  <2>3. {id \in Registry!InCell(r.cell)' : id < r.cursor} =
          {id \in 1..(n + 1) : gist'[id].cell = r.cell /\ id < r.cursor}
    BY <1>1, <1>2 DEF Registry!InCell, Registry!GCount
  <2>4. {id \in 1..(n + 1) : gist'[id].cell = r.cell /\ id < r.cursor} =
          {id \in 1..n : gist[id].cell = r.cell /\ id < r.cursor}
    BY <1>1, <1>2, <2>1
  <2>5. {id \in Registry!InCell(r.cell)' : id < r.cursor} =
          {id \in Registry!InCell(r.cell) : id < r.cursor}
    BY <2>2, <2>3, <2>4
  <2>6. reader'[c].cursor \in 0..(Len(gist') + 1)
    BY <1>1, <1>2, <2>1
  <2>7. Ids(reader'[c].got) = {id \in Registry!InCell(r.cell)' : id < reader'[c].cursor}
    BY <1>1, <2>1, <2>5 DEF Holds
  <2>8. Ascending(reader'[c].got)
    BY <1>1, <2>1 DEF Holds
  <2> QED BY <2>6, <2>7, <2>8 DEF Holds
<1>4. (\A c \in Client : Holds(reader[c]))'
  BY <1>3
<1>5. gist' \in Seq(Registry!Gist) /\ Len(gist') <= MaxGists
  BY <1>1, <1>2, RegistryConstants
<1>6. reader' \in [Client -> Readers]
  BY <1>1 DEF RegistryInv
<1> QED BY <1>4, <1>5, <1>6 DEF RegistryInv, Registry!Gist

\* What a page is for the reader that asked for it.
LEMMA PageOfReader ==
  ASSUME RegistryInv, NEW c \in Client
  PROVE  LET r == reader[c] IN
         /\ r \in Readers /\ r.cursor \in Nat /\ r.limit \in Nat \ {0} /\ Holds(r)
         /\ IsPage(Registry!ListGistsByCell(r.cell, r.cursor, r.limit),
                   Len(gist), r.cell, r.cursor, r.limit)
         /\ Due(Len(gist), r.cell, r.cursor) =
              {id \in Registry!InCell(r.cell) : id >= r.cursor}
<1>1. reader[c] \in Readers /\ reader[c].limit \in Nat \ {0} /\ Holds(reader[c])
  BY RegistryConstants DEF RegistryInv, Readers
<1>2. reader[c].cursor \in Nat /\ Len(gist) \in Nat
  BY <1>1 DEF Readers, RegistryInv
<1>3. IsPage(Registry!ListGistsByCell(reader[c].cell, reader[c].cursor, reader[c].limit),
             Len(gist), reader[c].cell, reader[c].cursor, reader[c].limit)
  BY <1>1, <1>2, PageIsFirst
<1> QED BY <1>1, <1>2, <1>3 DEF Due, Registry!InCell, Registry!GCount

\* Two ascending sequences, the second above the first.
LEMMA AscendingConcat ==
  ASSUME NEW s \in Seq(Nat), NEW t \in Seq(Nat), Ascending(s), Ascending(t),
         \A x \in Ids(s), y \in Ids(t) : x < y
  PROVE  s \o t \in Seq(Nat) /\ Ascending(s \o t) /\ Ids(s \o t) = Ids(s) \cup Ids(t)
<1> DEFINE st == s \o t
           n == Len(s)
           m == Len(t)
<1>1. /\ n \in Nat /\ m \in Nat /\ DOMAIN s = 1..n /\ DOMAIN t = 1..m
      /\ st \in Seq(Nat) /\ DOMAIN st = 1..(n + m)
      /\ \A i \in 1..n : st[i] = s[i]
      /\ \A i \in (n + 1)..(n + m) : st[i] = t[i - n] /\ i - n \in 1..m
  BY ConcatProperties
<1>2. \A i \in 1..m : st[i + n] = t[i] /\ i + n \in 1..(n + m)
  <2>1. \A i \in 1..m : i + n \in (n + 1)..(n + m) /\ (i + n) - n = i
    BY <1>1
  <2> QED BY <1>1, <2>1
<1> HIDE DEF st, n, m
<1>3. 1..(n + m) = (1..n) \cup ((n + 1)..(n + m))
  BY <1>1
<1>4. Ids(st) = Ids(s) \cup Ids(t)
  <2>1. ASSUME NEW i \in DOMAIN st PROVE st[i] \in Ids(s) \cup Ids(t)
    BY <1>1, <1>3 DEF Ids
  <2>2. ASSUME NEW i \in DOMAIN s PROVE s[i] \in Ids(st)
    BY <1>1, <1>3 DEF Ids
  <2>3. ASSUME NEW i \in DOMAIN t PROVE t[i] \in Ids(st)
    BY <1>1, <1>2 DEF Ids
  <2> QED BY <2>1, <2>2, <2>3 DEF Ids
<1>5. ASSUME NEW i \in DOMAIN st, NEW j \in DOMAIN st, i < j PROVE st[i] < st[j]
  <2>1. CASE i \in 1..n /\ j \in 1..n
    BY <1>1, <1>5, <2>1 DEF Ascending
  <2>2. CASE i \in 1..n /\ j \in (n + 1)..(n + m)
    BY <1>1, <1>5, <2>2 DEF Ids
  <2>3. CASE i \in (n + 1)..(n + m) /\ j \in (n + 1)..(n + m)
    <3>1. i - n \in DOMAIN t /\ j - n \in DOMAIN t /\ i - n < j - n
      BY <1>1, <1>5, <2>3
    <3> QED BY <1>1, <2>3, <3>1 DEF Ascending
  <2>4. CASE i \in (n + 1)..(n + m) /\ j \in 1..n
    BY <1>1, <1>5, <2>4
  <2> QED BY <1>1, <1>3, <2>1, <2>2, <2>3, <2>4
<1> QED BY <1>1, <1>4, <1>5 DEF Ascending, st
\* A page extends what its reader holds up to the cursor it leaves.
LEMMA ReadKeeps ==
  ASSUME RegistryInv, NEW c \in Client, Registry!ReadPage(c)
  PROVE  RegistryInv' /\ (reader'[c].done => Ids(reader'[c].got) = Registry!InCell(reader[c].cell))
<1> DEFINE r == reader[c]
           page == Registry!ListGistsByCell(r.cell, r.cursor, r.limit)
           next == Registry!NextCursor(r.cursor, page)
           n == Len(gist)
<1>1. /\ r \in Readers /\ r.cursor \in Nat /\ r.limit \in Nat \ {0} /\ Holds(r)
      /\ IsPage(page, n, r.cell, r.cursor, r.limit)
      /\ Due(n, r.cell, r.cursor) = {id \in Registry!InCell(r.cell) : id >= r.cursor}
  BY PageOfReader
<1>2. /\ gist' = gist
      /\ reader' = [reader EXCEPT ![c].got = @ \o page, ![c].cursor = next,
                                  ![c].done = Len(page) < r.limit]
  BY DEF Registry!ReadPage
<1>3. reader \in [Client -> Readers] /\ n \in Nat
  BY DEF RegistryInv
<1>4. /\ page \in Seq(Nat) /\ Ascending(page) /\ Len(page) \in Nat /\ Len(page) <= r.limit
      /\ Ids(page) \subseteq Due(n, r.cell, r.cursor)
      /\ \A id \in Due(n, r.cell, r.cursor) \ Ids(page) :
           Len(page) = r.limit /\ \A x \in Ids(page) : x < id
  BY <1>1 DEF IsPage
<1>5. /\ r.got \in Seq(Nat) /\ Ascending(r.got) /\ r.cursor \in 0..(n + 1)
      /\ Ids(r.got) = {id \in Registry!InCell(r.cell) : id < r.cursor}
  BY <1>1 DEF Holds, Readers
<1>6. Registry!InCell(r.cell) \subseteq 1..n
  BY DEF Registry!InCell, Registry!GCount
<1> HIDE DEF page, n
<1>7. next \in 0..(n + 1) /\ Ids(r.got) \cup Ids(page) = {id \in Registry!InCell(r.cell) : id < next}
  <2>1. CASE page = << >>
    <3>1. next = r.cursor /\ Ids(page) = {}
      BY <2>1 DEF Registry!NextCursor, Ids
    <3> QED BY <1>5, <3>1
  <2>2. CASE page # << >>
    <3> DEFINE m == Len(page)
               last == page[m]
    <3>1. /\ m \in Nat /\ DOMAIN page = 1..m /\ m \in DOMAIN page
          /\ last = page[m] /\ next = last + 1
      BY <1>4, <2>2 DEF Registry!NextCursor
    <3> HIDE DEF next, last, m
    <3>2. last \in Ids(page) /\ last \in 1..n /\ last >= r.cursor
      BY <1>1, <1>4, <1>6, <3>1 DEF Ids
    <3>3. ASSUME NEW x \in Ids(page) PROVE x <= last
      <4>1. PICK i \in 1..m : x = page[i]
        BY <3>1 DEF Ids
      <4>2. CASE i = m
        BY <1>3, <3>1, <3>2, <4>1, <4>2
      <4>3. CASE i < m
        BY <1>4, <3>1, <3>2, <4>1, <4>3, <1>6, <1>1 DEF Ascending
      <4> QED BY <3>1, <4>1, <4>2, <4>3
    <3>4. ASSUME NEW id \in Registry!InCell(r.cell), id >= r.cursor
          PROVE  id \in Ids(page) <=> id < next
      <4>1. id \in Due(n, r.cell, r.cursor) /\ id \in Nat /\ last \in Nat
        BY <1>1, <1>6, <3>2, <3>4
      <4>2. id \in Ids(page) => id <= last
        BY <3>3
      <4>3. id \notin Ids(page) => last < id
        BY <1>4, <3>2, <4>1
      <4> QED BY <3>1, <4>1, <4>2, <4>3
    <3>5. ASSUME NEW id \in Registry!InCell(r.cell), id < r.cursor
          PROVE  id \in Ids(r.got) /\ id < next
      BY <1>3, <1>5, <1>6, <3>1, <3>2, <3>5
    <3>6. \A id \in Registry!InCell(r.cell) : id < r.cursor \/ id >= r.cursor
      BY <1>1, <1>6
    <3>7. next \in 0..(n + 1)
      BY <1>3, <3>1, <3>2
    <3>8. Ids(r.got) \cup Ids(page) \subseteq Registry!InCell(r.cell)
      BY <1>1, <1>4, <1>5
    <3>9. \A id \in Ids(r.got) : id < r.cursor
      BY <1>5
    <3>10. \A id \in Ids(page) : id >= r.cursor
      BY <1>1, <1>4
    <3>11. ASSUME NEW id \in Registry!InCell(r.cell)
           PROVE  id \in Ids(r.got) \cup Ids(page) <=> id < next
      BY <3>4, <3>5, <3>6, <3>9
    <3> QED BY <3>7, <3>8, <3>11
  <2> QED BY <2>1, <2>2
<1>8. \A x \in Ids(r.got), y \in Ids(page) : x < y
  <2>1. \A x \in Ids(r.got) : x \in Nat /\ x < r.cursor
    BY <1>5, <1>6
  <2>2. \A y \in Ids(page) : y \in Nat /\ y >= r.cursor
    BY <1>1, <1>4, <1>6
  <2> QED BY <1>1, <2>1, <2>2
<1>9. /\ r.got \o page \in Seq(Nat) /\ Ascending(r.got \o page)
      /\ Ids(r.got \o page) = Ids(r.got) \cup Ids(page)
  BY <1>4, <1>5, <1>8, AscendingConcat
<1> DEFINE s == [r EXCEPT !.got = r.got \o page, !.cursor = next, !.done = Len(page) < r.limit]
<1>10. /\ s.got = r.got \o page /\ s.cursor = next /\ s.cell = r.cell /\ s.limit = r.limit
       /\ s.done = (Len(page) < r.limit)
  BY <1>1 DEF Readers
<1>11. s \in Readers
  <2>1. next \in Nat
    BY <1>3, <1>7
  <2>2. (Len(page) < r.limit) \in BOOLEAN
    OBVIOUS
  <2> QED BY <1>1, <1>9, <2>1, <2>2 DEF Readers
<1>12. reader' = [reader EXCEPT ![c] = s]
  BY <1>2, <1>3
<1> HIDE DEF s, next
<1>13. \A d \in Client : reader'[d] = IF d = c THEN s ELSE reader[d]
  BY <1>3, <1>12
<1>14. reader' \in [Client -> Readers]
  BY <1>3, <1>11, <1>12
<1>15. \A cell \in Cell : Registry!InCell(cell)' = Registry!InCell(cell)
  BY <1>2 DEF Registry!InCell, Registry!GCount
<1>16. Holds(s)
  BY <1>7, <1>9, <1>10 DEF Holds, n
<1>17. ASSUME NEW d \in Client PROVE Holds(reader'[d])
  BY <1>13, <1>16 DEF RegistryInv
<1>18. (\A d \in Client : Holds(reader[d]))'
  BY <1>2, <1>17 DEF Holds, Registry!InCell, Registry!GCount
<1>19. gist' \in Seq(Registry!Gist) /\ Len(gist') <= MaxGists
  BY <1>2 DEF RegistryInv
<1>20. reader'[c].done => Ids(reader'[c].got) = Registry!InCell(r.cell)
  <2> SUFFICES ASSUME reader'[c].done PROVE Ids(s.got) = Registry!InCell(r.cell)
    BY <1>13
  <2>1. Len(page) < r.limit
    BY <1>10, <1>13
  <2>2. Due(n, r.cell, r.cursor) \subseteq Ids(page)
    BY <1>1, <1>4, <2>1
  <2>3. \A id \in Registry!InCell(r.cell) : id < r.cursor \/ id >= r.cursor
    BY <1>1, <1>6
  <2>4. Registry!InCell(r.cell) \subseteq Ids(r.got) \cup Ids(page)
    BY <1>1, <1>5, <2>2, <2>3
  <2>5. Ids(r.got) \cup Ids(page) \subseteq Registry!InCell(r.cell)
    BY <1>1, <1>4, <1>5
  <2> QED BY <1>9, <1>10, <2>4, <2>5
<1> QED BY <1>14, <1>18, <1>19, <1>20 DEF RegistryInv, Registry!Gist
LEMMA StepRegistry ==
  ASSUME RegistryInv, [Registry!Next]_(Registry!vars) PROVE RegistryInv'
<1>1. CASE UNCHANGED Registry!vars
  <2>1. gist' = gist /\ reader' = reader
    BY <1>1 DEF Registry!vars
  <2> QED BY <2>1 DEF RegistryInv, Holds, Registry!InCell, Registry!GCount, Registry!Gist
<1>2. ASSUME NEW cell \in Cell, NEW hash \in Hash, Registry!PostGist(cell, hash)
      PROVE  RegistryInv'
  BY <1>2, PostKeeps
<1>3. ASSUME NEW c \in Client, Registry!ReadPage(c) PROVE RegistryInv'
  BY <1>3, ReadKeeps
<1> QED BY <1>1, <1>2, <1>3 DEF Registry!Next

\* A sequence in ascending order has no more elements than there are numbers for
\* them.
LEMMA AscendingIsShort ==
  ASSUME NEW s \in Seq(Nat), Ascending(s), NEW n \in Nat, Ids(s) \subseteq 1..n
  PROVE  s \in Seq(1..n) /\ Len(s) <= n
<1>1. Len(s) \in Nat /\ DOMAIN s = 1..Len(s) /\ s = [i \in 1..Len(s) |-> s[i]]
  OBVIOUS
<1>2. \A i \in 1..Len(s) : s[i] \in 1..n
  BY <1>1 DEF Ids
<1>3. s \in [1..Len(s) -> 1..n]
  BY <1>1, <1>2
<1>4. s \in Injection(1..Len(s), 1..n)
  <2>1. ASSUME NEW i \in 1..Len(s), NEW j \in 1..Len(s), s[i] = s[j] PROVE i = j
    <3>1. ~(i < j) /\ ~(j < i)
      BY <1>1, <1>2, <2>1 DEF Ascending
    <3> QED BY <1>1, <3>1
  <2> QED BY <1>3, <2>1 DEF Injection, IsInjective
<1>5. /\ IsFiniteSet(1..n) /\ Cardinality(1..n) = n
      /\ IsFiniteSet(1..Len(s)) /\ Cardinality(1..Len(s)) = Len(s)
  BY <1>1, FS_Interval
<1>6. Len(s) <= n
  BY <1>4, <1>5, FS_Injection
<1> QED BY <1>1, <1>3, <1>6

LEMMA RegistryTypes == RegistryInv => Registry!TypeOK
<1> SUFFICES ASSUME RegistryInv PROVE Registry!TypeOK
  OBVIOUS
<1>1. Len(gist) \in Nat /\ Len(gist) <= MaxGists
  BY DEF RegistryInv
<1>2. ASSUME NEW c \in Client
      PROVE  /\ reader[c].cursor \in 0..(MaxGists + 1)
             /\ reader[c].got \in Seq(1..MaxGists)
             /\ Len(reader[c].got) <= MaxGists
  <2>1. reader[c] \in Readers /\ Holds(reader[c])
    BY DEF RegistryInv
  <2>2. reader[c].cursor \in 0..(MaxGists + 1)
    BY <1>1, <2>1, RegistryConstants DEF Holds
  <2>3. Ids(reader[c].got) \subseteq 1..MaxGists
    BY <1>1, <2>1, RegistryConstants DEF Holds, Registry!InCell, Registry!GCount
  <2>4. reader[c].got \in Seq(Nat) /\ Ascending(reader[c].got)
    BY <2>1 DEF Holds, Readers
  <2> QED BY <2>2, <2>3, <2>4, RegistryConstants, AscendingIsShort
<1> QED BY <1>1, <1>2 DEF Registry!TypeOK, RegistryInv, Registry!GCount

LEMMA RegistryPages == RegistryInv => PagingIsExact
<1> SUFFICES ASSUME RegistryInv PROVE PagingIsExact
  OBVIOUS
<1>1. Len(gist) \in Nat
  BY DEF RegistryInv
<1>2. ASSUME NEW cell \in Cell, NEW cursor \in 0..(Len(gist) + 1), NEW limit \in Limit
      PROVE  LET page == Registry!ListGistsByCell(cell, cursor, limit)
                 ids == {page[i] : i \in DOMAIN page}
                 due == {id \in Registry!InCell(cell) : id >= cursor}
             IN /\ ids \subseteq due
                /\ \A i, j \in DOMAIN page : i < j => page[i] < page[j]
                /\ \A id \in due \ ids : Len(page) = limit /\ \A x \in ids : x < id
  <2> DEFINE page == Registry!ListGistsByCell(cell, cursor, limit)
  <2>1. limit \in Nat \ {0} /\ cursor \in Nat
    BY <1>1, <1>2, RegistryConstants
  <2>2. IsPage(page, Len(gist), cell, cursor, limit)
    BY <1>1, <2>1, PageIsFirst
  <2>3. Due(Len(gist), cell, cursor) = {id \in Registry!InCell(cell) : id >= cursor}
    BY DEF Due, Registry!InCell, Registry!GCount
  <2>4. Ids(page) = {page[i] : i \in DOMAIN page}
    BY DEF Ids
  <2> HIDE DEF page
  <2>5. /\ Ids(page) \subseteq {id \in Registry!InCell(cell) : id >= cursor}
        /\ \A i, j \in DOMAIN page : i < j => page[i] < page[j]
        /\ \A id \in {id \in Registry!InCell(cell) : id >= cursor} \ Ids(page) :
             Len(page) = limit /\ \A x \in Ids(page) : x < id
    BY <2>2, <2>3 DEF IsPage, Ascending
  <2> QED BY <2>4, <2>5 DEF page
<1>3. Registry!PageIsFirstMatches
  BY <1>2 DEF Registry!PageIsFirstMatches, Registry!GCount
<1>4. Registry!PagingIsExact
  BY DEF RegistryInv, Holds, Ids, Ascending, Registry!PagingIsExact
<1> QED BY <1>3, <1>4 DEF PagingIsExact
-----------------------------------------------------------------------------
(* The composition *)

\* A step of the composition is one of each contract or leaves it as it is.
LEMMA StepsOfEach ==
  [ContractsNext]_contractVars =>
    /\ [Next]_vars /\ [Wallet!Next]_(Wallet!vars) /\ [Registry!Next]_(Registry!vars)
    /\ [Gov!Next]_(Gov!vars)
BY DEF ContractsNext, contractVars, walletVars, registryVars, govVars, Wallet!vars,
   Registry!vars, Gov!vars, Gov!storage

\* Side by side, each contract still behaves as its own specification says.
THEOREM EachContractRuns == ContractsSpec => Spec /\ Wallet!Spec /\ Registry!Spec /\ Gov!Spec
<1>1. ContractsInit => Init /\ Wallet!Init /\ Registry!Init /\ Gov!Init
  BY DEF ContractsInit
<1> QED BY <1>1, StepsOfEach, PTL DEF ContractsSpec, Spec, Wallet!Spec, Registry!Spec, Gov!Spec

LEMMA WalletRuns == Wallet!Spec => WalletProofs!Spec
<1>1. Wallet!Init => WalletProofs!Init
  BY DEF Wallet!Init, WalletProofs!Init, Wallet!EmptyStore, WalletProofs!EmptyStore,
     Wallet!Idle, WalletProofs!Idle
<1>2. [Wallet!Next]_(Wallet!vars) => [WalletProofs!Next]_(WalletProofs!vars)
  BY DEF Wallet!Next, WalletProofs!Next, Wallet!vars, WalletProofs!vars,
     Wallet!Initialize, WalletProofs!Initialize, Wallet!SetAdmin, WalletProofs!SetAdmin,
     Wallet!Begin, WalletProofs!Begin, Wallet!CreateOne, WalletProofs!CreateOne,
     Wallet!RecoverOne, WalletProofs!RecoverOne, Wallet!End, WalletProofs!End,
     Wallet!Panic, WalletProofs!Panic, Wallet!Tick, WalletProofs!Tick,
     Wallet!Idle, WalletProofs!Idle, Wallet!IsAdmin, WalletProofs!IsAdmin,
     Wallet!Frame, WalletProofs!Frame, Wallet!HasWallet, WalletProofs!HasWallet,
     Wallet!Current, WalletProofs!Current, Wallet!HasNext, WalletProofs!HasNext,
     Wallet!Answer, WalletProofs!Answer, Wallet!Seen, WalletProofs!Seen,
     Wallet!HasIdLeft, WalletProofs!HasIdLeft, Wallet!WithWallet, WalletProofs!WithWallet,
     Wallet!RecoveryCode, WalletProofs!RecoveryCode, Wallet!Moved, WalletProofs!Moved,
     Wallet!RolledBack, WalletProofs!RolledBack
<1> QED BY <1>1, <1>2, PTL DEF Wallet!Spec, WalletProofs!Spec

LEMMA WalletConstants == WalletProofs!BatchWalletConstants
BY ContractsConstants DEF ContractsConstants, Wallet!BatchWalletConstants,
   WalletProofs!BatchWalletConstants, Wallet!IsFiniteSet, WalletProofs!IsFiniteSet

LEMMA GovRuns == Gov!Spec => GovProofs!Spec
<1>1. Gov!Init => GovProofs!Init
  BY DEF Gov!Init, GovProofs!Init, Gov!InitFresh, GovProofs!InitFresh,
     Gov!InitUpgraded, GovProofs!InitUpgraded, Gov!EmptyStorage, GovProofs!EmptyStorage,
     Gov!LegacyProposal, GovProofs!LegacyProposal, Gov!Backers, GovProofs!Backers,
     Gov!Voters, GovProofs!Voters, Gov!ProposalId, GovProofs!ProposalId,
     Gov!Proposal, GovProofs!Proposal, Gov!Tally, GovProofs!Tally,
     Gov!Timestamp, GovProofs!Timestamp, Gov!Cardinality, GovProofs!Cardinality
<1>2. [Gov!Next]_(Gov!vars) => [GovProofs!Next]_(GovProofs!vars)
  BY DEF Gov!Next, GovProofs!Next, Gov!vars, GovProofs!vars, Gov!storage, GovProofs!storage,
     Gov!Tick, GovProofs!Tick, Gov!Initialize, GovProofs!Initialize,
     Gov!UpdateAdmin, GovProofs!UpdateAdmin, Gov!CreateProposal, GovProofs!CreateProposal,
     Gov!VoteProposal, GovProofs!VoteProposal,
     Gov!SetExecutorAllowlist, GovProofs!SetExecutorAllowlist,
     Gov!ExecuteProposal, GovProofs!ExecuteProposal, Gov!MigrateVotes, GovProofs!MigrateVotes,
     Gov!Tally, GovProofs!Tally, Gov!ProposalId, GovProofs!ProposalId,
     Gov!IsAdmin, GovProofs!IsAdmin, Gov!CanIncrement, GovProofs!CanIncrement,
     Gov!Indexed, GovProofs!Indexed, Gov!IsOpen, GovProofs!IsOpen,
     Gov!HasVoted, GovProofs!HasVoted, Gov!MayExecute, GovProofs!MayExecute,
     Gov!Approved, GovProofs!Approved, Gov!Configured, GovProofs!Configured
<1> QED BY <1>1, <1>2, PTL DEF Gov!Spec, GovProofs!Spec

LEMMA GovConstants == GovProofs!GovernanceConstants
BY ContractsConstants DEF ContractsConstants, Gov!GovernanceConstants,
   GovProofs!GovernanceConstants, Gov!IsFiniteSet, GovProofs!IsFiniteSet

LEMMA RegistryKeeps == ContractsSpec => []RegistryInv
BY EachContractRuns, InitRegistry, StepRegistry, PTL DEF Registry!Spec

\* In the storage of every contract an entry has the type the contract reads it
\* with, whatever calls came before and wherever a batch was undone.
THEOREM ContractsTypeCorrect == ContractsSpec => []StorageTypeOK
<1>1. MultisigConstants
  BY ContractsConstants DEF ContractsConstants
<1>2. WalletProofs!TypeOK => Wallet!TypeOK
  BY DEF WalletProofs!TypeOK, Wallet!TypeOK, WalletProofs!Store, Wallet!Store,
     WalletProofs!Wallet, Wallet!Wallet, WalletProofs!U64, Wallet!U64,
     WalletProofs!Idle, Wallet!Idle
<1>3. GovProofs!TypeOK => Gov!TypeOK
  BY DEF GovProofs!TypeOK, Gov!TypeOK, GovProofs!Tally, Gov!Tally,
     GovProofs!Proposal, Gov!Proposal, GovProofs!Timestamp, Gov!Timestamp,
     GovProofs!ProposalId, Gov!ProposalId, GovProofs!VoteEntry, Gov!VoteEntry
<1> QED BY <1>1, <1>2, <1>3, EachContractRuns, WalletRuns, WalletConstants, GovRuns,
       GovConstants, MultisigTypeCorrect, WalletProofs!WalletTypeCorrect,
       GovProofs!TypeCorrect, RegistryKeeps, RegistryTypes, PTL DEF StorageTypeOK

\* With several proposals for one key executed out of order the value in force is
\* that of the last execution, and none executes twice.
THEOREM ConfigStaysLast == ContractsSpec => []ConfigIsLastExecuted
<1>1. GovProofs!ConfigIsLastExecuted => ConfigIsLastExecuted
  BY DEF GovProofs!ConfigIsLastExecuted, ConfigIsLastExecuted, Gov!ConfigIsLastExecuted,
     GovProofs!LastFor, Gov!LastFor
<1> QED BY <1>1, EachContractRuns, GovRuns, GovConstants, GovProofs!ConfigFollowsExecutions, PTL

\* The list of each proposer names its proposals once each, in order.
THEOREM IndexStays == ContractsSpec => []IndexIsComplete
<1>1. GovProofs!IndexIsComplete => IndexIsComplete
  BY DEF GovProofs!IndexIsComplete, IndexIsComplete, Gov!IndexIsComplete
<1> QED BY <1>1, EachContractRuns, GovRuns, GovConstants, GovProofs!IndexStaysComplete, PTL

\* Through every prefix of a batch each id is held by one account and none is
\* lost.
THEOREM WalletsStay == ContractsSpec => []WalletsAreIssued
<1>1. WalletProofs!WalletsAreIssued => WalletsAreIssued
  BY DEF WalletProofs!WalletsAreIssued, WalletsAreIssued, Wallet!WalletsAreIssued,
     WalletProofs!Held, Wallet!Held, WalletProofs!HasWallet, Wallet!HasWallet
<1> QED BY <1>1, EachContractRuns, WalletRuns, WalletConstants,
       WalletProofs!WalletsStayIssued, PTL

\* As many wallets were issued since a batch began as it reports successes.
THEOREM ResultsTell == ContractsSpec => []ResultsMatchEffect
<1>1. WalletProofs!ResultsMatchEffect => ResultsMatchEffect
  BY DEF WalletProofs!ResultsMatchEffect, ResultsMatchEffect, Wallet!ResultsMatchEffect,
     WalletProofs!Successes, Wallet!Successes, WalletProofs!Idle, Wallet!Idle,
     WalletProofs!Cardinality, Wallet!Cardinality
<1> QED BY <1>1, EachContractRuns, WalletRuns, WalletConstants,
       WalletProofs!ResultsTellEffect, PTL

\* What others see of the wallets changes by whole batches.
THEOREM BatchesStayAtomic == ContractsSpec => BatchIsAtomic
<1>1. WalletProofs!BatchIsAtomic => BatchIsAtomic
  BY DEF WalletProofs!BatchIsAtomic, BatchIsAtomic, Wallet!BatchIsAtomic,
     WalletProofs!Committed, Wallet!Committed, WalletProofs!Idle, Wallet!Idle,
     WalletProofs!vars, Wallet!vars, WalletProofs!Issued, Wallet!Issued
<1> QED BY <1>1, EachContractRuns, WalletRuns, WalletConstants,
       WalletProofs!BatchesAreAtomic, PTL

\* A page is the first gists of its cell from the cursor on, and the pages of a
\* reader hold every gist below its cursor once, however posts fall between them.
THEOREM PagesAddUp == ContractsSpec => []PagingIsExact
BY RegistryKeeps, RegistryPages, PTL

\* A reader that gets a page that is not full holds every gist of its cell.
THEOREM LastPageIsLast == ContractsSpec => DoneMeansAll
<1>1. RegistryInv /\ [Registry!Next]_(Registry!vars) =>
        [\A c \in Client : reader'[c].done /\ ~reader[c].done =>
           {reader'[c].got[i] : i \in DOMAIN reader'[c].got}
             = Registry!InCell(reader[c].cell)]_(Registry!vars)
  <2> SUFFICES ASSUME RegistryInv, Registry!Next, NEW c \in Client,
                      reader'[c].done, ~reader[c].done
               PROVE  Ids(reader'[c].got) = Registry!InCell(reader[c].cell)
    BY DEF Ids
  <2>1. ASSUME NEW cell \in Cell, NEW hash \in Hash, Registry!PostGist(cell, hash) PROVE FALSE
    BY <2>1 DEF Registry!PostGist
  <2>2. ASSUME NEW d \in Client, Registry!ReadPage(d)
        PROVE  Ids(reader'[c].got) = Registry!InCell(reader[c].cell)
    <3>1. CASE c = d
      BY <2>2, <3>1, ReadKeeps
    <3>2. CASE c # d
      <4>1. reader'[c] = reader[c]
        BY <2>2, <3>2 DEF Registry!ReadPage, RegistryInv
      <4> QED BY <4>1
    <3> QED BY <3>1, <3>2
  <2> QED BY <2>1, <2>2 DEF Registry!Next
<1> QED BY <1>1, RegistryKeeps, EachContractRuns, PTL
       DEF Registry!Spec, DoneMeansAll, Registry!DoneMeansAll
=============================================================================

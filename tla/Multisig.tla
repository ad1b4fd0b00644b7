------------------------------ MODULE Multisig ------------------------------
(***************************************************************************)
(* The on-chain multi-signature contract, contracts/multisig/src/lib.rs.   *)
(* As in Governance, a call that does not panic is one action.  Signer     *)
(* operations compare the caller with the signer list only; where, how     *)
(* much and what a transaction moves is its body, one value.               *)
(***************************************************************************)
EXTENDS Integers, Sequences, FiniteSets

CONSTANTS
  Address,    \* accounts
  NoAddress,  \* value of an Admin entry that was never written
  Body,       \* (to, amount, payload, asset) of a transaction
  SignerList, \* the signer lists an admin may pass, well formed or not
  Amount,     \* high-value thresholds an admin may pass, some negative
  U32Max,     \* largest u32: approval counts
  U64Max,     \* largest u64: transaction ids
  I128Max     \* largest i128

MultisigConstants ==
  /\ IsFiniteSet(Address)
  /\ NoAddress \notin Address \cup Nat
  /\ SignerList \subseteq Seq(Address)
  /\ Amount \subseteq Int
  /\ U32Max \in Nat
  /\ U64Max \in Nat
  /\ I128Max \in Nat

VARIABLES
  admin,              \* Admin
  signers,            \* Signers; lists with repeats are refused, so a set
  threshold,          \* Threshold
  highValueThreshold, \* HighValueThreshold, which no operation reads
  nextTxId,           \* NextTxId, the last id handed out
  pendingTx,          \* PendingTx(id), a function on the ids stored
  approval,           \* Approval(id, address)
  approvalCount,      \* ApprovalCount(id)
  executions          \* ids in the transaction_executed events, oldest first

vars == <<admin, signers, threshold, highValueThreshold, nextTxId, pendingTx,
          approval, approvalCount, executions>>

TxId == 1..U64Max
PendingTx == [from: Address, body: Body, executed: BOOLEAN]

Approvers(id) == {a \in Address : approval[<<id, a>>]}

Init ==
  /\ admin = NoAddress
  /\ signers = {}
  /\ threshold = 0
  /\ highValueThreshold = I128Max
  /\ nextTxId = 0
  /\ pendingTx = << >>
  /\ approval = [x \in TxId \X Address |-> FALSE]
  /\ approvalCount = [id \in TxId |-> 0]
  /\ executions = << >>
-----------------------------------------------------------------------------
Initialize(a) ==
  /\ admin = NoAddress
  /\ admin' = a
  /\ signers' = {} /\ threshold' = 0
  /\ highValueThreshold' = I128Max
  /\ nextTxId' = 0
  /\ UNCHANGED <<pendingTx, approval, approvalCount, executions>>

IsAdmin(caller) == admin = caller /\ admin # NoAddress

\* validate_signer_config.
FaultyValidConfig(list, n) ==
  /\ list # << >> /\ n # 0
  /\ \A i, j \in DOMAIN list : list[i] = list[j] => i = j
ValidConfig(list, n) ==
  /\ list # << >>
  /\ n \in 1..Len(list)
  /\ \A i, j \in DOMAIN list : list[i] = list[j] => i = j

\* Approvals already recorded stay as they are.
SetSigners(caller, list, n) ==
  /\ IsAdmin(caller)
  /\ ValidConfig(list, n)
  /\ signers' = {list[i] : i \in DOMAIN list}
  /\ threshold' = n
  /\ UNCHANGED <<admin, highValueThreshold, nextTxId, pendingTx, approval,
                 approvalCount, executions>>

SetHighValueThreshold(caller, amount) ==
  /\ IsAdmin(caller)
  /\ amount >= 0
  /\ highValueThreshold' = amount
  /\ UNCHANGED <<admin, signers, threshold, nextTxId, pendingTx, approval,
                 approvalCount, executions>>

\* ensure_multisig_configured.
Configured == signers # {} /\ threshold \in 1..Cardinality(signers)

\* next_tx_id: the checked addition.
FaultyHasTxIdLeft == nextTxId <= U64Max
HasTxIdLeft == nextTxId < U64Max

SubmitTransaction(caller, body) ==
  LET id == nextTxId + 1 IN
  /\ caller \in signers
  /\ Configured
  /\ HasTxIdLeft
  /\ nextTxId' = id
  /\ pendingTx' = [t \in DOMAIN pendingTx \cup {id} |->
                     IF t = id
                     THEN [from |-> caller, body |-> body, executed |-> FALSE]
                     ELSE pendingTx[t]]
  /\ UNCHANGED <<admin, signers, threshold, highValueThreshold, approval,
                 approvalCount, executions>>

\* What approve_transaction and execute_transaction check first.
FaultyIsPending(caller, id) == caller \in signers /\ id \in DOMAIN pendingTx
IsPending(caller, id) ==
  /\ caller \in signers
  /\ id \in DOMAIN pendingTx
  /\ ~pendingTx[id].executed

FaultyHasApproval(id, signer) == FALSE
HasApproval(id, signer) == approval[<<id, signer>>]

\* approve_transaction with record_approval.
ApproveTransaction(caller, id) ==
  /\ IsPending(caller, id)
  /\ ~HasApproval(id, caller)
  /\ approvalCount[id] < U32Max
  /\ approval' = [approval EXCEPT ![<<id, caller>>] = TRUE]
  /\ approvalCount' = [approvalCount EXCEPT ![id] = @ + 1]
  /\ UNCHANGED <<admin, signers, threshold, highValueThreshold, nextTxId,
                 pendingTx, executions>>

\* The count is compared with the threshold in force now; whether those who
\* approved are still signers is not asked.
ExecuteTransaction(caller, id) ==
  /\ IsPending(caller, id)
  /\ approvalCount[id] >= threshold
  /\ pendingTx' = [pendingTx EXCEPT ![id].executed = TRUE]
  /\ executions' = Append(executions, id)
  /\ UNCHANGED <<admin, signers, threshold, highValueThreshold, nextTxId,
                 approval, approvalCount>>

Next ==
  \/ \E a \in Address : Initialize(a)
  \/ \E a \in Address, list \in SignerList, n \in 0..U32Max :
       SetSigners(a, list, n)
  \/ \E a \in Address, x \in Amount : SetHighValueThreshold(a, x)
  \/ \E a \in Address, b \in Body : SubmitTransaction(a, b)
  \/ \E a \in Address, id \in TxId : ApproveTransaction(a, id)
  \/ \E a \in Address, id \in TxId : ExecuteTransaction(a, id)

Spec == Init /\ [][Next]_vars
-----------------------------------------------------------------------------
\* Every storage entry holds a value of its contract type, and transaction
\* ids are handed out without gaps.
TypeOK ==
  /\ admin \in Address \cup {NoAddress}
  /\ signers \subseteq Address
  /\ threshold \in 0..U32Max
  /\ highValueThreshold \in Int
  /\ nextTxId \in 0..U64Max
  /\ pendingTx \in [1..nextTxId -> PendingTx]
  /\ approval \in [TxId \X Address -> BOOLEAN]
  /\ approvalCount \in [TxId -> 0..U32Max]
  /\ executions \in Seq(TxId)

\* The counter that is compared with the threshold and the per-account entries
\* are written apart; the counter never counts an account twice.
CountMatchesApprovals ==
  \A id \in TxId : approvalCount[id] = Cardinality(Approvers(id))

\* Whatever the admin does to the signer list and the threshold while a
\* transaction waits, the signers left can still bring it to the threshold.
PendingCanPass ==
  signers # {} =>
    \A id \in DOMAIN pendingTx : ~pendingTx[id].executed =>
      approvalCount[id] + Cardinality(signers \ Approvers(id)) >= threshold

\* The contract implements QuorumDecisions: content is fixed at submission, an
\* account approves once, nothing is executed twice or approved afterwards,
\* and at the moment of execution as many distinct accounts have approved as
\* the threshold then asks for, across every change of the configuration.
Decisions == INSTANCE QuorumDecisions WITH
  Account <- Address,
  Motion <- TxId,
  Content <- [from: Address, body: Body],
  NoQuorum <- NoAddress,
  quorum <- IF admin = NoAddress THEN NoAddress ELSE threshold,
  content <- [id \in DOMAIN pendingTx |->
                [from |-> pendingTx[id].from, body |-> pendingTx[id].body]],
  backers <- [id \in TxId |-> Approvers(id)],
  opponents <- [id \in TxId |-> {}],
  decided <- executions,
  imported <- TRUE
ImplementsDecisions == Decisions!Spec
=============================================================================

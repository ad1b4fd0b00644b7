----------------------------- MODULE Governance -----------------------------
(***************************************************************************)
(* The on-chain governance contract, contracts/governance/src/lib.rs.      *)
(*                                                                         *)
(* A call of the contract runs alone and a panic rolls all of its writes   *)
(* back, so each entry point is one action whose guard is the conjunction  *)
(* of the checks that do not panic.  Calls carry the authorisation of      *)
(* their caller (require_auth), hence callers range over all addresses and *)
(* only the comparisons the code makes with them are guards.               *)
(***************************************************************************)
EXTENDS Integers, Sequences, FiniteSets

CONSTANTS
  Address,      \* accounts that call the contract
  NoAddress,    \* value of an Admin entry that was never written
  Key,          \* config keys, the valid ones (1 to 256 characters)
  AdminKey,     \* the keys is_admin_config_key recognises
  Value,        \* config values
  NoValue,      \* value of a ConfigValue entry that was never written
  Duration,     \* voting periods the proposers ask for, in ledger seconds
  U32Max,       \* largest u32: the tallies and the proposal count
  MaxProposals, \* bound on the ids an instance creates; U32Max in the code
  U64Max        \* largest u64: ledger timestamps

ASSUME GovernanceConstants ==
  /\ IsFiniteSet(Address)
  /\ NoAddress \notin Address \cup Nat
  /\ AdminKey \subseteq Key
  /\ NoValue \notin Value
  /\ Duration \subseteq Nat
  /\ U32Max \in Nat
  /\ MaxProposals \in 0..U32Max
  /\ U64Max \in Nat

VARIABLES
  admin,               \* Admin
  requiredApprovals,   \* RequiredApprovals
  proposalCount,       \* ProposalCount
  proposal,            \* Proposal(id), a function on the ids stored
  userVote,            \* UserVote(id, address)
  configValue,         \* ConfigValue(key)
  proposalsByProposer, \* ProposalsByProposer(address)
  migrationDone,       \* MigrationDone
  executorAllowlist,   \* ExecutorAllowlist, as the set of its members
  now,                 \* the ledger timestamp
  executions,          \* ids in the proposal_executed events, oldest first
  upgradedAt           \* proposals that predate the present code: not a
                       \* storage entry, it only says where a run started

storage == <<admin, requiredApprovals, proposalCount, proposal, userVote,
             configValue, proposalsByProposer, migrationDone,
             executorAllowlist, executions, upgradedAt>>
vars == <<storage, now>>

ProposalId == 1..MaxProposals
Timestamp == 0..U64Max
Tally == 0..U32Max

\* A UserVote entry: not written, the bool of the earlier code, or a
\* VoteRecord with against = FALSE or TRUE (vote_power is always 1).
VoteEntry == {"absent", "legacy", "for", "against"}

Proposal ==
  [proposer: Address, key: Key, value: Value, approvals: Tally,
   rejections: Tally, executed: BOOLEAN, deadline: Timestamp]

Voters(id, kinds) == {a \in Address : userVote[<<id, a>>] \in kinds}
Backers(id) == Voters(id, {"legacy", "for"})
Opponents(id) == Voters(id, {"against"})
-----------------------------------------------------------------------------
(***************************************************************************)
(* Where a run of this code starts: an empty storage, or the storage left  *)
(* by the earlier code, in which votes are bools that were all approvals   *)
(* (l.416-417), rejections did not exist and nothing was indexed.          *)
(***************************************************************************)
EmptyStorage ==
  /\ configValue = [k \in Key |-> NoValue]
  /\ proposalsByProposer = [a \in Address |-> << >>]
  /\ migrationDone = FALSE
  /\ executorAllowlist = {}
  /\ executions = << >>
  /\ now = 0

InitFresh ==
  /\ EmptyStorage
  /\ admin = NoAddress
  /\ requiredApprovals = 0
  /\ proposalCount = 0
  /\ proposal = << >>
  /\ userVote = [v \in ProposalId \X Address |-> "absent"]
  /\ upgradedAt = 0

LegacyProposal(p, backers) ==
  /\ p.approvals = Cardinality(backers)
  /\ p.rejections = 0
  /\ ~p.executed

InitUpgraded ==
  /\ EmptyStorage
  /\ admin \in Address
  /\ requiredApprovals \in Tally
  /\ proposalCount \in ProposalId
  /\ upgradedAt = proposalCount
  /\ userVote \in [ProposalId \X Address -> {"absent", "legacy"}]
  /\ \A id \in ProposalId : id > proposalCount => Backers(id) = {}
  /\ proposal \in [1..proposalCount -> Proposal]
  /\ \A id \in 1..proposalCount : LegacyProposal(proposal[id], Backers(id))

Init == InitFresh \/ InitUpgraded
-----------------------------------------------------------------------------
\* initialize_governance: open to anyone, once.
Initialize(a, required) ==
  /\ admin = NoAddress
  /\ admin' = a
  /\ requiredApprovals' = required
  /\ proposalCount' = 0
  /\ UNCHANGED <<proposal, userVote, configValue, proposalsByProposer,
                 migrationDone, executorAllowlist, executions, upgradedAt, now>>

\* require_admin: get of an unwritten Admin panics, as does another caller.
IsAdmin(caller) == admin = caller /\ admin # NoAddress

UpdateAdmin(caller, newAdmin) ==
  /\ IsAdmin(caller)
  /\ admin' = newAdmin
  /\ UNCHANGED <<requiredApprovals, proposalCount, proposal, userVote,
                 configValue, proposalsByProposer, migrationDone,
                 executorAllowlist, executions, upgradedAt, now>>

\* u32 checked_add(1): None, hence a panic, at the largest value.
FaultyCanIncrement(n) == n <= U32Max
CanIncrement(n) == n < U32Max

\* ids.push_back(new_id) for the proposer, kept under the proposer's own key.
FaultyIndexed(proposer, id) ==
  [a \in Address |-> Append(proposalsByProposer[a], id)]
Indexed(proposer, id) ==
  [proposalsByProposer EXCEPT ![proposer] = Append(@, id)]

\* create_proposal: the checked additions bound the new id and the deadline.
CreateProposal(proposer, key, value, duration) ==
  LET newId == proposalCount + 1 IN
  /\ duration # 0
  /\ admin # NoAddress
  /\ CanIncrement(proposalCount)
  /\ newId \in ProposalId
  /\ now + duration <= U64Max
  /\ proposal' = [id \in DOMAIN proposal \cup {newId} |->
                    IF id = newId
                    THEN [proposer |-> proposer, key |-> key, value |-> value,
                          approvals |-> 0, rejections |-> 0,
                          executed |-> FALSE, deadline |-> now + duration]
                    ELSE proposal[id]]
  /\ proposalCount' = newId
  /\ proposalsByProposer' = Indexed(proposer, newId)
  /\ UNCHANGED <<admin, requiredApprovals, userVote, configValue,
                 migrationDone, executorAllowlist, executions, upgradedAt, now>>

\* The checks vote_proposal and execute_proposal share: stored, not executed,
\* and the ledger not past the deadline (the deadline itself still counts).
FaultyIsOpen(id) == id \in DOMAIN proposal /\ ~proposal[id].executed
IsOpen(id) ==
  /\ id \in DOMAIN proposal
  /\ ~proposal[id].executed
  /\ now <= proposal[id].deadline

\* has(&vote_key): any entry, whatever its form, is a vote already cast.
FaultyHasVoted(id, voter) == userVote[<<id, voter>>] \in {"for", "against"}
HasVoted(id, voter) == userVote[<<id, voter>>] # "absent"

VoteProposal(voter, id, against) ==
  /\ IsOpen(id)
  /\ ~HasVoted(id, voter)
  /\ userVote' = [userVote EXCEPT ![<<id, voter>>] =
                    IF against THEN "against" ELSE "for"]
  /\ IF against
     THEN /\ CanIncrement(proposal[id].rejections)
          /\ proposal' = [proposal EXCEPT ![id].rejections = @ + 1]
     ELSE /\ CanIncrement(proposal[id].approvals)
          /\ proposal' = [proposal EXCEPT ![id].approvals = @ + 1]
  /\ UNCHANGED <<admin, requiredApprovals, proposalCount, configValue,
                 proposalsByProposer, migrationDone, executorAllowlist,
                 executions, upgradedAt, now>>

SetExecutorAllowlist(caller, allowlist) ==
  /\ IsAdmin(caller)
  /\ executorAllowlist' = allowlist
  /\ UNCHANGED <<admin, requiredApprovals, proposalCount, proposal, userVote,
                 configValue, proposalsByProposer, migrationDone, executions,
                 upgradedAt, now>>

\* Rejections take no part in the decision.
FaultyApproved(id) ==
  proposal[id].approvals + proposal[id].rejections >= requiredApprovals
Approved(id) == proposal[id].approvals >= requiredApprovals

MayExecute(caller, id) ==
  /\ IsOpen(id)
  /\ Approved(id)
  /\ proposal[id].key \in AdminKey =>
       caller = proposal[id].proposer \/ caller \in executorAllowlist

\* The write of ConfigValue(key): the last execution wins.
FaultyConfigured(p) ==
  [configValue EXCEPT ![p.key] = IF @ = NoValue THEN p.value ELSE @]
Configured(p) == [configValue EXCEPT ![p.key] = p.value]

ExecuteProposal(caller, id) ==
  /\ MayExecute(caller, id)
  /\ configValue' = Configured(proposal[id])
  /\ proposal' = [proposal EXCEPT ![id].executed = TRUE]
  /\ executions' = Append(executions, id)
  /\ UNCHANGED <<admin, requiredApprovals, proposalCount, userVote,
                 proposalsByProposer, migrationDone, executorAllowlist,
                 upgradedAt, now>>

\* migrate_votes: the entries of the snapshot whose key is absent get a
\* VoteRecord; every key that holds something, a legacy bool included, is
\* skipped; no tally moves.
MigrateVotes(caller, snapshot) ==
  /\ IsAdmin(caller)
  /\ ~migrationDone
  /\ userVote' = [v \in ProposalId \X Address |->
                    IF v \in snapshot /\ userVote[v] = "absent"
                    THEN "for" ELSE userVote[v]]
  /\ migrationDone' = TRUE
  /\ UNCHANGED <<admin, requiredApprovals, proposalCount, proposal,
                 configValue, proposalsByProposer, executorAllowlist,
                 executions, upgradedAt, now>>

\* A ledger closes.
Tick ==
  /\ now < U64Max
  /\ now' = now + 1
  /\ UNCHANGED storage

Next ==
  \/ Tick
  \/ \E a \in Address, n \in Tally : Initialize(a, n)
  \/ \E a, b \in Address : UpdateAdmin(a, b)
  \/ \E a \in Address, k \in Key, v \in Value, d \in Duration :
       CreateProposal(a, k, v, d)
  \/ \E a \in Address, id \in ProposalId, against \in BOOLEAN :
       VoteProposal(a, id, against)
  \/ \E a \in Address, list \in SUBSET Address : SetExecutorAllowlist(a, list)
  \/ \E a \in Address, id \in ProposalId : ExecuteProposal(a, id)
  \/ \E a \in Address, snapshot \in SUBSET (ProposalId \X Address) :
       MigrateVotes(a, snapshot)

Spec == Init /\ [][Next]_vars
SpecFresh == InitFresh /\ [][Next]_vars
-----------------------------------------------------------------------------
\* Every storage entry holds a value of its contract type.
TypeOK ==
  /\ admin \in Address \cup {NoAddress}
  /\ requiredApprovals \in Tally
  /\ proposalCount \in Tally
  /\ proposal \in [1..proposalCount -> Proposal]
  /\ userVote \in [ProposalId \X Address -> VoteEntry]
  /\ configValue \in [Key -> Value \cup {NoValue}]
  /\ proposalsByProposer \in [Address -> Seq(ProposalId)]
  /\ migrationDone \in BOOLEAN
  /\ executorAllowlist \subseteq Address
  /\ executions \in Seq(ProposalId)
  /\ upgradedAt \in 0..proposalCount
  /\ now \in Timestamp

\* The counters kept in a Proposal and the UserVote entries are written apart
\* and must tell the same story: a proposal's rejections are exactly its
\* opponents; its approvals never exceed its backers, and equal them until
\* migrate_votes, whose records are entered without a tally.
TalliesMatchVotes ==
  \A id \in DOMAIN proposal :
    /\ proposal[id].rejections = Cardinality(Opponents(id))
    /\ proposal[id].approvals <= Cardinality(Backers(id))
    /\ ~migrationDone => proposal[id].approvals = Cardinality(Backers(id))

\* A value is in force only through a proposal that as many distinct accounts
\* backed as the contract requires, however votes, executions, migration and
\* the ledger's clock interleave.
ExecutedIsBacked ==
  \A id \in DOMAIN proposal : proposal[id].executed =>
    Cardinality(Backers(id)) >= requiredApprovals

\* A config value is the value of the latest executed proposal for its key,
\* even when proposals for the same key execute out of order, and no proposal
\* executes twice.
LastFor(k) ==
  {i \in DOMAIN executions :
     /\ proposal[executions[i]].key = k
     /\ \A j \in DOMAIN executions : j > i => proposal[executions[j]].key # k}
ConfigIsLastExecuted ==
  /\ \A i, j \in DOMAIN executions : executions[i] = executions[j] => i = j
  /\ \A k \in Key :
       \/ LastFor(k) = {} /\ configValue[k] = NoValue
       \/ \E i \in LastFor(k) : configValue[k] = proposal[executions[i]].value

\* ProposalsByProposer is a second index over the same proposals: each one
\* created by this code is listed once, under its proposer, in creation order.
IndexIsComplete ==
  \A a \in Address :
    LET ids == proposalsByProposer[a] IN
    /\ {ids[i] : i \in DOMAIN ids} =
         {id \in DOMAIN proposal : id > upgradedAt /\ proposal[id].proposer = a}
    /\ \A i, j \in DOMAIN ids : i < j => ids[i] < ids[j]

\* Once a proposal is executed or its deadline has passed, no call changes it:
\* a late vote or a second execution finds it closed, and it never reopens.
ClosedIsFinal ==
  [][\A id \in DOMAIN proposal :
       proposal[id].executed \/ now > proposal[id].deadline
         => id \in DOMAIN proposal' /\ proposal'[id] = proposal[id]]_vars

\* The comment on vote_proposal (l.281-283): "after migrate_votes() runs all
\* old entries are replaced with VoteRecord values", for a snapshot that lists
\* every legacy entry, as l.410-412 asks.
LegacyEntries == {v \in ProposalId \X Address : userVote[v] = "legacy"}
MigrationReplacesLegacy ==
  [][\A a \in Address, snapshot \in SUBSET (ProposalId \X Address) :
       MigrateVotes(a, snapshot) /\ LegacyEntries \subseteq snapshot
         => LegacyEntries' = {}]_vars

\* The contract implements QuorumDecisions: tallies, deadlines, allowlists and
\* the migration hide behind sets of accounts.  A proposal's content never
\* changes, no account votes twice or switches sides, and every execution is
\* a first decision, backed by a quorum of distinct accounts.
Quorum == IF admin = NoAddress THEN NoAddress ELSE requiredApprovals
Content == [proposer: Address, key: Key, value: Value, deadline: Timestamp]
ContentOf(p) == [proposer |-> p.proposer, key |-> p.key, value |-> p.value,
                 deadline |-> p.deadline]
Decisions == INSTANCE QuorumDecisions WITH
  Account <- Address,
  Motion <- ProposalId,
  NoQuorum <- NoAddress,
  quorum <- Quorum,
  content <- [id \in DOMAIN proposal |-> ContentOf(proposal[id])],
  backers <- [id \in ProposalId |-> Backers(id)],
  opponents <- [id \in ProposalId |-> Opponents(id)],
  decided <- executions,
  imported <- migrationDone
ImplementsDecisions == Decisions!Spec
=============================================================================

-------------------------- MODULE GovernanceProofs --------------------------
(***************************************************************************)
(* Proofs about Governance, for every set of accounts, keys and values and *)
(* every width of the counters.                                            *)
(***************************************************************************)
EXTENDS Governance, FiniteSetTheorems, TLAPS

\* Before initialize there is nothing to overwrite, which is why the count it
\* resets to zero is the number of proposals stored.
NothingBeforeInitialize == admin = NoAddress => proposalCount = 0

\* Every stored proposal has an id that can be voted on.
CountIsBounded == proposalCount <= MaxProposals

TypeInv == TypeOK /\ NothingBeforeInitialize /\ CountIsBounded

-----------------------------------------------------------------------------
LEMMA InitTypeInv == Init => TypeInv
<1> USE GovernanceConstants
<1>1. ASSUME EmptyStorage
      PROVE  /\ configValue \in [Key -> Value \cup {NoValue}]
             /\ proposalsByProposer \in [Address -> Seq(ProposalId)]
             /\ migrationDone \in BOOLEAN
             /\ executorAllowlist \subseteq Address
             /\ executions \in Seq(ProposalId)
             /\ now \in Timestamp
  <2>1. << >> \in Seq(ProposalId)
    OBVIOUS
  <2>2. now \in Timestamp
    BY <1>1 DEF EmptyStorage, Timestamp
  <2>3. proposalsByProposer \in [Address -> Seq(ProposalId)]
    BY <1>1, <2>1 DEF EmptyStorage
  <2> QED BY <1>1, <2>1, <2>2, <2>3 DEF EmptyStorage
<1>2. ASSUME InitFresh PROVE TypeInv
  <2>1. proposal \in [1..proposalCount -> Proposal]
    <3>1. 1..proposalCount = {} /\ proposal = << >>
      BY <1>2 DEF InitFresh
    <3> QED BY <3>1
  <2>2. userVote \in [ProposalId \X Address -> VoteEntry]
    BY <1>2 DEF InitFresh, VoteEntry
  <2> QED BY <1>1, <1>2, <2>1, <2>2
          DEF InitFresh, TypeInv, TypeOK, NothingBeforeInitialize, CountIsBounded, Tally
<1>3. ASSUME InitUpgraded PROVE TypeInv
  <2>1. userVote \in [ProposalId \X Address -> VoteEntry]
    <3> {"absent", "legacy"} \subseteq VoteEntry
      BY DEF VoteEntry
    <3> QED BY <1>3 DEF InitUpgraded
  <2>2. proposalCount \in 1..MaxProposals /\ upgradedAt = proposalCount
    BY <1>3 DEF InitUpgraded, ProposalId
  <2>3. admin \in Address /\ requiredApprovals \in Tally
    BY <1>3 DEF InitUpgraded
  <2>4. proposal \in [1..proposalCount -> Proposal]
    BY <1>3 DEF InitUpgraded
  <2>5. EmptyStorage
    BY <1>3 DEF InitUpgraded
  <2> QED BY <1>1, <2>1, <2>2, <2>3, <2>4, <2>5
          DEF TypeInv, TypeOK, NothingBeforeInitialize, CountIsBounded, Tally
<1> QED BY <1>2, <1>3 DEF Init

LEMMA StepTypeInv == TypeInv /\ [Next]_vars => TypeInv'
<1> SUFFICES ASSUME TypeInv, [Next]_vars PROVE TypeInv'
  OBVIOUS
<1> USE GovernanceConstants DEF TypeInv, TypeOK, NothingBeforeInitialize,
        CountIsBounded, Tally, Timestamp
<1>1. CASE Tick
  BY <1>1 DEF Tick, storage
<1>2. ASSUME NEW a \in Address, NEW n \in Tally, Initialize(a, n) PROVE TypeInv'
  BY <1>2 DEF Initialize
<1>3. ASSUME NEW a \in Address, NEW b \in Address, UpdateAdmin(a, b) PROVE TypeInv'
  BY <1>3 DEF UpdateAdmin, IsAdmin
<1>4. ASSUME NEW a \in Address, NEW k \in Key, NEW v \in Value, NEW d \in Duration,
             CreateProposal(a, k, v, d)
      PROVE  TypeInv'
  <2> DEFINE newId == proposalCount + 1
  <2>1. newId \in ProposalId /\ newId \in 0..U32Max /\ DOMAIN proposal = 1..proposalCount
    BY <1>4 DEF CreateProposal, CanIncrement, ProposalId
  <2>2. (1..proposalCount) \cup {newId} = 1..newId
    BY <2>1
  <2>3. [proposer |-> a, key |-> k, value |-> v, approvals |-> 0,
         rejections |-> 0, executed |-> FALSE, deadline |-> now + d] \in Proposal
    BY <1>4 DEF CreateProposal, Proposal
  <2>4. proposal' \in [1..proposalCount' -> Proposal]
    <3>1. DOMAIN proposal' = 1..newId /\ proposalCount' = newId
      BY <1>4, <2>1, <2>2 DEF CreateProposal
    <3>2. ASSUME NEW i \in 1..newId PROVE proposal'[i] \in Proposal
      <4>1. CASE i = newId
        BY <1>4, <2>1, <2>2, <2>3, <4>1 DEF CreateProposal
      <4>2. CASE i # newId
        BY <1>4, <2>1, <2>2, <4>2 DEF CreateProposal
      <4> QED BY <4>1, <4>2
    <3>3. proposal' = [i \in 1..newId |-> proposal'[i]]
      BY <1>4, <2>1, <2>2 DEF CreateProposal
    <3> QED BY <3>1, <3>2, <3>3
  <2>5. proposalsByProposer' \in [Address -> Seq(ProposalId)]
    BY <1>4, <2>1 DEF CreateProposal, Indexed
  <2>6. /\ proposalCount' \in Tally /\ upgradedAt' \in 0..proposalCount'
        /\ proposalCount' <= MaxProposals /\ admin # NoAddress
    BY <1>4, <2>1 DEF CreateProposal, ProposalId
  <2> QED BY <1>4, <2>4, <2>5, <2>6 DEF CreateProposal
<1>5. ASSUME NEW a \in Address, NEW id \in ProposalId, NEW against \in BOOLEAN,
             VoteProposal(a, id, against)
      PROVE  TypeInv'
  <2>1. id \in 1..proposalCount
    BY <1>5 DEF VoteProposal, IsOpen
  <2>2. proposal' \in [1..proposalCount -> Proposal]
    <3> DEFINE p == proposal[id]
    <3>1. p \in Proposal /\ p.approvals \in 0..U32Max /\ p.rejections \in 0..U32Max
      BY <2>1 DEF Proposal
    <3>2. CASE against
      <4>0. p.rejections < U32Max
        BY <1>5, <3>2 DEF VoteProposal, CanIncrement
      <4>1. p.rejections + 1 \in 0..U32Max
        BY <3>1, <4>0
      <4>2. [p EXCEPT !.rejections = @ + 1] \in Proposal
        BY <3>1, <4>1 DEF Proposal
      <4> QED BY <1>5, <2>1, <3>2, <4>2 DEF VoteProposal
    <3>3. CASE ~against
      <4>0. p.approvals < U32Max
        BY <1>5, <3>3 DEF VoteProposal, CanIncrement
      <4>1. p.approvals + 1 \in 0..U32Max
        BY <3>1, <4>0
      <4>2. [p EXCEPT !.approvals = @ + 1] \in Proposal
        BY <3>1, <4>1 DEF Proposal
      <4> QED BY <1>5, <2>1, <3>3, <4>2 DEF VoteProposal
    <3> QED BY <3>2, <3>3
  <2>3. userVote' \in [ProposalId \X Address -> VoteEntry]
    BY <1>5 DEF VoteProposal, VoteEntry
  <2> QED BY <1>5, <2>2, <2>3 DEF VoteProposal
<1>6. ASSUME NEW a \in Address, NEW list \in SUBSET Address,
             SetExecutorAllowlist(a, list)
      PROVE  TypeInv'
  BY <1>6 DEF SetExecutorAllowlist
<1>7. ASSUME NEW a \in Address, NEW id \in ProposalId, ExecuteProposal(a, id)
      PROVE  TypeInv'
  <2>1. id \in 1..proposalCount
    BY <1>7 DEF ExecuteProposal, MayExecute, IsOpen
  <2>2. proposal' \in [1..proposalCount -> Proposal]
    <3>1. proposal[id] \in Proposal
      BY <2>1
    <3>2. [proposal[id] EXCEPT !.executed = TRUE] \in Proposal
      BY <3>1 DEF Proposal
    <3> QED BY <1>7, <2>1, <3>2 DEF ExecuteProposal
  <2>3. configValue' \in [Key -> Value \cup {NoValue}]
    BY <1>7, <2>1 DEF ExecuteProposal, Configured, Proposal
  <2> QED BY <1>7, <2>2, <2>3 DEF ExecuteProposal
<1>8. ASSUME NEW a \in Address, NEW snapshot \in SUBSET (ProposalId \X Address),
             MigrateVotes(a, snapshot)
      PROVE  TypeInv'
  <2>1. userVote' \in [ProposalId \X Address -> VoteEntry]
    BY <1>8 DEF MigrateVotes, VoteEntry
  <2> QED BY <1>8, <2>1 DEF MigrateVotes
<1>9. CASE UNCHANGED vars
  BY <1>9 DEF vars, storage
<1> HIDE DEF TypeInv
<1> QED BY <1>1, <1>2, <1>3, <1>4, <1>5, <1>6, <1>7, <1>8, <1>9 DEF Next

\* Type correctness: every entry keeps its contract type, counters and
\* deadlines within their width, and the ids stored are exactly 1 to the count.
THEOREM TypeCorrect == Spec => []TypeOK
<1>1. TypeInv => TypeOK
  BY DEF TypeInv
<1> QED BY InitTypeInv, StepTypeInv, <1>1, PTL DEF Spec
-----------------------------------------------------------------------------
\* No opponent votes on an id before it is a proposal, and only a migration
\* may enter backers for one.
VotesFollowProposals ==
  \A id \in ProposalId : id > proposalCount =>
    /\ Opponents(id) = {}
    /\ ~migrationDone => Backers(id) = {}

\* What execute_proposal compared stays true: requiredApprovals never changes
\* once there are proposals, and approvals never decrease.
ExecutedWasApproved ==
  \A id \in DOMAIN proposal : proposal[id].executed => Approved(id)

TallyInv ==
  TypeInv /\ TalliesMatchVotes /\ VotesFollowProposals /\ ExecutedWasApproved

LEMMA AccountsFinite ==
  ASSUME NEW S \in SUBSET Address
  PROVE  IsFiniteSet(S) /\ Cardinality(S) \in Nat
<1> USE GovernanceConstants
<1>1. IsFiniteSet(S)
  BY FS_Subset
<1> QED BY <1>1, FS_CardinalityType

LEMMA OneMoreAccount ==
  ASSUME NEW S \in SUBSET Address, NEW a \in Address \ S
  PROVE  Cardinality(S \cup {a}) = Cardinality(S) + 1
BY AccountsFinite, FS_AddElement

LEMMA VotersAreAccounts ==
  ASSUME NEW id
  PROVE  Backers(id) \in SUBSET Address /\ Opponents(id) \in SUBSET Address
BY DEF Backers, Opponents, Voters

\* What a vote does to the two camps of every proposal.
LEMMA VoteMovesOne ==
  ASSUME TypeInv, NEW a \in Address, NEW id \in ProposalId, NEW against \in BOOLEAN,
         VoteProposal(a, id, against), NEW other \in ProposalId
  PROVE  /\ a \notin Backers(id) /\ a \notin Opponents(id)
         /\ Backers(other)' = IF other = id /\ ~against THEN Backers(id) \cup {a}
                              ELSE Backers(other)
         /\ Opponents(other)' = IF other = id /\ against THEN Opponents(id) \cup {a}
                                ELSE Opponents(other)
<1> DEFINE entry == IF against THEN "against" ELSE "for"
<1>1. userVote' = [userVote EXCEPT ![<<id, a>>] = entry]
  BY DEF VoteProposal
<1>2. userVote \in [ProposalId \X Address -> VoteEntry] /\ userVote[<<id, a>>] = "absent"
  BY DEF VoteProposal, HasVoted, TypeInv, TypeOK
<1>3. \A b \in Address : userVote'[<<other, b>>] =
        IF other = id /\ b = a THEN entry ELSE userVote[<<other, b>>]
  BY <1>1, <1>2
<1>4. a \notin Backers(id) /\ a \notin Opponents(id)
  BY <1>2 DEF Backers, Opponents, Voters
<1>5. Backers(other)' = IF other = id /\ ~against THEN Backers(id) \cup {a}
                        ELSE Backers(other)
  BY <1>2, <1>3 DEF Backers, Voters
<1>6. Opponents(other)' = IF other = id /\ against THEN Opponents(id) \cup {a}
                          ELSE Opponents(other)
  BY <1>2, <1>3 DEF Opponents, Voters
<1> QED BY <1>4, <1>5, <1>6

\* What a vote does to the proposals.
LEMMA VoteCountsOne ==
  ASSUME TypeInv, NEW a \in Address, NEW id \in ProposalId, NEW against \in BOOLEAN,
         VoteProposal(a, id, against), NEW other \in 1..proposalCount
  PROVE  /\ id \in 1..proposalCount /\ ~proposal[id].executed
         /\ proposal'[other].executed = proposal[other].executed
         /\ proposal'[other].approvals =
              proposal[other].approvals + (IF other = id /\ ~against THEN 1 ELSE 0)
         /\ proposal'[other].rejections =
              proposal[other].rejections + (IF other = id /\ against THEN 1 ELSE 0)
<1>1. /\ proposal \in [1..proposalCount -> Proposal]
      /\ id \in 1..proposalCount
      /\ ~proposal[id].executed
  BY DEF VoteProposal, IsOpen, TypeInv, TypeOK
<1>2. /\ proposal[other] \in Proposal /\ proposal[id] \in Proposal
      /\ proposal[other].approvals \in Int /\ proposal[other].rejections \in Int
  BY <1>1 DEF Proposal, Tally
<1>3. CASE other # id
  <2>1. proposal'[other] = proposal[other]
    BY <1>1, <1>3 DEF VoteProposal
  <2> QED BY <1>1, <1>2, <1>3, <2>1
<1>4. CASE other = id /\ against
  <2>1. proposal'[id] = [proposal[id] EXCEPT !.rejections = @ + 1]
    BY <1>1, <1>4 DEF VoteProposal
  <2> QED BY <1>1, <1>2, <1>4, <2>1 DEF Proposal
<1>5. CASE other = id /\ ~against
  <2>1. proposal'[id] = [proposal[id] EXCEPT !.approvals = @ + 1]
    BY <1>1, <1>5 DEF VoteProposal
  <2> QED BY <1>1, <1>2, <1>5, <2>1 DEF Proposal
<1> QED BY <1>3, <1>4, <1>5

LEMMA InitTallyInv == Init => TallyInv
<1> SUFFICES ASSUME Init PROVE TalliesMatchVotes /\ VotesFollowProposals /\ ExecutedWasApproved
  BY InitTypeInv DEF TallyInv
<1>1. CASE InitFresh
  <2>1. DOMAIN proposal = {}
    BY <1>1, InitTypeInv DEF InitFresh, TypeInv, TypeOK
  <2>2. \A id \in ProposalId : Backers(id) = {} /\ Opponents(id) = {}
    BY <1>1 DEF InitFresh, Backers, Opponents, Voters
  <2> QED BY <2>1, <2>2 DEF TalliesMatchVotes, VotesFollowProposals, ExecutedWasApproved
<1>2. CASE InitUpgraded
  <2>1. /\ DOMAIN proposal = 1..proposalCount
        /\ proposalCount \in ProposalId
        /\ \A id \in 1..proposalCount : LegacyProposal(proposal[id], Backers(id))
    BY <1>2 DEF InitUpgraded
  <2>2. \A id \in ProposalId : Opponents(id) = {}
    <3>1. userVote \in [ProposalId \X Address -> {"absent", "legacy"}]
      BY <1>2 DEF InitUpgraded
    <3> QED BY <3>1 DEF Opponents, Voters
  <2>3. \A id \in ProposalId : id > proposalCount => Backers(id) = {}
    BY <1>2 DEF InitUpgraded
  <2>4. 1..proposalCount \subseteq ProposalId
    BY <2>1, GovernanceConstants DEF ProposalId
  <2>5. TalliesMatchVotes
    <3> SUFFICES ASSUME NEW id \in DOMAIN proposal
                 PROVE  /\ proposal[id].rejections = Cardinality(Opponents(id))
                        /\ proposal[id].approvals = Cardinality(Backers(id))
                        /\ Cardinality(Backers(id)) \in Nat
      BY DEF TalliesMatchVotes
    <3>1. Cardinality(Backers(id)) \in Nat
      BY VotersAreAccounts, AccountsFinite
    <3> QED BY <2>1, <2>2, <2>4, <3>1, FS_EmptySet DEF LegacyProposal
  <2> QED BY <2>1, <2>2, <2>3, <2>5
          DEF VotesFollowProposals, ExecutedWasApproved, LegacyProposal
<1> QED BY <1>1, <1>2 DEF Init

\* Calls that leave proposals, votes and the quorum alone.
LEMMA SameTallies ==
  ASSUME TallyInv,
         UNCHANGED <<proposal, proposalCount, userVote, requiredApprovals, migrationDone>>
  PROVE  (TalliesMatchVotes /\ VotesFollowProposals /\ ExecutedWasApproved)'
BY DEF TallyInv, TalliesMatchVotes, VotesFollowProposals, ExecutedWasApproved,
       Approved, Backers, Opponents, Voters

LEMMA CreateTallies ==
  ASSUME TallyInv, NEW a \in Address, NEW k \in Key, NEW v \in Value,
         NEW d \in Duration, CreateProposal(a, k, v, d)
  PROVE  (TalliesMatchVotes /\ VotesFollowProposals /\ ExecutedWasApproved)'
<1> DEFINE newId == proposalCount + 1
<1>1. /\ newId \in ProposalId /\ proposalCount \in Nat
      /\ proposalCount' = newId
      /\ DOMAIN proposal = 1..proposalCount
      /\ DOMAIN proposal' = DOMAIN proposal \cup {newId}
      /\ \A id \in DOMAIN proposal : proposal'[id] = proposal[id]
      /\ proposal'[newId].approvals = 0 /\ proposal'[newId].rejections = 0
      /\ ~proposal'[newId].executed
      /\ UNCHANGED <<requiredApprovals, userVote, migrationDone>>
  BY GovernanceConstants DEF CreateProposal, TallyInv, TypeInv, TypeOK, Tally
<1>2. \A id : Backers(id)' = Backers(id) /\ Opponents(id)' = Opponents(id)
  BY <1>1 DEF Backers, Opponents, Voters
<1>3. TalliesMatchVotes'
  <2>1. Opponents(newId) = {} /\ (~migrationDone => Backers(newId) = {})
    BY <1>1 DEF TallyInv, VotesFollowProposals
  <2>2. Cardinality(Backers(newId)) \in Nat
    BY VotersAreAccounts, AccountsFinite
  <2> SUFFICES ASSUME NEW id \in DOMAIN proposal'
               PROVE  (/\ proposal[id].rejections = Cardinality(Opponents(id))
                       /\ proposal[id].approvals <= Cardinality(Backers(id))
                       /\ ~migrationDone =>
                            proposal[id].approvals = Cardinality(Backers(id)))'
    BY DEF TalliesMatchVotes
  <2>3. CASE id = newId
    <3>1. Cardinality({}) = 0
      BY FS_EmptySet
    <3>2. Backers(id)' = Backers(newId) /\ Opponents(id)' = {}
      BY <1>2, <2>1, <2>3
    <3>3. migrationDone' = migrationDone
      BY <1>1
    <3>4. proposal'[id].approvals = 0 /\ proposal'[id].rejections = 0
      BY <1>1, <2>3
    <3> QED BY <2>1, <2>2, <3>1, <3>2, <3>3, <3>4
  <2>4. CASE id \in DOMAIN proposal
    BY <1>1, <1>2, <2>4 DEF TallyInv, TalliesMatchVotes
  <2> QED BY <1>1, <2>3, <2>4
<1>4. VotesFollowProposals'
  BY <1>1, <1>2 DEF TallyInv, VotesFollowProposals, ProposalId
<1>5. ExecutedWasApproved'
  BY <1>1 DEF TallyInv, ExecutedWasApproved, Approved
<1> QED BY <1>3, <1>4, <1>5

LEMMA VoteTallies ==
  ASSUME TallyInv, NEW a \in Address, NEW id \in ProposalId, NEW against \in BOOLEAN,
         VoteProposal(a, id, against)
  PROVE  (TalliesMatchVotes /\ VotesFollowProposals /\ ExecutedWasApproved)'
<1>1. /\ TypeInv
      /\ DOMAIN proposal = 1..proposalCount /\ DOMAIN proposal' = 1..proposalCount
      /\ id \in 1..proposalCount
      /\ proposalCount \in Nat /\ requiredApprovals \in Nat
      /\ 1..proposalCount \subseteq ProposalId
      /\ UNCHANGED <<proposalCount, requiredApprovals, migrationDone>>
  <2>1. TypeInv /\ TypeInv'
    <3> Next
      BY DEF Next
    <3> QED BY StepTypeInv DEF TallyInv
  <2>2. UNCHANGED <<proposalCount, requiredApprovals, migrationDone>>
    BY DEF VoteProposal
  <2>3. proposalCount \in 0..MaxProposals
    BY <2>1, GovernanceConstants DEF TypeInv, TypeOK, CountIsBounded, Tally
  <2> QED BY <2>1, <2>2, <2>3, GovernanceConstants
          DEF TypeInv, TypeOK, Tally, VoteProposal, IsOpen, ProposalId
<1>2. ASSUME NEW other \in 1..proposalCount
      PROVE  /\ proposal[other].approvals \in Nat /\ proposal[other].rejections \in Nat
             /\ Cardinality(Backers(other)) \in Nat
             /\ Cardinality(Opponents(other)) \in Nat
  <2>1. proposal[other] \in Proposal
    BY <1>1 DEF TypeInv, TypeOK
  <2> QED BY <2>1, VotersAreAccounts, AccountsFinite, GovernanceConstants
          DEF Proposal, Tally
<1>3. /\ Cardinality(Backers(id) \cup {a}) = Cardinality(Backers(id)) + 1
      /\ Cardinality(Opponents(id) \cup {a}) = Cardinality(Opponents(id)) + 1
  BY <1>1, VoteMovesOne, VotersAreAccounts, OneMoreAccount
<1>4. TalliesMatchVotes'
  <2> SUFFICES ASSUME NEW other \in 1..proposalCount
               PROVE  (/\ proposal[other].rejections = Cardinality(Opponents(other))
                       /\ proposal[other].approvals <= Cardinality(Backers(other))
                       /\ ~migrationDone =>
                            proposal[other].approvals = Cardinality(Backers(other)))'
    BY <1>1 DEF TalliesMatchVotes
  <2>1. /\ proposal[other].rejections = Cardinality(Opponents(other))
        /\ proposal[other].approvals <= Cardinality(Backers(other))
        /\ ~migrationDone => proposal[other].approvals = Cardinality(Backers(other))
    BY <1>1 DEF TallyInv, TalliesMatchVotes
  <2>2. /\ proposal'[other].approvals =
             proposal[other].approvals + (IF other = id /\ ~against THEN 1 ELSE 0)
        /\ proposal'[other].rejections =
             proposal[other].rejections + (IF other = id /\ against THEN 1 ELSE 0)
    BY <1>1, VoteCountsOne
  <2>3. /\ Cardinality(Backers(other))' =
             Cardinality(Backers(other)) + (IF other = id /\ ~against THEN 1 ELSE 0)
        /\ Cardinality(Opponents(other))' =
             Cardinality(Opponents(other)) + (IF other = id /\ against THEN 1 ELSE 0)
    <3>1. other \in ProposalId /\ Cardinality(Backers(other)) \in Nat
                              /\ Cardinality(Opponents(other)) \in Nat
      BY <1>1, <1>2
    <3>2. CASE other = id /\ against
      <4>1. Backers(id)' = Backers(id) /\ Opponents(id)' = Opponents(id) \cup {a}
        BY <1>1, <3>2, VoteMovesOne
      <4> QED BY <1>3, <3>1, <3>2, <4>1
    <3>3. CASE other = id /\ ~against
      <4>1. Backers(id)' = Backers(id) \cup {a} /\ Opponents(id)' = Opponents(id)
        BY <1>1, <3>3, VoteMovesOne
      <4> QED BY <1>3, <3>1, <3>3, <4>1
    <3>4. CASE other # id
      <4>1. Backers(other)' = Backers(other) /\ Opponents(other)' = Opponents(other)
        BY <1>1, <3>1, <3>4, VoteMovesOne
      <4> QED BY <3>1, <3>4, <4>1
    <3> QED BY <3>2, <3>3, <3>4
  <2> QED BY <1>1, <1>2, <2>1, <2>2, <2>3
<1>5. VotesFollowProposals'
  <2>1. ASSUME NEW other \in ProposalId, other > proposalCount
        PROVE  Backers(other)' = Backers(other) /\ Opponents(other)' = Opponents(other)
    BY <1>1, <2>1, VoteMovesOne
  <2> QED BY <1>1, <2>1 DEF TallyInv, VotesFollowProposals
<1>6. ExecutedWasApproved'
  <2> SUFFICES ASSUME NEW other \in 1..proposalCount, proposal'[other].executed
               PROVE  proposal'[other].approvals >= requiredApprovals
    BY <1>1 DEF ExecutedWasApproved, Approved
  <2>1. /\ proposal[other].executed
        /\ proposal'[other].approvals >= proposal[other].approvals
    BY <1>1, <1>2, VoteCountsOne
  <2>2. proposal[other].approvals >= requiredApprovals
    BY <1>1, <2>1 DEF TallyInv, ExecutedWasApproved, Approved
  <2>3. proposal'[other].approvals \in Nat /\ proposal[other].approvals \in Nat
    <3>1. proposal'[other].approvals =
            proposal[other].approvals + (IF other = id /\ ~against THEN 1 ELSE 0)
      BY <1>1, VoteCountsOne
    <3>2. proposal[other].approvals \in Nat
      BY <1>2
    <3> QED BY <3>1, <3>2
  <2> QED BY <1>1, <1>2, <2>1, <2>2, <2>3
<1> QED BY <1>4, <1>5, <1>6

LEMMA ExecuteTallies ==
  ASSUME TallyInv, NEW a \in Address, NEW id \in ProposalId, ExecuteProposal(a, id)
  PROVE  (TalliesMatchVotes /\ VotesFollowProposals /\ ExecutedWasApproved)'
<1>1. /\ proposal \in [1..proposalCount -> Proposal]
      /\ id \in 1..proposalCount
      /\ proposal' = [proposal EXCEPT ![id].executed = TRUE]
      /\ Approved(id)
      /\ UNCHANGED <<proposalCount, requiredApprovals, userVote, migrationDone>>
  BY DEF ExecuteProposal, MayExecute, IsOpen, TallyInv, TypeInv, TypeOK
<1>2. ASSUME NEW other \in DOMAIN proposal
      PROVE  /\ proposal'[other].approvals = proposal[other].approvals
             /\ proposal'[other].rejections = proposal[other].rejections
             /\ other # id => proposal'[other].executed = proposal[other].executed
  <2>1. proposal[other] \in Proposal
    BY <1>1
  <2>2. CASE other = id
    <3>1. proposal'[other] = [proposal[other] EXCEPT !.executed = TRUE]
      BY <1>1, <2>2
    <3> QED BY <2>1, <2>2, <3>1 DEF Proposal
  <2>3. CASE other # id
    <3>1. proposal'[other] = proposal[other]
      BY <1>1, <2>3
    <3> QED BY <3>1
  <2> QED BY <2>2, <2>3
<1>3. \A x : Backers(x)' = Backers(x) /\ Opponents(x)' = Opponents(x)
  BY <1>1 DEF Backers, Opponents, Voters
<1>4. DOMAIN proposal' = DOMAIN proposal
  BY <1>1
<1>5. TalliesMatchVotes' /\ VotesFollowProposals'
  BY <1>1, <1>2, <1>3, <1>4 DEF TallyInv, TalliesMatchVotes, VotesFollowProposals
<1>6. ExecutedWasApproved'
  BY <1>1, <1>2, <1>4 DEF TallyInv, ExecutedWasApproved, Approved
<1> QED BY <1>5, <1>6

LEMMA MigrateTallies ==
  ASSUME TallyInv, NEW a \in Address, NEW snapshot \in SUBSET (ProposalId \X Address),
         MigrateVotes(a, snapshot)
  PROVE  (TalliesMatchVotes /\ VotesFollowProposals /\ ExecutedWasApproved)'
<1>1. /\ migrationDone' /\ UNCHANGED <<proposal, proposalCount, requiredApprovals>>
      /\ userVote \in [ProposalId \X Address -> VoteEntry]
      /\ proposal \in [1..proposalCount -> Proposal]
      /\ proposalCount \in 0..MaxProposals
      /\ \A v \in ProposalId \X Address :
           userVote'[v] = IF v \in snapshot /\ userVote[v] = "absent"
                          THEN "for" ELSE userVote[v]
  BY GovernanceConstants
     DEF MigrateVotes, TallyInv, TypeInv, TypeOK, CountIsBounded, Tally
<1>2. ASSUME NEW id \in ProposalId
      PROVE  Backers(id) \subseteq Backers(id)' /\ Opponents(id)' = Opponents(id)
  BY <1>1 DEF Backers, Opponents, Voters
<1>3. TalliesMatchVotes'
  <2> SUFFICES ASSUME NEW id \in DOMAIN proposal
               PROVE  /\ proposal[id].rejections = Cardinality(Opponents(id)')
                      /\ proposal[id].approvals <= Cardinality(Backers(id)')
    BY <1>1 DEF TalliesMatchVotes
  <2>1. id \in ProposalId /\ proposal[id].approvals \in Nat
    BY <1>1, GovernanceConstants DEF ProposalId, Proposal, Tally
  <2>2. /\ proposal[id].rejections = Cardinality(Opponents(id))
        /\ proposal[id].approvals <= Cardinality(Backers(id))
    BY DEF TallyInv, TalliesMatchVotes
  <2>3. Backers(id)' \in SUBSET Address
    BY DEF Backers, Voters
  <2>4. /\ Cardinality(Backers(id)) <= Cardinality(Backers(id)')
        /\ Cardinality(Backers(id)) \in Nat /\ Cardinality(Backers(id)') \in Nat
    BY <1>2, <2>1, <2>3, VotersAreAccounts, AccountsFinite, FS_Subset
  <2> QED BY <1>2, <2>1, <2>2, <2>4
<1>4. VotesFollowProposals'
  BY <1>1, <1>2 DEF TallyInv, VotesFollowProposals
<1>5. ExecutedWasApproved'
  BY <1>1 DEF TallyInv, ExecutedWasApproved, Approved
<1> QED BY <1>3, <1>4, <1>5

LEMMA StepTallyInv == TallyInv /\ [Next]_vars => TallyInv'
<1> SUFFICES ASSUME TallyInv, [Next]_vars
             PROVE  (TalliesMatchVotes /\ VotesFollowProposals /\ ExecutedWasApproved)'
  BY StepTypeInv DEF TallyInv
<1>1. CASE Tick
  BY <1>1, SameTallies DEF Tick, storage
<1>2. ASSUME NEW a \in Address, NEW n \in Tally, Initialize(a, n)
      PROVE  (TalliesMatchVotes /\ VotesFollowProposals /\ ExecutedWasApproved)'
  <2>1. /\ proposalCount = 0 /\ DOMAIN proposal = {}
        /\ UNCHANGED <<proposal, proposalCount, userVote, migrationDone>>
    BY <1>2 DEF Initialize, TallyInv, TypeInv, TypeOK, NothingBeforeInitialize
  <2> QED BY <2>1 DEF TallyInv, TalliesMatchVotes, VotesFollowProposals,
          ExecutedWasApproved, Backers, Opponents, Voters
<1>3. ASSUME NEW a \in Address, NEW b \in Address, UpdateAdmin(a, b)
      PROVE  (TalliesMatchVotes /\ VotesFollowProposals /\ ExecutedWasApproved)'
  BY <1>3, SameTallies DEF UpdateAdmin
<1>4. ASSUME NEW a \in Address, NEW list \in SUBSET Address,
             SetExecutorAllowlist(a, list)
      PROVE  (TalliesMatchVotes /\ VotesFollowProposals /\ ExecutedWasApproved)'
  BY <1>4, SameTallies DEF SetExecutorAllowlist
<1>5. CASE UNCHANGED vars
  BY <1>5, SameTallies DEF vars, storage
<1> QED BY <1>1, <1>2, <1>3, <1>4, <1>5, CreateTallies, VoteTallies, ExecuteTallies,
        MigrateTallies DEF Next

\* The two records of a vote, the counters and the entries, never disagree,
\* whatever calls are made and in whatever order.
THEOREM TalliesAgree == Spec => []TalliesMatchVotes
<1>1. TallyInv => TalliesMatchVotes
  BY DEF TallyInv
<1> QED BY InitTallyInv, StepTallyInv, <1>1, PTL DEF Spec

\* A proposal that executed has at least the required number of distinct
\* accounts behind it, and keeps them.
THEOREM ExecutionsAreBacked == Spec => []ExecutedIsBacked
<1>1. TallyInv => ExecutedIsBacked
  <2> SUFFICES ASSUME TallyInv, NEW id \in DOMAIN proposal, proposal[id].executed
               PROVE  Cardinality(Backers(id)) >= requiredApprovals
    BY DEF ExecutedIsBacked
  <2>1. proposal[id].approvals >= requiredApprovals
    BY DEF TallyInv, ExecutedWasApproved, Approved
  <2>2. proposal[id].approvals <= Cardinality(Backers(id))
    BY DEF TallyInv, TalliesMatchVotes
  <2>3. proposal[id].approvals \in Nat /\ requiredApprovals \in Nat
    BY GovernanceConstants DEF TallyInv, TypeInv, TypeOK, Proposal, Tally
  <2>4. Cardinality(Backers(id)) \in Nat
    BY VotersAreAccounts, AccountsFinite
  <2> QED BY <2>1, <2>2, <2>3, <2>4
<1> QED BY InitTallyInv, StepTallyInv, <1>1, PTL DEF Spec

-----------------------------------------------------------------------------
LEMMA ClosedStep ==
  TypeInv /\ [Next]_vars =>
    [\A id \in DOMAIN proposal :
       proposal[id].executed \/ now > proposal[id].deadline
         => id \in DOMAIN proposal' /\ proposal'[id] = proposal[id]]_vars
<1> SUFFICES ASSUME TypeInv, Next, NEW id \in DOMAIN proposal,
                    proposal[id].executed \/ now > proposal[id].deadline
             PROVE  id \in DOMAIN proposal' /\ proposal'[id] = proposal[id]
  BY DEF vars, storage
<1>1. /\ proposal \in [1..proposalCount -> Proposal] /\ proposalCount \in Nat
      /\ now \in Int /\ proposal[id].deadline \in Int
      /\ ~IsOpen(id)
  <2>1. /\ proposal \in [1..proposalCount -> Proposal]
        /\ proposalCount \in Tally /\ now \in Timestamp
    BY DEF TypeInv, TypeOK
  <2>2. proposalCount \in Nat /\ now \in Int
    BY <2>1, GovernanceConstants DEF Tally, Timestamp
  <2>3. proposal[id] \in Proposal
    BY <2>1
  <2>4. proposal[id].deadline \in Int
    BY <2>3, GovernanceConstants DEF Proposal, Timestamp
  <2>5. ~IsOpen(id)
    BY <2>2, <2>4 DEF IsOpen
  <2> QED BY <2>1, <2>2, <2>4, <2>5
<1>2. CASE UNCHANGED proposal
  BY <1>2
<1>3. ASSUME NEW a \in Address, NEW k \in Key, NEW v \in Value, NEW d \in Duration,
             CreateProposal(a, k, v, d)
      PROVE  id \in DOMAIN proposal' /\ proposal'[id] = proposal[id]
  <2>1. id # proposalCount + 1
    BY <1>1
  <2> QED BY <1>3, <2>1 DEF CreateProposal
<1>4. ASSUME NEW a \in Address, NEW x \in ProposalId, NEW against \in BOOLEAN,
             VoteProposal(a, x, against)
      PROVE  id \in DOMAIN proposal' /\ proposal'[id] = proposal[id]
  <2>1. x # id
    BY <1>1, <1>4 DEF VoteProposal
  <2> QED BY <1>1, <1>4, <2>1 DEF VoteProposal
<1>5. ASSUME NEW a \in Address, NEW x \in ProposalId, ExecuteProposal(a, x)
      PROVE  id \in DOMAIN proposal' /\ proposal'[id] = proposal[id]
  <2>1. x # id
    BY <1>1, <1>5 DEF ExecuteProposal, MayExecute
  <2> QED BY <1>1, <1>5, <2>1 DEF ExecuteProposal
<1>6. Next => \/ UNCHANGED proposal
              \/ \E a \in Address, k \in Key, v \in Value, d \in Duration :
                   CreateProposal(a, k, v, d)
              \/ \E a \in Address, x \in ProposalId, against \in BOOLEAN :
                   VoteProposal(a, x, against)
              \/ \E a \in Address, x \in ProposalId : ExecuteProposal(a, x)
  BY DEF Next, Tick, storage, Initialize, UpdateAdmin, SetExecutorAllowlist, MigrateVotes
<1> QED BY <1>2, <1>3, <1>4, <1>5, <1>6

\* No call, however late or repeated, changes a proposal that executed or ran
\* past its deadline.
THEOREM ClosedProposalsAreFinal == Spec => ClosedIsFinal
BY InitTypeInv, StepTypeInv, ClosedStep, PTL DEF Spec, ClosedIsFinal

-----------------------------------------------------------------------------
\* The events and the executed flags agree, so a second execution or a late
\* vote, refused by the flag, is one that QuorumDecisions refuses too.
EventsMatchFlags ==
  \A i \in DOMAIN executions :
    executions[i] \in DOMAIN proposal /\ proposal[executions[i]].executed

DecisionInv == TallyInv /\ EventsMatchFlags

LEMMA InitDecisionInv == Init => DecisionInv
<1> SUFFICES ASSUME Init PROVE EventsMatchFlags
  BY InitTallyInv DEF DecisionInv
<1>1. executions = << >>
  BY DEF Init, InitFresh, InitUpgraded, EmptyStorage
<1> QED BY <1>1 DEF EventsMatchFlags

LEMMA StepDecisionInv == DecisionInv /\ [Next]_vars => DecisionInv'
<1> SUFFICES ASSUME DecisionInv, [Next]_vars PROVE EventsMatchFlags'
  BY StepTallyInv DEF DecisionInv
<1>1. /\ TypeInv /\ EventsMatchFlags /\ executions \in Seq(ProposalId)
      /\ proposal \in [1..proposalCount -> Proposal] /\ proposalCount \in Nat
  BY GovernanceConstants DEF DecisionInv, TallyInv, TypeInv, TypeOK, Tally
<1>2. ASSUME UNCHANGED executions,
             \A id \in DOMAIN proposal : proposal[id].executed =>
               id \in DOMAIN proposal' /\ proposal'[id].executed
      PROVE  EventsMatchFlags'
  BY <1>1, <1>2 DEF EventsMatchFlags
<1>3. \A id \in DOMAIN proposal : proposal[id].executed =>
        id \in DOMAIN proposal' /\ proposal'[id].executed
  <2>1. CASE UNCHANGED vars
    BY <2>1 DEF vars, storage
  <2>2. CASE ~UNCHANGED vars
    BY <1>1, <2>2, ClosedStep
  <2> QED BY <2>1, <2>2
<1>4. ASSUME NEW a \in Address, NEW id \in ProposalId, ExecuteProposal(a, id)
      PROVE  EventsMatchFlags'
  <2>1. /\ executions' = Append(executions, id) /\ id \in DOMAIN proposal
        /\ proposal' = [proposal EXCEPT ![id].executed = TRUE]
    BY <1>4 DEF ExecuteProposal, MayExecute, IsOpen
  <2>2. id \in DOMAIN proposal' /\ proposal'[id].executed
    <3>1. proposal[id] \in Proposal
      BY <1>1, <2>1
    <3>2. proposal'[id] = [proposal[id] EXCEPT !.executed = TRUE]
      BY <1>1, <2>1
    <3> QED BY <1>1, <2>1, <3>1, <3>2 DEF Proposal
  <2>3. ASSUME NEW i \in DOMAIN executions'
        PROVE  executions'[i] = id \/ (i \in DOMAIN executions /\ executions'[i] = executions[i])
    BY <1>1, <2>1, <2>3
  <2> QED BY <1>1, <1>3, <2>2, <2>3 DEF EventsMatchFlags
<1>5. UNCHANGED executions \/ \E a \in Address, id \in ProposalId : ExecuteProposal(a, id)
  BY DEF Next, vars, storage, Tick, Initialize, UpdateAdmin, CreateProposal,
     VoteProposal, SetExecutorAllowlist, MigrateVotes
<1> QED BY <1>2, <1>3, <1>4, <1>5

LEMMA InitDecisions == Init => Decisions!Init
<1> SUFFICES ASSUME Init PROVE Decisions!Init
  OBVIOUS
<1>1. TypeInv
  BY InitTypeInv
<1>2. executions = << >>
  BY DEF Init, InitFresh, InitUpgraded, EmptyStorage
<1>3. \A id \in ProposalId : Opponents(id) = {}
  BY DEF Init, InitFresh, InitUpgraded, Opponents, Voters
<1>4. DOMAIN proposal \in SUBSET ProposalId
  BY <1>1, GovernanceConstants DEF TypeInv, TypeOK, CountIsBounded, Tally, ProposalId
<1>5. \A id \in DOMAIN proposal : proposal[id] \in Proposal
  BY <1>1 DEF TypeInv, TypeOK
<1> QED BY <1>2, <1>3, <1>4, <1>5, VotersAreAccounts
        DEF Decisions!Init, Proposal, Content, ContentOf

\* Calls that touch nothing QuorumDecisions knows of.
LEMMA SameCamps ==
  ASSUME UNCHANGED userVote
  PROVE  UNCHANGED <<[id \in ProposalId |-> Backers(id)],
                     [id \in ProposalId |-> Opponents(id)]>>
BY DEF Backers, Opponents, Voters

LEMMA CreateOpens ==
  ASSUME DecisionInv, NEW a \in Address, NEW k \in Key, NEW v \in Value,
         NEW d \in Duration, CreateProposal(a, k, v, d)
  PROVE  Decisions!Next
<1> DEFINE newId == proposalCount + 1
           new == [proposer |-> a, key |-> k, value |-> v, deadline |-> now + d]
           contents == [id \in DOMAIN proposal |-> ContentOf(proposal[id])]
<1>1. /\ newId \in ProposalId /\ newId \notin DOMAIN proposal
      /\ admin # NoAddress /\ requiredApprovals \in Nat
      /\ new \in Content
      /\ DOMAIN proposal' = DOMAIN proposal \cup {newId}
      /\ UNCHANGED <<admin, requiredApprovals, userVote, executions, migrationDone>>
  BY GovernanceConstants DEF CreateProposal, DecisionInv, TallyInv, TypeInv, TypeOK,
     Tally, Timestamp, Content
<1>2. contents' = [x \in DOMAIN contents \cup {newId} |->
                     IF x = newId THEN new ELSE contents[x]]
  <2>1. \A id \in DOMAIN proposal : proposal'[id] = proposal[id]
    BY <1>1 DEF CreateProposal
  <2>2. ContentOf(proposal'[newId]) = new
    BY <1>1 DEF CreateProposal, ContentOf
  <2>3. contents' = [id \in DOMAIN proposal \cup {newId} |-> ContentOf(proposal'[id])]
    BY <1>1
  <2> HIDE DEF newId, new
  <2> QED BY <1>1, <2>1, <2>2, <2>3
<1>3. Quorum # NoAddress /\ Quorum' = Quorum
  BY <1>1, GovernanceConstants DEF Quorum
<1>4. Decisions!Open(newId, new)
  <2>1. newId \notin Decisions!Opened
    BY <1>1 DEF Decisions!Opened
  <2> HIDE DEF newId, new
  <2> QED BY <1>1, <1>2, <1>3, <2>1, SameCamps DEF Decisions!Open, Decisions!Opened
<1> QED BY <1>1, <1>4 DEF Decisions!Next

LEMMA VoteTakesSide ==
  ASSUME DecisionInv, NEW a \in Address, NEW id \in ProposalId, NEW against \in BOOLEAN,
         VoteProposal(a, id, against)
  PROVE  Decisions!Next
<1> DEFINE contents == [x \in DOMAIN proposal |-> ContentOf(proposal[x])]
           backing == [x \in ProposalId |-> Backers(x)]
           opposing == [x \in ProposalId |-> Opponents(x)]
<1>1. /\ TypeInv /\ EventsMatchFlags
      /\ proposal \in [1..proposalCount -> Proposal]
      /\ id \in 1..proposalCount /\ ~proposal[id].executed
      /\ UNCHANGED <<Quorum, executions, migrationDone>>
  BY DEF DecisionInv, TallyInv, TypeInv, TypeOK, VoteProposal, IsOpen, Quorum
<1>2. contents' = contents
  <2>1. DOMAIN proposal' = DOMAIN proposal
    BY <1>1 DEF VoteProposal
  <2>2. ASSUME NEW x \in DOMAIN proposal
        PROVE  ContentOf(proposal'[x]) = ContentOf(proposal[x])
    <3>1. proposal[x] \in Proposal
      BY <1>1
    <3>2. \/ proposal'[x] = proposal[x]
          \/ proposal'[x] = [proposal[x] EXCEPT !.rejections = @ + 1]
          \/ proposal'[x] = [proposal[x] EXCEPT !.approvals = @ + 1]
      BY <1>1 DEF VoteProposal
    <3> QED BY <3>1, <3>2 DEF Proposal, ContentOf
  <2> QED BY <2>1, <2>2
<1>3. Decisions!Undecided(id) /\ ~Decisions!HasSide(id, a)
  <2>1. id \notin Decisions!Decided
    BY <1>1 DEF Decisions!Decided, EventsMatchFlags
  <2>2. a \notin Backers(id) /\ a \notin Opponents(id)
    BY <1>1, VoteMovesOne
  <2> QED BY <1>1, <2>1, <2>2
          DEF Decisions!Undecided, Decisions!Opened, Decisions!HasSide
<1>4. CASE against
  <2>1. backing' = backing /\ opposing' = [opposing EXCEPT ![id] = @ \cup {a}]
    BY <1>1, <1>4, VoteMovesOne
  <2>2. Decisions!Oppose(id, a)
    BY <1>1, <1>2, <1>3, <2>1 DEF Decisions!Oppose
  <2> QED BY <2>2 DEF Decisions!Next
<1>5. CASE ~against
  <2>1. opposing' = opposing /\ backing' = [backing EXCEPT ![id] = @ \cup {a}]
    BY <1>1, <1>5, VoteMovesOne
  <2>2. Decisions!Back(id, a)
    BY <1>1, <1>2, <1>3, <2>1 DEF Decisions!Back
  <2> QED BY <2>2 DEF Decisions!Next
<1> QED BY <1>4, <1>5

LEMMA ExecuteDecides ==
  ASSUME DecisionInv, NEW a \in Address, NEW id \in ProposalId, ExecuteProposal(a, id)
  PROVE  Decisions!Next
<1> DEFINE contents == [x \in DOMAIN proposal |-> ContentOf(proposal[x])]
<1>1. /\ TypeInv /\ EventsMatchFlags /\ TalliesMatchVotes
      /\ proposal \in [1..proposalCount -> Proposal]
      /\ id \in 1..proposalCount /\ ~proposal[id].executed
      /\ proposal[id].approvals >= requiredApprovals
      /\ proposal' = [proposal EXCEPT ![id].executed = TRUE]
      /\ executions' = Append(executions, id)
      /\ UNCHANGED <<Quorum, userVote, migrationDone>>
  BY DEF DecisionInv, TallyInv, TypeInv, TypeOK, ExecuteProposal, MayExecute, IsOpen,
     Approved, Quorum
<1>2. contents' = contents
  <2>1. DOMAIN proposal' = DOMAIN proposal
    BY <1>1
  <2>2. ASSUME NEW x \in DOMAIN proposal
        PROVE  ContentOf(proposal'[x]) = ContentOf(proposal[x])
    <3>1. proposal[x] \in Proposal
      BY <1>1
    <3>2. \/ proposal'[x] = proposal[x]
          \/ proposal'[x] = [proposal[x] EXCEPT !.executed = TRUE]
      BY <1>1
    <3> QED BY <3>1, <3>2 DEF Proposal, ContentOf
  <2> QED BY <2>1, <2>2
<1>3. Decisions!Undecided(id)
  BY <1>1 DEF Decisions!Undecided, Decisions!Opened, Decisions!Decided, EventsMatchFlags
<1>4. Cardinality(Backers(id)) >= Quorum
  <2>1. admin # NoAddress /\ requiredApprovals \in Nat /\ proposal[id].approvals \in Nat
    BY <1>1, GovernanceConstants
       DEF TypeInv, TypeOK, NothingBeforeInitialize, Tally, Proposal
  <2>2. Cardinality(Backers(id)) \in Nat
    BY VotersAreAccounts, AccountsFinite
  <2> QED BY <1>1, <2>1, <2>2 DEF Quorum, TalliesMatchVotes
<1>5. Decisions!Decide(id)
  <2>1. [x \in ProposalId |-> Backers(x)][id] = Backers(id)
    OBVIOUS
  <2>2. UNCHANGED <<Quorum, contents, [x \in ProposalId |-> Backers(x)],
                    [x \in ProposalId |-> Opponents(x)], migrationDone>>
    BY <1>1, <1>2, SameCamps
  <2>3. Decisions!Cardinality(Backers(id)) = Cardinality(Backers(id))
    BY DEF Decisions!Cardinality, Cardinality
  <2> QED BY <1>1, <1>3, <1>4, <2>1, <2>2, <2>3 DEF Decisions!Decide
<1> QED BY <1>5 DEF Decisions!Next

LEMMA MigrationImports ==
  ASSUME DecisionInv, NEW a \in Address, NEW snapshot \in SUBSET (ProposalId \X Address),
         MigrateVotes(a, snapshot)
  PROVE  Decisions!Next
<1> DEFINE contents == [x \in DOMAIN proposal |-> ContentOf(proposal[x])]
           backing == [x \in ProposalId |-> Backers(x)]
           opposing == [x \in ProposalId |-> Opponents(x)]
<1>1. /\ ~migrationDone /\ migrationDone'
      /\ UNCHANGED <<Quorum, contents, executions>>
      /\ userVote \in [ProposalId \X Address -> VoteEntry]
      /\ \A v \in ProposalId \X Address :
           userVote'[v] = IF v \in snapshot /\ userVote[v] = "absent"
                          THEN "for" ELSE userVote[v]
  BY DEF MigrateVotes, DecisionInv, TallyInv, TypeInv, TypeOK, Quorum
<1>2. ASSUME NEW id \in ProposalId
      PROVE  /\ Backers(id) \subseteq Backers(id)' /\ Backers(id)' \subseteq Address
             /\ (Backers(id)' \ Backers(id)) \cap Opponents(id) = {}
             /\ Opponents(id)' = Opponents(id)
  BY <1>1 DEF Backers, Opponents, Voters
<1>3. /\ backing' \in [ProposalId -> SUBSET Address] /\ opposing' = opposing
      /\ \A id \in ProposalId : /\ backing[id] \subseteq backing'[id]
                                /\ (backing'[id] \ backing[id]) \cap opposing[id] = {}
  BY <1>2
<1>4. Decisions!Import
  BY <1>1, <1>3 DEF Decisions!Import
<1> QED BY <1>4 DEF Decisions!Next

LEMMA StepDecisions == DecisionInv /\ [Next]_vars => [Decisions!Next]_(Decisions!qvars)
<1> SUFFICES ASSUME DecisionInv, [Next]_vars
             PROVE  Decisions!Next \/ UNCHANGED Decisions!qvars
  OBVIOUS
<1>1. ASSUME UNCHANGED <<proposal, userVote, executions, migrationDone, Quorum>>
      PROVE  UNCHANGED Decisions!qvars
  BY <1>1, SameCamps DEF Decisions!qvars
<1>2. CASE Tick
  BY <1>1, <1>2 DEF Tick, storage, Quorum
<1>3. ASSUME NEW a \in Address, NEW n \in Tally, Initialize(a, n)
      PROVE  Decisions!Next
  <2>1. /\ Quorum' \in Nat
        /\ UNCHANGED <<proposal, userVote, executions, migrationDone>>
    BY <1>3, GovernanceConstants DEF Initialize, Quorum, Tally
  <2>2. Decisions!SetQuorum
    BY <2>1, SameCamps DEF Decisions!SetQuorum
  <2> QED BY <2>2 DEF Decisions!Next
<1>4. ASSUME NEW a \in Address, NEW b \in Address, UpdateAdmin(a, b)
      PROVE  UNCHANGED Decisions!qvars
  BY <1>1, <1>4, GovernanceConstants DEF UpdateAdmin, IsAdmin, Quorum
<1>5. ASSUME NEW a \in Address, NEW list \in SUBSET Address,
             SetExecutorAllowlist(a, list)
      PROVE  UNCHANGED Decisions!qvars
  BY <1>1, <1>5 DEF SetExecutorAllowlist, Quorum
<1>6. CASE UNCHANGED vars
  BY <1>1, <1>6 DEF vars, storage, Quorum
<1> QED BY <1>2, <1>3, <1>4, <1>5, <1>6, CreateOpens, VoteTakesSide, ExecuteDecides,
        MigrationImports DEF Next

\* The contract, with its counters, deadlines, roles and storage keys, does
\* nothing that deciding by a quorum of distinct accounts would not allow.
THEOREM ContractImplementsDecisions == Spec => ImplementsDecisions
BY InitDecisionInv, StepDecisionInv, InitDecisions, StepDecisions, PTL
   DEF Spec, ImplementsDecisions, Decisions!Spec
-----------------------------------------------------------------------------
\* No call changes whose a proposal is or what it proposes.
LEMMA ContentStays ==
  ASSUME TypeInv, [Next]_vars, NEW id \in DOMAIN proposal
  PROVE  id \in DOMAIN proposal' /\ ContentOf(proposal'[id]) = ContentOf(proposal[id])
<1>1. /\ proposal \in [1..proposalCount -> Proposal] /\ proposalCount \in Nat
      /\ proposal[id] \in Proposal
  BY GovernanceConstants DEF TypeInv, TypeOK, Tally
<1>2. CASE UNCHANGED proposal
  BY <1>2
<1>3. ASSUME NEW a \in Address, NEW k \in Key, NEW v \in Value, NEW d \in Duration,
             CreateProposal(a, k, v, d)
      PROVE  id \in DOMAIN proposal' /\ proposal'[id] = proposal[id]
  <2>1. id # proposalCount + 1
    BY <1>1
  <2> QED BY <1>3, <2>1 DEF CreateProposal
<1>4. ASSUME NEW x \in ProposalId, NEW p,
             \/ proposal' = [proposal EXCEPT ![x].executed = TRUE]
             \/ proposal' = [proposal EXCEPT ![x].approvals = p]
             \/ proposal' = [proposal EXCEPT ![x].rejections = p]
      PROVE  id \in DOMAIN proposal' /\ ContentOf(proposal'[id]) = ContentOf(proposal[id])
  <2>1. /\ DOMAIN proposal' = DOMAIN proposal
        /\ \/ proposal'[id] = proposal[id]
           \/ proposal'[id] = [proposal[id] EXCEPT !.executed = TRUE]
           \/ proposal'[id] = [proposal[id] EXCEPT !.approvals = p]
           \/ proposal'[id] = [proposal[id] EXCEPT !.rejections = p]
    BY <1>1, <1>4
  <2> QED BY <1>1, <2>1 DEF Proposal, ContentOf
<1>5. ASSUME NEW a \in Address, NEW x \in ProposalId, NEW against \in BOOLEAN,
             VoteProposal(a, x, against) \/ ExecuteProposal(a, x)
      PROVE  \E p : \/ proposal' = [proposal EXCEPT ![x].executed = TRUE]
                    \/ proposal' = [proposal EXCEPT ![x].approvals = p]
                    \/ proposal' = [proposal EXCEPT ![x].rejections = p]
  BY <1>5 DEF VoteProposal, ExecuteProposal
<1>6. \/ UNCHANGED proposal
      \/ \E a \in Address, k \in Key, v \in Value, d \in Duration :
           CreateProposal(a, k, v, d)
      \/ \E a \in Address, x \in ProposalId, against \in BOOLEAN :
           VoteProposal(a, x, against) \/ ExecuteProposal(a, x)
  BY DEF Next, vars, Tick, storage, Initialize, UpdateAdmin, SetExecutorAllowlist,
     MigrateVotes
<1> QED BY <1>2, <1>3, <1>4, <1>5, <1>6

LEMMA InitIndex == Init => IndexIsComplete
<1> SUFFICES ASSUME Init PROVE IndexIsComplete
  OBVIOUS
<1>1. /\ \A a \in Address : proposalsByProposer[a] = << >>
      /\ DOMAIN proposal = 1..proposalCount /\ upgradedAt = proposalCount
      /\ proposalCount \in Nat
  BY InitTypeInv, GovernanceConstants
     DEF Init, InitFresh, InitUpgraded, EmptyStorage, TypeInv, TypeOK, Tally
<1>2. {id \in DOMAIN proposal : id > upgradedAt} = {}
  BY <1>1
<1> QED BY <1>1, <1>2 DEF IndexIsComplete

\* The proposals the index should list for a.
Listed(a) == {id \in DOMAIN proposal : id > upgradedAt /\ proposal[id].proposer = a}

LEMMA CreateIndexes ==
  ASSUME TypeInv, IndexIsComplete, NEW p \in Address, NEW k \in Key, NEW v \in Value,
         NEW d \in Duration, CreateProposal(p, k, v, d)
  PROVE  IndexIsComplete'
<1> DEFINE newId == proposalCount + 1
<1>1. /\ proposalCount \in Nat /\ upgradedAt \in Nat /\ upgradedAt <= proposalCount
      /\ DOMAIN proposal = 1..proposalCount /\ newId \in Nat
      /\ DOMAIN proposal' = DOMAIN proposal \cup {newId}
      /\ \A id \in DOMAIN proposal : proposal'[id] = proposal[id]
      /\ proposal'[newId].proposer = p /\ upgradedAt' = upgradedAt
      /\ proposalsByProposer \in [Address -> Seq(ProposalId)]
      /\ proposalsByProposer' = [proposalsByProposer EXCEPT ![p] = Append(@, newId)]
  BY GovernanceConstants DEF CreateProposal, Indexed, TypeInv, TypeOK, Tally
<1> HIDE DEF newId
<1>2. /\ newId > upgradedAt /\ newId \notin DOMAIN proposal
      /\ \A id \in DOMAIN proposal : id < newId
  BY <1>1 DEF newId
<1> SUFFICES ASSUME NEW a \in Address
             PROVE  LET ids == proposalsByProposer'[a] IN
                    /\ {ids[i] : i \in DOMAIN ids} = Listed(a)'
                    /\ \A i, j \in DOMAIN ids : i < j => ids[i] < ids[j]
  BY DEF IndexIsComplete, Listed
<1> DEFINE ids == proposalsByProposer[a]
<1>3. /\ ids \in Seq(ProposalId) /\ {ids[i] : i \in DOMAIN ids} = Listed(a)
      /\ \A i, j \in DOMAIN ids : i < j => ids[i] < ids[j]
  BY <1>1 DEF IndexIsComplete, Listed
<1>4. CASE a # p
  <2>1. proposalsByProposer'[a] = ids /\ Listed(a)' = Listed(a)
    BY <1>1, <1>4 DEF Listed
  <2> QED BY <1>3, <2>1
<1>5. CASE a = p
  <2> DEFINE more == Append(ids, newId)
  <2>1. proposalsByProposer'[a] = more /\ Listed(a)' = Listed(a) \cup {newId}
    BY <1>1, <1>2, <1>5 DEF Listed
  <2>2. /\ DOMAIN ids = 1..Len(ids) /\ Len(ids) \in Nat
        /\ DOMAIN more = 1..(Len(ids) + 1) /\ more[Len(ids) + 1] = newId
        /\ \A i \in DOMAIN ids : more[i] = ids[i]
    BY <1>3
  <2>3. DOMAIN more = DOMAIN ids \cup {Len(ids) + 1}
    BY <2>2
  <2>4. \A i \in DOMAIN ids : ids[i] < newId
    BY <1>2, <1>3 DEF Listed
  <2> HIDE DEF ids, more
  <2>5. {more[i] : i \in DOMAIN more} = {ids[i] : i \in DOMAIN ids} \cup {newId}
    BY <2>2, <2>3
  <2>6. ASSUME NEW i \in DOMAIN more, NEW j \in DOMAIN more, i < j PROVE more[i] < more[j]
    <3>1. i \in DOMAIN ids
      BY <2>2, <2>6
    <3>2. CASE j \in DOMAIN ids
      BY <1>3, <2>2, <2>6, <3>1, <3>2
    <3>3. CASE j = Len(ids) + 1
      BY <2>2, <2>4, <3>1, <3>3
    <3> QED BY <2>3, <3>2, <3>3
  <2> QED BY <1>3, <2>1, <2>5, <2>6
<1> QED BY <1>4, <1>5

LEMMA StepIndex == TypeInv /\ IndexIsComplete /\ [Next]_vars => IndexIsComplete'
<1> SUFFICES ASSUME TypeInv, IndexIsComplete, [Next]_vars PROVE IndexIsComplete'
  OBVIOUS
<1>1. ASSUME UNCHANGED <<proposalsByProposer, upgradedAt>>, DOMAIN proposal' = DOMAIN proposal
      PROVE  IndexIsComplete'
  <2>1. \A id \in DOMAIN proposal : proposal'[id].proposer = proposal[id].proposer
    BY ContentStays DEF ContentOf
  <2> QED BY <1>1, <2>1 DEF IndexIsComplete
<1>2. \/ UNCHANGED <<proposalsByProposer, upgradedAt>> /\ DOMAIN proposal' = DOMAIN proposal
      \/ \E a \in Address, k \in Key, v \in Value, d \in Duration :
           CreateProposal(a, k, v, d)
  <2>1. proposal \in [1..proposalCount -> Proposal]
    BY DEF TypeInv, TypeOK
  <2> QED BY <2>1 DEF Next, vars, storage, Tick, Initialize, UpdateAdmin, VoteProposal,
          SetExecutorAllowlist, ExecuteProposal, MigrateVotes
<1> QED BY <1>1, <1>2, CreateIndexes

\* create_proposal writes a proposal and its proposer's list apart; the list
\* never misses one, names one twice or holds another's.
THEOREM IndexStaysComplete == Spec => []IndexIsComplete
<1>1. Init => TypeInv /\ IndexIsComplete
  BY InitTypeInv, InitIndex
<1>2. TypeInv /\ IndexIsComplete /\ [Next]_vars => TypeInv' /\ IndexIsComplete'
  BY StepTypeInv, StepIndex
<1> QED BY <1>1, <1>2, PTL DEF Spec
-----------------------------------------------------------------------------
LEMMA InitConfig == Init => ConfigIsLastExecuted
<1> SUFFICES ASSUME Init PROVE ConfigIsLastExecuted
  OBVIOUS
<1>1. executions = << >> /\ \A k \in Key : configValue[k] = NoValue
  BY DEF Init, InitFresh, InitUpgraded, EmptyStorage
<1> QED BY <1>1 DEF ConfigIsLastExecuted, LastFor

\* What is executed keeps its key and value.
LEMMA ExecutedStays ==
  ASSUME DecisionInv, [Next]_vars, NEW i \in DOMAIN executions
  PROVE  /\ proposal'[executions[i]].key = proposal[executions[i]].key
         /\ proposal'[executions[i]].value = proposal[executions[i]].value
BY ContentStays DEF DecisionInv, TallyInv, EventsMatchFlags, ContentOf

LEMMA ExecuteConfigures ==
  ASSUME DecisionInv, ConfigIsLastExecuted, NEW a \in Address, NEW id \in ProposalId,
         ExecuteProposal(a, id)
  PROVE  ConfigIsLastExecuted'
<1> DEFINE p == proposal[id]
           n == Len(executions) + 1
<1>1. /\ executions \in Seq(ProposalId) /\ configValue \in [Key -> Value \cup {NoValue}]
      /\ p \in Proposal /\ p.key \in Key /\ ~p.executed /\ id \in DOMAIN proposal
      /\ executions' = Append(executions, id)
      /\ configValue' = [configValue EXCEPT ![p.key] = p.value]
  BY DEF DecisionInv, TallyInv, TypeInv, TypeOK, ExecuteProposal, Configured, MayExecute,
     IsOpen, Proposal
<1>2. \A i \in DOMAIN executions :
        /\ executions[i] # id
        /\ proposal'[executions[i]].key = proposal[executions[i]].key
        /\ proposal'[executions[i]].value = proposal[executions[i]].value
  <2>1. Next
    BY DEF Next
  <2> QED BY <1>1, <2>1, ExecutedStays DEF DecisionInv, EventsMatchFlags
<1>3. proposal'[id].key = p.key /\ proposal'[id].value = p.value
  <2>1. Next /\ TypeInv
    BY DEF Next, DecisionInv, TallyInv
  <2> QED BY <1>1, <2>1, ContentStays DEF ContentOf
<1>4. /\ DOMAIN executions = 1..Len(executions) /\ Len(executions) \in Nat
      /\ DOMAIN executions' = 1..n /\ executions'[n] = id
      /\ \A i \in DOMAIN executions : executions'[i] = executions[i]
  BY <1>1
<1>5. DOMAIN executions' = DOMAIN executions \cup {n} /\ n \notin DOMAIN executions
      /\ \A i \in DOMAIN executions : i \in Int /\ i < n
  BY <1>4
<1> HIDE DEF n, p
<1>6. \A i, j \in DOMAIN executions' : executions'[i] = executions'[j] => i = j
  BY <1>2, <1>4, <1>5 DEF ConfigIsLastExecuted
<1>7. ASSUME NEW k \in Key, k = p.key PROVE n \in LastFor(k)'
  <2>1. \A j \in DOMAIN executions' : ~(j > n)
    BY <1>4 DEF n
  <2> QED BY <1>3, <1>4, <1>5, <1>7, <2>1 DEF LastFor
<1>8. ASSUME NEW k \in Key, k # p.key PROVE LastFor(k)' = LastFor(k)
  <2>1. n \notin LastFor(k)' /\ LastFor(k) \subseteq DOMAIN executions
    BY <1>3, <1>4, <1>8 DEF LastFor
  <2>2. ASSUME NEW i \in DOMAIN executions PROVE i \in LastFor(k)' <=> i \in LastFor(k)
    BY <1>2, <1>3, <1>4, <1>5, <1>8 DEF LastFor
  <2>3. LastFor(k)' \subseteq DOMAIN executions'
    BY DEF LastFor
  <2> QED BY <1>5, <2>1, <2>2, <2>3
<1>9. ASSUME NEW k \in Key
      PROVE  \/ LastFor(k)' = {} /\ configValue'[k] = NoValue
             \/ \E i \in LastFor(k)' : configValue'[k] = proposal'[executions'[i]].value
  <2>1. CASE k = p.key
    BY <1>1, <1>3, <1>4, <1>7, <2>1
  <2>2. CASE k # p.key
    <3>1. configValue'[k] = configValue[k] /\ LastFor(k)' = LastFor(k)
      BY <1>1, <1>8, <2>2
    <3>2. \A i \in LastFor(k) : proposal'[executions'[i]].value = proposal[executions[i]].value
      BY <1>2, <1>4 DEF LastFor
    <3> QED BY <3>1, <3>2 DEF ConfigIsLastExecuted
  <2> QED BY <2>1, <2>2
<1> QED BY <1>6, <1>9 DEF ConfigIsLastExecuted

LEMMA StepConfig == DecisionInv /\ ConfigIsLastExecuted /\ [Next]_vars => ConfigIsLastExecuted'
<1> SUFFICES ASSUME DecisionInv, ConfigIsLastExecuted, [Next]_vars
             PROVE  ConfigIsLastExecuted'
  OBVIOUS
<1>1. CASE UNCHANGED <<executions, configValue>>
  <2>1. \A k : LastFor(k)' = LastFor(k)
    BY <1>1, ExecutedStays DEF LastFor
  <2>2. \A k : \A i \in LastFor(k) :
          proposal'[executions'[i]].value = proposal[executions[i]].value
    BY <1>1, ExecutedStays DEF LastFor
  <2> QED BY <1>1, <2>1, <2>2 DEF ConfigIsLastExecuted
<1>2. \/ UNCHANGED <<executions, configValue>>
      \/ \E a \in Address, id \in ProposalId : ExecuteProposal(a, id)
  BY DEF Next, vars, storage, Tick, Initialize, UpdateAdmin, CreateProposal,
     VoteProposal, SetExecutorAllowlist, MigrateVotes
<1> QED BY <1>1, <1>2, ExecuteConfigures

\* Of several approved proposals for one key the last one executed is in force,
\* in whatever order they were created and voted on.
THEOREM ConfigFollowsExecutions == Spec => []ConfigIsLastExecuted
<1>1. Init => DecisionInv /\ ConfigIsLastExecuted
  BY InitDecisionInv, InitConfig
<1>2. DecisionInv /\ ConfigIsLastExecuted /\ [Next]_vars
        => DecisionInv' /\ ConfigIsLastExecuted'
  BY StepDecisionInv, StepConfig
<1> QED BY <1>1, <1>2, PTL DEF Spec
=============================================================================

----------------------------- MODULE Contracts -----------------------------
(***************************************************************************)
(* The four contracts of the ledger side by side.  They share no storage   *)
(* and none calls another, so a behaviour is one of one contract:          *)
(* `contract' names it, and the storage of the others stays as it is.      *)
(***************************************************************************)
EXTENDS Multisig

\* Each contract has its own accounts and its own largest values, which an
\* instance can choose apart: the widths of the types in the code are equal.
CONSTANTS
  Owner, CreateBatch, RecoverBatch, NoWallet, MaxWallets, MaxTime, \* BatchWallet
  Cell, Hash, Client, Limit, MaxGists,                             \* GistRegistry
  Voter, Key, AdminKey, Value, NoValue, Duration, MaxTally, MaxProposals,
  Deadline                                                         \* Governance

VARIABLES
  contract,
  walletAdmin, store, call, now,
  gist, reader,
  govAdmin, requiredApprovals, proposalCount, proposal, userVote, configValue,
  proposalsByProposer, migrationDone, executorAllowlist, govNow, govExecutions, upgradedAt

walletVars == <<walletAdmin, store, call, now>>
registryVars == <<gist, reader>>
govVars == <<govAdmin, requiredApprovals, proposalCount, proposal, userVote, configValue,
             proposalsByProposer, migrationDone, executorAllowlist, govNow, govExecutions,
             upgradedAt>>
contractVars == <<contract, vars, walletVars, registryVars, govVars>>

Wallet == INSTANCE BatchWallet WITH Address <- Owner, U64Max <- MaxWallets,
  admin <- walletAdmin
Registry == INSTANCE GistRegistry
Gov == INSTANCE Governance WITH Address <- Voter, U32Max <- MaxTally, U64Max <- Deadline,
  admin <- govAdmin, now <- govNow, executions <- govExecutions

ASSUME ContractsConstants ==
  /\ MultisigConstants /\ Wallet!BatchWalletConstants
  /\ Registry!GistRegistryConstants /\ Gov!GovernanceConstants

ContractsInit ==
  /\ contract \in {"multisig", "batch-wallet", "gist-registry", "governance"}
  /\ Init /\ Wallet!Init /\ Registry!Init /\ Gov!Init

ContractsNext ==
  \/ contract = "multisig" /\ Next /\ UNCHANGED <<contract, walletVars, registryVars, govVars>>
  \/ contract = "batch-wallet" /\ Wallet!Next /\ UNCHANGED <<contract, vars, registryVars, govVars>>
  \/ contract = "gist-registry" /\ Registry!Next /\ UNCHANGED <<contract, vars, walletVars, govVars>>
  \/ contract = "governance" /\ Gov!Next /\ UNCHANGED <<contract, vars, walletVars, registryVars>>

ContractsSpec == ContractsInit /\ [][ContractsNext]_contractVars
-----------------------------------------------------------------------------
\* The storage of every contract has its types.
StorageTypeOK == TypeOK /\ Wallet!TypeOK /\ Registry!TypeOK /\ Gov!TypeOK

\* Governance: with two proposals for one key the value in force is that of the one
\* executed last, and none executes twice.
ConfigIsLastExecuted == Gov!ConfigIsLastExecuted

\* Governance: the index by proposer lists every proposal once, in order.
IndexIsComplete == Gov!IndexIsComplete

\* Batch wallet: ids are issued once and never lost, through every prefix of a
\* batch.
WalletsAreIssued == Wallet!WalletsAreIssued

\* Batch wallet: what a batch reports is what it did.
ResultsMatchEffect == Wallet!ResultsMatchEffect

\* Batch wallet: others see all of a batch or nothing.
BatchIsAtomic == Wallet!BatchIsAtomic

\* Gist registry: a page is what the reference says it is, and pages add up to
\* the gists of the cell, although gists arrive in between.
PagingIsExact == Registry!PageIsFirstMatches /\ Registry!PagingIsExact

\* Gist registry: a reader that is told it is done holds every gist of the cell.
DoneMeansAll == Registry!DoneMeansAll
=============================================================================

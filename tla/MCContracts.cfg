\* Two governance proposals, two multisig transactions over every signer list,
\* batches over four accounts whose ids run out at 3, and two clients paging
\* through five gists.
SPECIFICATION MCSpec
CONSTANTS
  a1 = a1  a2 = a2  a3 = a3  a4 = a4  x1 = x1  x2 = x2  c1 = c1  c2 = c2
  NoAddress = NoAddress
  NoValue = NoValue
  NoWallet = NoWallet
  Address = {a1, a2, a3}
  Body = {x1, x2}
  SignerList <- Lists
  Amount <- Amounts
  U32Max = 3
  U64Max = 2
  I128Max = 5
  Owner = {a1, a2, a3, a4}
  CreateBatch <- Creations
  RecoverBatch <- Recoveries
  MaxWallets = 3
  MaxTime = 1
  Cell = {x1, x2}
  Hash = {0}
  Client = {c1, c2}
  Limit = {1, 2, 3}
  MaxGists = 5
  Voter = {x1, x2}
  Key = {0, 1}
  AdminKey = {}
  Value = {0, 1}
  Duration = {1}
  MaxTally = 2
  MaxProposals = 2
  Deadline = 1
SYMMETRY Symmetry
INVARIANTS
  StorageTypeOK
  ConfigIsLastExecuted
  IndexIsComplete
  CountMatchesApprovals
  PendingCanPass
  WalletsAreIssued
  ResultsMatchEffect
  PagingIsExact
PROPERTIES
  ImplementsDecisions
  BatchIsAtomic
  DoneMeansAll
CHECK_DEADLOCK FALSE

\* One proposal, three voters, a fresh or an upgraded contract.
SPECIFICATION Spec
CONSTANTS
  NoAddress = NoAddress
  NoValue = NoValue
  Address = {a1, a2, a3}
  Key = {kAdmin}
  AdminKey = {kAdmin}
  Value = {v1}
  Duration = {0, 1}
  U32Max = 2
  MaxProposals = 1
  U64Max = 2
INVARIANTS
  TypeOK
  TalliesMatchVotes
  ExecutedIsBacked
PROPERTIES ClosedIsFinal ImplementsDecisions
CHECK_DEADLOCK FALSE

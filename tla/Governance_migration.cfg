\* The comment on migrate_votes, against a contract with legacy votes.
SPECIFICATION Spec
CONSTANTS
  NoAddress = NoAddress
  NoValue = NoValue
  Address = {a1, a2, a3}
  Key = {kAdmin}
  AdminKey = {kAdmin}
  Value = {v1}
  Duration = {0, 1}
  U32Max = 2
  MaxProposals = 1
  U64Max = 2
PROPERTY MigrationReplacesLegacy
CHECK_DEADLOCK FALSE

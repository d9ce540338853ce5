SPECIFICATION FairSpec
CONSTANTS
  Nil = Nil
  Half = 4
  Policies <- MCPolicies
  Defaults <- MCDefaults
  MaxEdits = 2
INVARIANTS
  TypeOK
  NumbersAreMeant
  SettledAfterCreate
PROPERTIES
  PatchSparesWhatWasSet
  PolicyConverges

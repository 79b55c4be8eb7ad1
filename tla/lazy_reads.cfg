SPECIFICATION Spec
CONSTANTS
  c1 = c1
  c2 = c2
  Callers <- MCCallers
  Fields <- MCFields
  Kind <- MCKind
  Type <- MCType
  Ops <- MCOps
  Ledgers <- MCLedgers
  MaxIndexKey = 1
  MaxBlocks = 3
  Faults <- AllFaults
  PathErrorKinds <- Kinds
SYMMETRY Symmetry
INVARIANTS TypeOK ReadsCommittedState EagerAndLazyAgree

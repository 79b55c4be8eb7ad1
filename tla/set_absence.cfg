SPECIFICATION Spec
CONSTANTS
  c1 = c1
  c2 = c2
  Callers <- MCCallers
  Fields <- MCFields
  Kind <- MCKind
  Type <- MCType
  Ops <- SetOps
  Ledgers <- TwoLedgers
  MaxIndexKey = 1
  MaxBlocks = 2
  Faults <- NoFaults
  PathErrorKinds <- Kinds
INVARIANT SetAbsenceIsGenuine

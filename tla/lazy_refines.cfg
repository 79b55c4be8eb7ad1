SPECIFICATION FairSpec
CONSTANTS
  c1 = c1
  c2 = c2
  Callers <- MCCallers
  Fields <- MCFields
  Kind <- MCKind
  Type <- MCType
  Ops <- MCOps
  Ledgers <- MCLedgers
  MaxIndexKey = 1
  MaxBlocks = 2
  Faults <- AllFaults
  PathErrorKinds <- ButSets
PROPERTIES ImplementsAtomicReads CallsSettle

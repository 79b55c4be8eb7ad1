SPECIFICATION Spec
CONSTANTS
  MaxFlat = 2
  MaxFields = 4
  MaxBlocks = 2
  KindChoices <- MCKinds
  Stored <- MCStored
  Split <- MCSplit
  Path <- MCPath
  Keys <- MCKeys
  Type <- MCType
INVARIANTS TypeOK OwnPlaceReadsOwn FlatBindingsFailLoudly

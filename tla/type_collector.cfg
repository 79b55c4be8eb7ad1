SPECIFICATION Spec
CONSTANTS
  Nodes <- MCNodes
  Sort <- MCSort
  Name <- MCName
  Parts <- MCParts
  Named <- MCNamed
  Leaf <- MCLeaf
  Maxval <- MCMaxval
  TsType <- MCTsType
  Wrap <- MCWrap
  Copies <- MCCopies
  Variants <- MCVariants
  Largest <- MCLargest
  Nesting <- MCNesting
  Values <- MCValues
  Encoded <- MCEncoded
  Contracts <- AllContracts
INVARIANTS TypeOK DefinedOnce MentionsAreDefined ValuesRoundTrip
CHECK_DEADLOCK FALSE

SPECIFICATION Spec
CONSTANTS
  Nodes <- MCNodes
  Sort <- MCSort
  Name <- MCName
  Parts <- MCParts
  Named <- MCNamed
  Leaf <- MCLeaf
  Maxval <- MCMaxval
  TsType <- MCTsType
  Wrap <- MCWrap
  Copies <- MCCopies
  Variants <- MCVariants
  Largest <- MCLargest
  Nesting <- MCNesting
  Values <- MCValues
  Encoded <- MCEncoded
  Contracts <- FewContracts
INVARIANT DefinitionsMirrorTypes
CHECK_DEADLOCK FALSE

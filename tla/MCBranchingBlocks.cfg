SPECIFICATION Spec
CONSTANTS
  Size = 4
  Alphabet <- FlowBytes
  Programs <- AllPrograms
  Undecodable <- MCUndecodable
  StartLimit = 256
  MaxDepth = 2
INVARIANTS
  CollectionClosed
  
  EndsOnlyThere
PROPERTIES
  CollectionEnds

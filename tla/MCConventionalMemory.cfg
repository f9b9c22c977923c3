SPECIFICATION Spec
CONSTANTS
  Paragraphs = 7
  Requests <- MCRequests
  Segments <- MCSegments
INVARIANTS
  Tiling
  Coalesced
PROPERTIES
  ReleaseReturns
  ImplementsPool

SPECIFICATION LayoutSpec
CONSTANTS
  Payloads = {0, 1, 5}
  MaxActions = 3
INVARIANTS
  CopiesFit

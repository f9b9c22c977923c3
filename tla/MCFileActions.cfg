SPECIFICATION Spec
CONSTANTS
  Files = {a, b}
  HandleValues <- MCHandles
  MaxCalls = 4
INVARIANTS
  HandlesAreDescriptors
  OutputPreserved

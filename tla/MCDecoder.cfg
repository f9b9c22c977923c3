SPECIFICATION Spec
CONSTANTS
  Width = 6
  Images <- MCImages
INVARIANTS
  SelfContained
  PrefixKeepsTarget
  OperandsAreTail
CHECK_DEADLOCK FALSE

SPECIFICATION StraightLineSpec
CONSTANTS
  Size = 4
  Alphabet <- FlowBytes
  Programs <- MCPrograms
  Undecodable <- MCUndecodable
INVARIANTS
  OnlyReachable
  FixedPoint
  CoversReachable
  VerdictExact
  ConsumersAccept
  LoweringKeepsFlow
  RecoveryExact
  TranslatesTheGraph
PROPERTIES
  Terminates
  EndsOrLeavesGraph

SPECIFICATION StraightLineSpec
CONSTANTS
  Size = 6
  Alphabet <- FlowBytes
  Programs <- PrintThenLoop
  Undecodable <- MCUndecodable
PROPERTY CompileTerminates

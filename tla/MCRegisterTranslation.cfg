SPECIFICATION MCSpec
CONSTANTS
  Registers = {"ax", "bx"}
  Immediates = {1, 2}
  Operations = {"subtract", "bit_xor", "compare"}
  ByteSize = 2
  BitOp <- MCBitOp
  EntryBytes = {1}
  MaxValues = 11
INVARIANTS
  LiveExact
  
  
  

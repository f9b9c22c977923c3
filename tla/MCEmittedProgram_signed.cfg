SPECIFICATION EmittedSpec
CONSTANTS
  InputFiles <- MCFiles
  Byte = 4
  Paragraph = 2
  PageSize = 4
  MinimumHeader = 3
  EntrySize = 1
  NoImage = NoImage
  PspSegment = 1
  ComOrigin = 1
  MemorySize = 12
  FirstBlock = 8
  TableSize = 5
  HandleMask = 5
  Names = {f, g}
  Wants <- MCWants
  FileCallers <- MCFileCallers
  BlockCallers <- MCBlockCallers
  FlagCallers <- MCFlagCallers
  Half = 8
  ByteHalf = 2
  BitAnd <- MCBitAnd
  Rams <- MCRams
  Offsets = {0, 1, 15}
  Counts = {0, 3}
  Elements = {5}
  Followed = 0
  MaxOpens = 6
  MaxGrants = 4
INVARIANT SignedDecided
CHECK_DEADLOCK FALSE

SPECIFICATION FilesSpec
CONSTANTS
  Files = {f, g}
  Data <- MCData
  LastHandle = 6
  Counts <- MCCounts
  SeekOffsets <- MCOffsets
  MaxPosition = 1
  MaxLength = 2
  NoFile = NoFile
INVARIANT
  StreamsAgree
PROPERTY
  ImplementsDosFiles
SYMMETRY MCSymmetry

SPECIFICATION PassSpec
CONSTANTS
  HalfSize = 256
  WordSize = 65536
  ByteSize = 256
  HalfAnd <- MCAnd
  HalfOr <- MCOr
  HalfXor <- MCXor
  OpcodeSize = 16
  ModifierSize = 2
  Illegal = Illegal
  ResetAddress = 16
  SourceTexts <- Texts
INVARIANTS LabelsMeanCells ImageComplete WordsDecode
\* An assembly ends.
CHECK_DEADLOCK FALSE

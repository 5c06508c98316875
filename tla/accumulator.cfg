SPECIFICATION Spec
CONSTANTS
  HalfSize = 8
  WordSize = 64
  ByteSize = 4
  HalfAnd <- MCAnd
  HalfOr <- MCOr
  HalfXor <- MCXor
INVARIANTS BranchesAgree AddFlagsExact

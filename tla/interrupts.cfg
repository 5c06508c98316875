SPECIFICATION ISpec
CONSTANTS
  HalfSize = 32
  WordSize = 1024
  ByteSize = 2
  Byte = {0, 1}
  HalfAnd <- MCAnd
  HalfOr <- MCOr
  HalfXor <- MCXor
  Decode <- MCDecode
  Illegal = Illegal
  Programs <- Handled
  ResetAddress = 10
  CountSize = 1
  MaxDelay = 1
  Legacy = TRUE
  MaxOutput = 1
  MaxInput = 1
  MaxDepth = 2
INVARIANTS TypeOK FramesIntact
PROPERTIES Transparent AbiKept

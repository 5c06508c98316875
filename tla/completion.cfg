SPECIFICATION IRunSpec
CONSTANTS
  HalfSize = 32
  WordSize = 1024
  ByteSize = 2
  Byte = {0, 1}
  HalfAnd <- MCAnd
  HalfOr <- MCOr
  HalfXor <- MCXor
  Decode <- MCDecode
  Illegal = Illegal
  Programs <- Guarded
  ResetAddress = 10
  CountSize = 1
  MaxDelay = 1
  Legacy = FALSE
  MaxOutput = 1
  MaxInput = 1
  MaxDepth = 1
PROPERTIES NoReentry CompletesWhenQuiet

SPECIFICATION RSpec
CONSTANTS
  HalfSize = 16
  WordSize = 256
  ByteSize = 1
  Byte = {0}
  HalfAnd <- MCAnd
  HalfOr <- MCOr
  HalfXor <- MCXor
  Decode <- MCDecode
  Illegal = Illegal
  Programs <- Interrupted
  ResetAddress = 4
  CountSize = 2
  MaxDelay = 1
  Legacy = FALSE
  MaxOutput = 0
  MaxInput = 1
  Limits = {0, 3}
  Watchable = {0}
PROPERTIES EnabledSourceOnly

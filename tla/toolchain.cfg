SPECIFICATION ToolSpec
CONSTANTS
  HalfSize = 512
  WordSize = 262144
  ByteSize = 256
  Byte <- Bytes
  HalfAnd <- MCAnd
  HalfOr <- MCOr
  HalfXor <- MCXor
  OpcodeSize = 16
  ModifierSize = 4
  Decode <- DecodeTable
  Illegal = Illegal
  Programs <- NoProgram
  ResetAddress = 16
  CountSize = 1
  MaxDelay = 1
  Legacy = FALSE
  MaxOutput = 4
  MaxInput = 1
  Sources <- ToolSources
  FedBytes = {7, 200}
  MaxFed = 2
INVARIANTS AcceptedExactly ComputesMeaning FramesTrue SlotsHeld CallsAsProved
PROPERTIES Finishes

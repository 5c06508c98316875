SPECIFICATION UnwindSpec
CONSTANTS
  HalfSize = 6
  WordSize = 36
  ByteSize = 6
  HalfAnd <- NoBits
  HalfOr <- NoBits
  HalfXor <- NoBits
  Illegal = Illegal
  ResetAddress = 1
  Linked <- Program
  Memories <- AllMemories
  Requests = {0, 2, 300}
INVARIANTS FramesDistinct CallersFollow WarnedExactly
PROPERTIES Terminates
\* An unwinding ends.
CHECK_DEADLOCK FALSE

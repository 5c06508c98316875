SPECIFICATION Spec
CONSTANTS
  halts = halts
  loops = loops
  fails = fails
  Program = {halts, loops, fails}
  Broken = Broken
  NoProgram = NoProgram
  MaxLength = 2
  Length <- MCLength
  Ending <- MCEnding
  RunLimit = 3
  ChunkSize = 2
  MaxGeneration = 4
INVARIANTS TypeOK OneActor PageTruthful InputKept RunBudget MessageTruthful
PROPERTIES ControlSpec BreakpointRespected

SPECIFICATION FairSpec
CONSTANTS
  halts = halts
  loops = loops
  fails = fails
  Program = {loops, fails}
  Broken = Broken
  NoProgram = NoProgram
  MaxLength = 2
  Length <- MCLength
  Ending <- MCEnding
  RunLimit = 3
  ChunkSize = 2
  MaxGeneration = 3
PROPERTIES OperationEnds RunEnds

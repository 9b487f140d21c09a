SPECIFICATION Spec
CONSTANTS
  Name <- Words
  HashCodes <- Codes
  BucketSizes <- Sizes
  InitialListSize = 1
  NoSymbol = NoSymbol
  MaxValue = 255
  Newline = Newline
  Sources <- Texts
  OldImages <- OldFiles
  MaxLines = 72
  MaxProgram = 16
  MaxSymbols = 2
  MemorySizes = {8, 64}
  MaxLoads = 2
INVARIANTS TypeOK SplitLosesNoLine CodeAtItsAddress ImageRoundTrip LoadAllOrNothing
PROPERTY AssemblyEnds
CHECK_DEADLOCK FALSE

SPECIFICATION Spec
CONSTANTS
  Name = {"main", "f", "g"}
  HashCodes <- Codes
  BucketSizes <- Sizes
  InitialListSize = 1
  NoSymbol = NoSymbol
  MaxWord = 255
  MaxUInt32 = 15
  MaxBytes = 4
  MemoryBase = 16
  Memory <- ProgramAndHeap
  HeapStart = 16
  Start = 0
  MaxPersistent = 3
  MaxTemporary = 1
  InitialStack = 0
  MaxCallFrames = 2
  MaxAddresses = 2
  Host = {"unl", "client"}
  Lines <- AllLines
  Symbols <- ProgramSymbols
  Options <- Settings
  MaxCommands = 3
INVARIANTS TypeOK BreakpointNeverMissed BreakpointListsSound CallStackInFrames CrashOnlyInTwoWays
PROPERTIES FailuresHandledAsAsked BatchRunEnds
CHECK_DEADLOCK FALSE

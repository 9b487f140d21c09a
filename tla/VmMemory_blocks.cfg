SPECIFICATION Spec
CONSTANTS
  InitialMemory = 32
  MaxMemory = 96
  ProgramSizes = {10, 90}
  CodeSizes = {8, 12, 20}
  MaxFrames = 0
  MaxAddresses = 0
  MaxRefs = 0
  CodeRefersToState = FALSE
INVARIANTS TypeOK BlocksHoldLink HeapTiled FreeListSorted FreeBlocksApart BytesFreeExact
CHECK_DEADLOCK FALSE

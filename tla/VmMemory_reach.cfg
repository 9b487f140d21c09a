SPECIFICATION Spec
CONSTANTS
  InitialMemory = 32
  MaxMemory = 56
  ProgramSizes = {8}
  CodeSizes = {3, 12}
  MaxFrames = 0
  MaxAddresses = 1
  MaxRefs = 2
  CodeRefersToState = FALSE
INVARIANTS NoDanglingAddress CollectorStaysInBlocks
PROPERTY ImplementsObjectStore
CHECK_DEADLOCK FALSE

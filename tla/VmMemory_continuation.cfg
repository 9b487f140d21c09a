SPECIFICATION Spec
CONSTANTS
  InitialMemory = 64
  MaxMemory = 64
  ProgramSizes = {8}
  CodeSizes = {13}
  MaxFrames = 0
  MaxAddresses = 0
  MaxRefs = 1
  CodeRefersToState = TRUE
PROPERTY KeepsReachable
CHECK_DEADLOCK FALSE

SPECIFICATION Spec
CONSTANTS
  InitialMemory = 32
  MaxMemory = 40
  ProgramSizes = {8}
  CodeSizes = {8}
  MaxFrames = 0
  MaxAddresses = 0
  MaxRefs = 0
  CodeRefersToState = FALSE
INVARIANT GrowthHoldsABlock
CHECK_DEADLOCK FALSE

SPECIFICATION Spec
CONSTANTS
  InitialMemory = 32
  MaxMemory = 64
  ProgramSizes = {12, 64, 80}
  MaxCallStackSize = 3
  MaxAddressStackSize = 2
  InitialStackSize = 1
  UInt32 = 256
  Instructions <- Misuse
  AllocationFails = TRUE
INVARIANTS TypeOK ReturnsIntoLiveCode CallStackInFrames PutBackHasRoom
CHECK_DEADLOCK FALSE

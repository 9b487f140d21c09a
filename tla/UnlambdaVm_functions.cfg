SPECIFICATION Spec
CONSTANTS
  InitialMemory = 32
  MaxMemory = 88
  ProgramSizes = {12}
  MaxCallStackSize = 2
  MaxAddressStackSize = 3
  InitialStackSize = 1
  UInt32 = 256
  Instructions <- Functions
  AllocationFails = FALSE
INVARIANTS NoDanglingReference ReturnsIntoLiveCode SavedStacksFit OutOfMemoryIsReal
PROPERTY FailureChangesNothing
CHECK_DEADLOCK FALSE

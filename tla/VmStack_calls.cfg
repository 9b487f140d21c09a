SPECIFICATION Spec
CONSTANTS
  Word = {1, 2}
  InitialBytes = 8
  MaxBytes = 40
  MaxWords = 3
INVARIANT WithinAllocation
PROPERTIES AllocationNeverShrinks ImplementsBoundedStack

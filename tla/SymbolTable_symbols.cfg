SPECIFICATION Spec
CONSTANTS
  Name = {"a", "b", "c"}
  Address = {0, 1, 2}
  MaxSymbols = 3
  HashCodes <- Codes
  BucketSizes <- Sizes
  InitialListSize = 1
  NoSymbol = NoSymbol
INVARIANTS IndexesAgree AddressListSound SearchFinds
PROPERTY ImplementsDirectory
CHECK_DEADLOCK FALSE

SPECIFICATION Spec
CONSTANTS
  Word = {1, 2}
  InitialBytes = 8
  MaxBytes = 32
  MaxWords = 3
PROPERTY SetIsClearAndPush

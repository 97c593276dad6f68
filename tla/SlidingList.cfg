SPECIFICATION Spec
CONSTANTS
  SeqNums = {1, 2, 3, 4}
  Address = {a1, a2, a3, a4, a5}
  NULL = NULL
SYMMETRY AddressSymmetry
INVARIANTS ListsAreSound ReceiveAscends
PROPERTIES ImplementsWindows

CONSTANTS
  size = 4
  Values = {1, 2, 3, 4}
  Nil = Nil
SPECIFICATION Spec
INVARIANTS RingInv SearchFindsRank
PROPERTY ImplementsBoundedQueue

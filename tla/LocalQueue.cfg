SPECIFICATION Spec
CONSTANTS
  Values = {v1, v2}
  NoValue = NoValue
  ItemCount = 4
INVARIANTS
  TypeOK
  RingHoldsQueue

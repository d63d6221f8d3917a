SPECIFICATION Spec
CONSTANTS
  Values = {v1, v2}
  NoValue = NoValue
  SlotCount = 4
  MaxBatch = 2
INVARIANTS
  TypeOK
  NoSlotRace
  IInv
PROPERTIES
  ImplementsFifo

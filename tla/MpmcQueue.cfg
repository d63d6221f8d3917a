SPECIFICATION Spec
CONSTANTS
  Threads = {t1, t2, t3}
  ItemCount = 1
  IndexLimit = 100
  MaxPushes = 3
INVARIANTS
  TypeOK
  SlotHasOneOwner
PROPERTIES
  FailsOnlyIfBlocked
  ImplementsClaimedFifo

SPECIFICATION FairSpec
CONSTANTS
  Threads = {t1, t2, t3, t4}
  ItemCount = 2
  IndexLimit = 100
  MaxPushes = 5
  Producer = t1
INVARIANTS
  TypeOK
  SlotHasOneOwner
  PopGetsItsItem
PROPERTIES
  FailsOnlyIfBlocked
  PushFailsOnlyIfBlocked
  CallsReturn
  ImplementsClaimedFifo

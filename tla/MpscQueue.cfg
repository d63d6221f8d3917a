SPECIFICATION FairSpec
CONSTANTS
  NumProducers = 2
  NumItems = 2
  BatchItems = 2
  MaxPosts = 4
INVARIANTS
  TypeOK
  EveryBlockFreedOnce
  FlagCoversBox
  NothingLost
PROPERTIES
  ReadInOrder
  NoMoreIsTrue
  EveryItemIsRead

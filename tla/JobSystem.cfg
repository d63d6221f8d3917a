SPECIFICATION FairSpec
CONSTANTS
  NumWorkers = 2
  MaxJobs = 3
  MaxInt = 7
  MaxCalls = 2
  Requests <- MCRequests
INVARIANTS
  TypeOK
  NoIterationTwice
  DoneIndexCounts
  RefCountsHolders
  WaitingWorkerIsFlagged
  GoneMeansAllRan
  ArithmeticFits
PROPERTIES
  ImplementsJobBoard
  JobsDoneUnlessAllOversleep

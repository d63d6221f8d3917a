SPECIFICATION FairSpec
CONSTANTS
  NumWorkers = 2
  MaxJobs = 2
  MaxInt = 7
  MaxCalls = 1
  Requests <- MCSingle
PROPERTIES
  DestroyEnds

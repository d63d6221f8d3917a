SPECIFICATION Spec
CONSTANTS
  NumWorkers = 1
  MaxJobs = 1
  MaxInt = 7
  MaxCalls = 2
  Requests <- MCSingle
PROPERTIES
  BatchIsProcessed

SPECIFICATION Spec
CONSTANTS
  Threads = {t1, t2}
  MaxCalls = 2
  NumWorkers = 1
  MaxJobs = 4
  NoJob = NoJob
INVARIANTS
  EveryCallIsPosted

SPECIFICATION FairSpec
CONSTANTS
  Workers = {v1}
  Jobs = {j1, j2, j3}
  Concurrency = 2
  MaxTasks = 6
  MaxFaults = 2
  MaxExits = 1
INVARIANT EntriesRun
PROPERTY EveryJobIsDone

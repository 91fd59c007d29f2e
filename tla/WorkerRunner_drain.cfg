SPECIFICATION Spec
CONSTANTS
  Workers = {v1}
  Jobs = {j1, j2}
  Concurrency = 2
  MaxTasks = 5
  MaxFaults = 1
  MaxExits = 1
SYMMETRY Symmetric
INVARIANT CleanDrainIsIdle

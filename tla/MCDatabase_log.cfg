SPECIFICATION Spec
CONSTANTS
  Table <- MCTables
  Capacity <- MCCapacity
  Dir_ids = {1, 2}
  HALF = 2
  MaxTime = 1
  MaxBatch = 2
  MaxRows = 3
  MaxOpens = 2
INVARIANTS TypeOK FlagMatchesFile
PROPERTY KeepsThePromise
CHECK_DEADLOCK FALSE

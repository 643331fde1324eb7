SPECIFICATION Spec
CONSTANTS
  MaxConcurrent = 2
  MaxRetained = 3
  PoolSize = 1
  MaxTables = 1
  MaxStarts = 4
  Unwanted = {1, 3}
INVARIANTS
  CapacityKept
  RecentJobsKept
  CancelHonoured
  ConnectionsReturned
PROPERTIES
  JobsEnd
\* The starts run out.
CHECK_DEADLOCK FALSE

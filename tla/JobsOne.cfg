SPECIFICATION Spec
CONSTANTS
  Jobs = {j1, j2}
  Clients = {c1}
  Workers = {w1}
  Poison = {}
  Logging = {}
  MaxBatch = 2
  MaxSubmits = 2
  MaxCrashes = 1
CHECK_DEADLOCK FALSE
INVARIANT TypeOK
INVARIANT RunsWithinSubmits
PROPERTY JobsSettle
PROPERTY WatchEnds

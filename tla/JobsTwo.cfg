SPECIFICATION Spec
CONSTANTS
  Jobs = {j1, j2}
  Clients = {c1}
  Workers = {w1, w2}
  Poison = {}
  Logging = {}
  MaxBatch = 2
  MaxSubmits = 2
  MaxCrashes = 0
CHECK_DEADLOCK FALSE
INVARIANT RunsWithinSubmits

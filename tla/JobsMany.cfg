SPECIFICATION Spec
CONSTANTS
  Jobs = {j1, j2}
  Clients = {c1}
  Workers = {w1, w2}
  Poison = {j2}
  Logging = {j1}
  MaxBatch = 2
  MaxSubmits = 2
  MaxCrashes = 0
CHECK_DEADLOCK FALSE
SYMMETRY WorkSymmetry
INVARIANT RunsPerWorker
INVARIANT OutcomeOfOneRun

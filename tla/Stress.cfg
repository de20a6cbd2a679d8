SPECIFICATION Spec
CONSTANTS
  Inputs = {1, 2}
  Samples = {1}
  Outputs = {"a", "b"}
  Expected <- MCExpected
  Isolate = FALSE
  Workers = {w1, w2}
  Requests = {r1}
  Stored <- MCStored
  Initials <- MCInitials
  SeededBrute <- MCSeededBrute
  MaxIndex = 1
  Submitted <- MCSubmitted
  MaxJobs = 2
  MaxCalls = 1
INVARIANTS TypeOK VerdictOfPrograms IndexOfCases InterpretationOfJob FailuresArchived
CONSTRAINT Scenarios
SYMMETRY Symmetry
CHECK_DEADLOCK FALSE

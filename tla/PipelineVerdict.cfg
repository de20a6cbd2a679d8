SPECIFICATION Spec
CONSTANTS
  Requests = {r1, r2}
  M3Order <- MCShortOrder
  Origin = "crawl"
  Ops = {"check", "rewrite"}
  MaxStarts = 3
CHECK_DEADLOCK FALSE
SYMMETRY RequestSymmetry
INVARIANT RecordedVerdict

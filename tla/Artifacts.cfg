SPECIFICATION Spec
CONSTANTS
  Requests = {r1, r2}
  Batches = {w1}
  Starts = {s1, s2}
  seed = a
  Contents = {a, b, demo}
  Seeded = {demo}
  Imported <- MCImported
  MaxVersion = 3
INVARIANTS TypeOK OneRowPerVersion NoGap StagedApart
PROPERTIES SavesEnd LogSpec
CHECK_DEADLOCK FALSE

SPECIFICATION Spec
CONSTANTS
  Requests = {r1, r2}
  M3Order <- MCShortOrder
  Origin = "original"
  Ops = {"approve", "reject", "dispatch", "chat_dispatch", "rewrite", "confirm"}
  MaxStarts = 3
CHECK_DEADLOCK FALSE
PROPERTY RequestsEnd

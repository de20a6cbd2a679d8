SPECIFICATION Spec
CONSTANTS
  Requests = {r1, r2, r3}
  Slots = {A, B}
  Problems = {p, q}
  Existing = {p}
  NoProblem = NoProblem
  NoReport = NoReport
  Langgraph = {r1}
  MaxStarts = 4
INVARIANTS TypeOK SlotsAgree ReportOfSlots ApprovedReport
PROPERTIES BindTakesHold RequestsEnd
CHECK_DEADLOCK FALSE

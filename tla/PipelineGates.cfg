SPECIFICATION Spec
CONSTANTS
  Requests = {r1, r2}
  M3Order <- MCM3Order
  Origin = "crawl"
  Ops = {"approve", "reject", "dispatch", "chat_dispatch", "confirm", "check", "rewrite", "cancel", "retry", "stress"}
  MaxStarts = 3
CHECK_DEADLOCK FALSE
SYMMETRY RequestSymmetry
INVARIANT TypeOK
INVARIANT ApprovalOrder
INVARIANT NoStageSkipped
INVARIANT ImportEvidence
INVARIANT CurrentIsOpen
INVARIANT OneAgentPerStage
PROPERTY GateSpec

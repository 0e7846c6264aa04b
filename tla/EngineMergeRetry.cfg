SPECIFICATION Spec
CONSTANTS
  Node <- BranchNode
  Conn <- BranchConn
  Rank <- BranchRank
  Shapes <- BranchShapes
  Starters <- OnlyTrigger
  Disabled = {}
  Webhooks = {}
  Triggers = {"trigger"}
  Deleters = {}
  Responders = {}
  Fallible = {"merge"}
  Exec = {e1}
  Faults = {"retry"}
  MaxRuns = 2
  None = None
INVARIANTS RetryRestoresInput
CHECK_DEADLOCK FALSE

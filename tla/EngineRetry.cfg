SPECIFICATION Spec
CONSTANTS
  Node <- TreeNode
  Conn <- TreeConn
  Rank <- TreeRank
  Shapes <- TreeShapes
  Starters <- OnlyTrigger
  Disabled = {}
  Webhooks = {}
  Triggers = {"trigger"}
  Deleters = {}
  Responders = {}
  Fallible = {"a", "b", "c"}
  Exec = {e1, e2, e3}
  Faults = {"crash", "retry"}
  MaxRuns = 2
  None = None
SYMMETRY MCSymmetry
INVARIANTS RetryRestoresInput NothingLost
CHECK_DEADLOCK FALSE

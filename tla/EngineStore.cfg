SPECIFICATION Spec
CONSTANTS
  Node <- TreeNode
  Conn <- TreeConn
  Rank <- TreeRank
  Shapes <- TreeShapes
  Starters <- OnlyTrigger
  Disabled = {}
  Webhooks = {}
  Triggers = {"trigger"}
  Deleters = {}
  Responders = {}
  Fallible = {"a", "c"}
  Exec = {e1, e2}
  Faults = {"db", "delete", "retry"}
  MaxRuns = 2
  None = None
INVARIANTS FinishedIsClean
PROPERTIES RowLifecycle
CHECK_DEADLOCK FALSE

SPECIFICATION FairSpec
CONSTANTS
  Node <- MeshNode
  Conn <- MeshConn
  Rank <- MeshRank
  Shapes <- MeshShapes
  Starters <- MeshStarters
  Disabled = {"off"}
  Webhooks = {"t1"}
  Triggers = {"t1", "t2"}
  Deleters = {"del"}
  Responders = {"respond"}
  Fallible = {"x", "merge"}
  Exec = {e1}
  Faults = {"cancel", "crash"}
  MaxRuns = 4
  None = None
INVARIANTS TypeOK MergeInputsFromSources RowIsCheckpoint NothingLost SiblingsInCanvasOrder DeletedIffAsked
PROPERTIES EveryExecutionEnds
CHECK_DEADLOCK FALSE

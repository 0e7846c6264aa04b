SPECIFICATION MCFairSpec
CONSTANTS
  Exec = {e1, e2}
  Spare = {e2}
  Modes <- EveryMode
INVARIANTS TypeOK OneResponse AnswerMatchesRun WaitGroupCounts ListedWhileRunning
PROPERTIES NoLateWrite RequestsEnd
CHECK_DEADLOCK FALSE

SPECIFICATION Spec
CONSTANTS
  Exec = {e1}
  Spare = {}
  Modes = {"responseNode"}
INVARIANT HookNeverBlocksHandler
CHECK_DEADLOCK FALSE

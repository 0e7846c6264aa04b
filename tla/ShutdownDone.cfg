SPECIFICATION FairSpec
CONSTANTS
  Exec = {e1}
  Spare = {}
  Modes = {"onReceived"}
PROPERTY DoneIfAllComplete
CHECK_DEADLOCK FALSE

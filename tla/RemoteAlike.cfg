CONSTANTS
  MaxPid = 2
  MaxStarts = 1
  MaxOthers = 1
  AsRoot = TRUE
SPECIFICATION Spec
CHECK_DEADLOCK FALSE
PROPERTY KillsNoOther

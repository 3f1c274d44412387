CONSTANTS
  MaxPid = 3
  MaxStarts = 3
  MaxOthers = 2
  AsRoot = TRUE
SPECIFICATION Spec
CHECK_DEADLOCK FALSE
INVARIANT NoSessionIsLost
PROPERTIES KillsSessionsOrHeirs RootStopsSessions

CONSTANTS
  MaxEdits = 2
  MaxStarts = 1
SPECIFICATION FairSpec
CHECK_DEADLOCK FALSE
PROPERTY RunningProxyTakesEffect

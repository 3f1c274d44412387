CONSTANTS
  MaxPid = 2
  MaxStarts = 1
  MaxOthers = 0
  AsRoot = FALSE
SPECIFICATION Spec
INVARIANT StopFindsSession

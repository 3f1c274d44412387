CONSTANTS
  RuleCount = 3
  LogPlaces = {0, 1, 2}
  MaxRuns = 3
  MaxFaults = 1
  MaxRestarts = 2
SPECIFICATION EgressSpec
\* The bounds on runs and restarts end the model.
CHECK_DEADLOCK FALSE
INVARIANTS NeverHalfASet LoadedIsBuilt
PROPERTY BuildIsInvisible

CONSTANTS
  RuleCount = 2
  LogPlaces = {0}
  MaxRuns = 1
  MaxFaults = 0
  MaxRestarts = 0
SPECIFICATION EgressSpec
CHECK_DEADLOCK FALSE
INVARIANT LoadedIsInForce

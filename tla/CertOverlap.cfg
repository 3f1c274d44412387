CONSTANTS
  Sessions = {"s1", "s2"}
  MaxGenerations = 2
  MaxFaults = 0
SPECIFICATION TreeSpec
CHECK_DEADLOCK FALSE
INVARIANT OneAuthority

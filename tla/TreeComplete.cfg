CONSTANTS
  Sessions = {"s1"}
  MaxProxies = 2
  MaxKills = 0
  MaxReuses = 0
SPECIFICATION Spec
CHECK_DEADLOCK FALSE
INVARIANT TreeIsComplete

CONSTANTS
  Sessions = {"s1"}
  MaxProxies = 2
  MaxKills = 1
  MaxReuses = 1
SPECIFICATION Spec
CHECK_DEADLOCK FALSE
PROPERTY ReadyIsBoundDespiteReuse

CONSTANTS
  Sessions = {"s1", "s2"}
  MaxProxies = 2
  MaxKills = 1
  MaxReuses = 1
SPECIFICATION FairSpec
\* The bound on launches ends the model.
CHECK_DEADLOCK FALSE
INVARIANTS
  OneReachableProxy
  RecoversFromCrash
PROPERTIES ReadyIsBound BoundFailsForOthers SessionsReturn

CONSTANTS
  Sessions = {"s1", "s2"}
  MaxGenerations = 3
  MaxFaults = 2
SPECIFICATION TreeSpec
\* Without a generation left a session may wait at --init-tls for good.
CHECK_DEADLOCK FALSE
INVARIANTS TreeTypeOK OneAuthorityWhenSequential ReadyIsUsable

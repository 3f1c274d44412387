CONSTANTS
  Users <- MCUsers
  Bodies <- MCBodies
  Creators = {c1}
  MaxUid = 2
  MaxCreates = 2
  MaxEdits = 0
  MaxUserNetworks = 0
SPECIFICATION Spec
CHECK_DEADLOCK FALSE
INVARIANT ConnectServesOnlyItsUser

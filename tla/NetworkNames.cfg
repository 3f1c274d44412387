CONSTANTS
  Users <- MCHyphenUsers
  Bodies <- MCHyphenBodies
  Creators = {c1}
  MaxUid = 2
  MaxCreates = 2
  MaxEdits = 0
  MaxUserNetworks = 1
SPECIFICATION Spec
CHECK_DEADLOCK FALSE
INVARIANT LiveNamesAreReserved

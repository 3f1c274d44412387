CONSTANTS
  Users <- MCUsers
  Bodies <- MCBodies
  Creators = {c1, c2}
  MaxUid = 2
  MaxCreates = 2
  MaxEdits = 1
  MaxUserNetworks = 1
SPECIFICATION Spec
\* The bound on creates ends the model.
CHECK_DEADLOCK FALSE
SYMMETRY MCSymmetry
INVARIANTS UidsAreUnique RulesFollowNetworks SocketServesOnlyItsUser NamesAreReserved
PROPERTY DoneIsUsable

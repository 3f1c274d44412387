CONSTANTS
  MaxEdits = 3
  MaxStarts = 2
SPECIFICATION FairSpec
CHECK_DEADLOCK FALSE
INVARIANTS LookupSeesOneReload QuietIsCurrent
PROPERTY HupTakesEffect

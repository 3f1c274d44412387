CONSTANT MaxBytes = 2
SPECIFICATION FairSpec
CHECK_DEADLOCK FALSE
PROPERTY EitherSideCloses

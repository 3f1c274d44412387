\* A request head and two more bytes upwards, three bytes downwards.
CONSTANT MaxBytes = 3
SPECIFICATION FairSpec
\* A tunnel ends for good.
CHECK_DEADLOCK FALSE
INVARIANTS InOrder NothingLost EndAfterData NoLeak
PROPERTIES EndsWhenBothEnd DirectionsAreChannels

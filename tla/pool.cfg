SPECIFICATION Spec
CONSTANTS
    BitmapSize = 2
    MaxBitmap = 2
    Values = {0, 1}
    PoolSize = 2
    MaxPins = 1
    MaxOwned = 3
    MaxSpoils = 1
CHECK_DEADLOCK FALSE
INVARIANTS
    CountersAgree
    PoolConsistent
PROPERTIES
    ContentKeptClean
    PageIssuedOnce

SPECIFICATION FairSpec
CONSTANTS
    None = None
    MaxMint = 3
    MaxTouches = 1
INVARIANTS
    ReplacesOnlySpent
    SpentFileIsPending
PROPERTIES
    TakesOnlyFresh
    SpentFileIsReplaced
CHECK_DEADLOCK FALSE

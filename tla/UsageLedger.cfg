SPECIFICATION Spec
CONSTANTS
    Senders = {s1, s2}
    Depth = 1
    RetentionDays = 2
    MaxDay = 3
    MaxLines = 3
    MaxBoots = 1
    DiskCanFail = TRUE
    CanPanic = TRUE
INVARIANTS
    TypeOK
    UnseenDropIsFlagged
    FlushedMeansHandled
    ReadsEachLineOnce
PROPERTY
    ShutdownReturns
CHECK_DEADLOCK FALSE

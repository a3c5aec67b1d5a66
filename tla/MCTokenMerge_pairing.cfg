SPECIFICATION FairSpec
CONSTANTS
    anthropic = anthropic
    codex = codex
    n1 = n1
    n2 = n2
    u1 = u1
    o1 = o1
    o2 = o2
    Absent = Absent
    Unreadable = Unreadable
    Identities <- MCIdentities
    NumEntries = 3
    NumAccounts = 3
INVARIANTS
    OneHome
    TwinsNeverParted
    NothingLeft
    OrderIndependent
    RotationStaysHome
PROPERTY
    PairingsPersist
    MergeEnds
CHECK_DEADLOCK FALSE

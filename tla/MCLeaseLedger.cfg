SPECIFICATION Spec
CONSTANTS
    p1 = p1
    p2 = p2
    h1 = h1
    h2 = h2
    r1 = r1
    r2 = r2
    l1 = l1
    l2 = l2
    Peers = {p1, p2}
    Leases = {l1, l2}
    Handlers = {h1, h2}
    ReqIds = {r1, r2}
    Scopes = {"all", "work"}
    AllScope = "all"
    Disjoint = {}
    GrantOf <- MCGrantOf
    Rooms = {0, 1}
    MaxRise = 1
    MaxHint = 1
    MaxReported = 1
    MaxLeasesPerPeer = 1
    Capacity = 2
    PerLease = 1
    PairTTL = 1
    MaxTime = 1
    MaxLag = 0
    WritesCanFail = TRUE
    NoRoom = NoRoom
SYMMETRY MCSymmetry
INVARIANTS
    TypeOK
    SlotsConserved
    NoFreeRelay
    CleanIsDurable
    OverdraftBounded
PROPERTY
    PromisesWithinRoom
    ImplementsBudget
CHECK_DEADLOCK FALSE

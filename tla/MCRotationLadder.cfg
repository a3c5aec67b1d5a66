SPECIFICATION Spec
CONSTANTS
    Accounts = {a1, a2}
    NoAccount = NoAccount
    TransportRetries = 1
    Retries429 = 0
    Retries529 = 1
    Failovers = 1
    OfflineWaits = 1
    Slack = 3
    Requests <- MCRequests
    InitGates = {"ok", "soft"}
    Outcomes = {"unusable", "pinned", "offline", "connect", "midflight", "401", "403", "429", "529", "model", "served"}
    EnvBound = 1
SYMMETRY Symmetry
INVARIANTS
    OnlyPermitted
    NeverResentAfterGivingUp
    CarryIsTheOnlyCopy
    UnreachableIsTrue
    NeverTruncated

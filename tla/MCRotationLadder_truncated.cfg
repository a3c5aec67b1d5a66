SPECIFICATION Spec
CONSTANTS
    Accounts = {a1, a2, a3, a4}
    NoAccount = NoAccount
    TransportRetries = 0
    Retries429 = 0
    Retries529 = 0
    Failovers = 0
    OfflineWaits = 0
    Slack = 4
    Requests <- MCPlain
    InitGates = {"ok"}
    Outcomes = {"401", "429"}
    EnvBound = 0
SYMMETRY Symmetry
INVARIANT NeverTruncated

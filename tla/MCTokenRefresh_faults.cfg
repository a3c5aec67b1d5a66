SPECIFICATION Spec
CONSTANTS
    p1 = p1
    p2 = p2
    t1 = t1
    t2 = t2
    u1 = u1
    NoTask = NoTask
    LoginCall = LoginCall
    First = p1
    Procs <- MCProcs
    Tasks <- MCTasks
    ProcOf <- MCProcOf
    MaxRetries = 1
    BackoffBase = 1
    BackoffCap = 1
    MaxMint = 3
    Enabled = {"transient", "lostReply", "writeFail", "shutdown", "crash", "handoff", "earlyBoot"}
SYMMETRY TaskSymmetry
INVARIANTS
    HealthyNeverCondemned
    NeverRepostsSpent
    SnapshotKeepsToken
PROPERTY
    OnlyOvertakenGoBack
CHECK_DEADLOCK FALSE

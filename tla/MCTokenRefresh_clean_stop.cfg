SPECIFICATION Spec
CONSTANTS
    p1 = p1
    p2 = p2
    t1 = t1
    t2 = t2
    u1 = u1
    NoTask = NoTask
    LoginCall = LoginCall
    First = p1
    Procs <- OneProc
    Tasks <- TwoTasks
    ProcOf <- OneProcOf
    MaxRetries = 1
    BackoffBase = 1
    BackoffCap = 3
    MaxMint = 3
    Enabled = {"shutdown"}
INVARIANT
    LiveTokenHeld
CHECK_DEADLOCK FALSE

SPECIFICATION TimedSpec
CONSTANTS
    Cache = "Affinity"
    Shapes = {s0, s1}
    Touches = {t0, t1}
    EmptyShape = s0
    EmptyTouch = t0
    Delay = 1
    Refresh = 2
    WritesCanFail = FALSE
    CanAbort = FALSE
    s0 = s0
    s1 = s1
    t0 = t0
    t1 = t1
    NoContent = NoContent
    Damaged = Damaged
INVARIANT
    TouchLagWithinRefresh

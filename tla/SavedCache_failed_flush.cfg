SPECIFICATION Spec
CONSTANTS
    Cache = "BoundTokens"
    Shapes = {s0, s1, s2}
    Touches = {t0}
    EmptyShape = s0
    EmptyTouch = t0
    Delay = 1
    Refresh = 0
    WritesCanFail = TRUE
    CanAbort = FALSE
    s0 = s0
    s1 = s1
    s2 = s2
    t0 = t0
    t1 = t1
    NoContent = NoContent
    Damaged = Damaged
INVARIANT
    CleanShutdownSaves

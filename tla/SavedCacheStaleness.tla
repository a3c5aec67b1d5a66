------------------------- MODULE SavedCacheStaleness -------------------------
(***************************************************************************)
(* How far the file of a saved cache may lag behind memory: SavedCache     *)
(* with two history variables that measure the lag and one that excuses    *)
(* it, because a write failed or a timer or a ready task ran late, until   *)
(* the file has caught up.                                                 *)
(***************************************************************************)
EXTENDS SavedCache

VARIABLES
    stale,      \* time since the file last held what memory held
    shapeStale, \* time since it last held memory's shape
    late        \* a write failed or something ran late, and the file has
                \* not caught up since

timedVars == <<vars, stale, shapeStale, late>>

\* A timer or a task that is ready runs before time passes.
NothingReady ==
    /\ ~unmarked
    /\ pc \notin {"take", "copy", "write"}
    /\ pc = "sleep" => sleepLeft > 0
    /\ pc = "wait" => ~permit /\ ~(due /\ age >= Refresh)

\* The lag at which the measures stop counting.
StaleCap == Delay + Refresh + 1

TimedInit == Init /\ stale = 0 /\ shapeStale = 0 /\ late = FALSE

CaughtUp == Loaded(file') = mem' /\ pc' = "wait" /\ ~due'

\* Nothing is measured while the lag is excused or the process is not up, and
\* a write brings the file to memory's content of this very instant.
Unmeasured == late' \/ proc # "up" \/ file' # file

\* A step that takes no time.
Instant ==
    /\ Requests \/ Flusher \/ Process
    /\ late' = (proc' = "up" /\ (failed' \/ (late /\ ~CaughtUp)))
    /\ stale' = IF Unmeasured \/ Loaded(file') = mem' THEN 0 ELSE stale
    /\ shapeStale' = IF Unmeasured \/ Loaded(file').shape = mem'.shape THEN 0 ELSE shapeStale

Count(measure, same) ==
    IF same THEN 0 ELSE IF measure < StaleCap THEN measure + 1 ELSE measure

TimedTick ==
    /\ Tick
    /\ late' = (proc = "up" /\ (late \/ ~NothingReady))
    /\ stale' = Count(stale, late' \/ Loaded(file) = mem)
    /\ shapeStale' = Count(shapeStale, late' \/ Loaded(file).shape = mem.shape)

TimedNext == Instant \/ TimedTick

TimedSpec == TimedInit /\ [][TimedNext]_timedVars /\ Fairness

-----------------------------------------------------------------------------
\* A change of the shape (which session is pinned to which account) is on disk
\* one delay after it was made, however the gate treats touch times.
ShapeLagBounded == proc = "up" /\ ~late => shapeStale <= Delay

\* A deferred touch time is on disk one refresh period and one delay after it
\* was made: the flusher comes back for it without another change, and
\* save_on_change lets the delay pass once more after the gate's instant.
TouchLagBounded == proc = "up" /\ ~late => stale <= Refresh + Delay

\* What the comment on save_on_change promises, and those on the refresh
\* periods: a deferred field reaches the disk within the gate's refresh period.
TouchLagWithinRefresh == proc = "up" /\ ~late => stale <= Refresh
=============================================================================

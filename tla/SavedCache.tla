----------------------------- MODULE SavedCache -----------------------------
(***************************************************************************)
(* One periodically saved cache of tcr: the session-affinity pins, the     *)
(* bound-token map or the Sessions/Tools table (server.rs, SavedCache).    *)
(* Requests change the cache in memory and mark it; a flusher task waits   *)
(* for a mark, lets a delay pass and writes the file through a gate that   *)
(* skips or defers writes; a shutdown makes one final write; a crash loses *)
(* the memory and a boot reads the file back.                              *)
(*                                                                         *)
(* Time is discrete.  The gate's `at` and the flusher's timers are kept as *)
(* ages and remaining delays, so no clock value is bounded.  A deferred    *)
(* save is always due at last.at + refresh, hence `due` is a flag.         *)
(***************************************************************************)
EXTENDS Naturals

CONSTANTS
    Cache,          \* which of the three caches this is
    Shapes,         \* the parts of the content written at once
    Touches,        \* the parts (touch times) a save may defer
    EmptyShape,     \* the shape and touch of a cache with nothing in it
    EmptyTouch,
    NoContent,      \* no file, an unset gate, no snapshot
    Damaged,        \* a file a power loss truncated
    Delay,          \* SavedCache::delay
    Refresh,        \* SaveGate::refresh
    WritesCanFail,  \* whether a write of the file may return an error
    CanAbort        \* whether a flusher may outlive the shutdown grace

Caches == {"Affinity", "BoundTokens", "WireSessions"}

Content == [shape : Shapes, touch : Touches]

Empty == [shape |-> EmptyShape, touch |-> EmptyTouch]

ASSUME CacheAssumption    == Cache \in Caches
ASSUME ContentAssumption  == EmptyShape \in Shapes /\ EmptyTouch \in Touches
ASSUME MarkerAssumption   == NoContent \notin Content /\ Damaged \notin Content
                             /\ NoContent # Damaged
ASSUME TimingAssumption   == Delay \in Nat /\ Refresh \in Nat
ASSUME SwitchAssumption   == {WritesCanFail, CanAbort} \subseteq BOOLEAN
\* Manager::with_live_clock builds the bound-token file with Duration::ZERO.
ASSUME BoundTokensAreNeverDeferred == Cache = "BoundTokens" => Refresh = 0

VARIABLES
    mem,        \* the cache in memory
    unmarked,   \* memory holds a change that no mark has followed yet
    dirty,      \* SavedFile::dirty
    permit,     \* a notification SavedFile::wake has stored or delivered
    pc,         \* where save_on_change is
    sleepLeft,  \* what is left of the flusher's sleep(delay)
    due,        \* save_on_change's `due` is Some
    snap,       \* the snapshot the flusher is about to write
    gate,       \* SaveGate::last's content
    age,        \* time since SaveGate::last's `at`, up to Refresh
    failed,     \* the flusher's last save returned an error
    file,       \* what is on disk
    proc,       \* the process
    final       \* what the shutdown report says is on disk, when it claims it

flusherVars == <<pc, sleepLeft, due, snap>>
gateVars    == <<gate, age, failed>>
markVars    == <<unmarked, dirty, permit>>
procVars    == <<proc, final>>
vars == <<mem, markVars, flusherVars, gateVars, file, procVars>>

Alive == proc \in {"up", "stopping", "joined", "flushed"}

\* What a boot makes of the file: read_cache's Missing and Degraded both
\* leave the cache empty.  Entries that expired or whose account is gone are
\* dropped too; that is decided per entry, below this model's content.
Loaded(f) == IF f \in {NoContent, Damaged} THEN Empty ELSE f

Init ==
    /\ mem = Empty /\ file = NoContent
    /\ unmarked = FALSE /\ dirty = FALSE /\ permit = FALSE
    /\ pc = "wait" /\ sleepLeft = 0 /\ due = FALSE /\ snap = NoContent
    /\ gate = NoContent /\ age = 0 /\ failed = FALSE
    /\ proc = "up" /\ final = NoContent

(***************************************************************************)
(* Requests.                                                               *)
(***************************************************************************)

\* SavedFile::mark: the dirty flag, then one notification.
Mark ==
    /\ dirty' = TRUE
    /\ permit' = TRUE
    /\ unmarked' = FALSE

\* The selection path changes a pin and marks under the pin-map lock.
PinAndMark(c) ==
    /\ Alive
    /\ Cache = "Affinity"
    /\ mem' = c
    /\ Mark
    /\ UNCHANGED <<flusherVars, gateVars, file, procVars>>

\* A change whose mark comes later, after the lock is released: a bound token
\* or a wire session, or note_affinity_ttl, which changes the shape of the
\* pins and leaves the mark to the selection that follows.
Record(c) ==
    /\ Alive
    /\ c # mem
    /\ Cache = "Affinity" => c.shape # mem.shape
    /\ mem' = c
    /\ unmarked' = TRUE
    /\ UNCHANGED <<dirty, permit, flusherVars, gateVars, file, procVars>>

\* The mark itself.  It may come with nothing new in memory: another
\* request's mark already covered the change.
MarkLater ==
    /\ Alive
    /\ Mark
    /\ UNCHANGED <<mem, flusherVars, gateVars, file, procVars>>

(***************************************************************************)
(* The flusher: save_on_change under spawn_flusher's select.               *)
(***************************************************************************)

\* changed() resolves and consumes the notification.
WakeChanged ==
    /\ Alive /\ pc = "wait" /\ permit
    /\ permit' = FALSE
    /\ pc' = "sleep" /\ sleepLeft' = Delay
    /\ UNCHANGED <<mem, unmarked, dirty, due, snap, gateVars, file, procVars>>

\* Mutant: the retry instant is kept but nothing waits for it.
WakeDueNeverFires == FALSE

\* sleep_until(at) resolves; a notification that arrived with it is kept.
WakeDue ==
    /\ Alive /\ pc = "wait" /\ due /\ age >= Refresh
    /\ pc' = "sleep" /\ sleepLeft' = Delay
    /\ UNCHANGED <<mem, markVars, due, snap, gateVars, file, procVars>>

SleepOver ==
    /\ Alive /\ pc = "sleep" /\ sleepLeft = 0
    /\ pc' = "take"
    /\ UNCHANGED <<mem, markVars, sleepLeft, due, snap, gateVars, file, procVars>>

\* SavedCache::save clears the dirty flag before it reads the cache ...
SaveTake ==
    /\ Alive /\ pc = "take"
    /\ dirty' = FALSE
    /\ pc' = "copy"
    /\ UNCHANGED <<mem, unmarked, permit, sleepLeft, due, snap, gateVars, file, procVars>>

\* ... then the cache is copied under its lock.
SaveCopy ==
    /\ Alive /\ pc = "copy"
    /\ snap' = mem
    /\ pc' = "write"
    /\ UNCHANGED <<mem, markVars, sleepLeft, due, gateVars, file, procVars>>

\* Mutant: a change of the shape is deferred like a touch time.
SkipIgnoresShape ==
    IF gate = NoContent THEN "Write"
    ELSE IF gate = snap THEN "Unchanged"
    ELSE IF age >= Refresh THEN "Write"
    ELSE "Deferred"

\* SaveGate::skip.
Skip ==
    IF gate = NoContent THEN "Write"
    ELSE IF gate = snap THEN "Unchanged"
    ELSE IF gate.shape # snap.shape \/ age >= Refresh THEN "Write"
    ELSE "Deferred"

\* Mutant: the notification is consumed after the save, not before it.
SaveReturnsConsumesWake(deferred, err) ==
    /\ pc' = "wait"
    /\ due' = deferred
    /\ failed' = err
    /\ snap' = NoContent
    /\ permit' = FALSE
    /\ UNCHANGED <<mem, unmarked, dirty, sleepLeft, procVars>>

\* save_on_change after the save: keep the instant a deferred save names.
SaveReturns(deferred, err) ==
    /\ pc' = "wait"
    /\ due' = deferred
    /\ failed' = err
    /\ snap' = NoContent
    /\ UNCHANGED <<mem, markVars, sleepLeft, procVars>>

\* Mutant: every deferral restarts the refresh period.
SaveSkippedRestartsPeriod ==
    /\ Alive /\ pc = "write" /\ Skip # "Write"
    /\ SaveReturns(Skip = "Deferred", FALSE)
    /\ age' = 0
    /\ UNCHANGED <<gate, file>>

SaveSkipped ==
    /\ Alive /\ pc = "write" /\ Skip # "Write"
    /\ SaveReturns(Skip = "Deferred", FALSE)
    /\ UNCHANGED <<gate, age, file>>

\* The rename and SaveGate::wrote; nobody else reads the gate in between.
SaveWritten ==
    /\ Alive /\ pc = "write" /\ Skip = "Write"
    /\ file' = snap
    /\ gate' = snap /\ age' = 0
    /\ SaveReturns(FALSE, FALSE)

\* Mutant: the gate records the write before it is known to have succeeded.
SaveFailedRecorded ==
    /\ WritesCanFail
    /\ Alive /\ pc = "write" /\ Skip = "Write"
    /\ gate' = snap /\ age' = 0
    /\ SaveReturns(FALSE, TRUE)
    /\ UNCHANGED file

\* The write fails: a warning, no retry, the dirty flag already cleared.
SaveFailed ==
    /\ WritesCanFail
    /\ Alive /\ pc = "write" /\ Skip = "Write"
    /\ SaveReturns(FALSE, TRUE)
    /\ UNCHANGED <<gate, age, file>>

\* At an await, the stop signal or an abort ends the flusher.
FlusherStops ==
    /\ Alive /\ proc # "up" /\ pc \in {"wait", "sleep"}
    /\ pc' = "exited"
    /\ UNCHANGED <<mem, markVars, sleepLeft, due, snap, gateVars, file, procVars>>

(***************************************************************************)
(* The process: shutdown_within, a kill, a boot.                           *)
(***************************************************************************)
Stop ==
    /\ proc = "up"
    /\ proc' = "stopping"
    /\ UNCHANGED <<mem, markVars, flusherVars, gateVars, file, final>>

\* The flusher is joined, or the grace runs out while it is inside its
\* synchronous save: it is then aborted and left behind, still writing.
Join ==
    /\ proc = "stopping"
    /\ pc = "exited" \/ (CanAbort /\ pc \in {"take", "copy", "write"})
    /\ proc' = "joined"
    /\ UNCHANGED <<mem, markVars, flusherVars, gateVars, file, final>>

\* Mutant: every cache skips its final write when its flag is down.
FinalSkipWheneverClean == ~dirty

\* SavedCache::save_finally has nothing to write: a clean bound-token map.
FinalSkip == Cache = "BoundTokens" /\ ~dirty

\* What the report claims is on disk: all that had been marked by then.
Claim == IF unmarked THEN NoContent ELSE mem

FinalSave ==
    /\ proc = "joined"
    /\ proc' = "flushed"
    /\ final' = Claim
    /\ dirty' = IF Cache = "BoundTokens" THEN FALSE ELSE dirty
    /\ IF FinalSkip
       THEN UNCHANGED <<file, gate, age>>
       ELSE file' = mem /\ gate' = mem /\ age' = 0
    /\ UNCHANGED <<mem, unmarked, permit, flusherVars, failed>>

\* The final write fails and the report says so.
FinalSaveFailed ==
    /\ WritesCanFail
    /\ proc = "joined" /\ ~FinalSkip
    /\ proc' = "flushed"
    /\ final' = NoContent
    /\ dirty' = IF Cache = "BoundTokens" THEN FALSE ELSE dirty
    /\ UNCHANGED <<mem, unmarked, permit, flusherVars, gateVars, file>>

\* Everything in memory goes with the process.
Dies ==
    /\ Alive
    /\ proc' = "down" /\ final' = NoContent
    /\ mem' = Empty
    /\ unmarked' = FALSE /\ dirty' = FALSE /\ permit' = FALSE
    /\ pc' = "wait" /\ sleepLeft' = 0 /\ due' = FALSE /\ snap' = NoContent
    /\ gate' = NoContent /\ age' = 0 /\ failed' = FALSE

\* A kill, or the exit after a shutdown: the rename is atomic, so the file is
\* whole.
Exit == Dies /\ UNCHANGED file

\* Durability::Cache does not flush the data before the rename.
PowerLoss == Dies /\ file # NoContent /\ file' \in {file, Damaged}

\* restore_affinity and its siblings, before the listener binds; a restore
\* does not mark.
Boot ==
    /\ proc = "down"
    /\ proc' = "up"
    /\ mem' = Loaded(file)
    /\ UNCHANGED <<markVars, flusherVars, gateVars, file, final>>

Tick ==
    /\ Alive
    /\ age' = IF age < Refresh THEN age + 1 ELSE age
    /\ sleepLeft' = IF sleepLeft > 0 THEN sleepLeft - 1 ELSE 0
    /\ UNCHANGED <<mem, markVars, pc, due, snap, gate, failed, file, procVars>>

Requests == MarkLater \/ \E c \in Content : PinAndMark(c) \/ Record(c)

Flusher ==
    \/ WakeChanged \/ WakeDue \/ SleepOver
    \/ SaveTake \/ SaveCopy
    \/ SaveSkipped \/ SaveWritten \/ SaveFailed
    \/ FlusherStops

Process == Stop \/ Join \/ FinalSave \/ FinalSaveFailed \/ Exit \/ PowerLoss \/ Boot

Next == Requests \/ Flusher \/ Process \/ Tick

Spec == Init /\ [][Next]_vars

\* The runtime polls a ready task and time passes; requests owe nothing.
Fairness == WF_vars(Flusher) /\ WF_vars(Tick)

FairSpec == Spec /\ Fairness

-----------------------------------------------------------------------------
(***************************************************************************)
(* Properties.                                                             *)
(***************************************************************************)

\* Every variable holds a value of its type.
TypeOK ==
    /\ mem \in Content
    /\ unmarked \in BOOLEAN /\ dirty \in BOOLEAN /\ permit \in BOOLEAN
    /\ pc \in {"wait", "sleep", "take", "copy", "write", "exited"}
    /\ sleepLeft \in 0..Delay
    /\ due \in BOOLEAN
    /\ snap \in Content \cup {NoContent}
    /\ gate \in Content \cup {NoContent}
    /\ age \in 0..Refresh
    /\ failed \in BOOLEAN
    /\ file \in Content \cup {NoContent, Damaged}
    /\ proc \in {"up", "stopping", "joined", "flushed", "down"}
    /\ final \in Content \cup {NoContent}

\* The gate never believes in a write that is not on disk: what SaveGate::last
\* records is what the file holds, so a save it calls Unchanged lost nothing.
GateTellsTheTruth == gate # NoContent => gate = file

\* No lost wake-up: a flusher with nothing left to wake it (no notification,
\* no deferred save, no change still to be marked, no failed write) sleeps over
\* a file from which a boot would restore exactly what is in memory.
IdleFlusherIsSaved ==
    (proc = "up" /\ pc = "wait" /\ ~permit /\ ~due /\ ~unmarked /\ ~failed)
        => Loaded(file) = mem

\* A clean shutdown loses nothing: once shutdown_within has reported its final
\* write, the file restores everything that was marked when it was made.
CleanShutdownSaves ==
    (proc = "flushed" /\ final # NoContent) => Loaded(file) = final

\* A change eventually causes a write: a marked memory that stays as it is
\* reaches the file, unless the write fails or the process stops.
ChangeReachesDisk ==
    \A c \in Content :
        (proc = "up" /\ ~unmarked /\ mem = c)
            ~> (Loaded(file) = c \/ mem # c \/ unmarked \/ failed \/ proc # "up")
=============================================================================

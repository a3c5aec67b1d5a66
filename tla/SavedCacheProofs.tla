-------------------------- MODULE SavedCacheProofs --------------------------
(***************************************************************************)
(* Proofs about SavedCache for every cache, every content, every delay and *)
(* every refresh period.                                                   *)
(***************************************************************************)
EXTENDS SavedCacheStaleness, TLAPS

\* The constants facts every proof below uses.
LEMMA ContentFacts ==
    /\ Empty \in Content
    /\ \A f \in Content \cup {NoContent, Damaged} : Loaded(f) \in Content
    /\ \A c \in Content : Loaded(c) = c
BY ContentAssumption, MarkerAssumption DEF Content, Empty, Loaded

\* The timers' end points lie in their ranges.
LEMMA TimerFacts == 0 \in 0..Delay /\ Delay \in 0..Delay /\ 0 \in 0..Refresh
BY TimingAssumption

\* A snapshot exists exactly while the flusher is about to write it, a
\* flusher ends only once the process is stopping, and a boot starts a new one.
SnapInv ==
    /\ (pc = "write") <=> (snap # NoContent)
    /\ proc = "up" => pc # "exited"
    /\ proc = "down" => pc = "wait"

TypeInv == TypeOK /\ SnapInv

LEMMA TypeInvInit == Init => TypeInv
BY ContentFacts, TimerFacts DEF Init, TypeInv, TypeOK, SnapInv

LEMMA TypeInvStep == TypeInv /\ [Next]_vars => TypeInv'
<1> SUFFICES ASSUME TypeInv, [Next]_vars PROVE TypeInv'
  OBVIOUS
<1> USE DEF TypeInv, TypeOK, SnapInv
<1>1. ASSUME NEW c \in Content, PinAndMark(c) PROVE TypeInv'
  BY <1>1 DEF PinAndMark, Mark, flusherVars, gateVars, procVars
<1>2. ASSUME NEW c \in Content, Record(c) PROVE TypeInv'
  BY <1>2 DEF Record, flusherVars, gateVars, procVars
<1>3. CASE MarkLater
  BY <1>3 DEF MarkLater, Mark, flusherVars, gateVars, procVars
<1>4. CASE WakeChanged
  <2>1. proc # "down"
    BY <1>4 DEF WakeChanged, Alive
  <2>2. QED
    BY <1>4, <2>1, TimerFacts DEF WakeChanged, gateVars, procVars
<1>5. CASE WakeDue
  <2>1. proc # "down"
    BY <1>5 DEF WakeDue, Alive
  <2>2. QED
    BY <1>5, <2>1, TimerFacts DEF WakeDue, markVars, gateVars, procVars
<1>6. CASE SleepOver
  BY <1>6 DEF SleepOver, markVars, gateVars, procVars
<1>7. CASE SaveTake
  BY <1>7 DEF SaveTake, gateVars, procVars
<1>8. CASE SaveCopy
  BY <1>8, MarkerAssumption DEF SaveCopy, markVars, gateVars, procVars
<1>9. CASE SaveSkipped
  BY <1>9 DEF SaveSkipped, SaveReturns, markVars, procVars
<1>10. CASE SaveWritten
  BY <1>10, TimerFacts DEF SaveWritten, SaveReturns, markVars, procVars
<1>11. CASE SaveFailed
  BY <1>11 DEF SaveFailed, SaveReturns, markVars, procVars
<1>12. CASE FlusherStops
  <2>1. proc \notin {"up", "down"} /\ proc' = proc
    BY <1>12 DEF FlusherStops, Alive, procVars
  <2>2. QED
    BY <1>12, <2>1 DEF FlusherStops, markVars, gateVars, procVars
<1>13. CASE Stop
  BY <1>13 DEF Stop, markVars, flusherVars, gateVars
<1>14. CASE Join
  BY <1>14 DEF Join, markVars, flusherVars, gateVars
<1>15. CASE FinalSave
  BY <1>15, TimerFacts DEF FinalSave, Claim, flusherVars
<1>16. CASE FinalSaveFailed
  BY <1>16 DEF FinalSaveFailed, flusherVars, gateVars
<1>17. CASE Exit
  BY <1>17, ContentFacts, TimerFacts DEF Exit, Dies
<1>18. CASE PowerLoss
  BY <1>18, ContentFacts, TimerFacts DEF PowerLoss, Dies
<1>19. CASE Boot
  BY <1>19, ContentFacts DEF Boot, markVars, flusherVars, gateVars
<1>20. CASE Tick
  BY <1>20, TimingAssumption DEF Tick, markVars, procVars
<1>21. CASE UNCHANGED vars
  BY <1>21 DEF vars, markVars, flusherVars, gateVars, procVars
<1> QED
  BY <1>1, <1>2, <1>3, <1>4, <1>5, <1>6, <1>7, <1>8, <1>9, <1>10, <1>11, <1>12,
     <1>13, <1>14, <1>15, <1>16, <1>17, <1>18, <1>19, <1>20, <1>21
     DEF Next, Requests, Flusher, Process

\* Type correctness, for every value of the constants.
THEOREM TypeCorrect == Spec => []TypeOK
<1>1. TypeInv => TypeOK
  BY DEF TypeInv
<1>2. QED
  BY <1>1, TypeInvInit, TypeInvStep, PTL DEF Spec

LEMMA TypeInvariant == Spec => []TypeInv
BY TypeInvInit, TypeInvStep, PTL DEF Spec

(***************************************************************************)
(* The gate and the idle flusher.                                          *)
(***************************************************************************)

\* IdleFlusherIsSaved strengthened over the flusher's own steps: a snapshot
\* about to be written is memory unless a later wake-up is certain, and a
\* waiting flusher has memory on disk unless something will bring it back.
SaveInv ==
    /\ GateTellsTheTruth
    /\ proc = "up" /\ pc = "write" => (permit \/ unmarked \/ snap = mem)
    /\ proc = "up" /\ pc = "wait"
        => (permit \/ unmarked \/ due \/ failed \/ Loaded(file) = mem)

LEMMA SaveInvInit == Init => SaveInv
<1> SUFFICES ASSUME Init PROVE SaveInv
  OBVIOUS
<1>1. Loaded(file) = mem /\ gate = NoContent /\ pc = "wait"
  BY DEF Init, Loaded
<1>2. QED
  BY <1>1 DEF SaveInv, GateTellsTheTruth

LEMMA SaveInvStep == TypeInv /\ SaveInv /\ [Next]_vars => SaveInv'
<1> SUFFICES ASSUME TypeInv, SaveInv, [Next]_vars PROVE SaveInv'
  OBVIOUS
<1> USE DEF SaveInv, GateTellsTheTruth
<1>1. ASSUME NEW c \in Content, PinAndMark(c) PROVE SaveInv'
  <2>1. permit' = TRUE /\ UNCHANGED <<gate, file>>
    BY <1>1 DEF PinAndMark, Mark, gateVars
  <2>2. QED
    BY <2>1
<1>2. ASSUME NEW c \in Content, Record(c) PROVE SaveInv'
  <2>1. unmarked' = TRUE /\ UNCHANGED <<gate, file>>
    BY <1>2 DEF Record, gateVars
  <2>2. QED
    BY <2>1
<1>3. CASE MarkLater
  BY <1>3 DEF MarkLater, Mark, flusherVars, gateVars, procVars
<1>4. CASE WakeChanged
  BY <1>4 DEF WakeChanged, gateVars, procVars
<1>5. CASE WakeDue
  BY <1>5 DEF WakeDue, markVars, gateVars, procVars
<1>6. CASE SleepOver
  BY <1>6 DEF SleepOver, markVars, gateVars, procVars
<1>7. CASE SaveTake
  BY <1>7 DEF SaveTake, gateVars, procVars
<1>8. CASE SaveCopy
  BY <1>8 DEF SaveCopy, markVars, gateVars, procVars
<1>9. CASE SaveSkipped
  <2>1. Skip = "Unchanged" => Loaded(file) = snap
    <3>1. pc = "write" /\ snap \in Content
      BY <1>9 DEF SaveSkipped, TypeInv, TypeOK, SnapInv
    <3>2. QED
      BY <3>1, ContentFacts DEF Skip
  <2>2. Skip \in {"Unchanged", "Deferred"}
    BY <1>9 DEF SaveSkipped, Skip
  <2>3. QED
    BY <1>9, <2>1, <2>2 DEF SaveSkipped, SaveReturns, markVars, procVars
<1>10. CASE SaveWritten
  <2>1. snap \in Content /\ Loaded(snap) = snap
    BY <1>10, ContentFacts DEF SaveWritten, TypeInv, TypeOK, SnapInv
  <2>2. QED
    BY <1>10, <2>1 DEF SaveWritten, SaveReturns, markVars, procVars
<1>11. CASE SaveFailed
  <2>1. failed' = TRUE /\ pc' = "wait" /\ UNCHANGED <<gate, file>>
    BY <1>11 DEF SaveFailed, SaveReturns
  <2>2. QED
    BY <2>1
<1>12. CASE FlusherStops
  BY <1>12 DEF FlusherStops, markVars, gateVars, procVars
<1>13. CASE Stop
  BY <1>13 DEF Stop, markVars, flusherVars, gateVars
<1>14. CASE Join
  BY <1>14 DEF Join, markVars, flusherVars, gateVars
<1>15. CASE FinalSave
  BY <1>15 DEF FinalSave, flusherVars
<1>16. CASE FinalSaveFailed
  BY <1>16 DEF FinalSaveFailed, flusherVars, gateVars
<1>17. CASE Exit
  BY <1>17 DEF Exit, Dies
<1>18. CASE PowerLoss
  BY <1>18 DEF PowerLoss, Dies
<1>19. CASE Boot
  <2>1. pc' = "wait" /\ Loaded(file') = mem' /\ UNCHANGED <<gate, file>>
    BY <1>19 DEF Boot, flusherVars, gateVars, TypeInv, SnapInv
  <2>2. QED
    BY <2>1
<1>20. CASE Tick
  BY <1>20 DEF Tick, markVars, procVars
<1>21. CASE UNCHANGED vars
  BY <1>21 DEF vars, markVars, flusherVars, gateVars, procVars
<1> QED
  BY <1>1, <1>2, <1>3, <1>4, <1>5, <1>6, <1>7, <1>8, <1>9, <1>10, <1>11, <1>12,
     <1>13, <1>14, <1>15, <1>16, <1>17, <1>18, <1>19, <1>20, <1>21
     DEF Next, Requests, Flusher, Process

LEMMA SaveInvariant == Spec => []SaveInv
BY TypeInvariant, SaveInvInit, SaveInvStep, PTL DEF Spec

\* SaveGate::last is always the content of the file, whatever fails.
THEOREM GateCorrect == Spec => []GateTellsTheTruth
<1>1. SaveInv => GateTellsTheTruth
  BY DEF SaveInv
<1>2. QED
  BY <1>1, SaveInvariant, PTL

\* No wake-up is lost, for every cache and every interleaving of requests
\* with the flusher.
THEOREM NoLostWakeup == Spec => []IdleFlusherIsSaved
<1>1. SaveInv => IdleFlusherIsSaved
  BY DEF SaveInv, IdleFlusherIsSaved
<1>2. QED
  BY <1>1, SaveInvariant, PTL

(***************************************************************************)
(* The final write of a clean shutdown.                                    *)
(***************************************************************************)

\* A bound-token map whose flag is down is on disk or in the flusher's hand,
\* as long as no write has failed.
CleanFlagInv ==
    (Cache = "BoundTokens" /\ proc \in {"up", "stopping", "joined"} /\ ~dirty /\ ~unmarked)
        => \/ pc = "copy"
           \/ pc = "write" /\ snap = mem
           \/ pc # "write" /\ Loaded(file) = mem

\* CleanShutdownSaves with what it rests on: a joined flusher writes no more.
ShutdownInv ==
    /\ CleanShutdownSaves
    /\ proc \in {"joined", "flushed"} => pc = "exited"
    /\ CleanFlagInv

LEMMA ShutdownInvInit == Init => ShutdownInv
<1> SUFFICES ASSUME Init PROVE ShutdownInv
  OBVIOUS
<1>1. Loaded(file) = mem /\ proc = "up" /\ pc = "wait"
  BY DEF Init, Loaded
<1>2. QED
  BY <1>1 DEF ShutdownInv, CleanShutdownSaves, CleanFlagInv

LEMMA ShutdownInvStep ==
    ASSUME ~CanAbort, Cache = "BoundTokens" => ~WritesCanFail
    PROVE  TypeInv /\ SaveInv /\ ShutdownInv /\ [Next]_vars => ShutdownInv'
<1> SUFFICES ASSUME TypeInv, SaveInv, ShutdownInv, [Next]_vars PROVE ShutdownInv'
  OBVIOUS
<1> USE DEF ShutdownInv, CleanShutdownSaves, CleanFlagInv
<1>1. ASSUME NEW c \in Content, PinAndMark(c) PROVE ShutdownInv'
  BY <1>1 DEF PinAndMark, Mark, flusherVars, procVars
<1>2. ASSUME NEW c \in Content, Record(c) PROVE ShutdownInv'
  BY <1>2 DEF Record, flusherVars, procVars
<1>3. CASE MarkLater
  BY <1>3 DEF MarkLater, Mark, flusherVars, procVars
<1>4. CASE WakeChanged
  BY <1>4 DEF WakeChanged, procVars
<1>5. CASE WakeDue
  BY <1>5 DEF WakeDue, markVars, procVars
<1>6. CASE SleepOver
  BY <1>6 DEF SleepOver, markVars, procVars
<1>7. CASE SaveTake
  BY <1>7 DEF SaveTake, procVars
<1>8. CASE SaveCopy
  BY <1>8 DEF SaveCopy, markVars, procVars
<1>9. CASE SaveSkipped
  <2>1. snap \in Content /\ pc = "write"
    BY <1>9 DEF SaveSkipped, TypeInv, TypeOK, SnapInv
  <2>2. Cache = "BoundTokens" => Skip = "Unchanged"
    BY <1>9, BoundTokensAreNeverDeferred DEF SaveSkipped, Skip, TypeInv, TypeOK
  <2>3. Skip = "Unchanged" => Loaded(file) = snap
    BY <2>1, ContentFacts DEF Skip, SaveInv, GateTellsTheTruth
  <2>4. QED
    BY <1>9, <2>1, <2>2, <2>3 DEF SaveSkipped, SaveReturns, markVars, procVars
<1>10. CASE SaveWritten
  <2>1. snap \in Content /\ Loaded(snap) = snap /\ pc = "write"
    BY <1>10, ContentFacts DEF SaveWritten, TypeInv, TypeOK, SnapInv
  <2>2. QED
    BY <1>10, <2>1 DEF SaveWritten, SaveReturns, markVars, procVars
<1>11. CASE SaveFailed
  BY <1>11 DEF SaveFailed, SaveReturns, markVars, procVars
<1>12. CASE FlusherStops
  BY <1>12 DEF FlusherStops, markVars, procVars
<1>13. CASE Stop
  BY <1>13 DEF Stop, markVars, flusherVars
<1>14. CASE Join
  BY <1>14 DEF Join, markVars, flusherVars
<1>15. CASE FinalSave
  <2>1. mem \in Content /\ Loaded(mem) = mem /\ pc = "exited" /\ pc' = pc /\ proc' = "flushed"
    BY <1>15, ContentFacts DEF FinalSave, flusherVars, TypeInv, TypeOK
  <2>2. CASE FinalSkip
    <3>1. ~unmarked => Loaded(file) = mem
      BY <1>15, <2>1, <2>2 DEF FinalSave, FinalSkip
    <3>2. QED
      BY <1>15, <2>1, <2>2, <3>1 DEF FinalSave, Claim
  <2>3. CASE ~FinalSkip
    BY <1>15, <2>1, <2>3 DEF FinalSave, Claim
  <2>4. QED
    BY <2>2, <2>3
<1>16. CASE FinalSaveFailed
  BY <1>16 DEF FinalSaveFailed, flusherVars
<1>17. CASE Exit
  BY <1>17 DEF Exit, Dies
<1>18. CASE PowerLoss
  BY <1>18 DEF PowerLoss, Dies
<1>19. CASE Boot
  <2>1. pc' = "wait" /\ Loaded(file') = mem' /\ proc' = "up"
    BY <1>19 DEF Boot, flusherVars, TypeInv, SnapInv
  <2>2. QED
    BY <2>1
<1>20. CASE Tick
  BY <1>20 DEF Tick, markVars, procVars
<1>21. CASE UNCHANGED vars
  BY <1>21 DEF vars, markVars, flusherVars, procVars
<1> QED
  BY <1>1, <1>2, <1>3, <1>4, <1>5, <1>6, <1>7, <1>8, <1>9, <1>10, <1>11, <1>12,
     <1>13, <1>14, <1>15, <1>16, <1>17, <1>18, <1>19, <1>20, <1>21
     DEF Next, Requests, Flusher, Process

\* A clean shutdown loses nothing, for every cache whose final write does not
\* depend on a flag a failed save has already cleared, when the flusher is
\* joined within the grace.  Both conditions are needed: without either one
\* the runs find a lost change.
THEOREM ShutdownLosesNothing ==
    ASSUME ~CanAbort, Cache = "BoundTokens" => ~WritesCanFail
    PROVE  Spec => []CleanShutdownSaves
<1>1. ShutdownInv => CleanShutdownSaves
  BY DEF ShutdownInv
<1>2. TypeInv /\ SaveInv /\ ShutdownInv /\ [Next]_vars => ShutdownInv'
  BY ShutdownInvStep
<1>3. QED
  BY <1>1, <1>2, ShutdownInvInit, TypeInvariant, SaveInvariant, PTL DEF Spec

-----------------------------------------------------------------------------
(***************************************************************************)
(* How far the file lags behind memory.                                    *)
(***************************************************************************)

\* What the measures may be where the flusher is: nothing of the shape is owed
\* to a waiting flusher, a delay at most to one that sleeps or saves.
ShapeLag ==
    /\ pc = "wait" => shapeStale = 0
    /\ pc = "sleep" => shapeStale <= Delay - sleepLeft
    /\ pc \in {"take", "copy", "write"} => shapeStale <= Delay
    /\ pc = "write" /\ Loaded(file).shape = snap.shape => shapeStale = 0

\* The same for the touch times, one refresh period later; since the gate's last
\* write the file lags by no more than that write's age.
TouchLag ==
    /\ pc = "wait" => stale <= Refresh
    /\ pc = "sleep" => stale <= Refresh + (Delay - sleepLeft)
    /\ pc \in {"take", "copy", "write"} => stale <= Refresh + Delay
    /\ pc = "write" /\ Loaded(file) = snap => stale = 0
    /\ gate # NoContent /\ age < Refresh => stale <= age

\* A deferral is of touch times only, and follows a write.
DeferInv ==
    /\ due => gate # NoContent
    /\ proc = "down" => ~due /\ ~failed
    /\ (proc = "up" /\ pc = "wait" /\ due /\ ~permit /\ ~unmarked)
         => Loaded(file).shape = mem.shape

\* An excused lag is not measured, and a failed write is an excuse.
ExcuseInv ==
    /\ stale \in Nat /\ shapeStale \in Nat
    /\ late \in BOOLEAN
    /\ proc = "up" /\ failed => late
    /\ proc = "up" /\ late => stale = 0 /\ shapeStale = 0

LagInv ==
    /\ DeferInv /\ ExcuseInv
    /\ proc = "up" => ShapeLag /\ TouchLag

\* Deferrals: the gate defers only what differs in touch times.
LEMMA DeferStep == TypeInv /\ SaveInv /\ DeferInv /\ [Next]_vars => DeferInv'
<1> SUFFICES ASSUME TypeInv, SaveInv, DeferInv, [Next]_vars PROVE DeferInv'
  OBVIOUS
<1> USE DEF DeferInv
<1>1. ASSUME NEW c \in Content, PinAndMark(c) PROVE DeferInv'
  BY <1>1 DEF PinAndMark, Mark, Alive, flusherVars, gateVars, procVars
<1>2. ASSUME NEW c \in Content, Record(c) PROVE DeferInv'
  BY <1>2 DEF Record, Alive, flusherVars, gateVars, procVars
<1>3. CASE MarkLater
  BY <1>3 DEF MarkLater, Mark, Alive, flusherVars, gateVars, procVars
<1>4. CASE WakeChanged \/ WakeDue \/ SleepOver \/ SaveTake \/ SaveCopy \/ FlusherStops
  <2>1. /\ pc' # "wait" /\ proc # "down" /\ UNCHANGED <<due, gate, failed, proc>>
    BY <1>4 DEF WakeChanged, WakeDue, SleepOver, SaveTake, SaveCopy, FlusherStops, Alive,
                gateVars, procVars
  <2> QED BY <2>1
<1>5. CASE SaveSkipped
  <2>1. /\ pc = "write" /\ Skip # "Write" /\ (due' <=> Skip = "Deferred") /\ proc # "down"
        /\ UNCHANGED <<mem, unmarked, permit, gate, file, proc>>
    BY <1>5, Zenon DEF SaveSkipped, SaveReturns, Alive, markVars, procVars
  <2>2. gate # NoContent
    BY <2>1 DEF Skip
  <2>3. Skip = "Deferred" => gate.shape = snap.shape
    BY DEF Skip
  <2>4. Loaded(file) = gate
    BY <2>2, ContentFacts DEF SaveInv, GateTellsTheTruth, TypeInv, TypeOK
  <2> QED BY <2>1, <2>2, <2>3, <2>4 DEF SaveInv
<1>6. CASE SaveWritten \/ SaveFailed
  <2>1. ~due' /\ proc' = proc /\ proc # "down"
    BY <1>6 DEF SaveWritten, SaveFailed, SaveReturns, Alive, procVars
  <2> QED BY <2>1
<1>7. CASE Stop \/ Join \/ FinalSave \/ FinalSaveFailed
  <2>1. /\ proc' \notin {"up", "down"} /\ due' = due
        /\ gate' \in {gate, mem}
    BY <1>7 DEF Stop, Join, FinalSave, FinalSaveFailed, flusherVars, gateVars
  <2>2. mem # NoContent
    BY MarkerAssumption DEF TypeInv, TypeOK
  <2> QED BY <2>1, <2>2
<1>8. CASE Exit \/ PowerLoss
  BY <1>8 DEF Exit, PowerLoss, Dies
<1>9. CASE Boot
  BY <1>9 DEF Boot, markVars, flusherVars, gateVars
<1>10. CASE Tick
  BY <1>10 DEF Tick, markVars, procVars
<1>11. CASE UNCHANGED vars
  BY <1>11 DEF vars, markVars, flusherVars, gateVars, procVars
<1> QED
  BY <1>1, <1>2, <1>3, <1>4, <1>5, <1>6, <1>7, <1>8, <1>9, <1>10, <1>11
     DEF Next, Requests, Flusher, Process

\* A file that has just caught up, or whose lag is excused, is within any bound.
LEMMA NoLag ==
    ASSUME TypeInv', stale' = 0, shapeStale' = 0
    PROVE  ShapeLag' /\ TouchLag'
<1>1. /\ \A d \in 0..Delay : 0 <= Delay - d /\ 0 <= Refresh + (Delay - d)
      /\ \A a \in 0..Refresh : 0 <= a
      /\ 0 <= Delay /\ 0 <= Refresh /\ 0 <= Refresh + Delay
  BY TimingAssumption
<1>2. sleepLeft' \in 0..Delay /\ age' \in 0..Refresh
  BY DEF TypeInv, TypeOK
<1>3. ShapeLag'
  BY <1>1, <1>2 DEF ShapeLag
<1>4. TouchLag'
  BY <1>1, <1>2 DEF TouchLag
<1> QED BY <1>3, <1>4

\* What an instantaneous step does to the measures.
LEMMA InstantMeasures ==
    ASSUME ExcuseInv, Instant
    PROVE  /\ ExcuseInv'
           /\ stale' \in {0, stale} /\ shapeStale' \in {0, shapeStale}
           /\ late' \/ proc # "up" \/ file' # file => stale' = 0 /\ shapeStale' = 0
           /\ Loaded(file') = mem' => stale' = 0
           /\ Loaded(file').shape = mem'.shape => shapeStale' = 0
           /\ proc' = "up" /\ failed' => late'
<1>1. stale \in Nat /\ shapeStale \in Nat
  BY DEF ExcuseInv
<1>2. late' \in BOOLEAN /\ (proc' = "up" /\ failed' => late')
  BY Zenon DEF Instant
<1>3. /\ stale' \in {0, stale} /\ shapeStale' \in {0, shapeStale}
      /\ late' \/ proc # "up" \/ file' # file => stale' = 0 /\ shapeStale' = 0
      /\ Loaded(file') = mem' => stale' = 0
      /\ Loaded(file').shape = mem'.shape => shapeStale' = 0
  BY Zenon DEF Instant, Unmeasured
<1>4. ExcuseInv'
  BY <1>1, <1>2, <1>3 DEF ExcuseInv
<1> QED BY <1>2, <1>3, <1>4

\* The flusher between two ticks: what it leaves for later is within its bound.
LEMMA InstantLag ==
    ASSUME TypeInv, SaveInv, LagInv, TypeInv', Instant
    PROVE  proc' = "up" => ShapeLag' /\ TouchLag'
<1> SUFFICES ASSUME proc' = "up" PROVE ShapeLag' /\ TouchLag'
  OBVIOUS
<1>1. /\ stale' \in {0, stale} /\ shapeStale' \in {0, shapeStale}
      /\ late' \/ proc # "up" \/ file' # file => stale' = 0 /\ shapeStale' = 0
      /\ Loaded(file') = mem' => stale' = 0
      /\ Loaded(file').shape = mem'.shape => shapeStale' = 0
      /\ failed' => late'
  BY InstantMeasures DEF LagInv
<1>2. CASE proc # "up" \/ failed'
  BY <1>1, <1>2, NoLag
<1> SUFFICES ASSUME proc = "up", ~failed' PROVE ShapeLag' /\ TouchLag'
  BY <1>2
<1>3. /\ stale \in Nat /\ shapeStale \in Nat /\ ShapeLag /\ TouchLag
      /\ Delay \in Nat /\ Refresh \in Nat /\ sleepLeft \in 0..Delay /\ age \in 0..Refresh
  BY TimingAssumption DEF LagInv, ExcuseInv, TypeInv, TypeOK
<1>4. /\ stale' \in Nat /\ shapeStale' \in Nat /\ stale' <= stale /\ shapeStale' <= shapeStale
  BY <1>1, <1>3
<1>5. CASE UNCHANGED <<pc, sleepLeft, snap, gate, age, file>>
  BY <1>3, <1>4, <1>5 DEF ShapeLag, TouchLag
<1>6. CASE pc = "wait" /\ pc' = "sleep" /\ sleepLeft' = Delay /\ UNCHANGED <<gate, age, file>>
  BY <1>3, <1>4, <1>6 DEF ShapeLag, TouchLag
<1>7. CASE SleepOver \/ SaveTake
  <2>1. /\ pc \in {"sleep", "take"} /\ pc' \in {"take", "copy"} /\ (pc = "sleep" => sleepLeft = 0)
        /\ UNCHANGED <<gate, age, file>>
    BY <1>7 DEF SleepOver, SaveTake, gateVars
  <2> QED BY <1>3, <1>4, <2>1 DEF ShapeLag, TouchLag
<1>8. CASE SaveCopy
  <2>1. pc = "copy" /\ pc' = "write" /\ snap' = mem /\ UNCHANGED <<mem, gate, age, file>>
    BY <1>8 DEF SaveCopy, gateVars
  <2> QED BY <1>1, <1>3, <1>4, <2>1 DEF ShapeLag, TouchLag
<1>9. CASE SaveSkipped
  <2>1. pc = "write" /\ pc' = "wait" /\ Skip # "Write" /\ UNCHANGED <<gate, age, file>>
    BY <1>9 DEF SaveSkipped, SaveReturns
  <2>2. gate # NoContent /\ Loaded(file) = gate
    BY <2>1, ContentFacts DEF Skip, SaveInv, GateTellsTheTruth, TypeInv, TypeOK
  <2>3. gate = snap \/ (gate.shape = snap.shape /\ age < Refresh)
    <3>1. gate = snap \/ (gate.shape = snap.shape /\ ~(age >= Refresh))
      BY <2>1, <2>2 DEF Skip
    <3> QED BY <1>3, <3>1
  <2>4. shapeStale = 0 /\ (stale = 0 \/ (age < Refresh /\ stale <= age))
    BY <1>3, <2>1, <2>2, <2>3 DEF ShapeLag, TouchLag
  <2> QED BY <1>3, <1>4, <2>1, <2>4 DEF ShapeLag, TouchLag
<1>10. CASE SaveWritten
  <2>1. pc = "write" /\ file' = snap /\ snap \in Content
    BY <1>10 DEF SaveWritten, TypeInv, TypeOK, SnapInv
  <2>2. CASE file' # file
    BY <1>1, <2>2, NoLag
  <2>3. CASE file' = file
    <3>1. Loaded(file) = snap
      BY <2>1, <2>3, ContentFacts
    <3>2. stale = 0 /\ shapeStale = 0
      BY <1>3, <2>1, <3>1 DEF ShapeLag, TouchLag
    <3> QED BY <1>1, <3>2, NoLag
  <2> QED BY <2>2, <2>3
<1>11. CASE Requests
  <2>1. UNCHANGED <<pc, sleepLeft, snap, gate, age, file>>
    BY <1>11 DEF Requests, PinAndMark, Record, MarkLater, flusherVars, gateVars
  <2> QED BY <1>5, <2>1
<1>12. CASE WakeChanged \/ WakeDue
  <2>1. pc = "wait" /\ pc' = "sleep" /\ sleepLeft' = Delay /\ UNCHANGED <<gate, age, file>>
    BY <1>12 DEF WakeChanged, WakeDue, gateVars
  <2> QED BY <1>6, <2>1
<1>13. ~SaveFailed /\ ~FlusherStops
  BY DEF SaveFailed, SaveReturns, FlusherStops
<1>14. ~Process
  BY DEF Process, Stop, Join, FinalSave, FinalSaveFailed, Exit, PowerLoss, Dies, Boot
<1> QED
  BY <1>7, <1>8, <1>9, <1>10, <1>11, <1>12, <1>13, <1>14 DEF Instant, Flusher

\* Time passes only where nothing is ready: in the flusher's sleep, or over a
\* file that lags in deferred touch times at most.
LEMMA TickLag ==
    ASSUME TypeInv, SaveInv, LagInv, TypeInv', TimedTick
    PROVE  ExcuseInv' /\ (proc' = "up" => ShapeLag' /\ TouchLag')
<1>1. /\ stale \in Nat /\ shapeStale \in Nat /\ StaleCap \in Nat
      /\ Delay \in Nat /\ Refresh \in Nat /\ sleepLeft \in 0..Delay /\ age \in 0..Refresh
  BY TimingAssumption DEF LagInv, ExcuseInv, TypeInv, TypeOK, StaleCap
<1>2. /\ UNCHANGED <<mem, unmarked, permit, pc, due, snap, gate, failed, file, proc>>
      /\ age' = (IF age < Refresh THEN age + 1 ELSE age)
      /\ sleepLeft' = (IF sleepLeft > 0 THEN sleepLeft - 1 ELSE 0)
  BY DEF TimedTick, Tick, markVars, procVars
<1>3. late' \in BOOLEAN /\ (proc = "up" /\ (late \/ ~NothingReady) => late')
  BY Zenon DEF TimedTick
<1>4. \A n \in Nat, same \in BOOLEAN :
        Count(n, same) \in Nat /\ Count(n, same) <= n + 1 /\ (same => Count(n, same) = 0)
  BY <1>1 DEF Count
<1>5. /\ stale' \in Nat /\ stale' <= stale + 1
      /\ shapeStale' \in Nat /\ shapeStale' <= shapeStale + 1
      /\ late' \/ Loaded(file) = mem => stale' = 0
      /\ late' \/ Loaded(file).shape = mem.shape => shapeStale' = 0
  BY <1>1, <1>4 DEF TimedTick
<1>6. ExcuseInv'
  BY <1>2, <1>3, <1>5 DEF ExcuseInv, LagInv
<1>7. CASE late'
  BY <1>5, <1>6, <1>7, NoLag DEF ExcuseInv
<1>8. CASE proc = "up" /\ ~late'
  <2>1. NothingReady /\ ~late /\ ~failed /\ ShapeLag /\ TouchLag
    BY <1>3, <1>8 DEF LagInv, ExcuseInv
  <2>2. gate # NoContent /\ age' < Refresh => stale' <= age'
    BY <1>1, <1>2, <1>5, <2>1 DEF TouchLag
  <2>3. CASE pc = "sleep"
    <3>1. sleepLeft > 0 /\ sleepLeft' = sleepLeft - 1
      BY <1>2, <2>1, <2>3 DEF NothingReady
    <3>2. shapeStale <= Delay - sleepLeft /\ stale <= Refresh + (Delay - sleepLeft)
      BY <2>1, <2>3 DEF ShapeLag, TouchLag
    <3>3. shapeStale' <= Delay - sleepLeft' /\ stale' <= Refresh + (Delay - sleepLeft')
      BY <1>1, <1>5, <3>1, <3>2
    <3> QED BY <1>2, <1>6, <2>2, <2>3, <3>3 DEF ShapeLag, TouchLag
  <2>4. CASE pc = "wait"
    <3>1. ~permit /\ ~unmarked /\ ~(due /\ age >= Refresh)
      BY <2>1, <2>4 DEF NothingReady
    <3>2. Loaded(file).shape = mem.shape
      BY <1>8, <2>1, <2>4, <3>1 DEF SaveInv, LagInv, DeferInv
    <3>3. stale' <= Refresh
      <4>1. CASE due
        <5>1. age < Refresh /\ stale <= age
          BY <1>1, <2>1, <3>1, <4>1 DEF TouchLag, LagInv, DeferInv
        <5> QED BY <1>1, <1>5, <5>1
      <4>2. CASE ~due
        BY <1>1, <1>5, <1>8, <2>1, <2>4, <3>1, <4>2 DEF SaveInv
      <4> QED BY <4>1, <4>2
    <3> QED BY <1>2, <1>5, <1>6, <2>2, <2>4, <3>2, <3>3 DEF ShapeLag, TouchLag
  <2>5. pc \in {"sleep", "wait"}
    BY <1>8, <2>1 DEF NothingReady, TypeInv, TypeOK, SnapInv
  <2> QED BY <1>6, <2>3, <2>4, <2>5
<1> QED BY <1>2, <1>6, <1>7, <1>8

\* A timed step is a step of the cache, or none.
LEMMA TimedStep == [TimedNext]_timedVars => [Next]_vars
BY DEF TimedNext, timedVars, Instant, TimedTick, Next

LEMMA LagStep == TypeInv /\ SaveInv /\ LagInv /\ [TimedNext]_timedVars => LagInv'
<1> SUFFICES ASSUME TypeInv, SaveInv, LagInv, [TimedNext]_timedVars PROVE LagInv'
  OBVIOUS
<1>1. TypeInv' /\ DeferInv'
  BY TimedStep, TypeInvStep, DeferStep DEF LagInv
<1>2. CASE Instant
  BY <1>1, <1>2, InstantMeasures, InstantLag DEF LagInv
<1>3. CASE TimedTick
  BY <1>1, <1>3, TickLag DEF LagInv
<1>4. CASE UNCHANGED timedVars
  <2>1. /\ UNCHANGED <<pc, sleepLeft, snap, gate, age, file, proc, failed, stale, shapeStale, late>>
    BY <1>4 DEF timedVars, vars, flusherVars, gateVars, procVars
  <2>2. ExcuseInv'
    BY <2>1 DEF LagInv, ExcuseInv
  <2>3. proc' = "up" => ShapeLag' /\ TouchLag'
    BY <2>1 DEF LagInv, ShapeLag, TouchLag
  <2> QED BY <1>1, <2>2, <2>3 DEF LagInv
<1> QED BY <1>2, <1>3, <1>4 DEF TimedNext

\* The measured cache keeps the invariants of the cache, and its own.
LEMMA LagInvariant == TimedSpec => [](TypeInv /\ SaveInv /\ LagInv)
<1>1. TimedInit => TypeInv /\ SaveInv /\ LagInv
  <2> SUFFICES ASSUME TimedInit PROVE TypeInv /\ SaveInv /\ LagInv
    OBVIOUS
  <2>1. TypeInv /\ SaveInv
    BY TypeInvInit, SaveInvInit DEF TimedInit
  <2>2. /\ stale = 0 /\ shapeStale = 0 /\ ~late /\ late \in BOOLEAN
        /\ ~due /\ ~failed /\ pc = "wait" /\ gate = NoContent
    BY Zenon DEF TimedInit, Init
  <2>3. DeferInv /\ ExcuseInv
    BY <2>2 DEF DeferInv, ExcuseInv
  <2>4. ShapeLag /\ TouchLag
    BY <2>2, TimingAssumption DEF ShapeLag, TouchLag
  <2> QED BY <2>1, <2>3, <2>4 DEF LagInv
<1>2. TypeInv /\ SaveInv /\ LagInv /\ [TimedNext]_timedVars => (TypeInv /\ SaveInv /\ LagInv)'
  BY TimedStep, TypeInvStep, SaveInvStep, LagStep
<1> QED BY <1>1, <1>2, PTL DEF TimedSpec

\* save_on_change keeps its word for every delay and refresh period: while no
\* write fails and no ready task is late, a change of the shape is on disk one
\* delay after it was made, whatever requests come in between.
THEOREM ShapeReachesDiskInTime == TimedSpec => []ShapeLagBounded
<1>1. TypeInv /\ SaveInv /\ LagInv => ShapeLagBounded
  <2> SUFFICES ASSUME TypeInv, LagInv, proc = "up" PROVE shapeStale <= Delay
    BY DEF ShapeLagBounded
  <2>1. /\ Delay \in Nat /\ sleepLeft \in 0..Delay /\ shapeStale \in Nat /\ ShapeLag
        /\ pc \in {"wait", "sleep", "take", "copy", "write"}
    BY TimingAssumption DEF TypeInv, TypeOK, SnapInv, LagInv, ExcuseInv
  <2> QED BY <2>1 DEF ShapeLag
<1> QED BY <1>1, LagInvariant, PTL

\* And a deferred touch time one refresh period and one delay after it was made.
THEOREM TouchReachesDiskInTime == TimedSpec => []TouchLagBounded
<1>1. TypeInv /\ SaveInv /\ LagInv => TouchLagBounded
  <2> SUFFICES ASSUME TypeInv, LagInv, proc = "up" PROVE stale <= Refresh + Delay
    BY DEF TouchLagBounded
  <2>1. /\ Delay \in Nat /\ Refresh \in Nat /\ sleepLeft \in 0..Delay /\ stale \in Nat /\ TouchLag
        /\ pc \in {"wait", "sleep", "take", "copy", "write"}
    BY TimingAssumption DEF TypeInv, TypeOK, SnapInv, LagInv, ExcuseInv
  <2> QED BY <2>1 DEF TouchLag
<1> QED BY <1>1, LagInvariant, PTL
=============================================================================

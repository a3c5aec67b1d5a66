----------------------------- MODULE UsageLedger -----------------------------
(***************************************************************************)
(* The usage ledger of usage.rs: requests queue one line each and never    *)
(* wait, one writer thread appends them to the day's file and gzips closed *)
(* days, two flags say whether lines are being lost, and a shutdown drains *)
(* the queue within a budget.  Atomics are read and written one at a time, *)
(* in program order.                                                       *)
(***************************************************************************)
EXTENDS Integers, Sequences, SequencesExt, FiniteSetsExt

CONSTANTS
    Senders,        \* request tasks that record a served request
    Depth,          \* LEDGER_QUEUE_DEPTH
    RetentionDays,  \* usageRetentionDays
    MaxDay,         \* bound of this model: UTC days
    MaxLines,       \* bound of this model: lines built
    MaxBoots,       \* bound of this model: restarts
    DiskCanFail,    \* whether a write, a rename or a removal may fail
    CanPanic        \* whether the writer thread may panic

ASSUME UsageAssumption ==
    /\ Depth \in Nat \ {0} /\ RetentionDays \in Nat
    /\ MaxDay \in Nat /\ MaxLines \in Nat /\ MaxBoots \in Nat
    /\ DiskCanFail \in BOOLEAN /\ CanPanic \in BOOLEAN

VARIABLES
    day,            \* the UTC date
    boots,          \* restarts so far
    lines,          \* lines built so far; a line is named by its number
    attached,       \* UsageTracker::attached
    handle,         \* UsageTracker::ledger is Some
    closed,         \* every sender of the channel is gone
    queue,          \* the bounded channel
    dropped,        \* LedgerHandle::dropped
    dropping,       \* LedgerHandle::dropping
    healthy,        \* Ledger::healthy
    dropsSeen,      \* Ledger::drops_seen
    spc,            \* sender -> "idle", "built", "full" or "counted"
    sline,          \* sender -> the line it is recording
    wpc,            \* where the writer thread is
    wline,          \* the line it took off the queue
    opened,         \* the date of Ledger::open, NoDay if none
    compressedFor,  \* ledger_writer's compressed_for
    pass,           \* it is inside compress_ledger
    todo,           \* the closed days of this pass still to do
    stop,           \* where shutdown_ledger is, or what it returned
    plain, gz,      \* date -> the lines of the day's two files
    log,            \* history: date -> every append, in order
    accepted,       \* history: the lines this process queued
    handled         \* history: those of them whose write succeeded or failed

clockVars == <<day, boots, lines>>
flagVars == <<dropped, dropping, healthy, dropsSeen>>
senderVars == <<spc, sline>>
passVars == <<compressedFor, pass, todo>>
writerVars == <<wpc, wline, opened, passVars>>
shutVars == <<attached, handle, closed, stop>>
fileVars == <<plain, gz, log>>
historyVars == <<accepted, handled>>
vars == <<clockVars, queue, flagVars, senderVars, writerVars, shutVars, fileVars, historyVars>>

Days == 0..MaxDay
NoDay == -1
NoLine == [n |-> 0, day |-> 0]
FlushMark == NoLine
IsFlush(message) == message.n = FlushMark.n
Results == {"NotAttached", "Flushed", "Abandoned"}

Empty == [d \in Days |-> <<>>]

Init ==
    /\ day = 0 /\ boots = 0 /\ lines = 0
    /\ attached = TRUE /\ handle = TRUE /\ closed = FALSE /\ stop = "up"
    /\ queue = <<>>
    /\ dropped = 0 /\ dropping = FALSE /\ healthy = TRUE /\ dropsSeen = 0
    /\ spc = [s \in Senders |-> "idle"] /\ sline = [s \in Senders |-> NoLine]
    /\ wpc = "ready" /\ wline = NoLine /\ opened = NoDay
    /\ compressedFor = 0 /\ pass = FALSE /\ todo = {}
    /\ plain = Empty /\ gz = Empty /\ log = Empty
    /\ accepted = {} /\ handled = {}

Up == stop # "down"

-----------------------------------------------------------------------------
(***************************************************************************)
(* The request path.                                                       *)
(***************************************************************************)

\* record: the flag is read, then the line is built.
Record(s) ==
    /\ Up /\ attached
    /\ spc[s] = "idle" /\ lines < MaxLines
    /\ lines' = lines + 1
    /\ spc' = [spc EXCEPT ![s] = "built"]
    /\ sline' = [sline EXCEPT ![s] = [n |-> lines + 1, day |-> day]]
    /\ UNCHANGED <<day, boots, queue, flagVars, writerVars, shutVars, fileVars, historyVars>>

\* The request is done with the ledger.
Recorded(s) ==
    /\ spc' = [spc EXCEPT ![s] = "idle"]
    /\ sline' = [sline EXCEPT ![s] = NoLine]

\* The handle was taken meanwhile: counted in memory only.
RecordDetached(s) ==
    /\ Up /\ spc[s] = "built" /\ ~handle
    /\ Recorded(s)
    /\ UNCHANGED <<clockVars, queue, flagVars, writerVars, shutVars, fileVars, historyVars>>

Gone == wpc \in {"done", "gone"}

\* Mutant: one line more than the channel holds.
QueueOverfull(s) ==
    /\ Up /\ spc[s] = "built" /\ handle
    /\ ~Gone /\ Len(queue) <= Depth
    /\ queue' = Append(queue, sline[s])
    /\ accepted' = accepted \cup {sline[s].n}
    /\ Recorded(s)
    /\ UNCHANGED <<clockVars, flagVars, writerVars, shutVars, fileVars, handled>>

\* queue, under the read lock: the channel has room.
Queue(s) ==
    /\ Up /\ spc[s] = "built" /\ handle
    /\ ~Gone /\ Len(queue) < Depth
    /\ queue' = Append(queue, sline[s])
    /\ accepted' = accepted \cup {sline[s].n}
    /\ Recorded(s)
    /\ UNCHANGED <<clockVars, flagVars, writerVars, shutVars, fileVars, handled>>

\* Full or Disconnected.
QueueFails(s) ==
    /\ Up /\ spc[s] = "built" /\ handle
    /\ Gone \/ Len(queue) = Depth
    /\ spc' = [spc EXCEPT ![s] = "full"]
    /\ UNCHANGED <<clockVars, queue, flagVars, sline, writerVars, shutVars, fileVars, historyVars>>

CountDrop(s) ==
    /\ Up /\ spc[s] = "full"
    /\ dropped' = dropped + 1
    /\ spc' = [spc EXCEPT ![s] = "counted"]
    /\ UNCHANGED <<clockVars, queue, dropping, healthy, dropsSeen, sline, writerVars, shutVars,
                   fileVars, historyVars>>

RaiseDropping(s) ==
    /\ Up /\ spc[s] = "counted"
    /\ dropping' = TRUE
    /\ Recorded(s)
    /\ UNCHANGED <<clockVars, queue, dropped, healthy, dropsSeen, writerVars, shutVars,
                   fileVars, historyVars>>

-----------------------------------------------------------------------------
(***************************************************************************)
(* The writer thread.                                                      *)
(***************************************************************************)

\* The closed days still plain: before yesterday.
Closed(today) == {d \in Days : plain[d] # <<>> /\ d < today - 1}

\* compress_ledger: the days are listed once, at the start of the pass.
StartPass(today) ==
    /\ compressedFor' = today
    /\ todo' = Closed(today)
    /\ pass' = (todo' # {})
    /\ wpc' = IF todo' = {} THEN "ready" ELSE "compress"

\* Where a handled message leaves the writer: between two files of a pass, or in
\* its loop, where a newly opened day starts a pass.
Handled(date) ==
    IF pass THEN wpc' = "drain" /\ UNCHANGED passVars
    ELSE IF date > compressedFor THEN StartPass(date)
    ELSE wpc' = "ready" /\ UNCHANGED passVars

\* A message is taken in the loop, or between two files until none is left.
TakeLine ==
    /\ Up /\ wpc \in {"ready", "drain"} /\ queue # <<>>
    /\ ~IsFlush(Head(queue))
    /\ wline' = Head(queue) /\ queue' = Tail(queue)
    /\ wpc' = "held"
    /\ UNCHANGED <<clockVars, flagVars, senderVars, opened, passVars, shutVars, fileVars, historyVars>>

\* A flush is answered; a flusher that gave up is not waited for.
TakeFlush ==
    /\ Up /\ wpc \in {"ready", "drain"} /\ queue # <<>>
    /\ IsFlush(Head(queue))
    /\ queue' = Tail(queue)
    /\ stop' = IF stop = "wait" THEN "join" ELSE stop
    /\ closed' = (closed \/ stop = "wait")
    /\ Handled(opened)
    /\ UNCHANGED <<clockVars, flagVars, senderVars, wline, opened, attached, handle, fileVars, historyVars>>

Appended(files, d, x) == [files EXCEPT ![d] = Append(@, x)]

\* append, when the write succeeds; the flags follow.
AppendLine ==
    /\ Up /\ wpc = "held"
    /\ opened' = wline.day
    /\ plain' = Appended(plain, wline.day, wline.n)
    /\ log' = Appended(log, wline.day, wline.n)
    /\ handled' = handled \cup {wline.n}
    /\ healthy' = TRUE
    /\ wpc' = "wrote" /\ wline' = NoLine
    /\ UNCHANGED <<clockVars, queue, dropped, dropping, dropsSeen, senderVars, passVars,
                   shutVars, gz, accepted>>

\* append, when it fails: before the file is open, before a byte is written, or
\* after some were.
AppendFails ==
    /\ Up /\ wpc = "held" /\ DiskCanFail
    /\ opened' \in {opened, wline.day}
    /\ \/ UNCHANGED <<plain, log>>
       \/ /\ opened' = wline.day
          /\ plain' = Appended(plain, wline.day, 0) /\ log' = Appended(log, wline.day, 0)
    /\ handled' = handled \cup {wline.n}
    /\ healthy' = FALSE
    /\ Handled(opened') /\ wline' = NoLine
    /\ UNCHANGED <<clockVars, queue, dropped, dropping, dropsSeen, senderVars, shutVars,
                   gz, accepted>>

\* note_drop_episode: the count is read; new drops leave the flag alone.
LoadDrops ==
    /\ Up /\ wpc = "wrote"
    /\ IF dropped # dropsSeen
       THEN dropsSeen' = dropped /\ Handled(opened)
       ELSE wpc' = "swap" /\ UNCHANGED <<dropsSeen, passVars>>
    /\ UNCHANGED <<clockVars, queue, dropped, dropping, healthy, senderVars, wline, opened,
                   shutVars, fileVars, historyVars>>

\* Mutant: the episode is closed without looking again.
LowerDroppingForGood ==
    /\ Up /\ wpc = "swap"
    /\ dropping' = FALSE
    /\ Handled(opened)
    /\ UNCHANGED <<clockVars, queue, dropped, healthy, dropsSeen, senderVars, wline, opened,
                   shutVars, fileVars, historyVars>>

\* The flag is lowered.
LowerDropping ==
    /\ Up /\ wpc = "swap"
    /\ dropping' = FALSE
    /\ IF dropping THEN wpc' = "reread" /\ UNCHANGED passVars ELSE Handled(opened)
    /\ UNCHANGED <<clockVars, queue, dropped, healthy, dropsSeen, senderVars, wline, opened,
                   shutVars, fileVars, historyVars>>

\* And raised again if a line was dropped meanwhile.
RereadDrops ==
    /\ Up /\ wpc = "reread"
    /\ dropping' = (dropping \/ dropped # dropsSeen)
    /\ Handled(opened)
    /\ UNCHANGED <<clockVars, queue, dropped, healthy, dropsSeen, senderVars, wline, opened,
                   shutVars, fileVars, historyVars>>

\* The queue is empty between two files.
Drained ==
    /\ Up /\ wpc = "drain" /\ queue = <<>>
    /\ pass' = (todo # {})
    /\ wpc' = IF todo = {} THEN "ready" ELSE "compress"
    /\ UNCHANGED <<clockVars, queue, flagVars, senderVars, wline, opened, compressedFor, todo,
                   shutVars, fileVars, historyVars>>

\* The channel is closed and empty: the thread ends.
WriterEnds ==
    /\ Up /\ wpc = "ready" /\ queue = <<>> /\ closed
    /\ wpc' = "done"
    /\ UNCHANGED <<clockVars, queue, flagVars, senderVars, wline, opened, passVars, shutVars,
                   fileVars, historyVars>>

\* It panics in a file operation: what it held and what was queued is gone.
WriterPanics ==
    /\ Up /\ CanPanic /\ wpc \in {"held", "compress"}
    /\ wpc' = "gone" /\ queue' = <<>>
    /\ stop' = IF stop = "wait" THEN "join" ELSE stop
    /\ closed' = (closed \/ stop = "wait")
    /\ UNCHANGED <<clockVars, flagVars, senderVars, wline, opened, passVars, attached, handle,
                   fileVars, historyVars>>

-----------------------------------------------------------------------------
(***************************************************************************)
(* compress_day, for the oldest day of the pass.                           *)
(***************************************************************************)

Leftover(d) == gz[d] # <<>> /\ IsSuffix(plain[d], gz[d])

\* Mutant: the plain file goes before its .gz is in place.
CompressRemovesFirst ==
    /\ Up /\ wpc = "compress"
    /\ LET d == Min(todo)
       IN  /\ plain' = [plain EXCEPT ![d] = <<>>]
           /\ wpc' = "renamed"
           /\ UNCHANGED <<gz, todo>>
    /\ UNCHANGED <<clockVars, queue, flagVars, senderVars, wline, opened, compressedFor, pass,
                   shutVars, log, historyVars>>

\* The day's lines are written beside, read back and renamed into place.
Compress ==
    /\ Up /\ wpc = "compress"
    /\ LET d == Min(todo)
       IN  IF Leftover(d) THEN wpc' = "renamed" /\ UNCHANGED <<gz, todo>>
           ELSE \/ gz' = [gz EXCEPT ![d] = @ \o plain[d]] /\ wpc' = "renamed" /\ UNCHANGED todo
                \/ DiskCanFail /\ todo' = todo \ {d} /\ wpc' = "drain" /\ UNCHANGED gz
    /\ UNCHANGED <<clockVars, queue, flagVars, senderVars, wline, opened, compressedFor, pass,
                   shutVars, plain, log, historyVars>>

\* Only then is the plain file removed.
RemovePlain ==
    /\ Up /\ wpc = "renamed"
    /\ LET d == Min(todo)
       IN  /\ \/ plain' = [plain EXCEPT ![d] = <<>>]
              \/ DiskCanFail /\ UNCHANGED plain
           /\ todo' = todo \ {d}
    /\ wpc' = "drain"
    /\ UNCHANGED <<clockVars, queue, flagVars, senderVars, wline, opened, compressedFor, pass,
                   shutVars, gz, log, historyVars>>

-----------------------------------------------------------------------------
(***************************************************************************)
(* shutdown_ledger.                                                        *)
(***************************************************************************)

Stop ==
    /\ stop = "up"
    /\ attached' = FALSE /\ stop' = "detach"
    /\ UNCHANGED <<clockVars, queue, flagVars, senderVars, writerVars, handle, closed, fileVars, historyVars>>

\* The handle is taken under the write lock, once no request holds the read lock.
Detach ==
    /\ stop = "detach"
    /\ \A s \in Senders : spc[s] \notin {"full", "counted"}
    /\ handle' = FALSE
    /\ stop' = IF handle THEN "send" ELSE "NotAttached"
    /\ UNCHANGED <<clockVars, queue, flagVars, senderVars, writerVars, attached, closed, fileVars, historyVars>>

\* flush_via: the marker is queued, retried while the queue is full.
SendFlush ==
    /\ stop = "send" /\ ~Gone /\ Len(queue) < Depth
    /\ queue' = Append(queue, FlushMark)
    /\ stop' = "wait"
    /\ UNCHANGED <<clockVars, flagVars, senderVars, writerVars, attached, handle, closed, fileVars, historyVars>>

\* It gives up: the deadline, or no writer.  The handle is dropped either way.
FlushGivesUp ==
    /\ stop \in {"send", "wait"}
    /\ stop' = "join" /\ closed' = TRUE
    /\ UNCHANGED <<clockVars, queue, flagVars, senderVars, writerVars, attached, handle, fileVars, historyVars>>

\* Mutant: the flush's answer is the result, and nobody joins the writer.
JoinWithoutWaiting ==
    /\ stop = "join"
    /\ stop' = "Flushed"
    /\ UNCHANGED <<clockVars, queue, flagVars, senderVars, writerVars, attached, handle, closed,
                   fileVars, historyVars>>

\* The writer has finished: it is joined.
Join ==
    /\ stop = "join" /\ Gone
    /\ stop' = IF wpc = "done" THEN "Flushed" ELSE "Abandoned"
    /\ UNCHANGED <<clockVars, queue, flagVars, senderVars, writerVars, attached, handle, closed,
                   fileVars, historyVars>>

\* It has not, when the loop looks; and the deadline has passed when it asks.
LastLook ==
    /\ stop = "join" /\ ~Gone
    /\ stop' = "late"
    /\ UNCHANGED <<clockVars, queue, flagVars, senderVars, writerVars, attached, handle, closed,
                   fileVars, historyVars>>

\* Mutant: a writer that is late is waited for.
AbandonNever ==
    /\ stop = "late" /\ Gone
    /\ stop' = "Abandoned"
    /\ UNCHANGED <<clockVars, queue, flagVars, senderVars, writerVars, attached, handle, closed,
                   fileVars, historyVars>>

Abandon ==
    /\ stop = "late"
    /\ stop' = "Abandoned"
    /\ UNCHANGED <<clockVars, queue, flagVars, senderVars, writerVars, attached, handle, closed,
                   fileVars, historyVars>>

-----------------------------------------------------------------------------
(***************************************************************************)
(* The calendar, and the process.                                          *)
(***************************************************************************)

\* A request that ends over midnight is recorded for the day it ended in, and
\* its line is queued before the next midnight, unless the process is down.
NewDay ==
    /\ day < MaxDay
    /\ \A s \in Senders : Up /\ spc[s] = "built" => sline[s].day = day
    /\ day' = day + 1
    /\ UNCHANGED <<boots, lines, queue, flagVars, senderVars, writerVars, shutVars, fileVars, historyVars>>

\* The process ends, cleanly or not.
Dies ==
    /\ Up /\ boots < MaxBoots
    /\ stop' = "down"
    /\ UNCHANGED <<clockVars, queue, flagVars, senderVars, writerVars, attached, handle, closed,
                   fileVars, historyVars>>

\* prune: never today's or yesterday's.
Kept(files) ==
    [d \in Days |-> IF d < day - RetentionDays /\ d < day - 1 THEN <<>> ELSE files[d]]

\* attach_ledger: replay (reads only), prune, then the thread and its channel.
Boot ==
    /\ stop = "down"
    /\ boots' = boots + 1
    /\ plain' = Kept(plain) /\ gz' = Kept(gz)
    /\ log' = Kept(log)
    /\ queue' = <<>> /\ closed' = FALSE /\ stop' = "up"
    /\ dropped' = 0 /\ dropping' = FALSE /\ healthy' = TRUE /\ dropsSeen' = 0
    /\ spc' = [s \in Senders |-> "idle"] /\ sline' = [s \in Senders |-> NoLine]
    /\ wline' = NoLine /\ opened' = NoDay
    /\ accepted' = {} /\ handled' = {}
    /\ \/ /\ attached' = TRUE /\ handle' = TRUE
          /\ compressedFor' = day
          /\ todo' = {d \in Days : plain'[d] # <<>> /\ d < day - 1}
          /\ pass' = (todo' # {})
          /\ wpc' = IF todo' = {} THEN "ready" ELSE "compress"
       \/ \* no thread could be started
          /\ attached' = FALSE /\ handle' = FALSE
          /\ wpc' = "gone" /\ todo' = {} /\ pass' = FALSE /\ compressedFor' = day
    /\ UNCHANGED <<day, lines>>

SenderStep(s) ==
    Record(s) \/ RecordDetached(s) \/ Queue(s) \/ QueueFails(s) \/ CountDrop(s) \/ RaiseDropping(s)

WriterStep ==
    \/ TakeLine \/ TakeFlush \/ AppendLine \/ AppendFails
    \/ LoadDrops \/ LowerDropping \/ RereadDrops
    \/ Compress \/ RemovePlain \/ Drained \/ WriterEnds \/ WriterPanics

ShutdownStep ==
    Stop \/ Detach \/ SendFlush \/ FlushGivesUp \/ Join \/ LastLook \/ Abandon

Next ==
    \/ \E s \in Senders : SenderStep(s)
    \/ WriterStep \/ ShutdownStep
    \/ NewDay \/ Dies \/ Boot

\* A request task runs on; the deadlines of the shutdown come.  Nothing is
\* assumed of the writer: its volume may be stalled for good.
Fairness ==
    /\ \A s \in Senders : WF_vars(CountDrop(s)) /\ WF_vars(RaiseDropping(s))
    /\ WF_vars(Detach) /\ WF_vars(FlushGivesUp)
    /\ WF_vars(Join \/ LastLook) /\ WF_vars(Abandon)

Spec == Init /\ [][Next]_vars /\ Fairness

-----------------------------------------------------------------------------
(***************************************************************************)
(* Properties.                                                             *)
(***************************************************************************)

\* Every variable holds a value of its type.
TypeOK ==
    /\ day \in Days /\ boots \in 0..MaxBoots /\ lines \in 0..MaxLines
    /\ {attached, handle, closed, dropping, healthy, pass} \subseteq BOOLEAN
    /\ queue \in Seq([n : 0..MaxLines, day : Days]) /\ Len(queue) <= Depth
    /\ dropped \in Nat /\ dropsSeen \in 0..dropped
    /\ spc \in [Senders -> {"idle", "built", "full", "counted"}]
    /\ sline \in [Senders -> [n : 0..MaxLines, day : Days]]
    /\ wpc \in {"ready", "held", "wrote", "swap", "reread", "compress", "renamed", "drain",
                "done", "gone"}
    /\ opened \in Days \cup {NoDay} /\ compressedFor \in Days /\ todo \subseteq Days
    /\ stop \in {"up", "detach", "send", "wait", "join", "late", "down"} \cup Results

\* is_persisting tells of a lost line: once the request that lost one is done
\* with the flags, the flag is up unless the writer completed a write and saw
\* that drop, whatever the order in which the two threads touched the count and
\* the flag.
UnseenDropIsFlagged ==
    (Up /\ dropped # dropsSeen /\ wpc # "reread" /\ \A s \in Senders : spc[s] # "counted")
        => dropping

\* Flushed is told only when the writer has dealt with every line this process
\* queued: nothing is left in the queue, in its hands, or still to be queued.
FlushedMeansHandled ==
    stop = "Flushed" => accepted = handled /\ queue = <<>>

\* read_ledger_day: what a reader of the two files sees.
ReadLedgerDay(d) ==
    IF Leftover(d) THEN gz[d] ELSE gz[d] \o plain[d]

\* A day read back is every append to it, once and in order, wherever a
\* compression, a removal or the process stopped.
ReadsEachLineOnce ==
    \A d \in Days : ReadLedgerDay(d) = log[d]

\* Quitting into a stalled volume still quits.
ShutdownReturns ==
    (stop = "detach") ~> (stop \in Results \cup {"down", "up"})
=============================================================================

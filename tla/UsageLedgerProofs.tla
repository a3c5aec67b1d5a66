-------------------------- MODULE UsageLedgerProofs --------------------------
(***************************************************************************)
(* The flags and the drain of UsageLedger, for any number of requests and  *)
(* any depth of the queue.                                                 *)
(***************************************************************************)
EXTENDS UsageLedger, SequenceTheorems, FiniteSetTheorems, WellFoundedInduction, TLAPS

Lines == [n : Nat, day : Int]

\* The types the proofs rest on.
CoreTyped ==
    /\ day \in Int /\ lines \in Nat
    /\ queue \in Seq(Lines)
    /\ spc \in [Senders -> {"idle", "built", "full", "counted"}]
    /\ sline \in [Senders -> Lines] /\ wline \in Lines
    /\ dropping \in BOOLEAN

\* The lines of the queue: a flush mark is not one.
Queued == {queue[i].n : i \in DOMAIN queue} \ {0}

\* The line the writer took and has not dealt with.
InHand == IF wpc = "held" THEN {wline.n} ELSE {}

\* A line has a number.
Numbered ==
    /\ \A s \in Senders : spc[s] = "built" => sline[s].n # 0
    /\ wpc = "held" => wline.n # 0

\* A line this process queued is in the queue, in the writer's hand or dealt
\* with, as long as there is a writer; one that ended left nothing.
Accounted ==
    /\ (Up /\ wpc # "gone") => accepted = handled \cup Queued \cup InHand
    /\ wpc = "done" => queue = <<>>
    /\ stop = "Flushed" => wpc = "done"

IndInv == CoreTyped /\ Numbered /\ UnseenDropIsFlagged /\ Accounted

-----------------------------------------------------------------------------
(***************************************************************************)
(* The queue as a set of line numbers.                                     *)
(***************************************************************************)

\* A message at the back adds its number.
LEMMA QueuedAppend ==
    ASSUME CoreTyped, NEW x \in Lines, queue' = Append(queue, x)
    PROVE  queue' \in Seq(Lines) /\ Queued' = (Queued \cup {x.n}) \ {0}
<1>1. /\ Append(queue, x) \in Seq(Lines)
      /\ Len(Append(queue, x)) = Len(queue) + 1
      /\ \A i \in 1..Len(queue) : Append(queue, x)[i] = queue[i]
      /\ Append(queue, x)[Len(queue) + 1] = x
  BY AppendProperties DEF CoreTyped
<1>2. Len(queue) \in Nat /\ DOMAIN queue = 1..Len(queue)
  BY LenProperties DEF CoreTyped
<1>3. DOMAIN queue' = 1..(Len(queue) + 1)
  BY <1>1, LenProperties
<1>4. \A i \in DOMAIN queue' : i \in DOMAIN queue \/ i = Len(queue) + 1
  BY <1>2, <1>3
<1>5. {queue'[i].n : i \in DOMAIN queue'} = {queue[i].n : i \in DOMAIN queue} \cup {x.n}
  <2>1. \A i \in DOMAIN queue : i \in DOMAIN queue' /\ queue'[i] = queue[i]
    BY <1>1, <1>2, <1>3
  <2>2. Len(queue) + 1 \in DOMAIN queue' /\ queue'[Len(queue) + 1] = x
    BY <1>1, <1>2, <1>3
  <2> QED BY <1>4, <2>1, <2>2
<1> QED BY <1>1, <1>5 DEF Queued

\* Taking the first one takes its number and leaves the others.
LEMMA QueuedTail ==
    ASSUME CoreTyped, queue # <<>>, queue' = Tail(queue)
    PROVE  /\ queue' \in Seq(Lines)
           /\ Head(queue) \in Lines
           /\ Queued = (Queued' \cup {Head(queue).n}) \ {0}
<1>1. /\ Head(queue) \in Lines /\ Head(queue) = queue[1]
      /\ Tail(queue) \in Seq(Lines)
      /\ Len(Tail(queue)) = Len(queue) - 1
      /\ \A i \in 1..Len(Tail(queue)) : Tail(queue)[i] = queue[i + 1]
  BY HeadTailProperties, HeadTailProperties DEF CoreTyped
<1>2. Len(queue) \in Nat \ {0} /\ DOMAIN queue = 1..Len(queue)
  BY LenProperties, EmptySeq DEF CoreTyped
<1>3. DOMAIN queue' = 1..(Len(queue) - 1)
  BY <1>1, LenProperties
<1>4. {queue[i].n : i \in DOMAIN queue} = {queue'[i].n : i \in DOMAIN queue'} \cup {Head(queue).n}
  <2>1. \A i \in DOMAIN queue' : i + 1 \in DOMAIN queue /\ queue'[i] = queue[i + 1]
    BY <1>1, <1>2, <1>3
  <2>2. \A i \in DOMAIN queue : i = 1 \/ (i - 1 \in DOMAIN queue' /\ queue'[i - 1] = queue[i])
    BY <1>1, <1>2, <1>3
  <2>3. 1 \in DOMAIN queue /\ queue[1] = Head(queue)
    BY <1>1, <1>2
  <2> QED BY <2>1, <2>2, <2>3
<1> QED BY <1>1, <1>4 DEF Queued

-----------------------------------------------------------------------------
(***************************************************************************)
(* The inductive invariant.                                                *)
(***************************************************************************)

\* An empty ledger satisfies it.
LEMMA InitInv == Init => IndInv
<1> SUFFICES ASSUME Init PROVE IndInv
  OBVIOUS
<1> USE DEF Init
<1>1. CoreTyped
  <2>1. queue \in Seq(Lines)
    BY EmptySeq
  <2>2. NoLine \in Lines
    BY DEF NoLine, Lines
  <2>3. day \in Int /\ lines \in Nat
    <3>1. day = 0 /\ lines = 0
      OBVIOUS
    <3> HIDE DEF Init
    <3> QED BY <3>1
  <2>4. /\ spc \in [Senders -> {"idle", "built", "full", "counted"}]
        /\ sline \in [Senders -> Lines] /\ wline \in Lines
    BY <2>2
  <2>5. dropping \in BOOLEAN
    BY Zenon
  <2> HIDE DEF Init
  <2> QED BY <2>1, <2>3, <2>4, <2>5 DEF CoreTyped
<1>2. Queued = {}
  BY DEF Queued
<1> QED BY <1>1, <1>2 DEF IndInv, Numbered, UnseenDropIsFlagged, Accounted, InHand

\* The request path: a line enters the queue with its number, or is counted and
\* then flagged.
LEMMA SenderInv ==
    ASSUME IndInv, NEW s \in Senders, SenderStep(s)
    PROVE  IndInv'
<1> USE DEF IndInv
<1>1. CASE Record(s)
  <2> USE <1>1 DEF Record, clockVars, flagVars, writerVars, passVars, shutVars, historyVars
  <2>1. CoreTyped'
    BY DEF CoreTyped, Lines
  <2>2. Numbered'
    BY DEF Numbered, CoreTyped
  <2>3. UnseenDropIsFlagged' /\ Accounted'
    BY DEF UnseenDropIsFlagged, Accounted, Queued, InHand, Up, CoreTyped
  <2> QED BY <2>1, <2>2, <2>3
<1>2. CASE RecordDetached(s)
  <2> USE <1>2 DEF RecordDetached, Recorded, clockVars, flagVars, writerVars, passVars, shutVars, historyVars
  <2>1. CoreTyped'
    BY DEF CoreTyped, Lines, NoLine
  <2>2. Numbered'
    BY DEF Numbered, CoreTyped
  <2>3. UnseenDropIsFlagged' /\ Accounted'
    BY DEF UnseenDropIsFlagged, Accounted, Queued, InHand, Up, CoreTyped
  <2> QED BY <2>1, <2>2, <2>3
<1>3. CASE Queue(s)
  <2> USE <1>3 DEF Queue, Recorded, clockVars, flagVars, writerVars, passVars, shutVars
  <2>1. queue' \in Seq(Lines) /\ Queued' = (Queued \cup {sline[s].n}) \ {0} /\ sline[s].n # 0
    BY QueuedAppend DEF CoreTyped, Numbered
  <2>2. CoreTyped'
    BY <2>1 DEF CoreTyped, Lines, NoLine
  <2>3. Numbered'
    BY DEF Numbered, CoreTyped
  <2>4. UnseenDropIsFlagged'
    BY DEF UnseenDropIsFlagged, Up, CoreTyped
  <2>5. accepted' = handled' \cup Queued' \cup InHand'
    BY <2>1 DEF Accounted, InHand, Gone, Queued
  <2>6. Accounted'
    BY <2>5 DEF Accounted, Gone
  <2> QED BY <2>2, <2>3, <2>4, <2>6
<1>4. CASE QueueFails(s)
  <2> USE <1>4 DEF QueueFails, clockVars, flagVars, writerVars, passVars, shutVars, historyVars
  <2>1. CoreTyped'
    BY DEF CoreTyped, Lines
  <2>2. Numbered'
    BY DEF Numbered, CoreTyped
  <2>3. UnseenDropIsFlagged' /\ Accounted'
    BY DEF UnseenDropIsFlagged, Accounted, Queued, InHand, Up, CoreTyped
  <2> QED BY <2>1, <2>2, <2>3
<1>5. CASE CountDrop(s)
  <2> USE <1>5 DEF CountDrop, clockVars, writerVars, passVars, shutVars, historyVars
  <2>1. CoreTyped'
    BY DEF CoreTyped, Lines
  <2>2. Numbered'
    BY DEF Numbered, CoreTyped
  <2>3. UnseenDropIsFlagged'
    BY DEF UnseenDropIsFlagged, CoreTyped
  <2>4. Accounted'
    BY DEF Accounted, Queued, InHand, Up
  <2> QED BY <2>1, <2>2, <2>3, <2>4
<1>6. CASE RaiseDropping(s)
  <2> USE <1>6 DEF RaiseDropping, Recorded, clockVars, writerVars, passVars, shutVars, historyVars
  <2>1. CoreTyped'
    BY DEF CoreTyped, Lines, NoLine
  <2>2. Numbered'
    BY DEF Numbered, CoreTyped
  <2>3. UnseenDropIsFlagged'
    BY DEF UnseenDropIsFlagged
  <2>4. Accounted'
    BY DEF Accounted, Queued, InHand, Up
  <2> QED BY <2>1, <2>2, <2>3, <2>4
<1> QED BY <1>1, <1>2, <1>3, <1>4, <1>5, <1>6 DEF SenderStep

\* Where a handled message leaves the writer: never with a line in hand, in the
\* middle of the flags, or ended.
LEMMA HandledPc ==
    ASSUME NEW date, Handled(date)
    PROVE  wpc' \in {"ready", "drain", "compress"}
BY DEF Handled, StartPass

\* The writer: what it takes it deals with, and the flag goes down only with a
\* look at the count after it.
LEMMA WriterInv ==
    ASSUME IndInv, WriterStep
    PROVE  IndInv'
<1> USE DEF IndInv
<1>1. CASE TakeLine
  <2> USE <1>1 DEF TakeLine, clockVars, flagVars, senderVars, passVars, shutVars, fileVars, historyVars
  <2>1. /\ queue' \in Seq(Lines) /\ Head(queue) \in Lines
        /\ Queued = (Queued' \cup {Head(queue).n}) \ {0}
    BY QueuedTail
  <2>2. CoreTyped'
    BY <2>1 DEF CoreTyped
  <2>3. Numbered'
    BY DEF Numbered, IsFlush, FlushMark, NoLine
  <2>4. UnseenDropIsFlagged'
    BY DEF UnseenDropIsFlagged, Up
  <2>5. Queued' \cup InHand' = Queued \cup InHand
    BY <2>1, <2>3 DEF InHand, Queued, Numbered
  <2>6. Accounted'
    BY <2>5 DEF Accounted, Up
  <2> QED BY <2>2, <2>3, <2>4, <2>6
<1>2. CASE TakeFlush
  <2> USE <1>2 DEF TakeFlush, clockVars, flagVars, senderVars, fileVars, historyVars
  <2>1. /\ queue' \in Seq(Lines)
        /\ Queued = (Queued' \cup {Head(queue).n}) \ {0}
    BY QueuedTail
  <2>2. wpc' \in {"ready", "drain", "compress"}
    BY HandledPc
  <2>3. CoreTyped'
    BY <2>1 DEF CoreTyped
  <2>4. Numbered'
    BY <2>2 DEF Numbered
  <2>5. UnseenDropIsFlagged'
    BY <2>2 DEF UnseenDropIsFlagged, Up
  <2>6. Queued' = Queued /\ InHand' = InHand
    BY <2>1, <2>2 DEF InHand, Queued, IsFlush, FlushMark, NoLine
  <2>7. Accounted'
    BY <2>2, <2>6 DEF Accounted, Up
  <2> QED BY <2>3, <2>4, <2>5, <2>7
<1>3. CASE AppendLine
  <2> USE <1>3 DEF AppendLine, clockVars, senderVars, passVars, shutVars
  <2>1. CoreTyped'
    BY DEF CoreTyped, NoLine, Lines
  <2>2. Numbered' /\ UnseenDropIsFlagged'
    BY DEF Numbered, UnseenDropIsFlagged, Up
  <2>3. Accounted'
    BY DEF Accounted, Up, InHand, Queued
  <2> QED BY <2>1, <2>2, <2>3
<1>4. CASE AppendFails
  <2> USE <1>4 DEF AppendFails, clockVars, senderVars, shutVars
  <2>1. wpc' \in {"ready", "drain", "compress"}
    BY HandledPc
  <2>2. CoreTyped'
    BY DEF CoreTyped, NoLine, Lines
  <2>3. Numbered' /\ UnseenDropIsFlagged'
    BY <2>1 DEF Numbered, UnseenDropIsFlagged, Up
  <2>4. Accounted'
    BY <2>1 DEF Accounted, Up, InHand, Queued
  <2> QED BY <2>2, <2>3, <2>4
<1>5. CASE LoadDrops
  <2> USE <1>5 DEF LoadDrops, clockVars, senderVars, shutVars, fileVars, historyVars
  <2>1. wpc' \in {"ready", "drain", "compress", "swap"} /\ (dropsSeen' = dropped \/ dropsSeen' = dropsSeen)
    BY HandledPc
  <2>2. CoreTyped'
    BY DEF CoreTyped
  <2>3. Numbered' /\ UnseenDropIsFlagged'
    BY <2>1 DEF Numbered, UnseenDropIsFlagged, Up
  <2>4. Accounted'
    BY <2>1 DEF Accounted, Up, InHand, Queued
  <2> QED BY <2>2, <2>3, <2>4
<1>6. CASE LowerDropping
  <2> USE <1>6 DEF LowerDropping, clockVars, senderVars, shutVars, fileVars, historyVars
  <2>1. wpc' \in {"ready", "drain", "compress", "reread"} /\ (dropping => wpc' = "reread")
    BY HandledPc
  <2>2. CoreTyped'
    BY DEF CoreTyped
  <2>3. Numbered' /\ UnseenDropIsFlagged'
    BY <2>1 DEF Numbered, UnseenDropIsFlagged, Up
  <2>4. Accounted'
    BY <2>1 DEF Accounted, Up, InHand, Queued
  <2> QED BY <2>2, <2>3, <2>4
<1>7. CASE RereadDrops
  <2> USE <1>7 DEF RereadDrops, clockVars, senderVars, shutVars, fileVars, historyVars
  <2>1. wpc' \in {"ready", "drain", "compress"}
    BY HandledPc
  <2>2. CoreTyped'
    BY DEF CoreTyped
  <2>3. Numbered' /\ UnseenDropIsFlagged'
    BY <2>1 DEF Numbered, UnseenDropIsFlagged, Up
  <2>4. Accounted'
    BY <2>1 DEF Accounted, Up, InHand, Queued
  <2> QED BY <2>2, <2>3, <2>4
<1>8. CASE Compress \/ RemovePlain \/ Drained \/ WriterEnds
  <2>1. /\ wpc \in {"compress", "renamed", "drain", "ready"}
        /\ wpc' \in {"renamed", "drain", "ready", "compress", "done"}
        /\ wpc' = "done" => queue = <<>>
        /\ UNCHANGED <<day, lines, queue, dropped, dropping, dropsSeen, spc, sline, wline, stop,
                       accepted, handled>>
    BY <1>8 DEF Compress, RemovePlain, Drained, WriterEnds, clockVars, flagVars, senderVars,
                passVars, shutVars, fileVars, historyVars
  <2>2. CoreTyped' /\ Numbered' /\ UnseenDropIsFlagged'
    BY <2>1 DEF CoreTyped, Numbered, UnseenDropIsFlagged, Up
  <2>3. Accounted'
    BY <2>1 DEF Accounted, Up, InHand, Queued
  <2> QED BY <2>2, <2>3
<1>9. CASE WriterPanics
  <2> USE <1>9 DEF WriterPanics, clockVars, flagVars, senderVars, passVars, fileVars, historyVars
  <2>1. CoreTyped'
    BY EmptySeq DEF CoreTyped
  <2>2. Numbered' /\ UnseenDropIsFlagged' /\ Accounted'
    BY DEF Numbered, UnseenDropIsFlagged, Accounted, Up
  <2> QED BY <2>1, <2>2
<1> QED BY <1>1, <1>2, <1>3, <1>4, <1>5, <1>6, <1>7, <1>8, <1>9 DEF WriterStep

\* The shutdown: it tells Flushed of a writer that ended.
LEMMA ShutdownInv ==
    ASSUME IndInv, ShutdownStep
    PROVE  IndInv'
<1> USE DEF IndInv
<1>1. CASE SendFlush
  <2> USE <1>1 DEF SendFlush, clockVars, flagVars, senderVars, writerVars, passVars, fileVars, historyVars
  <2>1. FlushMark \in Lines /\ FlushMark.n = 0
    BY DEF FlushMark, NoLine, Lines
  <2>2. queue' \in Seq(Lines) /\ Queued' = Queued
    BY <2>1, QueuedAppend DEF Queued
  <2>3. CoreTyped'
    BY <2>2 DEF CoreTyped
  <2>4. Numbered' /\ UnseenDropIsFlagged'
    BY DEF Numbered, UnseenDropIsFlagged, Up
  <2>5. Accounted'
    BY <2>2 DEF Accounted, Up, InHand, Gone
  <2> QED BY <2>3, <2>4, <2>5
<1>2. CASE Stop \/ Detach \/ FlushGivesUp \/ Join \/ LastLook \/ Abandon
  <2>1. /\ stop # "down" /\ stop' # "down" /\ (stop' = "Flushed" => wpc = "done")
        /\ UNCHANGED <<day, lines, queue, dropped, dropping, dropsSeen, spc, sline, wpc, wline,
                       accepted, handled>>
    BY <1>2 DEF Stop, Detach, FlushGivesUp, Join, LastLook, Abandon, clockVars, flagVars,
                senderVars, writerVars, passVars, shutVars, fileVars, historyVars
  <2>2. CoreTyped' /\ Numbered' /\ UnseenDropIsFlagged'
    BY <2>1 DEF CoreTyped, Numbered, UnseenDropIsFlagged, Up
  <2>3. Accounted'
    BY <2>1 DEF Accounted, Up, InHand, Queued
  <2> QED BY <2>2, <2>3
<1> QED BY <1>1, <1>2 DEF ShutdownStep

\* The calendar and the process: a death ends what the invariant says of the
\* memory, a boot starts it afresh.
LEMMA ProcessInv ==
    ASSUME IndInv, NewDay \/ Dies \/ Boot
    PROVE  IndInv'
<1> USE DEF IndInv
<1>1. CASE NewDay \/ Dies
  <2>1. /\ day' \in Int /\ (stop' = stop \/ stop' = "down")
        /\ UNCHANGED <<lines, queue, dropped, dropping, dropsSeen, spc, sline, wpc, wline,
                       accepted, handled>>
    BY <1>1 DEF NewDay, Dies, clockVars, flagVars, senderVars, writerVars, passVars, shutVars,
                fileVars, historyVars, CoreTyped
  <2>2. CoreTyped' /\ Numbered' /\ UnseenDropIsFlagged'
    BY <2>1 DEF CoreTyped, Numbered, UnseenDropIsFlagged, Up
  <2>3. Accounted'
    BY <2>1 DEF Accounted, Up, InHand, Queued
  <2> QED BY <2>2, <2>3
<1>2. CASE Boot
  <2> USE <1>2 DEF Boot
  <2>1. wpc' \in {"ready", "compress", "gone"} /\ queue' = <<>> /\ accepted' = {} /\ handled' = {}
    OBVIOUS
  <2>2. CoreTyped'
    <3>1. queue' \in Seq(Lines)
      BY <2>1, EmptySeq
    <3>2. NoLine \in Lines
      BY DEF NoLine, Lines
    <3> QED BY <3>1, <3>2 DEF CoreTyped
  <2>3. Numbered' /\ UnseenDropIsFlagged'
    BY <2>1 DEF Numbered, UnseenDropIsFlagged
  <2>4. Queued' = {} /\ InHand' = {}
    BY <2>1 DEF Queued, InHand
  <2>5. Accounted'
    BY <2>1, <2>4 DEF Accounted
  <2> QED BY <2>2, <2>3, <2>5
<1> QED BY <1>1, <1>2

\* A line queued is always somewhere: IndInv holds in every reachable state.
THEOREM UsageInvariant == Spec => []IndInv
<1>1. IndInv /\ UNCHANGED vars => IndInv'
  <2> SUFFICES ASSUME IndInv, UNCHANGED vars PROVE IndInv'
    OBVIOUS
  <2> USE DEF vars, clockVars, flagVars, senderVars, writerVars, passVars, shutVars, historyVars
  <2>1. CoreTyped' /\ Numbered' /\ UnseenDropIsFlagged'
    BY DEF IndInv, CoreTyped, Numbered, UnseenDropIsFlagged, Up
  <2>2. Accounted'
    BY DEF IndInv, Accounted, Up, InHand, Queued
  <2> QED BY <2>1, <2>2 DEF IndInv
<1>2. IndInv /\ [Next]_vars => IndInv'
  BY <1>1, SenderInv, WriterInv, ShutdownInv, ProcessInv DEF Next
<1> QED BY InitInv, <1>2, PTL DEF Spec

\* note_drop_episode loses no drop: for any number of requests, and whatever the
\* order of the threads, a drop the writer has not seen past leaves the flag up.
THEOREM DropsAreFlagged == Spec => []UnseenDropIsFlagged
<1>1. IndInv => UnseenDropIsFlagged
  BY DEF IndInv
<1> QED BY <1>1, UsageInvariant, PTL

\* shutdown_ledger tells the truth: Flushed means that every line this process
\* queued was dealt with, for any depth of the queue.
THEOREM FlushedTellsTheTruth == Spec => []FlushedMeansHandled
<1>1. IndInv => FlushedMeansHandled
  <2> SUFFICES ASSUME IndInv, stop = "Flushed" PROVE accepted = handled /\ queue = <<>>
    BY DEF FlushedMeansHandled
  <2>1. wpc = "done" /\ queue = <<>> /\ accepted = handled \cup Queued \cup InHand
    BY DEF IndInv, Accounted, Up
  <2>2. Queued = {} /\ InHand = {}
    BY <2>1 DEF Queued, InHand
  <2> QED BY <2>1, <2>2
<1> QED BY <1>1, UsageInvariant, PTL

-----------------------------------------------------------------------------
(***************************************************************************)
(* The files.  A compressed day takes no more lines: every line on its way *)
(* is of a day the passes have not reached, because the queue keeps the    *)
(* order of the calendar but for one midnight.                             *)
(***************************************************************************)

\* A message on its way to a file, whose day is not before d's yesterday.
Follows(message, d) == IsFlush(message) \/ d <= message.day + 1

Contents == Seq(Nat)

\* The types of the days and of the files.
DaysTyped ==
    /\ day \in Days /\ compressedFor \in Days /\ opened \in Days \cup {NoDay}
    /\ todo \subseteq Days
    /\ plain \in [Days -> Contents] /\ gz \in [Days -> Contents] /\ log \in [Days -> Contents]

\* A line is of a day that has begun, and one a request still has to queue is of
\* today or yesterday.
InCalendar ==
    /\ compressedFor <= day /\ opened <= day
    /\ \A i \in DOMAIN queue : queue[i].day \in Days /\ queue[i].day <= day
    /\ wline.day \in Days /\ wline.day <= day
    /\ \A s \in Senders : sline[s].day \in Days
    /\ Up => \A s \in Senders : spc[s] = "built" => sline[s].day <= day /\ day <= sline[s].day + 1

\* What the writer has still to write follows what it wrote and what it compressed.
InOrder ==
    /\ \A i, j \in DOMAIN queue : i < j /\ ~IsFlush(queue[i]) => Follows(queue[j], queue[i].day)
    /\ \A i \in DOMAIN queue : Follows(queue[i], opened) /\ Follows(queue[i], compressedFor)
    /\ wpc = "held" =>
        /\ opened <= wline.day + 1 /\ compressedFor <= wline.day + 1
        /\ \A i \in DOMAIN queue : Follows(queue[i], wline.day)

\* A day of the pass, or one already compressed, is closed for the pass's date.
PassClosed ==
    /\ \A d \in todo : d < compressedFor - 1
    /\ \A d \in Days : gz[d] # <<>> => d < compressedFor - 1
    /\ wpc \in {"compress", "renamed"} => todo # {}
    /\ wpc = "renamed" => log[Min(todo)] = gz[Min(todo)]

\* The log of a day is its plain file, or its .gz beside nothing or a copy.
Filed ==
    \A d \in Days : \/ gz[d] = <<>> /\ log[d] = plain[d]
                    \/ log[d] = gz[d] /\ plain[d] \in {<<>>, gz[d]}

FileInv == DaysTyped /\ InCalendar /\ InOrder /\ PassClosed /\ Filed

\* The oldest day of a pass is one of it.
LEMMA OldestOfPass ==
    ASSUME NEW D \in SUBSET Days, D # {}
    PROVE  Min(D) \in D
<1> DEFINE Before(d) == {e \in Days : e < d}
           T == {Before(d) : d \in D}
           R == StrictSubsetOrdering(Days)
<1>1. IsWellFoundedOn(R, SUBSET Days)
  <2>1. IsFiniteSet(Days)
    BY UsageAssumption, FS_Interval DEF Days
  <2>2. FiniteSubsetsOf(Days) = SUBSET Days
    BY <2>1, FS_FiniteSubsetsOfFinite
  <2> QED BY <2>2, FS_StrictSubsetOrderingWellFounded
<1>2. T \subseteq SUBSET Days /\ T # {}
  OBVIOUS
<1> HIDE DEF T, R
<1>3. PICK t \in T : \A u \in T : ~(<<u, t>> \in R)
  BY <1>1, <1>2, WFMin
<1>4. PICK d \in D : t = Before(d)
  BY DEF T
<1>5. ASSUME NEW e \in D, e < d PROVE FALSE
  <2>1. d \in Int /\ e \in Int /\ e \in Days /\ \A f \in Days : f \in Int
    BY UsageAssumption DEF Days
  <2>2. Before(e) \subseteq Before(d)
    <3> SUFFICES ASSUME NEW f \in Days, f < e PROVE f < d
      OBVIOUS
    <3> QED BY <1>5, <2>1
  <2>3. e \in Before(d) /\ e \notin Before(e)
    BY <1>5, <2>1
  <2>4. Before(e) \in T
    BY DEF T
  <2>5. <<Before(e), t>> \in R
    BY <1>4, <2>2, <2>3 DEF R, StrictSubsetOrdering
  <2> QED BY <1>3, <2>4, <2>5
<1>6. \A e \in D : d <= e
  <2>1. \A e \in D : e \in Int /\ d \in Int
    BY UsageAssumption DEF Days
  <2> QED BY <1>5, <2>1
<1> QED BY <1>6 DEF Min

\* Every file has itself and the empty file as suffixes.
LEMMA SuffixOfFile ==
    ASSUME NEW f \in Contents, NEW p \in {<<>>, f}
    PROVE  IsSuffix(p, f)
<1>1. /\ Len(f) \in Nat /\ \A i \in 1..Len(f) : Len(f) - i + 1 \in 1..Len(f)
  BY LenProperties DEF Contents
<1>2. Reverse(f) \in Seq(Nat) /\ Len(Reverse(f)) = Len(f)
  <2>1. \A i \in 1..Len(f) : f[Len(f) - i + 1] \in Nat
    BY <1>1, ElementOfSeq DEF Contents
  <2>2. Reverse(f) \in [1..Len(f) -> Nat]
    BY <2>1 DEF Reverse
  <2> QED BY <1>1, <2>2, IsASeq, LenProperties
<1>3. CASE p = f
  BY <1>1, <1>2, <1>3 DEF IsSuffix, IsPrefix
<1>4. CASE p = <<>>
  <2>1. Reverse(p) = <<>>
    BY <1>4 DEF Reverse
  <2>2. Len(Reverse(p)) = 0
    BY <2>1
  <2>3. SubSeq(Reverse(p), 1, 0) = <<>> /\ SubSeq(Reverse(f), 1, 0) = <<>>
    BY <2>1, <1>2, SubSeqEmpty
  <2> QED BY <1>1, <1>2, <2>2, <2>3 DEF IsSuffix, IsPrefix
<1> QED BY <1>3, <1>4

\* What the files hold is what a reader sees.
LEMMA FiledIsRead ==
    ASSUME DaysTyped, Filed
    PROVE  ReadsEachLineOnce
<1> SUFFICES ASSUME NEW d \in Days PROVE ReadLedgerDay(d) = log[d]
  BY DEF ReadsEachLineOnce
<1>1. gz[d] \in Seq(Nat) /\ plain[d] \in Seq(Nat)
  BY DEF DaysTyped, Contents
<1>2. CASE gz[d] = <<>> /\ log[d] = plain[d]
  <2>1. gz[d] \o plain[d] = plain[d]
    BY <1>1, <1>2, ConcatEmptySeq
  <2> QED BY <1>2, <2>1 DEF ReadLedgerDay, Leftover
<1>3. CASE log[d] = gz[d] /\ plain[d] \in {<<>>, gz[d]}
  <2>1. IsSuffix(plain[d], gz[d])
    BY <1>1, <1>3, SuffixOfFile DEF Contents
  <2>2. CASE gz[d] = <<>>
    <3>1. gz[d] \o plain[d] = gz[d]
      BY <1>1, <1>3, <2>2, ConcatEmptySeq
    <3> QED BY <1>3, <3>1 DEF ReadLedgerDay, Leftover
  <2>3. CASE gz[d] # <<>>
    BY <1>3, <2>1, <2>3 DEF ReadLedgerDay, Leftover
  <2> QED BY <2>2, <2>3
<1> QED BY <1>2, <1>3 DEF Filed

-----------------------------------------------------------------------------
(***************************************************************************)
(* What the parts of a step leave of the invariant of the files.           *)
(***************************************************************************)

\* Messages that were k places further back are in the same order, of the days
\* they were of.
LEMMA QueueAdvances ==
    ASSUME CoreTyped, InCalendar, InOrder, NEW k \in {0, 1}, DOMAIN queue' \subseteq Int,
           \A i \in DOMAIN queue' : i + k \in DOMAIN queue /\ queue'[i] = queue[i + k]
    PROVE  /\ \A i, j \in DOMAIN queue' :
                i < j /\ ~IsFlush(queue'[i]) => Follows(queue'[j], queue'[i].day)
           /\ \A i \in DOMAIN queue' : queue'[i].day \in Days /\ queue'[i].day <= day
           /\ \A d : (\A i \in DOMAIN queue : Follows(queue[i], d))
                        => \A i \in DOMAIN queue' : Follows(queue'[i], d)
<1>1. \A i, j \in DOMAIN queue' : i < j => i + k < j + k
  OBVIOUS
<1>2. ASSUME NEW i \in DOMAIN queue', NEW j \in DOMAIN queue', i < j, ~IsFlush(queue'[i])
      PROVE  Follows(queue'[j], queue'[i].day)
  BY <1>1, <1>2 DEF InOrder
<1>3. \A i \in DOMAIN queue' : queue'[i].day \in Days /\ queue'[i].day <= day
  BY DEF InCalendar
<1>4. \A d : (\A i \in DOMAIN queue : Follows(queue[i], d))
                => \A i \in DOMAIN queue' : Follows(queue'[i], d)
  OBVIOUS
<1> QED BY <1>2, <1>3, <1>4

\* A message taken off the front.
LEMMA TailAdvances ==
    ASSUME CoreTyped, queue # <<>>, queue' = Tail(queue)
    PROVE  /\ DOMAIN queue' \subseteq Int /\ 1 \in DOMAIN queue /\ Head(queue) = queue[1]
           /\ \A i \in DOMAIN queue' : i + 1 \in DOMAIN queue /\ queue'[i] = queue[i + 1] /\ 1 < i + 1
<1>1. /\ Head(queue) = queue[1]
      /\ Tail(queue) \in Seq(Lines)
      /\ Len(Tail(queue)) = Len(queue) - 1
      /\ \A i \in 1..Len(Tail(queue)) : Tail(queue)[i] = queue[i + 1]
  BY HeadTailProperties DEF CoreTyped
<1>2. Len(queue) \in Nat \ {0} /\ DOMAIN queue = 1..Len(queue)
  BY LenProperties, EmptySeq DEF CoreTyped
<1>3. DOMAIN queue' = 1..(Len(queue) - 1)
  BY <1>1, LenProperties
<1> QED BY <1>1, <1>2, <1>3

\* A message put at the back.
LEMMA AppendAtBack ==
    ASSUME CoreTyped, NEW x \in Lines, queue' = Append(queue, x)
    PROVE  \A i \in DOMAIN queue' :
             /\ \/ i \in DOMAIN queue /\ queue'[i] = queue[i]
                \/ queue'[i] = x
             /\ \A j \in DOMAIN queue' : i < j => i \in DOMAIN queue /\ queue'[i] = queue[i]
<1>1. /\ Append(queue, x) \in Seq(Lines)
      /\ Len(Append(queue, x)) = Len(queue) + 1
      /\ \A i \in 1..Len(queue) : Append(queue, x)[i] = queue[i]
      /\ Append(queue, x)[Len(queue) + 1] = x
  BY AppendProperties DEF CoreTyped
<1>2. Len(queue) \in Nat /\ DOMAIN queue = 1..Len(queue)
  BY LenProperties DEF CoreTyped
<1>3. DOMAIN queue' = 1..(Len(queue) + 1)
  BY <1>1, LenProperties
<1>4. \A i \in DOMAIN queue' : i \in Int /\ (i \in DOMAIN queue \/ i = Len(queue) + 1)
  BY <1>2, <1>3
<1>5. \A i, j \in DOMAIN queue' : i < j => i \in DOMAIN queue
  BY <1>2, <1>3
<1> QED BY <1>1, <1>2, <1>4, <1>5

\* A step that is about none of the files, the queue and the pass.
LEMMA QuietFiles ==
    ASSUME FileInv,
           UNCHANGED <<day, queue, opened, compressedFor, todo, plain, gz, log>>,
           wline' \in {wline, NoLine},
           wpc' = "held" => wpc = "held" /\ wline' = wline,
           wpc' \in {"compress", "renamed"} => todo # {},
           wpc' = "renamed" => wpc = "renamed",
           \A s \in Senders : sline'[s].day \in Days,
           Up' => \A s \in Senders :
                    spc'[s] = "built" => sline'[s].day <= day /\ day <= sline'[s].day + 1
    PROVE  FileInv'
<1>1. DaysTyped' /\ Filed' /\ PassClosed'
  BY DEF FileInv, DaysTyped, Filed, PassClosed
<1>2. NoLine.day \in Days /\ NoLine.day <= day
  BY UsageAssumption DEF FileInv, DaysTyped, NoLine, Days
<1>3. InCalendar'
  BY <1>2 DEF FileInv, InCalendar
<1>4. InOrder'
  BY DEF FileInv, InOrder, Follows, IsFlush
<1> QED BY <1>1, <1>3, <1>4 DEF FileInv

\* Where a handled message leaves the pass: at a date that what is left follows.
LEMMA HandledPass ==
    ASSUME FileInv, NEW date \in Days \cup {NoDay}, Handled(date), date <= day
    PROVE  /\ compressedFor' \in {compressedFor, date} /\ compressedFor' \in Days
           /\ compressedFor <= compressedFor' /\ compressedFor' <= day
           /\ todo' \subseteq Days /\ \A d \in todo' : d < compressedFor' - 1
           /\ wpc' \in {"ready", "drain", "compress"} /\ (wpc' = "compress" => todo' # {})
<1>0. compressedFor \in Int /\ date \in Int /\ compressedFor >= 0
  BY UsageAssumption DEF FileInv, DaysTyped, Days, NoDay
<1>1. CASE pass
  <2>1. wpc' = "drain" /\ compressedFor' = compressedFor /\ todo' = todo
    BY <1>1 DEF Handled, passVars
  <2> QED BY <1>0, <2>1 DEF FileInv, DaysTyped, InCalendar, PassClosed
<1>2. CASE ~pass /\ date > compressedFor
  <2>1. date \in Days
    BY <1>0, <1>2 DEF NoDay
  <2>2. StartPass(date)
    BY <1>2 DEF Handled
  <2>3. compressedFor' = date /\ todo' = Closed(date)
    BY <2>2 DEF StartPass
  <2>4. wpc' \in {"ready", "compress"} /\ (wpc' = "compress" => todo' # {})
    BY <2>2 DEF StartPass
  <2> QED BY <1>0, <1>2, <2>1, <2>3, <2>4 DEF Closed
<1>3. CASE ~pass /\ ~(date > compressedFor)
  <2>1. wpc' = "ready" /\ compressedFor' = compressedFor /\ todo' = todo
    BY <1>3 DEF Handled, passVars
  <2> QED BY <1>0, <2>1 DEF FileInv, DaysTyped, InCalendar, PassClosed
<1> QED BY <1>1, <1>2, <1>3

\* The files of a step that only moves the pass on.
LEMMA PassMoves ==
    ASSUME FileInv, UNCHANGED <<day, plain, gz, log>>,
           opened' \in Days \cup {NoDay}, compressedFor' \in Days, compressedFor <= compressedFor',
           todo' \subseteq Days, \A d \in todo' : d < compressedFor' - 1,
           wpc' \in {"ready", "drain", "compress"}, wpc' = "compress" => todo' # {}
    PROVE  DaysTyped' /\ Filed' /\ PassClosed'
<1>1. DaysTyped' /\ Filed'
  BY DEF FileInv, DaysTyped, Filed
<1>2. \A d \in Days : gz'[d] # <<>> => d < compressedFor' - 1
  <2>1. \A d \in Days : d \in Int
    BY UsageAssumption DEF Days
  <2> QED BY <2>1 DEF FileInv, PassClosed, DaysTyped
<1> QED BY <1>1, <1>2 DEF PassClosed

\* A write to a day that is not compressed: its plain file is its log.
LEMMA WriteKept ==
    ASSUME FileInv, NEW d \in Days, NEW n \in Nat, compressedFor <= d + 1,
           plain' = Appended(plain, d, n), log' = Appended(log, d, n), gz' = gz
    PROVE  /\ plain' \in [Days -> Contents] /\ log' \in [Days -> Contents]
           /\ Filed' /\ \A c \in todo : log'[c] = log[c]
<1>1. d \in Int /\ compressedFor \in Int /\ \A c \in Days : c \in Int
  BY UsageAssumption DEF FileInv, DaysTyped, Days
<1>2. gz[d] = <<>> /\ d \notin todo
  BY <1>1 DEF FileInv, PassClosed
<1>3. log[d] = plain[d]
  BY <1>2 DEF FileInv, Filed
<1>4. plain[d] \in Seq(Nat) /\ Append(plain[d], n) \in Contents
  BY AppendProperties DEF FileInv, DaysTyped, Contents
<1>5. /\ plain' \in [Days -> Contents] /\ log' \in [Days -> Contents]
      /\ plain'[d] = log'[d]
      /\ \A c \in Days \ {d} : plain'[c] = plain[c] /\ log'[c] = log[c]
  BY <1>3, <1>4 DEF FileInv, DaysTyped, Appended
<1>6. Filed'
  BY <1>2, <1>5 DEF FileInv, Filed
<1> QED BY <1>2, <1>5, <1>6 DEF FileInv, DaysTyped

-----------------------------------------------------------------------------

\* The request path puts a line of today or yesterday behind lines of days that
\* have begun.
LEMMA SenderFiles ==
    ASSUME IndInv, FileInv, NEW s \in Senders, SenderStep(s)
    PROVE  FileInv'
<1>1. CoreTyped /\ DaysTyped /\ InCalendar /\ InOrder
  BY DEF IndInv, FileInv
<1>2. NoLine.day \in Days
  BY UsageAssumption DEF NoLine, Days
<1>3. CASE Queue(s)
  <2> USE <1>3 DEF Queue, Recorded, clockVars, flagVars, writerVars, passVars, shutVars, fileVars
  <2>1. DaysTyped' /\ Filed' /\ PassClosed'
    BY DEF FileInv, DaysTyped, Filed, PassClosed
  <2>2. sline[s] \in Lines /\ sline[s].day \in Days /\ sline[s].day <= day /\ day <= sline[s].day + 1
    BY <1>1 DEF CoreTyped, InCalendar
  <2>3. \A i \in DOMAIN queue' :
          /\ \/ i \in DOMAIN queue /\ queue'[i] = queue[i]
             \/ queue'[i] = sline[s]
          /\ \A j \in DOMAIN queue' : i < j => i \in DOMAIN queue /\ queue'[i] = queue[i]
    BY <1>1, <2>2, AppendAtBack
  <2>4. InCalendar'
    BY <1>1, <1>2, <2>2, <2>3 DEF InCalendar, CoreTyped, Up
  <2>5. \A d \in Days \cup {NoDay} : d <= day => Follows(sline[s], d)
    <3>1. day \in Int /\ sline[s].day \in Int /\ \A d \in Days \cup {NoDay} : d \in Int
      BY <1>1, <2>2, UsageAssumption DEF DaysTyped, Days, NoDay
    <3>2. \A d \in Days \cup {NoDay} : d <= day => d <= sline[s].day + 1
      <4> HIDE <1>3
      <4> QED BY <2>2, <3>1
    <3> QED BY <3>2 DEF Follows
  <2>6. \A i \in DOMAIN queue : Follows(sline[s], queue[i].day)
    BY <1>1, <2>5 DEF InCalendar
  <2>7. Follows(sline[s], opened) /\ Follows(sline[s], compressedFor) /\ Follows(sline[s], wline.day)
    BY <1>1, <2>5 DEF InCalendar, DaysTyped
  <2>8. InOrder'
    <3>1. \A i, j \in DOMAIN queue' : i < j /\ ~IsFlush(queue'[i]) => Follows(queue'[j], queue'[i].day)
      BY <1>1, <2>3, <2>6 DEF InOrder
    <3>2. \A i \in DOMAIN queue' : Follows(queue'[i], opened) /\ Follows(queue'[i], compressedFor)
      BY <1>1, <2>3, <2>7 DEF InOrder
    <3>3. wpc = "held" => \A i \in DOMAIN queue' : Follows(queue'[i], wline.day)
      BY <1>1, <2>3, <2>7 DEF InOrder
    <3>4. /\ wpc' = wpc /\ opened' = opened /\ compressedFor' = compressedFor /\ wline' = wline
      OBVIOUS
    <3> HIDE <1>3
    <3> QED BY <1>1, <3>1, <3>2, <3>3, <3>4 DEF InOrder, Follows, IsFlush
  <2> QED BY <2>1, <2>4, <2>8 DEF FileInv
<1>4. CASE Record(s)
  <2> USE <1>4 DEF Record, clockVars, flagVars, writerVars, passVars, shutVars, fileVars
  <2>1. /\ UNCHANGED <<day, queue, opened, compressedFor, todo, plain, gz, log, wline, wpc, stop>>
        /\ sline'[s].day = day
        /\ \A r \in Senders \ {s} : sline'[r] = sline[r] /\ spc'[r] = spc[r]
    BY <1>1 DEF CoreTyped
  <2>2. day \in Int
    BY <1>1, UsageAssumption DEF DaysTyped, Days
  <2> HIDE <1>4
  <2>3. \A r \in Senders : sline'[r].day \in Days
    BY <1>1, <2>1 DEF InCalendar, DaysTyped
  <2>4. Up' => \A r \in Senders :
                 spc'[r] = "built" => sline'[r].day <= day /\ day <= sline'[r].day + 1
    BY <1>1, <2>1, <2>2 DEF InCalendar, Up
  <2> QED BY <2>1, <2>3, <2>4, QuietFiles DEF FileInv, PassClosed
<1>5. CASE RecordDetached(s) \/ QueueFails(s) \/ CountDrop(s) \/ RaiseDropping(s)
  <2>1. /\ UNCHANGED <<day, queue, opened, compressedFor, todo, plain, gz, log, wline, wpc, stop>>
        /\ spc'[s] # "built" /\ sline'[s] \in {sline[s], NoLine}
        /\ \A r \in Senders \ {s} : sline'[r] = sline[r] /\ spc'[r] = spc[r]
    BY <1>1, <1>5 DEF RecordDetached, QueueFails, CountDrop, RaiseDropping, Recorded, clockVars,
                      flagVars, writerVars, passVars, shutVars, fileVars, CoreTyped
  <2>2. \A r \in Senders : sline'[r].day \in Days
    BY <1>1, <1>2, <2>1 DEF InCalendar
  <2>3. Up' => \A r \in Senders :
                 spc'[r] = "built" => sline'[r].day <= day /\ day <= sline'[r].day + 1
    BY <1>1, <2>1 DEF InCalendar, Up
  <2> QED BY <2>1, <2>2, <2>3, QuietFiles DEF FileInv, PassClosed
<1> QED BY <1>3, <1>4, <1>5 DEF SenderStep

\* The writer takes lines in order and leaves the flags and the pass behind it.
LEMMA TakerFiles ==
    ASSUME IndInv, FileInv, TakeLine \/ TakeFlush
    PROVE  FileInv'
<1>1. CoreTyped /\ DaysTyped /\ InCalendar /\ InOrder /\ PassClosed
  BY DEF IndInv, FileInv
<1>2. /\ queue # <<>> /\ queue' = Tail(queue) /\ Up
      /\ UNCHANGED <<day, opened, spc, sline, plain, gz, log>>
  BY DEF TakeLine, TakeFlush, clockVars, senderVars, fileVars
<1>3. /\ DOMAIN queue' \subseteq Int /\ 1 \in DOMAIN queue /\ Head(queue) = queue[1]
      /\ \A i \in DOMAIN queue' : i + 1 \in DOMAIN queue /\ queue'[i] = queue[i + 1] /\ 1 < i + 1
  BY <1>1, <1>2, TailAdvances
<1>4. /\ \A i, j \in DOMAIN queue' :
           i < j /\ ~IsFlush(queue'[i]) => Follows(queue'[j], queue'[i].day)
      /\ \A i \in DOMAIN queue' : queue'[i].day \in Days /\ queue'[i].day <= day
      /\ \A d : (\A i \in DOMAIN queue : Follows(queue[i], d))
                   => \A i \in DOMAIN queue' : Follows(queue'[i], d)
  BY <1>1, <1>3, QueueAdvances
<1>5. /\ \A i \in DOMAIN queue' : Follows(queue'[i], opened)
      /\ \A i \in DOMAIN queue' : Follows(queue'[i], compressedFor)
  BY <1>1, <1>4 DEF InOrder
<1>6. CASE TakeLine
  <2>1. /\ wline' = queue[1] /\ wpc' = "held" /\ ~IsFlush(queue[1])
        /\ UNCHANGED <<compressedFor, todo, stop>>
    BY <1>3, <1>6 DEF TakeLine, passVars, shutVars
  <2>2. DaysTyped' /\ Filed' /\ PassClosed'
    BY <1>2, <2>1 DEF FileInv, DaysTyped, Filed, PassClosed
  <2>3. InCalendar'
    BY <1>1, <1>2, <1>3, <1>4, <2>1 DEF InCalendar, Up
  <2>4. \A i \in DOMAIN queue' : Follows(queue'[i], queue[1].day)
    BY <1>1, <1>3, <2>1 DEF InOrder
  <2>5. opened <= queue[1].day + 1 /\ compressedFor <= queue[1].day + 1
    BY <1>1, <1>3, <2>1 DEF InOrder, Follows
  <2>6. InOrder'
    BY <1>2, <1>4, <1>5, <2>1, <2>4, <2>5 DEF InOrder, Follows, IsFlush
  <2> QED BY <2>2, <2>3, <2>6 DEF FileInv
<1>7. CASE TakeFlush
  <2>1. Handled(opened) /\ wline' = wline /\ stop' # "down"
    BY <1>2, <1>7 DEF TakeFlush, Up
  <2>2. opened \in Days \cup {NoDay} /\ opened <= day
    BY <1>1 DEF DaysTyped, InCalendar
  <2>3. /\ compressedFor' \in {compressedFor, opened} /\ compressedFor' \in Days
        /\ compressedFor <= compressedFor' /\ compressedFor' <= day
        /\ todo' \subseteq Days /\ \A d \in todo' : d < compressedFor' - 1
        /\ wpc' \in {"ready", "drain", "compress"} /\ (wpc' = "compress" => todo' # {})
    BY <2>1, <2>2, HandledPass
  <2>4. DaysTyped' /\ Filed' /\ PassClosed'
    BY <1>2, <2>2, <2>3, PassMoves
  <2>5. InCalendar'
    BY <1>1, <1>2, <1>4, <2>1, <2>3 DEF InCalendar, Up
  <2>6. InOrder'
    BY <1>2, <1>4, <1>5, <2>3 DEF InOrder, Follows, IsFlush
  <2> QED BY <2>4, <2>5, <2>6 DEF FileInv
<1> QED BY <1>6, <1>7

\* It writes to a day the passes have not reached.
LEMMA AppendFiles ==
    ASSUME IndInv, FileInv, AppendLine \/ AppendFails
    PROVE  FileInv'
<1>1. CoreTyped /\ DaysTyped /\ InCalendar /\ InOrder /\ PassClosed
  BY DEF IndInv, FileInv
<1>2. /\ wpc = "held" /\ wline' = NoLine /\ UNCHANGED <<day, queue, spc, sline, stop, gz>>
  BY DEF AppendLine, AppendFails, clockVars, senderVars, shutVars
<1>3. /\ wline.day \in Days /\ wline.day <= day /\ wline.n \in Nat /\ 0 \in Nat
      /\ compressedFor <= wline.day + 1
      /\ \A i \in DOMAIN queue : Follows(queue[i], wline.day)
  BY <1>1, <1>2 DEF CoreTyped, InCalendar, InOrder, Lines
<1>4. NoLine.day \in Days /\ NoLine.day <= day
  BY <1>1, UsageAssumption DEF DaysTyped, NoLine, Days
<1>5. ASSUME wpc' # "held", opened' \in {opened, wline.day},
             compressedFor' \in {compressedFor, opened'}, compressedFor' <= day
      PROVE  InCalendar' /\ InOrder'
  <2>1. InCalendar'
    BY <1>1, <1>2, <1>3, <1>4, <1>5 DEF InCalendar, Up
  <2>2. \A i \in DOMAIN queue : Follows(queue[i], opened') /\ Follows(queue[i], compressedFor')
    BY <1>1, <1>3, <1>5 DEF InOrder
  <2>3. InOrder'
    BY <1>1, <1>2, <1>5, <2>2 DEF InOrder, Follows, IsFlush
  <2> QED BY <2>1, <2>3
<1>6. CASE AppendLine
  <2>1. /\ opened' = wline.day /\ wpc' = "wrote" /\ UNCHANGED <<compressedFor, todo>>
        /\ plain' = Appended(plain, wline.day, wline.n) /\ log' = Appended(log, wline.day, wline.n)
    BY <1>6 DEF AppendLine, passVars
  <2>2. /\ plain' \in [Days -> Contents] /\ log' \in [Days -> Contents]
        /\ Filed' /\ \A c \in todo : log'[c] = log[c]
    BY <1>2, <1>3, <2>1, WriteKept
  <2>3. DaysTyped' /\ PassClosed'
    BY <1>1, <1>2, <1>3, <2>1, <2>2 DEF DaysTyped, PassClosed
  <2>4. InCalendar' /\ InOrder'
    BY <1>1, <1>5, <2>1 DEF InCalendar
  <2> QED BY <2>2, <2>3, <2>4 DEF FileInv
<1>7. CASE AppendFails
  <2>1. opened' \in {opened, wline.day} /\ Handled(opened')
    BY <1>7 DEF AppendFails
  <2>2. opened' \in Days \cup {NoDay} /\ opened' <= day
    BY <1>1, <1>3, <2>1 DEF DaysTyped, InCalendar
  <2>3. /\ compressedFor' \in {compressedFor, opened'} /\ compressedFor' \in Days
        /\ compressedFor <= compressedFor' /\ compressedFor' <= day
        /\ todo' \subseteq Days /\ \A d \in todo' : d < compressedFor' - 1
        /\ wpc' \in {"ready", "drain", "compress"} /\ (wpc' = "compress" => todo' # {})
    BY <2>1, <2>2, HandledPass
  <2>4. InCalendar' /\ InOrder'
    BY <1>5, <2>1, <2>3
  <2>5. CASE UNCHANGED <<plain, log>>
    BY <1>2, <2>2, <2>3, <2>4, <2>5, PassMoves DEF FileInv
  <2>6. CASE plain' = Appended(plain, wline.day, 0) /\ log' = Appended(log, wline.day, 0)
    <3>1. plain' \in [Days -> Contents] /\ log' \in [Days -> Contents] /\ Filed'
      BY <1>2, <1>3, <2>6, WriteKept
    <3>2. DaysTyped'
      BY <1>1, <1>2, <2>2, <2>3, <3>1 DEF DaysTyped
    <3>3. \A d \in Days : gz'[d] # <<>> => d < compressedFor' - 1
      <4>1. \A d \in Days : d \in Int
        BY UsageAssumption DEF Days
      <4> QED BY <1>1, <1>2, <2>3, <4>1 DEF PassClosed, DaysTyped
    <3>4. PassClosed'
      BY <2>3, <3>3 DEF PassClosed
    <3> QED BY <2>4, <3>1, <3>2, <3>4 DEF FileInv
  <2> QED BY <1>7, <2>5, <2>6 DEF AppendFails
<1> QED BY <1>6, <1>7

\* The flags, and the ends of the writer.
LEMMA FlagFiles ==
    ASSUME IndInv, FileInv,
           LoadDrops \/ LowerDropping \/ RereadDrops \/ Drained \/ WriterEnds \/ WriterPanics
    PROVE  FileInv'
<1>1. CoreTyped /\ DaysTyped /\ InCalendar /\ InOrder /\ PassClosed
  BY DEF IndInv, FileInv
<1>2. /\ UNCHANGED <<day, opened, wline, spc, sline, plain, gz, log>> /\ (Up' => Up)
  BY DEF LoadDrops, LowerDropping, RereadDrops, Drained, WriterEnds, WriterPanics, clockVars,
         senderVars, fileVars, shutVars, Up
<1>3. /\ \A s \in Senders : sline'[s].day \in Days
      /\ Up' => \A s \in Senders :
                  spc'[s] = "built" => sline'[s].day <= day /\ day <= sline'[s].day + 1
  BY <1>1, <1>2 DEF InCalendar
<1>4. CASE Handled(opened) /\ queue' = queue
  <2>1. opened \in Days \cup {NoDay} /\ opened <= day
    BY <1>1 DEF DaysTyped, InCalendar
  <2>2. /\ compressedFor' \in {compressedFor, opened} /\ compressedFor' \in Days
        /\ compressedFor <= compressedFor' /\ compressedFor' <= day
        /\ todo' \subseteq Days /\ \A d \in todo' : d < compressedFor' - 1
        /\ wpc' \in {"ready", "drain", "compress"} /\ (wpc' = "compress" => todo' # {})
    BY <1>4, <2>1, HandledPass
  <2>3. DaysTyped' /\ Filed' /\ PassClosed'
    BY <1>2, <2>1, <2>2, PassMoves
  <2>4. InCalendar'
    BY <1>1, <1>2, <1>3, <1>4, <2>2 DEF InCalendar
  <2>5. InOrder'
    BY <1>1, <1>2, <1>4, <2>2 DEF InOrder, Follows, IsFlush
  <2> QED BY <2>3, <2>4, <2>5 DEF FileInv
<1>5. CASE /\ UNCHANGED <<queue, compressedFor, todo>>
           /\ wpc' \in {"swap", "reread", "ready", "compress", "done"}
           /\ wpc' = "compress" => todo # {}
  BY <1>2, <1>3, <1>5, QuietFiles
<1>6. CASE WriterPanics
  <2>1. queue' = <<>> /\ wpc' = "gone" /\ UNCHANGED <<compressedFor, todo>>
    BY <1>6 DEF WriterPanics, passVars
  <2>2. DaysTyped' /\ Filed' /\ PassClosed'
    BY <1>2, <2>1 DEF FileInv, DaysTyped, Filed, PassClosed
  <2>3. DOMAIN queue' = {}
    BY <2>1
  <2>4. InCalendar'
    BY <1>1, <1>2, <1>3, <2>1, <2>3 DEF InCalendar
  <2>5. InOrder'
    BY <2>1, <2>3 DEF InOrder
  <2> QED BY <2>2, <2>4, <2>5 DEF FileInv
<1>7. CASE LoadDrops
  BY <1>4, <1>5, <1>7 DEF LoadDrops, passVars
<1>8. CASE LowerDropping
  BY <1>4, <1>5, <1>8 DEF LowerDropping, passVars
<1>9. CASE RereadDrops
  BY <1>4, <1>9 DEF RereadDrops
<1>10. CASE Drained
  BY <1>5, <1>10 DEF Drained
<1>11. CASE WriterEnds
  BY <1>5, <1>11 DEF WriterEnds, passVars
<1> QED BY <1>6, <1>7, <1>8, <1>9, <1>10, <1>11

\* A compression puts a copy beside the plain file, and only then removes it.
LEMMA CompressFiles ==
    ASSUME IndInv, FileInv, Compress \/ RemovePlain
    PROVE  FileInv'
<1> DEFINE d == Min(todo)
<1>1. CoreTyped /\ DaysTyped /\ InCalendar /\ InOrder /\ PassClosed
  BY DEF IndInv, FileInv
<1>2. /\ wpc \in {"compress", "renamed"} /\ wpc' \in {"renamed", "drain"}
      /\ todo' \in {todo, todo \ {d}}
      /\ UNCHANGED <<day, queue, opened, compressedFor, wline, spc, sline, log, stop>>
  BY DEF Compress, RemovePlain, clockVars, senderVars, shutVars
<1>3. d \in todo /\ d \in Days /\ d < compressedFor - 1
  <2>1. todo # {} /\ todo \in SUBSET Days
    BY <1>1, <1>2 DEF PassClosed, DaysTyped
  <2>2. Min(todo) \in todo
    BY <2>1, OldestOfPass
  <2> QED BY <1>1, <2>1, <2>2 DEF PassClosed
<1>4. InCalendar' /\ InOrder'
  BY <1>1, <1>2 DEF InCalendar, InOrder, Follows, IsFlush, Up
<1>5. plain[d] \in Seq(Nat) /\ gz[d] \in Seq(Nat) /\ <<>> \in Seq(Nat)
  BY <1>1, <1>3, EmptySeq DEF DaysTyped, Contents
<1>6. ASSUME plain' \in [Days -> Contents], gz' \in [Days -> Contents],
             \A c \in Days \ {d} : plain'[c] = plain[c] /\ gz'[c] = gz[c],
             \/ gz'[d] = gz[d] /\ plain'[d] = plain[d]
             \/ log[d] = gz'[d] /\ plain'[d] \in {<<>>, gz'[d]},
             wpc' = "renamed" => todo' = todo /\ log[d] = gz'[d]
      PROVE  FileInv'
  <2>1. DaysTyped'
    BY <1>1, <1>2, <1>6 DEF DaysTyped
  <2>2. Filed'
    BY <1>2, <1>3, <1>6 DEF FileInv, Filed
  <2>3. \A c \in Days : gz'[c] # <<>> => c < compressedFor - 1
    BY <1>1, <1>3, <1>6 DEF PassClosed
  <2>4. PassClosed'
    BY <1>1, <1>2, <1>3, <1>6, <2>3 DEF PassClosed
  <2> QED BY <1>4, <2>1, <2>2, <2>4 DEF FileInv
<1> HIDE DEF d
<1>7. \/ gz[d] = <<>> /\ log[d] = plain[d]
      \/ log[d] = gz[d] /\ plain[d] \in {<<>>, gz[d]}
  BY <1>3 DEF FileInv, Filed
<1>8. CASE Compress
  <2>1. plain' = plain
    BY <1>8 DEF Compress
  <2>2. CASE Leftover(d)
    <3>1. gz' = gz /\ todo' = todo
      BY <1>8, <2>2 DEF Compress, d
    <3>2. log[d] = gz[d]
      BY <1>7, <2>2 DEF Leftover
    <3> QED BY <1>1, <1>6, <2>1, <3>1, <3>2 DEF DaysTyped
  <2>3. CASE ~Leftover(d) /\ gz' = [gz EXCEPT ![d] = @ \o plain[d]] /\ todo' = todo
    <3>1. gz[d] = <<>> /\ log[d] = plain[d]
      BY <1>5, <1>7, <2>3, SuffixOfFile DEF Leftover, Contents
    <3>2. gz[d] \o plain[d] = plain[d]
      BY <1>5, <3>1, ConcatEmptySeq
    <3>3. /\ gz' \in [Days -> Contents] /\ gz'[d] = plain[d]
          /\ \A c \in Days \ {d} : gz'[c] = gz[c]
      BY <1>1, <1>3, <1>5, <2>3, <3>2 DEF DaysTyped, Contents
    <3> QED BY <1>1, <1>6, <2>1, <2>3, <3>1, <3>3 DEF DaysTyped
  <2>4. CASE wpc' = "drain" /\ gz' = gz
    BY <1>1, <1>6, <2>1, <2>4 DEF DaysTyped
  <2> QED BY <1>8, <2>2, <2>3, <2>4 DEF Compress, d
<1>9. CASE RemovePlain
  <2>1. wpc = "renamed" /\ wpc' = "drain" /\ gz' = gz
    BY <1>9 DEF RemovePlain
  <2>2. log[d] = gz[d]
    BY <1>1, <2>1 DEF PassClosed, d
  <2>3. CASE plain' = plain
    BY <1>1, <1>6, <2>1, <2>3 DEF DaysTyped
  <2>4. CASE plain' = [plain EXCEPT ![d] = <<>>]
    <3>1. /\ plain' \in [Days -> Contents] /\ plain'[d] = <<>>
          /\ \A c \in Days \ {d} : plain'[c] = plain[c]
      BY <1>1, <1>3, <1>5, <2>4 DEF DaysTyped, Contents
    <3> QED BY <1>1, <1>6, <2>1, <2>2, <3>1 DEF DaysTyped
  <2> QED BY <1>9, <2>3, <2>4 DEF RemovePlain, d
<1> QED BY <1>8, <1>9

\* The shutdown puts a mark in the queue, which is a line of no day.
LEMMA ShutdownFiles ==
    ASSUME IndInv, FileInv, ShutdownStep
    PROVE  FileInv'
<1>1. CoreTyped /\ DaysTyped /\ InCalendar /\ InOrder /\ PassClosed
  BY DEF IndInv, FileInv
<1>2. /\ Up /\ Up'
      /\ UNCHANGED <<day, opened, compressedFor, todo, wpc, wline, spc, sline, plain, gz, log>>
  BY DEF ShutdownStep, Stop, Detach, SendFlush, FlushGivesUp, Join, LastLook, Abandon, Up,
         clockVars, senderVars, writerVars, passVars, fileVars
<1>3. CASE queue' = queue
  BY <1>1, <1>2, <1>3, QuietFiles DEF InCalendar, PassClosed
<1>4. CASE queue' = Append(queue, FlushMark)
  <2>1. FlushMark \in Lines /\ IsFlush(FlushMark) /\ FlushMark.day = 0
    BY DEF FlushMark, NoLine, Lines, IsFlush
  <2>2. \A i \in DOMAIN queue' :
          /\ \/ i \in DOMAIN queue /\ queue'[i] = queue[i]
             \/ queue'[i] = FlushMark
          /\ \A j \in DOMAIN queue' : i < j => i \in DOMAIN queue /\ queue'[i] = queue[i]
    BY <1>1, <1>4, <2>1, AppendAtBack
  <2>3. DaysTyped' /\ Filed' /\ PassClosed'
    BY <1>2 DEF FileInv, DaysTyped, Filed, PassClosed
  <2>4. 0 \in Days /\ 0 <= day
    BY <1>1, UsageAssumption DEF DaysTyped, Days
  <2>5. InCalendar'
    BY <1>1, <1>2, <2>1, <2>2, <2>4 DEF InCalendar
  <2>6. \A x : Follows(FlushMark, x)
    BY <2>1 DEF Follows
  <2>7. \A i, j \in DOMAIN queue' : i < j /\ ~IsFlush(queue'[i]) => Follows(queue'[j], queue'[i].day)
    BY <1>1, <2>2, <2>6 DEF InOrder
  <2>8. InOrder'
    BY <1>1, <1>2, <2>2, <2>6, <2>7 DEF InOrder, Follows, IsFlush
  <2> QED BY <2>3, <2>5, <2>8 DEF FileInv
<1> QED
  BY <1>3, <1>4 DEF ShutdownStep, Stop, Detach, SendFlush, FlushGivesUp, Join, LastLook, Abandon

\* A midnight, a death, and a boot that prunes the files and lists the closed
\* days afresh.
LEMMA ProcessFiles ==
    ASSUME IndInv, FileInv, NewDay \/ Dies \/ Boot
    PROVE  FileInv'
<1>1. CoreTyped /\ DaysTyped /\ InCalendar /\ InOrder /\ PassClosed
  BY DEF IndInv, FileInv
<1>2. CASE NewDay
  <2>1. /\ day' = day + 1 /\ day < MaxDay
        /\ \A s \in Senders : Up /\ spc[s] = "built" => sline[s].day = day
        /\ UNCHANGED <<queue, opened, compressedFor, todo, wpc, wline, spc, sline, plain, gz, log, stop>>
    BY <1>2 DEF NewDay, senderVars, writerVars, passVars, shutVars, fileVars
  <2>2. /\ day \in Int /\ \A d \in Days \cup {NoDay} : d \in Int
    BY <1>1, UsageAssumption DEF DaysTyped, Days, NoDay
  <2>3. DaysTyped'
    BY <1>1, <2>1, UsageAssumption DEF DaysTyped, Days
  <2>4. Filed' /\ PassClosed' /\ InOrder'
    BY <1>1, <2>1 DEF FileInv, Filed, PassClosed, InOrder, Follows, IsFlush
  <2>5. InCalendar'
    <3>1. \A d \in Days \cup {NoDay} : d <= day => d <= day'
      BY <2>1, <2>2
    <3>2. \A s \in Senders : Up' /\ spc'[s] = "built" => sline'[s].day <= day' /\ day' <= sline'[s].day + 1
      BY <2>1, <2>2 DEF Up
    <3> QED BY <1>1, <2>1, <3>1, <3>2 DEF InCalendar, DaysTyped
  <2> QED BY <2>3, <2>4, <2>5 DEF FileInv
<1>3. CASE Dies
  <2>1. /\ ~Up'
        /\ UNCHANGED <<day, queue, opened, compressedFor, todo, wpc, wline, spc, sline, plain, gz, log>>
    BY <1>3 DEF Dies, Up, clockVars, senderVars, writerVars, passVars, fileVars
  <2> QED BY <1>1, <2>1, QuietFiles DEF InCalendar, PassClosed
<1>4. CASE Boot
  <2>1. /\ plain' = Kept(plain) /\ gz' = Kept(gz) /\ log' = Kept(log)
        /\ queue' = <<>> /\ wline' = NoLine /\ opened' = NoDay
        /\ sline' = [s \in Senders |-> NoLine] /\ spc' = [s \in Senders |-> "idle"]
        /\ compressedFor' = day /\ day' = day
        /\ todo' \in {{d \in Days : plain'[d] # <<>> /\ d < day - 1}, {}}
        /\ wpc' \in {"ready", "compress", "gone"} /\ (wpc' = "compress" => todo' # {})
    BY <1>4 DEF Boot
  <2>2. /\ day \in Int /\ compressedFor \in Int /\ \A d \in Days : d \in Int
        /\ NoDay <= day /\ 0 \in Days /\ 0 <= day
    BY <1>1, UsageAssumption DEF DaysTyped, Days, NoDay
  <2>3. \A d \in Days : \/ plain'[d] = <<>> /\ gz'[d] = <<>> /\ log'[d] = <<>>
                        \/ plain'[d] = plain[d] /\ gz'[d] = gz[d] /\ log'[d] = log[d]
    BY <2>1 DEF Kept
  <2>4. <<>> \in Contents
    BY EmptySeq DEF Contents
  <2>5. plain' \in [Days -> Contents] /\ gz' \in [Days -> Contents] /\ log' \in [Days -> Contents]
    BY <1>1, <2>1, <2>4 DEF Kept, DaysTyped
  <2>6. DaysTyped'
    BY <1>1, <2>1, <2>5 DEF DaysTyped
  <2>7. Filed'
    BY <2>3 DEF FileInv, Filed
  <2>8. PassClosed'
    <3>1. \A d \in Days : gz'[d] # <<>> => d < day - 1
      BY <1>1, <2>2, <2>3 DEF PassClosed, InCalendar
    <3> QED BY <2>1, <3>1 DEF PassClosed
  <2>9. DOMAIN queue' = {}
    BY <2>1
  <2>10. InCalendar' /\ InOrder'
    BY <2>1, <2>2, <2>9 DEF InCalendar, InOrder, NoLine
  <2> QED BY <2>6, <2>7, <2>8, <2>10 DEF FileInv
<1> QED BY <1>2, <1>3, <1>4

\* The files of an empty ledger.
LEMMA InitFiles == Init => FileInv
<1> SUFFICES ASSUME Init PROVE FileInv
  OBVIOUS
<1>1. /\ day = 0 /\ compressedFor = 0 /\ opened = -1 /\ todo = {} /\ queue = <<>> /\ wpc = "ready"
      /\ plain = Empty /\ gz = Empty /\ log = Empty
      /\ wline = NoLine /\ sline = [s \in Senders |-> NoLine] /\ spc = [s \in Senders |-> "idle"]
  BY DEF Init, NoDay
<1>2. 0 \in Days /\ NoLine.day = 0 /\ DOMAIN queue = {}
  BY <1>1, UsageAssumption DEF Days, NoLine
<1>3. Empty \in [Days -> Contents] /\ \A d \in Days : Empty[d] = <<>>
  BY EmptySeq DEF Empty, Contents
<1>4. DaysTyped
  BY <1>1, <1>2, <1>3 DEF DaysTyped, NoDay
<1>5. InCalendar /\ InOrder
  BY <1>1, <1>2 DEF InCalendar, InOrder
<1>6. PassClosed /\ Filed
  BY <1>1, <1>3 DEF PassClosed, Filed
<1> QED BY <1>4, <1>5, <1>6 DEF FileInv

\* No line is ever written to a day a pass has reached, and every day's log is in
\* its files.
THEOREM FilesInvariant == Spec => []FileInv
<1>1. IndInv /\ FileInv /\ [Next]_vars => FileInv'
  <2> SUFFICES ASSUME IndInv, FileInv, [Next]_vars PROVE FileInv'
    OBVIOUS
  <2>1. CASE WriterStep
    BY <2>1, TakerFiles, AppendFiles, FlagFiles, CompressFiles DEF WriterStep
  <2>2. CASE UNCHANGED vars
    <3>1. UNCHANGED <<day, queue, opened, compressedFor, todo, wpc, wline, spc, sline, plain, gz, log, stop>>
      BY <2>2 DEF vars, clockVars, senderVars, writerVars, passVars, shutVars, fileVars
    <3> QED BY <3>1, QuietFiles DEF FileInv, InCalendar, PassClosed, Up
  <2> QED BY <2>1, <2>2, SenderFiles, ShutdownFiles, ProcessFiles DEF Next
<1> QED BY InitFiles, UsageInvariant, <1>1, PTL DEF Spec

\* compress_day and read_ledger_day agree: a day read back is every append to it,
\* once and in order, wherever a compression, a removal, a write or the process
\* stopped, for any number of requests, any depth of the queue, any number of days
\* and restarts.
THEOREM EachLineIsReadOnce == Spec => []ReadsEachLineOnce
<1>1. FileInv => ReadsEachLineOnce
  BY FiledIsRead DEF FileInv
<1> QED BY <1>1, FilesInvariant, PTL

-----------------------------------------------------------------------------
(***************************************************************************)
(* Types.  The days are those of FileInv; the rest keeps its own.          *)
(***************************************************************************)

Messages == [n : 0..MaxLines, day : Days]

Booleans == {attached, handle, closed, dropping, healthy, pass} \subseteq BOOLEAN

Counted ==
    /\ boots \in 0..MaxBoots /\ (stop = "down" => boots < MaxBoots)
    /\ lines \in 0..MaxLines
    /\ dropped \in Nat /\ dropsSeen \in 0..dropped

Flowing ==
    /\ queue \in Seq(Messages) /\ Len(queue) <= Depth
    /\ sline \in [Senders -> Messages] /\ wline \in Messages

Placed ==
    /\ spc \in [Senders -> {"idle", "built", "full", "counted"}]
    /\ wpc \in {"ready", "held", "wrote", "swap", "reread", "compress", "renamed", "drain",
                "done", "gone"}
    /\ stop \in {"up", "detach", "send", "wait", "join", "late", "down"} \cup Results

TypeInv == Booleans /\ Counted /\ Flowing /\ Placed

\* Flags are only ever set to truth values.
LEMMA BooleansStep ==
    ASSUME Booleans, Next
    PROVE  Booleans'
<1>1. /\ attached \in BOOLEAN /\ handle \in BOOLEAN /\ closed \in BOOLEAN
      /\ dropping \in BOOLEAN /\ healthy \in BOOLEAN /\ pass \in BOOLEAN
  BY Zenon DEF Booleans
<1>2. ASSUME attached' \in BOOLEAN, handle' \in BOOLEAN, closed' \in BOOLEAN,
             dropping' \in BOOLEAN, healthy' \in BOOLEAN, pass' \in BOOLEAN
      PROVE  Booleans'
  BY <1>2, Zenon DEF Booleans
<1>3. ASSUME NEW date, Handled(date) PROVE pass' \in BOOLEAN
  <2>1. CASE pass
    BY <1>1, <1>3, <2>1, Zenon DEF Handled, passVars
  <2>2. CASE ~pass /\ date > compressedFor
    BY <1>3, <2>2, Zenon DEF Handled, StartPass
  <2>3. CASE ~pass /\ ~(date > compressedFor)
    BY <1>1, <1>3, <2>3, Zenon DEF Handled, passVars
  <2> QED BY <2>1, <2>2, <2>3
<1>4. ASSUME NEW s \in Senders, SenderStep(s) PROVE Booleans'
  BY <1>1, <1>2, <1>4, Zenon DEF SenderStep, Record, RecordDetached, Queue, QueueFails, CountDrop,
     RaiseDropping, flagVars, writerVars, passVars, shutVars
<1>5. CASE WriterStep
  <2>1. CASE TakeLine \/ AppendLine \/ Compress \/ RemovePlain \/ WriterEnds
    BY <1>1, <1>2, <2>1, Zenon DEF TakeLine, AppendLine, Compress, RemovePlain, WriterEnds,
       flagVars, passVars, shutVars
  <2>2. CASE TakeFlush
    BY <1>1, <1>2, <1>3, <2>2, Zenon DEF TakeFlush, flagVars
  <2>3. CASE AppendFails
    BY <1>1, <1>2, <1>3, <2>3, Zenon DEF AppendFails, shutVars
  <2>4. CASE LoadDrops
    BY <1>1, <1>2, <1>3, <2>4, Zenon DEF LoadDrops, passVars, shutVars
  <2>5. CASE LowerDropping
    BY <1>1, <1>2, <1>3, <2>5, Zenon DEF LowerDropping, passVars, shutVars
  <2>6. CASE RereadDrops
    BY <1>1, <1>2, <1>3, <2>6, Zenon DEF RereadDrops, shutVars
  <2>7. CASE Drained
    BY <1>1, <1>2, <2>7, Zenon DEF Drained, flagVars, shutVars
  <2>8. CASE WriterPanics
    BY <1>1, <1>2, <2>8, Zenon DEF WriterPanics, flagVars, passVars
  <2> QED BY <1>5, <2>1, <2>2, <2>3, <2>4, <2>5, <2>6, <2>7, <2>8 DEF WriterStep
<1>6. CASE ShutdownStep
  BY <1>1, <1>2, <1>6, Zenon DEF ShutdownStep, Stop, Detach, SendFlush, FlushGivesUp, Join,
     LastLook, Abandon, flagVars, writerVars, passVars
<1>7. CASE NewDay \/ Dies
  BY <1>1, <1>2, <1>7, Zenon DEF NewDay, Dies, flagVars, writerVars, passVars, shutVars
<1>8. CASE Boot
  BY <1>2, <1>8, Zenon DEF Boot
<1> QED BY <1>4, <1>5, <1>6, <1>7, <1>8 DEF Next

\* Counters stay within their bounds, and what the writer saw dropped was.
LEMMA CountedStep ==
    ASSUME Counted, Next
    PROVE  Counted'
<1>1. /\ boots \in Int /\ lines \in Int /\ dropped \in Int /\ dropsSeen \in Int
      /\ MaxBoots \in Int /\ MaxLines \in Int
  BY UsageAssumption DEF Counted
<1>2. CASE UNCHANGED <<boots, lines, dropped, dropsSeen>> /\ (stop' = stop \/ stop' # "down")
  BY <1>2 DEF Counted
<1>3. ASSUME NEW s \in Senders, SenderStep(s) PROVE Counted'
  <2>1. CASE Record(s)
    BY <1>1, <2>1 DEF Record, Counted, Up, flagVars, shutVars
  <2>2. CASE CountDrop(s)
    BY <1>1, <2>2 DEF CountDrop, Counted, clockVars, shutVars
  <2>3. CASE RecordDetached(s) \/ Queue(s) \/ QueueFails(s) \/ RaiseDropping(s)
    BY <1>2, <2>3 DEF RecordDetached, Queue, QueueFails, RaiseDropping, clockVars, flagVars, shutVars
  <2> QED BY <1>3, <2>1, <2>2, <2>3 DEF SenderStep
<1>4. CASE WriterStep
  <2>1. CASE LoadDrops
    <3>1. /\ dropsSeen' \in {dropsSeen, dropped} /\ UNCHANGED <<boots, lines, dropped, stop>>
      BY <2>1 DEF LoadDrops, clockVars, shutVars
    <3> QED BY <1>1, <3>1 DEF Counted
  <2>2. CASE TakeLine \/ TakeFlush \/ AppendLine \/ AppendFails \/ LowerDropping \/ RereadDrops
    BY <1>2, <2>2 DEF TakeLine, TakeFlush, AppendLine, AppendFails, LowerDropping, RereadDrops,
       clockVars, flagVars, shutVars
  <2>3. CASE Compress \/ RemovePlain \/ Drained \/ WriterEnds \/ WriterPanics
    BY <1>2, <2>3 DEF Compress, RemovePlain, Drained, WriterEnds, WriterPanics,
       clockVars, flagVars, shutVars
  <2> QED BY <1>4, <2>1, <2>2, <2>3 DEF WriterStep
<1>5. CASE ShutdownStep
  BY <1>2, <1>5 DEF ShutdownStep, Stop, Detach, SendFlush, FlushGivesUp, Join, LastLook, Abandon,
     clockVars, flagVars
<1>6. CASE NewDay
  BY <1>2, <1>6 DEF NewDay, flagVars, shutVars
<1>7. CASE Dies
  BY <1>7 DEF Dies, Counted, clockVars, flagVars
<1>8. CASE Boot
  BY <1>1, <1>8 DEF Boot, Counted
<1> QED BY <1>3, <1>4, <1>5, <1>6, <1>7, <1>8 DEF Next

\* What flows is a message, and the channel never holds more than its depth.
LEMMA FlowingStep ==
    ASSUME TypeInv, DaysTyped, Next
    PROVE  Flowing'
<1>1. /\ queue \in Seq(Messages) /\ Len(queue) \in Nat /\ Len(queue) <= Depth /\ Depth \in Nat
      /\ sline \in [Senders -> Messages] /\ wline \in Messages
  BY UsageAssumption, LenProperties DEF TypeInv, Flowing
<1>2. NoLine \in Messages /\ FlushMark \in Messages
  BY UsageAssumption DEF Messages, NoLine, FlushMark, Days
<1>3. <<>> \in Seq(Messages) /\ Len(<<>>) = 0
  BY EmptySeq
<1>4. queue # <<>> => /\ Tail(queue) \in Seq(Messages) /\ Len(Tail(queue)) = Len(queue) - 1
                      /\ Head(queue) \in Messages
  BY <1>1, HeadTailProperties
<1>5. \A x \in Messages : /\ Append(queue, x) \in Seq(Messages)
                          /\ Len(Append(queue, x)) = Len(queue) + 1
  BY <1>1, AppendProperties
<1>6. CASE queue' = queue /\ sline' = sline /\ wline' \in {wline, NoLine}
  BY <1>1, <1>2, <1>6 DEF Flowing
<1>7. ASSUME NEW s \in Senders, SenderStep(s) PROVE Flowing'
  <2>1. CASE Record(s)
    <3>1. [n |-> lines + 1, day |-> day] \in Messages
      BY <2>1, UsageAssumption DEF Record, TypeInv, Counted, DaysTyped, Messages
    <3>2. sline' \in [Senders -> Messages]
      BY <1>1, <2>1, <3>1 DEF Record
    <3> QED BY <1>1, <2>1, <3>2 DEF Record, Flowing, writerVars
  <2>2. CASE Queue(s)
    <3>1. queue' = Append(queue, sline[s]) /\ Len(queue) < Depth /\ sline[s] \in Messages
      BY <1>1, <2>2 DEF Queue
    <3>2. queue' \in Seq(Messages) /\ Len(queue') <= Depth
      BY <1>1, <1>5, <3>1
    <3>3. sline' \in [Senders -> Messages] /\ wline' = wline
      BY <1>1, <1>2, <2>2 DEF Queue, Recorded, writerVars
    <3> QED BY <1>1, <3>2, <3>3 DEF Flowing
  <2>3. CASE RecordDetached(s) \/ QueueFails(s) \/ CountDrop(s) \/ RaiseDropping(s)
    <3>1. queue' = queue /\ wline' = wline /\ sline' \in [Senders -> Messages]
      BY <1>1, <1>2, <2>3 DEF RecordDetached, QueueFails, CountDrop, RaiseDropping, Recorded, writerVars
    <3> QED BY <1>1, <3>1 DEF Flowing
  <2> QED BY <1>7, <2>1, <2>2, <2>3 DEF SenderStep
<1>8. CASE WriterStep
  <2>1. CASE TakeLine \/ TakeFlush
    <3>1. /\ queue # <<>> /\ queue' = Tail(queue) /\ sline' = sline
          /\ wline' \in {wline, Head(queue)}
      BY <2>1 DEF TakeLine, TakeFlush, senderVars
    <3> QED BY <1>1, <1>4, <3>1 DEF Flowing
  <2>2. CASE WriterPanics
    BY <1>1, <1>3, <2>2 DEF WriterPanics, Flowing, senderVars
  <2>3. CASE AppendLine \/ AppendFails \/ LoadDrops \/ LowerDropping \/ RereadDrops
    BY <1>6, <2>3 DEF AppendLine, AppendFails, LoadDrops, LowerDropping, RereadDrops, senderVars
  <2>4. CASE Compress \/ RemovePlain \/ Drained \/ WriterEnds
    BY <1>6, <2>4 DEF Compress, RemovePlain, Drained, WriterEnds, senderVars
  <2> QED BY <1>8, <2>1, <2>2, <2>3, <2>4 DEF WriterStep
<1>9. CASE ShutdownStep
  <2>1. CASE SendFlush
    <3>1. queue' = Append(queue, FlushMark) /\ Len(queue) < Depth /\ sline' = sline /\ wline' = wline
      BY <2>1 DEF SendFlush, senderVars, writerVars
    <3>2. queue' \in Seq(Messages) /\ Len(queue') <= Depth
      BY <1>1, <1>2, <1>5, <3>1
    <3> QED BY <1>1, <3>1, <3>2 DEF Flowing
  <2>2. CASE Stop \/ Detach \/ FlushGivesUp \/ Join \/ LastLook \/ Abandon
    BY <1>6, <2>2 DEF Stop, Detach, FlushGivesUp, Join, LastLook, Abandon, senderVars, writerVars
  <2> QED BY <1>9, <2>1, <2>2 DEF ShutdownStep
<1>10. CASE NewDay \/ Dies
  BY <1>6, <1>10 DEF NewDay, Dies, senderVars, writerVars
<1>11. CASE Boot
  BY <1>1, <1>2, <1>3, <1>11 DEF Boot, Flowing
<1> QED BY <1>7, <1>8, <1>9, <1>10, <1>11 DEF Next

\* Everyone is at one of their places.
LEMMA PlacedStep ==
    ASSUME Placed, Next
    PROVE  Placed'
<1>1. ASSUME NEW s \in Senders, SenderStep(s) PROVE Placed'
  BY <1>1 DEF SenderStep, Record, RecordDetached, Queue, QueueFails, CountDrop, RaiseDropping,
     Recorded, Placed, writerVars, shutVars
<1>2. CASE WriterStep
  <2>1. CASE TakeLine \/ TakeFlush \/ AppendLine \/ AppendFails
    <3>1. /\ spc' = spc /\ stop' \in {stop, "join"}
          /\ wpc' \in {"held", "wrote", "ready", "drain", "compress"}
      BY <2>1, HandledPc DEF TakeLine, TakeFlush, AppendLine, AppendFails, senderVars, shutVars
    <3> QED BY <3>1 DEF Placed
  <2>2. CASE LoadDrops \/ LowerDropping \/ RereadDrops
    <3>1. /\ spc' = spc /\ stop' = stop
          /\ wpc' \in {"swap", "reread", "ready", "drain", "compress"}
      BY <2>2, HandledPc DEF LoadDrops, LowerDropping, RereadDrops, senderVars, shutVars
    <3> QED BY <3>1 DEF Placed
  <2>3. CASE Compress \/ RemovePlain \/ Drained \/ WriterEnds \/ WriterPanics
    <3>1. /\ spc' = spc /\ stop' \in {stop, "join"}
          /\ wpc' \in {"renamed", "drain", "ready", "compress", "done", "gone"}
      BY <2>3 DEF Compress, RemovePlain, Drained, WriterEnds, WriterPanics, senderVars, shutVars
    <3> QED BY <3>1 DEF Placed
  <2> QED BY <1>2, <2>1, <2>2, <2>3 DEF WriterStep
<1>3. CASE ShutdownStep
  BY <1>3 DEF ShutdownStep, Stop, Detach, SendFlush, FlushGivesUp, Join, LastLook, Abandon, Placed,
     Results, senderVars, writerVars
<1>4. CASE NewDay \/ Dies
  BY <1>4 DEF NewDay, Dies, Placed, senderVars, writerVars, shutVars
<1>5. CASE Boot
  BY <1>5 DEF Boot, Placed
<1> QED BY <1>1, <1>2, <1>3, <1>4, <1>5 DEF Next

\* Type correctness of the ledger, its bounded channel included: it never holds
\* more than LEDGER_QUEUE_DEPTH messages, the flush marker of a shutdown counted.
THEOREM UsageTypeCorrect == Spec => []TypeOK
<1>1. Init => TypeInv
  <2> SUFFICES ASSUME Init PROVE TypeInv
    OBVIOUS
  <2>1. Booleans
    BY Zenon DEF Init, Booleans
  <2>2. Counted
    <3>1. boots = 0 /\ lines = 0 /\ dropped = 0 /\ dropsSeen = 0 /\ stop # "down"
      BY DEF Init
    <3> QED BY <3>1, UsageAssumption DEF Counted
  <2>3. Flowing
    <3>1. NoLine \in Messages
      BY UsageAssumption DEF Messages, NoLine, Days
    <3>2. queue = <<>> /\ wline = NoLine /\ sline = [s \in Senders |-> NoLine]
      BY DEF Init
    <3>3. queue \in Seq(Messages) /\ Len(queue) <= Depth
      BY <3>2, EmptySeq, UsageAssumption
    <3> QED BY <3>1, <3>2, <3>3 DEF Flowing
  <2>4. Placed
    BY DEF Init, Placed
  <2> QED BY <2>1, <2>2, <2>3, <2>4 DEF TypeInv
<1>2. TypeInv /\ FileInv /\ [Next]_vars => TypeInv'
  <2> SUFFICES ASSUME TypeInv, FileInv, [Next]_vars PROVE TypeInv'
    OBVIOUS
  <2>1. CASE Next
    BY <2>1, BooleansStep, CountedStep, FlowingStep, PlacedStep DEF TypeInv, FileInv
  <2>2. CASE UNCHANGED vars
    <3> USE <2>2 DEF vars, clockVars, flagVars, senderVars, writerVars, passVars, shutVars
    <3>1. Booleans'
      BY Zenon DEF TypeInv, Booleans
    <3>2. Counted' /\ Flowing' /\ Placed'
      BY DEF TypeInv, Counted, Flowing, Placed
    <3> QED BY <3>1, <3>2 DEF TypeInv
  <2> QED BY <2>1, <2>2
<1>3. TypeInv /\ FileInv => TypeOK
  <2> SUFFICES ASSUME TypeInv, FileInv PROVE TypeOK
    OBVIOUS
  <2>1. Booleans
    BY DEF TypeInv
  <2>2. {attached, handle, closed, dropping, healthy, pass} \subseteq BOOLEAN
    BY <2>1, Zenon DEF Booleans
  <2>3. day \in Days /\ opened \in Days \cup {NoDay} /\ compressedFor \in Days /\ todo \subseteq Days
    BY DEF FileInv, DaysTyped
  <2>4. Counted /\ Flowing /\ Placed
    BY DEF TypeInv
  <2> QED BY <2>2, <2>3, <2>4, Zenon DEF TypeOK, Counted, Flowing, Placed, Messages
<1> QED BY <1>1, <1>2, <1>3, FilesInvariant, PTL DEF Spec

-----------------------------------------------------------------------------
(***************************************************************************)
(* The shutdown gets nearer its end with every step.  It waits for a       *)
(* request only at Detach, and from Stop on no request starts another      *)
(* line: those under way have a bounded number of steps before they let go *)
(* of the read lock.  That the steps and the deadlines come is the         *)
(* fairness of Spec, under which the run checks ShutdownReturns.           *)
(***************************************************************************)
Stopping == {"detach", "send", "wait", "join", "late"}

\* The steps shutdown_ledger has left.
ShutdownLeft ==
    CASE stop = "detach" -> 5
      [] stop = "send" -> 4
      [] stop = "wait" -> 3
      [] stop = "join" -> 2
      [] stop = "late" -> 1
      [] OTHER -> 0

\* The steps a request has left before it is done with the ledger.
SenderLeft(s) ==
    CASE spc[s] = "built" -> 3
      [] spc[s] = "full" -> 2
      [] spc[s] = "counted" -> 1
      [] OTHER -> 0

\* From Stop to Boot no request may start a line.
Detached == stop \notin {"up", "down"} => ~attached

\* A shutdown under way is only ever brought closer to its result, by its own
\* steps, by the requests it waits for and by the writer, and no step of a
\* request gives it more to wait for.
Closer ==
    /\ ShutdownLeft' <= ShutdownLeft
    /\ ShutdownStep => ShutdownLeft' < ShutdownLeft
    /\ \A s \in Senders : /\ SenderLeft(s)' <= SenderLeft(s)
                          /\ SenderStep(s) => SenderLeft(s)' < SenderLeft(s)

ShutdownAdvances == [][(stop \in Stopping) => Closer]_vars

LEMMA DetachedStep == ASSUME Detached, [Next]_vars PROVE Detached'
<1>1. CASE UNCHANGED <<attached, stop>>
  BY <1>1 DEF Detached
<1>2. ASSUME NEW s \in Senders, SenderStep(s) PROVE UNCHANGED <<attached, stop>>
  BY <1>2 DEF SenderStep, Record, RecordDetached, Queue, QueueFails, CountDrop, RaiseDropping,
     shutVars
<1>3. CASE WriterStep
  <2>1. UNCHANGED attached /\ (stop' = stop \/ (stop = "wait" /\ stop' = "join"))
    BY <1>3 DEF WriterStep, TakeLine, TakeFlush, AppendLine, AppendFails, LoadDrops,
       LowerDropping, RereadDrops, Compress, RemovePlain, Drained, WriterEnds, WriterPanics,
       shutVars
  <2> QED BY <2>1 DEF Detached
<1>4. CASE ShutdownStep
  BY <1>4 DEF ShutdownStep, Stop, Detach, SendFlush, FlushGivesUp, Join, LastLook, Abandon,
     Detached
<1>5. CASE NewDay \/ UNCHANGED vars
  BY <1>1, <1>5 DEF NewDay, vars, shutVars
<1>6. CASE Dies \/ Boot
  BY <1>6 DEF Dies, Boot, Detached
<1> QED BY <1>1, <1>2, <1>3, <1>4, <1>5, <1>6 DEF Next

\* A request's own step, and the steps of the others.
LEMMA SenderAdvances ==
    ASSUME CoreTyped, Detached, stop \in Stopping, [Next]_vars, NEW s \in Senders
    PROVE  /\ SenderLeft(s)' <= SenderLeft(s)
           /\ SenderStep(s) => SenderLeft(s)' < SenderLeft(s)
<1>0. /\ spc \in [Senders -> {"idle", "built", "full", "counted"}] /\ ~attached
      /\ ~Boot
  BY DEF CoreTyped, Detached, Stopping, Boot
<1>1. CASE SenderStep(s)
  BY <1>0, <1>1 DEF SenderStep, Record, RecordDetached, Queue, QueueFails, CountDrop,
     RaiseDropping, Recorded, SenderLeft
<1>2. CASE spc'[s] = spc[s] /\ ~SenderStep(s)
  BY <1>2 DEF SenderLeft
<1>3. ASSUME NEW r \in Senders, SenderStep(r), r # s PROVE spc'[s] = spc[s]
  BY <1>0, <1>3 DEF SenderStep, Record, RecordDetached, Queue, QueueFails, CountDrop,
     RaiseDropping, Recorded, senderVars
<1>4. ASSUME WriterStep PROVE spc'[s] = spc[s]
  BY <1>4 DEF WriterStep, TakeLine, TakeFlush, AppendLine, AppendFails, LoadDrops,
     LowerDropping, RereadDrops, Compress, RemovePlain, Drained, WriterEnds, WriterPanics,
     senderVars
<1>5. ASSUME ShutdownStep PROVE spc'[s] = spc[s]
  BY <1>5 DEF ShutdownStep, Stop, Detach, SendFlush, FlushGivesUp, Join, LastLook, Abandon,
     senderVars
<1> QED BY <1>0, <1>1, <1>2, <1>3, <1>4, <1>5 DEF Next, NewDay, Dies, vars, senderVars

LEMMA ShutdownStepAdvances ==
    ASSUME stop \in Stopping, [Next]_vars
    PROVE  /\ ShutdownLeft' <= ShutdownLeft
           /\ ShutdownStep => ShutdownLeft' < ShutdownLeft
<1>1. CASE ShutdownStep
  BY <1>1 DEF ShutdownStep, Stop, Detach, SendFlush, FlushGivesUp, Join, LastLook, Abandon,
     Stopping, ShutdownLeft
<1>2. CASE ~ShutdownStep /\ stop' \in {stop, "down"}
  BY <1>2 DEF Stopping, ShutdownLeft
<1>3. ASSUME NEW s \in Senders, SenderStep(s) PROVE stop' = stop
  BY <1>3 DEF SenderStep, Record, RecordDetached, Queue, QueueFails, CountDrop, RaiseDropping,
     shutVars
<1>4. CASE WriterStep /\ ~ShutdownStep
  <2>1. stop' = stop \/ (stop = "wait" /\ stop' = "join")
    BY <1>4 DEF WriterStep, TakeLine, TakeFlush, AppendLine, AppendFails, LoadDrops,
       LowerDropping, RereadDrops, Compress, RemovePlain, Drained, WriterEnds, WriterPanics,
       shutVars
  <2> QED BY <1>4, <2>1 DEF Stopping, ShutdownLeft
<1> QED BY <1>1, <1>2, <1>3, <1>4 DEF Next, NewDay, Dies, Boot, vars, shutVars, Stopping

\* shutdown_ledger takes at most five steps, and nothing sets it back.
THEOREM ShutdownsAdvance == Spec => ShutdownAdvances
<1>1. Init => Detached
  BY DEF Init, Detached
<1>2. Detached /\ [Next]_vars => Detached'
  BY DetachedStep
<1>3. IndInv /\ Detached /\ [Next]_vars =>
        [(stop \in Stopping) => Closer]_vars
  BY SenderAdvances, ShutdownStepAdvances DEF IndInv, Closer
<1> QED BY <1>1, <1>2, <1>3, UsageInvariant, PTL DEF Spec, ShutdownAdvances
=============================================================================

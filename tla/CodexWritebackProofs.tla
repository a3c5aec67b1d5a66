------------------------- MODULE CodexWritebackProofs -------------------------
(***************************************************************************)
(* What the guarded write of auth.json may replace, proved for any number  *)
(* of pairs and edits, failing writes, lost answers and restarts.          *)
(***************************************************************************)
EXTENDS CodexWriteback, TLAPS

\* Of the shape of the state, what the argument needs.
Shape ==
    /\ minted \in Nat /\ live \subseteq 1 .. minted /\ ours \subseteq 1 .. minted
    /\ "at" \in DOMAIN task /\ "src" \in DOMAIN cfg /\ "src" \in DOMAIN disk

\* A process that is down runs no task.
DownIsIdle == ~up => task.at = "idle"

\* Whoever is inside the write has something to publish.
WriterHasSource == task.at \in {"read", "compare", "rename", "settle"} => pend # NoRecord

\* A pair tcr has exchanged is dead.
OursAreDead == \A pair \in ours : pair \notin live

\* A publication replaces a pair that tcr exchanged: in memory, in the snapshot
\* and in the file a restart reads.
SourcesAreSpent ==
    /\ pend # NoRecord => pend.src \in ours
    /\ cfg.src # None => cfg.src \in ours
    /\ disk.src # None => disk.src \in ours

\* Between its two looks, and after the second, an untouched file still holds
\* the source.
LookHolds == task.at \in {"compare", "rename"} /\ ~moved => ~torn /\ auth = pend.src

IndInv == Shape /\ DownIsIdle /\ WriterHasSource /\ OursAreDead /\ SourcesAreSpent /\ LookHolds

-----------------------------------------------------------------------------
\* The states before the first step.
LEMMA InitInd == Init => IndInv
  BY DEF Init, IndInv, Shape, DownIsIdle, WriterHasSource, OursAreDead, SourcesAreSpent,
         LookHolds, Idle, NoRecord

\* A new pair is none of the pairs before it: those tcr has exchanged, the one
\* it exchanges now among them, stay dead.
LEMMA MintKeepsDead ==
    ASSUME IndInv, NEW spent, NEW alien, Mint(spent, alien),
           ours' = ours \/ (ours' = ours \cup {task.post} /\ spent = {task.post} /\ task.post \in live)
    PROVE  /\ minted' \in Nat /\ live' \subseteq 1 .. minted' /\ ours' \subseteq 1 .. minted'
           /\ OursAreDead'
  <1>1. /\ minted \in Nat /\ live \subseteq 1 .. minted /\ ours \subseteq 1 .. minted
        /\ minted' = minted + 1 /\ live' = (live \ spent) \cup {minted + 1}
    BY DEF IndInv, Shape, Mint
  <1>2. minted' \in Nat /\ 1 .. minted \subseteq 1 .. minted' /\ minted + 1 \in 1 .. minted'
        /\ minted + 1 \notin 1 .. minted
    BY <1>1
  <1>3. ours' \subseteq 1 .. minted
    BY <1>1
  <1>4. OursAreDead'
    BY <1>1, <1>2, <1>3 DEF IndInv, OursAreDead
  <1> QED BY <1>1, <1>2, <1>3, <1>4

\* A step of tcr that mints nothing, saves nothing, publishes nothing new and
\* does not end inside the two looks.
LEMMA OtherSteps ==
    ASSUME IndInv, UNCHANGED <<minted, live, ours, cfg, disk>>,
           pend' \in {pend, NoRecord},
           "at" \in DOMAIN task', task'.at \notin {"compare", "rename"},
           task'.at \in {"read", "settle"} => pend' # NoRecord,
           up' \/ task'.at = "idle"
    PROVE  IndInv'
  <1>1. Shape' /\ DownIsIdle' /\ OursAreDead'
    BY DEF IndInv, Shape, DownIsIdle, OursAreDead
  <1>2. WriterHasSource' /\ SourcesAreSpent' /\ LookHolds'
    BY DEF IndInv, WriterHasSource, SourcesAreSpent, LookHolds
  <1> QED BY <1>1, <1>2 DEF IndInv

\* A step of Codex: the task, the process and what is pending stay.
LEMMA CodexSteps ==
    ASSUME IndInv, UNCHANGED <<ours, up, pend, cfg, disk, task>>,
           minted' \in Nat, live' \subseteq 1 .. minted', ours' \subseteq 1 .. minted', OursAreDead',
           LookHolds'
    PROVE  IndInv'
  BY DEF IndInv, Shape, DownIsIdle, WriterHasSource, SourcesAreSpent

-----------------------------------------------------------------------------
\* Steps of a task outside the write.
LEMMA RefreshInd ==
    ASSUME IndInv, Refresh \/ RefreshStarts \/ RetryStarts
    PROVE  IndInv'
  <1>1. CASE RefreshStarts \/ RetryStarts
    <2>1. UNCHANGED <<minted, live, ours, cfg, disk, up, pend>> /\ up
      BY <1>1 DEF RefreshStarts, RetryStarts, authority, memory, history
    <2>2. "at" \in DOMAIN task' /\ task'.at \in {"consider", "read"}
      BY <1>1 DEF RefreshStarts, RetryStarts, Idle
    <2>3. task'.at = "read" => pend # NoRecord
      BY <1>1 DEF RefreshStarts, RetryStarts, Idle
    <2> QED BY <2>1, <2>2, <2>3, OtherSteps
  <1>2. ASSUME NEW fresh \in BOOLEAN, Consider(fresh) PROVE IndInv'
    <2>1. UNCHANGED <<minted, live, ours, cfg, disk, up>> /\ up
      BY <1>2 DEF Consider, authority, history
    <2>2. pend' \in {pend, NoRecord} /\ "at" \in DOMAIN task' /\ task'.at \in {"apply", "post"}
      BY <1>2 DEF IndInv, Shape, Consider, Take, Idle
    <2> QED BY <2>1, <2>2, OtherSteps
  <1>3. ASSUME NEW fresh \in BOOLEAN, Recheck(fresh) PROVE IndInv'
    <2>1. UNCHANGED <<minted, live, ours, cfg, disk, up>> /\ up
      BY <1>3 DEF Recheck, authority, history
    <2>2. \/ task' = GivesUp(task.error) /\ UNCHANGED pend
          \/ \E pair : Take(pair)
          \/ \E pair : task' = [task EXCEPT !.at = "repost", !.post = pair, !.origin = "file"]
                      /\ UNCHANGED pend
      BY <1>3 DEF Recheck
    <2>3. pend' \in {pend, NoRecord} /\ "at" \in DOMAIN task'
          /\ task'.at \in {"apply", "repost", "condemn", "idle"}
      <3>1. CASE task' = GivesUp(task.error) /\ UNCHANGED pend
        BY <3>1 DEF GivesUp, Idle
      <3>2. ASSUME NEW pair, Take(pair)
            PROVE  pend' = NoRecord /\ "at" \in DOMAIN task' /\ task'.at = "apply"
        BY <3>2 DEF Take, Idle
      <3>3. ASSUME NEW pair, task' = [task EXCEPT !.at = "repost", !.post = pair, !.origin = "file"]
            PROVE  "at" \in DOMAIN task' /\ task'.at = "repost"
        BY <3>3 DEF IndInv, Shape
      <3> QED BY <2>2, <3>1, <3>2, <3>3
    <2> QED BY <2>1, <2>3, OtherSteps
  <1>4. ASSUME NEW fresh \in BOOLEAN, AfterWriteback(fresh) PROVE IndInv'
    <2>1. UNCHANGED <<minted, live, ours, cfg, disk, up>> /\ up
      BY <1>4 DEF AfterWriteback, authority, history
    <2>2. pend' \in {pend, NoRecord} /\ "at" \in DOMAIN task' /\ task'.at = "apply"
      BY <1>4 DEF AfterWriteback, Take, Idle
    <2> QED BY <2>1, <2>2, OtherSteps
  <1>5. CASE PostAccepted
    <2>1. /\ minted' \in Nat /\ live' \subseteq 1 .. minted' /\ ours' \subseteq 1 .. minted'
          /\ OursAreDead'
      BY <1>5, MintKeepsDead DEF PostAccepted
    <2>2. pend' = [src |-> Source, tok |-> minted + 1] /\ ours' = ours \cup {task.post}
      BY <1>5 DEF PostAccepted
    <2>3. Source \in ours'
      BY <2>2 DEF Source, IndInv, SourcesAreSpent
    <2>4. task'.at = "read" /\ "at" \in DOMAIN task' /\ up' /\ UNCHANGED <<cfg, disk>>
      BY <1>5 DEF PostAccepted, Posting, Idle
    <2>5. pend' # NoRecord
      BY <2>2, CodexAssumption DEF NoRecord, IndInv, Shape
    <2>6. SourcesAreSpent'
      BY <2>2, <2>3, <2>4 DEF SourcesAreSpent, IndInv
    <2> QED BY <2>1, <2>4, <2>5, <2>6 DEF IndInv, Shape, DownIsIdle, WriterHasSource, LookHolds
  <1>6. ASSUME Posting, NEW error, Refused(error)
        PROVE  "at" \in DOMAIN task' /\ task'.at \in {"recheck", "condemn", "idle"}
    BY <1>6 DEF IndInv, Shape, Refused, GivesUp, Idle
  <1>7. CASE PostRejected \/ PostFails
    BY <1>6, <1>7, OtherSteps DEF PostRejected, PostFails, Posting, authority, memory, history
  <1>8. CASE ReplyLost
    <2>1. /\ minted' \in Nat /\ live' \subseteq 1 .. minted' /\ ours' \subseteq 1 .. minted'
          /\ OursAreDead'
      BY <1>8, MintKeepsDead DEF ReplyLost
    <2>2. ours \subseteq ours' /\ UNCHANGED <<cfg, disk, pend, up>> /\ up
      BY <1>8 DEF ReplyLost, Posting, memory
    <2>3. "at" \in DOMAIN task' /\ task'.at \in {"recheck", "condemn", "idle"}
      BY <1>6, <1>8 DEF ReplyLost
    <2>4. SourcesAreSpent'
      BY <2>2 DEF IndInv, SourcesAreSpent
    <2> QED BY <2>1, <2>2, <2>3, <2>4 DEF IndInv, Shape, DownIsIdle, WriterHasSource, LookHolds
  <1>9. CASE ApplyRefresh
    <2>1. "at" \in DOMAIN task' /\ task'.at = "persist"
      BY <1>9 DEF IndInv, Shape, ApplyRefresh
    <2> QED BY <1>9, <2>1, OtherSteps DEF ApplyRefresh, authority, history
  <1> QED BY <1>1, <1>2, <1>3, <1>4, <1>5, <1>7, <1>8, <1>9 DEF Refresh

\* The guarded write.
LEMMA WritebackInd ==
    ASSUME IndInv, Writeback
    PROVE  IndInv'
  <1>1. ASSUME NEW changed, Flushed(changed)
        PROVE  "at" \in DOMAIN task' /\ task'.at \in {"record", "after", "apply"}
    BY <1>1 DEF IndInv, Shape, Flushed, Idle
  <1>2. CASE WritebackReads \/ WritebackCompares
    <2>1. UNCHANGED <<minted, live, ours, cfg, disk, up, pend, auth, torn>> /\ up /\ ~moved'
      BY <1>2 DEF WritebackReads, WritebackCompares, authority, memory, history
    <2>2. "at" \in DOMAIN task' /\ task.at \in {"read", "compare"}
      BY <1>2 DEF IndInv, Shape, WritebackReads, WritebackCompares
    <2>3. task'.at \in {"compare", "rename"} => ~torn /\ auth = pend.src
      BY <1>2 DEF IndInv, Shape, LookHolds, WritebackReads, WritebackCompares
    <2>4. Shape' /\ DownIsIdle' /\ OursAreDead' /\ SourcesAreSpent'
      BY <2>1, <2>2 DEF IndInv, Shape, DownIsIdle, OursAreDead, SourcesAreSpent
    <2>5. WriterHasSource' /\ LookHolds'
      BY <2>1, <2>2, <2>3 DEF IndInv, WriterHasSource, LookHolds
    <2> QED BY <2>4, <2>5 DEF IndInv
  <1>3. CASE WritebackRenames \/ WritebackFails
    <2>1. UNCHANGED <<minted, live, ours, cfg, disk, up>> /\ up /\ pend' \in {pend, NoRecord}
      BY <1>3 DEF WritebackRenames, WritebackFails, authority, memory, history
    <2>2. "at" \in DOMAIN task' /\ task'.at \in {"record", "after", "apply"}
      BY <1>1, <1>3 DEF WritebackRenames, WritebackFails
    <2> QED BY <2>1, <2>2, OtherSteps
  <1>4. ASSUME NEW fresh \in BOOLEAN, WritebackSettles(fresh) PROVE IndInv'
    <2>1. UNCHANGED <<minted, live, ours, cfg, disk, up>> /\ up /\ pend' \in {pend, NoRecord}
      BY <1>4 DEF WritebackSettles, authority, history
    <2>2. "at" \in DOMAIN task' /\ task'.at \in {"record", "after", "apply"}
      BY <1>1, <1>4 DEF WritebackSettles
    <2> QED BY <2>1, <2>2, OtherSteps
  <1> QED BY <1>2, <1>3, <1>4 DEF Writeback

\* The config file and the process.
LEMMA SavingInd ==
    ASSUME IndInv, Saving \/ Process
    PROVE  IndInv'
  <1>1. pend.src # None => pend.src \in ours
    BY DEF IndInv, SourcesAreSpent, NoRecord
  <1>2. ASSUME UNCHANGED <<minted, live, ours>>, pend' \in {pend, NoRecord},
               "src" \in DOMAIN cfg', "src" \in DOMAIN disk',
               cfg'.src # None => cfg'.src \in ours, disk'.src # None => disk'.src \in ours,
               "at" \in DOMAIN task', task'.at = "idle"
        PROVE  IndInv'
    <2>1. Shape' /\ DownIsIdle' /\ WriterHasSource' /\ OursAreDead' /\ LookHolds'
      BY <1>2 DEF IndInv, Shape, DownIsIdle, WriterHasSource, OursAreDead, LookHolds
    <2>2. SourcesAreSpent'
      BY <1>2 DEF IndInv, SourcesAreSpent
    <2> QED BY <2>1, <2>2 DEF IndInv
  <1>3. ASSUME NEW pair, NEW written, Persist(pair, written)
        PROVE  /\ "src" \in DOMAIN cfg' /\ "src" \in DOMAIN disk'
               /\ cfg'.src # None => cfg'.src \in ours
               /\ disk'.src # None => disk'.src \in ours
    BY <1>1, <1>3 DEF IndInv, Shape, SourcesAreSpent, Persist
  <1>4. ASSUME NEW source, NEW written, Record(source, written), source # None => source \in ours
        PROVE  /\ "src" \in DOMAIN cfg' /\ "src" \in DOMAIN disk'
               /\ cfg'.src # None => cfg'.src \in ours
               /\ disk'.src # None => disk'.src \in ours
    BY <1>4 DEF IndInv, Shape, SourcesAreSpent, Record
  <1>5. "at" \in DOMAIN Idle /\ Idle.at = "idle"
    BY DEF Idle
  <1>6. ASSUME NEW written \in BOOLEAN, PersistTokens(written) PROVE IndInv'
    BY <1>2, <1>3, <1>5, <1>6 DEF PersistTokens, authority, history
  <1>7. ASSUME NEW written \in BOOLEAN, RetryRecords(written) PROVE IndInv'
    BY <1>1, <1>2, <1>3, <1>4, <1>5, <1>7 DEF RetryRecords, authority, history
  <1>8. ASSUME NEW written \in BOOLEAN, Condemn(written) PROVE IndInv'
    BY <1>2, <1>4, <1>5, <1>8 DEF Condemn, authority, history
  <1>9. ASSUME disk' \in {disk, cfg}, Ends PROVE IndInv'
    BY <1>2, <1>5, <1>9 DEF Ends, authority, IndInv, Shape, SourcesAreSpent
  <1>10. CASE Boot
    <2>1. task.at = "idle" /\ up' /\ UNCHANGED <<minted, live, ours, cfg, disk, task>>
      BY <1>10 DEF IndInv, DownIsIdle, Boot, authority, history
    <2>2. pend' # NoRecord => pend'.src \in ours
      BY <1>10 DEF IndInv, SourcesAreSpent, Boot
    <2>3. SourcesAreSpent'
      BY <2>1, <2>2 DEF IndInv, SourcesAreSpent
    <2> QED BY <2>1, <2>3 DEF IndInv, Shape, DownIsIdle, WriterHasSource, OursAreDead, LookHolds
  <1> QED BY <1>6, <1>7, <1>8, <1>9, <1>10 DEF Saving, Process, Crash, Shutdown

\* Codex.
LEMMA CodexInd ==
    ASSUME IndInv, Codex
    PROVE  IndInv'
  <1>1. minted \in Nat /\ live \subseteq 1 .. minted /\ ours \subseteq 1 .. minted
    BY DEF IndInv, Shape
  <1>2. CASE CodexReads \/ CodexRejected
    <2>1. UNCHANGED <<minted, live, ours, up, pend, cfg, disk, task, auth, torn, moved>>
      BY <1>2 DEF CodexReads, CodexRejected, authority, file, memory, history
    <2> QED BY <1>1, <2>1, CodexSteps DEF IndInv, OursAreDead, LookHolds
  <1>3. ASSUME NEW spent, NEW alien, Mint(spent, alien), UNCHANGED <<file, memory, disk, task, history>>
        PROVE  IndInv'
    <2>1. UNCHANGED <<ours, up, pend, cfg, disk, task, auth, torn, moved>>
      BY <1>3 DEF file, memory, history
    <2>2. /\ minted' \in Nat /\ live' \subseteq 1 .. minted' /\ ours' \subseteq 1 .. minted'
          /\ OursAreDead'
      BY <1>3, <2>1, MintKeepsDead
    <2> QED BY <2>1, <2>2, CodexSteps DEF IndInv, LookHolds
  <1>4. CASE CodexTruncates \/ CodexWrites \/ CodexTouches
    <2>1. UNCHANGED <<minted, live, ours, up, pend, cfg, disk, task>>
      BY <1>4 DEF CodexTruncates, CodexWrites, CodexTouches, authority, memory, history
    <2>2. \/ moved' = (task.at \in {"compare", "rename"})
          \/ UNCHANGED <<moved, auth>> /\ ~torn /\ ~torn'
      BY <1>4 DEF CodexTruncates, CodexWrites, CodexTouches, Moves
    <2>3. LookHolds'
      BY <2>1, <2>2 DEF IndInv, LookHolds
    <2> QED BY <1>1, <2>1, <2>3, CodexSteps DEF IndInv, OursAreDead
  <1> QED BY <1>2, <1>3, <1>4 DEF Codex, CodexRefreshes, CodexSignsIn

\* The invariant holds in every reachable state.
THEOREM WritebackInvariant == Spec => []IndInv
  <1>1. IndInv /\ [Next]_vars => IndInv'
    <2> SUFFICES ASSUME IndInv, [Next]_vars PROVE IndInv'
      OBVIOUS
    <2>1. CASE UNCHANGED vars
      BY <2>1 DEF vars, authority, file, memory, history, IndInv, Shape, DownIsIdle,
           WriterHasSource, OursAreDead, SourcesAreSpent, LookHolds
    <2> QED BY <2>1, RefreshInd, WritebackInd, SavingInd, CodexInd DEF Next
  <1> QED BY <1>1, InitInd, PTL DEF Spec

\* However refreshes, failed publications, lost answers, crashes and restarts
\* follow each other, the rename replaces a pair tcr has itself exchanged and
\* that no longer works, unless Codex wrote after the comparison.
THEOREM OnlySpentIsReplaced == Spec => []ReplacesOnlySpent
  <1>1. IndInv => ReplacesOnlySpent
    BY DEF IndInv, ReplacesOnlySpent, WriterHasSource, OursAreDead, SourcesAreSpent, LookHolds
  <1> QED BY <1>1, WritebackInvariant, PTL
-----------------------------------------------------------------------------
(***************************************************************************)
(* A login of Codex that tcr has spent is not forgotten, and nothing stale *)
(* is taken from the file.                                                 *)
(***************************************************************************)
Pairs == 1 .. minted
MaybePairs == Pairs \cup {None}

\* A refresh that may still post, and one that publishes what it got.
Looking == {"consider", "post", "recheck", "repost"}
Publishing == {"read", "compare", "rename", "settle", "after"}
Places == Looking \cup Publishing \cup {"idle", "record", "apply", "persist", "condemn"}

TaskRecords == [at : Places, was : MaybePairs, before : MaybePairs, post : MaybePairs,
          origin : {"row", "file"}, error : {"none", "rejected", "transient"}, hand : MaybePairs]
\* Whoever applies or saves a pair has one.
Tasks == {t \in TaskRecords : t.at \in {"after", "apply", "persist"} => t.hand \in Pairs}
Records == [tok : Pairs, src : Pairs] \cup {NoRecord}
Rows == [tok : Pairs, src : MaybePairs]
CodexStates == [at : {"idle"}, tok : {None}] \cup [at : {"post", "write", "finish"}, tok : Pairs]

\* The types of the variables.
Typed ==
    /\ minted \in Nat
    /\ live \subseteq Pairs /\ ours \subseteq Pairs /\ foreign \subseteq Pairs
    /\ auth \in Pairs /\ row \in Pairs
    /\ torn \in BOOLEAN /\ up \in BOOLEAN /\ lost \in BOOLEAN
    /\ codex \in CodexStates
    /\ pend \in Records /\ cfg \in Rows /\ disk \in Rows
    /\ task \in Tasks

\* The initial state is well typed.
LEMMA InitTyped == Init => Typed
  <1> SUFFICES ASSUME Init PROVE Typed
    OBVIOUS
  <1>1. Pairs = {1} /\ minted \in Nat
    BY DEF Init, Pairs
  <1> QED BY <1>1 DEF Init, Typed, MaybePairs, Tasks, TaskRecords, Records, Rows, CodexStates, Places, Looking, Publishing,
                      Idle, NoRecord

\* What is a pair stays one when the authority mints.
LEMMA MorePairs ==
    ASSUME Typed, minted' \in {minted, minted + 1}
    PROVE  /\ minted' \in Nat /\ Pairs \subseteq Pairs' /\ MaybePairs \subseteq MaybePairs'
           /\ Tasks \subseteq Tasks' /\ Records \subseteq Records' /\ Rows \subseteq Rows'
           /\ CodexStates \subseteq CodexStates'
           /\ minted' \in Pairs' \/ minted' = minted
  <1>1. minted' \in Nat /\ Pairs \subseteq Pairs' /\ (minted' \in Pairs' \/ minted' = minted)
    BY DEF Typed, Pairs
  <1>2. MaybePairs \subseteq MaybePairs'
    BY <1>1 DEF MaybePairs
  <1> QED BY <1>1, <1>2 DEF Tasks, TaskRecords, Records, Rows, CodexStates

\* The records that stand for nothing, and the looks at the file, are typed.
LEMMA TypedParts ==
    ASSUME Typed
    PROVE  /\ NoRecord \in Records
           /\ Idle \in Tasks
           /\ \A error : GivesUp(error) \in Tasks
           /\ \A previous, baseline, rejected :
                 NewerTokens(previous, baseline, rejected) \in {auth, None}
  <1>1. NoRecord \in Records /\ Idle \in Tasks
    BY DEF Records, MaybePairs, Idle, Tasks, TaskRecords, Places
  <1>2. \A error : GivesUp(error) \in Tasks
    BY <1>1 DEF GivesUp, Idle, Tasks, TaskRecords, Places
  <1> QED BY <1>1, <1>2 DEF NewerTokens

\* A step that mints nothing.
LEMMA TypedSteps ==
    ASSUME Typed, UNCHANGED <<minted, live, foreign>>,
           ours' = ours, auth' \in Pairs, row' \in Pairs, torn' \in BOOLEAN, up' \in BOOLEAN,
           lost' \in BOOLEAN,
           codex' = codex, pend' \in Records, cfg' \in Rows, disk' \in Rows, task' \in Tasks
    PROVE  Typed'
  <1>1. /\ Pairs' = Pairs /\ MaybePairs' = MaybePairs
        /\ Tasks' = Tasks /\ Records' = Records /\ Rows' = Rows /\ CodexStates' = CodexStates
    BY DEF Pairs, MaybePairs, Tasks, TaskRecords, Records, Rows, CodexStates
  <1> QED BY <1>1 DEF Typed

\* A step that mints a pair.
LEMMA TypedMints ==
    ASSUME Typed, NEW spent, NEW alien, Mint(spent, alien), UNCHANGED <<file, up, row, cfg, disk>>,
           ours' \subseteq Pairs, lost' \in BOOLEAN,
           codex' \in CodexStates',
           pend' \in Records', task' \in Tasks'
    PROVE  Typed' /\ minted + 1 \in Pairs' /\ minted + 1 \notin Pairs
  <1>1. /\ minted \in Nat /\ minted' = minted + 1 /\ live' = (live \ spent) \cup {minted + 1}
        /\ foreign' \subseteq foreign \cup {minted + 1}
    BY DEF Mint, Typed
  <1>2. minted' \in Nat /\ Pairs \subseteq Pairs' /\ Rows \subseteq Rows' /\ minted + 1 \in Pairs'
        /\ minted + 1 \notin Pairs
    BY <1>1, MorePairs DEF Pairs
  <1>3. UNCHANGED <<auth, torn, up, row, cfg, disk>>
    BY DEF file
  <1> QED BY <1>1, <1>2, <1>3 DEF Typed

\* The steps of a refresh.
LEMMA TypedRefresh ==
    ASSUME Typed, Refresh \/ RefreshStarts \/ RetryStarts
    PROVE  Typed'
  <1> USE TypedParts
  <1>1. task \in Tasks /\ row \in Pairs /\ auth \in Pairs /\ Pairs \subseteq MaybePairs
        /\ None \in MaybePairs
    BY DEF Typed, MaybePairs
  <1>2. CASE RefreshStarts \/ RetryStarts
    <2>1. UNCHANGED <<authority, file, codex, memory, disk, history>>
      BY <1>2 DEF RefreshStarts, RetryStarts
    <2>2. task' \in Tasks
      BY <1>1, <1>2 DEF RefreshStarts, RetryStarts, Idle, Tasks, TaskRecords, Places, Looking, Publishing
    <2> QED BY <2>1, <2>2, TypedSteps DEF authority, file, memory, history, Typed
  <1>3. ASSUME NEW pair \in Pairs, Take(pair) PROVE pend' \in Records /\ task' \in Tasks
    BY <1>1, <1>3 DEF Take, Idle, Tasks, TaskRecords, Places
  <1>4. ASSUME NEW fresh \in BOOLEAN, Consider(fresh) PROVE Typed'
    <2> DEFINE found == NewerTokens(task.was, FALSE, FALSE)
    <2>1. found \in MaybePairs /\ task.was \in MaybePairs
      BY <1>1 DEF Tasks, TaskRecords
    <2> HIDE DEF found
    <2>2. pend' \in Records /\ task' \in Tasks
      <3>1. CASE found # None /\ Take(found)
        BY <1>1, <1>3, <2>1, <3>1 DEF MaybePairs
      <3>2. CASE /\ pend' = pend
                 /\ \E post \in MaybePairs, origin \in {"row", "file"} :
                       task' = [task EXCEPT !.at = "post", !.post = post, !.origin = origin]
        BY <1>1, <3>2 DEF Typed, Tasks, TaskRecords, Places, Looking
      <3> QED BY <1>4, <2>1, <3>1, <3>2 DEF Consider, found
    <2> QED BY <1>4, <2>2, TypedSteps DEF Consider, authority, file, history, Typed
  <1>5. ASSUME NEW fresh \in BOOLEAN, Recheck(fresh) PROVE Typed'
    <2> DEFINE found == NewerTokens(task.was, Baseline, task.error = "rejected")
    <2>1. found \in MaybePairs
      BY <1>1 DEF Tasks, TaskRecords
    <2> HIDE DEF found
    <2>2. pend' \in Records /\ task' \in Tasks
      <3>1. CASE found # None /\ Take(found)
        BY <1>1, <1>3, <2>1, <3>1 DEF MaybePairs
      <3>2. CASE pend' = pend /\ task' = [task EXCEPT !.at = "repost", !.post = found, !.origin = "file"]
        BY <1>1, <2>1, <3>2 DEF Typed, Tasks, TaskRecords, Places, Looking
      <3>3. CASE pend' = pend /\ task' = GivesUp(task.error)
        BY <3>3 DEF Typed
      <3> QED BY <1>5, <3>1, <3>2, <3>3 DEF Recheck, found
    <2> QED BY <1>5, <2>2, TypedSteps DEF Recheck, authority, file, history, Typed
  <1>6. ASSUME NEW fresh \in BOOLEAN, AfterWriteback(fresh) PROVE Typed'
    <2> DEFINE found == NewerTokens(task.was, Baseline, FALSE)
    <2>a. task.at = "after"
      BY <1>6 DEF AfterWriteback
    <2>b. task.hand \in Pairs
      BY <1>1, <2>a DEF Tasks
    <2>1. found \in MaybePairs /\ task.hand \in Pairs
      BY <1>1, <2>b
    <2> HIDE DEF found
    <2>2. pend' \in Records /\ task' \in Tasks
      <3>1. CASE found # None /\ Take(found)
        BY <1>1, <1>3, <2>1, <3>1 DEF MaybePairs
      <3>2. CASE pend' = pend /\ task' = [Idle EXCEPT !.at = "apply", !.hand = task.hand]
        BY <1>1, <2>1, <3>2 DEF Typed, Idle, Tasks, TaskRecords, Places
      <3> QED BY <1>6, <3>1, <3>2 DEF AfterWriteback, found
    <2> QED BY <1>6, <2>2, TypedSteps DEF AfterWriteback, authority, file, history, Typed
  <1>7. ASSUME NEW error \in {"rejected", "transient"}, Refused(error) PROVE task' \in Tasks
    BY <1>1, <1>7 DEF Refused, Tasks, TaskRecords, Places, Looking
  <1>8. CASE PostRejected \/ PostFails
    BY <1>7, <1>8, TypedSteps DEF PostRejected, PostFails, authority, file, memory, history, Typed
  <1>9. CASE PostAccepted \/ ReplyLost
    <2>1. Mint({task.post}, FALSE) /\ ours' = ours \cup {task.post} /\ task.post \in live
          /\ UNCHANGED <<file, codex, up, row, cfg, disk>>
      BY <1>9 DEF PostAccepted, ReplyLost, memory
    <2>2. lost' \in BOOLEAN /\ ours' \subseteq Pairs
      BY <1>9, <2>1 DEF PostAccepted, ReplyLost, Typed
    <2>3. minted' = minted + 1 /\ minted + 1 \in Pairs' /\ Pairs \subseteq Pairs'
          /\ MaybePairs \subseteq MaybePairs' /\ Tasks \subseteq Tasks' /\ Records \subseteq Records'
          /\ CodexStates \subseteq CodexStates'
      BY <2>1, MorePairs DEF Mint, Typed, Pairs
    <2>4. Source \in Pairs
      BY <2>1 DEF Source, Typed, Records
    <2>5. codex' \in CodexStates'
      BY <2>1, <2>3 DEF Typed
    <2>6. pend' \in Records' /\ task' \in Tasks'
      <3>1. CASE PostAccepted
        <4>1. pend' \in Records'
          BY <3>1, <2>3, <2>4 DEF PostAccepted, Records
        <4>2. minted + 1 \in MaybePairs' /\ task.was \in MaybePairs' /\ task.before \in MaybePairs'
              /\ None \in MaybePairs'
          BY <1>1, <2>3 DEF MaybePairs, Tasks, TaskRecords
        <4>3. task' \in Tasks'
          BY <3>1, <4>2 DEF PostAccepted, Tasks, TaskRecords, Idle, Places, Publishing
        <4> QED BY <4>1, <4>3
      <3>2. CASE ReplyLost
        BY <3>2, <1>7, <2>3 DEF ReplyLost, memory, Typed
      <3> QED BY <1>9, <3>1, <3>2
    <2> QED BY <2>1, <2>2, <2>5, <2>6, TypedMints
  <1>10. CASE ApplyRefresh
    <2>1. task' \in Tasks /\ task.hand \in Pairs
      BY <1>1, <1>10 DEF ApplyRefresh, Tasks, TaskRecords, Places
    <2> QED BY <1>10, <2>1, TypedSteps DEF ApplyRefresh, authority, file, history, Typed
  <1> QED BY <1>2, <1>4, <1>5, <1>6, <1>8, <1>9, <1>10 DEF Refresh

\* The steps of the guarded write.
LEMMA TypedWriteback ==
    ASSUME Typed, IndInv, Writeback
    PROVE  Typed'
  <1> USE TypedParts
  <1>1. task \in Tasks /\ row \in Pairs /\ auth \in Pairs /\ pend \in Records
    BY DEF Typed
  <1>2. ASSUME NEW changed, Flushed(changed) PROVE task' \in Tasks
    <2>1. task.hand # None => task.hand \in Pairs
      BY <1>1 DEF Tasks, TaskRecords, MaybePairs
    <2>2. CASE task' = [task EXCEPT !.at = "record"]
      BY <1>1, <2>2 DEF Tasks, TaskRecords, Places
    <2>3. CASE task.hand # None /\ task' = [task EXCEPT !.at = "after"]
      BY <1>1, <2>1, <2>3 DEF Tasks, TaskRecords, Places, Publishing
    <2>4. CASE task.hand # None /\ task' = [Idle EXCEPT !.at = "apply", !.hand = task.hand]
      BY <1>1, <2>1, <2>4 DEF Tasks, TaskRecords, Places, Idle
    <2> QED BY <1>2, <2>2, <2>3, <2>4 DEF Flushed
  <1>3. CASE WritebackReads \/ WritebackCompares
    <2>1. UNCHANGED <<authority, auth, torn, codex, memory, disk, history>>
      BY <1>3 DEF WritebackReads, WritebackCompares
    <2>2. \E place \in {"compare", "rename", "settle"} : task' = [task EXCEPT !.at = place]
      BY <1>3 DEF WritebackReads, WritebackCompares
    <2>3. task' \in Tasks
      BY <1>1, <2>2 DEF Tasks, TaskRecords, Places, Publishing
    <2> QED BY <2>1, <2>3, TypedSteps DEF authority, memory, history, Typed
  <1>4. CASE WritebackRenames
    <2>1. pend.tok \in Pairs
      BY <1>1, <1>4 DEF WritebackRenames, IndInv, WriterHasSource, Records
    <2> QED BY <1>2, <1>4, <2>1, TypedSteps DEF WritebackRenames, authority, history, Typed
  <1>5. CASE WritebackFails
    BY <1>2, <1>5, TypedSteps DEF WritebackFails, authority, memory, history, Typed
  <1>6. ASSUME NEW fresh \in BOOLEAN, WritebackSettles(fresh) PROVE Typed'
    <2> DEFINE found == NewerTokens(pend.tok, FALSE, FALSE)
    <2>1. found = None \/ found \in Pairs
      BY <1>1
    <2> HIDE DEF found
    <2>2. pend' \in Records /\ row' \in Pairs
      BY <1>1, <1>6, <2>1 DEF WritebackSettles, found
    <2> QED BY <1>2, <1>6, <2>2, TypedSteps DEF WritebackSettles, authority, file, history, Typed
  <1> QED BY <1>3, <1>4, <1>5, <1>6 DEF Writeback

\* The config file and the process.
LEMMA TypedSaving ==
    ASSUME Typed, Saving \/ Process
    PROVE  Typed'
  <1> USE TypedParts
  <1>1. /\ task \in Tasks /\ row \in Pairs /\ pend \in Records /\ cfg \in Rows /\ disk \in Rows
        /\ lost \in BOOLEAN /\ up \in BOOLEAN
    BY DEF Typed
  <1>2. pend.src \in MaybePairs
    BY <1>1 DEF Records, NoRecord, MaybePairs
  <1>3. ASSUME NEW pair \in Pairs, NEW written, Persist(pair, written)
        PROVE  cfg' \in Rows /\ disk' \in Rows
    BY <1>1, <1>2, <1>3 DEF Persist, Rows
  <1>4. ASSUME NEW source \in MaybePairs, NEW written, Record(source, written)
        PROVE  cfg' \in Rows /\ disk' \in Rows
    BY <1>1, <1>4 DEF Record, Rows
  <1>5. ASSUME NEW written \in BOOLEAN, PersistTokens(written) PROVE Typed'
    <2>1. task.hand \in Pairs
      BY <1>1, <1>5 DEF PersistTokens, Tasks
    <2> QED BY <1>1, <1>3, <1>5, <2>1, TypedSteps DEF PersistTokens, authority, file, history, Typed
  <1>6. ASSUME NEW written \in BOOLEAN, RetryRecords(written) PROVE Typed'
    BY <1>1, <1>2, <1>3, <1>4, <1>6, TypedSteps DEF RetryRecords, authority, file, history, Typed
  <1>7. ASSUME NEW written \in BOOLEAN, Condemn(written) PROVE Typed'
    <2>1. None \in MaybePairs
      BY DEF MaybePairs
    <2> QED BY <1>1, <1>4, <1>7, <2>1, TypedSteps DEF Condemn, authority, file, history, Typed
  <1>8. ASSUME disk' \in {disk, cfg}, Ends PROVE Typed'
    <2>1. lost' \in BOOLEAN
      BY <1>1, <1>8 DEF Ends
    <2>2. disk' \in Rows /\ disk'.tok \in Pairs
      BY <1>1, <1>8 DEF Rows
    <2> QED BY <1>8, <2>1, <2>2, TypedSteps DEF Ends, authority, Typed
  <1>9. CASE Boot
    <2>1. pend' \in Records
      BY <1>1, <1>9 DEF Boot, Records, Rows, MaybePairs
    <2> QED BY <1>9, <2>1, TypedSteps DEF Boot, authority, file, history, Typed
  <1> QED BY <1>5, <1>6, <1>7, <1>8, <1>9 DEF Saving, Process, Crash, Shutdown

\* Codex.
LEMMA TypedCodex ==
    ASSUME Typed, Codex
    PROVE  Typed'
  <1>1. CASE CodexReads \/ CodexRejected \/ CodexTruncates \/ CodexWrites \/ CodexTouches
    <2>1. UNCHANGED <<authority, memory, disk, task, history>>
      BY <1>1 DEF CodexReads, CodexRejected, CodexTruncates, CodexWrites, CodexTouches, file
    <2>2. /\ auth' \in Pairs /\ torn' \in BOOLEAN
          /\ codex' \in CodexStates
      <3>1. auth \in Pairs /\ torn \in BOOLEAN /\ codex \in CodexStates
            /\ (codex.at # "idle" => codex.tok \in Pairs)
        BY DEF Typed, CodexStates
      <3>2. CASE CodexReads
        BY <3>1, <3>2 DEF CodexReads, file, CodexAt, CodexStates
      <3>3. CASE CodexRejected \/ CodexTouches
        BY <1>1, <3>1, <3>3 DEF CodexRejected, CodexTouches, file, CodexAt, CodexStates
      <3>4. CASE CodexTruncates
        BY <3>1, <3>4 DEF CodexTruncates, CodexAt, CodexStates
      <3>5. CASE CodexWrites
        BY <3>1, <3>5 DEF CodexWrites, CodexAt, CodexStates
      <3> QED BY <1>1, <3>2, <3>3, <3>4, <3>5
    <2>3. Pairs' = Pairs /\ MaybePairs' = MaybePairs /\ Tasks' = Tasks /\ Records' = Records
          /\ Rows' = Rows /\ CodexStates' = CodexStates
      BY <2>1 DEF authority, Pairs, MaybePairs, Tasks, TaskRecords, Records, Rows, CodexStates
    <2> QED BY <2>1, <2>2, <2>3 DEF authority, memory, history, Typed
  <1>2. ASSUME NEW spent, NEW alien, Mint(spent, alien), CodexAt("write", minted + 1),
               UNCHANGED <<file, memory, disk, task, history>>
        PROVE  Typed'
    <2>1. /\ minted + 1 \in Pairs' /\ Pairs \subseteq Pairs' /\ Records \subseteq Records'
          /\ Tasks \subseteq Tasks'
      BY <1>2, MorePairs DEF Mint, Typed, Pairs
    <2>2. codex' \in CodexStates'
      BY <1>2, <2>1 DEF CodexAt, CodexStates
    <2>3. pend' \in Records' /\ task' \in Tasks' /\ ours' \subseteq Pairs /\ lost' \in BOOLEAN
      BY <1>2, <2>1 DEF memory, history, Typed
    <2> QED BY <1>2, <2>2, <2>3, TypedMints DEF memory
  <1> QED BY <1>1, <1>2 DEF Codex, CodexRefreshes, CodexSignsIn

-----------------------------------------------------------------------------
\* The newest pair tcr has of this login: in the hand of a refresh, or the row's.
Current == IF task.hand = None THEN row ELSE task.hand

\* The file holds a pair that tcr has spent, and nothing was lost so far.
FileSpent == ~lost /\ ~torn /\ auth \in ours

\* Then tcr's own pair is newer and works, Codex does not have it, and the
\* replacement is pending: in memory, or on disk while no process runs.
Pending ==
    FileSpent =>
        /\ Current \in live /\ auth < Current
        /\ codex.at = "post" => codex.tok # Current
        /\ IF up THEN pend.src = auth /\ pend.tok = Current
           ELSE disk.src = auth /\ disk.tok = Current

\* Wherever that pair was saved, its source was saved beside it.
OnRecord ==
    FileSpent => /\ cfg.tok = Current => cfg.src = auth
                 /\ disk.tok = Current => disk.src = auth

\* What Codex is about to write, nobody else has.
Unread ==
    codex.at \in {"write", "finish"} =>
        codex.tok \notin ours \cup {auth, row, task.hand, task.post, pend.tok, cfg.tok, disk.tok}

\* Inside the two looks the pair to be written works and has not left tcr.
Writing ==
    task.at \in {"compare", "rename"} /\ ~lost =>
        /\ pend.tok \in live /\ auth # pend.tok
        /\ codex.at = "post" => codex.tok # pend.tok

\* What a refresh that may still post knows of the file.
Looks ==
    task.at \in Looking =>
        /\ task.was = row /\ task.hand = None
        /\ task.before = task.was /\ auth # task.was => ~FileSpent
        /\ task.before # task.was => torn \/ auth # task.was
        /\ task.at # "consider" =>
              /\ task.post \in Pairs
              /\ task.post # task.was => ~FileSpent /\ task.origin = "file"
              /\ task.post = task.was => (task.origin = "file" <=> task.before = task.was)
              /\ task.at = "recheck" /\ task.error = "rejected" => task.post \notin live

\* What the other places know, and what a pair in hand may be.
Hands ==
    /\ task.at \in {"settle", "after", "condemn"} => ~FileSpent
    /\ task.at = "persist" => row = task.hand
    /\ task.hand # None => task.at \in Publishing \cup {"apply", "persist"}
    /\ task.hand \notin foreign /\ (~lost => task.hand \notin ours)
    /\ ~up => task = Idle /\ row = disk.tok /\ cfg = disk

PendInv == IndInv /\ Typed /\ Pending /\ OnRecord /\ Unread /\ Writing /\ Looks /\ Hands

\* The states before the first step.
LEMMA InitPend == Init => PendInv
  <1> SUFFICES ASSUME Init PROVE PendInv
    OBVIOUS
  <1>1. ours = {} /\ foreign = {} /\ up /\ task = Idle /\ codex.at = "idle" /\ ~lost
    BY DEF Init
  <1>2. Idle.at = "idle" /\ Idle.hand = None
    BY DEF Idle
  <1>3. Pending /\ OnRecord /\ Looks /\ Hands
    BY <1>1, <1>2 DEF Pending, OnRecord, Looks, Hands, FileSpent, Looking
  <1>4. Unread /\ Writing
    BY <1>1, <1>2 DEF Unread, Writing
  <1> QED BY <1>3, <1>4, InitInd, InitTyped DEF PendInv

\* What was issued in a later second was minted later.
LEMMA IssuedIsMinted ==
    ASSUME Typed, NEW previous \in Pairs, IssuedAfter(auth, previous)
    PROVE  auth > previous
  BY DEF IssuedAfter, Typed, Pairs

\* No pair is None.
LEMMA PairsAreReal == None \notin Pairs
  BY CodexAssumption DEF Pairs

\* A step of a task that writes neither the config nor auth.json.
LEMMA TaskSteps ==
    ASSUME PendInv, IndInv', Typed',
           UNCHANGED <<minted, live, foreign, auth, torn, codex, ours, lost, cfg, disk>>, up, up',
           FileSpent => Current' = Current /\ pend' = pend,
           row' \in {row, task.hand, auth},
           task'.hand \in {None, task.hand, auth},
           task'.post \in {None, task.post, row, auth},
           pend' \in {pend, NoRecord},
           Writing', Looks', Hands'
    PROVE  PendInv'
  <1>1. FileSpent' = FileSpent
    BY DEF FileSpent
  <1>2. Pending' /\ OnRecord'
    BY <1>1 DEF PendInv, Pending, OnRecord
  <1>3. Unread'
    <2> SUFFICES ASSUME codex.at \in {"write", "finish"} PROVE Unread'
      BY DEF Unread
    <2>1. codex.tok \in Pairs
      BY DEF PendInv, Typed, CodexStates
    <2>2. codex.tok # None
      BY <2>1, PairsAreReal
    <2> QED BY <2>2 DEF PendInv, Unread, NoRecord
  <1> QED BY <1>2, <1>3 DEF PendInv

\* A refresh or a retry starts.
LEMMA PendStarts ==
    ASSUME PendInv, IndInv', Typed', RefreshStarts \/ RetryStarts
    PROVE  PendInv'
  <1>1. /\ UNCHANGED <<authority, file, codex, memory, disk, history>>
        /\ up /\ task = Idle
        /\ \/ /\ task' = [Idle EXCEPT !.at = "consider", !.was = row,
                                      !.before = IF torn THEN None ELSE auth]
           \/ task' = [Idle EXCEPT !.at = "read", !.was = row]
    BY DEF RefreshStarts, RetryStarts
  <1>2. UNCHANGED <<minted, live, foreign, auth, torn, codex, ours, lost, cfg, disk, row, pend>> /\ up'
    BY <1>1 DEF authority, file, memory, history
  <1>3. /\ task.hand = None /\ task'.hand = None /\ task'.post = None
        /\ task'.at = "read" \/ (/\ task'.at = "consider" /\ task'.was = row
                                 /\ task'.before = IF torn THEN None ELSE auth)
    BY <1>1 DEF Idle
  <1>4. Current' = Current
    BY <1>2, <1>3 DEF Current
  <1>5. row \in Pairs /\ None \notin Pairs /\ foreign \subseteq Pairs /\ ours \subseteq Pairs
    BY PairsAreReal DEF PendInv, Typed
  <1>6. Looks'
    BY <1>2, <1>3, <1>5 DEF Looks, Looking
  <1>7. Hands' /\ Writing'
    BY <1>1, <1>2, <1>3, <1>5 DEF Hands, Writing
  <1> QED BY <1>1, <1>2, <1>3, <1>4, <1>6, <1>7, TaskSteps

\* A pair is taken from a file that tcr has not spent.
LEMMA PendTakes ==
    ASSUME PendInv, IndInv', Typed', ~FileSpent, ~torn, auth \notin foreign, Take(auth), up, up',
           UNCHANGED <<minted, live, foreign, auth, torn, codex, ours, lost, cfg, disk, row>>
    PROVE  PendInv'
  <1>1. pend' = NoRecord /\ task'.at = "apply" /\ task'.hand = auth /\ task'.post = None
    BY DEF Take, Idle
  <1>2. ~lost => auth \notin ours
    BY DEF FileSpent
  <1>3. Looks' /\ Hands' /\ Writing'
    BY <1>1, <1>2 DEF Looks, Looking, Hands, Writing
  <1> QED BY <1>1, <1>3, TaskSteps

\* The first look at the file.
LEMMA PendConsider ==
    ASSUME PendInv, IndInv', Typed', NEW fresh \in BOOLEAN, Consider(fresh)
    PROVE  PendInv'
  <1> DEFINE found == NewerTokens(task.was, FALSE, FALSE)
             post == IF found = None THEN task.was ELSE found
             origin == IF found # None \/ task.before = post THEN "file" ELSE "row"
  <1>1. /\ UNCHANGED <<minted, live, foreign, auth, torn, codex, ours, lost, cfg, disk, row>>
        /\ up /\ up' /\ task.at = "consider"
    BY DEF Consider, authority, file, history
  <1>2. task.was = row /\ task.hand = None /\ task.was \in Pairs /\ task \in Tasks
    BY <1>1 DEF PendInv, Looks, Looking, Typed
  <1>3. found # None => found = auth /\ ~torn /\ auth \notin foreign /\ auth > task.was
    BY <1>2, IssuedIsMinted DEF PendInv, NewerTokens
  <1>4. found # None => ~FileSpent
    <2>1. FileSpent => auth < row
      BY <1>2 DEF PendInv, Pending, Current
    <2> QED BY <1>2, <1>3, <2>1 DEF PendInv, Typed, Pairs
  <1>5. \/ found # None /\ Take(found)
        \/ /\ task' = [task EXCEPT !.at = "post", !.post = post, !.origin = origin]
           /\ pend' = pend
    BY DEF Consider
  <1> HIDE DEF found
  <1>6. CASE found # None /\ Take(found)
    BY <1>1, <1>3, <1>4, <1>6, PendTakes
  <1>7. CASE /\ task' = [task EXCEPT !.at = "post", !.post = post, !.origin = origin]
             /\ pend' = pend
    <2>1. /\ task'.at = "post" /\ task'.post = post /\ task'.origin = origin /\ task'.hand = None
          /\ task'.was = task.was /\ task'.before = task.before
      BY <1>2, <1>7 DEF Tasks, TaskRecords
    <2>2. post \in Pairs /\ (post = task.was \/ found # None)
      BY <1>1, <1>2, <1>3 DEF PendInv, Typed
    <2>3. FileSpent' = FileSpent /\ Current' = Current
      BY <1>1, <1>2, <2>1 DEF FileSpent, Current
    <2>4. (found # None => auth # task.was) /\ minted' = minted
      BY <1>1, <1>2, <1>3 DEF PendInv, Typed, Pairs
    <2>5. Pairs' = Pairs
      BY <1>1 DEF Pairs
    <2>6. Looks'
      BY <1>1, <1>2, <1>3, <1>4, <2>1, <2>2, <2>3, <2>4, <2>5 DEF Looks, Looking, PendInv
    <2>7. Hands' /\ Writing'
      BY <1>1, <1>2, <2>1 DEF Hands, Writing, PendInv
    <2>8. task'.post \in {row, auth}
      BY <1>2, <1>3, <2>1
    <2> QED BY <1>1, <1>2, <1>7, <2>1, <2>3, <2>6, <2>7, <2>8, TaskSteps
  <1> QED BY <1>5, <1>6, <1>7

\* A failed exchange: the second look, or the end of the refresh.
LEMMA RefusedFields ==
    ASSUME PendInv, Posting, NEW error \in {"rejected", "transient"}, Refused(error)
    PROVE  /\ task.hand = None /\ task'.hand = None /\ task'.post \in {None, task.post}
           /\ \/ /\ task'.at = "recheck" /\ task'.error = error /\ task'.post = task.post
                 /\ task'.was = task.was /\ task'.before = task.before /\ task'.origin = task.origin
              \/ task'.at = "condemn" /\ error = "rejected"
              \/ task'.at = "idle"
  <1>1. task \in Tasks /\ task.hand = None
    BY DEF PendInv, Typed, Posting, Looks, Looking
  <1>2. CASE task' = [task EXCEPT !.at = "recheck", !.error = error]
    BY <1>1, <1>2 DEF Tasks, TaskRecords
  <1>3. CASE task' = GivesUp(error)
    BY <1>1, <1>3 DEF GivesUp, Idle
  <1> QED BY <1>2, <1>3 DEF Refused

\* The exchange fails or is rejected.
LEMMA PendRefused ==
    ASSUME PendInv, IndInv', Typed', PostRejected \/ PostFails
    PROVE  PendInv'
  <1>1. /\ UNCHANGED <<minted, live, foreign, auth, torn, codex, ours, lost, cfg, disk, row, pend>>
        /\ up /\ up' /\ task.at \in {"post", "repost"} /\ Posting
    BY DEF PostRejected, PostFails, Posting, authority, file, memory, history
  <1>2. PICK error \in {"rejected", "transient"} :
            Refused(error) /\ (error = "rejected" => task.post \notin live)
    BY DEF PostRejected, PostFails
  <1>3. /\ task.hand = None /\ task'.hand = None /\ task'.post \in {None, task.post}
        /\ \/ /\ task'.at = "recheck" /\ task'.error = error /\ task'.post = task.post
              /\ task'.was = task.was /\ task'.before = task.before /\ task'.origin = task.origin
           \/ task'.at = "condemn" /\ error = "rejected"
           \/ task'.at = "idle"
    BY <1>1, <1>2, RefusedFields
  <1>4. FileSpent' = FileSpent /\ Current' = Current /\ Pairs' = Pairs
    BY <1>1, <1>3 DEF FileSpent, Current, Pairs
  <1>5. Looks'
    BY <1>1, <1>2, <1>3, <1>4 DEF PendInv, Looks, Looking
  <1>6. error = "rejected" => ~FileSpent
    <2>1. task.post # task.was => ~FileSpent
      BY <1>1 DEF PendInv, Looks, Looking
    <2>2. task.was = row /\ Current = row
      BY <1>1, <1>3 DEF PendInv, Looks, Looking, Current
    <2> QED BY <1>2, <2>1, <2>2 DEF PendInv, Pending
  <1>7. None \notin foreign /\ None \notin ours
    BY PairsAreReal DEF PendInv, Typed
  <1>8. Hands' /\ Writing'
    BY <1>1, <1>3, <1>4, <1>6, <1>7 DEF Hands, Writing
  <1> QED BY <1>1, <1>3, <1>4, <1>5, <1>8, TaskSteps

\* The second look at the file.
LEMMA PendRecheck ==
    ASSUME PendInv, IndInv', Typed', NEW fresh \in BOOLEAN, Recheck(fresh)
    PROVE  PendInv'
  <1> DEFINE found == NewerTokens(task.was, Baseline, task.error = "rejected")
  <1>1. /\ UNCHANGED <<minted, live, foreign, auth, torn, codex, ours, lost, cfg, disk, row>>
        /\ up /\ up' /\ task.at = "recheck"
    BY DEF Recheck, authority, file, history
  <1>2. /\ task.was = row /\ task.hand = None /\ task.was \in Pairs /\ task \in Tasks
        /\ Current = row
    BY <1>1 DEF PendInv, Looks, Looking, Typed, Current
  <1>3. task.error = "rejected" => ~FileSpent
    BY <1>1, <1>2 DEF PendInv, Looks, Looking, Pending
  <1>4. found # None => found = auth /\ ~torn /\ auth \notin foreign /\ auth # task.was
    BY DEF NewerTokens
  <1>5. found # None => ~FileSpent
    <2>1. found # None => auth > task.was \/ Baseline \/ task.error = "rejected"
      BY <1>2, IssuedIsMinted DEF PendInv, NewerTokens
    <2>2. auth > task.was => ~FileSpent
      BY <1>2 DEF PendInv, Pending, Typed, Pairs
    <2>3. found # None /\ Baseline => ~FileSpent
      BY <1>1, <1>4 DEF PendInv, Looks, Looking, Baseline
    <2> QED BY <1>3, <2>1, <2>2, <2>3
  <1>6. \/ pend' = pend /\ task' = GivesUp(task.error)
        \/ found # None /\ Take(found)
        \/ /\ found # None /\ pend' = pend
           /\ task' = [task EXCEPT !.at = "repost", !.post = found, !.origin = "file"]
    BY DEF Recheck
  <1> HIDE DEF found
  <1>7. CASE found # None /\ Take(found)
    BY <1>1, <1>4, <1>5, <1>7, PendTakes
  <1>8. CASE pend' = pend /\ task' = GivesUp(task.error)
    <2>1. /\ task'.at = "idle" \/ (task'.at = "condemn" /\ task.error = "rejected")
          /\ task'.hand = None /\ task'.post = None
      BY <1>8 DEF GivesUp, Idle
    <2>2. Current' = Current /\ FileSpent' = FileSpent
      BY <1>1, <1>2, <2>1 DEF Current, FileSpent
    <2>3. Looks' /\ Writing'
      BY <2>1 DEF Looks, Looking, Writing
    <2>4. Hands'
      BY <1>1, <1>2, <1>3, <2>1, <2>2 DEF PendInv, Hands
    <2> QED BY <1>1, <1>8, <2>1, <2>2, <2>3, <2>4, TaskSteps
  <1>9. CASE /\ found # None /\ pend' = pend
             /\ task' = [task EXCEPT !.at = "repost", !.post = found, !.origin = "file"]
    <2>1. /\ task'.at = "repost" /\ task'.post = auth /\ task'.origin = "file" /\ task'.hand = None
          /\ task'.was = task.was /\ task'.before = task.before
      BY <1>2, <1>4, <1>9 DEF Tasks, TaskRecords
    <2>2. Current' = Current /\ ~FileSpent /\ ~FileSpent' /\ auth \in Pairs /\ Pairs' = Pairs
      BY <1>1, <1>2, <1>5, <1>9, <2>1 DEF Current, FileSpent, PendInv, Typed, Pairs
    <2>3. Looks'
      BY <1>1, <1>2, <1>4, <1>9, <2>1, <2>2 DEF PendInv, Looks, Looking
    <2>4. Hands' /\ Writing'
      BY <1>1, <1>2, <2>1 DEF PendInv, Hands, Writing
    <2> QED BY <1>1, <1>9, <2>1, <2>2, <2>3, <2>4, TaskSteps
  <1> QED BY <1>6, <1>7, <1>8, <1>9

\* The look after a write that found another token, and the row.
LEMMA PendApplies ==
    ASSUME PendInv, IndInv', Typed',
           ApplyRefresh \/ \E fresh \in BOOLEAN : AfterWriteback(fresh)
    PROVE  PendInv'
  <1>1. ASSUME NEW fresh \in BOOLEAN, AfterWriteback(fresh) PROVE PendInv'
    <2> DEFINE found == NewerTokens(task.was, Baseline, FALSE)
    <2>1. /\ UNCHANGED <<minted, live, foreign, auth, torn, codex, ours, lost, cfg, disk, row>>
          /\ up /\ up' /\ task.at = "after" /\ ~FileSpent
      BY <1>1 DEF AfterWriteback, authority, file, history, PendInv, Hands
    <2>2. found # None => found = auth /\ ~torn /\ auth \notin foreign
      BY DEF NewerTokens
    <2>3. \/ found # None /\ Take(found)
          \/ task' = [Idle EXCEPT !.at = "apply", !.hand = task.hand] /\ pend' = pend
      BY <1>1 DEF AfterWriteback
    <2> HIDE DEF found
    <2>4. CASE found # None /\ Take(found)
      BY <2>1, <2>2, <2>4, PendTakes
    <2>5. CASE task' = [Idle EXCEPT !.at = "apply", !.hand = task.hand] /\ pend' = pend
      <3>1. task'.at = "apply" /\ task'.hand = task.hand /\ task'.post = None
        BY <2>5 DEF Idle
      <3>2. Looks' /\ Hands' /\ Writing'
        BY <2>1, <3>1 DEF PendInv, Looks, Looking, Hands, Writing
      <3> QED BY <2>1, <2>5, <3>1, <3>2, TaskSteps
    <2> QED BY <2>3, <2>4, <2>5
  <1>2. CASE ApplyRefresh
    <2>1. /\ UNCHANGED <<minted, live, foreign, auth, torn, codex, ours, lost, cfg, disk, pend>>
          /\ up /\ up' /\ row' = task.hand
      BY <1>2 DEF ApplyRefresh, authority, file, history
    <2>2. /\ task'.at = "persist" /\ task'.hand = task.hand /\ task'.post = task.post
          /\ task.hand \in Pairs
      BY <1>2 DEF ApplyRefresh, PendInv, Typed, Tasks, TaskRecords
    <2>3. Current' = Current
      BY <2>1, <2>2, PairsAreReal DEF Current
    <2>4. Looks' /\ Hands' /\ Writing'
      BY <2>1, <2>2 DEF PendInv, Looks, Looking, Hands, Writing
    <2> QED BY <2>1, <2>2, <2>3, <2>4, TaskSteps
  <1> QED BY <1>1, <1>2

\* A pair minted now is none of the pairs anybody has.
LEMMA MintIsNew ==
    ASSUME PendInv, NEW spent, NEW alien, Mint(spent, alien)
    PROVE  /\ minted + 1 \notin Pairs /\ minted + 1 \in live' /\ minted + 1 \notin ours
           /\ live \ spent \subseteq live' /\ live' \subseteq live \cup {minted + 1}
           /\ \A pair \in Pairs : pair < minted + 1
           /\ foreign' \subseteq foreign \cup (IF alien THEN {minted + 1} ELSE {})
           /\ minted + 1 # None
  <1>1. minted \in Nat /\ ours \subseteq Pairs
    BY DEF PendInv, Typed
  <1>2. minted + 1 \notin Pairs /\ (\A pair \in Pairs : pair < minted + 1)
    BY <1>1 DEF Pairs
  <1>3. minted + 1 # None
    BY <1>1, CodexAssumption
  <1> QED BY <1>1, <1>2, <1>3 DEF Mint

\* The exchange succeeds: whatever the file holds that is spent now is the source.
LEMMA PendAccepted ==
    ASSUME PendInv, IndInv', Typed', PostAccepted
    PROVE  PendInv'
  <1>1. /\ Mint({task.post}, FALSE) /\ task.post \in live /\ ours' = ours \cup {task.post}
        /\ UNCHANGED <<auth, torn, codex, row, cfg, disk, lost>> /\ up /\ up'
        /\ pend' = [src |-> Source, tok |-> minted + 1] /\ task.at \in {"post", "repost"}
    BY DEF PostAccepted, Posting, file
  <1>2. task'.at = "read" /\ task'.hand = minted + 1 /\ task'.post = None
    BY DEF PostAccepted, Idle
  <1>3. /\ minted + 1 \notin Pairs /\ minted + 1 \in live' /\ minted + 1 \notin ours
        /\ \A pair \in Pairs : pair < minted + 1
        /\ foreign' \subseteq foreign /\ minted + 1 # None
    BY <1>1, MintIsNew
  <1>4. /\ auth \in Pairs /\ task.post \in Pairs /\ row \in Pairs /\ foreign \subseteq Pairs
        /\ cfg.tok \in Pairs /\ disk.tok \in Pairs /\ codex \in CodexStates
    BY <1>1 DEF PendInv, Typed, Rows
  <1>5. Current' = minted + 1 /\ minted + 1 \notin ours'
    BY <1>1, <1>2, <1>3, <1>4 DEF Current
  <1>6. FileSpent' => Source = auth
    <2> SUFFICES ASSUME ~lost, ~torn, auth \in ours \cup {task.post} PROVE Source = auth
      BY <1>1 DEF FileSpent
    <2>1. /\ task.was = row /\ task.hand = None
          /\ task.before = task.was /\ auth # task.was => ~FileSpent
          /\ task.before # task.was => auth # task.was
          /\ task.post # task.was => ~FileSpent /\ task.origin = "file"
          /\ task.post = task.was => (task.origin = "file" <=> task.before = task.was)
      BY <1>1 DEF PendInv, Looks, Looking
    <2>2. task.origin \in {"row", "file"}
      BY DEF PendInv, Typed, Tasks, TaskRecords
    <2>3. CASE ~FileSpent
      <3>1. auth = task.post
        BY <2>3 DEF FileSpent
      <3>2. task.origin = "file"
        BY <2>1, <2>2, <3>1
      <3> QED BY <3>1, <3>2 DEF Source
    <2>4. CASE FileSpent
      <3>1. task.post = task.was /\ Current = row
        BY <2>1, <2>4 DEF Current
      <3>2. pend.src = auth /\ pend.tok = row /\ row \in live
        BY <1>1, <2>4, <3>1 DEF PendInv, Pending
      <3>3. auth # row
        BY <1>4, <2>4, <3>1 DEF PendInv, Pending, Pairs, Typed
      <3>4. task.origin = "row"
        BY <2>1, <2>2, <2>4, <3>1, <3>3
      <3>5. pend # NoRecord
        BY <1>4, <3>2, PairsAreReal DEF NoRecord
      <3> QED BY <2>1, <3>1, <3>2, <3>4, <3>5 DEF Source
    <2> QED BY <2>3, <2>4
  <1>7. Pending'
    <2>1. codex.at = "post" => codex.tok # minted + 1
      BY <1>3, <1>4 DEF CodexStates
    <2> QED BY <1>1, <1>3, <1>4, <1>5, <1>6, <2>1 DEF Pending
  <1>8. OnRecord' /\ Writing' /\ Looks'
    BY <1>1, <1>2, <1>3, <1>4, <1>5 DEF OnRecord, Writing, Looks, Looking
  <1>9. Unread'
    <2> SUFFICES ASSUME codex.at \in {"write", "finish"} PROVE Unread'
      BY <1>1 DEF Unread
    <2>1. codex.tok \in Pairs /\ codex.tok # None /\ codex.tok # minted + 1
      BY <1>3, <1>4, PairsAreReal DEF CodexStates
    <2> QED BY <1>1, <1>2, <2>1 DEF PendInv, Unread
  <1>10. Hands'
    BY <1>1, <1>2, <1>3, <1>4, <1>5 DEF Hands, Publishing
  <1> QED BY <1>7, <1>8, <1>9, <1>10 DEF PendInv

\* The answer is lost: of what is promised, only what Codex has is left.
LEMMA PendReplyLost ==
    ASSUME PendInv, IndInv', Typed', ReplyLost
    PROVE  PendInv'
  <1>1. /\ Mint({task.post}, FALSE) /\ task.post \in live /\ ours' = ours \cup {task.post}
        /\ UNCHANGED <<auth, torn, codex, row, pend, cfg, disk>> /\ up /\ up' /\ lost' = TRUE
        /\ Posting /\ Refused("transient")
    BY DEF ReplyLost, Posting, file, memory
  <1>2. /\ task.hand = None /\ task'.hand = None /\ task'.post \in {None, task.post}
        /\ \/ /\ task'.at = "recheck" /\ task'.error = "transient" /\ task'.post = task.post
              /\ task'.was = task.was /\ task'.before = task.before /\ task'.origin = task.origin
           \/ task'.at = "idle"
    BY <1>1, RefusedFields
  <1>3. ~FileSpent' /\ Pairs \subseteq Pairs' /\ foreign' \subseteq foreign
    BY <1>1, MintIsNew, MorePairs DEF FileSpent, Mint, PendInv
  <1>4. Pending' /\ OnRecord' /\ Writing'
    BY <1>1, <1>3 DEF Pending, OnRecord, Writing
  <1>5. Looks'
    BY <1>1, <1>2, <1>3 DEF PendInv, Looks, Looking, Posting
  <1>6. Hands'
    BY <1>1, <1>2, <1>3 DEF PendInv, Hands
  <1>7. Unread'
    <2> SUFFICES ASSUME codex.at \in {"write", "finish"} PROVE Unread'
      BY <1>1 DEF Unread
    <2>1. codex.tok # None
      BY PairsAreReal DEF CodexStates, PendInv, Typed
    <2> QED BY <1>1, <1>2, <2>1 DEF PendInv, Unread
  <1> QED BY <1>4, <1>5, <1>6, <1>7 DEF PendInv

\* Where the write ends.
LEMMA FlushedFields ==
    ASSUME Typed, Flushed(TRUE) \/ Flushed(FALSE)
    PROVE  /\ task'.at \in {"record", "apply", "after"} /\ task'.hand = task.hand
           /\ task'.post \in {None, task.post}
           /\ Flushed(FALSE) => task'.at # "after"
           /\ task.hand # None <=> task'.at # "record"
  <1>1. task \in Tasks
    BY DEF Typed
  <1> QED BY <1>1 DEF Flushed, Idle, Tasks, TaskRecords

\* The guarded write.
LEMMA PendWriteback ==
    ASSUME PendInv, IndInv', Typed', Writeback
    PROVE  PendInv'
  <1>1. CASE WritebackReads \/ WritebackCompares
    <2>1. /\ UNCHANGED <<minted, live, foreign, auth, torn, codex, ours, lost, cfg, disk, row, pend>>
          /\ up /\ up' /\ task.at \in {"read", "compare"}
      BY <1>1 DEF WritebackReads, WritebackCompares, authority, memory, history
    <2>2. PICK place \in {"compare", "rename", "settle"} :
              /\ task' = [task EXCEPT !.at = place]
              /\ place = "settle" => ~torn /\ auth # pend.src
              /\ place = "compare" => ~torn /\ auth = pend.src
              /\ place = "rename" => task.at = "compare"
      BY <1>1 DEF WritebackReads, WritebackCompares
    <2>3. task'.at = place /\ task'.hand = task.hand /\ task'.post = task.post
      BY <2>2 DEF PendInv, Typed, Tasks, TaskRecords
    <2>4. Current' = Current /\ FileSpent' = FileSpent
      BY <2>1, <2>3 DEF Current, FileSpent
    <2>5. place = "settle" => ~FileSpent
      BY <2>1, <2>2 DEF PendInv, Pending
    <2>6. Writing'
      <3>1. CASE place = "compare"
        <4>1. ~lost => FileSpent
          BY <2>1, <2>2, <3>1 DEF FileSpent, PendInv, IndInv, WriterHasSource, SourcesAreSpent
        <4>2. FileSpent => pend.tok = Current /\ auth # Current
          BY <2>1 DEF PendInv, Pending, Typed, Pairs, Current, Tasks, TaskRecords, MaybePairs
        <4> QED BY <2>1, <4>1, <4>2 DEF PendInv, Pending, Writing
      <3>2. CASE place = "rename"
        BY <2>1, <2>2, <3>2 DEF PendInv, Writing
      <3>3. CASE place = "settle"
        BY <2>3, <3>3 DEF Writing
      <3> QED BY <3>1, <3>2, <3>3
    <2>7. Looks' /\ Hands'
      BY <2>1, <2>3, <2>4, <2>5 DEF PendInv, Looks, Looking, Hands, Publishing
    <2> QED BY <2>1, <2>3, <2>4, <2>6, <2>7, TaskSteps
  <1>2. CASE WritebackFails
    <2>1. /\ UNCHANGED <<minted, live, foreign, auth, torn, codex, ours, lost, cfg, disk, row, pend>>
          /\ up /\ up' /\ Flushed(FALSE)
      BY <1>2 DEF WritebackFails, authority, memory, history
    <2>2. /\ task'.at \in {"record", "apply"} /\ task'.hand = task.hand
          /\ task'.post \in {None, task.post} /\ (task.hand # None => task'.at = "apply")
      BY <2>1, FlushedFields DEF PendInv
    <2>3. Current' = Current
      BY <2>1, <2>2 DEF Current
    <2>4. Looks' /\ Hands' /\ Writing'
      BY <2>1, <2>2 DEF PendInv, Looks, Looking, Hands, Writing
    <2> QED BY <2>1, <2>2, <2>3, <2>4, TaskSteps
  <1>3. ASSUME NEW fresh \in BOOLEAN, WritebackSettles(fresh) PROVE PendInv'
    <2> DEFINE found == NewerTokens(pend.tok, FALSE, FALSE)
    <2>1. /\ UNCHANGED <<minted, live, foreign, auth, torn, codex, ours, lost, cfg, disk>>
          /\ up /\ up' /\ Flushed(TRUE) /\ ~FileSpent
      BY <1>3 DEF WritebackSettles, authority, file, history, PendInv, Hands
    <2>2. found \in {None, auth}
      BY DEF NewerTokens
    <2> HIDE DEF found
    <2>3. row' \in {row, auth} /\ pend' \in {pend, NoRecord}
      BY <1>3, <2>2 DEF WritebackSettles, found
    <2>4. /\ task'.at \in {"record", "apply", "after"} /\ task'.hand = task.hand
          /\ task'.post \in {None, task.post} /\ (task.hand # None => task'.at # "record")
      BY <2>1, FlushedFields DEF PendInv
    <2>5. ~FileSpent'
      BY <2>1 DEF FileSpent
    <2>6. Looks' /\ Hands' /\ Writing'
      BY <2>1, <2>4, <2>5 DEF PendInv, Looks, Looking, Hands, Writing, Publishing
    <2> QED BY <2>1, <2>3, <2>4, <2>6, TaskSteps
  <1>4. CASE WritebackRenames
    <2>1. /\ UNCHANGED <<minted, live, foreign, codex, ours, lost, cfg, disk, row, up>>
          /\ up /\ Flushed(FALSE) /\ task.at = "rename"
          /\ auth' = pend.tok /\ pend' = NoRecord
      BY <1>4 DEF WritebackRenames, authority, history
    <2>2. /\ task'.at \in {"record", "apply"} /\ task'.hand = task.hand
          /\ task'.post \in {None, task.post} /\ (task.hand # None => task'.at = "apply")
      BY <2>1, FlushedFields DEF PendInv
    <2>3. ~FileSpent'
      BY <2>1 DEF FileSpent, PendInv, Writing, IndInv, OursAreDead
    <2>4. Pending' /\ OnRecord' /\ Writing' /\ Looks'
      BY <2>2, <2>3 DEF Pending, OnRecord, Writing, Looks, Looking
    <2>5. Hands'
      BY <2>1, <2>2 DEF PendInv, Hands
    <2>6. Unread'
      <3> SUFFICES ASSUME codex.at \in {"write", "finish"} PROVE Unread'
        BY <2>1 DEF Unread
      <3>1. codex.tok # None
        BY PairsAreReal DEF CodexStates, PendInv, Typed
      <3> QED BY <2>1, <2>2, <3>1 DEF PendInv, Unread, NoRecord
    <2> QED BY <2>4, <2>5, <2>6 DEF PendInv
  <1> QED BY <1>1, <1>2, <1>3, <1>4 DEF Writeback

\* The config file.
LEMMA PendSaving ==
    ASSUME PendInv, IndInv', Typed', Saving
    PROVE  PendInv'
  <1>1. Idle.at = "idle" /\ Idle.hand = None /\ Idle.post = None
    BY DEF Idle
  <1>2. ASSUME UNCHANGED <<minted, live, foreign, auth, torn, codex, ours, lost, row>>, up, up',
               task' = Idle, FileSpent => pend' = pend, pend' \in {pend, NoRecord},
               Current = row,
               FileSpent => (cfg'.tok = row => cfg'.src = auth) /\ (disk'.tok = row => disk'.src = auth),
               cfg'.tok \in {cfg.tok, row}, disk'.tok \in {cfg.tok, disk.tok, row}
        PROVE  PendInv'
    <2>1. FileSpent' = FileSpent /\ Current' = row
      BY <1>1, <1>2 DEF FileSpent, Current
    <2>2. Pending' /\ OnRecord'
      BY <1>2, <2>1 DEF PendInv, Pending, OnRecord
    <2>3. Writing' /\ Looks'
      BY <1>1, <1>2 DEF Writing, Looks, Looking
    <2>4. None \notin foreign /\ None \notin ours
      BY PairsAreReal DEF PendInv, Typed
    <2>5. Hands'
      BY <1>1, <1>2, <2>4 DEF Hands
    <2>6. Unread'
      <3> SUFFICES ASSUME codex.at \in {"write", "finish"} PROVE Unread'
        BY <1>2 DEF Unread
      <3>1. codex.tok # None
        BY PairsAreReal DEF CodexStates, PendInv, Typed
      <3> QED BY <1>1, <1>2, <3>1 DEF PendInv, Unread, NoRecord
    <2> QED BY <2>2, <2>3, <2>5, <2>6 DEF PendInv
  <1>3. cfg \in Rows /\ disk \in Rows
    BY DEF PendInv, Typed
  <1>4. ASSUME Current = row, FileSpent, up
        PROVE  /\ pend.src = auth
               /\ cfg.tok = row => cfg.src = auth
               /\ disk.tok = row => disk.src = auth
    BY <1>4 DEF PendInv, Pending, OnRecord
  <1>a. ASSUME NEW written, Persist(row, written), Current = row, up
        PROVE  /\ FileSpent => (cfg'.tok = row => cfg'.src = auth) /\ (disk'.tok = row => disk'.src = auth)
               /\ cfg'.tok \in {cfg.tok, row} /\ disk'.tok \in {cfg.tok, disk.tok, row}
    <2>1. cfg'.tok = row /\ cfg'.src = pend.src /\ (disk' = cfg' \/ disk' = disk)
      BY <1>a DEF Persist
    <2> QED BY <1>4, <1>a, <2>1
  <1>5. ASSUME NEW written \in BOOLEAN, PersistTokens(written) PROVE PendInv'
    <2>1. row = task.hand /\ Current = row
      BY <1>5 DEF PersistTokens, PendInv, Hands, Current
    <2>2. Persist(row, written) /\ up
      BY <1>5, <2>1 DEF PersistTokens
    <2>3. /\ FileSpent => (cfg'.tok = row => cfg'.src = auth) /\ (disk'.tok = row => disk'.src = auth)
          /\ cfg'.tok \in {cfg.tok, row} /\ disk'.tok \in {cfg.tok, disk.tok, row}
      BY <1>a, <2>1, <2>2
    <2> QED BY <1>2, <1>5, <2>1, <2>3 DEF PersistTokens, authority, file, history
  <1>6. ASSUME task.at \in {"record", "condemn"} PROVE Current = row
    BY <1>6 DEF PendInv, Hands, Publishing, Current
  <1>7. ASSUME NEW written, NEW source, Record(source, written),
               Current = row, up, FileSpent => source = auth
        PROVE /\ FileSpent => (cfg'.tok = row => cfg'.src = auth) /\ (disk'.tok = row => disk'.src = auth)
              /\ cfg'.tok \in {cfg.tok, row} /\ disk'.tok \in {cfg.tok, disk.tok, row}
    <2>1. /\ cfg'.tok = cfg.tok /\ (cfg'.src = cfg.src \/ cfg'.src = source)
          /\ cfg.tok = row => cfg'.src = source
      BY <1>3, <1>7 DEF Record, Rows
    <2>2. \/ disk' = disk
          \/ disk'.tok = disk.tok /\ (disk.tok = row => disk'.src = source)
      BY <1>3, <1>7 DEF Record, Rows
    <2> QED BY <1>4, <1>7, <2>1, <2>2
  <1>8. ASSUME NEW written \in BOOLEAN, RetryRecords(written) PROVE PendInv'
    <2>1. Current = row /\ up
      BY <1>6, <1>8 DEF RetryRecords
    <2>2. /\ FileSpent => (cfg'.tok = row => cfg'.src = auth) /\ (disk'.tok = row => disk'.src = auth)
          /\ cfg'.tok \in {cfg.tok, row} /\ disk'.tok \in {cfg.tok, disk.tok, row}
      <3>1. CASE Record(pend.src, written)
        BY <1>4, <1>7, <2>1, <3>1
      <3>2. CASE Persist(row, written)
        BY <1>a, <2>1, <3>2
      <3> QED BY <1>8, <3>1, <3>2 DEF RetryRecords
    <2> QED BY <1>2, <1>8, <2>1, <2>2 DEF RetryRecords, authority, file, history
  <1>9. ASSUME NEW written \in BOOLEAN, Condemn(written) PROVE PendInv'
    <2>1. Current = row /\ up /\ ~FileSpent
      BY <1>6, <1>9 DEF Condemn, PendInv, Hands
    <2>2. cfg'.tok \in {cfg.tok, row} /\ disk'.tok \in {cfg.tok, disk.tok, row}
      BY <1>7, <1>9, <2>1 DEF Condemn
    <2> QED BY <1>2, <1>9, <2>1, <2>2 DEF Condemn, authority, file, history
  <1> QED BY <1>5, <1>8, <1>9 DEF Saving

\* The end of the process and the next start: if nothing is lost, the pair that
\* works was saved, with its source.
LEMMA PendProcess ==
    ASSUME PendInv, IndInv', Typed', Process
    PROVE  PendInv'
  <1>1. Idle.at = "idle" /\ Idle.hand = None /\ Idle.post = None
    BY DEF Idle
  <1>2. None \notin foreign /\ None \notin ours /\ auth \in Pairs /\ row \in Pairs
    BY PairsAreReal DEF PendInv, Typed
  <1>3. ASSUME up, disk' \in {disk, cfg}, Ends PROVE PendInv'
    <2>1. /\ UNCHANGED <<minted, live, foreign, auth, torn, codex, ours>>
          /\ ~up' /\ pend' = NoRecord /\ task' = Idle /\ row' = disk'.tok /\ cfg' = disk'
          /\ lost' = (lost \/ \E pair \in {row, task.hand} \cap live : pair \notin {disk'.tok, auth})
      BY <1>3 DEF Ends, authority
    <2>2. Current' = disk'.tok
      BY <1>1, <2>1 DEF Current
    <2>3. ASSUME FileSpent'
          PROVE  /\ FileSpent /\ disk'.tok = Current /\ disk'.src = auth
                 /\ Current \in live /\ auth < Current /\ (codex.at = "post" => codex.tok # Current)
      <3>1. FileSpent /\ \A pair \in {row, task.hand} \cap live : pair \in {disk'.tok, auth}
        BY <2>1, <2>3 DEF FileSpent
      <3>2. Current \in {row, task.hand} /\ Current \in live /\ auth \notin live
        BY <3>1 DEF PendInv, Pending, Current, FileSpent, IndInv, OursAreDead
      <3>3. disk'.tok = Current
        BY <3>1, <3>2
      <3>4. disk'.src = auth
        BY <1>3, <3>1, <3>3 DEF PendInv, OnRecord
      <3> QED BY <3>1, <3>2, <3>3, <3>4 DEF PendInv, Pending
    <2>4. Pending' /\ OnRecord'
      BY <2>1, <2>2, <2>3 DEF Pending, OnRecord
    <2>5. Writing' /\ Looks'
      BY <1>1, <2>1 DEF Writing, Looks, Looking
    <2>6. Hands'
      BY <1>1, <1>2, <2>1 DEF Hands
    <2>7. Unread'
      <3> SUFFICES ASSUME codex.at \in {"write", "finish"} PROVE Unread'
        BY <2>1 DEF Unread
      <3>1. codex.tok # None
        BY PairsAreReal DEF CodexStates, PendInv, Typed
      <3> QED BY <1>1, <1>3, <2>1, <3>1 DEF PendInv, Unread, NoRecord
    <2> QED BY <2>4, <2>5, <2>6, <2>7 DEF PendInv
  <1>4. CASE Boot
    <2>1. /\ UNCHANGED <<minted, live, foreign, auth, torn, codex, ours, lost, row, cfg, disk, task>>
          /\ ~up /\ up' /\ task = Idle /\ row = disk.tok
      BY <1>4 DEF Boot, authority, file, history, PendInv, Hands
    <2>2. pend' = IF disk.src = None THEN NoRecord ELSE [src |-> disk.src, tok |-> disk.tok]
      BY <1>4 DEF Boot
    <2>3. pend'.tok \in {None, disk.tok} /\ (disk.src # None => pend'.src = disk.src /\ pend'.tok = disk.tok)
      BY <2>2 DEF NoRecord
    <2>4. FileSpent' = FileSpent /\ Current' = Current /\ auth # None
      BY <1>2, <2>1, PairsAreReal DEF FileSpent, Current
    <2>5. Pending'
      BY <2>1, <2>3, <2>4 DEF PendInv, Pending
    <2>6. OnRecord'
      BY <2>1, <2>4 DEF PendInv, OnRecord
    <2>7. Writing' /\ Looks' /\ Hands'
      BY <1>1, <1>2, <2>1 DEF Writing, Looks, Looking, Hands
    <2>8. Unread'
      <3> SUFFICES ASSUME codex.at \in {"write", "finish"} PROVE Unread'
        BY <2>1 DEF Unread
      <3>1. codex.tok # None
        BY PairsAreReal DEF CodexStates, PendInv, Typed
      <3> QED BY <2>1, <2>3, <3>1 DEF PendInv, Unread
    <2> QED BY <2>5, <2>6, <2>7, <2>8 DEF PendInv
  <1> QED BY <1>3, <1>4 DEF Process, Crash, Shutdown

\* Codex.
LEMMA PendCodex ==
    ASSUME PendInv, IndInv', Typed', Codex
    PROVE  PendInv'
  <1>1. /\ auth \in Pairs /\ row \in Pairs /\ codex \in CodexStates /\ cfg.tok \in Pairs
        /\ disk.tok \in Pairs /\ pend \in Records /\ task \in Tasks /\ ours \subseteq Pairs
        /\ foreign \subseteq Pairs /\ live \subseteq Pairs
    BY DEF PendInv, Typed, Rows
  <1>2. pend.tok \in MaybePairs /\ task.hand \in MaybePairs /\ task.post \in MaybePairs
    BY <1>1 DEF Records, NoRecord, Tasks, TaskRecords, MaybePairs
  <1>3. CASE CodexReads \/ CodexRejected \/ CodexTouches
    <2>1. /\ UNCHANGED <<minted, live, foreign, auth, torn, ours, lost, up, row, pend, cfg, disk, task>>
          /\ \/ codex' = codex
             \/ codex'.at = "idle"
             \/ codex'.at = "post" /\ codex'.tok = auth
      BY <1>3 DEF CodexReads, CodexRejected, CodexTouches, CodexAt, authority, file, memory, history
    <2>2. FileSpent' = FileSpent /\ Current' = Current /\ Pairs' = Pairs
      BY <2>1 DEF FileSpent, Current, Pairs
    <2>3. FileSpent => auth # Current
      BY <1>1, <1>2 DEF PendInv, Pending, Pairs, Typed, Current, MaybePairs
    <2>4. Pending' /\ OnRecord'
      BY <2>1, <2>2, <2>3 DEF PendInv, Pending, OnRecord
    <2>5. Unread' /\ Writing'
      BY <2>1 DEF PendInv, Unread, Writing
    <2>6. Looks' /\ Hands'
      BY <2>1, <2>2 DEF PendInv, Looks, Hands
    <2> QED BY <2>4, <2>5, <2>6 DEF PendInv
  <1>4. CASE CodexTruncates \/ CodexWrites
    <2>1. /\ UNCHANGED <<minted, live, foreign, ours, lost, up, row, pend, cfg, disk, task>>
          /\ codex.at \in {"write", "finish"}
      BY <1>4 DEF CodexTruncates, CodexWrites, authority, memory, history
    <2>2. \/ auth' = auth /\ torn' /\ codex'.at = "finish" /\ codex'.tok = codex.tok
          \/ auth' = codex.tok /\ ~torn' /\ codex'.at = "idle"
          \/ auth' = auth /\ ~torn /\ ~torn' /\ codex'.at = "idle"
      BY <1>4, <1>1 DEF CodexTruncates, CodexWrites, CodexAt, PendInv, Typed
    <2>3. codex.tok \notin ours \cup {row, pend.tok}
      BY <2>1 DEF PendInv, Unread
    <2>4. FileSpent' => FileSpent /\ auth' = auth
      BY <2>1, <2>2, <2>3 DEF FileSpent
    <2>5. Current' = Current /\ Pairs' = Pairs
      BY <2>1 DEF Current, Pairs
    <2>6. Pending' /\ OnRecord'
      BY <2>1, <2>2, <2>4, <2>5 DEF PendInv, Pending, OnRecord
    <2>7. Unread' /\ Writing'
      BY <2>1, <2>2, <2>3 DEF PendInv, Unread, Writing
    <2>8. Looks'
      <3> SUFFICES ASSUME task.at \in Looking PROVE Looks'
        BY <2>1 DEF Looks
      <3>1. task.was = row /\ (task.before # task.was => torn' \/ auth' # task.was)
        BY <2>2, <2>3 DEF PendInv, Looks
      <3>2. task.before = task.was /\ auth' # task.was => ~FileSpent'
        BY <2>4 DEF PendInv, Looks
      <3> QED BY <2>1, <2>4, <2>5, <3>1, <3>2 DEF PendInv, Looks
    <2>9. Hands'
      BY <2>1, <2>4 DEF PendInv, Hands
    <2> QED BY <2>6, <2>7, <2>8, <2>9 DEF PendInv
  <1>5. ASSUME NEW spent, NEW alien, Mint(spent, alien), CodexAt("write", minted + 1),
               UNCHANGED <<file, memory, disk, task, history>>,
               spent = {} \/ (codex.at = "post" /\ spent = {codex.tok})
        PROVE  PendInv'
    <2>1. /\ UNCHANGED <<auth, torn, ours, lost, up, row, pend, cfg, disk, task>>
          /\ codex'.at = "write" /\ codex'.tok = minted + 1
      BY <1>5 DEF CodexAt, file, memory, history
    <2>2. /\ minted + 1 \notin Pairs /\ minted + 1 # None
          /\ live \ spent \subseteq live' /\ live' \subseteq live \cup {minted + 1}
          /\ foreign' \subseteq foreign \cup {minted + 1}
      BY <1>5, MintIsNew
    <2>3. FileSpent' = FileSpent /\ Current' = Current /\ Pairs \subseteq Pairs'
      BY <1>5, <2>1, MorePairs DEF FileSpent, Current, Mint, PendInv
    <2>4. Pending' /\ OnRecord'
      BY <1>5, <2>1, <2>2, <2>3 DEF PendInv, Pending, OnRecord
    <2>5. Writing'
      BY <1>5, <2>1, <2>2 DEF PendInv, Writing
    <2>6. Unread'
      BY <1>1, <1>2, <2>1, <2>2 DEF Unread, MaybePairs
    <2>7. Looks'
      BY <1>1, <2>1, <2>2, <2>3 DEF PendInv, Looks
    <2>8. Hands'
      BY <1>1, <1>2, <2>1, <2>2, <2>3 DEF PendInv, Hands, MaybePairs
    <2> QED BY <2>4, <2>5, <2>6, <2>7, <2>8 DEF PendInv
  <1> QED BY <1>3, <1>4, <1>5 DEF Codex, CodexRefreshes, CodexSignsIn

\* One step keeps the whole invariant.
LEMMA PendNext == PendInv /\ [Next]_vars => PendInv'
  <1> SUFFICES ASSUME PendInv, [Next]_vars PROVE PendInv'
    OBVIOUS
  <1>1. IndInv /\ Typed
    BY DEF PendInv
  <1>2. CASE UNCHANGED vars
    <2>1. UNCHANGED <<minted, live, foreign, auth, torn, moved, codex, ours, lost, up, row, pend, cfg,
                      disk, task>>
      BY <1>2 DEF vars, authority, file, memory, history
    <2>2. IndInv'
      BY <1>1, <2>1 DEF IndInv, Shape, DownIsIdle, WriterHasSource, OursAreDead, SourcesAreSpent,
                        LookHolds
    <2>3. Typed'
      BY <1>1, <2>1, TypedSteps DEF Typed
    <2>4. FileSpent' = FileSpent /\ Current' = Current /\ Pairs' = Pairs
      BY <2>1 DEF FileSpent, Current, Pairs
    <2>5. Pending' /\ OnRecord' /\ Unread' /\ Writing'
      BY <2>1, <2>4 DEF PendInv, Pending, OnRecord, Unread, Writing
    <2>6. Looks' /\ Hands'
      BY <2>1, <2>4 DEF PendInv, Looks, Hands
    <2> QED BY <2>2, <2>3, <2>5, <2>6 DEF PendInv
  <1>3. CASE RefreshStarts \/ RetryStarts \/ Refresh
    <2>1. IndInv' /\ Typed'
      BY <1>1, <1>3, RefreshInd, TypedRefresh
    <2> QED BY <1>3, <2>1, PendStarts, PendConsider, PendRefused, PendRecheck, PendApplies,
               PendAccepted, PendReplyLost DEF Refresh
  <1>4. CASE Writeback
    BY <1>1, <1>4, WritebackInd, TypedWriteback, PendWriteback
  <1>5. CASE Saving \/ Process
    BY <1>1, <1>5, SavingInd, TypedSaving, PendSaving, PendProcess
  <1>6. CASE Codex
    BY <1>1, <1>6, CodexInd, TypedCodex, PendCodex
  <1> QED BY <1>2, <1>3, <1>4, <1>5, <1>6 DEF Next

\* The invariant behind the two theorems below holds in every reachable state.
THEOREM PendingInvariant == Spec => []PendInv
  BY InitPend, PendNext, PTL DEF Spec

\* A login of Codex that tcr has spent is not forgotten, through failed
\* publications, failed saves, crashes, restarts and whatever
\* Codex does: its replacement is pending.
THEOREM SpentLoginIsPending == Spec => []SpentFileIsPending
  <1>1. PendInv => SpentFileIsPending
    BY DEF PendInv, Pending, FileSpent, SpentFileIsPending
  <1> QED BY <1>1, PendingInvariant, PTL

\* The row never takes a pair of another workspace, nor, while nothing was lost,
\* one that tcr has spent.
THEOREM OnlyFreshIsTaken == Spec => TakesOnlyFresh
  <1> DEFINE Step == up' /\ row' # row =>
                        row' \notin foreign /\ (~lost => row' \notin ours)
  <1>1. PendInv /\ [Next]_vars => [Step]_vars
    <2> SUFFICES ASSUME PendInv, Next, up', row' # row
                 PROVE  row' \notin foreign /\ (~lost => row' \notin ours)
      OBVIOUS
    <2>1. ApplyRefresh \/ \E fresh \in BOOLEAN : WritebackSettles(fresh)
      BY DEF Next, RefreshStarts, RetryStarts, Refresh, Writeback, Saving, Process, Codex,
             Consider, Recheck, AfterWriteback, PostAccepted, PostRejected, PostFails, ReplyLost,
             WritebackReads, WritebackCompares, WritebackRenames, WritebackFails,
             PersistTokens, RetryRecords, Condemn, Crash, Shutdown, Boot, Ends,
             CodexReads, CodexRefreshes, CodexRejected, CodexSignsIn, CodexTruncates, CodexWrites,
             CodexTouches, memory
    <2>2. CASE ApplyRefresh
      BY <2>2 DEF ApplyRefresh, PendInv, Hands
    <2>3. ASSUME NEW fresh \in BOOLEAN, WritebackSettles(fresh)
          PROVE  row' \notin foreign /\ (~lost => row' \notin ours)
      <3>1. task.at = "settle" /\ ~FileSpent
        BY <2>3 DEF WritebackSettles, PendInv, Hands
      <3>2. row' = auth /\ ~torn /\ auth \notin foreign
        BY <2>3 DEF WritebackSettles, NewerTokens
      <3> QED BY <3>1, <3>2 DEF FileSpent
    <2> QED BY <2>1, <2>2, <2>3
  <1> QED BY <1>1, PendingInvariant, PTL DEF Spec, TakesOnlyFresh
=============================================================================

-------------------------- MODULE TokenRefreshProofs --------------------------
(***************************************************************************)
(* Proofs about TokenRefresh, for every number of processes and tasks, any *)
(* retry and backoff constants and no bound on the tokens that matters.    *)
(***************************************************************************)
EXTENDS TokenRefresh, TLAPS

\* The backoff of grow_error_backoff stays within its cap.
LEMMA GrowBounded == \A b \in 0..BackoffCap : Grow(b) \in 0..BackoffCap
  BY BackoffAssumption DEF Grow

\* A task that leaves the lock leaves well-typed task state behind.
LEMMA DoneTyped ==
  ASSUME NEW t \in Tasks, TypeOK, Done(t)
  PROVE  /\ pc' \in [Tasks -> {"idle", "queued", "posting", "answered", "persist", "writing"}]
         /\ lock' \in [Procs -> Tasks \cup {NoTask}]
         /\ planned' \in [Tasks -> Nat]
         /\ forced' \in [Tasks -> BOOLEAN]
         /\ sends' \in [Tasks -> 0..MaxRetries + 1]
         /\ reply' \in [Tasks -> Replies]
<1>1. NoReply \in Replies
  BY DEF NoReply, Replies
<1>2. sends' \in [Tasks -> 0..MaxRetries + 1]
  BY RetryAssumption DEF TypeOK, Done
<1> QED
  BY <1>1, <1>2 DEF TypeOK, Done

\* Every step of a refresh task keeps the types.
LEMMA TaskKeepsTypes ==
  ASSUME TypeOK, NEW t \in Tasks, TaskStep(t)
  PROVE  TypeOK'
<1> USE ProcAssumption
<1>p. ProcOf[t] \in Procs
  OBVIOUS
<1>r. reply[t].token \in Nat
  BY DEF TypeOK, Replies
<1>1. ASSUME NEW force \in BOOLEAN, NEW expired \in BOOLEAN, Plan(t, force, expired)
      PROVE  TypeOK'
  BY <1>1, <1>p DEF TypeOK, Plan, upstream, account
<1>2. CASE LockAndSkip(t)
  BY <1>2, DoneTyped DEF TypeOK, LockAndSkip, upstream, account
<1>3. CASE LockAndPost(t)
  BY <1>3, <1>p, RetryAssumption DEF TypeOK, LockAndPost, upstream, account
<1>4. CASE UpstreamAnswers(t)
  <2>1. /\ [answer |-> "ok", token |-> minted + 1] \in Replies
        /\ [answer |-> "rejected", token |-> 0] \in Replies
        /\ minted + 1 \in Nat
    BY DEF TypeOK, Replies
  <2>2. reply' \in [Tasks -> Replies] /\ minted' \in Nat /\ live' \subseteq Nat
    BY <1>4, <2>1 DEF TypeOK, UpstreamAnswers, upstream
  <2> QED
    BY <1>4, <2>2 DEF TypeOK, UpstreamAnswers, account
<1>n. ASSUME NoAnswer(t)
      PROVE  /\ pc' \in [Tasks -> {"idle", "queued", "posting", "answered", "persist", "writing"}]
             /\ sends' \in [Tasks -> 0..MaxRetries + 1]
             /\ reply' \in [Tasks -> Replies]
  <2>1. [answer |-> "transient", token |-> 0] \in Replies
    BY DEF Replies
  <2>2. sends' \in [Tasks -> 0..MaxRetries + 1]
    BY <1>n, RetryAssumption DEF TypeOK, NoAnswer
  <2>3. /\ pc \in [Tasks -> {"idle", "queued", "posting", "answered", "persist", "writing"}]
        /\ reply \in [Tasks -> Replies]
    BY DEF TypeOK
  <2>4. pc' \in [Tasks -> {"idle", "queued", "posting", "answered", "persist", "writing"}]
    BY <1>n, <2>3 DEF NoAnswer
  <2>5. reply' \in [Tasks -> Replies]
    BY <1>n, <2>1, <2>3 DEF NoAnswer
  <2> QED
    BY <2>2, <2>4, <2>5
<1>5. CASE PostFails(t)
  BY <1>5, <1>n DEF TypeOK, PostFails, upstream, account
<1>6. CASE ReplyLost(t)
  <2>1. minted' \in Nat /\ live' \subseteq Nat
    <3>1. minted \in Nat /\ live \subseteq Nat
      BY DEF TypeOK
    <3>2. minted' = minted + 1 /\ live' = (live \ {planned[t]}) \cup {minted + 1}
      BY <1>6 DEF ReplyLost
    <3>3. minted + 1 \in Nat
      BY <3>1
    <3> QED
      BY <3>1, <3>2, <3>3, Zenon
  <2>2. /\ NoAnswer(t)
        /\ UNCHANGED <<file, state, cfg, account, lock, wlock, login, planned, forced, known>>
    BY <1>6 DEF ReplyLost
  <2>3. /\ pc' \in [Tasks -> {"idle", "queued", "posting", "answered", "persist", "writing"}]
        /\ sends' \in [Tasks -> 0..MaxRetries + 1]
        /\ reply' \in [Tasks -> Replies]
    BY <2>2, <1>n
  <2> QED
    BY <1>6, <2>1, <2>2, <2>3, Zenon DEF TypeOK, account
<1>7. CASE ApplyRefresh(t)
  <2>1. backoff' \in [Procs -> 0..BackoffCap]
    BY <1>7, <1>p, BackoffAssumption DEF TypeOK, ApplyRefresh
  <2>2. known' \in [Procs -> SUBSET Nat]
    BY <1>7, <1>p DEF TypeOK, ApplyRefresh
  <2> QED
    BY <1>7, <1>p, <1>r, <2>1, <2>2 DEF TypeOK, ApplyRefresh, upstream
<1>8. CASE Rejected(t)
  <2>1. backoff' \in [Procs -> 0..BackoffCap]
    BY <1>8, <1>p, GrowBounded DEF TypeOK, Rejected
  <2> QED
    BY <1>8, <2>1, DoneTyped DEF TypeOK, Rejected, upstream, account
<1>9. CASE Transient(t)
  BY <1>9, DoneTyped DEF TypeOK, Transient, upstream, account
<1>10. CASE PersistGate(t)
  BY <1>10, DoneTyped DEF TypeOK, PersistGate, upstream, account
<1>11. CASE PersistSnapshot(t)
  BY <1>11, <1>p, <1>r DEF TypeOK, PersistSnapshot, upstream, account, taskVars
<1>12. CASE PersistWrite(t)
  BY <1>12, <1>p, DoneTyped DEF TypeOK, PersistWrite, Merged, NoRow, upstream, account
<1> QED
  BY <1>1, <1>2, <1>3, <1>4, <1>5, <1>6, <1>7, <1>8, <1>9, <1>10, <1>11, <1>12
  DEF TaskStep, TaskWork

\* Every step of a process keeps the types.
LEMMA ProcKeepsTypes ==
  ASSUME TypeOK, NEW p \in Procs, ProcStep(p)
  PROVE  TypeOK'
<1> USE DEF TypeOK, upstream, account, taskVars, States
<1>1. CASE CooldownEnds(p)
  BY <1>1 DEF CooldownEnds
<1>2. CASE LiveLogin(p)
  BY <1>2 DEF LiveLogin
<1>3. CASE LiveLoginPersists(p)
  BY <1>3 DEF LiveLoginPersists
<1>4. CASE Reload(p)
  BY <1>4 DEF Reload
<1>5. CASE StopListening(p)
  BY <1>5 DEF StopListening
<1>6. CASE ShutdownFlush(p)
  BY <1>6 DEF ShutdownFlush, PersistNow, Merged, NoRow
<1>7. CASE Exit(p)
  BY <1>7 DEF Exit
<1>8. CASE Crash(p)
  BY <1>8 DEF Crash
<1>9. CASE HandoffFlush(p)
  BY <1>9 DEF HandoffFlush, PersistNow, Merged, NoRow
<1>10. CASE ReleaseMutationOwnership(p)
  BY <1>10 DEF ReleaseMutationOwnership
<1>11. CASE Boot(p)
  BY <1>11 DEF Boot
<1> QED
  BY <1>1, <1>2, <1>3, <1>4, <1>5, <1>6, <1>7, <1>8, <1>9, <1>10, <1>11 DEF ProcStep

\* Type correctness of the whole specification.
THEOREM TypeCorrect == Spec => []TypeOK
<1>1. Init => TypeOK
  BY ProcAssumption, BackoffAssumption, RetryAssumption DEF Init, TypeOK, States, NoReply, Replies
<1>2. TypeOK /\ [Next]_vars => TypeOK'
  <2> SUFFICES ASSUME TypeOK, [Next]_vars PROVE TypeOK'
    OBVIOUS
  <2>1. CASE UNCHANGED vars
    BY <2>1 DEF TypeOK, vars, upstream, account, taskVars
  <2>2. CASE FileLogin
    BY <2>2 DEF TypeOK, FileLogin, account, taskVars
  <2>3. CASE FileDelete
    BY <2>3 DEF TypeOK, FileDelete, NoRow, upstream, account, taskVars
  <2> QED
    BY <2>1, <2>2, <2>3, TaskKeepsTypes, ProcKeepsTypes DEF Next
<1> QED
  BY <1>1, <1>2, PTL DEF Spec

-----------------------------------------------------------------------------
(***************************************************************************)
(* A spent token is not sent again: the invariant behind it holds with     *)
(* every event, logins and edits of the file included.                     *)
(***************************************************************************)

\* A task past the coalescing check holds the refresh lock of its process.
Locked ==
    \A t \in Tasks :
        pc[t] \in {"posting", "answered", "persist", "writing"} => lock[ProcOf[t]] = t

\* A process that has not started has done nothing.
OffIsFresh ==
    /\ \A t \in Tasks : state[ProcOf[t]] = "off" => pc[t] = "idle"
    /\ \A p \in Procs : state[p] = "off" => known[p] = {} /\ status[p] = "Active"

\* Every token anyone holds was minted, so the next one is new to all.
AllMinted ==
    /\ \A x \in live : x <= minted
    /\ file <= minted
    /\ \A p \in Procs : mem[p] <= minted /\ cfg[p] <= minted /\ login[p] <= minted
    /\ \A p \in Procs : \A k \in known[p] : k <= minted
    /\ \A t \in Tasks : planned[t] <= minted /\ reply[t].token <= minted

\* What is being exchanged has not been exchanged before, and what it is
\* exchanged for is newer than all its process has seen exchanged.
AnswerIsNew ==
    \A t \in Tasks :
        /\ pc[t] = "posting" => planned[t] \notin known[ProcOf[t]]
        /\ pc[t] = "answered" /\ reply[t].answer = "ok" =>
               /\ planned[t] < reply[t].token
               /\ \A k \in known[ProcOf[t]] : k < reply[t].token

\* The row's credential is not one its process has seen exchanged.
RowUnspent == \A p \in Procs : mem[p] \notin known[p]

SpentInv == TypeOK /\ Locked /\ OffIsFresh /\ AllMinted /\ AnswerIsNew /\ RowUnspent

\* A step of a refresh task keeps SpentInv.
LEMMA TaskKeepsSpent ==
  ASSUME SpentInv, NEW t \in Tasks, TaskStep(t)
  PROVE  SpentInv'
<1> USE ProcAssumption, LockAssumption DEF SpentInv, TypeOK
<1>p. ProcOf[t] \in Procs
  OBVIOUS
<1>t. TypeOK'
  BY TaskKeepsTypes
<1>r. \A u \in Tasks : reply[u].token \in Nat
  BY DEF Replies
<1>1. ASSUME NEW force \in BOOLEAN, NEW expired \in BOOLEAN, Plan(t, force, expired)
      PROVE  SpentInv'
  <2>1. Locked'
    BY <1>1, <1>p, <1>r DEF Plan, upstream, account, Locked
  <2>2. AllMinted'
    BY <1>1, <1>p, <1>r DEF Plan, upstream, account, AllMinted
  <2>3. AnswerIsNew'
    BY <1>1, <1>p, <1>r DEF Plan, upstream, account, AnswerIsNew
  <2>4. RowUnspent'
    BY <1>1, <1>p, <1>r DEF Plan, upstream, account, RowUnspent
  <2>5. OffIsFresh'
    BY <1>1, <1>p, <1>r DEF Plan, upstream, account, OffIsFresh, Running
  <2> QED
    BY <1>t, <2>1, <2>2, <2>3, <2>4, <2>5
<1>2. CASE LockAndSkip(t)
  <2>1. Locked'
    BY <1>2, <1>p, <1>r DEF LockAndSkip, Done, Coalesced, upstream, account, Locked
  <2>2. OffIsFresh'
    BY <1>2, <1>p, <1>r DEF LockAndSkip, Done, Coalesced, upstream, account, OffIsFresh
  <2>3. AnswerIsNew'
    BY <1>2, <1>p, <1>r DEF LockAndSkip, Done, Coalesced, upstream, account, AnswerIsNew
  <2>4. RowUnspent'
    BY <1>2, <1>p, <1>r DEF LockAndSkip, Done, Coalesced, upstream, account, RowUnspent
  <2>5. AllMinted'
    BY <1>2, <1>p, <1>r DEF LockAndSkip, Done, Coalesced, upstream, account, AllMinted, NoReply
  <2> QED
    BY <1>t, <2>1, <2>2, <2>3, <2>4, <2>5
<1>3. CASE LockAndPost(t)
  <2>1. Locked'
    BY <1>3, <1>p, <1>r DEF LockAndPost, Coalesced, upstream, account, Locked
  <2>2. OffIsFresh'
    BY <1>3, <1>p, <1>r DEF LockAndPost, Coalesced, upstream, account, OffIsFresh
  <2>3. AllMinted'
    BY <1>3, <1>p, <1>r DEF LockAndPost, Coalesced, upstream, account, AllMinted
  <2>4. RowUnspent'
    BY <1>3, <1>p, <1>r DEF LockAndPost, Coalesced, upstream, account, RowUnspent
  <2>5. AnswerIsNew'
    BY <1>3, <1>p, <1>r DEF LockAndPost, Coalesced, upstream, account, AnswerIsNew, RowUnspent,
      Locked
  <2> QED
    BY <1>t, <2>1, <2>2, <2>3, <2>4, <2>5
<1>4. CASE UpstreamAnswers(t)
  <2>1. Locked'
    BY <1>4, <1>p, <1>r DEF UpstreamAnswers, upstream, account, Locked
  <2>2. OffIsFresh'
    BY <1>4, <1>p, <1>r DEF UpstreamAnswers, upstream, account, OffIsFresh
  <2>3. AllMinted'
    <3>1. minted' \in {minted, minted + 1} /\ live' \subseteq live \cup {minted'}
      BY <1>4 DEF UpstreamAnswers, upstream
    <3>2. UNCHANGED <<file, mem, cfg, login, known, planned>>
      BY <1>4 DEF UpstreamAnswers, account
    <3>3. minted' \in Nat /\ minted <= minted'
      BY <3>1
    <3>4. \A x \in live' : x <= minted'
      BY <3>1, <3>3 DEF AllMinted
    <3>5. \A u \in Tasks : reply'[u].token \in {reply[u].token, 0, minted'}
      BY <1>4 DEF UpstreamAnswers
    <3>6. \A u \in Tasks : reply'[u].token <= minted'
      BY <1>r, <3>3, <3>5 DEF AllMinted
    <3> QED
      BY <3>2, <3>3, <3>4, <3>6 DEF AllMinted
  <2>4. RowUnspent'
    BY <1>4, <1>p, <1>r DEF UpstreamAnswers, upstream, account, RowUnspent
  <2>5. AnswerIsNew'
    BY <1>4, <1>p, <1>r DEF UpstreamAnswers, upstream, account, AnswerIsNew, AllMinted
  <2> QED
    BY <1>t, <2>1, <2>2, <2>3, <2>4, <2>5
<1>5. CASE PostFails(t)
  <2>1. Locked'
    BY <1>5, <1>p, <1>r DEF PostFails, NoAnswer, upstream, account, Locked
  <2>2. OffIsFresh'
    BY <1>5, <1>p, <1>r DEF PostFails, NoAnswer, upstream, account, OffIsFresh
  <2>3. AllMinted'
    BY <1>5, <1>p, <1>r DEF PostFails, NoAnswer, upstream, account, AllMinted
  <2>4. AnswerIsNew'
    BY <1>5, <1>p, <1>r DEF PostFails, NoAnswer, upstream, account, AnswerIsNew
  <2>5. RowUnspent'
    BY <1>5, <1>p, <1>r DEF PostFails, NoAnswer, upstream, account, RowUnspent
  <2> QED
    BY <1>t, <2>1, <2>2, <2>3, <2>4, <2>5
<1>6. CASE ReplyLost(t)
  <2>1. Locked'
    BY <1>6, <1>p, <1>r DEF ReplyLost, NoAnswer, account, Locked
  <2>2. OffIsFresh'
    BY <1>6, <1>p, <1>r DEF ReplyLost, NoAnswer, account, OffIsFresh
  <2>3. AllMinted'
    BY <1>6, <1>p, <1>r DEF ReplyLost, NoAnswer, account, AllMinted
  <2>4. RowUnspent'
    BY <1>6, <1>p, <1>r DEF ReplyLost, NoAnswer, account, RowUnspent
  <2>5. AnswerIsNew'
    BY <1>6, <1>p, <1>r DEF ReplyLost, NoAnswer, account, AnswerIsNew, AllMinted
  <2> QED
    BY <1>t, <2>1, <2>2, <2>3, <2>4, <2>5
<1>7. CASE ApplyRefresh(t)
  <2>1. Locked'
    BY <1>7, <1>p, <1>r DEF ApplyRefresh, upstream, Locked
  <2>2. OffIsFresh'
    BY <1>7, <1>p, <1>r DEF ApplyRefresh, upstream, OffIsFresh, Running
  <2>3. AllMinted'
    BY <1>7, <1>p, <1>r DEF ApplyRefresh, upstream, AllMinted, AnswerIsNew
  <2>4. AnswerIsNew'
    BY <1>7, <1>p, <1>r DEF ApplyRefresh, upstream, AnswerIsNew, Locked
  <2>5. RowUnspent'
    BY <1>7, <1>p, <1>r DEF ApplyRefresh, upstream, RowUnspent, AnswerIsNew
  <2> QED
    BY <1>t, <2>1, <2>2, <2>3, <2>4, <2>5
<1>8. CASE Rejected(t)
  <2>1. Locked'
    BY <1>8, <1>p, <1>r DEF Rejected, Done, upstream, Locked
  <2>2. AnswerIsNew'
    BY <1>8, <1>p, <1>r DEF Rejected, Done, upstream, AnswerIsNew
  <2>3. RowUnspent'
    BY <1>8, <1>p, <1>r DEF Rejected, Done, upstream, RowUnspent
  <2>4. OffIsFresh'
    BY <1>8, <1>p, <1>r DEF Rejected, Done, upstream, OffIsFresh, Running
  <2>5. AllMinted'
    BY <1>8, <1>p, <1>r DEF Rejected, Done, upstream, AllMinted, NoReply
  <2> QED
    BY <1>t, <2>1, <2>2, <2>3, <2>4, <2>5
<1>9. CASE Transient(t)
  <2>1. Locked'
    BY <1>9, <1>p, <1>r DEF Transient, Done, upstream, Locked
  <2>2. OffIsFresh'
    BY <1>9, <1>p, <1>r DEF Transient, Done, upstream, OffIsFresh
  <2>3. AnswerIsNew'
    BY <1>9, <1>p, <1>r DEF Transient, Done, upstream, AnswerIsNew
  <2>4. RowUnspent'
    BY <1>9, <1>p, <1>r DEF Transient, Done, upstream, RowUnspent
  <2>5. AllMinted'
    BY <1>9, <1>p, <1>r DEF Transient, Done, upstream, AllMinted, NoReply
  <2> QED
    BY <1>t, <2>1, <2>2, <2>3, <2>4, <2>5
<1>10. CASE PersistGate(t)
  <2>1. Locked'
    BY <1>10, <1>p, <1>r DEF PersistGate, Done, upstream, account, Locked
  <2>2. OffIsFresh'
    BY <1>10, <1>p, <1>r DEF PersistGate, Done, upstream, account, OffIsFresh
  <2>3. AllMinted'
    <3>1. UNCHANGED <<minted, live, file, mem, cfg, login, known>>
      BY <1>10 DEF PersistGate, upstream, account
    <3>2. \A u \in Tasks : planned'[u] \in {planned[u], 0} /\ reply'[u].token \in {reply[u].token, 0}
      BY <1>10 DEF PersistGate, Done, NoReply
    <3>3. \A u \in Tasks : planned'[u] <= minted /\ reply'[u].token <= minted
      BY <1>r, <3>2 DEF AllMinted
    <3> QED
      BY <3>1, <3>3 DEF AllMinted
  <2>4. AnswerIsNew'
    BY <1>10, <1>p, <1>r DEF PersistGate, Done, upstream, account, AnswerIsNew
  <2>5. RowUnspent'
    BY <1>10, <1>p, <1>r DEF PersistGate, Done, upstream, account, RowUnspent
  <2> QED
    BY <1>t, <2>1, <2>2, <2>3, <2>4, <2>5
<1>11. CASE PersistSnapshot(t)
  <2>1. Locked'
    BY <1>11, <1>p, <1>r DEF PersistSnapshot, upstream, account, taskVars, Locked
  <2>2. OffIsFresh'
    BY <1>11, <1>p, <1>r DEF PersistSnapshot, upstream, account, taskVars, OffIsFresh
  <2>3. AllMinted'
    BY <1>11, <1>p, <1>r DEF PersistSnapshot, upstream, account, taskVars, AllMinted
  <2>4. AnswerIsNew'
    BY <1>11, <1>p, <1>r DEF PersistSnapshot, upstream, account, taskVars, AnswerIsNew
  <2>5. RowUnspent'
    BY <1>11, <1>p, <1>r DEF PersistSnapshot, upstream, account, taskVars, RowUnspent
  <2> QED
    BY <1>t, <2>1, <2>2, <2>3, <2>4, <2>5
<1>12. CASE PersistWrite(t)
  <2>1. Locked'
    BY <1>12, <1>p, <1>r DEF PersistWrite, Done, Merged, NoRow, upstream, account, Locked
  <2>2. OffIsFresh'
    BY <1>12, <1>p, <1>r DEF PersistWrite, Done, Merged, NoRow, upstream, account, OffIsFresh
  <2>3. AnswerIsNew'
    BY <1>12, <1>p, <1>r DEF PersistWrite, Done, Merged, NoRow, upstream, account, AnswerIsNew
  <2>4. RowUnspent'
    BY <1>12, <1>p, <1>r DEF PersistWrite, Done, Merged, NoRow, upstream, account, RowUnspent
  <2>5. AllMinted'
    BY <1>12, <1>p, <1>r DEF PersistWrite, Done, Merged, NoRow, upstream, account, AllMinted,
      NoReply
  <2> QED
    BY <1>t, <2>1, <2>2, <2>3, <2>4, <2>5
<1> QED
  BY <1>1, <1>2, <1>3, <1>4, <1>5, <1>6, <1>7, <1>8, <1>9, <1>10, <1>11, <1>12 DEF TaskStep, TaskWork

\* A step of a process, a login or a reload included, keeps SpentInv.
LEMMA ProcKeepsSpent ==
  ASSUME SpentInv, NEW p \in Procs, ProcStep(p)
  PROVE  SpentInv'
<1> USE ProcAssumption, LockAssumption DEF SpentInv, TypeOK
<1>t. TypeOK'
  BY ProcKeepsTypes
<1>r. \A u \in Tasks : reply[u].token \in Nat
  BY DEF Replies
<1>1. CASE CooldownEnds(p)
  <2>1. Locked'
    BY <1>1, <1>r DEF CooldownEnds, upstream, taskVars, Locked
  <2>2. OffIsFresh'
    BY <1>1, <1>r DEF CooldownEnds, upstream, taskVars, OffIsFresh
  <2>3. AllMinted'
    BY <1>1, <1>r DEF CooldownEnds, upstream, taskVars, AllMinted
  <2>4. AnswerIsNew'
    BY <1>1, <1>r DEF CooldownEnds, upstream, taskVars, AnswerIsNew
  <2>5. RowUnspent'
    BY <1>1, <1>r DEF CooldownEnds, upstream, taskVars, RowUnspent
  <2> QED
    BY <1>t, <2>1, <2>2, <2>3, <2>4, <2>5
<1>2. CASE LiveLogin(p)
  <2>1. Locked'
    BY <1>2, <1>r DEF LiveLogin, taskVars, Locked
  <2>2. AllMinted'
    BY <1>2, <1>r DEF LiveLogin, taskVars, AllMinted
  <2>3. AnswerIsNew'
    BY <1>2, <1>r DEF LiveLogin, taskVars, AnswerIsNew
  <2>4. OffIsFresh'
    BY <1>2, <1>r DEF LiveLogin, taskVars, OffIsFresh, Running
  <2>5. RowUnspent'
    BY <1>2, <1>r DEF LiveLogin, taskVars, RowUnspent, AllMinted
  <2> QED
    BY <1>t, <2>1, <2>2, <2>3, <2>4, <2>5
<1>3. CASE LiveLoginPersists(p)
  <2>1. Locked'
    BY <1>3, <1>r DEF LiveLoginPersists, upstream, account, taskVars, Locked
  <2>2. OffIsFresh'
    BY <1>3, <1>r DEF LiveLoginPersists, upstream, account, taskVars, OffIsFresh
  <2>3. AllMinted'
    BY <1>3, <1>r DEF LiveLoginPersists, upstream, account, taskVars, AllMinted
  <2>4. AnswerIsNew'
    BY <1>3, <1>r DEF LiveLoginPersists, upstream, account, taskVars, AnswerIsNew
  <2>5. RowUnspent'
    BY <1>3, <1>r DEF LiveLoginPersists, upstream, account, taskVars, RowUnspent
  <2> QED
    BY <1>t, <2>1, <2>2, <2>3, <2>4, <2>5
<1>4. CASE Reload(p)
  <2>1. Locked'
    BY <1>4, <1>r DEF Reload, upstream, taskVars, Locked
  <2>2. AllMinted'
    BY <1>4, <1>r DEF Reload, upstream, taskVars, AllMinted
  <2>3. AnswerIsNew'
    BY <1>4, <1>r DEF Reload, upstream, taskVars, AnswerIsNew
  <2>4. RowUnspent'
    BY <1>4, <1>r DEF Reload, upstream, taskVars, RowUnspent
  <2>5. OffIsFresh'
    BY <1>4, <1>r DEF Reload, upstream, taskVars, OffIsFresh, Running
  <2> QED
    BY <1>t, <2>1, <2>2, <2>3, <2>4, <2>5
<1>5. CASE StopListening(p)
  <2>1. Locked'
    BY <1>5, <1>r DEF StopListening, upstream, account, taskVars, Locked
  <2>2. OffIsFresh'
    BY <1>5, <1>r DEF StopListening, upstream, account, taskVars, OffIsFresh
  <2>3. AllMinted'
    BY <1>5, <1>r DEF StopListening, upstream, account, taskVars, AllMinted
  <2>4. AnswerIsNew'
    BY <1>5, <1>r DEF StopListening, upstream, account, taskVars, AnswerIsNew
  <2>5. RowUnspent'
    BY <1>5, <1>r DEF StopListening, upstream, account, taskVars, RowUnspent
  <2> QED
    BY <1>t, <2>1, <2>2, <2>3, <2>4, <2>5
<1>6. CASE ShutdownFlush(p)
  <2>1. Locked'
    BY <1>6, <1>r DEF ShutdownFlush, PersistNow, Merged, NoRow, upstream, account, taskVars,
      Locked
  <2>2. OffIsFresh'
    BY <1>6, <1>r DEF ShutdownFlush, PersistNow, Merged, NoRow, upstream, account, taskVars,
      OffIsFresh
  <2>3. AllMinted'
    BY <1>6, <1>r DEF ShutdownFlush, PersistNow, Merged, NoRow, upstream, account, taskVars,
      AllMinted
  <2>4. AnswerIsNew'
    BY <1>6, <1>r DEF ShutdownFlush, PersistNow, Merged, NoRow, upstream, account, taskVars,
      AnswerIsNew
  <2>5. RowUnspent'
    BY <1>6, <1>r DEF ShutdownFlush, PersistNow, Merged, NoRow, upstream, account, taskVars,
      RowUnspent
  <2> QED
    BY <1>t, <2>1, <2>2, <2>3, <2>4, <2>5
<1>7. CASE Exit(p)
  <2>1. Locked'
    BY <1>7, <1>r DEF Exit, upstream, account, taskVars, Locked
  <2>2. OffIsFresh'
    BY <1>7, <1>r DEF Exit, upstream, account, taskVars, OffIsFresh
  <2>3. AllMinted'
    BY <1>7, <1>r DEF Exit, upstream, account, taskVars, AllMinted
  <2>4. AnswerIsNew'
    BY <1>7, <1>r DEF Exit, upstream, account, taskVars, AnswerIsNew
  <2>5. RowUnspent'
    BY <1>7, <1>r DEF Exit, upstream, account, taskVars, RowUnspent
  <2> QED
    BY <1>t, <2>1, <2>2, <2>3, <2>4, <2>5
<1>8. CASE Crash(p)
  <2>1. Locked'
    BY <1>8, <1>r DEF Crash, upstream, account, taskVars, Locked
  <2>2. OffIsFresh'
    BY <1>8, <1>r DEF Crash, upstream, account, taskVars, OffIsFresh
  <2>3. AllMinted'
    BY <1>8, <1>r DEF Crash, upstream, account, taskVars, AllMinted
  <2>4. AnswerIsNew'
    BY <1>8, <1>r DEF Crash, upstream, account, taskVars, AnswerIsNew
  <2>5. RowUnspent'
    BY <1>8, <1>r DEF Crash, upstream, account, taskVars, RowUnspent
  <2> QED
    BY <1>t, <2>1, <2>2, <2>3, <2>4, <2>5
<1>9. CASE HandoffFlush(p)
  <2>1. Locked'
    BY <1>9, <1>r DEF HandoffFlush, PersistNow, Merged, NoRow, upstream, account, taskVars,
      Locked
  <2>2. OffIsFresh'
    BY <1>9, <1>r DEF HandoffFlush, PersistNow, Merged, NoRow, upstream, account, taskVars,
      OffIsFresh
  <2>3. AllMinted'
    BY <1>9, <1>r DEF HandoffFlush, PersistNow, Merged, NoRow, upstream, account, taskVars,
      AllMinted
  <2>4. AnswerIsNew'
    BY <1>9, <1>r DEF HandoffFlush, PersistNow, Merged, NoRow, upstream, account, taskVars,
      AnswerIsNew
  <2>5. RowUnspent'
    BY <1>9, <1>r DEF HandoffFlush, PersistNow, Merged, NoRow, upstream, account, taskVars,
      RowUnspent
  <2> QED
    BY <1>t, <2>1, <2>2, <2>3, <2>4, <2>5
<1>10. CASE ReleaseMutationOwnership(p)
  <2>1. Locked'
    BY <1>10, <1>r DEF ReleaseMutationOwnership, upstream, account, taskVars, Locked
  <2>2. OffIsFresh'
    BY <1>10, <1>r DEF ReleaseMutationOwnership, upstream, account, taskVars, OffIsFresh
  <2>3. AllMinted'
    BY <1>10, <1>r DEF ReleaseMutationOwnership, upstream, account, taskVars, AllMinted
  <2>4. AnswerIsNew'
    BY <1>10, <1>r DEF ReleaseMutationOwnership, upstream, account, taskVars, AnswerIsNew
  <2>5. RowUnspent'
    BY <1>10, <1>r DEF ReleaseMutationOwnership, upstream, account, taskVars, RowUnspent
  <2> QED
    BY <1>t, <2>1, <2>2, <2>3, <2>4, <2>5
<1>11. CASE Boot(p)
  <2>1. Locked'
    BY <1>11, <1>r DEF Boot, upstream, taskVars, Locked
  <2>2. OffIsFresh'
    BY <1>11, <1>r DEF Boot, upstream, taskVars, OffIsFresh
  <2>3. AllMinted'
    BY <1>11, <1>r DEF Boot, upstream, taskVars, AllMinted
  <2>4. AnswerIsNew'
    BY <1>11, <1>r DEF Boot, upstream, taskVars, AnswerIsNew, OffIsFresh
  <2>5. RowUnspent'
    BY <1>11, <1>r DEF Boot, upstream, taskVars, RowUnspent, OffIsFresh
  <2> QED
    BY <1>t, <2>1, <2>2, <2>3, <2>4, <2>5
<1> QED
  BY <1>1, <1>2, <1>3, <1>4, <1>5, <1>6, <1>7, <1>8, <1>9, <1>10, <1>11 DEF ProcStep

\* Any step keeps SpentInv.
LEMMA SpentStep ==
  ASSUME SpentInv, [Next]_vars
  PROVE  SpentInv'
<1> USE DEF SpentInv, TypeOK, Locked, OffIsFresh, AllMinted, AnswerIsNew, RowUnspent, account, taskVars
<1>1. CASE UNCHANGED vars
  BY <1>1 DEF vars, upstream
<1>2. CASE FileLogin
  <2>1. minted' = minted + 1 /\ file' = minted' /\ live' = live \cup {minted'} /\ minted' \in Nat
    BY <1>2 DEF FileLogin
  <2>2. UNCHANGED <<state, cfg, mem, status, backoff, cooldown, removed, lock, wlock, login, pc, planned,
                    forced, sends, reply, known>>
    BY <1>2 DEF FileLogin
  <2>3. \A x \in Nat : x <= minted => x <= minted'
    BY <2>1
  <2>4. TypeOK' /\ Locked' /\ OffIsFresh' /\ AnswerIsNew' /\ RowUnspent'
    BY <2>1, <2>2
  <2>5. AllMinted'
    BY <2>1, <2>2, <2>3 DEF Replies
  <2> QED
    BY <2>4, <2>5
<1>3. CASE FileDelete
  BY <1>3 DEF FileDelete, NoRow, upstream
<1> QED
  BY <1>1, <1>2, <1>3, TaskKeepsSpent, ProcKeepsSpent DEF Next

\* The invariant of the specification, whatever events may happen.
LEMMA SpentInvariant == Spec => []SpentInv
<1>1. Init => SpentInv
  <2> SUFFICES ASSUME Init PROVE SpentInv
    OBVIOUS
  <2>1. TypeOK
    BY ProcAssumption, BackoffAssumption, RetryAssumption DEF Init, TypeOK, States, NoReply, Replies
  <2> QED
    BY <2>1, ProcAssumption, LockAssumption
    DEF Init, SpentInv, NoReply, Locked, OffIsFresh, AllMinted, AnswerIsNew, RowUnspent
<1>2. SpentInv /\ [Next]_vars => SpentInv'
  BY SpentStep
<1> QED
  BY <1>1, <1>2, PTL DEF Spec

\* Whatever fails, stops, takes over, logs in or edits the file in between, no
\* caller sends a token its process has already seen exchanged, but for one a
\* reload has taken from the file again: the comparison of the access token
\* under the refresh lock (refresh_locked) is enough.
THEOREM SpentTokensStaySpent == Spec => []NeverRepostsSpent
<1>1. SpentInv => NeverRepostsSpent
  BY DEF SpentInv, AnswerIsNew, NeverRepostsSpent
<1> QED
  BY <1>1, SpentInvariant, PTL

-----------------------------------------------------------------------------
(***************************************************************************)
(* The inductive invariant, for a system whose credentials only move by    *)
(* refreshes: no login, no edit of the file.  Any of the other events may  *)
(* happen.                                                                 *)
(***************************************************************************)
NoEdits == "login" \notin Enabled /\ "fileEdit" \notin Enabled

\* The row stays in the file and in memory, and no login holds config_write.
RowStays ==
    /\ file # NoRow
    /\ \A p \in Procs : ~removed[p] /\ wlock[p] # LoginCall /\ mem[p] # NoRow /\ cfg[p] # NoRow

\* What a task at the OAuth server, or back from it, knows of its row.
InHand ==
    \A t \in Tasks :
        /\ pc[t] \in {"posting", "answered"} => planned[t] = mem[ProcOf[t]]
        /\ pc[t] = "answered" /\ reply[t].answer = "rejected" => planned[t] \notin live
        /\ pc[t] \in {"persist", "writing"} => reply[t].token = mem[ProcOf[t]]

\* The holder of config_write has put the row's credential in the snapshot.
WriterHasSnapshot ==
    \A t \in Tasks :
        wlock[ProcOf[t]] = t => pc[t] = "writing" /\ cfg[ProcOf[t]] = mem[ProcOf[t]]

IInv ==
    SpentInv /\ RowStays /\ InHand /\ WriterHasSnapshot /\ HealthyNeverCondemned /\ SnapshotKeepsToken

\* A step of a refresh task keeps the invariant.
LEMMA TaskSafe ==
  ASSUME NoEdits, IInv, NEW t \in Tasks, TaskStep(t)
  PROVE  IInv'
<1> USE ProcAssumption, LockAssumption DEF IInv, SpentInv, TypeOK
<1>p. ProcOf[t] \in Procs
  OBVIOUS
<1>s. SpentInv'
  BY TaskKeepsSpent
<1>r. \A u \in Tasks : reply[u].token \in Nat
  BY DEF Replies
<1>1. ASSUME NEW force \in BOOLEAN, NEW expired \in BOOLEAN, Plan(t, force, expired)
      PROVE  IInv'
  <2>1. RowStays'
    BY <1>1, <1>p, <1>r DEF Plan, upstream, account, RowStays
  <2>2. InHand'
    BY <1>1, <1>p, <1>r DEF Plan, upstream, account, InHand
  <2>3. WriterHasSnapshot'
    BY <1>1, <1>p, <1>r DEF Plan, upstream, account, WriterHasSnapshot
  <2>4. HealthyNeverCondemned'
    BY <1>1, <1>p, <1>r DEF Plan, upstream, account, HealthyNeverCondemned
  <2>5. SnapshotKeepsToken'
    BY <1>1, <1>p, <1>r DEF Plan, upstream, account, SnapshotKeepsToken, Running, Released
  <2> QED
    BY <1>s, <2>1, <2>2, <2>3, <2>4, <2>5
<1>2. CASE LockAndSkip(t)
  <2>1. RowStays'
    BY <1>2, <1>p, <1>r DEF LockAndSkip, Done, Coalesced, upstream, account, RowStays
  <2>2. InHand'
    BY <1>2, <1>p, <1>r DEF LockAndSkip, Done, Coalesced, upstream, account, InHand
  <2>3. WriterHasSnapshot'
    BY <1>2, <1>p, <1>r DEF LockAndSkip, Done, Coalesced, upstream, account, WriterHasSnapshot
  <2>4. HealthyNeverCondemned'
    BY <1>2, <1>p, <1>r DEF LockAndSkip, Done, Coalesced, upstream, account,
      HealthyNeverCondemned
  <2>5. SnapshotKeepsToken'
    BY <1>2, <1>p, <1>r DEF LockAndSkip, Done, Coalesced, upstream, account,
      SnapshotKeepsToken, Running, Released
  <2> QED
    BY <1>s, <2>1, <2>2, <2>3, <2>4, <2>5
<1>3. CASE LockAndPost(t)
  <2>1. RowStays'
    BY <1>3, <1>p, <1>r DEF LockAndPost, Coalesced, upstream, account, RowStays
  <2>2. InHand'
    BY <1>3, <1>p, <1>r DEF LockAndPost, Coalesced, upstream, account, InHand
  <2>3. WriterHasSnapshot'
    BY <1>3, <1>p, <1>r DEF LockAndPost, Coalesced, upstream, account, WriterHasSnapshot
  <2>4. HealthyNeverCondemned'
    BY <1>3, <1>p, <1>r DEF LockAndPost, Coalesced, upstream, account, HealthyNeverCondemned
  <2>5. SnapshotKeepsToken'
    BY <1>3, <1>p, <1>r DEF LockAndPost, Coalesced, upstream, account, SnapshotKeepsToken,
      Running, Released
  <2> QED
    BY <1>s, <2>1, <2>2, <2>3, <2>4, <2>5
<1>4. CASE UpstreamAnswers(t)
  <2>1. RowStays'
    BY <1>4, <1>p, <1>r DEF UpstreamAnswers, upstream, account, RowStays
  <2>2. WriterHasSnapshot'
    BY <1>4, <1>p, <1>r DEF UpstreamAnswers, upstream, account, WriterHasSnapshot
  <2>3. SnapshotKeepsToken'
    BY <1>4, <1>p, <1>r DEF UpstreamAnswers, upstream, account, SnapshotKeepsToken, Running,
      Released
  <2>4. InHand'
    BY <1>4, <1>p, <1>r DEF UpstreamAnswers, upstream, account, InHand, AllMinted
  <2>5. HealthyNeverCondemned'
    BY <1>4, <1>p, <1>r DEF UpstreamAnswers, upstream, account, HealthyNeverCondemned,
      AllMinted
  <2> QED
    BY <1>s, <2>1, <2>2, <2>3, <2>4, <2>5
<1>5. CASE PostFails(t)
  <2>1. RowStays'
    BY <1>5, <1>p, <1>r DEF PostFails, NoAnswer, upstream, account, RowStays
  <2>2. InHand'
    BY <1>5, <1>p, <1>r DEF PostFails, NoAnswer, upstream, account, InHand
  <2>3. WriterHasSnapshot'
    BY <1>5, <1>p, <1>r DEF PostFails, NoAnswer, upstream, account, WriterHasSnapshot
  <2>4. HealthyNeverCondemned'
    BY <1>5, <1>p, <1>r DEF PostFails, NoAnswer, upstream, account, HealthyNeverCondemned
  <2>5. SnapshotKeepsToken'
    BY <1>5, <1>p, <1>r DEF PostFails, NoAnswer, upstream, account, SnapshotKeepsToken,
      Running, Released
  <2> QED
    BY <1>s, <2>1, <2>2, <2>3, <2>4, <2>5
<1>6. CASE ReplyLost(t)
  <2>1. RowStays'
    BY <1>6, <1>p, <1>r DEF ReplyLost, NoAnswer, account, RowStays
  <2>2. WriterHasSnapshot'
    BY <1>6, <1>p, <1>r DEF ReplyLost, NoAnswer, account, WriterHasSnapshot
  <2>3. SnapshotKeepsToken'
    BY <1>6, <1>p, <1>r DEF ReplyLost, NoAnswer, account, SnapshotKeepsToken, Running, Released
  <2>4. InHand'
    BY <1>6, <1>p, <1>r DEF ReplyLost, NoAnswer, account, InHand, AllMinted
  <2>5. HealthyNeverCondemned'
    BY <1>6, <1>p, <1>r DEF ReplyLost, NoAnswer, account, HealthyNeverCondemned, AllMinted
  <2> QED
    BY <1>s, <2>1, <2>2, <2>3, <2>4, <2>5
<1>7. CASE ApplyRefresh(t)
  <2>1. HealthyNeverCondemned'
    BY <1>7, <1>p, <1>r DEF ApplyRefresh, upstream, HealthyNeverCondemned
  <2>2. SnapshotKeepsToken'
    BY <1>7, <1>p, <1>r DEF ApplyRefresh, upstream, SnapshotKeepsToken, Running, Released
  <2>3. RowStays'
    BY <1>7, <1>p, <1>r DEF ApplyRefresh, upstream, RowStays, AnswerIsNew, NoRow
  <2>4. InHand'
    BY <1>7, <1>p, <1>r DEF ApplyRefresh, upstream, InHand, Locked
  <2>5. WriterHasSnapshot'
    BY <1>7, <1>p, <1>r DEF ApplyRefresh, upstream, WriterHasSnapshot, Locked
  <2> QED
    BY <1>s, <2>1, <2>2, <2>3, <2>4, <2>5
<1>8. CASE Rejected(t)
  <2>1. RowStays'
    BY <1>8, <1>p, <1>r DEF Rejected, Done, upstream, RowStays
  <2>2. InHand'
    BY <1>8, <1>p, <1>r DEF Rejected, Done, upstream, InHand
  <2>3. WriterHasSnapshot'
    BY <1>8, <1>p, <1>r DEF Rejected, Done, upstream, WriterHasSnapshot
  <2>4. SnapshotKeepsToken'
    BY <1>8, <1>p, <1>r DEF Rejected, Done, upstream, SnapshotKeepsToken, Running, Released
  <2>5. HealthyNeverCondemned'
    BY <1>8, <1>p, <1>r DEF Rejected, Done, upstream, HealthyNeverCondemned, InHand
  <2> QED
    BY <1>s, <2>1, <2>2, <2>3, <2>4, <2>5
<1>9. CASE Transient(t)
  <2>1. RowStays'
    BY <1>9, <1>p, <1>r DEF Transient, Done, upstream, RowStays
  <2>2. InHand'
    BY <1>9, <1>p, <1>r DEF Transient, Done, upstream, InHand
  <2>3. WriterHasSnapshot'
    BY <1>9, <1>p, <1>r DEF Transient, Done, upstream, WriterHasSnapshot
  <2>4. HealthyNeverCondemned'
    BY <1>9, <1>p, <1>r DEF Transient, Done, upstream, HealthyNeverCondemned
  <2>5. SnapshotKeepsToken'
    BY <1>9, <1>p, <1>r DEF Transient, Done, upstream, SnapshotKeepsToken, Running, Released
  <2> QED
    BY <1>s, <2>1, <2>2, <2>3, <2>4, <2>5
<1>10. CASE PersistGate(t)
  <2>1. RowStays'
    BY <1>10, <1>p, <1>r DEF PersistGate, Done, upstream, account, RowStays
  <2>2. InHand'
    BY <1>10, <1>p, <1>r DEF PersistGate, Done, upstream, account, InHand
  <2>3. WriterHasSnapshot'
    BY <1>10, <1>p, <1>r DEF PersistGate, Done, upstream, account, WriterHasSnapshot
  <2>4. HealthyNeverCondemned'
    BY <1>10, <1>p, <1>r DEF PersistGate, Done, upstream, account, HealthyNeverCondemned
  <2>5. SnapshotKeepsToken'
    BY <1>10, <1>p, <1>r DEF PersistGate, Done, upstream, account, SnapshotKeepsToken, Running,
      Released
  <2> QED
    BY <1>s, <2>1, <2>2, <2>3, <2>4, <2>5
<1>11. CASE PersistSnapshot(t)
  <2>1. InHand'
    BY <1>11, <1>p, <1>r DEF PersistSnapshot, upstream, account, taskVars, InHand
  <2>2. HealthyNeverCondemned'
    BY <1>11, <1>p, <1>r DEF PersistSnapshot, upstream, account, taskVars,
      HealthyNeverCondemned
  <2>3. SnapshotKeepsToken'
    BY <1>11, <1>p, <1>r DEF PersistSnapshot, upstream, account, taskVars, SnapshotKeepsToken,
      Running, Released
  <2>4. RowStays'
    BY <1>11, <1>p, <1>r DEF PersistSnapshot, upstream, account, taskVars, RowStays, InHand
  <2>5. WriterHasSnapshot'
    BY <1>11, <1>p, <1>r DEF PersistSnapshot, upstream, account, taskVars, WriterHasSnapshot,
      InHand, Locked
  <2> QED
    BY <1>s, <2>1, <2>2, <2>3, <2>4, <2>5
<1>12. CASE PersistWrite(t)
  <2>1. RowStays'
    BY <1>12, <1>p, <1>r DEF PersistWrite, Done, Merged, NoRow, upstream, account, RowStays
  <2>2. InHand'
    BY <1>12, <1>p, <1>r DEF PersistWrite, Done, Merged, NoRow, upstream, account, InHand
  <2>3. WriterHasSnapshot'
    BY <1>12, <1>p, <1>r DEF PersistWrite, Done, Merged, NoRow, upstream, account,
      WriterHasSnapshot
  <2>4. HealthyNeverCondemned'
    BY <1>12, <1>p, <1>r DEF PersistWrite, Done, Merged, NoRow, upstream, account,
      HealthyNeverCondemned
  <2>5. SnapshotKeepsToken'
    BY <1>12, <1>p, <1>r DEF PersistWrite, Done, Merged, NoRow, upstream, account,
      SnapshotKeepsToken, Running, Released, WriterHasSnapshot, Locked, RowStays
  <2> QED
    BY <1>s, <2>1, <2>2, <2>3, <2>4, <2>5
<1> QED
  BY <1>1, <1>2, <1>3, <1>4, <1>5, <1>6, <1>7, <1>8, <1>9, <1>10, <1>11, <1>12 DEF TaskStep, TaskWork

\* A step of a process keeps the invariant.
LEMMA ProcSafe ==
  ASSUME NoEdits, IInv, NEW p \in Procs, ProcStep(p)
  PROVE  IInv'
<1> USE ProcAssumption, LockAssumption DEF IInv, SpentInv, TypeOK
<1>s. SpentInv'
  BY ProcKeepsSpent
<1>1. ~LiveLogin(p) /\ ~LiveLoginPersists(p) /\ ~Reload(p)
  BY DEF NoEdits, RowStays, LiveLogin, LiveLoginPersists, Reload
<1>2. CASE CooldownEnds(p)
  <2>1. RowStays'
    BY <1>2 DEF CooldownEnds, upstream, taskVars, RowStays
  <2>2. InHand'
    BY <1>2 DEF CooldownEnds, upstream, taskVars, InHand
  <2>3. WriterHasSnapshot'
    BY <1>2 DEF CooldownEnds, upstream, taskVars, WriterHasSnapshot
  <2>4. HealthyNeverCondemned'
    BY <1>2 DEF CooldownEnds, upstream, taskVars, HealthyNeverCondemned
  <2>5. SnapshotKeepsToken'
    BY <1>2 DEF CooldownEnds, upstream, taskVars, SnapshotKeepsToken, Running, Released
  <2> QED
    BY <1>s, <2>1, <2>2, <2>3, <2>4, <2>5
<1>3. CASE StopListening(p)
  <2>1. RowStays'
    BY <1>3 DEF StopListening, upstream, account, taskVars, RowStays
  <2>2. InHand'
    BY <1>3 DEF StopListening, upstream, account, taskVars, InHand
  <2>3. WriterHasSnapshot'
    BY <1>3 DEF StopListening, upstream, account, taskVars, WriterHasSnapshot
  <2>4. HealthyNeverCondemned'
    BY <1>3 DEF StopListening, upstream, account, taskVars, HealthyNeverCondemned
  <2>5. SnapshotKeepsToken'
    BY <1>3 DEF StopListening, upstream, account, taskVars, SnapshotKeepsToken, Running,
      Released
  <2> QED
    BY <1>s, <2>1, <2>2, <2>3, <2>4, <2>5
<1>4. CASE ShutdownFlush(p)
  <2>1. RowStays'
    BY <1>4 DEF ShutdownFlush, PersistNow, Merged, NoRow, upstream, account, taskVars, RowStays
  <2>2. InHand'
    BY <1>4 DEF ShutdownFlush, PersistNow, Merged, NoRow, upstream, account, taskVars, InHand
  <2>3. WriterHasSnapshot'
    BY <1>4 DEF ShutdownFlush, PersistNow, Merged, NoRow, upstream, account, taskVars,
      WriterHasSnapshot
  <2>4. HealthyNeverCondemned'
    BY <1>4 DEF ShutdownFlush, PersistNow, Merged, NoRow, upstream, account, taskVars,
      HealthyNeverCondemned
  <2>5. SnapshotKeepsToken'
    BY <1>4 DEF ShutdownFlush, PersistNow, Merged, NoRow, upstream, account, taskVars,
      SnapshotKeepsToken, Running, Released
  <2> QED
    BY <1>s, <2>1, <2>2, <2>3, <2>4, <2>5
<1>5. CASE Exit(p)
  <2>1. RowStays'
    BY <1>5 DEF Exit, upstream, account, taskVars, RowStays
  <2>2. InHand'
    BY <1>5 DEF Exit, upstream, account, taskVars, InHand
  <2>3. WriterHasSnapshot'
    BY <1>5 DEF Exit, upstream, account, taskVars, WriterHasSnapshot
  <2>4. HealthyNeverCondemned'
    BY <1>5 DEF Exit, upstream, account, taskVars, HealthyNeverCondemned
  <2>5. SnapshotKeepsToken'
    BY <1>5 DEF Exit, upstream, account, taskVars, SnapshotKeepsToken, Running, Released
  <2> QED
    BY <1>s, <2>1, <2>2, <2>3, <2>4, <2>5
<1>6. CASE Crash(p)
  <2>1. RowStays'
    BY <1>6 DEF Crash, upstream, account, taskVars, RowStays
  <2>2. InHand'
    BY <1>6 DEF Crash, upstream, account, taskVars, InHand
  <2>3. WriterHasSnapshot'
    BY <1>6 DEF Crash, upstream, account, taskVars, WriterHasSnapshot
  <2>4. HealthyNeverCondemned'
    BY <1>6 DEF Crash, upstream, account, taskVars, HealthyNeverCondemned
  <2>5. SnapshotKeepsToken'
    BY <1>6 DEF Crash, upstream, account, taskVars, SnapshotKeepsToken, Running, Released
  <2> QED
    BY <1>s, <2>1, <2>2, <2>3, <2>4, <2>5
<1>7. CASE HandoffFlush(p)
  <2>1. RowStays'
    BY <1>7 DEF HandoffFlush, PersistNow, Merged, NoRow, upstream, account, taskVars, RowStays
  <2>2. InHand'
    BY <1>7 DEF HandoffFlush, PersistNow, Merged, NoRow, upstream, account, taskVars, InHand
  <2>3. WriterHasSnapshot'
    BY <1>7 DEF HandoffFlush, PersistNow, Merged, NoRow, upstream, account, taskVars,
      WriterHasSnapshot
  <2>4. HealthyNeverCondemned'
    BY <1>7 DEF HandoffFlush, PersistNow, Merged, NoRow, upstream, account, taskVars,
      HealthyNeverCondemned
  <2>5. SnapshotKeepsToken'
    BY <1>7 DEF HandoffFlush, PersistNow, Merged, NoRow, upstream, account, taskVars,
      SnapshotKeepsToken, Running, Released
  <2> QED
    BY <1>s, <2>1, <2>2, <2>3, <2>4, <2>5
<1>8. CASE ReleaseMutationOwnership(p)
  <2>1. RowStays'
    BY <1>8 DEF ReleaseMutationOwnership, upstream, account, taskVars, RowStays
  <2>2. InHand'
    BY <1>8 DEF ReleaseMutationOwnership, upstream, account, taskVars, InHand
  <2>3. WriterHasSnapshot'
    BY <1>8 DEF ReleaseMutationOwnership, upstream, account, taskVars, WriterHasSnapshot
  <2>4. HealthyNeverCondemned'
    BY <1>8 DEF ReleaseMutationOwnership, upstream, account, taskVars, HealthyNeverCondemned
  <2>5. SnapshotKeepsToken'
    BY <1>8 DEF ReleaseMutationOwnership, upstream, account, taskVars, SnapshotKeepsToken,
      Running, Released
  <2> QED
    BY <1>s, <2>1, <2>2, <2>3, <2>4, <2>5
<1>9. CASE Boot(p)
  <2>1. RowStays'
    BY <1>9 DEF Boot, upstream, taskVars, RowStays
  <2>2. SnapshotKeepsToken'
    BY <1>9 DEF Boot, upstream, taskVars, SnapshotKeepsToken, Running, Released
  <2>3. InHand'
    BY <1>9 DEF Boot, upstream, taskVars, InHand, OffIsFresh
  <2>4. WriterHasSnapshot'
    BY <1>9 DEF Boot, upstream, taskVars, WriterHasSnapshot, OffIsFresh
  <2>5. HealthyNeverCondemned'
    BY <1>9 DEF Boot, upstream, taskVars, HealthyNeverCondemned, OffIsFresh
  <2> QED
    BY <1>s, <2>1, <2>2, <2>3, <2>4, <2>5
<1> QED
  BY <1>1, <1>2, <1>3, <1>4, <1>5, <1>6, <1>7, <1>8, <1>9 DEF ProcStep

\* Any step keeps the invariant.
LEMMA InductiveStep ==
  ASSUME NoEdits, IInv, [Next]_vars
  PROVE  IInv'
<1>1. CASE UNCHANGED vars
  <2>1. SpentInv'
    BY SpentStep DEF IInv
  <2> QED
    BY <1>1, <2>1 DEF vars, upstream, account, taskVars, IInv, RowStays, InHand, WriterHasSnapshot,
        HealthyNeverCondemned, SnapshotKeepsToken, Running, Released
<1>2. ~FileLogin /\ ~FileDelete
  BY NoEdits DEF NoEdits, FileLogin, FileDelete
<1> QED
  BY NoEdits, <1>1, <1>2, TaskSafe, ProcSafe DEF Next

\* The invariant of the specification without logins and edits.
LEMMA Inductive ==
  ASSUME NoEdits
  PROVE  Spec => []IInv
<1>1. Init /\ SpentInv => IInv
  BY ProcAssumption, LockAssumption
  DEF Init, IInv, RowStays, NoRow, InHand, WriterHasSnapshot, HealthyNeverCondemned, SnapshotKeepsToken
<1>2. IInv /\ [Next]_vars => IInv'
  BY NoEdits, InductiveStep
<1> QED
  BY <1>1, <1>2, SpentInvariant, PTL DEF Spec

\* While credentials only move by refreshes a row is in error only when the OAuth server
\* really no longer accepts its credential.
THEOREM OnlyDeadRowsCondemned ==
  ASSUME NoEdits
  PROVE  Spec => []HealthyNeverCondemned
<1>1. IInv => HealthyNeverCondemned
  BY DEF IInv
<1> QED
  BY <1>1, Inductive, PTL

\* Under the same condition the snapshot that persist_now flushes has the row's
\* credential whenever no refresh is being persisted.
THEOREM SnapshotIsRecoveryBuffer ==
  ASSUME NoEdits
  PROVE  Spec => []SnapshotKeepsToken
<1>1. IInv => SnapshotKeepsToken
  BY DEF IInv
<1> QED
  BY <1>1, Inductive, PTL

-----------------------------------------------------------------------------
(***************************************************************************)
(* One process at a time: a successor starts only after the exit.          *)
(***************************************************************************)
OneAtATime == NoEdits /\ "earlyBoot" \notin Enabled /\ "handoff" \notin Enabled

\* At most one process runs, and none is in a handoff.
Alone ==
    /\ \A p \in Procs : state[p] \in {"off", "up", "stopping", "exiting", "dead"}
    /\ \A p, q \in Procs : Running(p) /\ Running(q) => p = q

\* The credential moves one way: from the row to the snapshot to the file.
FileBehind ==
    \A p \in Procs : Running(p) => file <= cfg[p] /\ cfg[p] <= mem[p]

\* A step keeps the processes apart.
LEMMA AloneStep ==
  ASSUME OneAtATime, IInv, Alone, [Next]_vars
  PROVE  Alone'
<1> USE DEF Alone, Running
<1>1. CASE UNCHANGED state
  BY <1>1
<1>2. ASSUME NEW p \in Procs, StopListening(p) PROVE Alone'
  BY <1>2 DEF StopListening, IInv, SpentInv, TypeOK
<1>3. ASSUME NEW p \in Procs, ShutdownFlush(p) PROVE Alone'
  BY <1>3 DEF ShutdownFlush, IInv, SpentInv, TypeOK
<1>4. ASSUME NEW p \in Procs, Exit(p) PROVE Alone'
  BY <1>4 DEF Exit, IInv, SpentInv, TypeOK
<1>5. ASSUME NEW p \in Procs, Crash(p) PROVE Alone'
  BY <1>5 DEF Crash, IInv, SpentInv, TypeOK
<1>6. ASSUME NEW p \in Procs, HandoffFlush(p) \/ ReleaseMutationOwnership(p) PROVE FALSE
  BY <1>6 DEF OneAtATime, HandoffFlush, ReleaseMutationOwnership
<1>7. ASSUME NEW p \in Procs, Boot(p) PROVE Alone'
  BY <1>7 DEF OneAtATime, Boot, HoldsPort, IInv, SpentInv, TypeOK
<1>8. ASSUME NEW t \in Tasks, TaskStep(t) PROVE UNCHANGED state
  BY <1>8 DEF TaskStep, TaskWork, Plan, LockAndSkip, LockAndPost, UpstreamAnswers, PostFails,
       ReplyLost, ApplyRefresh, Rejected, Transient, PersistGate, PersistSnapshot, PersistWrite
<1>9. ASSUME NEW p \in Procs, CooldownEnds(p) \/ LiveLogin(p) \/ LiveLoginPersists(p) \/ Reload(p)
      PROVE  UNCHANGED state
  BY <1>9 DEF CooldownEnds, LiveLogin, LiveLoginPersists, Reload
<1>10. FileLogin \/ FileDelete \/ UNCHANGED vars => UNCHANGED state
  BY DEF FileLogin, FileDelete, vars
<1> QED
  BY <1>1, <1>2, <1>3, <1>4, <1>5, <1>6, <1>7, <1>8, <1>9, <1>10 DEF Next, ProcStep

\* What a step may do to the file, and that it keeps the one-way order.
LEMMA FileStep ==
  ASSUME OneAtATime, IInv, Alone, FileBehind, [Next]_vars
  PROVE  FileBehind' /\ file <= file'
<1> USE ProcAssumption DEF FileBehind, Running, IInv, SpentInv, TypeOK
<1>f. file \in Nat /\ file # 0
  BY DEF RowStays, NoRow
<1>1. CASE UNCHANGED <<state, file, cfg, mem>>
  BY <1>1, <1>f
<1>2. ASSUME NEW p \in Procs, StopListening(p) \/ Exit(p) \/ Crash(p)
      PROVE  FileBehind' /\ file <= file'
  BY <1>2, <1>f DEF StopListening, Exit, Crash, account
<1>3. ASSUME NEW p \in Procs, ShutdownFlush(p) PROVE FileBehind' /\ file <= file'
  <2>1. /\ file' = cfg[p] \/ file' = file
        /\ UNCHANGED <<cfg, mem>>
        /\ state[p] = "stopping" /\ state' = [state EXCEPT ![p] = "exiting"]
    BY <1>3, <1>f DEF ShutdownFlush, PersistNow, Merged, NoRow, account
  <2>2. file <= cfg[p] /\ \A q \in Procs : Running(q) => q = p
    BY <2>1 DEF Alone
  <2> QED
    BY <2>1, <2>2, <1>f
<1>4. ASSUME NEW p \in Procs, Boot(p) PROVE FileBehind' /\ file <= file'
  <2>1. \A q \in Procs : ~Running(q)
    BY <1>4 DEF Boot, HoldsPort, OneAtATime, Alone
  <2> QED
    BY <1>4, <2>1, <1>f DEF Boot
<1>5. ASSUME NEW t \in Tasks, ApplyRefresh(t) PROVE FileBehind' /\ file <= file'
  <2>1. mem[ProcOf[t]] < reply[t].token /\ reply[t].token \in Nat
    BY <1>5 DEF ApplyRefresh, InHand, AnswerIsNew, Replies
  <2> QED
    BY <1>5, <2>1, <1>f DEF ApplyRefresh
<1>6. ASSUME NEW t \in Tasks, PersistSnapshot(t) PROVE FileBehind' /\ file <= file'
  <2>1. reply[t].token = mem[ProcOf[t]]
    BY <1>6 DEF PersistSnapshot, InHand
  <2> QED
    BY <1>6, <2>1, <1>f DEF PersistSnapshot, account
<1>7. ASSUME NEW t \in Tasks, PersistWrite(t) PROVE FileBehind' /\ file <= file'
  <2>1. /\ file' = cfg[ProcOf[t]] \/ file' = file
        /\ UNCHANGED <<cfg, mem, state>>
        /\ Running(ProcOf[t])
    BY <1>7, <1>f DEF PersistWrite, Merged, NoRow, account
  <2>2. file <= cfg[ProcOf[t]] /\ \A q \in Procs : Running(q) => q = ProcOf[t]
    BY <2>1 DEF Alone
  <2> QED
    BY <2>1, <2>2, <1>f
<1>8. ASSUME NEW t \in Tasks, TaskStep(t), ~ApplyRefresh(t), ~PersistSnapshot(t), ~PersistWrite(t)
      PROVE  UNCHANGED <<state, file, cfg, mem>>
  BY <1>8, Zenon DEF TaskStep, TaskWork, Plan, LockAndSkip, LockAndPost, UpstreamAnswers, PostFails,
       ReplyLost, Rejected, Transient, PersistGate, account
<1>9. ASSUME NEW p \in Procs, CooldownEnds(p) PROVE UNCHANGED <<state, file, cfg, mem>>
  BY <1>9 DEF CooldownEnds
<1>10. ASSUME NEW p \in Procs
       PROVE  ~LiveLogin(p) /\ ~LiveLoginPersists(p) /\ ~Reload(p) /\ ~HandoffFlush(p)
              /\ ~ReleaseMutationOwnership(p)
  BY DEF OneAtATime, NoEdits, RowStays, Alone, LiveLogin, LiveLoginPersists, Reload,
       HandoffFlush, ReleaseMutationOwnership
<1>11. ~FileLogin /\ ~FileDelete
  BY DEF OneAtATime, NoEdits, FileLogin, FileDelete
<1>12. UNCHANGED vars => UNCHANGED <<state, file, cfg, mem>>
  BY DEF vars, account
<1> QED
  BY <1>1, <1>2, <1>3, <1>4, <1>5, <1>6, <1>7, <1>8, <1>9, <1>10, <1>11, <1>12 DEF Next, ProcStep

\* INV1: no write of the config file puts an older credential over a newer one.
FileNeverGoesBack == [][file' # file => file' > file \/ file' = NoRow]_vars

\* While one process at a time moves the credential, and only by refreshes, the
\* file never gets an older token than it has: retries, failed writes, late
\* persists, shutdowns and crashes included.
THEOREM FileMovesForward ==
  ASSUME OneAtATime
  PROVE  Spec => FileNeverGoesBack
<1>1. Init => Alone /\ FileBehind
  BY DEF Init, Alone, FileBehind, Running
<1>2. IInv /\ Alone /\ FileBehind /\ [Next]_vars => Alone' /\ FileBehind'
  BY OneAtATime, AloneStep, FileStep
<1>3. IInv /\ Alone /\ FileBehind /\ [Next]_vars
        => [file' # file => file' > file \/ file' = NoRow]_vars
  <2> SUFFICES ASSUME IInv, Alone, FileBehind, [Next]_vars
               PROVE  file' # file => file' > file
    OBVIOUS
  <2>1. file <= file'
    BY OneAtATime, FileStep
  <2>2. file \in Nat /\ file' \in Nat
    <3>1. IInv'
      BY OneAtATime, InductiveStep DEF OneAtATime
    <3> QED
      BY <3>1 DEF IInv, SpentInv, TypeOK
  <2> QED
    BY <2>1, <2>2
<1>4. Spec => []IInv
  BY OneAtATime, Inductive DEF OneAtATime
<1> QED
  BY <1>1, <1>2, <1>3, <1>4, PTL DEF Spec, FileNeverGoesBack

-----------------------------------------------------------------------------
(***************************************************************************)
(* Two processes at once: only one that has been overtaken puts an older   *)
(* credential over a newer one.                                            *)
(***************************************************************************)

\* The OAuth server accepts nothing but the token it minted last.
OnlyNewest == live \subseteq {minted}

\* Whoever has a token in hand that its row has not seen yet has the newest there is,
\* and nothing that anyone else holds, writes or is about to hold has overtaken the token it
\* was exchanged for.
AnswerAhead ==
    \A t \in Tasks : pc[t] = "answered" /\ reply[t].answer = "ok" =>
        /\ reply[t].token = minted /\ planned[t] < minted
        /\ file <= planned[t]
        /\ \A q \in Procs : mem[q] <= planned[t] /\ cfg[q] <= planned[t]
        /\ \A u \in Tasks : planned[u] <= planned[t]
        /\ \A u \in Tasks \ {t} :
               /\ pc[u] \in {"persist", "writing"} => reply[u].token <= planned[t]
               /\ ~(pc[u] = "answered" /\ reply[u].answer = "ok")

\* Between a process's snapshot and its row lies nothing that another
\* process or the file holds.
Lineage ==
    \A p \in Procs : Running(p) =>
        /\ ~(cfg[p] < file /\ file <= mem[p])
        /\ \A q \in Procs \ {p} : Running(q) =>
               /\ ~(cfg[p] < mem[q] /\ mem[q] <= mem[p])
               /\ ~(cfg[p] < cfg[q] /\ cfg[q] <= mem[p])

AheadInv == OnlyNewest /\ AnswerAhead /\ Lineage

\* A task that may exchange its token finds no other answer under way.
LEMMA NoOtherAnswer ==
  ASSUME IInv, OnlyNewest, AnswerAhead, NEW u \in Tasks, planned[u] \in live
  PROVE  /\ planned[u] = minted
         /\ \A t \in Tasks : ~(pc[t] = "answered" /\ reply[t].answer = "ok")
<1>1. planned[u] = minted
  BY DEF OnlyNewest
<1>2. \A t \in Tasks : pc[t] = "answered" /\ reply[t].answer = "ok" =>
          planned[u] <= planned[t] /\ planned[t] < minted
  BY DEF AnswerAhead
<1>3. minted \in Nat /\ \A t \in Tasks : planned[t] \in Nat
  BY DEF IInv, SpentInv, TypeOK
<1> QED
  BY <1>1, <1>2, <1>3

\* The OAuth server's answer is the newest token; the other steps of a task
\* hand on what is older than any answer.
LEMMA TaskKeepsAhead ==
  ASSUME NoEdits, IInv, OnlyNewest, AnswerAhead, NEW u \in Tasks, TaskStep(u)
  PROVE  OnlyNewest' /\ AnswerAhead'
<1> USE ProcAssumption
<1>p. /\ ProcOf[u] \in Procs
      /\ pc \in [Tasks -> {"idle", "queued", "posting", "answered", "persist", "writing"}]
      /\ minted \in Nat /\ file \in Nat
      /\ planned \in [Tasks -> Nat] /\ reply \in [Tasks -> Replies]
      /\ mem \in [Procs -> Nat] /\ cfg \in [Procs -> Nat]
  BY DEF IInv, SpentInv, TypeOK
<1>r. \A t \in Tasks : reply[t].token \in Nat
  BY <1>p DEF Replies
<1>1. ASSUME NEW force \in BOOLEAN, NEW expired \in BOOLEAN, Plan(u, force, expired)
      PROVE  OnlyNewest' /\ AnswerAhead'
  BY <1>1, <1>p, <1>r DEF Plan, upstream, account, OnlyNewest, AnswerAhead
<1>2. CASE LockAndSkip(u)
  BY <1>2, <1>p, <1>r DEF LockAndSkip, Done, upstream, account, OnlyNewest, AnswerAhead
<1>3. CASE LockAndPost(u)
  BY <1>3, <1>p, <1>r DEF LockAndPost, upstream, account, OnlyNewest, AnswerAhead
<1>4. CASE UpstreamAnswers(u)
  <2>1. CASE planned[u] \in live
    <3>1. /\ minted' = minted + 1 /\ live' = (live \ {planned[u]}) \cup {minted + 1}
          /\ reply' = [reply EXCEPT ![u] = [answer |-> "ok", token |-> minted + 1]]
          /\ pc' = [pc EXCEPT ![u] = "answered"]
          /\ UNCHANGED <<file, mem, cfg, planned>>
      BY <1>4, <2>1 DEF UpstreamAnswers, account
    <3>2. /\ planned[u] = minted
          /\ \A t \in Tasks : ~(pc[t] = "answered" /\ reply[t].answer = "ok")
      BY <2>1, NoOtherAnswer
    <3>3. OnlyNewest'
      BY <3>1, <3>2 DEF OnlyNewest
    <3>4. /\ file <= minted
          /\ \A q \in Procs : mem[q] <= minted /\ cfg[q] <= minted
          /\ \A t \in Tasks : planned[t] <= minted /\ reply[t].token <= minted
      BY DEF IInv, SpentInv, AllMinted
    <3>5. AnswerAhead'
      BY <3>1, <3>2, <3>4, <1>p, <1>r DEF AnswerAhead
    <3> QED
      BY <3>3, <3>5
  <2>2. CASE planned[u] \notin live
    <3>1. /\ reply' = [reply EXCEPT ![u] = [answer |-> "rejected", token |-> 0]]
          /\ pc' = [pc EXCEPT ![u] = "answered"]
          /\ UNCHANGED <<minted, live, file, mem, cfg, planned>>
      BY <1>4, <2>2 DEF UpstreamAnswers, upstream, account
    <3> QED
      BY <3>1, <1>p, <1>r DEF OnlyNewest, AnswerAhead
  <2> QED
    BY <2>1, <2>2
<1>5. CASE PostFails(u)
  BY <1>5, <1>p, <1>r DEF PostFails, NoAnswer, upstream, account, OnlyNewest, AnswerAhead
<1>6. CASE ReplyLost(u)
  <2>1. /\ planned[u] = minted
        /\ \A t \in Tasks : ~(pc[t] = "answered" /\ reply[t].answer = "ok")
    BY <1>6, NoOtherAnswer DEF ReplyLost
  <2>2. OnlyNewest'
    BY <1>6, <2>1 DEF ReplyLost, OnlyNewest
  <2>3. \A t \in Tasks : ~(pc'[t] = "answered" /\ reply'[t].answer = "ok")
    BY <1>6, <2>1, <1>p DEF ReplyLost, NoAnswer
  <2> QED
    BY <2>2, <2>3 DEF AnswerAhead
<1>7. CASE ApplyRefresh(u)
  <2>1. \A t \in Tasks : ~(pc'[t] = "answered" /\ reply'[t].answer = "ok")
    BY <1>7, <1>p DEF ApplyRefresh, AnswerAhead
  <2> QED
    BY <1>7, <2>1 DEF ApplyRefresh, upstream, OnlyNewest, AnswerAhead
<1>8. CASE Rejected(u)
  BY <1>8, <1>p, <1>r DEF Rejected, Done, upstream, OnlyNewest, AnswerAhead
<1>9. CASE Transient(u)
  BY <1>9, <1>p, <1>r DEF Transient, Done, upstream, OnlyNewest, AnswerAhead
<1>10. CASE PersistGate(u)
  BY <1>10, <1>p, <1>r DEF PersistGate, Done, upstream, account, OnlyNewest, AnswerAhead
<1>11. CASE PersistSnapshot(u)
  BY <1>11, <1>p, <1>r DEF PersistSnapshot, upstream, account, taskVars, OnlyNewest, AnswerAhead
<1>12. CASE PersistWrite(u)
  <2>1. file' = cfg[ProcOf[u]] \/ file' = file
    BY <1>12 DEF PersistWrite, Merged, IInv, RowStays
  <2> QED
    BY <1>12, <2>1, <1>p, <1>r DEF PersistWrite, Done, upstream, account, OnlyNewest, AnswerAhead
<1> QED
  BY <1>1, <1>2, <1>3, <1>4, <1>5, <1>6, <1>7, <1>8, <1>9, <1>10, <1>11, <1>12
  DEF TaskStep, TaskWork

\* What the processes hand on is no newer than any answer either.
LEMMA ProcKeepsAhead ==
  ASSUME NoEdits, IInv, OnlyNewest, AnswerAhead, NEW p \in Procs, ProcStep(p)
  PROVE  OnlyNewest' /\ AnswerAhead'
<1>t. mem \in [Procs -> Nat] /\ cfg \in [Procs -> Nat]
  BY DEF IInv, SpentInv, TypeOK
<1>1. ~LiveLogin(p) /\ ~LiveLoginPersists(p) /\ ~Reload(p)
  BY DEF NoEdits, IInv, SpentInv, TypeOK, RowStays, LiveLogin, LiveLoginPersists, Reload
<1>2. UNCHANGED <<upstream, taskVars>>
  BY <1>1 DEF ProcStep, CooldownEnds, StopListening, ShutdownFlush, Exit, Crash, HandoffFlush,
        ReleaseMutationOwnership, Boot
<1>3. file' \in {file, cfg[p]}
  BY <1>1 DEF ProcStep, CooldownEnds, StopListening, ShutdownFlush, Exit, Crash, HandoffFlush,
        ReleaseMutationOwnership, Boot, PersistNow, Merged, IInv, RowStays
<1>4. \A q \in Procs : mem'[q] \in {mem[q], file} /\ cfg'[q] \in {cfg[q], file}
  BY <1>1, <1>t DEF ProcStep, CooldownEnds, StopListening, ShutdownFlush, Exit, Crash, HandoffFlush,
        ReleaseMutationOwnership, Boot, account
<1> QED
  BY <1>2, <1>3, <1>4 DEF upstream, taskVars, OnlyNewest, AnswerAhead

\* A write of the file puts the writer's snapshot there, or fails.
LEMMA WriteIsSnapshot ==
  ASSUME NoEdits, IInv, NEW p \in Procs, Writes(p)
  PROVE  /\ Running(p) /\ file' \in {file, cfg[p]}
         /\ UNCHANGED <<mem, cfg>>
         /\ \A q \in Procs : state[q] \in {"off", "dead"} => state'[q] = state[q]
<1>1. ~LiveLoginPersists(p)
  BY DEF IInv, RowStays, LiveLoginPersists
<1>2. file # NoRow /\ state \in [Procs -> States]
  BY DEF IInv, RowStays, SpentInv, TypeOK
<1>3. CASE ShutdownFlush(p)
  BY <1>2, <1>3 DEF ShutdownFlush, PersistNow, Merged, Running, account
<1>4. CASE HandoffFlush(p)
  BY <1>2, <1>4 DEF HandoffFlush, PersistNow, Merged, Running, account
<1>5. ASSUME NEW t \in Tasks, ProcOf[t] = p, PersistWrite(t)
      PROVE  /\ Running(p) /\ file' \in {file, cfg[p]} /\ UNCHANGED <<mem, cfg, state>>
  BY <1>2, <1>5 DEF PersistWrite, Merged, account
<1> QED
  BY <1>1, <1>3, <1>4, <1>5 DEF Writes

\* The one-way order between snapshot, row and file survives every step.
LEMMA LineageStep ==
  ASSUME NoEdits, IInv, AnswerAhead, Lineage, [Next]_vars
  PROVE  Lineage'
<1> USE ProcAssumption
<1>t. /\ state \in [Procs -> States] /\ file \in Nat
      /\ mem \in [Procs -> Nat] /\ cfg \in [Procs -> Nat]
      /\ planned \in [Tasks -> Nat] /\ reply \in [Tasks -> Replies]
  BY DEF IInv, SpentInv, TypeOK
<1>1. CASE UNCHANGED <<state, file, cfg, mem>>
  BY <1>1 DEF Lineage, Running
<1>2. ASSUME NEW p \in Procs, StopListening(p) \/ Exit(p) \/ Crash(p) \/ ReleaseMutationOwnership(p)
      PROVE  Lineage'
  <2>1. UNCHANGED <<file, cfg, mem>> /\ \A q \in Procs : Running(q)' => Running(q)
    BY <1>2, <1>t DEF StopListening, Exit, Crash, ReleaseMutationOwnership, account, Running
  <2> QED
    BY <2>1 DEF Lineage
<1>3. ASSUME NEW p \in Procs, Writes(p) PROVE Lineage'
  <2>1. /\ Running(p) /\ file' \in {file, cfg[p]} /\ UNCHANGED <<mem, cfg>>
        /\ \A q \in Procs : Running(q)' => Running(q)
    BY <1>3, WriteIsSnapshot DEF Running
  <2> QED
    BY <2>1, <1>t DEF Lineage
<1>4. ASSUME NEW q \in Procs, Boot(q) PROVE Lineage'
  <2>1. /\ file' = file /\ mem' = [mem EXCEPT ![q] = file] /\ cfg' = [cfg EXCEPT ![q] = file]
        /\ \A p \in Procs \ {q} : Running(p)' => Running(p)
    BY <1>4, <1>t DEF Boot, Running
  <2> QED
    BY <2>1, <1>t DEF Lineage
<1>5. ASSUME NEW u \in Tasks, ApplyRefresh(u) PROVE Lineage'
  <2> DEFINE p == ProcOf[u]
             token == reply[u].token
  <2>1. /\ mem' = [mem EXCEPT ![p] = token] /\ UNCHANGED <<file, cfg, state>>
        /\ p \in Procs /\ Running(p)
    BY <1>5 DEF ApplyRefresh
  <2>2. planned[u] = mem[p] /\ token \in Nat
    BY <1>5, <1>t DEF ApplyRefresh, IInv, InHand, Replies
  <2>3. /\ planned[u] < token /\ file <= planned[u]
        /\ \A q \in Procs : mem[q] <= planned[u] /\ cfg[q] <= planned[u]
    BY <1>5 DEF ApplyRefresh, AnswerAhead, IInv, SpentInv, AnswerIsNew
  <2> HIDE DEF p, token
  <2>4. \A q \in Procs : Running(q)' <=> Running(q)
    BY <2>1 DEF Running
  <2> QED
    BY <2>1, <2>2, <2>3, <2>4, <1>t DEF Lineage
<1>6. ASSUME NEW u \in Tasks, PersistSnapshot(u) PROVE Lineage'
  <2> DEFINE p == ProcOf[u]
  <2>1. /\ cfg' = [cfg EXCEPT ![p] = mem[p]] /\ UNCHANGED <<file, mem, state>>
        /\ p \in Procs /\ Running(p)
    BY <1>6 DEF PersistSnapshot, IInv, InHand, account
  <2> HIDE DEF p
  <2>2. \A q \in Procs : Running(q)' <=> Running(q)
    BY <2>1 DEF Running
  <2> QED
    BY <2>1, <2>2, <1>t DEF Lineage
<1>7. ASSUME NEW u \in Tasks, PersistWrite(u) PROVE Lineage'
  BY <1>3, <1>7 DEF Writes
<1>8. ASSUME NEW t \in Tasks, TaskStep(t), ~ApplyRefresh(t), ~PersistSnapshot(t), ~PersistWrite(t)
      PROVE  UNCHANGED <<state, file, cfg, mem>>
  BY <1>8, Zenon DEF TaskStep, TaskWork, Plan, LockAndSkip, LockAndPost, UpstreamAnswers, PostFails,
       ReplyLost, Rejected, Transient, PersistGate, account
<1>9. ASSUME NEW p \in Procs, CooldownEnds(p) PROVE UNCHANGED <<state, file, cfg, mem>>
  BY <1>9 DEF CooldownEnds
<1>10. ASSUME NEW p \in Procs
       PROVE  ~LiveLogin(p) /\ ~LiveLoginPersists(p) /\ ~Reload(p) /\ ~FileLogin /\ ~FileDelete
  BY DEF NoEdits, IInv, SpentInv, TypeOK, RowStays, LiveLogin, LiveLoginPersists, Reload,
       FileLogin, FileDelete
<1>11. ASSUME NEW p \in Procs, ShutdownFlush(p) \/ HandoffFlush(p) PROVE Lineage'
  BY <1>3, <1>11 DEF Writes
<1>12. UNCHANGED vars => UNCHANGED <<state, file, cfg, mem>>
  BY DEF vars, account
<1> QED
  BY <1>1, <1>2, <1>4, <1>5, <1>6, <1>7, <1>8, <1>9, <1>10, <1>11, <1>12 DEF Next, ProcStep

\* A write makes the file older only where the writer's own row has been overtaken by what
\* it overwrites: for any number of processes at once, through handoffs, early
\* boots, lost replies, failed writes and crashes, while credentials only move by refreshes.
THEOREM OnlyTheOvertakenGoBack ==
  ASSUME NoEdits
  PROVE  Spec => OnlyOvertakenGoBack
<1>1. Init => AheadInv
  BY DEF Init, AheadInv, OnlyNewest, AnswerAhead, Lineage
<1>2. IInv /\ AheadInv /\ [Next]_vars => AheadInv'
  <2> SUFFICES ASSUME IInv, AheadInv, [Next]_vars PROVE AheadInv'
    OBVIOUS
  <2>1. CASE UNCHANGED vars
    BY <2>1 DEF vars, upstream, account, taskVars, AheadInv, OnlyNewest, AnswerAhead, Lineage, Running
  <2>2. ~FileLogin /\ ~FileDelete
    BY NoEdits DEF NoEdits, FileLogin, FileDelete
  <2>3. CASE Next
    <3>1. OnlyNewest' /\ AnswerAhead'
      BY NoEdits, <2>2, <2>3, TaskKeepsAhead, ProcKeepsAhead DEF Next, AheadInv
    <3> QED
      BY NoEdits, <3>1, LineageStep DEF AheadInv
  <2> QED
    BY <2>1, <2>3
<1>3. IInv /\ AheadInv => [file' < file => \A p \in Procs : Writes(p) => mem[p] < file]_vars
  <2> SUFFICES ASSUME IInv, AheadInv, file' < file, NEW p \in Procs, Writes(p)
               PROVE  mem[p] < file
    OBVIOUS
  <2>1. Running(p) /\ file' \in {file, cfg[p]}
    BY NoEdits, WriteIsSnapshot
  <2>2. file \in Nat /\ cfg[p] \in Nat /\ mem[p] \in Nat
    BY DEF IInv, SpentInv, TypeOK
  <2> QED
    BY <2>1, <2>2 DEF AheadInv, Lineage
<1>4. Spec => []IInv
  BY NoEdits, Inductive
<1> QED
  BY <1>1, <1>2, <1>3, <1>4, PTL DEF Spec, OnlyOvertakenGoBack

-----------------------------------------------------------------------------
(***************************************************************************)
(* The login survives as long as no process ends and no answer is lost.    *)
(***************************************************************************)
Undisturbed == {"fileEdit", "shutdown", "crash", "lostReply"} \cap Enabled = {}

\* Nothing stops.
NoneStops == \A p \in Procs : state[p] \in {"off", "up", "flushed", "released"}

\* The row is never deleted, and no empty credential is on its way to it.
RowKept ==
    /\ file # NoRow
    /\ \A p \in Procs : /\ ~removed[p] /\ mem[p] # NoRow /\ cfg[p] # NoRow
                        /\ wlock[p] = LoginCall => login[p] # NoRow
    /\ \A t \in Tasks : pc[t] \in {"persist", "writing"} => reply[t].token # NoRow

\* An answer in hand is a working credential that nobody else has yet.
AnswerUnshared ==
    \A t \in Tasks :
        (pc[t] = "answered" /\ reply[t].answer = "ok") =>
            /\ reply[t].token \in live
            /\ reply[t].token # file
            /\ \A p \in Procs : reply[t].token \notin {mem[p], cfg[p], login[p]}
            /\ \A u \in Tasks : /\ reply[t].token # planned[u]
                                /\ u # t => reply[t].token # reply[u].token

\* A running process has a working row, or an answer to make it one.
LoginKept ==
    \/ \E p \in Procs : Running(p) /\ mem[p] \in live
    \/ \E t \in Tasks : pc[t] = "answered" /\ reply[t].answer = "ok"

HeldInv == SpentInv /\ NoneStops /\ RowKept /\ AnswerUnshared /\ LoginKept

\* A step of a refresh task keeps the login.
LEMMA TaskKeepsLogin ==
  ASSUME Undisturbed, HeldInv, NEW t \in Tasks, TaskStep(t)
  PROVE  HeldInv'
<1> USE ProcAssumption, LockAssumption DEF HeldInv, SpentInv, TypeOK
<1>p. ProcOf[t] \in Procs
  OBVIOUS
<1>s. SpentInv'
  BY TaskKeepsSpent
<1>r. \A u \in Tasks : reply[u].token \in Nat
  BY DEF Replies
<1>z. \A u \in Tasks : pc[u] = "answered" /\ reply[u].answer = "ok" => reply[u].token # 0
  BY <1>r DEF AnswerIsNew
<1>1. ASSUME NEW force \in BOOLEAN, NEW expired \in BOOLEAN, Plan(t, force, expired)
      PROVE  HeldInv'
  <2>1. NoneStops'
    BY <1>1, <1>p, <1>r, <1>z DEF Plan, upstream, account, NoneStops
  <2>2. RowKept'
    BY <1>1, <1>p, <1>r, <1>z DEF Plan, upstream, account, RowKept
  <2>3. AnswerUnshared'
    BY <1>1, <1>p, <1>r, <1>z DEF Plan, upstream, account, AnswerUnshared
  <2>4. LoginKept'
    BY <1>1, <1>p, <1>r, <1>z DEF Plan, upstream, account, LoginKept, Running
  <2> QED
    BY <1>s, <2>1, <2>2, <2>3, <2>4
<1>2. CASE LockAndSkip(t)
  <2>1. NoneStops'
    BY <1>2, <1>p, <1>r, <1>z DEF LockAndSkip, Done, Coalesced, upstream, account, NoneStops
  <2>2. RowKept'
    BY <1>2, <1>p, <1>r, <1>z DEF LockAndSkip, Done, Coalesced, upstream, account, RowKept
  <2>3. AnswerUnshared'
    BY <1>2, <1>p, <1>r, <1>z DEF LockAndSkip, Done, Coalesced, upstream, account,
      AnswerUnshared, NoReply
  <2>4. LoginKept'
    BY <1>2, <1>p, <1>r, <1>z DEF LockAndSkip, Done, Coalesced, upstream, account, LoginKept,
      Running
  <2> QED
    BY <1>s, <2>1, <2>2, <2>3, <2>4
<1>3. CASE LockAndPost(t)
  <2>1. NoneStops'
    BY <1>3, <1>p, <1>r, <1>z DEF LockAndPost, Coalesced, upstream, account, NoneStops
  <2>2. RowKept'
    BY <1>3, <1>p, <1>r, <1>z DEF LockAndPost, Coalesced, upstream, account, RowKept
  <2>3. AnswerUnshared'
    BY <1>3, <1>p, <1>r, <1>z DEF LockAndPost, Coalesced, upstream, account, AnswerUnshared
  <2>4. LoginKept'
    BY <1>3, <1>p, <1>r, <1>z DEF LockAndPost, Coalesced, upstream, account, LoginKept, Running
  <2> QED
    BY <1>s, <2>1, <2>2, <2>3, <2>4
<1>4. CASE UpstreamAnswers(t)
  <2>1. NoneStops'
    BY <1>4, <1>p, <1>r, <1>z DEF UpstreamAnswers, upstream, account, NoneStops
  <2>2. RowKept'
    BY <1>4, <1>p, <1>r, <1>z DEF UpstreamAnswers, upstream, account, RowKept
  <2>3. AnswerUnshared'
    <3>1. /\ pc' = [pc EXCEPT ![t] = "answered"]
          /\ UNCHANGED <<file, mem, cfg, login, planned>>
      BY <1>4 DEF UpstreamAnswers, account
    <3>2. CASE planned[t] \in live
      <4>1. /\ reply' = [reply EXCEPT ![t] = [answer |-> "ok", token |-> minted + 1]]
            /\ live' = (live \ {planned[t]}) \cup {minted + 1}
        BY <1>4, <3>2 DEF UpstreamAnswers
      <4>2. \A x \in Nat : x <= minted => x # minted + 1
        OBVIOUS
      <4>3. /\ file # minted + 1
            /\ \A p \in Procs : minted + 1 \notin {mem[p], cfg[p], login[p]}
            /\ \A u \in Tasks : minted + 1 # planned[u] /\ minted + 1 # reply[u].token
        BY <1>r, <4>2 DEF AllMinted
      <4> QED
        BY <3>1, <4>1, <4>3 DEF AnswerUnshared
    <3>3. CASE planned[t] \notin live
      <4>1. reply' = [reply EXCEPT ![t] = [answer |-> "rejected", token |-> 0]] /\ live' = live
        BY <1>4, <3>3 DEF UpstreamAnswers, upstream
      <4> QED
        BY <1>z, <3>1, <4>1 DEF AnswerUnshared
    <3> QED
      BY <3>2, <3>3
  <2>4. LoginKept'
    <3>1. CASE planned[t] \in live
      <4>1. pc'[t] = "answered" /\ reply'[t].answer = "ok"
        BY <1>4, <3>1 DEF UpstreamAnswers
      <4> QED
        BY <4>1 DEF LoginKept
    <3>2. CASE planned[t] \notin live
      BY <1>4, <3>2 DEF UpstreamAnswers, upstream, account, LoginKept, Running
    <3> QED
      BY <3>1, <3>2
  <2> QED
    BY <1>s, <2>1, <2>2, <2>3, <2>4
<1>5. CASE PostFails(t)
  <2>1. NoneStops'
    BY <1>5, <1>p, <1>r, <1>z DEF PostFails, NoAnswer, upstream, account, NoneStops
  <2>2. RowKept'
    BY <1>5, <1>p, <1>r, <1>z DEF PostFails, NoAnswer, upstream, account, RowKept
  <2>3. AnswerUnshared'
    <3>1. UNCHANGED <<live, file, mem, cfg, login, planned>>
      BY <1>5 DEF PostFails, upstream, account
    <3>2. CASE UNCHANGED <<pc, reply>>
      BY <3>1, <3>2 DEF AnswerUnshared
    <3>3. CASE reply' = [reply EXCEPT ![t] = [answer |-> "transient", token |-> 0]]
      <4>1. pc' = [pc EXCEPT ![t] = "answered"] \/ pc' = pc
        BY <1>5 DEF PostFails, NoAnswer
      <4> QED
        BY <1>z, <3>1, <3>3, <4>1 DEF AnswerUnshared
    <3> QED
      BY <1>5, <3>2, <3>3 DEF PostFails, NoAnswer
  <2>4. LoginKept'
    BY <1>5, <1>p, <1>r, <1>z DEF PostFails, NoAnswer, upstream, account, LoginKept, Running
  <2> QED
    BY <1>s, <2>1, <2>2, <2>3, <2>4
<1>6. CASE ApplyRefresh(t)
  <2>1. NoneStops'
    BY <1>6, <1>p, <1>r, <1>z DEF ApplyRefresh, upstream, NoneStops
  <2>2. AnswerUnshared'
    BY <1>6, <1>p, <1>r, <1>z DEF ApplyRefresh, upstream, AnswerUnshared
  <2>3. RowKept'
    BY <1>6, <1>p, <1>r, <1>z DEF ApplyRefresh, upstream, RowKept, NoRow
  <2>4. LoginKept'
    BY <1>6, <1>p, <1>r, <1>z DEF ApplyRefresh, upstream, LoginKept, AnswerUnshared, Running
  <2> QED
    BY <1>s, <2>1, <2>2, <2>3, <2>4
<1>7. CASE Rejected(t)
  <2>1. NoneStops'
    BY <1>7, <1>p, <1>r, <1>z DEF Rejected, Done, upstream, NoneStops
  <2>2. RowKept'
    BY <1>7, <1>p, <1>r, <1>z DEF Rejected, Done, upstream, RowKept
  <2>3. AnswerUnshared'
    BY <1>7, <1>p, <1>r, <1>z DEF Rejected, Done, upstream, AnswerUnshared, NoReply
  <2>4. LoginKept'
    BY <1>7, <1>p, <1>r, <1>z DEF Rejected, Done, upstream, LoginKept, Running
  <2> QED
    BY <1>s, <2>1, <2>2, <2>3, <2>4
<1>8. CASE Transient(t)
  <2>1. NoneStops'
    BY <1>8, <1>p, <1>r, <1>z DEF Transient, Done, upstream, NoneStops
  <2>2. RowKept'
    BY <1>8, <1>p, <1>r, <1>z DEF Transient, Done, upstream, RowKept
  <2>3. AnswerUnshared'
    BY <1>8, <1>p, <1>r, <1>z DEF Transient, Done, upstream, AnswerUnshared, NoReply
  <2>4. LoginKept'
    BY <1>8, <1>p, <1>r, <1>z DEF Transient, Done, upstream, LoginKept, Running
  <2> QED
    BY <1>s, <2>1, <2>2, <2>3, <2>4
<1>9. CASE PersistGate(t)
  <2>1. NoneStops'
    BY <1>9, <1>p, <1>r, <1>z DEF PersistGate, Done, upstream, account, NoneStops
  <2>2. RowKept'
    BY <1>9, <1>p, <1>r, <1>z DEF PersistGate, Done, upstream, account, RowKept
  <2>3. AnswerUnshared'
    <3>1. CASE Released(ProcOf[t])
      BY <1>9, <1>p, <1>r, <1>z, <3>1 DEF PersistGate, Done, upstream, account, AnswerUnshared, NoReply
    <3>2. CASE ~Released(ProcOf[t])
      BY <1>9, <1>p, <1>r, <1>z, <3>2 DEF PersistGate, upstream, account, AnswerUnshared
    <3> QED
      BY <3>1, <3>2
  <2>4. LoginKept'
    BY <1>9, <1>p, <1>r, <1>z DEF PersistGate, Done, upstream, account, LoginKept, Running
  <2> QED
    BY <1>s, <2>1, <2>2, <2>3, <2>4
<1>10. CASE PersistSnapshot(t)
  <2>1. NoneStops'
    BY <1>10, <1>p, <1>r, <1>z DEF PersistSnapshot, upstream, account, taskVars, NoneStops
  <2>2. RowKept'
    BY <1>10, <1>p, <1>r, <1>z DEF PersistSnapshot, upstream, account, taskVars, RowKept
  <2>3. AnswerUnshared'
    BY <1>10, <1>p, <1>r, <1>z DEF PersistSnapshot, upstream, account, taskVars,
      AnswerUnshared, Locked
  <2>4. LoginKept'
    BY <1>10, <1>p, <1>r, <1>z DEF PersistSnapshot, upstream, account, taskVars, LoginKept,
      Running
  <2> QED
    BY <1>s, <2>1, <2>2, <2>3, <2>4
<1>11. CASE PersistWrite(t)
  <2>1. NoneStops'
    BY <1>11, <1>p, <1>r, <1>z DEF PersistWrite, Done, Merged, NoRow, upstream, account,
      NoneStops
  <2>2. RowKept'
    BY <1>11, <1>p, <1>r, <1>z DEF PersistWrite, Done, Merged, NoRow, upstream, account,
      RowKept
  <2>3. AnswerUnshared'
    BY <1>11, <1>p, <1>r, <1>z DEF PersistWrite, Done, Merged, NoRow, upstream, account,
      AnswerUnshared, NoReply
  <2>4. LoginKept'
    BY <1>11, <1>p, <1>r, <1>z DEF PersistWrite, Done, Merged, NoRow, upstream, account,
      LoginKept, Running
  <2> QED
    BY <1>s, <2>1, <2>2, <2>3, <2>4
<1>12. ~ReplyLost(t)
  BY DEF Undisturbed, ReplyLost
<1> QED
  BY <1>1, <1>2, <1>3, <1>4, <1>5, <1>6, <1>7, <1>8, <1>9, <1>10, <1>11, <1>12 DEF TaskStep, TaskWork

\* A step of a process keeps the login.
LEMMA ProcKeepsLogin ==
  ASSUME Undisturbed, HeldInv, NEW p \in Procs, ProcStep(p)
  PROVE  HeldInv'
<1> USE ProcAssumption, LockAssumption DEF HeldInv, SpentInv, TypeOK
<1>s. SpentInv'
  BY ProcKeepsSpent
<1>r. \A u \in Tasks : reply[u].token \in Nat
  BY DEF Replies
<1>z. \A u \in Tasks : pc[u] = "answered" /\ reply[u].answer = "ok" => reply[u].token # 0
  BY <1>r DEF AnswerIsNew
<1>1. CASE CooldownEnds(p)
  <2>1. NoneStops'
    BY <1>1, <1>r, <1>z DEF CooldownEnds, upstream, taskVars, NoneStops
  <2>2. RowKept'
    BY <1>1, <1>r, <1>z DEF CooldownEnds, upstream, taskVars, RowKept
  <2>3. AnswerUnshared'
    BY <1>1, <1>r, <1>z DEF CooldownEnds, upstream, taskVars, AnswerUnshared
  <2>4. LoginKept'
    BY <1>1, <1>r, <1>z DEF CooldownEnds, upstream, taskVars, LoginKept, Running
  <2> QED
    BY <1>s, <2>1, <2>2, <2>3, <2>4
<1>2. CASE LiveLogin(p)
  <2>1. NoneStops'
    BY <1>2, <1>r, <1>z DEF LiveLogin, taskVars, NoneStops
  <2>2. RowKept'
    BY <1>2, <1>r, <1>z DEF LiveLogin, taskVars, RowKept, NoRow
  <2>3. AnswerUnshared'
    BY <1>2, <1>r, <1>z DEF LiveLogin, taskVars, AnswerUnshared, AllMinted
  <2>4. LoginKept'
    BY <1>2, <1>r, <1>z DEF LiveLogin, taskVars, LoginKept, Running
  <2> QED
    BY <1>s, <2>1, <2>2, <2>3, <2>4
<1>3. CASE LiveLoginPersists(p)
  <2>1. NoneStops'
    BY <1>3, <1>r, <1>z DEF LiveLoginPersists, upstream, account, taskVars, NoneStops
  <2>2. RowKept'
    BY <1>3, <1>r, <1>z DEF LiveLoginPersists, upstream, account, taskVars, RowKept
  <2>3. AnswerUnshared'
    BY <1>3, <1>r, <1>z DEF LiveLoginPersists, upstream, account, taskVars, AnswerUnshared
  <2>4. LoginKept'
    BY <1>3, <1>r, <1>z DEF LiveLoginPersists, upstream, account, taskVars, LoginKept, Running
  <2> QED
    BY <1>s, <2>1, <2>2, <2>3, <2>4
<1>4. CASE HandoffFlush(p)
  <2>1. NoneStops'
    BY <1>4, <1>r, <1>z DEF HandoffFlush, PersistNow, Merged, NoRow, upstream, account,
      taskVars, NoneStops
  <2>2. RowKept'
    BY <1>4, <1>r, <1>z DEF HandoffFlush, PersistNow, Merged, NoRow, upstream, account,
      taskVars, RowKept
  <2>3. AnswerUnshared'
    BY <1>4, <1>r, <1>z DEF HandoffFlush, PersistNow, Merged, NoRow, upstream, account,
      taskVars, AnswerUnshared
  <2>4. LoginKept'
    BY <1>4, <1>r, <1>z DEF HandoffFlush, PersistNow, Merged, NoRow, upstream, account,
      taskVars, LoginKept, Running
  <2> QED
    BY <1>s, <2>1, <2>2, <2>3, <2>4
<1>5. CASE ReleaseMutationOwnership(p)
  <2>1. NoneStops'
    BY <1>5, <1>r, <1>z DEF ReleaseMutationOwnership, upstream, account, taskVars, NoneStops
  <2>2. RowKept'
    BY <1>5, <1>r, <1>z DEF ReleaseMutationOwnership, upstream, account, taskVars, RowKept
  <2>3. AnswerUnshared'
    BY <1>5, <1>r, <1>z DEF ReleaseMutationOwnership, upstream, account, taskVars,
      AnswerUnshared
  <2>4. LoginKept'
    BY <1>5, <1>r, <1>z DEF ReleaseMutationOwnership, upstream, account, taskVars, LoginKept,
      Running
  <2> QED
    BY <1>s, <2>1, <2>2, <2>3, <2>4
<1>6. CASE Boot(p)
  <2>1. NoneStops'
    BY <1>6, <1>r, <1>z DEF Boot, upstream, taskVars, NoneStops
  <2>2. RowKept'
    BY <1>6, <1>r, <1>z DEF Boot, upstream, taskVars, RowKept, OffIsFresh
  <2>3. AnswerUnshared'
    BY <1>6, <1>r, <1>z DEF Boot, upstream, taskVars, AnswerUnshared, OffIsFresh
  <2>4. LoginKept'
    BY <1>6, <1>r, <1>z DEF Boot, upstream, taskVars, LoginKept, Running
  <2> QED
    BY <1>s, <2>1, <2>2, <2>3, <2>4
<1>7. ~Reload(p) /\ ~StopListening(p) /\ ~ShutdownFlush(p) /\ ~Exit(p) /\ ~Crash(p)
  BY DEF Undisturbed, NoneStops, RowKept, Reload, StopListening, ShutdownFlush, Exit, Crash
<1> QED
  BY <1>1, <1>2, <1>3, <1>4, <1>5, <1>6, <1>7 DEF ProcStep

LEMMA HeldInvariant ==
  ASSUME Undisturbed
  PROVE  Spec => []HeldInv
<1>1. Init /\ SpentInv => HeldInv
  <2> SUFFICES ASSUME Init, SpentInv PROVE HeldInv
    OBVIOUS
  <2>1. LoginKept
    <3>1. Running(First) /\ mem[First] \in live
      BY ProcAssumption DEF Init, Running
    <3> QED
      BY <3>1, ProcAssumption DEF LoginKept
  <2>2. RowKept
    BY LockAssumption DEF Init, RowKept, NoRow
  <2>3. NoneStops /\ AnswerUnshared
    BY DEF Init, NoneStops, AnswerUnshared
  <2> QED
    BY <2>1, <2>2, <2>3 DEF HeldInv
<1>2. HeldInv /\ [Next]_vars => HeldInv'
  <2> SUFFICES ASSUME HeldInv, [Next]_vars PROVE HeldInv'
    OBVIOUS
  <2>1. CASE UNCHANGED vars
    <3>1. SpentInv'
      BY SpentStep DEF HeldInv
    <3> QED
      BY <2>1, <3>1 DEF vars, upstream, account, taskVars, HeldInv, NoneStops, RowKept,
          AnswerUnshared, LoginKept, Running
  <2>2. ~FileLogin /\ ~FileDelete
    BY Undisturbed DEF Undisturbed, FileLogin, FileDelete
  <2> QED
    BY Undisturbed, <2>1, <2>2, TaskKeepsLogin, ProcKeepsLogin DEF Next
<1> QED
  BY <1>1, <1>2, SpentInvariant, PTL DEF Spec

\* Without a stop, a crash, a lost answer or an edit of the file the account is
\* never lost, however refreshes, live logins, failed posts and writes and
\* handoffs interleave: what the run refresh_clean_stop loses, it loses to the
\* stop.
THEOREM OnlyAStopLosesTheLogin ==
  ASSUME Undisturbed
  PROVE  Spec => []LiveTokenHeld
<1>1. HeldInv => LiveTokenHeld
  <2> SUFFICES ASSUME HeldInv PROVE \E x \in live : x \in Held
    BY DEF LiveTokenHeld
  <2>1. ASSUME NEW p \in Procs, Running(p), mem[p] \in live PROVE mem[p] \in Held
    BY <2>1 DEF Held
  <2>2. ASSUME NEW t \in Tasks, pc[t] = "answered", reply[t].answer = "ok"
        PROVE  reply[t].token \in live /\ reply[t].token \in Held
    <3>1. Running(ProcOf[t])
      BY <2>2, ProcAssumption DEF HeldInv, SpentInv, OffIsFresh, NoneStops, Running
    <3> QED
      BY <2>2, <3>1 DEF Held, HeldInv, AnswerUnshared
  <2> QED
    BY <2>1, <2>2 DEF HeldInv, LoginKept
<1>2. Spec => []HeldInv
  BY Undisturbed, HeldInvariant
<1> QED
  BY <1>1, <1>2, PTL

-----------------------------------------------------------------------------
(***************************************************************************)
(* No refresh can be stuck.  A task waits for the refresh lock, or for     *)
(* config_write with the refresh lock held; a live login holds             *)
(* config_write and waits for neither.  So the waits form no cycle, with   *)
(* every event, and a task under the refresh lock has only so many steps   *)
(* left to take.  That the steps are taken is the fairness of FairSpec,    *)
(* under which the runs check RefreshReturns.                              *)
(***************************************************************************)
Working == {"posting", "answered", "persist", "writing"}

\* The refresh lock is held by a refresh of the same process under way.
HolderWorks ==
    \A p \in Procs : lock[p] # NoTask =>
        lock[p] \in Tasks /\ ProcOf[lock[p]] = p /\ pc[lock[p]] \in Working

\* config_write is held by a login or by a task that is writing.
WriterWrites ==
    \A p \in Procs : wlock[p] \in Tasks =>
        ProcOf[wlock[p]] = p /\ pc[wlock[p]] = "writing"

\* A task back from the OAuth server knows what it was told.
AnswerKnown ==
    \A t \in Tasks : pc[t] = "answered" =>
        reply[t].answer \in {"ok", "rejected", "transient"}

WaitInv == SpentInv /\ HolderWorks /\ WriterWrites /\ AnswerKnown

\* A step of a refresh task keeps the order of the waits.
LEMMA TaskKeepsWaits ==
  ASSUME WaitInv, NEW t \in Tasks, TaskStep(t)
  PROVE  WaitInv'
<1> USE ProcAssumption, LockAssumption
        DEF WaitInv, SpentInv, TypeOK, HolderWorks, WriterWrites, AnswerKnown, Working
<1>p. ProcOf[t] \in Procs
  OBVIOUS
<1>s. SpentInv'
  BY TaskKeepsSpent
<1>1. ASSUME NEW force \in BOOLEAN, NEW expired \in BOOLEAN, Plan(t, force, expired)
      PROVE  WaitInv'
  BY <1>1, <1>s DEF Plan
<1>2. CASE LockAndSkip(t)
  BY <1>2, <1>p, <1>s DEF LockAndSkip, Done
<1>3. CASE LockAndPost(t)
  BY <1>3, <1>p, <1>s DEF LockAndPost
<1>4. CASE UpstreamAnswers(t)
  BY <1>4, <1>p, <1>s DEF UpstreamAnswers
<1>5. CASE PostFails(t)
  <2>1. HolderWorks'
    BY <1>5, <1>p DEF PostFails, NoAnswer
  <2>2. WriterWrites' /\ AnswerKnown'
    BY <1>5, <1>p DEF PostFails, NoAnswer
  <2> QED
    BY <1>s, <2>1, <2>2
<1>6. CASE ReplyLost(t)
  BY <1>6, <1>p, <1>s DEF ReplyLost, NoAnswer
<1>7. CASE ApplyRefresh(t)
  BY <1>7, <1>p, <1>s DEF ApplyRefresh
<1>8. CASE Rejected(t)
  BY <1>8, <1>p, <1>s DEF Rejected, Done, Locked
<1>9. CASE Transient(t)
  BY <1>9, <1>p, <1>s DEF Transient, Done, Locked
<1>10. CASE PersistGate(t)
  <2>1. CASE Released(ProcOf[t])
    <3>1. Done(t) /\ UNCHANGED wlock /\ pc[t] = "persist"
      BY <1>10, <2>1 DEF PersistGate
    <3> QED
      BY <3>1, <1>p, <1>s DEF Done, Locked
  <2>2. CASE ~Released(ProcOf[t])
    <3>1. /\ pc' = [pc EXCEPT ![t] = "writing"] /\ UNCHANGED <<lock, wlock, reply>>
          /\ pc[t] = "persist"
      BY <1>10, <2>2 DEF PersistGate
    <3> QED
      BY <3>1, <1>p, <1>s
  <2> QED
    BY <2>1, <2>2
<1>11. CASE PersistSnapshot(t)
  BY <1>11, <1>p, <1>s DEF PersistSnapshot, taskVars
<1>12. CASE PersistWrite(t)
  BY <1>12, <1>p, <1>s DEF PersistWrite, Done, Locked
<1> QED
  BY <1>1, <1>2, <1>3, <1>4, <1>5, <1>6, <1>7, <1>8, <1>9, <1>10, <1>11, <1>12
  DEF TaskStep, TaskWork

\* A step of a process keeps it too.
LEMMA ProcKeepsWaits ==
  ASSUME WaitInv, NEW p \in Procs, ProcStep(p)
  PROVE  WaitInv'
<1>s. SpentInv'
  BY ProcKeepsSpent DEF WaitInv
<1>1. UNCHANGED taskVars /\ UNCHANGED lock
  BY DEF ProcStep, CooldownEnds, LiveLogin, LiveLoginPersists, Reload, StopListening,
      ShutdownFlush, Exit, Crash, HandoffFlush, ReleaseMutationOwnership, Boot
<1>2. \A q \in Procs : wlock'[q] \in {wlock[q], NoTask, LoginCall}
  BY DEF ProcStep, CooldownEnds, LiveLogin, LiveLoginPersists, Reload, StopListening,
      ShutdownFlush, Exit, Crash, HandoffFlush, ReleaseMutationOwnership, Boot, WaitInv,
      SpentInv, TypeOK
<1>3. HolderWorks' /\ AnswerKnown'
  BY <1>1 DEF WaitInv, HolderWorks, AnswerKnown, taskVars
<1>4. WriterWrites'
  BY <1>1, <1>2, LockAssumption DEF WaitInv, WriterWrites, taskVars
<1> QED
  BY <1>s, <1>3, <1>4 DEF WaitInv

LEMMA WaitInvariant == Spec => []WaitInv
<1>1. Init /\ SpentInv => WaitInv
  BY LockAssumption DEF Init, WaitInv, HolderWorks, WriterWrites, AnswerKnown
<1>2. WaitInv /\ [Next]_vars => WaitInv'
  <2> SUFFICES ASSUME WaitInv, [Next]_vars PROVE WaitInv'
    OBVIOUS
  <2>1. CASE UNCHANGED vars \/ FileLogin \/ FileDelete
    <3>1. SpentInv'
      BY <2>1, SpentStep DEF WaitInv, Next
    <3>2. UNCHANGED <<lock, wlock, taskVars>>
      BY <2>1 DEF vars, FileLogin, FileDelete
    <3> QED
      BY <3>1, <3>2 DEF WaitInv, HolderWorks, WriterWrites, AnswerKnown, taskVars
  <2> QED
    BY <2>1, TaskKeepsWaits, ProcKeepsWaits DEF Next
<1> QED
  BY <1>1, <1>2, SpentInvariant, PTL DEF Spec

\* Some step of TaskWork(t) is possible: the guards, PersistGate and
\* UpstreamAnswers being possible in every case.
CanWork(t) ==
    \/ pc[t] \in {"posting", "persist"}
    \/ pc[t] = "answered" /\ reply[t].answer \in {"ok", "rejected", "transient"}
    \/ pc[t] = "writing" /\ wlock[ProcOf[t]] \in {NoTask, t}

\* Whoever waits in a running process waits for somebody who can go on: the
\* refresh lock is free, or its holder can take its next step, or a login that
\* waits for nothing holds config_write.
NeverStuck ==
    \A t \in Tasks : Running(ProcOf[t]) /\ pc[t] # "idle" =>
        \/ pc[t] = "queued" /\ lock[ProcOf[t]] = NoTask
        \/ /\ lock[ProcOf[t]] \in Tasks /\ ProcOf[lock[ProcOf[t]]] = ProcOf[t]
           /\ CanWork(lock[ProcOf[t]])
        \/ wlock[ProcOf[t]] = LoginCall

\* No deadlock of refresh_lock and config_write, for any tasks, processes,
\* faults, logins and edits.
THEOREM RefreshesNeverDeadlock == Spec => []NeverStuck
<1>1. WaitInv => NeverStuck
  <2> SUFFICES ASSUME WaitInv, NEW t \in Tasks, pc[t] # "idle"
               PROVE  \/ pc[t] = "queued" /\ lock[ProcOf[t]] = NoTask
                      \/ /\ lock[ProcOf[t]] \in Tasks /\ ProcOf[lock[ProcOf[t]]] = ProcOf[t]
                         /\ CanWork(lock[ProcOf[t]])
                      \/ wlock[ProcOf[t]] = LoginCall
    BY DEF NeverStuck
  <2> DEFINE p == ProcOf[t]  h == lock[p]
  <2>1. p \in Procs
    BY ProcAssumption
  <2>2. pc[t] = "queued" \/ h = t
    BY DEF WaitInv, SpentInv, TypeOK, Locked
  <2>3. h # NoTask => h \in Tasks /\ ProcOf[h] = p /\ pc[h] \in Working
    BY <2>1 DEF WaitInv, HolderWorks
  <2>4. wlock[p] \in {NoTask, LoginCall} \/ (h # NoTask /\ wlock[p] = h)
    BY <2>1, LockAssumption DEF WaitInv, WriterWrites, SpentInv, TypeOK, Locked
  <2>5. h # NoTask => CanWork(h) \/ wlock[p] = LoginCall
    BY <2>1, <2>3, <2>4 DEF CanWork, Working, WaitInv, AnswerKnown
  <2> QED
    BY <2>2, <2>3, <2>5, LockAssumption
<1> QED
  BY <1>1, WaitInvariant, PTL

\* The most steps of its own a task under the refresh lock has left.
WorkLeft(t) ==
    CASE pc[t] = "posting"  -> 5 + ((MaxRetries + 1) - sends[t])
      [] pc[t] = "answered" -> 4
      [] pc[t] = "persist"  -> 3
      [] pc[t] = "writing"  -> IF wlock[ProcOf[t]] = t THEN 1 ELSE 2
      [] OTHER -> 0

\* A refresh under way only comes closer to its end: each of its own steps,
\* retries included, lowers what it has left, and nobody else's step raises it.
RefreshAdvances ==
    [][\A t \in Tasks : pc[t] \in Working =>
          /\ WorkLeft(t)' <= WorkLeft(t)
          /\ TaskWork(t) => WorkLeft(t)' < WorkLeft(t)]_vars

LEMMA WorkLeftType ==
  ASSUME TypeOK, NEW t \in Tasks
  PROVE  /\ WorkLeft(t) \in Nat
         /\ pc[t] = "posting" => WorkLeft(t) = 5 + ((MaxRetries + 1) - sends[t])
                                 /\ sends[t] \in 0..MaxRetries + 1
         /\ pc[t] = "answered" => WorkLeft(t) = 4
         /\ pc[t] = "persist" => WorkLeft(t) = 3
         /\ pc[t] = "writing" => WorkLeft(t) = IF wlock[ProcOf[t]] = t THEN 1 ELSE 2
         /\ pc[t] \in {"idle", "queued"} => WorkLeft(t) = 0
<1>1. sends[t] \in 0..MaxRetries + 1
      /\ pc[t] \in {"idle", "queued", "posting", "answered", "persist", "writing"}
  BY DEF TypeOK
<1> QED
  BY <1>1, RetryAssumption DEF WorkLeft

WorkTyped == \A t \in Tasks : WorkLeft(t) \in Nat

LEMMA WorkTypedLater == TypeOK' => WorkTyped'
<1>1. TypeOK => WorkTyped
  BY WorkLeftType DEF WorkTyped
<1> QED
  BY <1>1, PTL

\* A task's own step.
LEMMA OwnStepAdvances ==
  ASSUME TypeOK, TypeOK', NEW t \in Tasks, TaskWork(t)
  PROVE  WorkLeft(t)' < WorkLeft(t)
<1> USE ProcAssumption, LockAssumption, RetryAssumption
<1>p. ProcOf[t] \in Procs
  OBVIOUS
<1>0. /\ pc \in [Tasks -> {"idle", "queued", "posting", "answered", "persist", "writing"}]
      /\ sends \in [Tasks -> 0..MaxRetries + 1]
      /\ wlock \in [Procs -> Tasks \cup {NoTask, LoginCall}]
  BY DEF TypeOK
<1>1. CASE UpstreamAnswers(t)
  BY <1>1, <1>0 DEF UpstreamAnswers, WorkLeft
<1>2. ASSUME pc[t] = "posting", NoAnswer(t) PROVE WorkLeft(t)' < WorkLeft(t)
  BY <1>2, <1>0 DEF NoAnswer, WorkLeft
<1>3. CASE PostFails(t) \/ ReplyLost(t)
  BY <1>2, <1>3 DEF PostFails, ReplyLost
<1>4. CASE ApplyRefresh(t)
  BY <1>4, <1>0 DEF ApplyRefresh, WorkLeft
<1>5. CASE Rejected(t) \/ Transient(t)
  BY <1>5, <1>0 DEF Rejected, Transient, Done, WorkLeft
<1>6. CASE PersistGate(t)
  BY <1>6, <1>0 DEF PersistGate, Done, WorkLeft
<1>7. CASE PersistSnapshot(t)
  BY <1>7, <1>0, <1>p DEF PersistSnapshot, WorkLeft, taskVars
<1>8. CASE PersistWrite(t)
  BY <1>8, <1>0 DEF PersistWrite, Done, WorkLeft
<1> QED
  BY <1>1, <1>3, <1>4, <1>5, <1>6, <1>7, <1>8 DEF TaskWork

\* The steps of the others.
LEMMA OtherStepKeeps ==
  ASSUME WaitInv, [Next]_vars, NEW t \in Tasks, pc[t] \in Working, ~TaskWork(t)
  PROVE  WorkLeft(t)' = WorkLeft(t)
<1> USE ProcAssumption, LockAssumption
<1> SUFFICES /\ pc'[t] = pc[t] /\ sends'[t] = sends[t]
             /\ (wlock'[ProcOf[t]] = t <=> wlock[ProcOf[t]] = t)
  BY Zenon DEF WorkLeft
<1>0. /\ pc \in [Tasks -> {"idle", "queued", "posting", "answered", "persist", "writing"}]
      /\ sends \in [Tasks -> 0..MaxRetries + 1]
      /\ wlock \in [Procs -> Tasks \cup {NoTask, LoginCall}]
      /\ ProcOf[t] \in Procs
  BY DEF WaitInv, SpentInv, TypeOK
<1>1. ASSUME NEW u \in Tasks, TaskStep(u)
      PROVE  /\ pc'[t] = pc[t] /\ sends'[t] = sends[t]
             /\ (wlock'[ProcOf[t]] = t <=> wlock[ProcOf[t]] = t)
  <2>1. u # t
    BY <1>1 DEF TaskStep, Plan, LockAndSkip, LockAndPost, Working
  <2>2. pc'[t] = pc[t] /\ sends'[t] = sends[t]
    BY <1>0, <1>1, <2>1 DEF TaskStep, TaskWork, Plan, LockAndSkip, LockAndPost, UpstreamAnswers,
        PostFails, ReplyLost, NoAnswer, ApplyRefresh, Rejected, Transient, PersistGate,
        PersistSnapshot, PersistWrite, Done, taskVars
  <2>3. CASE PersistSnapshot(u) \/ PersistWrite(u)
    BY <1>0, <2>1, <2>2, <2>3 DEF PersistSnapshot, PersistWrite
  <2>4. CASE UNCHANGED wlock
    BY <2>2, <2>4
  <2> QED
    BY <1>1, <2>3, <2>4 DEF TaskStep, TaskWork, Plan, LockAndSkip, LockAndPost, UpstreamAnswers,
        PostFails, ReplyLost, ApplyRefresh, Rejected, Transient, PersistGate
<1>2. ASSUME NEW p \in Procs, ProcStep(p)
      PROVE  /\ pc'[t] = pc[t] /\ sends'[t] = sends[t]
             /\ (wlock'[ProcOf[t]] = t <=> wlock[ProcOf[t]] = t)
  BY <1>0, <1>2 DEF ProcStep, CooldownEnds, LiveLogin, LiveLoginPersists, Reload, StopListening,
      ShutdownFlush, Exit, Crash, HandoffFlush, ReleaseMutationOwnership, Boot, taskVars
<1>3. CASE FileLogin \/ FileDelete \/ UNCHANGED vars
  BY <1>3 DEF FileLogin, FileDelete, vars, taskVars
<1> QED
  BY <1>1, <1>2, <1>3 DEF Next

\* With the lock, a refresh takes at most MaxRetries + 5 steps of its own.
THEOREM RefreshesAlwaysAdvance ==
  Spec => /\ [](\A t \in Tasks : WorkLeft(t) \in 0..MaxRetries + 6)
          /\ RefreshAdvances
<1>1. TypeOK => \A t \in Tasks : WorkLeft(t) \in 0..MaxRetries + 6
  BY WorkLeftType, RetryAssumption DEF TypeOK
<1>2. WaitInv /\ WaitInv' /\ [Next]_vars =>
        [\A t \in Tasks : pc[t] \in Working =>
            /\ WorkLeft(t)' <= WorkLeft(t)
            /\ TaskWork(t) => WorkLeft(t)' < WorkLeft(t)]_vars
  <2> SUFFICES ASSUME WaitInv, TypeOK', [Next]_vars, NEW t \in Tasks, pc[t] \in Working
               PROVE  /\ WorkLeft(t)' <= WorkLeft(t)
                      /\ TaskWork(t) => WorkLeft(t)' < WorkLeft(t)
    BY DEF WaitInv, SpentInv
  <2>1. TypeOK
    BY DEF WaitInv, SpentInv
  <2>2. WorkLeft(t) \in Nat /\ WorkLeft(t)' \in Nat
    BY <2>1, WorkLeftType, WorkTypedLater DEF WorkTyped
  <2> QED
    BY <2>1, <2>2, OwnStepAdvances, OtherStepKeeps
<1> QED
  BY <1>1, <1>2, TypeCorrect, WaitInvariant, PTL DEF Spec, RefreshAdvances

-----------------------------------------------------------------------------
(***************************************************************************)
(* Logins race refreshes freely, and still no row is condemned, as long as *)
(* nothing takes a rotated token away: a rejection that overtakes a login  *)
(* needs a token that died unseen, by a lost answer, an edit of the file,  *)
(* or another process.                                                     *)
(***************************************************************************)
NothingTaken == Undisturbed /\ "handoff" \notin Enabled

NoneCondemned == \A p \in Procs : status[p] = "Active"

\* The first process serves alone.
Sole == state[First] = "up" /\ \A p \in Procs : p # First => state[p] = "off"

\* What is sent works, nothing comes back rejected, and between an exchange and
\* the next the row has a working credential.
RowWorks ==
    /\ \A t \in Tasks : pc[t] = "posting" => planned[t] \in live
    /\ \A t \in Tasks : pc[t] = "answered" => reply[t].answer # "rejected"
    /\ (\A t \in Tasks : pc[t] = "answered" => reply[t].answer # "ok") => mem[First] \in live
    /\ NoneCondemned

\* Only the first process has tasks under way, and one under the refresh lock.
LEMMA OneRefresh ==
  ASSUME HeldInv, Sole
  PROVE  /\ \A p \in Procs : Running(p) => p = First
         /\ \A t \in Tasks : pc[t] # "idle" => ProcOf[t] = First
         /\ \A t \in Tasks : pc[t] \in Working => lock[First] = t
BY ProcAssumption DEF HeldInv, SpentInv, OffIsFresh, Locked, Sole, Running, Working

\* What makes the row work after a step of the one task that is not queued.
LEMMA LoneStep ==
  ASSUME NEW t \in Tasks, \A u \in Tasks : u # t => pc'[u] \notin {"posting", "answered"},
         pc'[t] = "posting" => planned'[t] \in live',
         pc'[t] = "answered" => reply'[t].answer # "rejected",
         mem'[First] \in live' \/ (pc'[t] = "answered" /\ reply'[t].answer = "ok"),
         NoneCondemned'
  PROVE  RowWorks'
<1>1. \A u \in Tasks : pc'[u] = "posting" => planned'[u] \in live'
  OBVIOUS
<1>2. \A u \in Tasks : pc'[u] = "answered" => reply'[u].answer # "rejected"
  OBVIOUS
<1>3. (\A u \in Tasks : pc'[u] = "answered" => reply'[u].answer # "ok") => mem'[First] \in live'
  OBVIOUS
<1> QED
  BY <1>1, <1>2, <1>3 DEF RowWorks

\* A step of a refresh task keeps the row working.
LEMMA TaskKeepsRow ==
  ASSUME NothingTaken, HeldInv, Sole, RowWorks, NEW t \in Tasks, TaskStep(t)
  PROVE  Sole' /\ RowWorks'
<1>0. Sole'
  BY DEF Sole, TaskStep, TaskWork, Plan, LockAndSkip, LockAndPost, UpstreamAnswers, PostFails,
      ReplyLost, ApplyRefresh, Rejected, Transient, PersistGate, PersistSnapshot, PersistWrite
<1> SUFFICES RowWorks'
  BY <1>0
<1>1. /\ \A u \in Tasks : pc[u] # "idle" => ProcOf[u] = First
      /\ \A u \in Tasks : pc[u] \in Working => lock[First] = u
  BY OneRefresh
<1>t. /\ pc \in [Tasks -> {"idle", "queued", "posting", "answered", "persist", "writing"}]
      /\ mem \in [Procs -> Nat] /\ planned \in [Tasks -> Nat] /\ reply \in [Tasks -> Replies]
      /\ status \in [Procs -> {"Active", "Error"}] /\ First \in Procs /\ NoTask \notin Tasks
  BY ProcAssumption, LockAssumption DEF HeldInv, SpentInv, TypeOK
<1>w. ASSUME pc[t] \in {"posting", "persist", "writing"} \/ lock[First] = NoTask
             \/ (pc[t] = "answered" /\ reply[t].answer = "transient")
      PROVE  mem[First] \in live
  BY <1>w, <1>1, <1>t DEF Working, RowWorks
<1>u. ASSUME pc[t] \in Working \/ lock[First] = NoTask, NEW x, pc' = [pc EXCEPT ![t] = x]
      PROVE  \A u \in Tasks : u # t => pc'[u] \notin {"posting", "answered"}
  BY <1>u, <1>1, <1>t DEF Working
<1>d. ASSUME Done(t), pc[t] \in Working \/ lock[First] = NoTask, mem'[First] \in live',
             status' = status
      PROVE  RowWorks'
  <2>1. pc' = [pc EXCEPT ![t] = "idle"] /\ pc'[t] = "idle"
    BY <1>d, <1>t DEF Done
  <2>2. NoneCondemned'
    BY <1>d DEF RowWorks, NoneCondemned
  <2> QED
    BY <1>d, <1>u, <2>1, <2>2, LoneStep
<1>2. ASSUME NEW force \in BOOLEAN, NEW expired \in BOOLEAN, Plan(t, force, expired)
      PROVE  RowWorks'
  <2>1. /\ pc[t] = "idle" /\ pc' = [pc EXCEPT ![t] = "queued"]
        /\ planned' = [planned EXCEPT ![t] = mem[ProcOf[t]]]
        /\ UNCHANGED <<live, mem, status, reply>>
    BY <1>2 DEF Plan, upstream, account
  <2> QED
    BY <1>t, <2>1 DEF RowWorks, NoneCondemned
<1>3. CASE LockAndSkip(t)
  <2>1. lock[First] = NoTask /\ Done(t) /\ UNCHANGED <<live, mem, status>>
    BY <1>1, <1>3 DEF LockAndSkip, upstream, account
  <2> QED
    BY <1>d, <1>w, <2>1
<1>4. CASE LockAndPost(t)
  <2>1. /\ planned[t] = mem[First] /\ lock[First] = NoTask
        /\ pc' = [pc EXCEPT ![t] = "posting"] /\ UNCHANGED <<live, mem, status, planned>>
    BY <1>1, <1>4 DEF LockAndPost, Coalesced, upstream, account
  <2>2. pc'[t] = "posting" /\ mem[First] \in live /\ NoneCondemned'
    BY <1>t, <1>w, <2>1 DEF RowWorks, NoneCondemned
  <2> QED
    BY <1>u, <2>1, <2>2, LoneStep
<1>5. CASE UpstreamAnswers(t)
  <2>1. pc[t] = "posting" /\ planned[t] \in live
    BY <1>5 DEF UpstreamAnswers, RowWorks
  <2>2. /\ pc' = [pc EXCEPT ![t] = "answered"] /\ status' = status
        /\ reply' = [reply EXCEPT ![t] = [answer |-> "ok", token |-> minted + 1]]
    BY <1>5, <2>1 DEF UpstreamAnswers, account
  <2>3. pc'[t] = "answered" /\ reply'[t].answer = "ok" /\ NoneCondemned'
    BY <1>t, <2>2 DEF RowWorks, NoneCondemned
  <2> QED
    BY <1>u, <2>1, <2>2, <2>3, LoneStep DEF Working
<1>6. CASE PostFails(t)
  <2>1. pc[t] = "posting" /\ UNCHANGED <<live, mem, status, planned>> /\ NoAnswer(t)
    BY <1>6 DEF PostFails, upstream, account
  <2>2. mem'[First] \in live' /\ NoneCondemned' /\ planned'[t] \in live'
    BY <1>w, <2>1 DEF RowWorks, NoneCondemned
  <2>3. CASE pc' = pc /\ reply' = reply
    BY <1>u, <1>1, <2>1, <2>2, <2>3, LoneStep DEF Working
  <2>4. CASE /\ pc' = [pc EXCEPT ![t] = "answered"]
             /\ reply' = [reply EXCEPT ![t] = [answer |-> "transient", token |-> 0]]
    <3>1. pc'[t] = "answered" /\ reply'[t].answer # "rejected"
      BY <1>t, <2>4
    <3> QED
      BY <1>u, <2>1, <2>2, <2>4, <3>1, LoneStep DEF Working
  <2> QED
    BY <2>1, <2>3, <2>4 DEF NoAnswer
<1>7. CASE ReplyLost(t)
  BY <1>7, NothingTaken DEF ReplyLost, NothingTaken, Undisturbed
<1>8. CASE ApplyRefresh(t)
  <2>1. pc[t] = "answered" /\ reply[t].answer = "ok" /\ ProcOf[t] = First
    BY <1>1, <1>8 DEF ApplyRefresh
  <2>2. reply[t].token \in live
    BY <2>1 DEF HeldInv, AnswerUnshared
  <2>3. /\ pc' = [pc EXCEPT ![t] = "persist"] /\ live' = live
        /\ mem' = [mem EXCEPT ![First] = reply[t].token]
        /\ status' = [status EXCEPT ![First] = "Active"]
    BY <1>8, <2>1 DEF ApplyRefresh, upstream
  <2>4. pc'[t] = "persist" /\ mem'[First] \in live' /\ NoneCondemned'
    BY <1>t, <2>2, <2>3 DEF RowWorks, NoneCondemned
  <2> QED
    BY <1>u, <2>1, <2>3, <2>4, LoneStep DEF Working
<1>9. CASE Rejected(t)
  BY <1>9 DEF Rejected, RowWorks
<1>10. CASE Transient(t)
  <2>1. /\ pc[t] = "answered" /\ reply[t].answer = "transient" /\ Done(t)
        /\ UNCHANGED <<live, mem, status>>
    BY <1>10 DEF Transient, upstream
  <2> QED
    BY <1>d, <1>w, <2>1 DEF Working
<1>11. CASE PersistGate(t)
  <2>1. pc[t] = "persist" /\ UNCHANGED <<live, mem, status>>
    BY <1>11 DEF PersistGate, upstream, account
  <2>2. CASE Done(t)
    BY <1>d, <1>w, <2>1, <2>2 DEF Working
  <2>3. CASE pc' = [pc EXCEPT ![t] = "writing"]
    <3>1. pc'[t] = "writing" /\ mem'[First] \in live' /\ NoneCondemned'
      BY <1>t, <1>w, <2>1, <2>3 DEF RowWorks, NoneCondemned
    <3> QED
      BY <1>u, <2>1, <2>3, <3>1, LoneStep DEF Working
  <2> QED
    BY <1>11, <2>2, <2>3 DEF PersistGate
<1>12. CASE PersistSnapshot(t)
  <2>1. UNCHANGED <<live, mem, status, pc, planned, reply>>
    BY <1>12 DEF PersistSnapshot, upstream, account, taskVars
  <2> QED
    BY <2>1 DEF RowWorks, NoneCondemned
<1>13. CASE PersistWrite(t)
  <2>1. pc[t] = "writing" /\ UNCHANGED <<live, mem, status>> /\ Done(t)
    BY <1>13 DEF PersistWrite, upstream, account
  <2> QED
    BY <1>d, <1>w, <2>1 DEF Working
<1> QED
  BY <1>2, <1>3, <1>4, <1>5, <1>6, <1>7, <1>8, <1>9, <1>10, <1>11, <1>12, <1>13
  DEF TaskStep, TaskWork

\* A step of a process keeps it working.
LEMMA ProcKeepsRow ==
  ASSUME NothingTaken, HeldInv, Sole, RowWorks, NEW p \in Procs, ProcStep(p)
  PROVE  Sole' /\ RowWorks'
<1> USE ProcAssumption DEF NothingTaken, Undisturbed
<1>1. /\ ~StopListening(p) /\ ~Crash(p) /\ ~HandoffFlush(p)
      /\ ~ShutdownFlush(p) /\ ~Exit(p) /\ ~ReleaseMutationOwnership(p)
  BY DEF StopListening, Crash, HandoffFlush, ShutdownFlush, Exit, ReleaseMutationOwnership, Sole
<1>2. ~Boot(p)
  BY DEF Boot, HoldsPort, Sole
<1>3. ~Reload(p)
  <2>1. file # NoRow /\ removed[p] = FALSE
    BY DEF HeldInv, RowKept, SpentInv, TypeOK
  <2>2. (file = NoRow) = FALSE
    BY <2>1
  <2> QED
    BY <2>1, <2>2, Zenon DEF Reload
<1>4. CASE CooldownEnds(p) \/ LiveLoginPersists(p)
  BY <1>4 DEF CooldownEnds, LiveLoginPersists, Sole, RowWorks, NoneCondemned, upstream, account,
      taskVars
<1>5. CASE LiveLogin(p)
  <2>1. p = First
    BY <1>5, OneRefresh DEF LiveLogin
  <2>2. /\ mem' = [mem EXCEPT ![First] = minted + 1] /\ live' = live \cup {minted + 1}
        /\ status' = [status EXCEPT ![First] = "Active"] /\ UNCHANGED <<state, taskVars>>
    BY <1>5, <2>1 DEF LiveLogin
  <2>3. mem'[First] \in live'
    BY <2>2 DEF HeldInv, SpentInv, TypeOK
  <2>4. NoneCondemned'
    BY <2>2 DEF RowWorks, NoneCondemned, HeldInv, SpentInv, TypeOK
  <2> QED
    BY <2>2, <2>3, <2>4 DEF Sole, RowWorks, taskVars
<1> QED
  BY <1>1, <1>2, <1>3, <1>4, <1>5 DEF ProcStep

\* However live logins, coalesced and forced refreshes, failed posts and failed
\* writes interleave in a process, its row is never marked Error.
THEOREM LoginsAloneCondemnNothing ==
  ASSUME NothingTaken
  PROVE  Spec => []NoneCondemned
<1>1. Init => Sole /\ RowWorks
  BY ProcAssumption DEF Init, Sole, RowWorks, NoneCondemned
<1>2. HeldInv /\ Sole /\ RowWorks /\ [Next]_vars => (Sole /\ RowWorks)'
  <2> SUFFICES ASSUME HeldInv, Sole, RowWorks, [Next]_vars PROVE Sole' /\ RowWorks'
    OBVIOUS
  <2>1. CASE UNCHANGED vars
    BY <2>1 DEF vars, upstream, account, taskVars, Sole, RowWorks, NoneCondemned
  <2>2. ~FileLogin /\ ~FileDelete
    BY NothingTaken DEF NothingTaken, Undisturbed, FileLogin, FileDelete
  <2> QED
    BY NothingTaken, <2>1, <2>2, TaskKeepsRow, ProcKeepsRow DEF Next
<1>3. Spec => []HeldInv
  BY NothingTaken, HeldInvariant DEF NothingTaken
<1>4. RowWorks => NoneCondemned
  BY DEF RowWorks
<1> QED
  BY <1>1, <1>2, <1>3, <1>4, PTL DEF Spec
=============================================================================

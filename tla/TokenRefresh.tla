---------------------------- MODULE TokenRefresh ----------------------------
(***************************************************************************)
(* One pooled OAuth account and everything that moves its credential:      *)
(* refresh callers coalesced on the account's refresh lock, the OAuth      *)
(* server with its single-use refresh tokens, the write of the rotated     *)
(* token to the config file, a live re-login, a login or a deletion made   *)
(* in the file behind the proxy's back, a shutdown, a crash, and the       *)
(* handoff of the listening socket to a successor process.                 *)
(*                                                                         *)
(* A token is a number and stands for the access and refresh token minted  *)
(* together, so a later login or rotation is a larger number.  The cooldown *)
(* and the expiry are compared with a clock the code never bounds: the     *)
(* model lets a cooldown end, and an access token expire, at any time.     *)
(***************************************************************************)
EXTENDS Naturals, FiniteSets

CONSTANTS
    Procs,       \* processes that may serve, one after another
    First,       \* the one serving initially
    Tasks,       \* refresh tasks (ensure_fresh_inner's spawned futures)
    ProcOf,      \* the process each task belongs to
    NoTask,      \* a free lock
    LoginCall,   \* add_or_update_account as the holder of config_write
    MaxRetries,  \* oauth::MAX_RETRIES
    BackoffBase, \* ERROR_REPROBE_BASE_MS
    BackoffCap,  \* ERROR_REPROBE_CAP_MS
    MaxMint,     \* bound: no refresh or login starts once so many tokens exist
    Enabled      \* which of Events may happen

Events == {"transient", "lostReply", "writeFail", "shutdown", "crash",
           "earlyBoot", "handoff", "login", "fileEdit"}

ASSUME ProcAssumption  == First \in Procs /\ ProcOf \in [Tasks -> Procs]
ASSUME LockAssumption  == NoTask \notin Tasks /\ LoginCall \notin Tasks /\ NoTask # LoginCall
ASSUME RetryAssumption == MaxRetries \in Nat /\ MaxMint \in Nat
ASSUME BackoffAssumption == BackoffBase \in Nat \ {0} /\ BackoffCap \in Nat /\ BackoffBase <= BackoffCap
ASSUME EventAssumption == Enabled \subseteq Events

NoRow == 0   \* the config file holds no entry for the account

VARIABLES
    minted,    \* the last token the OAuth server minted
    live,      \* the refresh tokens it would accept
    file,      \* the account's credential in the config file
    state,     \* of each process
    mem,       \* AccountRuntime's credential
    cfg,       \* the credential in the manager's Config snapshot
    status,    \* AccountRuntime::status
    backoff,   \* AccountRuntime::error_backoff_ms
    cooldown,  \* refresh_retry_after_ms lies in the future
    removed,   \* AccountRuntime::removed
    lock,      \* the holder of refresh_lock
    wlock,     \* the holder of config_write
    login,     \* the credential add_or_update_account is persisting
    pc, planned, forced, sends, reply,   \* of each task
    known      \* history: the tokens each process has seen exchanged, but for
               \* one the file has handed it again since

account  == <<mem, status, backoff, cooldown, removed>>
taskVars == <<pc, planned, forced, sends, reply>>
upstream == <<minted, live>>
vars == <<upstream, file, state, cfg, account, lock, wlock, login, taskVars, known>>

\* off -> up -> stopping -> exiting -> dead, or by a handoff
\* up -> flushed -> released -> leaving -> dead.
States == {"off", "up", "stopping", "exiting", "flushed", "released", "leaving", "dead"}

Running(p) == state[p] \notin {"off", "dead"}

\* mutation_is_released: nothing resets the flag.
Released(p) == state[p] \in {"released", "leaving"}

Replies == [answer : {"none", "ok", "rejected", "transient"}, token : Nat]
NoReply == [answer |-> "none", token |-> 0]

Init ==
    /\ minted = 1 /\ live = {1} /\ file = 1
    /\ state = [p \in Procs |-> IF p = First THEN "up" ELSE "off"]
    /\ mem = [p \in Procs |-> 1] /\ cfg = [p \in Procs |-> 1]
    /\ status = [p \in Procs |-> "Active"] /\ backoff = [p \in Procs |-> 0]
    /\ cooldown = [p \in Procs |-> FALSE] /\ removed = [p \in Procs |-> FALSE]
    /\ lock = [p \in Procs |-> NoTask] /\ wlock = [p \in Procs |-> NoTask]
    /\ login = [p \in Procs |-> 0]
    /\ pc = [t \in Tasks |-> "idle"] /\ planned = [t \in Tasks |-> 0]
    /\ forced = [t \in Tasks |-> FALSE] /\ sends = [t \in Tasks |-> 0]
    /\ reply = [t \in Tasks |-> NoReply]
    /\ known = [p \in Procs |-> {}]

(***************************************************************************)
(* A refresh: ensure_fresh_inner and refresh_locked.                       *)
(***************************************************************************)

\* refresh_plan: not after a release, not for a removed row, and within a
\* cooldown only for a forced refresh of an expired token.
Plan(t, force, expired) ==
    LET p == ProcOf[t] IN
    /\ pc[t] = "idle" /\ minted < MaxMint
    /\ Running(p) /\ ~Released(p)
    /\ ~removed[p]
    /\ cooldown[p] => force /\ expired
    /\ pc' = [pc EXCEPT ![t] = "queued"]
    /\ planned' = [planned EXCEPT ![t] = mem[p]]
    /\ forced' = [forced EXCEPT ![t] = force]
    /\ UNCHANGED <<upstream, file, state, cfg, account, lock, wlock, login, sends, reply, known>>

\* A task leaves the refresh lock with nothing (more) to do.
Done(t) ==
    /\ pc' = [pc EXCEPT ![t] = "idle"]
    /\ lock' = [lock EXCEPT ![ProcOf[t]] = NoTask]
    /\ planned' = [planned EXCEPT ![t] = 0]
    /\ forced' = [forced EXCEPT ![t] = FALSE]
    /\ sends' = [sends EXCEPT ![t] = 0]
    /\ reply' = [reply EXCEPT ![t] = NoReply]

\* Mutant: the access token is not compared again under the lock.
CoalescedByCooldown(t) == cooldown[ProcOf[t]]

\* Under the lock, a changed access token or a live cooldown means another
\* caller has just tried.
Coalesced(t) ==
    LET p == ProcOf[t] IN mem[p] # planned[t] \/ cooldown[p]

LockAndSkip(t) ==
    LET p == ProcOf[t] IN
    /\ Running(p) /\ pc[t] = "queued" /\ lock[p] = NoTask
    /\ Coalesced(t)
    /\ Done(t)
    /\ UNCHANGED <<upstream, file, state, cfg, account, wlock, login, known>>

LockAndPost(t) ==
    LET p == ProcOf[t] IN
    /\ Running(p) /\ pc[t] = "queued" /\ lock[p] = NoTask
    /\ ~Coalesced(t)
    /\ lock' = [lock EXCEPT ![p] = t]
    /\ pc' = [pc EXCEPT ![t] = "posting"]
    /\ sends' = [sends EXCEPT ![t] = 1]
    /\ UNCHANGED <<upstream, file, state, cfg, account, wlock, login, planned, forced, reply, known>>

\* The OAuth server answers a POST it received: a live token is exchanged for
\* a new one and dies, any other is rejected.
UpstreamAnswers(t) ==
    /\ pc[t] = "posting"
    /\ pc' = [pc EXCEPT ![t] = "answered"]
    /\ \/ /\ planned[t] \in live
          /\ minted' = minted + 1
          /\ live' = (live \ {planned[t]}) \cup {minted + 1}
          /\ reply' = [reply EXCEPT ![t] = [answer |-> "ok", token |-> minted + 1]]
       \/ /\ planned[t] \notin live
          /\ reply' = [reply EXCEPT ![t] = [answer |-> "rejected", token |-> 0]]
          /\ UNCHANGED upstream
    /\ UNCHANGED <<file, state, cfg, account, lock, wlock, login, planned, forced, sends, known>>

\* Mutant: the retry loop starts over instead of giving up.
NoAnswerRetriesForever(t) ==
    /\ sends' = [sends EXCEPT ![t] = IF @ <= MaxRetries THEN @ + 1 ELSE 1]
    /\ UNCHANGED <<pc, reply>>

\* refresh_access_token_at without an answer: on a network error, a timeout or
\* a 5xx it sends the same token again while retries remain; then, and at once
\* on any other status or an unreadable body, the refresh is transient.
NoAnswer(t) ==
    \/ /\ sends[t] <= MaxRetries
       /\ sends' = [sends EXCEPT ![t] = @ + 1]
       /\ UNCHANGED <<pc, reply>>
    \/ /\ pc' = [pc EXCEPT ![t] = "answered"]
       /\ reply' = [reply EXCEPT ![t] = [answer |-> "transient", token |-> 0]]
       /\ UNCHANGED sends

\* The POST did not reach the OAuth server, or it did nothing with it.
PostFails(t) ==
    /\ "transient" \in Enabled
    /\ Running(ProcOf[t]) /\ pc[t] = "posting"
    /\ NoAnswer(t)
    /\ UNCHANGED <<upstream, file, state, cfg, account, lock, wlock, login, planned, forced, known>>

\* The server rotated, but its answer never arrives.
ReplyLost(t) ==
    /\ "lostReply" \in Enabled
    /\ Running(ProcOf[t]) /\ pc[t] = "posting" /\ planned[t] \in live
    /\ minted' = minted + 1
    /\ live' = (live \ {planned[t]}) \cup {minted + 1}
    /\ NoAnswer(t)
    /\ UNCHANGED <<file, state, cfg, account, lock, wlock, login, planned, forced, known>>

\* apply_refresh, one write under the accounts lock; a forced success re-arms
\* the cooldown.
ApplyRefresh(t) ==
    LET p == ProcOf[t] IN
    /\ Running(p) /\ pc[t] = "answered" /\ reply[t].answer = "ok"
    /\ mem' = [mem EXCEPT ![p] = reply[t].token]
    /\ cooldown' = [cooldown EXCEPT ![p] = forced[t]]
    /\ status' = [status EXCEPT ![p] = "Active"]
    /\ backoff' = [backoff EXCEPT ![p] = 0]
    /\ known' = [known EXCEPT ![p] = @ \cup {planned[t]}]
    /\ pc' = [pc EXCEPT ![t] = "persist"]
    /\ UNCHANGED <<upstream, file, state, cfg, removed, lock, wlock, login,
                   planned, forced, sends, reply>>

\* grow_error_backoff.
Grow(b) == IF b = 0 THEN BackoffBase
           ELSE IF 2 * b < BackoffCap THEN 2 * b ELSE BackoffCap

Rejected(t) ==
    LET p == ProcOf[t] IN
    /\ Running(p) /\ pc[t] = "answered" /\ reply[t].answer = "rejected"
    /\ status' = [status EXCEPT ![p] = "Error"]
    /\ backoff' = [backoff EXCEPT ![p] = Grow(@)]
    /\ Done(t)
    /\ UNCHANGED <<upstream, file, state, cfg, mem, cooldown, removed, wlock, login, known>>

\* Mutant: a transient failure condemns the row like a rejection.
TransientCondemns(t) ==
    LET p == ProcOf[t] IN
    /\ Running(p) /\ pc[t] = "answered" /\ reply[t].answer = "transient"
    /\ status' = [status EXCEPT ![p] = "Error"]
    /\ cooldown' = [cooldown EXCEPT ![p] = TRUE]
    /\ Done(t)
    /\ UNCHANGED <<upstream, file, state, cfg, mem, backoff, removed, wlock, login, known>>

Transient(t) ==
    LET p == ProcOf[t] IN
    /\ Running(p) /\ pc[t] = "answered" /\ reply[t].answer = "transient"
    /\ cooldown' = [cooldown EXCEPT ![p] = TRUE]
    /\ Done(t)
    /\ UNCHANGED <<upstream, file, state, cfg, mem, status, backoff, removed, wlock, login, known>>

\* persist_tokens: the release gate, then (another step) the write lock.
PersistGate(t) ==
    LET p == ProcOf[t] IN
    /\ Running(p) /\ pc[t] = "persist"
    /\ IF Released(p)
       THEN Done(t)
       ELSE pc' = [pc EXCEPT ![t] = "writing"]
            /\ UNCHANGED <<lock, planned, forced, sends, reply>>
    /\ UNCHANGED <<upstream, file, state, cfg, account, wlock, login, known>>

\* With config_write held the snapshot takes the rotated token first ...
PersistSnapshot(t) ==
    LET p == ProcOf[t] IN
    /\ Running(p) /\ pc[t] = "writing" /\ wlock[p] = NoTask
    /\ wlock' = [wlock EXCEPT ![p] = t]
    /\ cfg' = [cfg EXCEPT ![p] = reply[t].token]
    /\ UNCHANGED <<upstream, file, state, account, lock, login, taskVars, known>>

\* What save_tokens_for makes of the file: an entry the user deleted is not
\* resurrected.
Merged(token) == IF file = NoRow THEN NoRow ELSE token

\* Mutant: a failed write takes the rotated token out of the snapshot again.
PersistWriteRollsBack(t) ==
    LET p == ProcOf[t] IN
    /\ Running(p) /\ pc[t] = "writing" /\ wlock[p] = t
    /\ \/ file' = Merged(cfg[p]) /\ UNCHANGED cfg
       \/ /\ "writeFail" \in Enabled
          /\ cfg' = [cfg EXCEPT ![p] = planned[t]]
          /\ UNCHANGED file
    /\ wlock' = [wlock EXCEPT ![p] = NoTask]
    /\ Done(t)
    /\ UNCHANGED <<upstream, state, account, login, known>>

\* Mutant: the snapshot as it was before the rotation is put back after a
\* successful write.
PersistWriteOldSnapshotBack(t) ==
    LET p == ProcOf[t] IN
    /\ Running(p) /\ pc[t] = "writing" /\ wlock[p] = t
    /\ \/ file' = Merged(cfg[p]) /\ cfg' = [cfg EXCEPT ![p] = planned[t]]
       \/ "writeFail" \in Enabled /\ UNCHANGED <<file, cfg>>
    /\ wlock' = [wlock EXCEPT ![p] = NoTask]
    /\ Done(t)
    /\ UNCHANGED <<upstream, state, account, login, known>>

\* ... then the file; a failed write is logged and left to persist_now.
PersistWrite(t) ==
    LET p == ProcOf[t] IN
    /\ Running(p) /\ pc[t] = "writing" /\ wlock[p] = t
    /\ \/ file' = Merged(cfg[p])
       \/ "writeFail" \in Enabled /\ UNCHANGED file
    /\ wlock' = [wlock EXCEPT ![p] = NoTask]
    /\ Done(t)
    /\ UNCHANGED <<upstream, state, cfg, account, login, known>>

CooldownEnds(p) ==
    /\ Running(p) /\ cooldown[p]
    /\ cooldown' = [cooldown EXCEPT ![p] = FALSE]
    /\ UNCHANGED <<upstream, file, state, cfg, mem, status, backoff, removed, lock, wlock,
                   login, taskVars, known>>

(***************************************************************************)
(* Logins and edits of the file.                                           *)
(***************************************************************************)

\* add_or_update_account on the live route, a connection left to finish by a
\* shutdown included: the row in memory first, under config_write but not under
\* the refresh lock ...
LiveLogin(p) ==
    /\ "login" \in Enabled
    /\ Running(p) /\ wlock[p] = NoTask /\ minted < MaxMint
    /\ minted' = minted + 1 /\ live' = live \cup {minted + 1}
    /\ mem' = [mem EXCEPT ![p] = minted + 1]
    /\ status' = [status EXCEPT ![p] = "Active"]
    /\ removed' = [removed EXCEPT ![p] = FALSE]
    /\ wlock' = [wlock EXCEPT ![p] = LoginCall]
    /\ login' = [login EXCEPT ![p] = minted + 1]
    /\ UNCHANGED <<file, state, cfg, backoff, cooldown, lock, taskVars, known>>

\* ... then persist_replaced: the file, and the snapshot only if it was
\* written.
LiveLoginPersists(p) ==
    /\ Running(p) /\ wlock[p] = LoginCall
    /\ \/ file' = login[p] /\ cfg' = [cfg EXCEPT ![p] = login[p]]
       \/ "writeFail" \in Enabled /\ UNCHANGED <<file, cfg>>
    /\ wlock' = [wlock EXCEPT ![p] = NoTask]
    /\ login' = [login EXCEPT ![p] = 0]
    /\ UNCHANGED <<upstream, state, account, lock, taskVars, known>>

\* `tcr login` writes the row itself: persist_via_account.
FileLogin ==
    /\ "fileEdit" \in Enabled
    /\ minted < MaxMint
    /\ minted' = minted + 1 /\ live' = live \cup {minted + 1}
    /\ file' = minted + 1
    /\ UNCHANGED <<state, cfg, account, lock, wlock, login, taskVars, known>>

\* `tcr account remove`, or a hand edit.
FileDelete ==
    /\ "fileEdit" \in Enabled
    /\ file # NoRow
    /\ file' = NoRow
    /\ UNCHANGED <<upstream, state, cfg, account, lock, wlock, login, taskVars, known>>

\* reload_groups_if_changed, by any request still in flight, under config_write
\* if it is free (apply_group_reload): a row the file lost is parked, a
\* row that came back takes the file's credential (the row, not the snapshot),
\* "the truth again" even where it is one the process has exchanged.
Reload(p) ==
    /\ Running(p) /\ wlock[p] = NoTask
    /\ removed[p] # (file = NoRow)
    /\ removed' = [removed EXCEPT ![p] = (file = NoRow)]
    /\ mem' = [mem EXCEPT ![p] = IF file = NoRow THEN @ ELSE file]
    /\ known' = [known EXCEPT ![p] = @ \ {file}]
    /\ UNCHANGED <<upstream, file, state, cfg, status, backoff, cooldown, lock, wlock,
                   login, taskVars>>

(***************************************************************************)
(* Processes.                                                              *)
(***************************************************************************)

\* persist_now: the whole snapshot, under config_write.
PersistNow(p) ==
    /\ wlock[p] = NoTask
    /\ \/ file' = Merged(cfg[p])
       \/ "writeFail" \in Enabled /\ UNCHANGED file

\* shutdown_within stops the accept loop, which frees the port, and joins its
\* tasks; refresh tasks are detached and nobody waits for them.
StopListening(p) ==
    /\ "shutdown" \in Enabled
    /\ \/ state[p] = "up" /\ state' = [state EXCEPT ![p] = "stopping"]
       \/ state[p] = "released" /\ state' = [state EXCEPT ![p] = "leaving"]
    /\ UNCHANGED <<upstream, file, cfg, account, lock, wlock, login, taskVars, known>>

\* Its last write of the tokens (persist_now refuses it after a release).
ShutdownFlush(p) ==
    /\ state[p] = "stopping"
    /\ PersistNow(p)
    /\ state' = [state EXCEPT ![p] = "exiting"]
    /\ UNCHANGED <<upstream, cfg, account, lock, wlock, login, taskVars, known>>

\* The runtime is dropped: what is being awaited is lost, a blocking write
\* that has started is finished first.
Exit(p) ==
    /\ state[p] \in {"exiting", "leaving"} /\ wlock[p] = NoTask
    /\ \A t \in Tasks : ProcOf[t] = p => pc[t] # "writing"
    /\ state' = [state EXCEPT ![p] = "dead"]
    /\ UNCHANGED <<upstream, file, cfg, account, lock, wlock, login, taskVars, known>>

Crash(p) ==
    /\ "crash" \in Enabled
    /\ Running(p)
    /\ state' = [state EXCEPT ![p] = "dead"]
    /\ UNCHANGED <<upstream, file, cfg, account, lock, wlock, login, taskVars, known>>

\* complete_handoff: the final write, then the release; the socket follows.
HandoffFlush(p) ==
    /\ "handoff" \in Enabled
    /\ state[p] = "up"
    /\ PersistNow(p)
    /\ state' = [state EXCEPT ![p] = "flushed"]
    /\ UNCHANGED <<upstream, cfg, account, lock, wlock, login, taskVars, known>>

ReleaseMutationOwnership(p) ==
    /\ state[p] = "flushed"
    /\ state' = [state EXCEPT ![p] = "released"]
    /\ UNCHANGED <<upstream, file, cfg, account, lock, wlock, login, taskVars, known>>

\* Whether p still keeps a successor from starting.  takeover_port waits for
\* the exit of a process it asked to stop; a start after the port was freed
\* finds no listener and waits for nothing.
HoldsPort(p) ==
    \/ state[p] \in {"up", "flushed"}
    \/ state[p] \in {"stopping", "exiting"} /\ "earlyBoot" \notin Enabled

Boot(q) ==
    /\ state[q] = "off"
    /\ \A p \in Procs : ~HoldsPort(p)
    /\ file # NoRow
    /\ state' = [state EXCEPT ![q] = "up"]
    /\ mem' = [mem EXCEPT ![q] = file]
    /\ cfg' = [cfg EXCEPT ![q] = file]
    /\ UNCHANGED <<upstream, file, status, backoff, cooldown, removed, lock, wlock, login,
                   taskVars, known>>

TaskWork(t) ==
    \/ UpstreamAnswers(t) \/ PostFails(t) \/ ReplyLost(t)
    \/ ApplyRefresh(t) \/ Rejected(t) \/ Transient(t)
    \/ PersistGate(t) \/ PersistSnapshot(t) \/ PersistWrite(t)

TaskStep(t) ==
    \/ \E force, expired \in BOOLEAN : Plan(t, force, expired)
    \/ LockAndSkip(t) \/ LockAndPost(t)
    \/ TaskWork(t)

ProcStep(p) ==
    \/ CooldownEnds(p) \/ LiveLogin(p) \/ LiveLoginPersists(p) \/ Reload(p)
    \/ StopListening(p) \/ ShutdownFlush(p) \/ Exit(p) \/ Crash(p)
    \/ HandoffFlush(p) \/ ReleaseMutationOwnership(p) \/ Boot(p)

Next ==
    \/ \E t \in Tasks : TaskStep(t)
    \/ \E p \in Procs : ProcStep(p)
    \/ FileLogin \/ FileDelete

Spec == Init /\ [][Next]_vars

\* A task of a running process is polled again; tokio's mutex is first come,
\* first served; a POST is answered or times out.  Nothing else is owed.
Fairness ==
    /\ \A t \in Tasks : WF_vars(TaskWork(t)) /\ SF_vars(LockAndSkip(t) \/ LockAndPost(t))
    /\ \A p \in Procs : WF_vars(LiveLoginPersists(p))

FairSpec == Spec /\ Fairness

-----------------------------------------------------------------------------
(***************************************************************************)
(* Properties.                                                             *)
(***************************************************************************)

\* Every variable holds a value of its type.
TypeOK ==
    /\ minted \in Nat /\ live \subseteq Nat /\ file \in Nat
    /\ state \in [Procs -> States]
    /\ mem \in [Procs -> Nat] /\ cfg \in [Procs -> Nat] /\ login \in [Procs -> Nat]
    /\ status \in [Procs -> {"Active", "Error"}]
    /\ backoff \in [Procs -> 0..BackoffCap]
    /\ cooldown \in [Procs -> BOOLEAN] /\ removed \in [Procs -> BOOLEAN]
    /\ lock \in [Procs -> Tasks \cup {NoTask}]
    /\ wlock \in [Procs -> Tasks \cup {NoTask, LoginCall}]
    /\ pc \in [Tasks -> {"idle", "queued", "posting", "answered", "persist", "writing"}]
    /\ planned \in [Tasks -> Nat]
    /\ forced \in [Tasks -> BOOLEAN]
    /\ sends \in [Tasks -> 0..MaxRetries + 1]
    /\ reply \in [Tasks -> Replies]
    /\ known \in [Procs -> SUBSET Nat]

\* A refresh token is single-use: no caller, forced or not, queued behind a
\* refresh or not, sends a token its process has already seen exchanged, unless
\* a reload has taken that token from the file once more.
NeverRepostsSpent ==
    \A t \in Tasks : pc[t] = "posting" => planned[t] \notin known[ProcOf[t]]

\* Only a rejected refresh makes a row Error: the credential of an errored row
\* is one the OAuth server no longer accepts.
HealthyNeverCondemned ==
    \A p \in Procs : status[p] = "Error" => mem[p] \notin live

\* Memory is the recovery buffer of a single-use token: unless a refresh is on
\* its way to persist_tokens, the snapshot persist_now flushes at shutdown has
\* the row's credential, whatever became of the write.
SnapshotKeepsToken ==
    \A p \in Procs :
        (/\ Running(p) /\ ~Released(p) /\ wlock[p] # LoginCall
         /\ \A t \in Tasks : ProcOf[t] = p => pc[t] \notin {"persist", "writing"})
            => cfg[p] = mem[p]

\* The four writes of the account's credential a process can make.
Writes(p) ==
    \/ ShutdownFlush(p) \/ HandoffFlush(p) \/ LiveLoginPersists(p)
    \/ \E t \in Tasks : ProcOf[t] = p /\ PersistWrite(t)

\* The file never goes back to an older credential behind its owner's back,
\* however a successor, a handoff, lost replies and failed writes interleave:
\* a write that makes the file older comes only from a process whose own row is
\* older still than what it overwrites, an overtaken predecessor.  A process
\* never puts its stale snapshot over a rotation of its own, over one its
\* predecessor left it, or over its successor's while its row is as new.
OnlyOvertakenGoBack ==
    [][file' < file => \A p \in Procs : Writes(p) => mem[p] < file]_vars

\* The credentials a login could still be recovered from.
Held ==
    {file} \cup {mem[p] : p \in {q \in Procs : Running(q)}}
           \cup {reply[t].token : t \in {u \in Tasks : Running(ProcOf[u])}}

\* The account is never lost: some working credential is in the file, in a
\* running process, or in an answer a running process has in hand.
LiveTokenHeld == live \cap Held # {}

\* A refresh always answers its caller, whatever the network and the disk do.
RefreshReturns == \A t \in Tasks : pc[t] = "queued" ~> pc[t] = "idle"
=============================================================================

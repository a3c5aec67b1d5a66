# Verification of tcr (teamclaude-rs)

`tcr` is a local proxy that pools several OAuth accounts of one person or team
and serves a client's requests from whichever account has quota left. Its refresh
tokens are single-use: a token that is sent twice, lost, or overwritten by an
older one costs an account a manual login. This directory holds TLA+ models of
the parts of the proxy where that, the loss of other persistent state, a request
sent where it may not go, or quota lent beyond its bound could happen, the TLC
configurations that check them, and TLAPS proofs.

Paths below are relative to the repository root (`src/server.rs` and so on).

## 1. Inventory

| part | state it keeps | operations | hard behaviour |
|---|---|---|---|
| saved caches (`cache_file.rs`, `save_gate.rs`, `affinity.rs`, `bound_tokens.rs`, `session_wire_persist.rs`, `manager/pins.rs`, `manager/wire_sessions.rs`) | for each of three caches: the map in memory, a dirty flag, a stored notification, the hashes of the last write, the file | mark, wait for a change, save if changed, final save, restore | marks racing the save; a deferred save with no further change; failed writes; kill, power loss |
| token refresh (`manager/refresh.rs`, `oauth.rs`) | per account: credential, status, error backoff, retry cooldown, refresh lock | `ensure_fresh`, forced refresh after a 401, rejection, transient failure | concurrent callers, lost answers, retries of a single-use token |
| credential persistence (`manager/mod.rs`) | the manager's `Config` snapshot, the `config_write` lock, the config file | `persist_tokens`, `persist_now`, `add_or_update_account`, group reload | two locks, writes that fail, logins and hand edits beside a running proxy |
| token merge and identity (`config.rs`, `identity.rs`) | the file's account list against the loaded one | `plan_merge`, `merge_tokens`, `resolve` | legacy rows without UUID or org, ambiguity, order of the file |
| server lifecycle (`server.rs`) | accept loop, background tasks, shutdown signal | `serve`, `shutdown_within` | detached tasks, the grace period, order of the last writes |
| handoff and singleton (`handoff.rs`, `singleton.rs`, `crates/tcr-fdpass`) | mutation ownership, the port claim | `complete_handoff`, `takeover_port` | predecessor and successor alive together |
| selection, pins, groups (`manager/select.rs`, `groups.rs`, `state.rs`, `capped_map.rs`) | session and connection pins with caps, holds, rankings | select, pin, divert, evict | capacity, stale pins, gates that other requests move |
| rotation loop (`proxy.rs`, `proxy/ladder.rs`, `fallback.rs`), throttling (`manager/throttle.rs`) | benched, parked and held accounts, retry budgets, the tally of refusals | pick, send, 401/403/429/529 arms, soft wait, carry, terminal answer | every order of outcomes; re-admission; a second copy of a POST; the attempt budget |
| bound-token routing (`manager/bound_tokens.rs`) | token to account bindings | hold, release, warn, record, rebind | check-and-set against a fresh mint |
| usage ledger (`usage.rs`) | bounded queue, drop counter and flags, writer thread, plain and gzipped day files | queue, append, compress, read a day, flush, shutdown | full queue, two atomics, stalled or dead writer, a stop between two renames |
| quota and probing (`quota.rs`, `manager/probing.rs`, `manager/warm.rs`, `warmer.rs`) | utilization, probe claims | probe, re-probe an errored row | claims, backoff |
| Codex login and write-back (`codex_token_store.rs`, `manager/refresh.rs`) | `auth.json`, the pending publication in memory and in the config file | read, take a newer pair, compare and rename, retry, resume | Codex writes the same file without the lock; failed publications; restarts |
| peer lending and pairing (`peer/*`, `manager/peer_lend.rs`) | leases, slots, remembered pairs, headroom, the persisted ledger, the peer book | grant, enter, charge, leave, hint, flush, restore | lagging debits, repeated request ids, aborted relays, failed writes, restarts |
| transport, TLS, CLI, TUI, macOS app | sockets, screens | | I/O and user interface |

How they meet: a request selects an account (pins, quota), calls `ensure_fresh`
(refresh lock), and is sent; a refresh updates the row in memory and then, under
`config_write`, the `Config` snapshot and the file; requests mark the caches and
one flusher task per cache saves them; `shutdown_within` stops the accept loop,
joins the background tasks, writes all tokens (`persist_now`) and the three
caches. A successor process reads the same files.

What makes each modelled part correct:

- *saved caches*: the gate never believes in a write that is not there, no change
  is left without a wake-up, the lag is bounded, a clean shutdown loses nothing;
- *token refresh and persistence*: a process never sends a token it has spent
  (short of a reload that hands it back), only a dead
  credential makes a row `Error`, a rotated token is always recoverable, the file
  never goes back to an older credential, every caller gets its answer;
- *token merge*: no account's credential lands on another's entry, the outcome
  does not depend on the order of the file, the scan ends with nothing left to
  pair;
- *Codex write-back*: a working login of Codex is never replaced, a login of Codex
  that tcr has spent is not forgotten and is replaced in the end, nothing stale or
  foreign is taken from the file;
- *rotation loop*: no attempt leaves the request's restrictions or returns to an
  account given up on, another Mac never sends a second copy, "unreachable" is
  true, the budget ends no walk early;
- *lender's ledger*: a lease is overdrawn by at most its in-flight cap, slots come
  back, no request id is relayed free of charge, room is not promised twice, a clean ledger is
  on disk;
- *usage ledger*: a lost line is flagged, `Flushed` is true, each line is read
  back once, a shutdown returns.

`PROJECT.json` lists every component with its status, and every hazard with the
properties that would catch it.

## 2. Modules

```
SavedCache ---- SavedCacheStaleness          TokenRefresh ---- MCTokenRefresh
     \--------- SavedCacheProofs                  \----------- TokenRefreshProofs
TokenMerge ---- MCTokenMerge                 RotationLadder -- MCRotationLadder
     \--------- TokenMergeProofs                  \----------- RotationLadderProofs
LeaseBudget <== LeaseLedger -- MCLeaseLedger UsageLedger ----- UsageLedgerProofs
 (refinement)        \-------- LeaseLedgerProofs
CodexWriteback -- CodexWritebackProofs
```

### SavedCache

One of the three caches, chosen by the constant `Cache`; they differ in how they
are marked (`PinAndMark`, `Record`/`MarkLater`), in the deferral period, and in
whether a clean flag skips the final write (`FinalSkip`: only the bound tokens).

| model | code |
|---|---|
| `mem`, `unmarked` | the map under its lock; a change not yet followed by `mark` |
| `dirty`, `permit`, `Mark` | `SavedFile::dirty`, the `Notify`'s stored permit, `SavedFile::mark` |
| `WakeChanged`, `WakeDue`, `SleepOver`, `SaveReturns` | `save_on_change` |
| `SaveTake`, `SaveCopy`, `SaveSkipped`, `SaveWritten`, `SaveFailed`, `Skip` | `SavedCache::save`, `SavedFile::save_if_changed`, `SaveGate::skip` |
| `Stop`, `Join`, `FinalSave`, `FinalSaveFailed` | `ServerHandle::shutdown_within`, `SavedCache::save_finally` |
| `Exit`, `PowerLoss`, `Boot` | the end of the process; `Durability::Cache`; `restore_affinity` and its siblings |

The steps of a save are separate because the request path runs between them; the
rename and `SaveGate::wrote` are one step because only the flusher, or after it
the shutdown, reads the gate. Content is a *shape* (what must be written at once)
and a *touch* (what may be deferred), which is all the gate's two hashes tell
apart. Time is discrete and kept as ages and remaining delays. The affinity
feature is taken as enabled in the config. `Loaded` is what a boot makes of a
file; which single entries a restore drops (expired, account gone) is below the
model's content. The constants `WritesCanFail` and `CanAbort` switch failing
writes and flushers that outlive the grace.

`SavedCacheStaleness` adds two history variables that measure the lag and one,
`late`, that excuses it: after a failed write, or when time passed a ready timer or
task, nothing is measured until the file has caught up.

### TokenRefresh

One account, any number of processes that may serve one after another, each with
refresh tasks.

| model | code |
|---|---|
| `mem`, `status`, `backoff`, `cooldown`, `removed` | the `AccountRuntime` row |
| `cfg`, `file` | the credential in the manager's `Config` and in the config file |
| `lock`, `wlock` | `refresh_lock`, `config_write` |
| `Plan`, `Coalesced`, `LockAndSkip`, `LockAndPost` | `refresh_plan`, `ensure_fresh_inner`, `refresh_locked` up to the POST |
| `UpstreamAnswers`, `PostFails`, `ReplyLost`, `NoAnswer` | the OAuth server (external) and `refresh_access_token_at` |
| `ApplyRefresh`, `Rejected`, `Transient`, `Grow` | the three outcomes |
| `PersistGate`, `PersistSnapshot`, `PersistWrite`, `Merged` | `persist_tokens`, `save_tokens_for` |
| `LiveLogin`, `LiveLoginPersists`, `FileLogin`, `FileDelete`, `Reload` | `add_or_update_account`, `persist_replaced`, `tcr login` beside the proxy, `tcr account remove`, `apply_group_reload` |
| `StopListening`, `ShutdownFlush`, `Exit`, `Crash` | `shutdown_within`, `persist_now`, the end of the process |
| `HandoffFlush`, `ReleaseMutationOwnership`, `HoldsPort`, `Boot` | `complete_handoff`, `takeover_port`, a start |

A token is a number that stands for the access and the refresh token minted
together; the server rotates on every exchange. A cooldown ends, and an access
token expires, at any time: the code's clock is not bounded. `live` is what the
OAuth server would accept; `known` is history, the tokens each process has seen
exchanged; a reload that takes one of them from the file again (`apply_group_reload`
makes the file's row "the truth again") strikes it off. The constant `Enabled` selects which faults and edits may happen, so
that each run, and each theorem, says exactly under which of them it holds. Only
the OAuth (Anthropic) row is modelled: API-key rows do not refresh, and the
Codex half of `refresh_locked` is CodexWriteback. The fallback of
`save_tokens_for` for a file that does not parse is left out.

### TokenMerge

`plan_merge` as a scan: `Commit` and `PassOver` per entry, `NextRound` while a
round made progress, `Save` for the sweep and `merge_tokens` under a
`CredentialScope` (`Covers`). `SameIdentity`, `SameIdentityStrict` and
`ResolvesTo` are `identity.rs`. Initial states are all files and fleets over the
given identities, `Unreadable` entries included (one skip reason stands for the
parser's three).

### CodexWriteback

One imported Codex row. Codex and tcr own `auth.json` together; Codex ignores
tcr's lock.

| model | code |
|---|---|
| `auth`, `torn`, `moved`, `touches` | `auth.json`: its pair, half written, written since tcr last looked, edits of its other fields |
| `row`, `status`, `pend` | the `AccountRuntime` row and its `pending_codex_writeback` |
| `cfg`, `disk` | the row and `codexTokenSyncPending` in the manager's `Config` and in the config file |
| `RefreshStarts`, `Consider`, `Recheck`, `AfterWriteback`, `NewerTokens` | `refresh_locked` with its three readings of the file, `ImportedAuth::newer_tokens` |
| `PostAccepted`, `Source` | the exchange and `expected_refresh`, which a chain of failed publications carries along |
| `WritebackReads`, `WritebackCompares`, `WritebackRenames`, `WritebackFails`, `WritebackSettles` | `write_back_with_digest` and `flush_codex_writeback_locked` |
| `RetryStarts`, `RetryRecords`, `Record`, `Persist`, `Condemn` | `retry_codex_writeback`, `persist_codex_sync_state`, `persist_codex_writeback_record`, `persist_tokens`, the rejection |
| `Crash`, `Shutdown`, `Boot` | the end of the process, `persist_now`, `PendingCodexWriteback::from_config` |
| `Codex...` | Codex (external): refresh, sign-in to the same or another workspace, truncate and write, edits |

A pair is a number in the order of minting. `tied` says which pairs cannot be told
from their predecessor by `iat`; it stands for unreadable issuance times too. The
baseline of `last_refresh` is reduced to what it is for: the file held the row's
pair when the refresh began. Expiry of an access token is open at each look. The
advisory lock lets one writer of tcr run, and the refresh lock one task; a login or
re-import that races a refresh, and the handoff, are left to TokenRefresh.

### RotationLadder

One request of either provider from its arrival to its answer: the loop of
`handle_request` with `Ladder`, `Tally` and `Step`.

| model | code |
|---|---|
| `gate`, `GateMoves` | what `account_gate` says of an account for this request, moved by other requests, the probe and the clock |
| `tried`, `heldOut`, `parked`, `nextIdx`, `spent`, `tally` | the fields of `Ladder` and `Tally` |
| `StartFree`, `StartHeld`, `StartReleased`, `StartWarned` | bound history before the first attempt |
| `TakeNext`, `Select`, `AnswerVerdict`, `SoftWait`, `Wake`, `LastResort`, `BoundWentOut`, `WarnMidRequest`, `ReleaseMidRequest`, `ServeBound`, `Revalidate`, `Exhausted`, `BudgetSpent` | the choice of the account and its fallbacks, in the order of the code |
| `Unusable`, `PinnedExit`, `Carry`, `FailOffline`, `FailConnect`, `FailMidflight` | an attempt that never got an answer |
| `Answer401`, `Answer403`, `Forward403`, `QuotaRejected429`, `Transient429`, `RequestScoped429`, `Overloaded529`, `ModelRefused`, `Forward` | the arms over the upstream's status |

`gaveUp` and `fates` are history. Durations are abstracted: a hold is live or over.
Which of several eligible accounts is preferred (pins, ranking, throttle) is left
open, so every property holds for every preference; so is the switch-warning
memory. The strict group and the lock are fixed for the request. The rebind after a
served request, header and body rewriting and errors while an answer streams are
outside. No liveness is stated: the loop is bounded twice, by the attempt budget
and by the one-shot waits.

### LeaseLedger and LeaseBudget

`LeaseBudget` is the abstract promise of a lender: a lease is a budget and a cap;
no relay starts on a spent budget, never more than the cap run, a relay charges at
most one request's rise, a borrower's report only raises the spend, a restart may
forget charges and ends every relay.
`LeaseLedger` is the lender's `Ledger` behind its mutex: `Grant`/`GrantRefused`
with `Amount` (`clamp_to_grant`), `EnterRelay`, `EnterRefused`, `EnterReplayed` and
`EnterFull` (`enter_relay`, `may_relay`, `admit_pair`), `Answered` and
`RelayAborted` (the charge, `RelaySlot`), `UsageHint`, `NoteOwnerHeadroom`,
`Flush`, `Restart`. An action is one hold of the lock; what a handler read before
taking it may be stale (`MaxLag`, `Measured`). One usage window; fractions count
units of `MIN_DEBIT`. `Budget == INSTANCE LeaseBudget WITH ...` counts the relays
that really run, not the ones the ledger counts, and `ImplementsBudget` says every
step of the ledger is a step of the budget or none.

### UsageLedger

Requests (`Record`, `Queue`, `QueueFails`, and the drop in its two atomic steps
`CountDrop` and `RaiseDropping`), the writer
thread (`TakeLine`, `AppendLine`, `AppendFails`, `LoadDrops`, `LowerDropping`,
`RereadDrops`, `Compress`, `RemovePlain`, `Drained`, `WriterEnds`,
`WriterPanics`), the shutdown (`Stop`, `Detach`, `SendFlush`, `FlushGivesUp`,
`Join`, `LastLook`, `Abandon`), new days, death and boot. `ReadLedgerDay` is the
reader. Atomics are read and written one at a time in program order (the code uses
`Relaxed`; flag and counter are not assumed to move together). A line for a day that
is already compressed, and failures of the retention's removals, are left out: the
code reopens the plain file for such a line (`usage.rs:635`, `usage.rs:758`), and if
the removal of the compressed lines had failed before, the plain file would hold both
and its old lines be read twice.

## 3. Runs

| run | question | result |
|---|---|---|
| `saved_cache` | pins, three shapes, two touch times, failing writes, late timers, crash, power loss: honest gate, no lost wake-up, final write complete, bounded lag, changes reach the disk | holds, 146,715 states |
| `saved_touch_lag` | a deferred touch time is on disk within the gate's refresh period | **violated** |
| `saved_failed_flush` | the shutdown property for the bound tokens when a periodic write may fail | **violated** |
| `refresh_faults` | two processes, three tasks, transient failures, lost replies, failed writes, shutdown, crash, handoff, a successor started as soon as the port is free: no spent token sent, snapshots complete, rows condemned only when dead, the file made older only by an overtaken process | holds, 1,352,884 |
| `refresh_edits` | logins, deletions, reloads racing refreshes of a process that is not stopping: no spent token is sent again unless a reload handed it back, every refresh returns | holds, 53,901 |
| `refresh_clean_stop` | a working credential survives a clean shutdown | **violated** |
| `merge_pairing` | all files of three entries against all fleets of three accounts over five identities, every scope | holds, 273,096 |
| `lease_ledger` | two borrowers, two handlers, repeated ids, hints, failing writes, expiry, restarts: slots, charges, promises, durability, overdraft; the ledger implements the budget | holds, 279,954 |
| `usage_ledger` | two requests, a queue of one, four days, failing disk, a panicking writer, a restart | holds, 1,429,862 |
| `rotation` | two accounts, both providers, every restriction, every outcome, gates moved by others | holds, 3,720,687 |
| `rotation_truncated` | the attempt budget with four accounts | **violated** |
| `codex_writeback` | three pairs, Codex refreshing, signing in and editing, lost replies, failing writes, restarts | holds, 31,420 |

The four violations are disagreements between the code and what its comments
say:

- `saved_touch_lag`: a touch right after a write is deferred to the end of the gate's
  refresh period; `save_on_change` wakes at that instant and then lets the cache's
  delay pass once more before it saves, so with nothing failing or late the touch is
  on disk after the period *plus* the delay (65 s against 60 s for the pins and the
  wire sessions). `server.rs:860`, `manager/mod.rs:88` and `affinity.rs:249` promise
  the period alone. `TouchLagBounded` is the bound that holds, and it is proved;

- `saved_failed_flush`: `save` clears the dirty flag before it writes and a failed
  write does not raise it, so the shutdown skips the final write of the bound
  tokens although `server.rs` promises that a clean shutdown loses none;
- `refresh_clean_stop`: refresh tasks are detached, and a shutdown can end the
  process between the exchange and the write;
- `rotation_truncated`: an account parked by its last rung is re-admitted by the
  soft wait for one more send, which `max_attempts_for` does not count; with four
  accounts the slack of 4 is used up and the loop ends while an account is
  selectable, although `proxy.rs:617` says the budget never truncates a walk
  (`SlackPerAccountIsEnough` gives the slack under which it is true).

The models show more of the same kind, each reached by changing a constant or a
property of a run:

- `CanAbort = TRUE` in a bound-token configuration of SavedCache: an aborted
  flusher finishes its synchronous save after the final write. The pins' run has
  `CanAbort = FALSE` and does not show this;
- `HealthyNeverCondemned` with `{"login", "lostReply"}`: the rejection of a refresh
  of the *old* credential marks a row a login has just replaced (so it does with
  two processes and `"shutdown"`, `"crash"` or `"handoff"` instead); with
  `{"fileEdit", "lostReply"}`: a reload gives an errored row the working credential
  of a login and leaves its status ("the next refresh decides", `mod.rs:2843`);
- `SnapshotKeepsToken` with `{"login"}` (a persist that waited for `config_write`
  puts the older token in the snapshot after the login's), `{"login", "writeFail"}`
  (`persist_replaced` leaves the snapshot alone) or `{"fileEdit"}` (a reload takes
  the credential into the row only);
- `FileNeverGoesBack` (TokenRefreshProofs) with `{"fileEdit", "shutdown"}` (`persist_now` writes the
  boot-time snapshot over a `tcr login`), `{"login"}` (a refresh in flight across a
  live login persists the older token), `{"shutdown", "earlyBoot"}` and two
  processes (a successor starts after the port is freed and before `persist_now`),
  or `{"handoff"}` and two processes (a persist past the release gate lands after
  the successor has read the file, whose own last write puts its older snapshot
  over it). `OnlyOvertakenGoBack`, the property of `refresh_faults`, excuses a writer
  whose own row is older than what it overwrites, so it holds in the last two; with
  `{"login"}` or `{"fileEdit"}` it fails too (a persist under way, or a snapshot that
  a reload has not touched, is older than the row of its own process);
- in LeaseLedger, "two relays under way are never of the same lease and request id"
  and "every answered relay is charged" fail: the memory drops a pair while its relay
  runs, the id comes again, `enter_relay` admits it, both run and one is charged.
  `lease.rs:1935` says "two concurrent copies of one request id cannot both pass this
  line", and `lease.rs:1988` that only an id that has been paid for can be lost.
  `NoFreeRelay` excuses exactly that second relay, and `AmpleMemoryChargesAll` proves
  that it takes a memory smaller than the requests of the leases, or an expiry;
- `NeverRepostsSpent` if `Reload` left `known` alone: with `{"fileEdit"}` and
  `MaxMint` 5 a persist that was under way puts the rotated token over a login made
  in the file, a task that queued before the row was parked exchanges that token
  (`refresh_locked` does not look at `removed`), and the reload that brings the row
  back takes the spent token for the truth; with `{"fileEdit", "shutdown"}` the
  shutdown's write does the same. A process can therefore send a token it has spent,
  and be told so by a rejection, after an entry was deleted and restored;
- in RotationLadder, `answer = "offline503" => "midflight" \notin fates` fails:
  the offline arm (`proxy.rs:4569`) answers the retryable 503 also after an attempt
  that failed past the connect phase, which `ladder.rs:47` says taints the answer;
- in UsageLedger, "every line queued before the shutdown is on disk"
  (`usage.rs:947`) fails when an append fails; `FlushedMeansHandled` is what holds.

Two observations from reading the code for these models: a rejected *expired*
candidate from `auth.json` condemns a Codex row whose own pair was never tried
(`Recheck`, `Condemn`), and `is_persisting` stays true after the writer thread has
panicked until the next line is queued.

**Bounds.** Two tasks are enough for a holder and a follower on the refresh lock,
two processes for a predecessor and a successor, and the successor has a task of
its own. `MaxMint` 3 or 4 tokens allows a refresh, a login and a second refresh in
one behaviour; the model never compares a token with the bound except to stop new
ones. `NeverRepostsSpent` was also checked with `MaxMint` 5 and shutdowns and
crashes beside the edits (5,935,110 states), and it is proved without a bound. `MaxRetries` is 1 (2 in the code): one retry shows what a retry can do.
`BackoffBase` 1 and `BackoffCap` 3 reach the cap in two rejections; in
`refresh_faults` the cap is 1, since no guard reads the backoff (with 3 the run has
2,563,174 states and no error). For the caches
three shapes tell "the file", "the snapshot being written" and "memory" apart, and
delay and deferral differ so that their order shows. Three entries against three
accounts is the smallest file in which a pairing enables another one that enables
a third. Two accounts tell the inside of every restriction from its outside;
each restriction is explored alone and with bound history. One same-account retry
per class is enough to use it up and go on; `Slack` is 3 in `rotation`, one less
than the code's, so that `BudgetSpent` fires with two accounts, and 4, the code's,
in `rotation_truncated`. One gate change by others (`EnvBound`) reaches every await
of the walk. The ledger remembers one pair per lease and two in all (`PerLease` 1,
`Capacity` 2): a second request of a lease meets the first bound while there is room
in all, and the second drops a pair once both leases are
remembered. With two leases of one pair each the first bound alone keeps the total at
two, so what the second one is worth is `LedgerTypeCorrect`'s to say, for every
capacity. `MaxLag` is 0 in the run: handlers read the clock as they take the lock. With
a lag of 1 and without the history `paid` the same instance has 503,562 states and no
error, but takes too long for a run beside the others; the proofs hold for every lag.
A queue of depth 1 fills with two requests. Three pairs (`MaxMint`) allow tcr to
rotate twice over one spent file, or Codex and tcr to rotate once each with a
sign-in; the safety properties were also checked with four pairs (817,864 states).
Symmetry (tasks of one process, accounts, handlers, request and lease ids) is used
in runs without liveness only.

**Deadlock** is not checked where the system may stop: every process may be dead
or the token bound reached (TokenRefresh, CodexWriteback), a merge ends
(TokenMerge), the model's clock, leases, days or lines are used up (LeaseLedger,
UsageLedger). The cache and rotation runs check it.

**Fairness.** `SavedCache`: weak fairness of the flusher, a task the runtime polls
when it is ready, and of time. `TokenRefresh`: weak fairness of a task's own work
(a POST is answered or times out, a blocking write returns) and strong fairness of
taking the refresh lock, because tokio's mutex queues first come, first served;
a login that has replaced the row goes on to persist it. `UsageLedger`: a request
task runs on and the shutdown's deadlines come; nothing is assumed of the writer,
whose volume may be stalled for good. `CodexWriteback`: weak fairness of the lock
holder, of Codex finishing a write and of a restart; strong fairness of the retry
and of its steps: requests keep coming, each retries a due publication first, and a
file that can be read and renamed again and again lets one attempt through.
`TokenMerge`: the scan is one synchronous call. No fairness is assumed of
requests, logins, faults or shutdowns.

**Mutants.** Definitions commented `Mutant:` are plausible mistakes in the
definition that follows them; with the mutant in its place TLC reports the
property it is listed with in `PROJECT.json`.

## 4. Proofs

All theorems hold for every value of the constants that satisfies the named
assumptions: any delays and contents, any number of processes, tasks, retries,
entries, accounts and identities.

**SavedCacheProofs.** `TypeCorrect`; `GateCorrect`; `NoLostWakeup`;
`ShutdownLosesNothing`; `ShapeReachesDiskInTime` and `TouchReachesDiskInTime`.
`IdleFlusherIsSaved` is not inductive: it says nothing of
a flusher that is awake. `SaveInv` adds where a change that is not on disk can be:
still unmarked, covered by a notification, ahead of the flusher's copy, in its
snapshot, due later, or lost to a failed write. For the shutdown, `ShutdownInv`
adds that no flusher is running after the joins and, for the bound tokens, that a
clean flag means a saved map (`CleanFlagInv`). That theorem therefore assumes
`~CanAbort` and, for the bound tokens, `~WritesCanFail`: exactly the assumptions
whose absence TLC refutes. The two lag bounds are about `TimedSpec`, and
`LagInv` says what each measure may be at each place of the flusher: a waiting
flusher owes nothing of the shape and at most a refresh period of the touch times
(because a deferral is never of the shape, `DeferInv`), a sleeping one the part of
the delay it has slept, a saving one no more than the whole delay; and since the
gate's last write the file lags by no more than that write's age. `ExcuseInv` ties
the excuse `late` to the failed write. No theorem but the shutdown's has a
hypothesis.

**TokenRefreshProofs.** `TypeCorrect` and `SpentTokensStaySpent` hold with every
fault, login and edit. The second follows from `SpentInv`: a task past the
coalescing check holds the refresh lock (`Locked`), so only the holder adds to what
its process has seen exchanged; what it posts is unspent and what it gets is newer
than all of that (`AnswerIsNew`), because tokens are minted in order (`AllMinted`);
hence a row's token is unspent (`RowUnspent`), which is what the comparison under
the lock passes on to the next caller; a process that has not started has its
initial values (`OffIsFresh`).
`OnlyDeadRowsCondemned` and `SnapshotIsRecoveryBuffer` need that no login or edit of
the file races (`NoEdits`), and `IInv` adds: what the holder planned is what the row
still has, and a rejected token is dead (`InHand`); whoever holds `config_write` has
put its token in the snapshot (`WriterHasSnapshot`).
`OnlyTheOvertakenGoBack` has the same hypothesis and rests on `AheadInv`: only the
newest token works (`OnlyNewest`), an answer in hand is newer than its process's row and snapshot
(`AnswerAhead`), and unless the file is ahead of a process's row, what that process
may still write is not behind the file (`Lineage`); TLC checked it on the instance of
`refresh_faults` with `BackoffCap` 3 first. `FileMovesForward` also assumes
`OneAtATime` (no early start, no handoff): then only one process runs (`Alone`) and
the file is never ahead of its snapshot (`FileBehind`).
`OnlyAStopLosesTheLogin` is the other side of `refresh_clean_stop`: without a stop,
a crash, a lost answer or an edit of the file (`Undisturbed`) the account is never
lost, live logins that race a refresh included. A login can be overwritten by the
answer of a refresh that began before it, so no particular token survives;
`HeldInv` says that an answer in hand works and that nobody else has it
(`AnswerUnshared`), so that whatever it overwrites, a working token takes its place.
It was checked by TLC with two processes and four tokens before it was proved
(8,251,469 states). `LoginsAloneCondemnNothing` is the complement of
`OnlyDeadRowsCondemned`: with logins, and without the events that let a token die
unseen (`NothingTaken`), no row is ever condemned. One process serves (`Sole`), what
it posts works, and its row works except between an exchange and its application
(`RowWorks`). With any one of a lost answer, an edit of the file, a stop, a crash or
a handoff added, TLC finds a login overtaken by a rejection.
`RefreshesNeverDeadlock` and `RefreshesAlwaysAdvance` are what `RefreshReturns` rests
on beside fairness, with every event: the refresh lock is held by a task under way
(`HolderWorks`), `config_write` by a login or by that task while it writes
(`WriterWrites`), and a login waits for neither, so there is no cycle; and
`WorkLeft` counts down with every step of the holder, retries included.

**TokenMergeProofs.** `EachAccountOnce`, `OwnCredentialOnly`, `RotationLandsHome`,
`PairingsCommute`, `FixedPointReached`, `OrderDoesNotMatter`, `ScanAlwaysAdvances` and
`TypeCorrect`. The argument rests on
three lemmas about `resolve`: a unique match stays unique when candidates leave
(`ResolveShrinks`), is the only one (`ResolveUnique`), and an identity resolves to
itself if at all (`ResolveSelf`). `PairingsCommute` is the diamond step behind
order independence: committing one pairing never takes another away.
`FixedPointReached` needs `PassedHopeless`: in a round without progress, entries
already passed have no partner. `OrderIndependent` says that the scan's result is
the only exhausted pairing that some order (`rank`) of mutual matches can make.
Both inclusions take the same step: whatever one outcome has settled is part of
every other (`WithinEveryOutcome` along the scan; for the converse, the earliest
pair of the other outcome that the scan lacks would have been mutual to the end).
"The earliest" is a minimal element of a well-founded order on finite sets, which
stands in for an induction over rounds. `ScanAlwaysAdvances` gives the measure behind
`MergeEnds`: entries without a pair plus the flag, in rounds, and the entries left in
this round.

**RotationLadderProofs.** `SendsArePermitted`, `GivenUpStaysBehind`,
`CarriesNeverDouble`, `UnreachableAnswersAreTrue`, for every fleet, request, budget
and movement of the gates. Three operations take accounts out of `tried` again;
`Walls` records why each account is in it (outside the scope, benched for the hold,
parked, given up on), and that these reasons do not overlap, which is what makes
each re-admission safe. `Aims` says the named and the current account are
permitted, `Truths` that the tally tells what happened.
How long a walk can be is a count of what a request cannot get back. Each permitted
account has a rung for every same-account retry, one for the forced refresh and two
for the attempts that bench it: a park may end and the account be tried again, but
only across the one soft wait. `Climbed` is the set of rungs used up, and `WalkInv`
says that every iteration so far was paid for by a rung, an offline wait, the soft
wait or the release of bound history, the attempt under way excepted (`Rises` and
`Pays` are what each step does to this account; `RungLeft` says that an account not
benched still has a rung). `WalksEndByThemselves` is the bound `WalkLength` itself.
`FittingWalksAreNotTruncated` is `NeverTruncated` for a request whose `WalkLength`
is within `MaxAttempts`, and `SlackPerAccountIsEnough` says which slack that takes
for all of them: one per account, one for the soft wait and one for bound history,
because `MAX_SENDS_PER_ACCOUNT` counts one of the two benching attempts. The code's
constant 4 is enough for every request on two accounts and for one without bound
history on three; four accounts are `rotation_truncated`. A request that a lease, a
group or a lock keeps to some of the accounts has fewer ladders and the same budget.
TLC checked `WalkInv` first on the instance of `rotation` with `Slack` 9 (3,721,633
states), and that `WalkLength` is reached there.

**LeaseBudget, LeaseLedgerProofs.** `BudgetBoundsOverdraft` in the abstract
module: a lease is overdrawn by fewer than its cap of relays at the highest charge,
beyond what its own borrower reported; relays still running count in full. `LedgerImplementsBudget` proves the
refinement step by step (`StepCases`, one lemma per kind of step) from `IndInv`:
slots are conserved, jobs run only under granted leases, and the file is never
ahead of memory (`DiskBehind`, needed because a restart must not add a charge).
`LedgerBoundsOverdraft`, `SlotsAreConserved` and `CleanLedgerIsDurable` follow.
`LedgerTypeCorrect` includes both bounds of the memory of pairs, from `MemInv`:
besides the bounds, every running relay whose pair was not dropped to keep them is
still to be charged and alone under its pair (`RelaysOwed`). A dropped pair may be
admitted again while its first relay runs, and then the two are charged once;
`AnsweredIsCharged` says that this is the only relay that goes uncharged, and
`PaidInv` adds what it needs: a pair counts as paid only while some relay runs under
it (`paid`), and one that is remembered as charged with a relay still under it is
both dropped and paid for (`PaidUp`). `AmpleMemoryChargesAll` has no exception: with room for every
request of every lease and a clock that stays below the TTL nothing is ever dropped
(`NothingDropped`, where the memory also never holds one id twice). `GrantsWithinRoom` is an action property over sets of units: the grant is
cut to the room measured minus what is promised already, whose size is additive
because only finitely many leases were granted (`FinitelyGranted`).

**UsageLedgerProofs.** `DropsAreFlagged`, `FlushedTellsTheTruth`,
`EachLineIsReadOnce` and `UsageTypeCorrect`. `Accounted`
says where a queued line is: handled, in the queue, or in the writer's hand, and
that a writer that ended left nothing; the flag's invariant holds although counter
and flag are separate steps because the writer rereads the counter after lowering
the flag. For `EachLineIsReadOnce`, `FileInv` says of each day that its log is its
plain file or its `.gz` beside nothing or a copy (`Filed`). Compression keeps that
only if no line is appended to a day that has been compressed: the queue is in the
order of the calendar but for one midnight (`InOrder`, since a request queues its
line on the day it was built or the next, `InCalendar`), and a pass takes only days
two before the date it runs for (`PassClosed`). `ShutdownsAdvance` is the part of
`ShutdownReturns` that needs no fairness: from `Stop` on no request starts a line
(`Detached`), so the requests `Detach` waits for only become fewer, and neither they
nor the writer set the shutdown back.

**CodexWritebackProofs.** `OnlySpentIsReplaced`, `SpentLoginIsPending`,
`OnlyFreshIsTaken`. The rename itself compares
nothing, so the invariant carries the fact from where it is made to where it is
used: every source a publication may have, in memory, in the snapshot and on disk,
is a pair tcr exchanged (`SourcesAreSpent`); such a pair is dead (`OursAreDead`);
and between the two looks an untouched file still holds the source (`LookHolds`).
The other two follow from `PendInv`: while the file holds a pair tcr spent and
nothing was lost, tcr's own pair works, is newer and has not reached Codex, and the
publication against exactly that pair is pending, in memory or, with no process, on
disk (`Pending`); wherever the pair was saved its source was saved beside it
(`OnRecord`, which is what a restart relies on); a pair Codex is about to write is
nobody else's (`Unread`); and a refresh that has looked at the file knows enough of
it to choose the source right (`Looks`, `Hands`).

**Type invariants** are proved for every component, as a theorem or a conjunct of
the inductive invariant. Where they bound something (the memory of pairs, the
queue) they are listed as theorems.

**Only model-checked.** The liveness properties (`ChangeReachesDisk`,
`RefreshReturns`, `MergeEnds`, `ShutdownReturns`, `SpentFileIsReplaced`): the
prover has no rules for fairness. What each of them needs beside fairness is proved:
the time bounds `ShapeReachesDiskInTime` and `TouchReachesDiskInTime`,
`RefreshesNeverDeadlock` with `RefreshesAlwaysAdvance`, `ScanAlwaysAdvances`,
`ShutdownsAdvance`, `SpentLoginIsPending`. Every safety property of the passing runs
has a theorem. `NeverTruncated` is false for four accounts and `LiveTokenHeld` with a
stop, and `TouchLagWithinRefresh` false, as their runs show; the theorems of the first two, and those of `HealthyNeverCondemned`,
`SnapshotKeepsToken`, `OnlyOvertakenGoBack` and `CleanShutdownSaves`, carry the
hypotheses named above, and for each of these hypotheses section 3 names the
behaviour that makes it necessary.

## 5. Not modelled, and the plan

Not modelled because they are I/O, user interface, generated or pure data: peer
transport, TLS interception, the command line and terminal UI, the status wire,
body rewriting, the macOS app. These are also most of the repository's lines
(`cli.rs`, `tui.rs`, `main.rs`, the tests inside every file), so the map names a
small share of them.

Left out of modelled parts: the preference among eligible accounts with its pins
and throttle, the rebind of a served binding, what happens to a stream after its
first byte, the borrower's side of lending and the wire frames, the prober's
claims, the modification times behind a reload, Codex sign-ins through tcr.

What would come next:

1. **Pins** (`manager/select.rs`, `capped_map.rs`): eviction at the cap; a live pin
   is kept while its account is eligible.
2. **BoundTokens** (`manager/bound_tokens.rs`): record and rebind; a fresher mint
   wins.
3. **Reload** (`manager/mod.rs`): the modification time against this process's own
   writers; a skipped reload is made up.
4. **Pairing** (`peer/pair.rs`, `peer/state.rs`) and the borrower (`peer/ask.rs`,
   `peer/schedule.rs`), composed with LeaseLedger.
5. The proofs of these modules.

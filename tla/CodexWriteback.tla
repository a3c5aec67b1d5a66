---------------------------- MODULE CodexWriteback ----------------------------
(***************************************************************************)
(* One imported Codex login, shared with Codex itself: the refreshes of a  *)
(* row that has a codexHome (manager/refresh.rs), the guarded write of the *)
(* rotated pair into Codex's auth.json (codex_token_store.rs), the record  *)
(* in the config file that lets a restart resume it, and Codex, which      *)
(* refreshes, signs in and writes auth.json without tcr's lock.            *)
(*                                                                         *)
(* A token pair is a number, in the order the authority minted them.  The  *)
(* refresh lock lets one task run at a time.  Whether an access token has  *)
(* expired is open at every look, and so is when a refresh is wanted and   *)
(* when a publication's backoff ends.                                      *)
(***************************************************************************)
EXTENDS Integers

CONSTANTS
    None,        \* no pair
    MaxMint,     \* bound of this model: pairs minted
    MaxTouches   \* bound of this model: edits of auth.json's other fields

ASSUME CodexAssumption == MaxMint \in Nat \ {0} /\ MaxTouches \in Nat /\ None \notin Nat

VARIABLES
    minted,      \* the authority: how many pairs it has issued
    live,        \* the pairs whose refresh token it would still exchange
    tied,        \* pairs whose `iat` does not tell them from their predecessor
    foreign,     \* pairs of another ChatGPT workspace
    auth,        \* the pair in auth.json
    torn,        \* auth.json is incomplete: Codex is inside a write
    moved,       \* it was written to since the writer of tcr last looked at it
    touches,     \* edits of its other fields so far
    codex,       \* what Codex is doing, with which pair
    up,          \* the proxy runs
    row,         \* the account's credential in memory
    status,      \* AccountRuntime::status
    pend,        \* pending_codex_writeback: the source it may replace, the pair
    cfg,         \* the row in the manager's Config: the pair, the recorded source
    disk,        \* the row in the config file
    task,        \* what the holder of the refresh lock is doing
    ours,        \* history: pairs tcr has exchanged
    lost         \* history: a pair minted for tcr was lost before it was saved

authority == <<minted, live, tied, foreign>>
file == <<auth, torn, moved, touches>>
memory == <<up, row, status, pend, cfg>>
history == <<ours, lost>>
vars == <<authority, file, codex, memory, disk, task, history>>

\* was, before: the row's pair and the file's at the start; post, origin: the
\* pair posted and where it is from; error: of the last exchange; hand: the
\* pair to be applied.
Idle == [at |-> "idle", was |-> None, before |-> None, post |-> None,
         origin |-> "row", error |-> "none", hand |-> None]
NoRecord == [src |-> None, tok |-> None]

Init ==
    /\ minted = 1 /\ live = {1} /\ tied = {} /\ foreign = {}
    /\ auth = 1 /\ torn = FALSE /\ moved = FALSE /\ touches = 0
    /\ codex = [at |-> "idle", tok |-> None]
    /\ up = TRUE /\ row = 1 /\ status = "active" /\ pend = NoRecord
    /\ cfg = [tok |-> 1, src |-> None] /\ disk = cfg
    /\ task = Idle
    /\ ours = {} /\ lost = FALSE

-----------------------------------------------------------------------------
(* The authority *)

\* A new pair, issued in a later second than the one before or in the same.
Mint(spent, alien) ==
    /\ minted < MaxMint
    /\ minted' = minted + 1
    /\ live' = (live \ spent) \cup {minted + 1}
    /\ tied' \in {tied, tied \cup {minted + 1}}
    /\ foreign' = IF alien THEN foreign \cup {minted + 1} ELSE foreign

\* jwt_iat_ms of a is later than that of b.
IssuedAfter(a, b) == \E t \in b + 1 .. a : t \notin tied
\* The two cannot be ordered by it.
Unordered(a, b) == ~IssuedAfter(a, b) /\ ~IssuedAfter(b, a)

\* Mutant: the workspace of the file's login is not compared.
NewerTokensOfAnyone(previous, baseline, rejected) ==
    IF /\ ~torn /\ auth # previous
       /\ \/ IssuedAfter(auth, previous)
          \/ Unordered(auth, previous) /\ (baseline \/ rejected)
    THEN auth ELSE None

\* ImportedAuth::newer_tokens on the file as it is now.  A baseline is the
\* timestamp of a file that held `previous`: a file with another pair has a
\* later one.
NewerTokens(previous, baseline, rejected) ==
    IF /\ ~torn /\ auth # previous /\ auth \notin foreign
       /\ \/ IssuedAfter(auth, previous)
          \/ Unordered(auth, previous) /\ (baseline \/ rejected)
    THEN auth ELSE None

-----------------------------------------------------------------------------
(* A refresh *)

\* refresh_locked, up to the first reading of the file.
RefreshStarts ==
    /\ up /\ task = Idle /\ minted < MaxMint
    /\ task' = [Idle EXCEPT !.at = "consider", !.was = row,
                            !.before = IF torn THEN None ELSE auth]
    /\ UNCHANGED <<authority, file, codex, memory, disk, history>>

Baseline == task.before = task.was

\* A pair from the file is taken as it is: nothing is left to publish.
Take(pair) ==
    /\ pend' = NoRecord
    /\ task' = [Idle EXCEPT !.at = "apply", !.hand = pair]

\* preexisting: a newer pair in the file is taken, or posted if it has expired.
Consider(fresh) ==
    LET found == NewerTokens(task.was, FALSE, FALSE)
        post == IF found = None THEN task.was ELSE found
    IN  /\ up /\ task.at = "consider"
        /\ IF found # None /\ fresh
           THEN Take(found)
           ELSE /\ task' = [task EXCEPT !.at = "post", !.post = post,
                               !.origin = IF found # None \/ task.before = post THEN "file" ELSE "row"]
                /\ UNCHANGED pend
        /\ UNCHANGED <<authority, file, codex, up, row, status, cfg, disk, history>>

Posting == up /\ task.at \in {"post", "repost"}

\* Mutant: the source is always the token that was posted.
SourceForgetsChain == task.post

\* The token a publication may replace: the posted one, or, when that one never
\* reached the file, the one the file still has.
Source ==
    IF pend # NoRecord /\ task.origin = "row" /\ pend.tok = task.post
    THEN pend.src ELSE task.post

\* The exchange succeeds and the new pair is to be published.
PostAccepted ==
    /\ Posting /\ task.post \in live
    /\ Mint({task.post}, FALSE)
    /\ ours' = ours \cup {task.post}
    /\ pend' = [src |-> Source, tok |-> minted + 1]
    /\ task' = [Idle EXCEPT !.at = "read", !.was = task.was, !.before = task.before,
                            !.hand = minted + 1]
    /\ UNCHANGED <<file, codex, up, row, status, cfg, disk, lost>>

\* A rejection condemns the row, any other error leaves it as it is.
GivesUp(error) == IF error = "rejected" THEN [Idle EXCEPT !.at = "condemn"] ELSE Idle

\* The first failure looks at the file again, the second one is final.
Refused(error) ==
    task' = IF task.at = "post" THEN [task EXCEPT !.at = "recheck", !.error = error]
            ELSE GivesUp(error)

PostRejected ==
    /\ Posting /\ task.post \notin live
    /\ Refused("rejected")
    /\ UNCHANGED <<authority, file, codex, memory, disk, history>>

PostFails ==
    /\ Posting
    /\ Refused("transient")
    /\ UNCHANGED <<authority, file, codex, memory, disk, history>>

\* The authority exchanges the token and its answer never arrives.
ReplyLost ==
    /\ Posting /\ task.post \in live
    /\ Mint({task.post}, FALSE)
    /\ ours' = ours \cup {task.post}
    /\ lost' = TRUE
    /\ Refused("transient")
    /\ UNCHANGED <<file, codex, memory, disk>>

\* Codex may have refreshed first: its pair is taken, or posted if it has
\* expired.  Without one the failure stands.
Recheck(fresh) ==
    LET found == NewerTokens(task.was, Baseline, task.error = "rejected")
    IN  /\ up /\ task.at = "recheck"
        /\ IF found = None \/ found = task.post
           THEN task' = GivesUp(task.error) /\ UNCHANGED pend
           ELSE IF fresh THEN Take(found)
           ELSE /\ task' = [task EXCEPT !.at = "repost", !.post = found, !.origin = "file"]
                /\ UNCHANGED pend
        /\ UNCHANGED <<authority, file, codex, up, row, status, cfg, disk, history>>

-----------------------------------------------------------------------------
(* The guarded write of auth.json *)

\* Mutant: a publication that is on record counts as done.
RetryStartsUnlessRecorded ==
    /\ up /\ task = Idle /\ pend # NoRecord /\ cfg.src # pend.src
    /\ task' = [Idle EXCEPT !.at = "read", !.was = row]
    /\ UNCHANGED <<authority, file, codex, memory, disk, history>>

\* retry_codex_writeback: a publication whose backoff is over is tried again.
RetryStarts ==
    /\ up /\ task = Idle /\ pend # NoRecord
    /\ task' = [Idle EXCEPT !.at = "read", !.was = row]
    /\ UNCHANGED <<authority, file, codex, memory, disk, history>>

\* Where the two callers of flush_codex_writeback_locked go on.
Flushed(changed) ==
    task' = IF task.hand = None THEN [task EXCEPT !.at = "record"]
            ELSE IF changed THEN [task EXCEPT !.at = "after"]
            ELSE [Idle EXCEPT !.at = "apply", !.hand = task.hand]

\* The file is read under the lock: another token than the source ends it.
WritebackReads ==
    /\ up /\ task.at = "read" /\ ~torn
    /\ task' = [task EXCEPT !.at = IF auth = pend.src THEN "compare" ELSE "settle"]
    /\ moved' = FALSE
    /\ UNCHANGED <<authority, auth, torn, touches, codex, memory, disk, history>>

\* Mutant: the temporary is renamed over whatever is there.
WritebackComparesNothing ==
    /\ up /\ task.at = "compare"
    /\ task' = [task EXCEPT !.at = "rename"]
    /\ moved' = FALSE
    /\ UNCHANGED <<authority, auth, torn, touches, codex, memory, disk, history>>

\* With the temporary ready every byte is compared once more.
WritebackCompares ==
    /\ up /\ task.at = "compare"
    /\ ~moved \/ (~torn /\ auth # pend.src)
    /\ task' = [task EXCEPT !.at = IF moved THEN "settle" ELSE "rename"]
    /\ moved' = FALSE
    /\ UNCHANGED <<authority, auth, torn, touches, codex, memory, disk, history>>

\* The rename does not compare: what Codex wrote since is gone, and the rest
\* of a write it has begun goes to the file that was replaced.
WritebackRenames ==
    /\ up /\ task.at = "rename"
    /\ auth' = pend.tok /\ torn' = FALSE /\ moved' = FALSE
    /\ pend' = NoRecord
    /\ Flushed(FALSE)
    /\ UNCHANGED <<authority, touches, codex, up, row, status, cfg, disk, history>>

\* An I/O error, an incomplete file, or other bytes around the same token: the
\* publication stays pending and backs off.
WritebackFails ==
    /\ up /\ task.at \in {"read", "compare", "rename"}
    /\ moved' = FALSE
    /\ Flushed(FALSE)
    /\ UNCHANGED <<authority, auth, torn, touches, codex, memory, disk, history>>

\* The file had another token: it is the pair itself, a newer one to take, or
\* one that proves nothing and leaves the publication pending.
WritebackSettles(fresh) ==
    LET found == NewerTokens(pend.tok, FALSE, FALSE)
    IN  /\ up /\ task.at = "settle"
        /\ IF ~torn /\ auth = pend.tok
           THEN pend' = NoRecord /\ UNCHANGED <<row, status>>
           ELSE IF found # None /\ fresh
           THEN pend' = NoRecord /\ row' = found /\ status' = "active"
           ELSE UNCHANGED <<pend, row, status>>
        /\ Flushed(TRUE)
        /\ UNCHANGED <<authority, file, codex, up, cfg, disk, history>>

\* A refresh whose write found another token prefers a newer pair to its own.
AfterWriteback(fresh) ==
    LET found == NewerTokens(task.was, Baseline, FALSE)
    IN  /\ up /\ task.at = "after"
        /\ IF found # None /\ fresh
           THEN Take(found)
           ELSE task' = [Idle EXCEPT !.at = "apply", !.hand = task.hand] /\ UNCHANGED pend
        /\ UNCHANGED <<authority, file, codex, up, row, status, cfg, disk, history>>

-----------------------------------------------------------------------------
(* The row and the config file *)

ApplyRefresh ==
    /\ up /\ task.at = "apply"
    /\ row' = task.hand /\ status' = "active"
    /\ task' = [task EXCEPT !.at = "persist"]
    /\ UNCHANGED <<authority, file, codex, up, pend, cfg, disk, history>>

\* persist_tokens: the snapshot always, the file if its write succeeds.
Persist(pair, written) ==
    /\ cfg' = [tok |-> pair, src |-> pend.src]
    /\ disk' = IF written THEN cfg' ELSE disk

PersistTokens(written) ==
    /\ up /\ task.at = "persist"
    /\ Persist(task.hand, written)
    /\ task' = Idle
    /\ UNCHANGED <<authority, file, codex, up, row, status, pend, history>>

\* persist_codex_writeback_record: only beside the credential it belongs to.
Record(source, written) ==
    LET noted(entry) == IF entry.tok = row THEN [entry EXCEPT !.src = source] ELSE entry
    IN  /\ cfg' = noted(cfg)
        /\ disk' = IF written THEN noted(disk) ELSE disk

\* persist_codex_sync_state: after a retry.
RetryRecords(written) ==
    /\ up /\ task.at = "record"
    /\ IF row = task.was THEN Record(pend.src, written) ELSE Persist(row, written)
    /\ task' = Idle
    /\ UNCHANGED <<authority, file, codex, up, row, status, pend, history>>

\* A rejected refresh token: the row is dead and nothing is published any more.
Condemn(written) ==
    /\ up /\ task.at = "condemn"
    /\ status' = "error" /\ pend' = NoRecord
    /\ Record(None, written)
    /\ task' = Idle
    /\ UNCHANGED <<authority, file, codex, up, row, history>>

\* The process ends: memory is gone, what a start will read is on disk.
Ends ==
    /\ up' = FALSE /\ pend' = NoRecord /\ task' = Idle
    /\ row' = disk'.tok /\ cfg' = disk' /\ status' = "active"
    /\ lost' = (lost \/ \E pair \in {row, task.hand} \cap live : pair \notin {disk'.tok, auth})
    /\ moved' = FALSE
    /\ UNCHANGED <<authority, auth, torn, touches, codex, ours>>

Crash == up /\ disk' = disk /\ Ends

\* persist_now, whose write may fail too; a task still at work is cut off.
Shutdown == up /\ disk' = cfg /\ Ends

\* PendingCodexWriteback::from_config.
Boot ==
    /\ ~up /\ up' = TRUE
    /\ pend' = IF disk.src = None THEN NoRecord ELSE [src |-> disk.src, tok |-> disk.tok]
    /\ UNCHANGED <<authority, file, codex, row, status, cfg, disk, task, history>>

-----------------------------------------------------------------------------
(* Codex *)

\* Codex writes to the file while a writer of tcr is between its two looks.
Moves == moved' = (task.at \in {"compare", "rename"})

CodexAt(place, pair) == codex' = [at |-> place, tok |-> pair]

CodexReads ==
    /\ codex.at = "idle" /\ ~torn
    /\ CodexAt("post", auth)
    /\ UNCHANGED <<authority, file, memory, disk, task, history>>

CodexRefreshes ==
    /\ codex.at = "post" /\ codex.tok \in live
    /\ Mint({codex.tok}, codex.tok \in foreign)
    /\ CodexAt("write", minted + 1)
    /\ UNCHANGED <<file, memory, disk, task, history>>

CodexRejected ==
    /\ codex.at = "post" /\ codex.tok \notin live
    /\ CodexAt("idle", None)
    /\ UNCHANGED <<authority, file, memory, disk, task, history>>

\* A new sign-in, to the same workspace or to another one.
CodexSignsIn(alien) ==
    /\ codex.at = "idle"
    /\ Mint({}, alien)
    /\ CodexAt("write", minted + 1)
    /\ UNCHANGED <<file, memory, disk, task, history>>

CodexTruncates ==
    /\ codex.at = "write"
    /\ torn' = TRUE /\ Moves
    /\ CodexAt("finish", codex.tok)
    /\ UNCHANGED <<authority, auth, touches, memory, disk, task, history>>

CodexWrites ==
    /\ codex.at = "finish"
    /\ auth' = IF torn THEN codex.tok ELSE auth
    /\ IF torn THEN Moves ELSE UNCHANGED moved
    /\ torn' = FALSE
    /\ CodexAt("idle", None)
    /\ UNCHANGED <<authority, touches, memory, disk, task, history>>

\* Another field of the file is edited.
CodexTouches ==
    /\ codex.at = "idle" /\ ~torn /\ touches < MaxTouches
    /\ touches' = touches + 1 /\ Moves
    /\ UNCHANGED <<authority, auth, torn, codex, memory, disk, task, history>>

Codex ==
    \/ CodexReads \/ CodexRefreshes \/ CodexRejected
    \/ \E alien \in BOOLEAN : CodexSignsIn(alien)
    \/ CodexTruncates \/ CodexWrites \/ CodexTouches

-----------------------------------------------------------------------------
Refresh ==
    \/ \E fresh \in BOOLEAN : Consider(fresh) \/ Recheck(fresh) \/ AfterWriteback(fresh)
    \/ PostAccepted \/ PostRejected \/ PostFails \/ ReplyLost
    \/ ApplyRefresh

Writeback ==
    \/ WritebackReads \/ WritebackCompares \/ WritebackRenames \/ WritebackFails
    \/ \E fresh \in BOOLEAN : WritebackSettles(fresh)

Saving ==
    \E written \in BOOLEAN : PersistTokens(written) \/ RetryRecords(written) \/ Condemn(written)

Process == Crash \/ Shutdown \/ Boot

Next == RefreshStarts \/ RetryStarts \/ Refresh \/ Writeback \/ Saving \/ Process \/ Codex

Spec == Init /\ [][Next]_vars

\* A task runs on, Codex finishes a write it has begun, requests keep coming
\* (each of them first retries a due publication), and the file system lets a
\* rename through that is tried again and again.
Fairness ==
    /\ WF_vars(Refresh \/ Writeback \/ Saving)
    /\ WF_vars(CodexWrites)
    /\ WF_vars(Boot)
    /\ SF_vars(RetryStarts)
    /\ SF_vars(WritebackReads) /\ SF_vars(WritebackCompares) /\ SF_vars(WritebackRenames)

FairSpec == Spec /\ Fairness

-----------------------------------------------------------------------------
\* A publication replaces only the token tcr itself has spent: when the rename
\* comes, and Codex has not written since the comparison, auth.json holds no
\* working login.  (Codex's write in that last gap is the race the code names.)
ReplacesOnlySpent ==
    task.at = "rename" /\ ~moved => ~torn /\ auth \in ours /\ auth \notin live

\* A login of Codex that tcr has spent is not forgotten: its replacement is
\* pending, also after a restart, whatever writes failed, unless a pair was lost
\* before it reached any file.
SpentFileIsPending ==
    up /\ ~lost /\ ~torn /\ auth \in ours => pend.src = auth

\* tcr never takes from the file a pair of another workspace, nor, unless a pair
\* was lost, one it has itself spent (the leftover of a failed publication).
TakesOnlyFresh ==
    [][up' /\ row' # row => row' \notin foreign /\ (~lost => row' \notin ours)]_vars

\* A spent token is not left in Codex's hands: it is replaced, by tcr or by Codex,
\* unless a pair is lost.
SpentFileIsReplaced == (~torn /\ auth \in ours) ~> (torn \/ auth \notin ours \/ lost)
=============================================================================

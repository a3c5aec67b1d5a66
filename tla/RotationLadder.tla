--------------------------- MODULE RotationLadder ---------------------------
(***************************************************************************)
(* One client request walking the rotation ladder: the loop of             *)
(* proxy.rs `handle_request` and the state it keeps in proxy/ladder.rs     *)
(* (`Ladder`, `Tally`, `Step`).  The request is sent to one pooled account *)
(* after another until an upstream answer is forwarded, a peer carries or  *)
(* serves it, or the ladder has no move left and the tally decides what    *)
(* the client is told.                                                     *)
(*                                                                         *)
(* Other requests, the probe and the clock run meanwhile: they open and    *)
(* close the accounts' gates at any await of this request (`GateMoves`).   *)
(* Durations are abstracted: a hold is live or it is over.                 *)
(***************************************************************************)
EXTENDS Naturals, FiniteSets

CONSTANTS
    Accounts,          \* the fleet's account slots of this request's provider
    NoAccount,         \* the `None` of an account index
    TransportRetries,  \* MAX_SAME_ACCOUNT_TRANSPORT_RETRIES
    Retries429,        \* MAX_SAME_ACCOUNT_429
    Retries529,        \* MAX_SAME_ACCOUNT_529_RETRIES
    Failovers,         \* MAX_529_FAILOVERS_PER_REQUEST
    OfflineWaits,      \* MAX_OFFLINE_WAITS_PER_REQUEST
    Slack,             \* the constant term of max_attempts_for
    Requests,          \* the requests explored, each a record of RequestShapes
    InitGates,         \* the gates an account may start with
    Outcomes,          \* the upstream and transport outcomes explored
    EnvBound           \* bound on the gate changes made by others

(* What an account's gates say for THIS request:                           *)
(*   ok       selectable                                                   *)
(*   soft     over the soft switch threshold, which only the last-resort   *)
(*            serves ignore                                                *)
(*   hold     a rate-limit hold that clears while the cache is warm        *)
(*   refused  the hold a 403 armed                                         *)
(*   long     rejected upstream, or held past the life of the cache        *)
(*   out      disabled, or a dead login                                    *)
Gates == {"ok", "soft", "hold", "refused", "long", "out"}

AnswerKinds == {"refused", "blocked", "unread", "model", "other"}

Verdicts == {"offline503", "safe503", "bad502", "model", "unread502",
             "blocked403", "refused403", "refusedPool"}

Answers == Verdicts \cup {"forwarded", "carried", "carryLost", "pinned",
                          "warning", "borrowed", "exhausted"}

(* A request's own restrictions: the accounts a lease's account-set header *)
(* names, the members of its strict group, whether that group is strict,   *)
(* the operator's account lock, the account its history names, and whether *)
(* a fallback may be asked (a POST on a lendable path, not yet relayed).   *)
RequestShapes ==
    [provider : {"anthropic", "codex"}, scope : SUBSET Accounts,
     strict : BOOLEAN, members : SUBSET Accounts,
     lock : Accounts \cup {NoAccount}, history : Accounts \cup {NoAccount},
     lendable : BOOLEAN]

ASSUME FleetAssumption ==
    /\ IsFiniteSet(Accounts)
    /\ NoAccount \notin Accounts

ASSUME BudgetAssumption ==
    /\ TransportRetries \in Nat /\ Retries429 \in Nat /\ Retries529 \in Nat
    /\ Failovers \in Nat /\ OfflineWaits \in Nat /\ Slack \in Nat
    /\ EnvBound \in Nat

(* A group that is not strict restricts nothing here.                      *)
ASSUME RequestAssumption ==
    /\ Requests \subseteq RequestShapes
    /\ \A r \in Requests : ~r.strict => r.members = Accounts
    /\ InitGates \subseteq Gates

VARIABLES
    req,         \* the request, fixed when it arrives
    gate,        \* each account's gate for this request
    pc,          \* "start", "select", "send", "wait" or "done"
    idx,         \* the account of the attempt under way
    attempts,    \* iterations of the loop spent
    boundTo,     \* `bound_to`: the account held history keeps the request on
    tried,       \* Ladder.tried
    heldOut,     \* Ladder.benched_for_hold
    parked,      \* Ladder.parked_transient
    nextIdx,     \* Ladder.next_idx
    spent,       \* every other one-shot and counter of Ladder
    tally,       \* Tally
    answer,      \* what the client got
    gaveUp,      \* history: accounts this request gave up on
    fates,       \* history: what may have happened to the request upstream
    env          \* gate changes made by others so far

ladder == <<tried, heldOut, parked, nextIdx, spent>>
history == <<gaveUp, fates>>
vars == <<req, gate, pc, idx, attempts, boundTo, ladder, tally, answer,
          history, env>>

(***************************************************************************)
(* Budgets.                                                                *)
(***************************************************************************)
MaxSendsPerAccount == 2 + TransportRetries + Retries429 + Retries529

\* Mutant: the budget from before the same-account retries.
MaxAttemptsTwoSends == Cardinality(Accounts) * 2 + Slack + OfflineWaits

MaxAttempts == Cardinality(Accounts) * MaxSendsPerAccount + Slack + OfflineWaits

(***************************************************************************)
(* What the manager answers about an account.                              *)
(***************************************************************************)
HardOk(a) == gate[a] \in {"ok", "soft"}

BoundAccountHolds(a) == gate[a] \notin {"long", "out"}

(* select_with_group: an operator's lock answers before every gate; the    *)
(* picker's preference among the eligible accounts is left open.           *)
Selectable(benched) ==
    IF req.lock # NoAccount
    THEN {req.lock} \cap (req.members \ benched)
    ELSE {a \in req.members \ benched : gate[a] = "ok"}

(* select_revalidation: gated on no group, off or throttled at will.       *)
Revalidatable == {a \in Accounts \ tried : ~req.strict /\ HardOk(a)}

SelectBound == {a \in {boundTo} \cap (req.members \ tried) : HardOk(a)}

(* The accounts whose clocks size the soft wait.                           *)
WaitedFor == IF boundTo # NoAccount THEN {boundTo} ELSE req.members

(* A gate with a clear instant; a rejection has one on Codex alone.        *)
Timed == {"soft", "hold", "refused"} \cup (IF req.provider = "codex" THEN {"long"} ELSE {})

SoftWaitable == ~spent.softWait /\ \E a \in WaitedFor : gate[a] \in Timed

CodexPoolIsRefused ==
    LET pool == {a \in WaitedFor : gate[a] # "out" /\ req.lock \in {a, NoAccount}}
    IN  pool # {} /\ \A a \in pool : gate[a] = "refused"

(***************************************************************************)
(* Tally::verdict: the answer the tallies alone decide, "none" when the    *)
(* caller's own last resort is the honest one.                             *)
(***************************************************************************)
\* Mutant: one transport failure latches the verdict.
AnyAttemptTransportFailed == tally.failed

EveryAttemptTransportFailed == tally.failed /\ tally.answers = {}

BadGateway == IF tally.unknown THEN "bad502" ELSE "safe503"

Verdict ==
    IF EveryAttemptTransportFailed
      THEN IF tally.offline THEN "offline503" ELSE BadGateway
    ELSE IF "model" \in tally.answers THEN "model"
    ELSE IF tally.answers = {"unread"} THEN "unread502"
    ELSE IF "blocked" \in tally.answers /\ tally.answers \subseteq {"blocked", "refused"}
      THEN "blocked403"
    ELSE IF tally.answers = {"refused"} THEN "refused403"
    ELSE IF req.provider = "codex" /\ CodexPoolIsRefused THEN "refusedPool"
    ELSE "none"

(***************************************************************************)
(* The moves of the ladder, each a method of Ladder or an arm of the one   *)
(* match over Step.                                                        *)
(***************************************************************************)
Reply(a) ==
    /\ answer' = a
    /\ pc' = "done"
    /\ idx' = NoAccount

NextIteration == pc' = "select" /\ idx' = NoAccount

Bench(a) ==
    /\ tried' = tried \cup {a}
    /\ gaveUp' = gaveUp \cup {a}
    /\ NextIteration
    /\ UNCHANGED <<heldOut, parked, nextIdx>>

Park(a) ==
    /\ tried' = tried \cup {a}
    /\ parked' = parked \cup {a}
    /\ NextIteration
    /\ UNCHANGED <<heldOut, nextIdx, gaveUp>>

RetrySame(a) ==
    /\ nextIdx' = a
    /\ NextIteration
    /\ UNCHANGED <<tried, heldOut, parked, gaveUp>>

FailOver529(a, other) ==
    /\ tried' = tried \cup {a}
    /\ gaveUp' = gaveUp \cup {a}
    /\ nextIdx' = other
    /\ NextIteration
    /\ UNCHANGED <<heldOut, parked>>

\* Mutant: a release re-admits everything.
ReleaseEverything ==
    /\ tried' = {}
    /\ heldOut' = {}
    /\ UNCHANGED parked

ReleaseHold ==
    /\ tried' = tried \ heldOut
    /\ heldOut' = {}
    /\ UNCHANGED parked

\* Mutant: the soft wait re-admits every benched account with no live hold.
ReadmitUnheld(freed) ==
    /\ freed = {a \in parked : gate'[a] \in {"ok", "soft"}}
    /\ tried' = tried \ {a \in req.scope \ heldOut : gate'[a] \in {"ok", "soft"}}
    /\ parked' = parked \ freed

(* Exactly the parks whose hold is over; an account gated for longer since *)
(* may carry a hold of its own or none.                                    *)
ReadmitExpiredParks(freed) ==
    /\ {a \in parked : gate'[a] \in {"ok", "soft"}} \subseteq freed
    /\ freed \subseteq {a \in parked : gate'[a] \notin {"hold", "refused"}}
    /\ tried' = tried \ freed
    /\ parked' = parked \ freed

StayOnLadder == UNCHANGED <<tried, heldOut, parked, nextIdx, gaveUp>>

(***************************************************************************)
(* The top of the handler: the account-set scope benches what it does not  *)
(* name, and bound history holds the request to its account, warns the     *)
(* client once, or releases it.  Whether the session was already told is   *)
(* left open.                                                              *)
(***************************************************************************)
NothingSpent ==
    [forced401 |-> {}, r429 |-> [a \in Accounts |-> 0],
     r529 |-> [a \in Accounts |-> 0], transport |-> [a \in Accounts |-> 0],
     failovers |-> 0, peerEgress |-> FALSE, softWait |-> FALSE, offline |-> 0]

Init ==
    /\ req \in Requests
    /\ gate \in [Accounts -> InitGates]
    /\ pc = "start" /\ idx = NoAccount /\ attempts = 0 /\ boundTo = NoAccount
    /\ tried = Accounts \ req.scope /\ heldOut = {} /\ parked = {}
    /\ nextIdx = NoAccount
    /\ spent = NothingSpent
    /\ tally = [failed |-> FALSE, offline |-> FALSE, unknown |-> FALSE, answers |-> {}]
    /\ answer = "none" /\ gaveUp = {} /\ fates = {} /\ env = 0

StartFree ==
    /\ pc = "start" /\ req.history = NoAccount
    /\ pc' = "select"
    /\ UNCHANGED <<req, gate, idx, attempts, boundTo, ladder, tally, answer, history, env>>

StartHeld ==
    /\ pc = "start" /\ req.history # NoAccount /\ BoundAccountHolds(req.history)
    /\ boundTo' = req.history
    /\ heldOut' = (Accounts \ {req.history}) \ tried
    /\ tried' = tried \cup (Accounts \ {req.history})
    /\ pc' = "select"
    /\ UNCHANGED <<req, gate, idx, attempts, parked, nextIdx, spent, tally, answer, history, env>>

(* same_org_release: for a model whose thinking is org-bound, a sibling of *)
(* the account the history left, already selected; otherwise none.         *)
SameOrgRelease(bound, benched, sibling) ==
    sibling \in {NoAccount} \cup Selectable(benched \cup {bound})

StartReleased ==
    /\ pc = "start" /\ req.history # NoAccount
    /\ \E sibling \in Accounts \cup {NoAccount} :
          /\ SameOrgRelease(req.history, tried, sibling)
          /\ nextIdx' = sibling
    /\ pc' = "select"
    /\ UNCHANGED <<req, gate, idx, attempts, boundTo, tried, heldOut, parked, spent,
                   tally, answer, history, env>>

StartWarned ==
    /\ pc = "start" /\ req.history # NoAccount /\ ~BoundAccountHolds(req.history)
    /\ Reply("warning")
    /\ UNCHANGED <<req, gate, attempts, boundTo, ladder, tally, history, env>>

(***************************************************************************)
(* Choosing the account of the next attempt.                               *)
(***************************************************************************)
Looping == pc = "select" /\ attempts < MaxAttempts

Serve(a) ==
    /\ idx' = a
    /\ pc' = "send"
    /\ attempts' = attempts + 1
    /\ UNCHANGED <<req, gate, boundTo, tried, heldOut, parked, spent, tally, answer,
                   history, env>>

TakeNext ==
    /\ Looping /\ nextIdx # NoAccount
    /\ nextIdx' = NoAccount
    /\ Serve(nextIdx)

Select ==
    /\ Looping /\ nextIdx = NoAccount
    /\ \E a \in Selectable(tried) : Serve(a)
    /\ UNCHANGED nextIdx

NothingSelectable == Looping /\ nextIdx = NoAccount /\ Selectable(tried) = {}

AnswerVerdict ==
    /\ NothingSelectable /\ Verdict # "none"
    /\ Reply(Verdict)
    /\ UNCHANGED <<req, gate, attempts, boundTo, ladder, tally, history, env>>

SoftWait ==
    /\ NothingSelectable /\ Verdict = "none" /\ SoftWaitable
    /\ spent' = [spent EXCEPT !.softWait = TRUE]
    /\ pc' = "wait"
    /\ attempts' = attempts + 1
    /\ UNCHANGED <<req, gate, idx, boundTo, tried, heldOut, parked, nextIdx, tally,
                   answer, history, env>>

(* The sleep ends: some holds ran out during it.                           *)
Wake ==
    /\ pc = "wait"
    /\ \E over \in SUBSET {a \in Accounts : gate[a] \in {"hold", "refused"}} :
          gate' = [a \in Accounts |-> IF a \in over THEN "ok" ELSE gate[a]]
    /\ \E freed \in SUBSET parked : ReadmitExpiredParks(freed)
    /\ pc' = "select"
    /\ UNCHANGED <<req, idx, attempts, boundTo, heldOut, nextIdx, spent, tally, answer,
                   history, env>>

(* Past the soft wait: spent, or the soonest recovery is too far off.      *)
LastResort == NothingSelectable /\ Verdict = "none"

BoundWentOut ==
    LastResort /\ req.lock = NoAccount /\ boundTo # NoAccount /\ ~BoundAccountHolds(boundTo)

WarnMidRequest ==
    /\ BoundWentOut
    /\ Reply("warning")
    /\ UNCHANGED <<req, gate, attempts, boundTo, ladder, tally, history, env>>

ReleaseMidRequest ==
    /\ BoundWentOut
    /\ ReleaseHold
    /\ boundTo' = NoAccount
    /\ \E sibling \in Accounts \cup {NoAccount} :
          /\ SameOrgRelease(boundTo, tried', sibling)
          /\ nextIdx' = sibling
    /\ attempts' = attempts + 1
    /\ UNCHANGED <<req, gate, pc, idx, spent, tally, answer, history, env>>

ServeBound ==
    /\ LastResort /\ req.lock = NoAccount /\ boundTo # NoAccount /\ BoundAccountHolds(boundTo)
    /\ \E a \in SelectBound : Serve(a)
    /\ UNCHANGED nextIdx

Revalidate ==
    /\ LastResort /\ req.lock = NoAccount /\ boundTo = NoAccount
    /\ \E a \in Revalidatable : Serve(a)
    /\ UNCHANGED nextIdx

(* exhausted_or_fallback's own conditions on asking a peer.                *)
MayBorrow ==
    /\ req.provider = "anthropic" /\ req.lendable
    /\ ~req.strict /\ req.lock = NoAccount /\ boundTo = NoAccount

Exhausted ==
    /\ LastResort
    /\ req.lock = NoAccount /\ boundTo # NoAccount =>
          BoundAccountHolds(boundTo) /\ SelectBound = {}
    /\ \E a \in {"exhausted"} \cup (IF MayBorrow THEN {"borrowed"} ELSE {}) : Reply(a)
    /\ UNCHANGED <<req, gate, attempts, boundTo, ladder, tally, history, env>>

(* The loop fell out of its attempt budget.                                *)
BudgetSpent ==
    /\ pc = "select" /\ attempts = MaxAttempts
    /\ Reply(IF Verdict = "none" THEN "exhausted" ELSE Verdict)
    /\ UNCHANGED <<req, gate, attempts, boundTo, ladder, tally, history, env>>

(***************************************************************************)
(* The attempt on `idx`.                                                   *)
(***************************************************************************)
Attempting(outcome) == pc = "send" /\ outcome \in Outcomes

Steady == UNCHANGED <<req, attempts, boundTo, env>>

(* Dead after ensure_fresh, no access token, or no HTTP client.            *)
Unusable ==
    /\ Attempting("unusable")
    /\ gate' \in {gate, [gate EXCEPT ![idx] = "out"]}
    /\ Bench(idx)
    /\ Steady /\ UNCHANGED <<spent, tally, answer, fates>>

(* An account locked to a peer's exit: carried, or refused by name (a Codex *)
(* account always, when its lock is strict).                               *)
PinnedExit ==
    /\ Attempting("pinned")
    /\ Reply("pinned")
    /\ Steady /\ StayOnLadder /\ UNCHANGED <<gate, spent, tally, fates>>

\* Mutant: an attempt lost past the connect phase no longer forbids the carry.
CarryOfferedAnyway(kind) ==
    /\ ~spent.peerEgress
    /\ kind \in {"connect", "offline"} /\ tally.answers = {}
    /\ kind = "offline" \/ Cardinality(tried) + 1 >= Cardinality(Accounts)
    /\ req.provider = "anthropic"

(* The one offer of a blind peer carry: only while nothing left this box.  *)
CarryOffered(kind) ==
    /\ ~spent.peerEgress
    /\ ~tally.unknown /\ kind \in {"connect", "offline"} /\ tally.answers = {}
    /\ kind = "offline" \/ Cardinality(tried) + 1 >= Cardinality(Accounts)
    /\ req.provider = "anthropic"

Carry(kind) ==
    /\ Attempting(kind) /\ CarryOffered(kind)
    /\ spent' = [spent EXCEPT !.peerEgress = TRUE]
    /\ tally' = [tally EXCEPT !.failed = TRUE]
    /\ \E a \in {"carried", "carryLost"} : Reply(a)
    /\ Steady /\ StayOnLadder /\ UNCHANGED <<gate, fates>>

(* No peer took it: the budget of the offer is spent all the same.         *)
AfterCarry(kind) ==
    IF CarryOffered(kind) THEN [spent EXCEPT !.peerEgress = TRUE] ELSE spent

FailOffline ==
    /\ Attempting("offline")
    /\ tally' = [tally EXCEPT !.failed = TRUE, !.offline = TRUE]
    /\ IF spent.offline < OfflineWaits
       THEN /\ spent' = [AfterCarry("offline") EXCEPT !.offline = @ + 1]
            /\ RetrySame(idx)
            /\ UNCHANGED answer
       ELSE /\ spent' = AfterCarry("offline")
            /\ Reply("offline503")
            /\ StayOnLadder
    /\ Steady /\ UNCHANGED <<gate, fates>>

FailConnect ==
    /\ Attempting("connect")
    /\ tally' = [tally EXCEPT !.failed = TRUE]
    /\ spent' = AfterCarry("connect")
    /\ Bench(idx)
    /\ Steady /\ UNCHANGED <<gate, answer, fates>>

TransportRetryLeft(a) == spent.transport[a] < TransportRetries

FailMidflight ==
    /\ Attempting("midflight")
    /\ tally' = [tally EXCEPT !.failed = TRUE, !.unknown = TRUE]
    /\ fates' = fates \cup {"midflight"}
    /\ IF TransportRetryLeft(idx)
       THEN /\ spent' = [spent EXCEPT !.transport[idx] = @ + 1]
            /\ RetrySame(idx)
       ELSE Bench(idx) /\ UNCHANGED spent
    /\ Steady /\ UNCHANGED <<gate, answer>>

Answered(kind) ==
    /\ tally' = [tally EXCEPT !.answers = @ \cup {kind}]
    /\ fates' = fates \cup {"answered"}

(* Any answer but a 429 clears the account's hold and refreshes its quota; *)
(* one without quota headers leaves a rejection standing.                  *)
Refreshed(a) ==
    {[gate EXCEPT ![a] = g] :
        g \in IF gate[a] = "out" THEN {"out"} ELSE {"ok", "soft"} \cup ({gate[a]} \cap {"long"})}

(* The hold an answer arms; an account taken out meanwhile may stay out.   *)
Armed(a, g) ==
    {[gate EXCEPT ![a] = g]} \cup (IF gate[a] = "out" THEN {gate} ELSE {})

Answer401 ==
    /\ Attempting("401") /\ Answered("other")
    /\ \/ /\ gate' = [gate EXCEPT ![idx] = "out"]      \* no refresh token: mark_error
          /\ Bench(idx) /\ UNCHANGED spent
       \/ /\ idx \notin spent.forced401                \* the one forced refresh, landed
          /\ gate' \in Refreshed(idx)
          /\ spent' = [spent EXCEPT !.forced401 = @ \cup {idx}]
          /\ RetrySame(idx)
       \/ /\ gate' \in Refreshed(idx) \cup Armed(idx, "out")   \* it failed, or was spent
          /\ spent' = [spent EXCEPT !.forced401 = @ \cup {idx}]
          /\ Bench(idx)
    /\ Steady /\ UNCHANGED answer

Answer403 ==
    /\ Attempting("403")
    /\ \/ Answered("refused") /\ gate' \in Armed(idx, "refused")
       \/ /\ req.provider = "codex"
          /\ \/ Answered("blocked") /\ gate' \in Armed(idx, "refused")
             \/ Answered("unread") /\ gate' \in Armed(idx, "hold")
    /\ Bench(idx)
    /\ Steady /\ UNCHANGED <<spent, answer>>

(* A Codex 403 about neither the credential nor the account.               *)
Forward403 ==
    /\ Attempting("403") /\ req.provider = "codex" /\ Answered("other")
    /\ gate' \in Refreshed(idx)
    /\ Reply("forwarded")
    /\ Steady /\ StayOnLadder /\ UNCHANGED spent

QuotaRejected429 ==
    /\ Attempting("429") /\ Answered("other")
    /\ gate' \in Armed(idx, "long")
    /\ Bench(idx)
    /\ Steady /\ UNCHANGED <<spent, answer>>

Transient429 ==
    /\ Attempting("429") /\ Answered("other")
    /\ \/ /\ spent.r429[idx] < Retries429              \* a short retry-after: waited out
          /\ spent' = [spent EXCEPT !.r429[idx] = @ + 1]
          /\ RetrySame(idx) /\ UNCHANGED gate
       \/ /\ gate' \in Armed(idx, "hold")              \* a long one, none, or no wait left
          /\ Park(idx) /\ UNCHANGED spent
    /\ Steady /\ UNCHANGED answer

(* 429 about the request and not the account: forwarded, nothing parked.   *)
RequestScoped429 ==
    /\ Attempting("429") /\ req.provider = "anthropic" /\ Answered("other")
    /\ Reply("forwarded")
    /\ Steady /\ StayOnLadder /\ UNCHANGED <<gate, spent>>

Overloaded529 ==
    /\ Attempting("529") /\ Answered("other")
    /\ gate' \in Refreshed(idx)
    /\ LET others == Selectable(tried \cup {idx}) IN
       \/ /\ spent.r529[idx] < Retries529
          /\ spent' = [spent EXCEPT !.r529[idx] = @ + 1]
          /\ RetrySame(idx) /\ UNCHANGED answer
       \/ /\ spent.r529[idx] >= Retries529 /\ spent.failovers < Failovers
          /\ \E other \in others : FailOver529(idx, other)
          /\ spent' = [spent EXCEPT !.failovers = @ + 1]
          /\ UNCHANGED answer
       \/ /\ spent.r529[idx] >= Retries529
          /\ spent.failovers >= Failovers \/ others = {}
          /\ Reply("forwarded")
          /\ StayOnLadder /\ UNCHANGED spent
    /\ Steady

(* Codex refuses the model on this account's plan: benched for the request.*)
ModelRefused ==
    /\ Attempting("model") /\ req.provider = "codex" /\ Answered("model")
    /\ gate' \in Refreshed(idx)
    /\ Bench(idx)
    /\ Steady /\ UNCHANGED <<spent, answer>>

Forward ==
    /\ Attempting("served") /\ Answered("other")
    /\ gate' \in Refreshed(idx)
    /\ Reply("forwarded")
    /\ Steady /\ StayOnLadder /\ UNCHANGED spent

(***************************************************************************)
(* Everyone else: a hold runs out or is armed by another request, a probe  *)
(* reads quota, the operator disables or enables an account.               *)
(***************************************************************************)
GateMoves ==
    /\ env < EnvBound /\ pc # "done"
    /\ \E a \in Accounts, g \in Gates :
          g # gate[a] /\ gate' = [gate EXCEPT ![a] = g]
    /\ env' = env + 1
    /\ UNCHANGED <<req, pc, idx, attempts, boundTo, ladder, tally, answer, history>>

Done == pc = "done" /\ UNCHANGED vars

Begin == StartFree \/ StartHeld \/ StartReleased \/ StartWarned

Choose ==
    \/ TakeNext \/ Select \/ AnswerVerdict \/ SoftWait \/ Wake \/ WarnMidRequest
    \/ ReleaseMidRequest \/ ServeBound \/ Revalidate \/ Exhausted \/ BudgetSpent

TransportStep ==
    \/ Unusable \/ PinnedExit \/ FailOffline \/ FailConnect \/ FailMidflight
    \/ \E kind \in {"connect", "offline"} : Carry(kind)

AnswerStep ==
    \/ Answer401 \/ Answer403 \/ Forward403 \/ QuotaRejected429 \/ Transient429
    \/ RequestScoped429 \/ Overloaded529 \/ ModelRefused \/ Forward

Next == Begin \/ Choose \/ TransportStep \/ AnswerStep \/ GateMoves \/ Done

Spec == Init /\ [][Next]_vars

(***************************************************************************)
(* Properties.                                                             *)
(***************************************************************************)

SpentTypes ==
    [forced401 : SUBSET Accounts, r429 : [Accounts -> 0 .. Retries429],
     r529 : [Accounts -> 0 .. Retries529], transport : [Accounts -> 0 .. TransportRetries],
     failovers : 0 .. Failovers, peerEgress : BOOLEAN, softWait : BOOLEAN,
     offline : 0 .. OfflineWaits]

TallyTypes ==
    [failed : BOOLEAN, offline : BOOLEAN, unknown : BOOLEAN, answers : SUBSET AnswerKinds]

(* Every variable keeps its type; the counters keep to their budgets.      *)
TypeOK ==
    /\ req \in Requests
    /\ gate \in [Accounts -> Gates]
    /\ pc \in {"start", "select", "send", "wait", "done"}
    /\ idx \in Accounts \cup {NoAccount} /\ (pc = "send" => idx \in Accounts)
    /\ attempts \in 0 .. MaxAttempts
    /\ boundTo \in Accounts \cup {NoAccount}
    /\ nextIdx \in Accounts \cup {NoAccount}
    /\ tried \subseteq Accounts /\ heldOut \subseteq Accounts /\ parked \subseteq Accounts
    /\ spent \in SpentTypes
    /\ tally \in TallyTypes
    /\ answer \in Answers \cup {"none"}
    /\ gaveUp \subseteq Accounts
    /\ fates \subseteq {"midflight", "answered"}
    /\ env \in 0 .. EnvBound

(* What the lease's account set, the strict group and the lock allow.      *)
Permitted == {a \in req.scope \cap req.members : req.lock \in {a, NoAccount}}

(* Whatever rotation, failover, release, re-admission or last-resort serve *)
(* chose it, an attempt goes to an account the request's scope, strict     *)
(* group and lock all allow, and to the bound account alone while history  *)
(* holds the request; and a peer's credential serves it only when none of  *)
(* these restricts it.  (Clearing `tried` wholesale on a release once      *)
(* served a lease on an account outside it.)                               *)
OnlyPermitted ==
    /\ pc = "send" => idx \in Permitted /\ (boundTo # NoAccount => idx = boundTo)
    /\ answer = "borrowed" => req.members = Accounts /\ req.lock = NoAccount
                               /\ boundTo = NoAccount

(* An account this request rotated away from (a dead token, a refusal, a   *)
(* quota rejection, a spent retry budget, a 529 failover) is never sent    *)
(* the request again: the soft wait and the release re-admit only what a   *)
(* timer or the hold benched.                                              *)
NeverResentAfterGivingUp == pc = "send" => idx \notin gaveUp

(* A peer carries the request blindly only if no attempt of it can have    *)
(* reached an upstream, so such a carry is never the second copy of a      *)
(* POST.  The pinned exit, which sends by a Mac on purpose, is no part of  *)
(* this: it answers what that Mac answered.                                *)
CarryIsTheOnlyCopy == answer \in {"carried", "carryLost"} => fates = {}

(* "Upstream unreachable" is told only when no account of the walk got an  *)
(* answer, and "safe to retry" only when no attempt left this machine.     *)
UnreachableIsTrue ==
    /\ answer = "bad502" => "answered" \notin fates
    /\ answer = "safe503" => fates = {}

(* The attempt budget never ends a walk the ladders still permit: when it  *)
(* is used up, no account is named or selectable for a next attempt.       *)
NeverTruncated ==
    pc = "select" /\ attempts = MaxAttempts =>
        nextIdx = NoAccount /\ Selectable(tried) = {}
=============================================================================

----------------------------- MODULE LeaseLedger -----------------------------
(***************************************************************************)
(* The lender's half of peer lending: peer/lease.rs's Ledger behind its    *)
(* mutex, the SERVE handlers of peer/serve.rs that spend its leases, the   *)
(* CONTROL arms that grant one or report against one, the flusher, and a   *)
(* crash with the boot after it.  One window; fractions are counted in     *)
(* units of MIN_DEBIT.  An action is what happens under one hold of the    *)
(* ledger's lock.                                                          *)
(***************************************************************************)
EXTENDS Integers, Sequences, FiniteSets, FiniteSetsExt

CONSTANTS
    Peers,           \* the peers that may borrow here
    Leases,          \* the lease ids random_id may draw, each at most once
    Handlers,        \* SERVE streams being handled
    ReqIds,          \* request ids a borrower may send, or send again
    Scopes,          \* the scopes of the grants, AllScope among them
    AllScope,        \* LendScope::All
    Disjoint,        \* pairs of scopes known to share no account
    GrantOf,         \* peer -> its row of the peers file
    Rooms,           \* what the fleet may measure as lendable
    MaxRise,         \* the highest utilization rise of one request
    MaxHint,         \* the highest rise a borrower reports
    MaxReported,     \* bound of this model: reports per lease
    MaxLeasesPerPeer,\* MAX_LEASES_PER_PEER
    Capacity,        \* SERVED_CAPACITY
    PerLease,        \* SERVED_PER_LEASE_CAPACITY
    PairTTL,         \* SERVED_TTL_MS
    MaxTime,         \* bound of this model: the clock
    MaxLag,          \* how old the clock a handler read may be
    WritesCanFail,   \* whether save_leases may fail
    NoRoom           \* "not measured", Option::None

\* A row of the peers file: what is lent, how many requests at once, how long.
GrantRows ==
    [scope : Scopes, fraction : Nat \ {0}, max : Nat, ttl : Nat,
     mode : {"serve", "hand"}]

ASSUME LedgerAssumption ==
    /\ AllScope \in Scopes /\ Disjoint \subseteq Scopes \X Scopes
    /\ GrantOf \in [Peers -> GrantRows]
    /\ Rooms \subseteq Nat /\ NoRoom \notin Nat
    /\ MaxRise \in Nat \ {0} /\ MaxHint \in Nat /\ MaxReported \in Nat
    /\ MaxLeasesPerPeer \in Nat /\ MaxTime \in Nat /\ MaxLag \in Nat
    /\ Capacity \in Nat \ {0} /\ PerLease \in Nat \ {0} /\ PairTTL \in Nat
    /\ WritesCanFail \in BOOLEAN
    /\ IsFiniteSet(Handlers)

VARIABLES
    now,        \* the wall clock
    held,       \* the ids of Ledger::leases (grantees and scopes are pruned with it)
    minted,     \* the ids random_id has drawn
    terms,      \* lease -> grantee, scope, unit, max_inflight, expires_at_ms
    spent,      \* lease -> Lease::spent
    inflight,   \* Ledger::inflight, 0 for an absent key
    headroom,   \* Ledger::headroom: scope -> the last measurement, or NoRoom
    pairs,      \* Ledger::pairs: lease -> what it remembers, oldest first
    dirty,      \* Ledger::dirty
    pc,         \* handler -> "idle" or "entered" (it holds a slot)
    job,        \* handler -> the lease and the request id it is relaying
    disk,       \* the leases section of the state file
    failed,     \* history: the last write of it failed
    reported,   \* history: lease -> sum of the hints applied
    forgotten,  \* history: pairs of running relays that were dropped meanwhile
    paid,       \* history: pairs charged while another relay runs under them
    unpaid      \* history: a relay went free (see NoFreeRelay)

ledgerVars == <<held, minted, terms, spent, inflight>>
handlerVars == <<pc, job>>
diskVars == <<disk, dirty, failed>>
historyVars == <<reported, forgotten, paid, unpaid>>
vars == <<now, ledgerVars, headroom, pairs, handlerVars, diskVars, historyVars>>

NoTerms == [peer |-> NoRoom, scope |-> AllScope, unit |-> 0, max |-> 0, expires |-> 0]
NoJob == [lease |-> NoRoom, req |-> NoRoom]

\* A ledger restored from an absent file, before any peer asked.
Init ==
    /\ now = 0
    /\ held = {} /\ minted = {}
    /\ terms = [l \in Leases |-> NoTerms]
    /\ spent = [l \in Leases |-> 0] /\ inflight = [l \in Leases |-> 0]
    /\ headroom \in [Scopes -> Rooms \cup {NoRoom}]
    /\ \A s \in Scopes : (headroom[s] = NoRoom) = (s # AllScope)
    /\ pairs = [l \in Leases |-> <<>>]
    /\ pc = [h \in Handlers |-> "idle"] /\ job = [h \in Handlers |-> NoJob]
    /\ disk = [held |-> {}, spent |-> [l \in Leases |-> 0]]
    /\ dirty = FALSE /\ failed = FALSE
    /\ reported = [l \in Leases |-> 0] /\ forgotten = {} /\ paid = {} /\ unpaid = FALSE

-----------------------------------------------------------------------------
(***************************************************************************)
(* What the ledger computes.                                               *)
(***************************************************************************)

\* scopes_overlap: what is not known to be disjoint counts as shared.
ScopesOverlap(s, t) == <<s, t>> \notin Disjoint /\ <<t, s>> \notin Disjoint

\* headroom_for: the fleet's figure is a ceiling on a scope's own.
HeadroomFor(room, s) ==
    IF room[s] = NoRoom THEN room[AllScope]
    ELSE IF room[AllScope] = NoRoom \/ room[s] <= room[AllScope] THEN room[s]
    ELSE room[AllScope]

LiveAt(t) == {l \in held : terms[l].expires > t}

\* The units of a lease that are not spent; none when it is overdrawn.
Unspent(l) == {l} \X (spent[l] + 1..terms[l].unit)

\* committed_fraction: promised to live leases on shared accounts and not spent.
CommittedFraction(s, t) ==
    Cardinality(UNION {Unspent(l) : l \in {k \in LiveAt(t) : ScopesOverlap(s, terms[k].scope)}})

\* live_for
LiveFor(p, t) == {l \in LiveAt(t) : terms[l].peer = p}

\* note_scope_headroom, when the fleet could measure the scope at all.
Noted(s, measured) ==
    IF measured = NoRoom THEN headroom ELSE [headroom EXCEPT ![s] = measured]

\* Mutant: a spent lease still admits.
MayRelayOnASpentLease(l, t, room) ==
    /\ l \in held
    /\ terms[l].expires > t
    /\ LET guard == HeadroomFor(room, terms[l].scope)
       IN guard # NoRoom /\ guard > 0

\* may_relay, on the clock the handler read when its stream was opened.
MayRelay(l, t, room) ==
    /\ l \in held
    /\ terms[l].expires > t
    /\ spent[l] < terms[l].unit
    /\ LET guard == HeadroomFor(room, terms[l].scope)
       IN guard # NoRoom /\ guard > 0

(***************************************************************************)
(* admit_pair, one call.  Ages out, then makes room across leases, then    *)
(* looks for a repeat, then makes room in the lease, then records.         *)
(***************************************************************************)

\* The elements of seq at the places in keep, in their order.
Retained(seq, keep) ==
    [n \in 1..Cardinality(keep) |->
        seq[CHOOSE i \in keep : Cardinality({j \in keep : j <= i}) = n]]

Fresh(t) ==
    [l \in Leases |->
        Retained(pairs[l], {i \in DOMAIN pairs[l] : t - pairs[l][i].at < PairTTL})]

\* The places of the pairs a cache holds.
Places(cache) == UNION {{l} \X DOMAIN cache[l] : l \in DOMAIN cache}

CacheSize(cache) == Cardinality(Places(cache))

\* The leases whose oldest pair is oldest; the map's order breaks a tie.
Oldest(cache) ==
    {l \in DOMAIN cache :
        /\ cache[l] # <<>>
        /\ \A k \in DOMAIN cache : cache[k] # <<>> => Head(cache[l]).at <= Head(cache[k]).at}

\* The caches admit_pair may go on with.  One admission adds one pair, so one
\* pair is enough to give up.
Trimmed(cache) ==
    IF CacheSize(cache) < Capacity THEN {cache}
    ELSE {[cache EXCEPT ![l] = Tail(@)] : l \in Oldest(cache)}

Remembers(ids, r) == \E i \in DOMAIN ids : ids[i].req = r

\* Mutant: a lease's oldest pair goes only once the lease is over its bound.
RoomyLate(cache, l) ==
    [cache EXCEPT ![l] = IF Len(@) > PerLease THEN Tail(@) ELSE @]

\* The same for the lease's own pairs.
Roomy(cache, l) ==
    [cache EXCEPT ![l] = IF Len(@) >= PerLease THEN Tail(@) ELSE @]

\* Mutant: a pair is written down as charged when its relay starts.
RecordedAsCharged(cache, l, r, t, charged) ==
    [cache EXCEPT ![l] = Append(@, [req |-> r, at |-> t, charged |-> TRUE])]

Recorded(cache, l, r, t, charged) ==
    [cache EXCEPT ![l] = Append(@, [req |-> r, at |-> t, charged |-> charged])]

Known(cache) == UNION {{<<l, cache[l][i].req>> : i \in DOMAIN cache[l]} : l \in Leases}

\* The pairs of the relays in flight.
Running == {<<job[h].lease, job[h].req>> : h \in {g \in Handlers : pc[g] = "entered"}}

\* The history of the pairs that relays which go on running will not find again.
Forget(kept, running) ==
    forgotten' = (forgotten \cup (Known(pairs) \ Known(kept))) \cap running

-----------------------------------------------------------------------------
(***************************************************************************)
(* The state file.                                                         *)
(***************************************************************************)

\* persist: every row (each has a grantee), or a warning.  The caller lowers
\* dirty either way.
Persist(rows, figures) ==
    /\ \/ disk' = [held |-> rows, spent |-> figures] /\ failed' = FALSE
       \/ WritesCanFail /\ failed' = TRUE /\ UNCHANGED disk
    /\ dirty' = FALSE

\* Mutant: the flag is lowered before the rows are copied out and nothing is
\* written.
FlushForgets ==
    /\ dirty
    /\ dirty' = FALSE
    /\ UNCHANGED <<now, ledgerVars, headroom, pairs, handlerVars, disk, failed, historyVars>>

\* flush_ledger_periodically, every two seconds, and once more on the way out.
Flush ==
    /\ dirty
    /\ Persist(held, spent)
    /\ UNCHANGED <<now, ledgerVars, headroom, pairs, handlerVars, historyVars>>

-----------------------------------------------------------------------------
(***************************************************************************)
(* CONTROL: a lease is asked for, a spend is reported.                     *)
(***************************************************************************)

\* Mutant: the room other leases were promised is not deducted.
AmountIgnoresPromises(p, room, handable) ==
    LET g == GrantOf[p]
        guard == HeadroomFor(room, g.scope)
    IN  Min({g.fraction, IF guard = NoRoom THEN 0 ELSE guard}
                \cup (IF g.mode = "hand" THEN {handable} ELSE {}))

\* clamp_to_grant: the grant, cut down to what the owner has left to promise.
Amount(p, room, handable) ==
    LET g == GrantOf[p]
        guard == HeadroomFor(room, g.scope)
        left == (IF guard = NoRoom THEN 0 ELSE guard) - CommittedFraction(g.scope, now)
    IN  Min({g.fraction, left} \cup (IF g.mode = "hand" THEN {handable} ELSE {}))

\* Ledger::grant for an ask the peers file allows.  The measurement is noted
\* whether or not a lease comes of it.
GrantRefused(p, measured, handable) ==
    /\ Cardinality(LiveFor(p, now)) < MaxLeasesPerPeer
    /\ headroom' = Noted(GrantOf[p].scope, measured)
    /\ Amount(p, headroom', handable) < 1
    /\ UNCHANGED <<now, ledgerVars, pairs, handlerVars, diskVars, historyVars>>

\* record prunes the rows that ran out, and their slots with them; then the new
\* row, its grantee and its scope, and the write.
Grant(p, l, measured, handable) ==
    /\ Cardinality(LiveFor(p, now)) < MaxLeasesPerPeer
    /\ l \notin minted
    /\ headroom' = Noted(GrantOf[p].scope, measured)
    /\ \E amount \in 1..GrantOf[p].fraction :
          /\ amount = Amount(p, headroom', handable)
          /\ terms' = [terms EXCEPT ![l] =
                [peer |-> p, scope |-> GrantOf[p].scope, unit |-> amount,
                 max |-> GrantOf[p].max, expires |-> now + GrantOf[p].ttl]]
    /\ minted' = minted \cup {l}
    /\ held' = LiveAt(now) \cup {l}
    /\ inflight' = [k \in Leases |-> IF k \in LiveAt(now) THEN inflight[k] ELSE 0]
    /\ Persist(held', spent)
    /\ UNCHANGED <<now, spent, pairs, handlerVars, historyVars>>

\* The UsageHint arm: only the grantee reports, and only upwards.
UsageHint(l, hinted) ==
    /\ l \in held
    /\ reported[l] < MaxReported
    /\ spent' = [spent EXCEPT ![l] = @ + hinted]
    /\ reported' = [reported EXCEPT ![l] = @ + hinted]
    /\ dirty' = TRUE
    /\ UNCHANGED <<now, held, minted, terms, inflight, headroom, pairs, handlerVars,
                   disk, failed, forgotten, paid, unpaid>>

-----------------------------------------------------------------------------
(***************************************************************************)
(* SERVE: handle_serve_on.                                                 *)
(***************************************************************************)

\* The lease a request frame names, who sent it, and the clock its handler read
\* before it waited for the frame and for the lock.  Its request id is r below.
Frames ==
    [lease : minted, peer : Peers, at : {t \in now - MaxLag..now : t >= 0}]

\* The scope's room, measured outside the lock and noted inside it, if the
\* ledger knows the lease.
RelayRoom(f, measured) ==
    IF f.lease \in held THEN Noted(terms[f.lease].scope, measured) ELSE headroom

Allowed(f, room) ==
    /\ f.lease \in held /\ terms[f.lease].peer = f.peer
    /\ MayRelay(f.lease, f.at, room)

\* enter_relay, refused before the pair is looked at: not the grantee, or
\* may_relay says no.  The lending hours, asked first, refuse the same way.
EnterRefused(f, measured) ==
    /\ headroom' = RelayRoom(f, measured)
    /\ ~Allowed(f, headroom')
    /\ UNCHANGED <<now, ledgerVars, pairs, handlerVars, diskVars, historyVars>>

\* The pair is remembered: a replay.
EnterReplayed(f, r, measured) ==
    /\ headroom' = RelayRoom(f, measured)
    /\ Allowed(f, headroom')
    /\ pairs' \in Trimmed(Fresh(f.at))
    /\ Remembers(pairs'[f.lease], r)
    /\ Forget(pairs', Running)
    /\ UNCHANGED <<now, ledgerVars, handlerVars, diskVars, reported, paid, unpaid>>

\* Mutant: the cap lets one relay too many in.
HasSlotOffByOne(l) == inflight[l] <= terms[l].max

\* The cap is not reached.
HasSlot(l) == inflight[l] < terms[l].max

\* The pair is new and recorded.
Admit(f, r) ==
    \E cache \in Trimmed(Fresh(f.at)) :
        /\ ~Remembers(cache[f.lease], r)
        /\ LET kept == Roomy(cache, f.lease)
           IN pairs' = Recorded(kept, f.lease, r, f.at, FALSE) /\ Forget(kept, Running)

\* The cap refuses; the pair stays recorded.
EnterFull(f, r, measured) ==
    /\ headroom' = RelayRoom(f, measured)
    /\ Allowed(f, headroom')
    /\ Admit(f, r)
    /\ ~HasSlot(f.lease)
    /\ UNCHANGED <<now, ledgerVars, handlerVars, diskVars, reported, paid, unpaid>>

EnterRelay(h, f, r, measured) ==
    /\ pc[h] = "idle"
    /\ headroom' = RelayRoom(f, measured)
    /\ Allowed(f, headroom')
    /\ Admit(f, r)
    /\ HasSlot(f.lease)
    /\ pc' = [pc EXCEPT ![h] = "entered"]
    /\ job' = [job EXCEPT ![h] = [lease |-> f.lease, req |-> r]]
    /\ inflight' = [inflight EXCEPT ![f.lease] = @ + 1]
    /\ UNCHANGED <<now, held, minted, terms, spent, diskVars, reported, paid, unpaid>>

\* The handler is done with its stream.
Close(h) ==
    /\ pc' = [pc EXCEPT ![h] = "idle"]
    /\ job' = [job EXCEPT ![h] = NoJob]

\* Mutant: a refusal after the slot was taken forgets to give it back.
RelayAbortedLeaks(h) ==
    /\ pc[h] = "entered"
    /\ Close(h) /\ Forget(pairs, Running')
    /\ paid' = paid \cap Running'
    /\ UNCHANGED <<now, ledgerVars, headroom, pairs, diskVars, reported, unpaid>>

\* leave_relay: saturating, and a no-op once the row was pruned.
Left(l) == [inflight EXCEPT ![l] = IF @ > 0 THEN @ - 1 ELSE 0]

\* The slot's guard is dropped: a scope that cannot be held, a failed ack, a
\* body that is not the promised one, an upstream that did not answer, an
\* unwind.
RelayAborted(h) ==
    /\ pc[h] = "entered"
    /\ inflight' = Left(job[h].lease)
    /\ Close(h) /\ Forget(pairs, Running')
    /\ paid' = paid \cap Running'
    /\ UNCHANGED <<now, held, minted, terms, spent, headroom, pairs, diskVars, reported, unpaid>>

\* mark_charged: whether this call charges, the pairs it keeps and the cache it
\* leaves.
MarkCharged(l, r) ==
    IF Remembers(pairs[l], r)
    THEN LET i == CHOOSE i \in DOMAIN pairs[l] : pairs[l][i].req = r
         IN {[new |-> ~pairs[l][i].charged, kept |-> pairs,
              cache |-> [pairs EXCEPT ![l][i].charged = TRUE]]}
    ELSE {[new |-> TRUE, kept |-> Roomy(cache, l),
           cache |-> Recorded(Roomy(cache, l), l, r, now, TRUE)] : cache \in Trimmed(Fresh(now))}

\* The upstream answered: the slot back and the debit, under one lock.
Answered(h, rise) ==
    /\ pc[h] = "entered"
    /\ Close(h)
    /\ LET l == job[h].lease
           r == job[h].req
           charge == IF rise > 1 THEN rise ELSE 1
       IN  /\ inflight' = Left(l)
           /\ \E mark \in MarkCharged(l, r) :
                 /\ pairs' = mark.cache /\ Forget(mark.kept, Running')
                 /\ IF mark.new /\ l \in held
                    THEN /\ spent' = [spent EXCEPT ![l] = @ + charge]
                         /\ dirty' = TRUE
                         /\ paid' = (paid \cup {<<l, r>>}) \cap Running'
                    ELSE UNCHANGED <<spent, dirty>> /\ paid' = paid \cap Running'
                 /\ unpaid' = (unpaid \/ (/\ ~mark.new /\ l \in held
                                         /\ <<l, r>> \notin forgotten \cap paid))
    /\ UNCHANGED <<now, held, minted, terms, headroom, disk, failed, reported>>

-----------------------------------------------------------------------------
(***************************************************************************)
(* The clock, the headroom ticker, a crash.                                *)
(***************************************************************************)

NoteOwnerHeadroom(room) ==
    /\ headroom' = [headroom EXCEPT ![AllScope] = room]
    /\ UNCHANGED <<now, ledgerVars, pairs, handlerVars, diskVars, historyVars>>

Tick ==
    /\ now < MaxTime
    /\ now' = now + 1
    /\ UNCHANGED <<ledgerVars, headroom, pairs, handlerVars, diskVars, historyVars>>

\* The process dies and boots: restored_from drops what ran out meanwhile, the
\* headroom is noted before the first stream is accepted.
Restart(room) ==
    /\ held' = {l \in disk.held : terms[l].expires > now}
    /\ spent' = disk.spent
    /\ inflight' = [l \in Leases |-> 0]
    /\ headroom' = [s \in Scopes |-> IF s = AllScope THEN room ELSE NoRoom]
    /\ pairs' = [l \in Leases |-> <<>>]
    /\ pc' = [h \in Handlers |-> "idle"] /\ job' = [h \in Handlers |-> NoJob]
    /\ dirty' = FALSE /\ failed' = FALSE /\ forgotten' = {} /\ paid' = {}
    /\ UNCHANGED <<now, minted, terms, disk, reported, unpaid>>

Measured == Rooms \cup {NoRoom}

\* What the accounts could hand over, asked only for a hand-mode grant.
Handable(p) == IF GrantOf[p].mode = "hand" THEN Rooms ELSE {0}

Lending ==
    \E p \in Peers, measured \in Measured : \E handable \in Handable(p) :
        \/ GrantRefused(p, measured, handable)
        \/ \E l \in Leases : Grant(p, l, measured, handable)

Entering ==
    \E f \in Frames, measured \in Measured :
        \/ EnterRefused(f, measured)
        \/ \E r \in ReqIds :
              \/ EnterReplayed(f, r, measured) \/ EnterFull(f, r, measured)
              \/ \E h \in Handlers : EnterRelay(h, f, r, measured)

Leaving ==
    \E h \in Handlers :
        RelayAborted(h) \/ \E rise \in 0..MaxRise : Answered(h, rise)

Next ==
    \/ Lending \/ Entering \/ Leaving
    \/ \E l \in Leases, hinted \in 1..MaxHint : UsageHint(l, hinted)
    \/ \E room \in Rooms : NoteOwnerHeadroom(room) \/ Restart(room)
    \/ Flush \/ Tick

Spec == Init /\ [][Next]_vars

-----------------------------------------------------------------------------
(***************************************************************************)
(* Properties.                                                             *)
(***************************************************************************)

\* The types of everything but the memory of pairs.
LedgerTyped ==
    /\ now \in Nat
    /\ held \subseteq minted /\ minted \subseteq Leases
    /\ terms \in [Leases -> [peer : Peers \cup {NoRoom}, scope : Scopes, unit : Nat,
                             max : Nat, expires : Nat]]
    /\ spent \in [Leases -> Nat] /\ inflight \in [Leases -> Nat]
    /\ pc \in [Handlers -> {"idle", "entered"}]
    /\ job \in [Handlers -> [lease : Leases \cup {NoRoom}, req : ReqIds \cup {NoRoom}]]
    /\ disk \in [held : SUBSET minted, spent : [Leases -> Nat]]
    /\ dirty \in BOOLEAN /\ failed \in BOOLEAN
    /\ reported \in [Leases -> Nat]

\* Every variable holds a value of its type, and the pairs the ledger remembers
\* never outgrow SERVED_CAPACITY, nor those of a lease SERVED_PER_LEASE_CAPACITY.
TypeOK ==
    /\ LedgerTyped
    /\ headroom \in [Scopes -> Rooms \cup {NoRoom}]
    /\ pairs \in [Leases -> Seq([req : ReqIds, at : Nat, charged : BOOLEAN])]
    /\ CacheSize(pairs) <= Capacity /\ \A l \in Leases : Len(pairs[l]) <= PerLease
    /\ forgotten \subseteq Running /\ paid \subseteq Running /\ unpaid \in BOOLEAN

\* The handlers that hold a slot of lease l.
SlotHolders(l) == {h \in Handlers : pc[h] = "entered" /\ job[h].lease = l}

\* Every Ok of enter_relay is paired with exactly one leave_relay: the count of
\* a lease the ledger holds is the number of relays running under it, through
\* refusals, aborts, pruning and a restart.
SlotsConserved ==
    \A l \in held : inflight[l] = Cardinality(SlotHolders(l))

\* Every relay the upstream answered is charged to its lease while the ledger
\* holds it, however its borrower repeats the id, but for one case the code
\* leaves: the memory dropped the pair while the relay ran, the id came again and
\* ran beside it, and the other one has been charged.  So no id goes unpaid,
\* whatever was forgotten, and two relays are charged once only across a drop.
NoFreeRelay == ~unpaid

\* What a crash costs: with no charge waiting and no failed write behind it, a
\* boot reads back the rows and the figures the ledger has in memory.
CleanIsDurable ==
    (~dirty /\ ~failed) =>
        /\ {l \in disk.held : terms[l].expires > now} = LiveAt(now)
        /\ \A l \in LiveAt(now) : disk.spent[l] = spent[l]

\* The same room is not promised twice: a step that grants a lease leaves what
\* is promised on its accounts within the headroom it was cut from.
PromisesWithinRoom ==
    [][\A l \in minted' \ minted, s \in Scopes :
          s = terms'[l].scope => CommittedFraction(s, now)' <= HeadroomFor(headroom, s)']_vars

\* The leases that can be told from one never granted and one dropped.
Phase ==
    [l \in Leases |-> IF l \notin minted THEN "new" ELSE IF l \in held THEN "live" ELSE "over"]

\* The relays that really run, not the ones the ledger counts.
Budget ==
    INSTANCE LeaseBudget WITH
        MaxCharge <- MaxRise,
        phase     <- Phase,
        limit     <- [l \in Leases |-> terms[l].unit],
        cap       <- [l \in Leases |-> terms[l].max],
        running   <- [l \in Leases |-> Cardinality(SlotHolders(l))]

\* The ledger implements the budget: no relay starts on a spent lease, never
\* more than max_inflight run, whatever the interleaving of grants, relays,
\* reports, flushes and restarts.
ImplementsBudget == Budget!Spec

\* max_inflight bounds the overdraft of every lease.
OverdraftBounded == Budget!OverdraftBounded
=============================================================================

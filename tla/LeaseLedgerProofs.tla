-------------------------- MODULE LeaseLedgerProofs --------------------------
(***************************************************************************)
(* What LeaseLedger promises for any number of peers, leases, handlers and *)
(* request ids: slots are conserved, a crash costs at most the charges     *)
(* since the last write, and the ledger implements LeaseBudget, hence the  *)
(* bound on the overdraft.                                                 *)
(***************************************************************************)
EXTENDS LeaseLedger, FiniteSetTheorems, SequenceTheorems, TLAPS

\* A slot is held only under a lease that was granted.
JobsGranted == \A h \in Handlers : pc[h] = "entered" => job[h].lease \in minted

\* The file never says more than memory: no figure is ahead of it, and a row it
\* still has and memory dropped has run out.
DiskBehind ==
    /\ \A l \in Leases : disk.spent[l] <= spent[l]
    /\ \A l \in disk.held : terms[l].expires > now => l \in held

IndInv == LedgerTyped /\ JobsGranted /\ SlotsConserved /\ DiskBehind /\ CleanIsDurable

\* What no refusal, replay or measurement touches.
coreVars == <<now, ledgerVars, handlerVars, diskVars, reported>>

\* A step of the ledger, with the many ways to change nothing made one.
LEMMA StepCases ==
    ASSUME [Next]_vars
    PROVE  \/ UNCHANGED coreVars
           \/ Flush \/ Tick
           \/ \E p \in Peers, l \in Leases, measured \in Measured :
                 \E handable \in Handable(p) : Grant(p, l, measured, handable)
           \/ \E l \in Leases, hinted \in 1..MaxHint : UsageHint(l, hinted)
           \/ \E f \in Frames, measured \in Measured, r \in ReqIds, h \in Handlers :
                 EnterRelay(h, f, r, measured)
           \/ \E h \in Handlers : RelayAborted(h)
           \/ \E h \in Handlers, rise \in 0..MaxRise : Answered(h, rise)
           \/ \E room \in Rooms : Restart(room)
<1> USE DEF coreVars, vars, ledgerVars, handlerVars, diskVars, historyVars
<1>1. ASSUME NEW p \in Peers, NEW measured \in Measured, NEW handable \in Handable(p),
             GrantRefused(p, measured, handable)
      PROVE  UNCHANGED coreVars
  BY <1>1 DEF GrantRefused
<1>2. ASSUME NEW f \in Frames, NEW measured \in Measured, EnterRefused(f, measured)
      PROVE  UNCHANGED coreVars
  BY <1>2 DEF EnterRefused
<1>3. ASSUME NEW f \in Frames, NEW measured \in Measured, NEW r \in ReqIds,
             EnterReplayed(f, r, measured) \/ EnterFull(f, r, measured)
      PROVE  UNCHANGED coreVars
  BY <1>3 DEF EnterReplayed, EnterFull
<1>4. ASSUME NEW room \in Rooms, NoteOwnerHeadroom(room)
      PROVE  UNCHANGED coreVars
  BY <1>4 DEF NoteOwnerHeadroom
<1>5. CASE UNCHANGED vars
  BY <1>5
<1> HIDE DEF coreVars, vars, ledgerVars, handlerVars, diskVars, historyVars
<1> QED BY <1>1, <1>2, <1>3, <1>4, <1>5 DEF Next, Lending, Entering, Leaving

-----------------------------------------------------------------------------
(***************************************************************************)
(* Counting the relays.                                                    *)
(***************************************************************************)

\* The relays of a lease are finitely many.
LEMMA HoldersFinite ==
    ASSUME NEW l
    PROVE  IsFiniteSet(SlotHolders(l)) /\ Cardinality(SlotHolders(l)) \in Nat
<1>1. SlotHolders(l) \in SUBSET Handlers
  BY DEF SlotHolders
<1>2. IsFiniteSet(SlotHolders(l))
  BY <1>1, FS_Subset, LedgerAssumption
<1> QED BY <1>2, FS_CardinalityType

\* A handler that enters adds one relay to its lease and none to another.
LEMMA EnterCounts ==
    ASSUME LedgerTyped, NEW h \in Handlers, NEW l \in Leases, NEW r,
           pc[h] = "idle",
           pc' = [pc EXCEPT ![h] = "entered"],
           job' = [job EXCEPT ![h] = [lease |-> l, req |-> r]]
    PROVE  \A k \in Leases :
              Cardinality(SlotHolders(k)') =
                  Cardinality(SlotHolders(k)) + (IF k = l THEN 1 ELSE 0)
<1> SUFFICES ASSUME NEW k \in Leases
             PROVE  Cardinality(SlotHolders(k)') =
                        Cardinality(SlotHolders(k)) + (IF k = l THEN 1 ELSE 0)
  OBVIOUS
<1>1. h \notin SlotHolders(k)
  BY DEF SlotHolders
<1>2. CASE k = l
  <2>1. SlotHolders(k)' = SlotHolders(k) \cup {h}
    BY <1>2 DEF SlotHolders, LedgerTyped
  <2> QED BY <2>1, <1>1, <1>2, HoldersFinite, FS_AddElement
<1>3. CASE k # l
  <2>1. SlotHolders(k)' = SlotHolders(k)
    BY <1>3 DEF SlotHolders, LedgerTyped
  <2> QED BY <2>1, <1>3, HoldersFinite
<1> QED BY <1>2, <1>3

\* A handler that closes takes its own relay away and no other.
LEMMA CloseCounts ==
    ASSUME LedgerTyped, NEW h \in Handlers, pc[h] = "entered", Close(h)
    PROVE  /\ \A k \in Leases :
                 Cardinality(SlotHolders(k)') =
                     Cardinality(SlotHolders(k)) - (IF k = job[h].lease THEN 1 ELSE 0)
           /\ job[h].lease \in Leases => Cardinality(SlotHolders(job[h].lease)) > 0
<1>1. ASSUME NEW k \in Leases
      PROVE  Cardinality(SlotHolders(k)') =
                 Cardinality(SlotHolders(k)) - (IF k = job[h].lease THEN 1 ELSE 0)
  <2>1. SlotHolders(k)' = SlotHolders(k) \ {h}
    BY DEF SlotHolders, LedgerTyped, Close
  <2>2. h \in SlotHolders(k) <=> k = job[h].lease
    BY DEF SlotHolders
  <2>3. Cardinality(SlotHolders(k) \ {h}) =
            IF h \in SlotHolders(k) THEN Cardinality(SlotHolders(k)) - 1
            ELSE Cardinality(SlotHolders(k))
    BY HoldersFinite, FS_RemoveElement
  <2>4. Cardinality(SlotHolders(k)) \in Nat
    BY HoldersFinite
  <2> QED BY <2>1, <2>2, <2>3, <2>4
<1>2. job[h].lease \in Leases => Cardinality(SlotHolders(job[h].lease)) > 0
  <2>1. h \in SlotHolders(job[h].lease)
    BY DEF SlotHolders
  <2> QED BY <2>1, HoldersFinite, FS_EmptySet
<1> QED BY <1>1, <1>2

-----------------------------------------------------------------------------
(***************************************************************************)
(* The inductive invariant.                                                *)
(***************************************************************************)

\* A restored empty ledger satisfies it.
LEMMA InitInv == Init => IndInv
<1> SUFFICES ASSUME Init PROVE IndInv
  OBVIOUS
<1>1. LedgerTyped
  BY LedgerAssumption DEF Init, LedgerTyped, NoTerms, NoJob
<1>2. JobsGranted /\ SlotsConserved /\ DiskBehind /\ CleanIsDurable
  BY DEF Init, JobsGranted, SlotsConserved, DiskBehind, CleanIsDurable, LiveAt
<1> QED BY <1>1, <1>2 DEF IndInv

\* A step that touches no core variable keeps it.
LEMMA CoreUnchanged == IndInv /\ UNCHANGED coreVars => IndInv'
<1> SUFFICES ASSUME IndInv, UNCHANGED coreVars PROVE IndInv'
  OBVIOUS
<1> USE DEF coreVars, ledgerVars, handlerVars, diskVars, IndInv
<1>1. LedgerTyped'
  BY DEF LedgerTyped
<1>2. JobsGranted' /\ SlotsConserved'
  BY DEF JobsGranted, SlotsConserved, SlotHolders
<1>3. DiskBehind' /\ CleanIsDurable'
  BY DEF DiskBehind, CleanIsDurable, LiveAt
<1> QED BY <1>1, <1>2, <1>3

\* A write leaves the file as it was or equal to memory, and says which.
LEMMA FlushInv == IndInv /\ Flush => IndInv'
<1> SUFFICES ASSUME IndInv, Flush PROVE IndInv'
  OBVIOUS
<1> USE DEF IndInv, Flush, Persist, ledgerVars, handlerVars, historyVars
<1>1. LedgerTyped'
  <2>1. disk' \in [held : SUBSET minted, spent : [Leases -> Nat]]
    BY DEF LedgerTyped
  <2>2. dirty' \in BOOLEAN /\ failed' \in BOOLEAN
    BY Zenon
  <2>3. UNCHANGED <<now, held, minted, terms, spent, inflight, pc, job, reported>>
    OBVIOUS
  <2> HIDE DEF Flush, Persist
  <2> QED BY <2>1, <2>2, <2>3 DEF LedgerTyped
<1>2. JobsGranted' /\ SlotsConserved'
  BY DEF JobsGranted, SlotsConserved, SlotHolders
<1>3. DiskBehind' /\ CleanIsDurable'
  BY DEF DiskBehind, CleanIsDurable, LiveAt, LedgerTyped
<1> QED BY <1>1, <1>2, <1>3

\* Time only runs leases out, on both sides.
LEMMA TickInv == IndInv /\ Tick => IndInv'
<1> SUFFICES ASSUME IndInv, Tick PROVE IndInv'
  OBVIOUS
<1> USE DEF IndInv, Tick, ledgerVars, handlerVars, diskVars, historyVars
<1>1. LedgerTyped'
  BY DEF LedgerTyped
<1>2. JobsGranted' /\ SlotsConserved'
  BY DEF JobsGranted, SlotsConserved, SlotHolders
<1>3. \A l \in Leases : terms[l].expires > now + 1 => terms[l].expires > now
  BY DEF LedgerTyped
<1>4. DiskBehind' /\ CleanIsDurable'
  BY <1>3 DEF DiskBehind, CleanIsDurable, LiveAt, LedgerTyped
<1> QED BY <1>1, <1>2, <1>4

\* A grant prunes only rows that ran out, and their slots with them, and gives a
\* lease no relay was ever started for.
LEMMA GrantInv ==
    ASSUME IndInv, NEW p \in Peers, NEW l \in Leases, NEW measured, NEW handable,
           Grant(p, l, measured, handable)
    PROVE  IndInv'
<1> USE DEF IndInv, handlerVars, historyVars
<1>1. PICK amount \in 1..GrantOf[p].fraction :
         terms' = [terms EXCEPT ![l] =
                [peer |-> p, scope |-> GrantOf[p].scope, unit |-> amount,
                 max |-> GrantOf[p].max, expires |-> now + GrantOf[p].ttl]]
  BY DEF Grant
<1>2. GrantOf[p] \in GrantRows
  BY LedgerAssumption
<1>3. /\ l \notin minted /\ minted' = minted \cup {l}
      /\ held' = LiveAt(now) \cup {l}
      /\ inflight' = [k \in Leases |-> IF k \in LiveAt(now) THEN inflight[k] ELSE 0]
      /\ UNCHANGED <<now, spent, pc, job, reported>>
      /\ dirty' = FALSE
      /\ \/ disk' = [held |-> held', spent |-> spent] /\ failed' = FALSE
         \/ failed' = TRUE /\ disk' = disk
  BY DEF Grant, Persist
<1>4. LiveAt(now) \subseteq held /\ held \subseteq minted /\ minted \subseteq Leases
  BY DEF LiveAt, LedgerTyped
<1>5. LedgerTyped'
  <2>1. terms'[l] \in [peer : Peers \cup {NoRoom}, scope : Scopes, unit : Nat,
                       max : Nat, expires : Nat]
    <3>1. terms'[l] = [peer |-> p, scope |-> GrantOf[p].scope, unit |-> amount,
                       max |-> GrantOf[p].max, expires |-> now + GrantOf[p].ttl]
      BY <1>1 DEF LedgerTyped
    <3>2. now + GrantOf[p].ttl \in Nat /\ amount \in Nat
      BY <1>2 DEF GrantRows, LedgerTyped
    <3> QED BY <3>1, <3>2, <1>2 DEF GrantRows
  <2>2. terms' \in [Leases -> [peer : Peers \cup {NoRoom}, scope : Scopes, unit : Nat,
                       max : Nat, expires : Nat]]
    BY <2>1, <1>1 DEF LedgerTyped
  <2>3. inflight' \in [Leases -> Nat]
    BY <1>3 DEF LedgerTyped
  <2>4. disk' \in [held : SUBSET minted', spent : [Leases -> Nat]]
    BY <1>3, <1>4 DEF LedgerTyped
  <2> QED BY <2>2, <2>3, <2>4, <1>3, <1>4 DEF LedgerTyped
<1>6. JobsGranted'
  BY <1>3 DEF JobsGranted
<1>7. SlotsConserved'
  <2> SUFFICES ASSUME NEW k \in held' PROVE inflight'[k] = Cardinality(SlotHolders(k)')
    BY DEF SlotsConserved
  <2>1. SlotHolders(k)' = SlotHolders(k)
    BY <1>3 DEF SlotHolders
  <2>2. CASE k = l
    <3>1. SlotHolders(l) = {}
      BY <1>3 DEF JobsGranted, SlotHolders
    <3>2. inflight'[l] = 0
      BY <1>3, <1>4
    <3> QED BY <3>1, <3>2, <2>1, <2>2, FS_EmptySet
  <2>3. CASE k # l
    <3>1. k \in LiveAt(now)
      BY <2>3, <1>3
    <3>2. inflight'[k] = inflight[k] /\ k \in held
      BY <3>1, <1>3, <1>4
    <3> QED BY <3>2, <2>1 DEF SlotsConserved
  <2> QED BY <2>2, <2>3
<1>8. DiskBehind' /\ CleanIsDurable'
  <2>1. \A k \in Leases \ {l} : terms'[k] = terms[k]
    BY <1>1 DEF LedgerTyped
  <2>2. disk.held \subseteq minted /\ disk.held \subseteq Leases \ {l}
    BY <1>3, <1>4 DEF LedgerTyped
  <2>3. \A k \in disk.held : terms'[k].expires > now => k \in held'
    <3>1. \A k \in disk.held : terms[k].expires > now => k \in LiveAt(now)
      BY DEF DiskBehind, LiveAt
    <3> QED BY <3>1, <2>1, <2>2, <1>3
  <2>4. DiskBehind'
    BY <1>3, <2>3 DEF DiskBehind, LedgerTyped
  <2>5. CleanIsDurable'
    BY <1>3 DEF CleanIsDurable, LiveAt
  <2> QED BY <2>4, <2>5
<1> QED BY <1>5, <1>6, <1>7, <1>8

\* A report raises the spend of a row and says so.
LEMMA UsageHintInv ==
    ASSUME IndInv, NEW l \in Leases, NEW hinted \in 1..MaxHint, UsageHint(l, hinted)
    PROVE  IndInv'
<1> USE DEF IndInv, UsageHint, handlerVars
<1>1. LedgerTyped'
  BY LedgerAssumption DEF LedgerTyped
<1>2. JobsGranted' /\ SlotsConserved'
  BY DEF JobsGranted, SlotsConserved, SlotHolders
<1>3. \A k \in Leases : spent[k] <= spent'[k]
  BY LedgerAssumption DEF LedgerTyped
<1>4. DiskBehind'
  BY <1>1, <1>3 DEF DiskBehind, LedgerTyped
<1>5. CleanIsDurable'
  BY DEF CleanIsDurable
<1> QED BY <1>1, <1>2, <1>4, <1>5

\* An admission takes one slot and starts one relay.
LEMMA EnterRelayInv ==
    ASSUME IndInv, NEW f \in Frames, NEW measured, NEW r \in ReqIds, NEW h \in Handlers,
           EnterRelay(h, f, r, measured)
    PROVE  IndInv'
<1> USE DEF IndInv, diskVars
<1>1. /\ f.lease \in minted /\ f.lease \in Leases
      /\ pc[h] = "idle"
      /\ pc' = [pc EXCEPT ![h] = "entered"]
      /\ job' = [job EXCEPT ![h] = [lease |-> f.lease, req |-> r]]
      /\ inflight' = [inflight EXCEPT ![f.lease] = @ + 1]
      /\ UNCHANGED <<now, held, minted, terms, spent, disk, dirty, failed, reported>>
  BY DEF EnterRelay, Frames, LedgerTyped
<1>2. LedgerTyped'
  BY <1>1 DEF LedgerTyped
<1>3. JobsGranted'
  BY <1>1 DEF JobsGranted, LedgerTyped
<1>4. SlotsConserved'
  <2>1. \A k \in Leases : Cardinality(SlotHolders(k)') =
                  Cardinality(SlotHolders(k)) + (IF k = f.lease THEN 1 ELSE 0)
    BY <1>1, EnterCounts
  <2> SUFFICES ASSUME NEW k \in held PROVE inflight'[k] = Cardinality(SlotHolders(k)')
    BY <1>1 DEF SlotsConserved
  <2>2. inflight'[k] = inflight[k] + (IF k = f.lease THEN 1 ELSE 0)
    BY <1>1 DEF LedgerTyped
  <2>3. k \in Leases /\ inflight[k] = Cardinality(SlotHolders(k))
    BY DEF SlotsConserved, LedgerTyped
  <2> QED BY <2>1, <2>2, <2>3
<1>5. DiskBehind' /\ CleanIsDurable'
  BY <1>1 DEF DiskBehind, CleanIsDurable, LiveAt
<1> QED BY <1>2, <1>3, <1>4, <1>5

\* The slot given back is the one the relay held: a handler that leaves keeps
\* the counts of every row right.
LEMMA LeftCounts ==
    ASSUME IndInv, NEW h \in Handlers, pc[h] = "entered", Close(h),
           inflight' = Left(job[h].lease), UNCHANGED <<held, minted>>
    PROVE  /\ SlotsConserved' /\ JobsGranted'
           /\ inflight' \in [Leases -> Nat]
           /\ pc' \in [Handlers -> {"idle", "entered"}]
           /\ job' \in [Handlers -> [lease : Leases \cup {NoRoom}, req : ReqIds \cup {NoRoom}]]
<1> USE DEF IndInv
<1>1. job[h].lease \in Leases
  BY DEF JobsGranted, LedgerTyped
<1>2. inflight' \in [Leases -> Nat]
  BY <1>1 DEF Left, LedgerTyped
<1>3. JobsGranted'
  BY DEF JobsGranted, Close, LedgerTyped
<1>4. SlotsConserved'
  <2> SUFFICES ASSUME NEW k \in held PROVE inflight'[k] = Cardinality(SlotHolders(k)')
    BY DEF SlotsConserved
  <2>1. k \in Leases /\ inflight[k] = Cardinality(SlotHolders(k)) /\ inflight[k] \in Nat
    BY DEF SlotsConserved, LedgerTyped
  <2>2. Cardinality(SlotHolders(k)') =
            Cardinality(SlotHolders(k)) - (IF k = job[h].lease THEN 1 ELSE 0)
    BY <2>1, CloseCounts
  <2>3. k = job[h].lease => inflight[k] > 0
    BY <1>1, <2>1, CloseCounts
  <2>4. inflight'[k] = inflight[k] - (IF k = job[h].lease THEN 1 ELSE 0)
    BY <2>1, <2>3, <1>1 DEF Left, LedgerTyped
  <2> QED BY <2>1, <2>2, <2>4
<1>5. /\ pc' \in [Handlers -> {"idle", "entered"}]
      /\ job' \in [Handlers -> [lease : Leases \cup {NoRoom}, req : ReqIds \cup {NoRoom}]]
  BY DEF Close, NoJob, LedgerTyped
<1> QED BY <1>2, <1>3, <1>4, <1>5

\* The guard of the slot gives it back and charges nothing.
LEMMA RelayAbortedInv ==
    ASSUME IndInv, NEW h \in Handlers, RelayAborted(h)
    PROVE  IndInv'
<1> USE DEF IndInv, diskVars, historyVars
<1>1. /\ pc[h] = "entered" /\ Close(h) /\ inflight' = Left(job[h].lease)
      /\ UNCHANGED <<now, held, minted, terms, spent, disk, dirty, failed, reported>>
  BY DEF RelayAborted
<1>2. /\ SlotsConserved' /\ JobsGranted'
      /\ inflight' \in [Leases -> Nat]
      /\ pc' \in [Handlers -> {"idle", "entered"}]
      /\ job' \in [Handlers -> [lease : Leases \cup {NoRoom}, req : ReqIds \cup {NoRoom}]]
  BY <1>1, LeftCounts
<1>3. LedgerTyped'
  BY <1>1, <1>2 DEF LedgerTyped
<1>4. DiskBehind' /\ CleanIsDurable'
  BY <1>1 DEF DiskBehind, CleanIsDurable, LiveAt
<1> QED BY <1>2, <1>3, <1>4

\* What an answered relay does to the figures: one row may rise, by no more than
\* one request can cost, and only a row the ledger holds.
LEMMA AnsweredCharges ==
    ASSUME IndInv, NEW h \in Handlers, NEW rise \in 0..MaxRise, Answered(h, rise)
    PROVE  /\ pc[h] = "entered" /\ Close(h) /\ inflight' = Left(job[h].lease)
           /\ UNCHANGED <<now, held, minted, terms, disk, failed, reported>>
           /\ job[h].lease \in Leases
           /\ \E c \in 0..MaxRise :
                 /\ job[h].lease \notin held => c = 0
                 /\ spent' = [spent EXCEPT ![job[h].lease] = @ + c]
                 /\ (c = 0 /\ spent' = spent /\ dirty' = dirty) \/ dirty' = TRUE
<1> USE DEF IndInv
<1> DEFINE l == job[h].lease
<1>1. /\ pc[h] = "entered" /\ Close(h) /\ inflight' = Left(l)
      /\ UNCHANGED <<now, held, minted, terms, disk, failed, reported>>
  BY DEF Answered
<1>2. l \in Leases
  BY <1>1 DEF JobsGranted, LedgerTyped
<1>3. \/ /\ l \in held /\ dirty' = TRUE
         /\ spent' = [spent EXCEPT ![l] = @ + (IF rise > 1 THEN rise ELSE 1)]
      \/ UNCHANGED <<spent, dirty>>
  BY Zenon DEF Answered
<1>4. \E c \in 0..MaxRise :
         /\ l \notin held => c = 0
         /\ spent' = [spent EXCEPT ![l] = @ + c]
         /\ (c = 0 /\ spent' = spent /\ dirty' = dirty) \/ dirty' = TRUE
  <2>1. CASE /\ l \in held /\ dirty' = TRUE
             /\ spent' = [spent EXCEPT ![l] = @ + (IF rise > 1 THEN rise ELSE 1)]
    <3>1. (IF rise > 1 THEN rise ELSE 1) \in 0..MaxRise
      BY LedgerAssumption
    <3> QED BY <2>1, <3>1
  <2>2. CASE UNCHANGED <<spent, dirty>>
    <3>1. 0 \in 0..MaxRise
      BY LedgerAssumption
    <3>2. spent' = [spent EXCEPT ![l] = @ + 0]
      BY <2>2, <1>2 DEF LedgerTyped
    <3> QED BY <2>2, <3>1, <3>2
  <2> QED BY <1>3, <2>1, <2>2
<1> QED BY <1>1, <1>2, <1>4

\* An answer gives the slot back and may raise the spend of its row.
LEMMA AnsweredInv ==
    ASSUME IndInv, NEW h \in Handlers, NEW rise \in 0..MaxRise, Answered(h, rise)
    PROVE  IndInv'
<1> USE DEF IndInv
<1>1. /\ pc[h] = "entered" /\ Close(h) /\ inflight' = Left(job[h].lease)
      /\ UNCHANGED <<now, held, minted, terms, disk, failed, reported>>
      /\ job[h].lease \in Leases
  BY AnsweredCharges
<1>2. PICK c \in 0..MaxRise :
         /\ spent' = [spent EXCEPT ![job[h].lease] = @ + c]
         /\ (c = 0 /\ spent' = spent /\ dirty' = dirty) \/ dirty' = TRUE
  BY AnsweredCharges
<1>3. /\ SlotsConserved' /\ JobsGranted'
      /\ inflight' \in [Leases -> Nat]
      /\ pc' \in [Handlers -> {"idle", "entered"}]
      /\ job' \in [Handlers -> [lease : Leases \cup {NoRoom}, req : ReqIds \cup {NoRoom}]]
  BY <1>1, LeftCounts
<1>4. spent' \in [Leases -> Nat] /\ \A k \in Leases : spent[k] <= spent'[k]
  BY <1>1, <1>2, LedgerAssumption DEF LedgerTyped
<1>5. dirty' \in BOOLEAN
  BY <1>2 DEF LedgerTyped
<1>6. LedgerTyped'
  BY <1>1, <1>3, <1>4, <1>5 DEF LedgerTyped
<1>7. DiskBehind'
  BY <1>1, <1>4 DEF DiskBehind, LedgerTyped
<1>8. CleanIsDurable'
  BY <1>1, <1>2 DEF CleanIsDurable, LiveAt
<1> QED BY <1>3, <1>6, <1>7, <1>8

\* A boot takes the rows and the figures of the file, and no relay survives it.
LEMMA RestartInv ==
    ASSUME IndInv, NEW room, Restart(room)
    PROVE  IndInv'
<1> USE DEF IndInv
<1>1. /\ held' = {l \in disk.held : terms[l].expires > now}
      /\ spent' = disk.spent
      /\ inflight' = [l \in Leases |-> 0]
      /\ pc' = [h \in Handlers |-> "idle"] /\ job' = [h \in Handlers |-> NoJob]
      /\ dirty' = FALSE /\ failed' = FALSE
      /\ UNCHANGED <<now, minted, terms, disk, reported>>
  BY DEF Restart
<1>2. LedgerTyped'
  BY <1>1 DEF LedgerTyped, NoJob
<1>3. JobsGranted'
  BY <1>1 DEF JobsGranted
<1>4. SlotsConserved'
  <2>1. \A l : SlotHolders(l)' = {}
    BY <1>1 DEF SlotHolders
  <2>2. \A l \in held' : inflight'[l] = 0
    BY <1>1 DEF LedgerTyped
  <2> QED BY <2>1, <2>2, FS_EmptySet DEF SlotsConserved
<1>5. DiskBehind' /\ CleanIsDurable'
  BY <1>1 DEF DiskBehind, CleanIsDurable, LiveAt, LedgerTyped
<1> QED BY <1>2, <1>3, <1>4, <1>5

\* The invariant holds in every reachable state.
THEOREM LedgerInvariant == Spec => []IndInv
<1>1. IndInv /\ [Next]_vars => IndInv'
  BY StepCases, CoreUnchanged, FlushInv, TickInv, GrantInv, UsageHintInv, EnterRelayInv,
     RelayAbortedInv, AnsweredInv, RestartInv
<1> QED BY InitInv, <1>1, PTL DEF Spec

\* Every admission is paired with one release: a lease's count is the number of
\* relays that run under it, for any number of them.
THEOREM SlotsAreConserved == Spec => []SlotsConserved
<1>1. IndInv => SlotsConserved
  BY DEF IndInv
<1> QED BY LedgerInvariant, <1>1, PTL

\* With no charge waiting and no failed write behind it, a boot reads back what
\* the ledger has in memory.
THEOREM CleanLedgerIsDurable == Spec => []CleanIsDurable
<1>1. IndInv => CleanIsDurable
  BY DEF IndInv
<1> QED BY LedgerInvariant, <1>1, PTL

-----------------------------------------------------------------------------
(***************************************************************************)
(* The ledger implements the budget.                                       *)
(***************************************************************************)

\* A ledger with no lease is a budget with none.
LEMMA InitRefines == Init => Budget!Init
<1> SUFFICES ASSUME Init PROVE Budget!Init
  OBVIOUS
<1>1. Phase = [l \in Leases |-> "new"]
  BY DEF Init, Phase
<1>2. \A l \in Leases : terms[l].unit = 0 /\ terms[l].max = 0
  BY DEF Init, NoTerms
<1>3. \A l \in Leases : Cardinality(SlotHolders(l)) = 0
  <2>1. \A l : SlotHolders(l) = {}
    BY DEF Init, SlotHolders
  <2> QED BY <2>1, FS_EmptySet
<1> QED BY <1>1, <1>2, <1>3 DEF Init, Budget!Init

\* What the mapping reads.
LEMMA StutterRefines ==
    ASSUME UNCHANGED <<held, minted, terms, spent, reported, pc, job>>
    PROVE  UNCHANGED Budget!vars
BY DEF Budget!vars, Phase, SlotHolders

\* A grant issues its lease and ends those it prunes.
LEMMA GrantRefines ==
    ASSUME IndInv, NEW p \in Peers, NEW l \in Leases, NEW measured, NEW handable,
           Grant(p, l, measured, handable)
    PROVE  Budget!Issue(l)
<1> USE DEF IndInv, handlerVars, historyVars
<1>1. PICK amount \in 1..GrantOf[p].fraction :
         terms' = [terms EXCEPT ![l] =
                [peer |-> p, scope |-> GrantOf[p].scope, unit |-> amount,
                 max |-> GrantOf[p].max, expires |-> now + GrantOf[p].ttl]]
  BY DEF Grant
<1>2. GrantOf[p] \in GrantRows
  BY LedgerAssumption
<1>3. /\ l \notin minted /\ minted' = minted \cup {l}
      /\ held' = LiveAt(now) \cup {l} /\ LiveAt(now) \subseteq held
      /\ UNCHANGED <<spent, reported, pc, job>>
  BY DEF Grant, LiveAt
<1>4. Phase[l] = "new" /\ Phase'[l] = "live"
  BY <1>3 DEF Phase
<1>5. Phase' \in [Leases -> {"new", "live", "over"}]
  BY DEF Phase
<1>6. \A k \in Leases \ {l} :
         Phase'[k] # Phase[k] => Phase[k] = "live" /\ Phase'[k] = "over"
  BY <1>3 DEF Phase, LedgerTyped
<1>7. /\ \A k \in Leases \ {l} : terms'[k] = terms[k]
      /\ terms'[l].unit = amount /\ terms'[l].max = GrantOf[p].max
  BY <1>1 DEF LedgerTyped
<1>8. amount \in Nat \ {0} /\ GrantOf[p].max \in Nat
  BY <1>2 DEF GrantRows
<1>9. [k \in Leases |-> Cardinality(SlotHolders(k))]' = [k \in Leases |-> Cardinality(SlotHolders(k))]
  BY <1>3 DEF SlotHolders
<1> QED BY <1>3, <1>4, <1>5, <1>6, <1>7, <1>8, <1>9 DEF Budget!Issue

\* A report is a report.
LEMMA UsageHintRefines ==
    ASSUME IndInv, NEW l \in Leases, NEW hinted \in 1..MaxHint, UsageHint(l, hinted)
    PROVE  Budget!Report(l)
<1> USE DEF IndInv, UsageHint, handlerVars
<1>1. Phase[l] = "live"
  BY DEF Phase, LedgerTyped
<1>2. UNCHANGED <<Phase, [k \in Leases |-> terms[k].unit], [k \in Leases |-> terms[k].max],
                  [k \in Leases |-> Cardinality(SlotHolders(k))]>>
  BY DEF Phase, SlotHolders
<1>3. /\ spent'[l] = spent[l] + hinted /\ spent'[l] \in Nat /\ spent'[l] >= spent[l]
      /\ spent'[l] - spent[l] = hinted
  BY LedgerAssumption DEF LedgerTyped
<1>4. spent' = [spent EXCEPT ![l] = spent'[l]]
  BY <1>3
<1>5. reported' = [reported EXCEPT ![l] = @ + (spent'[l] - spent[l])]
  BY <1>3
<1> QED BY <1>1, <1>2, <1>3, <1>4, <1>5 DEF Budget!Report

\* An admission begins a relay: may_relay saw budget left, and the count the cap
\* is compared with is the number of relays that run.
LEMMA EnterRelayRefines ==
    ASSUME IndInv, NEW f \in Frames, NEW measured, NEW r \in ReqIds, NEW h \in Handlers,
           EnterRelay(h, f, r, measured)
    PROVE  Budget!Begin(f.lease)
<1> USE DEF IndInv
<1>1. /\ f.lease \in Leases /\ f.lease \in held
      /\ pc[h] = "idle"
      /\ pc' = [pc EXCEPT ![h] = "entered"]
      /\ job' = [job EXCEPT ![h] = [lease |-> f.lease, req |-> r]]
      /\ spent[f.lease] < terms[f.lease].unit
      /\ inflight[f.lease] < terms[f.lease].max
      /\ UNCHANGED <<held, minted, terms, spent, reported>>
  BY DEF EnterRelay, Allowed, MayRelay, HasSlot, LedgerTyped
<1>2. Phase[f.lease] = "live" /\ Phase' = Phase
  BY <1>1 DEF Phase, LedgerTyped
<1>3. inflight[f.lease] = Cardinality(SlotHolders(f.lease))
  BY <1>1 DEF SlotsConserved
<1>4. \A k \in Leases : Cardinality(SlotHolders(k)') =
                  Cardinality(SlotHolders(k)) + (IF k = f.lease THEN 1 ELSE 0)
  BY <1>1, EnterCounts
<1>5. \A k \in Leases : Cardinality(SlotHolders(k)) \in Nat
  BY HoldersFinite
<1>6. [k \in Leases |-> Cardinality(SlotHolders(k))]' =
          [[k \in Leases |-> Cardinality(SlotHolders(k))] EXCEPT ![f.lease] = @ + 1]
  BY <1>1, <1>4, <1>5
<1> QED BY <1>1, <1>2, <1>3, <1>6 DEF Budget!Begin

\* A relay that closes leaves one fewer running.
LEMMA CloseRefines ==
    ASSUME IndInv, NEW h \in Handlers, pc[h] = "entered", Close(h)
    PROVE  /\ job[h].lease \in Leases
           /\ Cardinality(SlotHolders(job[h].lease)) > 0
           /\ [k \in Leases |-> Cardinality(SlotHolders(k))]' =
                 [[k \in Leases |-> Cardinality(SlotHolders(k))] EXCEPT ![job[h].lease] = @ - 1]
<1> USE DEF IndInv
<1>1. job[h].lease \in Leases
  BY DEF JobsGranted, LedgerTyped
<1>2. \A k \in Leases : Cardinality(SlotHolders(k)) \in Nat
  BY HoldersFinite
<1>3. /\ \A k \in Leases :
            Cardinality(SlotHolders(k)') =
                Cardinality(SlotHolders(k)) - (IF k = job[h].lease THEN 1 ELSE 0)
      /\ Cardinality(SlotHolders(job[h].lease)) > 0
  BY <1>1, CloseCounts
<1> QED BY <1>1, <1>2, <1>3

\* A dropped guard settles a relay for nothing.
LEMMA RelayAbortedRefines ==
    ASSUME IndInv, NEW h \in Handlers, RelayAborted(h)
    PROVE  Budget!Settle(job[h].lease)
<1> USE DEF IndInv, historyVars
<1>1. /\ pc[h] = "entered" /\ Close(h)
      /\ UNCHANGED <<held, minted, terms, spent, reported>>
  BY DEF RelayAborted
<1>2. Phase' = Phase
  BY <1>1 DEF Phase
<1>3. 0 \in 0..MaxRise /\ spent' = [spent EXCEPT ![job[h].lease] = @ + 0]
  BY <1>1, CloseRefines, LedgerAssumption DEF LedgerTyped
<1> QED BY <1>1, <1>2, <1>3, CloseRefines DEF Budget!Settle

\* An answer settles it for what it is charged.
LEMMA AnsweredRefines ==
    ASSUME IndInv, NEW h \in Handlers, NEW rise \in 0..MaxRise, Answered(h, rise)
    PROVE  Budget!Settle(job[h].lease)
<1> USE DEF IndInv
<1>1. /\ pc[h] = "entered" /\ Close(h)
      /\ UNCHANGED <<held, minted, terms, reported>>
      /\ job[h].lease \in Leases
  BY AnsweredCharges
<1>2. PICK c \in 0..MaxRise :
         /\ job[h].lease \notin held => c = 0
         /\ spent' = [spent EXCEPT ![job[h].lease] = @ + c]
  BY AnsweredCharges
<1>3. Phase' = Phase
  BY <1>1 DEF Phase
<1>4. Phase[job[h].lease] # "live" => c = 0
  BY <1>1, <1>2 DEF Phase, LedgerTyped
<1> QED BY <1>1, <1>2, <1>3, <1>4, CloseRefines DEF Budget!Settle

\* A boot ends every relay, may end leases, and never raises a figure.
LEMMA RestartRefines ==
    ASSUME IndInv, NEW room, Restart(room)
    PROVE  Budget!Restart
<1> USE DEF IndInv
<1>1. /\ held' = {l \in disk.held : terms[l].expires > now}
      /\ spent' = disk.spent
      /\ pc' = [h \in Handlers |-> "idle"]
      /\ UNCHANGED <<minted, terms, reported>>
  BY DEF Restart
<1>2. held' \subseteq held
  BY <1>1 DEF DiskBehind
<1>3. \A l \in Leases : Phase'[l] # Phase[l] => Phase[l] = "live" /\ Phase'[l] = "over"
  BY <1>1, <1>2 DEF Phase, LedgerTyped
<1>4. Phase' \in [Leases -> {"new", "live", "over"}]
  BY DEF Phase
<1>5. [l \in Leases |-> Cardinality(SlotHolders(l))]' = [l \in Leases |-> 0]
  <2>1. \A l : SlotHolders(l)' = {}
    BY <1>1 DEF SlotHolders
  <2> QED BY <2>1, FS_EmptySet
<1>6. spent' \in [Leases -> Nat] /\ \A l \in Leases : spent'[l] <= spent[l]
  BY <1>1 DEF DiskBehind, LedgerTyped
<1> QED BY <1>1, <1>3, <1>4, <1>5, <1>6 DEF Budget!Restart, Budget!EndSome

\* peer/lease.rs keeps the promise LeaseBudget states: no relay starts on a
\* spent lease, never more than max_inflight run, and a restart gives no lease
\* back.
THEOREM LedgerImplementsBudget == Spec => ImplementsBudget
<1>1. IndInv /\ [Next]_vars => [Budget!Next]_(Budget!vars)
  <2> SUFFICES ASSUME IndInv, [Next]_vars PROVE [Budget!Next]_(Budget!vars)
    OBVIOUS
  <2>1. CASE UNCHANGED coreVars \/ Flush \/ Tick
    <3>1. UNCHANGED <<held, minted, terms, spent, reported, pc, job>>
      BY <2>1 DEF coreVars, Flush, Tick, ledgerVars, handlerVars, diskVars, historyVars
    <3> QED BY <3>1, StutterRefines
  <2>2. ASSUME NEW p \in Peers, NEW l \in Leases, NEW measured \in Measured,
               NEW handable \in Handable(p), Grant(p, l, measured, handable)
        PROVE  Budget!Next
    BY <2>2, GrantRefines DEF Budget!Next
  <2>3. ASSUME NEW l \in Leases, NEW hinted \in 1..MaxHint, UsageHint(l, hinted)
        PROVE  Budget!Next
    BY <2>3, UsageHintRefines DEF Budget!Next
  <2>4. ASSUME NEW f \in Frames, NEW measured \in Measured, NEW r \in ReqIds,
               NEW h \in Handlers, EnterRelay(h, f, r, measured)
        PROVE  Budget!Next
    <3>1. f.lease \in Leases
      BY DEF Frames, IndInv, LedgerTyped
    <3> QED BY <2>4, <3>1, EnterRelayRefines DEF Budget!Next
  <2>5. ASSUME NEW h \in Handlers,
               RelayAborted(h) \/ \E rise \in 0..MaxRise : Answered(h, rise)
        PROVE  Budget!Next
    <3>1. job[h].lease \in Leases
      BY <2>5 DEF RelayAborted, Answered, IndInv, JobsGranted, LedgerTyped
    <3> QED BY <2>5, <3>1, RelayAbortedRefines, AnsweredRefines DEF Budget!Next
  <2>6. ASSUME NEW room \in Rooms, Restart(room)
        PROVE  Budget!Next
    BY <2>6, RestartRefines DEF Budget!Next
  <2> QED BY StepCases, <2>1, <2>2, <2>3, <2>4, <2>5, <2>6
<1> QED BY LedgerInvariant, InitRefines, <1>1, PTL DEF Spec, ImplementsBudget, Budget!Spec

\* Debits lag the relays, and still a lease is overdrawn by fewer than
\* max_inflight requests: what LeaseBudget implies holds of its implementation.
THEOREM LedgerBoundsOverdraft == Spec => []OverdraftBounded
<1>1. MaxRise \in Nat
  BY LedgerAssumption
<1>2. Budget!Spec => []Budget!OverdraftBounded
  BY <1>1, Budget!BudgetBoundsOverdraft
<1>3. Budget!OverdraftBounded => OverdraftBounded
  BY DEF OverdraftBounded
<1> QED BY LedgerImplementsBudget, <1>2, <1>3, PTL DEF ImplementsBudget

-----------------------------------------------------------------------------
(***************************************************************************)
(* The memory of pairs.                                                    *)
(***************************************************************************)

\* A set of places has as many ranks as places: every number up to its size is
\* the rank of one of them.
LEMMA RankExists ==
    ASSUME NEW m \in Nat, NEW keep \in SUBSET (1..m), NEW n \in 1..Cardinality(keep)
    PROVE  \E i \in keep : Cardinality({j \in keep : j <= i}) = n
<1> DEFINE c == Cardinality(keep)
           Upto(i) == {j \in keep : j <= i}
           f == [i \in keep |-> Cardinality(Upto(i))]
<1>1. IsFiniteSet(keep) /\ c \in Nat
  <2>1. IsFiniteSet(1..m)
    BY FS_Interval
  <2>2. IsFiniteSet(keep)
    BY <2>1, FS_Subset
  <2> QED BY <2>2, FS_CardinalityType
<1>2. ASSUME NEW i \in keep
      PROVE  IsFiniteSet(Upto(i)) /\ Cardinality(Upto(i)) \in 1..c
  <2>1. Upto(i) \in SUBSET keep /\ i \in Upto(i)
    OBVIOUS
  <2>2. IsFiniteSet(Upto(i)) /\ Cardinality(Upto(i)) <= c
    BY <1>1, <2>1, FS_Subset
  <2>3. Cardinality(Upto(i)) \in Nat /\ Cardinality(Upto(i)) # 0
    BY <2>1, <2>2, FS_CardinalityType, FS_EmptySet
  <2> QED BY <1>1, <2>2, <2>3
<1>3. f \in [keep -> 1..c]
  BY <1>2
<1>4. ASSUME NEW i \in keep, NEW k \in keep, i < k PROVE f[i] # f[k]
  <2>1. Upto(i) \in SUBSET Upto(k) /\ k \in Upto(k) /\ k \notin Upto(i)
    <3>1. \A j \in keep : j \in Int
      OBVIOUS
    <3>2. \A j \in keep : j <= i => j <= k
      BY <1>4, <3>1
    <3>3. k <= k /\ ~(k <= i)
      BY <1>4, <3>1
    <3> QED BY <3>2, <3>3
  <2>2. Cardinality(Upto(i)) # Cardinality(Upto(k))
    BY <1>2, <2>1, FS_Subset
  <2> QED BY <2>2
<1>5. f \in Injection(keep, 1..c)
  <2>1. ASSUME NEW i \in keep, NEW k \in keep, f[i] = f[k] PROVE i = k
    <3>1. i < k \/ k < i \/ i = k
      OBVIOUS
    <3> QED BY <1>4, <2>1, <3>1
  <2> HIDE DEF f, c
  <2> QED BY <1>3, <2>1 DEF Injection, IsInjective
<1>6. f \in Surjection(keep, 1..c)
  <2>1. IsFiniteSet(1..c) /\ Cardinality(1..c) = c
    BY <1>1, FS_Interval
  <2> HIDE DEF f
  <2> QED BY <1>5, <2>1, FS_Injection
<1>7. \A y \in 1..c : \E i \in keep : f[i] = y
  <2> HIDE DEF f, c
  <2> QED BY <1>6 DEF Surjection
<1> QED BY <1>7

\* What is kept of a sequence is a sequence of some of its elements.
LEMMA RetainedProperties ==
    ASSUME NEW S, NEW seq \in Seq(S), NEW keep \in SUBSET DOMAIN seq
    PROVE  /\ Retained(seq, keep) \in Seq(S)
           /\ Len(Retained(seq, keep)) <= Len(seq)
           /\ \A n \in 1..Len(Retained(seq, keep)) :
                 \E i \in 1..Len(seq) : Retained(seq, keep)[n] = seq[i]
<1> DEFINE c == Cardinality(keep)
           At(n) == CHOOSE i \in keep : Cardinality({j \in keep : j <= i}) = n
<1>1. /\ Len(seq) \in Nat /\ DOMAIN seq = 1..Len(seq)
      /\ \A i \in 1..Len(seq) : seq[i] \in S
  BY LenProperties
<1>2. /\ IsFiniteSet(1..Len(seq)) /\ Cardinality(1..Len(seq)) = Len(seq)
  BY <1>1, FS_Interval
<1>3. c \in Nat /\ c <= Len(seq)
  BY <1>1, <1>2, FS_Subset, FS_CardinalityType
<1>4. \A n \in 1..c : At(n) \in keep
  BY <1>1, RankExists
<1>5. Retained(seq, keep) = [n \in 1..c |-> seq[At(n)]]
  BY DEF Retained
<1> HIDE DEF At, c
<1>6. \A n \in 1..c : seq[At(n)] \in S
  BY <1>1, <1>4
<1>7. Retained(seq, keep) \in Seq(S) /\ Len(Retained(seq, keep)) = c
  BY <1>3, <1>5, <1>6
<1>8. \A n \in 1..c : Retained(seq, keep)[n] = seq[At(n)] /\ At(n) \in 1..Len(seq)
  BY <1>1, <1>4, <1>5
<1> QED BY <1>3, <1>7, <1>8

\* What is remembered of a request, and the caches.
Entry == [req : ReqIds, at : Nat, charged : BOOLEAN]
Caches == [Leases -> Seq(Entry)]

\* A cache with at most n pairs, and at most k for each lease.
Holds(cache, n, k) ==
    /\ cache \in Caches
    /\ IsFiniteSet(Places(cache)) /\ CacheSize(cache) <= n
    /\ \A l \in Leases : Len(cache[l]) <= k

\* The cache d has no pair that the cache c does not have.
Within(d, c) ==
    /\ d \in Caches
    /\ \A l \in Leases :
          /\ Len(d[l]) <= Len(c[l])
          /\ \A n \in 1..Len(d[l]) : \E i \in 1..Len(c[l]) : d[l][n] = c[l][i]

\* The places of a cache, lease by lease.
LEMMA PlacesOf ==
    ASSUME NEW cache \in Caches
    PROVE  /\ DOMAIN cache = Leases
           /\ \A l \in Leases : /\ cache[l] \in Seq(Entry) /\ Len(cache[l]) \in Nat
                                /\ DOMAIN cache[l] = 1..Len(cache[l])
           /\ \A x : x \in Places(cache) <=>
                 \E l \in Leases : \E i \in 1..Len(cache[l]) : x = <<l, i>>
<1>1. DOMAIN cache = Leases /\ \A l \in Leases : cache[l] \in Seq(Entry)
  BY DEF Caches
<1>2. \A l \in Leases : Len(cache[l]) \in Nat /\ DOMAIN cache[l] = 1..Len(cache[l])
  BY <1>1, LenProperties
<1>3. ASSUME NEW x
      PROVE  x \in Places(cache) <=> \E l \in Leases : \E i \in 1..Len(cache[l]) : x = <<l, i>>
  <2>1. x \in Places(cache) <=> \E l \in Leases : x \in {l} \X DOMAIN cache[l]
    BY <1>1 DEF Places
  <2>2. ASSUME NEW l \in Leases
        PROVE  x \in {l} \X DOMAIN cache[l] <=> \E i \in 1..Len(cache[l]) : x = <<l, i>>
    BY <1>2
  <2> QED BY <2>1, <2>2
<1> QED BY <1>1, <1>2, <1>3

\* A cache that is within another is no larger.
LEMMA WithinIsSmaller ==
    ASSUME NEW c \in Caches, NEW d, Within(d, c), IsFiniteSet(Places(c))
    PROVE  /\ IsFiniteSet(Places(d)) /\ CacheSize(d) <= CacheSize(c)
           /\ CacheSize(d) \in Nat /\ CacheSize(c) \in Nat
<1>1. d \in Caches
  BY DEF Within
<1>2. \A l \in Leases : Len(d[l]) \in Nat /\ Len(c[l]) \in Nat /\ Len(d[l]) <= Len(c[l])
  BY <1>1, PlacesOf DEF Within
<1>3. ASSUME NEW x \in Places(d) PROVE x \in Places(c)
  <2>1. PICK l \in Leases : \E i \in 1..Len(d[l]) : x = <<l, i>>
    BY <1>1, PlacesOf
  <2>2. PICK i \in 1..Len(d[l]) : x = <<l, i>>
    BY <2>1
  <2>3. i \in 1..Len(c[l])
    BY <1>2
  <2> QED BY <2>2, <2>3, PlacesOf
<1>4. Places(d) \in SUBSET Places(c)
  BY <1>3
<1>5. IsFiniteSet(Places(d)) /\ Cardinality(Places(d)) <= Cardinality(Places(c))
  BY <1>4, FS_Subset
<1> QED BY <1>5, FS_CardinalityType DEF CacheSize

\* Being within is transitive.
LEMMA WithinTransitive ==
    ASSUME NEW b \in Caches, NEW c, NEW d, Within(c, b), Within(d, c)
    PROVE  Within(d, b)
<1>1. c \in Caches /\ d \in Caches
  BY DEF Within
<1>2. ASSUME NEW l \in Leases
      PROVE  /\ Len(d[l]) <= Len(b[l])
             /\ \A n \in 1..Len(d[l]) : \E i \in 1..Len(b[l]) : d[l][n] = b[l][i]
  <2>1. Len(d[l]) \in Nat /\ Len(c[l]) \in Nat /\ Len(b[l]) \in Nat
    BY <1>1, PlacesOf
  <2>2. Len(d[l]) <= Len(c[l]) /\ Len(c[l]) <= Len(b[l])
    BY DEF Within
  <2>3. ASSUME NEW n \in 1..Len(d[l]) PROVE \E i \in 1..Len(b[l]) : d[l][n] = b[l][i]
    <3>1. PICK k \in 1..Len(c[l]) : d[l][n] = c[l][k]
      BY DEF Within
    <3>2. PICK i \in 1..Len(b[l]) : c[l][k] = b[l][i]
      BY DEF Within
    <3> QED BY <3>1, <3>2
  <2> QED BY <2>1, <2>2, <2>3
<1> QED BY <1>1, <1>2 DEF Within

\* A cache is within itself.
LEMMA WithinReflexive ==
    ASSUME NEW c \in Caches
    PROVE  Within(c, c)
<1>1. \A l \in Leases : Len(c[l]) \in Nat
  BY PlacesOf
<1> QED BY <1>1 DEF Within

\* Ageing out only drops.
LEMMA FreshWithin ==
    ASSUME NEW t, pairs \in Caches
    PROVE  Within(Fresh(t), pairs)
<1> DEFINE Keep(l) == {i \in DOMAIN pairs[l] : t - pairs[l][i].at < PairTTL}
<1>1. ASSUME NEW l \in Leases
      PROVE  /\ Fresh(t)[l] = Retained(pairs[l], Keep(l))
             /\ Keep(l) \in SUBSET DOMAIN pairs[l] /\ pairs[l] \in Seq(Entry)
  BY PlacesOf DEF Fresh
<1> HIDE DEF Keep
<1>2. ASSUME NEW l \in Leases
      PROVE  /\ Fresh(t)[l] \in Seq(Entry)
             /\ Len(Fresh(t)[l]) <= Len(pairs[l])
             /\ \A n \in 1..Len(Fresh(t)[l]) :
                   \E i \in 1..Len(pairs[l]) : Fresh(t)[l][n] = pairs[l][i]
  BY <1>1, RetainedProperties
<1>3. Fresh(t) \in Caches
  <2>1. Fresh(t) = [l \in Leases |-> Fresh(t)[l]]
    BY DEF Fresh
  <2> QED BY <1>2, <2>1 DEF Caches
<1> QED BY <1>2, <1>3 DEF Within

\* Dropping the oldest pair of a lease takes one place away.
LEMMA TailWithin ==
    ASSUME NEW c \in Caches, NEW l \in Leases, c[l] # <<>>
    PROVE  LET d == [c EXCEPT ![l] = Tail(@)]
           IN  /\ Within(d, c) /\ Len(d[l]) = Len(c[l]) - 1
               /\ Places(d) = Places(c) \ {<<l, Len(c[l])>>}
               /\ <<l, Len(c[l])>> \in Places(c)
<1> DEFINE d == [c EXCEPT ![l] = Tail(@)]
<1>1. c[l] \in Seq(Entry) /\ Len(c[l]) \in Nat \ {0}
  BY PlacesOf, EmptySeq
<1>2. /\ Tail(c[l]) \in Seq(Entry) /\ Len(Tail(c[l])) = Len(c[l]) - 1
      /\ \A i \in 1..Len(Tail(c[l])) : Tail(c[l])[i] = c[l][i + 1]
  BY <1>1, HeadTailProperties
<1>3. d \in Caches /\ d[l] = Tail(c[l]) /\ \A k \in Leases \ {l} : d[k] = c[k]
  BY <1>2 DEF Caches
<1> HIDE DEF d
<1>4. Within(d, c)
  <2>1. ASSUME NEW n \in 1..Len(d[l]) PROVE \E i \in 1..Len(c[l]) : d[l][n] = c[l][i]
    <3>1. n + 1 \in 1..Len(c[l]) /\ d[l][n] = c[l][n + 1]
      BY <1>1, <1>2, <1>3
    <3> QED BY <3>1
  <2>2. Len(d[l]) <= Len(c[l])
    BY <1>1, <1>2, <1>3
  <2>3. \A k \in Leases : Len(c[k]) \in Nat
    BY PlacesOf
  <2>4. ASSUME NEW k \in Leases, k # l
        PROVE  /\ Len(d[k]) <= Len(c[k])
               /\ \A n \in 1..Len(d[k]) : \E i \in 1..Len(c[k]) : d[k][n] = c[k][i]
    <3>1. d[k] = c[k]
      BY <1>3, <2>4
    <3> QED BY <2>3, <3>1
  <2>5. \A k \in Leases :
           /\ Len(d[k]) <= Len(c[k])
           /\ \A n \in 1..Len(d[k]) : \E i \in 1..Len(c[k]) : d[k][n] = c[k][i]
    <3>1. /\ Len(d[l]) <= Len(c[l])
          /\ \A n \in 1..Len(d[l]) : \E i \in 1..Len(c[l]) : d[l][n] = c[l][i]
      BY <2>1, <2>2
    <3> QED BY <2>4, <3>1, Zenon
  <2> QED BY <1>3, <2>5 DEF Within
<1>5. ASSUME NEW x
      PROVE  x \in Places(d) <=> x \in Places(c) /\ x # <<l, Len(c[l])>>
  <2>1. x \in Places(d) <=> \E k \in Leases : \E i \in 1..Len(d[k]) : x = <<k, i>>
    BY <1>3, PlacesOf
  <2>2. x \in Places(c) <=> \E k \in Leases : \E i \in 1..Len(c[k]) : x = <<k, i>>
    BY PlacesOf
  <2>3. ASSUME NEW k \in Leases, NEW i
        PROVE  i \in 1..Len(d[k]) <=> i \in 1..Len(c[k]) /\ <<k, i>> # <<l, Len(c[l])>>
    <3>1. CASE k = l
      <4>1. Len(d[l]) = Len(c[l]) - 1
        BY <1>2, <1>3
      <4>2. i \in 1..Len(c[l]) - 1 <=> i \in 1..Len(c[l]) /\ i # Len(c[l])
        BY <1>1
      <4> QED BY <3>1, <4>1, <4>2
    <3>2. CASE k # l
      BY <1>3, <3>2
    <3> QED BY <3>1, <3>2
  <2> QED BY <2>1, <2>2, <2>3
<1>6. <<l, Len(c[l])>> \in Places(c)
  <2>1. Len(c[l]) \in 1..Len(c[l])
    BY <1>1
  <2> QED BY <2>1, PlacesOf
<1>7. Places(d) = Places(c) \ {<<l, Len(c[l])>>}
  BY <1>5
<1> QED BY <1>2, <1>3, <1>4, <1>6, <1>7 DEF d

\* Making room across the leases leaves room for one pair.
LEMMA TrimmedWithin ==
    ASSUME NEW c, NEW k \in Nat, Holds(c, Capacity, k), NEW d \in Trimmed(c)
    PROVE  Within(d, c) /\ Holds(d, Capacity - 1, k)
<1>1. /\ c \in Caches /\ IsFiniteSet(Places(c)) /\ CacheSize(c) <= Capacity
      /\ CacheSize(c) \in Nat /\ Capacity \in Nat \ {0}
      /\ \A l \in Leases : Len(c[l]) <= k
  BY FS_CardinalityType, LedgerAssumption DEF Holds, CacheSize
<1>2. Within(d, c) /\ CacheSize(d) <= Capacity - 1
  <2>1. CASE CacheSize(c) < Capacity
    <3>1. d = c
      BY <2>1 DEF Trimmed
    <3> QED BY <1>1, <2>1, <3>1, WithinReflexive
  <2>2. CASE ~(CacheSize(c) < Capacity)
    <3>1. PICK l \in Leases : c[l] # <<>> /\ d = [c EXCEPT ![l] = Tail(@)]
      BY <1>1, <2>2, PlacesOf DEF Trimmed, Oldest
    <3>2. /\ Within(d, c) /\ Places(d) = Places(c) \ {<<l, Len(c[l])>>}
          /\ <<l, Len(c[l])>> \in Places(c)
      BY <1>1, <3>1, TailWithin
    <3>3. Cardinality(Places(d)) = Cardinality(Places(c)) - 1
      <4>1. PICK x \in Places(c) : Places(d) = Places(c) \ {x}
        BY <3>2
      <4>2. IsFiniteSet(Places(c))
        BY <1>1
      <4> QED BY <4>1, <4>2, FS_RemoveElement
    <3> QED BY <1>1, <3>2, <3>3 DEF CacheSize
  <2> QED BY <2>1, <2>2
<1>3. IsFiniteSet(Places(d))
  BY <1>1, <1>2, WithinIsSmaller
<1>4. d \in Caches /\ \A l \in Leases : Len(d[l]) <= Len(c[l])
  BY <1>2 DEF Within
<1>5. ASSUME NEW l \in Leases PROVE Len(d[l]) <= k
  <2>1. Len(d[l]) \in Nat /\ Len(c[l]) \in Nat
    BY <1>1, <1>4, PlacesOf
  <2> QED BY <1>1, <1>4, <2>1
<1> QED BY <1>2, <1>3, <1>4, <1>5 DEF Holds

\* Making room in a lease leaves room for one pair there.
LEMMA RoomyWithin ==
    ASSUME NEW c, NEW n \in Nat, Holds(c, n, PerLease), NEW l \in Leases
    PROVE  /\ Within(Roomy(c, l), c) /\ Holds(Roomy(c, l), n, PerLease)
           /\ Len(Roomy(c, l)[l]) <= PerLease - 1
<1> DEFINE d == Roomy(c, l)
<1>1. /\ c \in Caches /\ IsFiniteSet(Places(c)) /\ CacheSize(c) <= n
      /\ CacheSize(c) \in Nat /\ PerLease \in Nat \ {0}
      /\ \A k \in Leases : Len(c[k]) <= PerLease /\ Len(c[k]) \in Nat
      /\ c[l] \in Seq(Entry) /\ DOMAIN c = Leases
  BY FS_CardinalityType, LedgerAssumption, PlacesOf DEF Holds, CacheSize
<1>2. Within(d, c) /\ Len(d[l]) <= PerLease - 1
  <2>1. CASE Len(c[l]) >= PerLease
    <3>1. c[l] # <<>>
      BY <1>1, <2>1, EmptySeq
    <3>2. d = [c EXCEPT ![l] = Tail(@)]
      BY <2>1 DEF Roomy
    <3>3. Within(d, c) /\ Len(d[l]) = Len(c[l]) - 1
      BY <1>1, <3>1, <3>2, TailWithin
    <3> QED BY <1>1, <3>3
  <2>2. CASE ~(Len(c[l]) >= PerLease)
    <3>1. d = c
      BY <1>1, <2>2 DEF Roomy, Caches
    <3> QED BY <1>1, <2>2, <3>1, WithinReflexive
  <2> QED BY <2>1, <2>2
<1> HIDE DEF d
<1>3. /\ IsFiniteSet(Places(d)) /\ CacheSize(d) <= CacheSize(c)
      /\ CacheSize(d) \in Nat
  BY <1>1, <1>2, WithinIsSmaller
<1>4. d \in Caches /\ \A k \in Leases : Len(d[k]) <= Len(c[k])
  BY <1>2 DEF Within
<1>5. \A k \in Leases : Len(d[k]) \in Nat
  BY <1>4, PlacesOf
<1>6. Holds(d, n, PerLease)
  BY <1>1, <1>3, <1>4, <1>5 DEF Holds
<1> QED BY <1>2, <1>6 DEF d

\* Recording a pair takes the room that was made.
LEMMA RecordedHolds ==
    ASSUME NEW c, Holds(c, Capacity - 1, PerLease), NEW l \in Leases,
           Len(c[l]) <= PerLease - 1, NEW e \in Entry
    PROVE  LET d == [c EXCEPT ![l] = Append(@, e)]
           IN  /\ Holds(d, Capacity, PerLease)
               /\ \A k \in Leases \ {l} : d[k] = c[k]
               /\ Len(d[l]) = Len(c[l]) + 1
               /\ \A i \in 1..Len(c[l]) : d[l][i] = c[l][i]
               /\ d[l][Len(c[l]) + 1] = e
<1> DEFINE d == [c EXCEPT ![l] = Append(@, e)]
<1>1. /\ c \in Caches /\ IsFiniteSet(Places(c)) /\ CacheSize(c) <= Capacity - 1
      /\ CacheSize(c) \in Nat /\ Capacity \in Nat \ {0} /\ PerLease \in Nat \ {0}
      /\ \A k \in Leases : Len(c[k]) <= PerLease /\ Len(c[k]) \in Nat
      /\ c[l] \in Seq(Entry) /\ DOMAIN c = Leases
  BY FS_CardinalityType, LedgerAssumption, PlacesOf DEF Holds, CacheSize
<1>4. /\ Append(c[l], e) \in Seq(Entry) /\ Len(Append(c[l], e)) = Len(c[l]) + 1
      /\ \A i \in 1..Len(c[l]) : Append(c[l], e)[i] = c[l][i]
      /\ Append(c[l], e)[Len(c[l]) + 1] = e
  BY <1>1, AppendProperties
<1>5. d \in Caches /\ d[l] = Append(c[l], e) /\ \A k \in Leases \ {l} : d[k] = c[k]
  BY <1>1, <1>4 DEF Caches
<1> HIDE DEF d
<1>6. ASSUME NEW x
      PROVE  x \in Places(d) <=> x \in Places(c) \/ x = <<l, Len(c[l]) + 1>>
  <2>1. x \in Places(d) <=> \E k \in Leases : \E i \in 1..Len(d[k]) : x = <<k, i>>
    BY <1>5, PlacesOf
  <2>2. x \in Places(c) <=> \E k \in Leases : \E i \in 1..Len(c[k]) : x = <<k, i>>
    BY <1>1, PlacesOf
  <2>3. ASSUME NEW k \in Leases, NEW i
        PROVE  i \in 1..Len(d[k]) <=> i \in 1..Len(c[k]) \/ <<k, i>> = <<l, Len(c[l]) + 1>>
    <3>1. CASE k = l
      <4>1. Len(d[l]) = Len(c[l]) + 1
        BY <1>4, <1>5
      <4>2. i \in 1..Len(c[l]) + 1 <=> i \in 1..Len(c[l]) \/ i = Len(c[l]) + 1
        BY <1>1
      <4> QED BY <3>1, <4>1, <4>2
    <3>2. CASE k # l
      BY <1>5, <3>2
    <3> QED BY <3>1, <3>2
  <2> QED BY <2>1, <2>2, <2>3
<1>7. IsFiniteSet(Places(d)) /\ CacheSize(d) <= Capacity
  <2>1. Places(d) = Places(c) \cup {<<l, Len(c[l]) + 1>>}
    BY <1>6
  <2>2. /\ IsFiniteSet(Places(d))
        /\ Cardinality(Places(d)) = Cardinality(Places(c))
           \/ Cardinality(Places(d)) = Cardinality(Places(c)) + 1
    BY <1>1, <2>1, FS_AddElement
  <2> QED BY <1>1, <2>2 DEF CacheSize
<1>8. \A k \in Leases : Len(d[k]) <= PerLease
  BY <1>1, <1>4, <1>5
<1>9. Holds(d, Capacity, PerLease)
  BY <1>5, <1>7, <1>8 DEF Holds
<1> QED BY <1>4, <1>5, <1>9 DEF d

\* Which pairs a cache knows.
LEMMA KnownPairs ==
    ASSUME NEW cache, NEW l \in Leases, NEW r
    PROVE  <<l, r>> \in Known(cache) <=> Remembers(cache[l], r)
BY DEF Known, Remembers

\* In the cache, the relay of handler h is written down and not charged.
Owed(cache, h) ==
    LET ids == cache[job[h].lease]
    IN  /\ Remembers(ids, job[h].req)
        /\ \A i \in DOMAIN ids : ids[i].req = job[h].req => ~ids[i].charged

\* Every relay in flight whose pair was not dropped meanwhile is still to be
\* charged, and it is the only one under that pair.
RelaysOwed ==
    \A h \in Handlers :
        pc[h] = "entered" =>
            /\ job[h].req \in ReqIds
            /\ <<job[h].lease, job[h].req>> \notin forgotten =>
                  /\ Owed(pairs, h)
                  /\ \A g \in Handlers : pc[g] = "entered" /\ job[g] = job[h] => g = h

MemInv ==
    /\ Holds(pairs, Capacity, PerLease)
    /\ RelaysOwed
    /\ forgotten \subseteq Running

\* What a cache keeps of a relay that goes on and is not forgotten.
LEMMA KeptOwed ==
    ASSUME IndInv, MemInv, NEW kept, Within(kept, pairs), NEW running, Forget(kept, running),
           NEW h \in Handlers, pc[h] = "entered",
           <<job[h].lease, job[h].req>> \in running,
           <<job[h].lease, job[h].req>> \notin forgotten'
    PROVE  /\ job[h].lease \in Leases /\ job[h].req \in ReqIds
           /\ Owed(pairs, h) /\ Owed(kept, h)
           /\ \A g \in Handlers : pc[g] = "entered" /\ job[g] = job[h] => g = h
<1> DEFINE l == job[h].lease
           r == job[h].req
<1>1. l \in Leases /\ r \in ReqIds
  BY DEF IndInv, JobsGranted, LedgerTyped, MemInv, RelaysOwed
<1>2. <<l, r>> \notin forgotten /\ (<<l, r>> \in Known(pairs) => <<l, r>> \in Known(kept))
  BY DEF Forget
<1>3. /\ Owed(pairs, h)
      /\ \A g \in Handlers : pc[g] = "entered" /\ job[g] = job[h] => g = h
  BY <1>2 DEF MemInv, RelaysOwed
<1>4. Remembers(kept[l], r)
  BY <1>1, <1>2, <1>3, KnownPairs DEF Owed
<1>5. ASSUME NEW i \in DOMAIN kept[l], kept[l][i].req = r PROVE ~kept[l][i].charged
  <2>1. kept \in Caches /\ pairs \in Caches
    BY DEF Within, MemInv, Holds
  <2>2. DOMAIN kept[l] = 1..Len(kept[l]) /\ DOMAIN pairs[l] = 1..Len(pairs[l])
    BY <1>1, <2>1, PlacesOf
  <2>3. PICK n \in 1..Len(pairs[l]) : kept[l][i] = pairs[l][n]
    BY <1>1, <2>2 DEF Within
  <2> QED BY <1>3, <1>5, <2>2, <2>3 DEF Owed
<1> QED BY <1>1, <1>3, <1>4, <1>5 DEF Owed

\* A step that leaves the memory and the relays alone keeps it.
LEMMA MemUnchanged ==
    ASSUME MemInv, UNCHANGED <<pairs, pc, job, forgotten>>
    PROVE  MemInv'
BY DEF MemInv, Holds, Places, CacheSize, RelaysOwed, Owed, Remembers, Running

\* The memory admit_pair goes on with, at any clock.
LEMMA TrimmedFresh ==
    ASSUME MemInv, NEW t, NEW c \in Trimmed(Fresh(t))
    PROVE  Within(c, pairs) /\ Holds(c, Capacity - 1, PerLease)
<1>1. /\ pairs \in Caches /\ IsFiniteSet(Places(pairs)) /\ CacheSize(pairs) <= Capacity
      /\ \A l \in Leases : Len(pairs[l]) <= PerLease
      /\ PerLease \in Nat /\ Capacity \in Nat
  BY LedgerAssumption DEF MemInv, Holds
<1>2. Within(Fresh(t), pairs)
  BY <1>1, FreshWithin
<1>3. /\ IsFiniteSet(Places(Fresh(t))) /\ CacheSize(Fresh(t)) <= CacheSize(pairs)
      /\ CacheSize(Fresh(t)) \in Nat /\ CacheSize(pairs) \in Nat
  BY <1>1, <1>2, WithinIsSmaller
<1>4. /\ Fresh(t) \in Caches
      /\ \A l \in Leases : Len(Fresh(t)[l]) <= Len(pairs[l])
  BY <1>2 DEF Within
<1>5. \A l \in Leases : Len(Fresh(t)[l]) \in Nat /\ Len(pairs[l]) \in Nat
  BY <1>1, <1>4, PlacesOf
<1>6. Holds(Fresh(t), Capacity, PerLease)
  BY <1>1, <1>3, <1>4, <1>5 DEF Holds
<1>7. Within(c, Fresh(t)) /\ Holds(c, Capacity - 1, PerLease)
  BY <1>1, <1>6, TrimmedWithin
<1> QED BY <1>1, <1>2, <1>7, WithinTransitive

\* A cache that may hold fewer may hold more.
LEMMA HoldsMore ==
    ASSUME NEW c, Holds(c, Capacity - 1, PerLease)
    PROVE  Holds(c, Capacity, PerLease)
<1>1. CacheSize(c) \in Nat
  BY FS_CardinalityType DEF Holds, CacheSize
<1> QED BY <1>1, LedgerAssumption DEF Holds

\* A pair admitted: what is kept is within the memory and knows no such pair, and
\* the new one is recorded uncharged at its end.
LEMMA AdmitKeeps ==
    ASSUME IndInv, MemInv, NEW f \in Frames, NEW r \in ReqIds, Admit(f, r)
    PROVE  \E kept :
              /\ Within(kept, pairs) /\ Forget(kept, Running)
              /\ ~Remembers(kept[f.lease], r)
              /\ pairs' = Recorded(kept, f.lease, r, f.at, FALSE)
              /\ Holds(kept, Capacity - 1, PerLease)
              /\ Len(kept[f.lease]) <= PerLease - 1
<1> DEFINE l == f.lease
<1>1. l \in Leases /\ f.at \in Nat
  BY LedgerAssumption DEF Frames, IndInv, LedgerTyped
<1>2. PICK cache \in Trimmed(Fresh(f.at)) :
         /\ ~Remembers(cache[l], r)
         /\ pairs' = Recorded(Roomy(cache, l), l, r, f.at, FALSE)
         /\ Forget(Roomy(cache, l), Running)
  BY DEF Admit
<1>3. Within(cache, pairs) /\ Holds(cache, Capacity - 1, PerLease)
  BY TrimmedFresh
<1> DEFINE kept == Roomy(cache, l)
<1>4. Within(kept, cache) /\ Holds(kept, Capacity - 1, PerLease) /\ Len(kept[l]) <= PerLease - 1
  <2>1. Capacity - 1 \in Nat
    BY LedgerAssumption
  <2> QED BY <1>1, <1>3, <2>1, RoomyWithin
<1> HIDE DEF kept
<1>5. Within(kept, pairs)
  BY <1>3, <1>4, WithinTransitive DEF MemInv, Holds
<1>6. ~Remembers(kept[l], r)
  <2> SUFFICES ASSUME NEW i \in DOMAIN kept[l], kept[l][i].req = r PROVE FALSE
    BY DEF Remembers
  <2>1. kept \in Caches /\ cache \in Caches
    BY <1>3, <1>4 DEF Holds
  <2>2. DOMAIN kept[l] = 1..Len(kept[l]) /\ DOMAIN cache[l] = 1..Len(cache[l])
    BY <1>1, <2>1, PlacesOf
  <2>3. \A n \in 1..Len(kept[l]) : \E j \in 1..Len(cache[l]) : kept[l][n] = cache[l][j]
    BY <1>1, <1>4 DEF Within
  <2>4. PICK n \in DOMAIN cache[l] : kept[l][i] = cache[l][n]
    BY <2>2, <2>3
  <2> QED BY <1>2, <2>4 DEF Remembers
<1> QED BY <1>2, <1>4, <1>5, <1>6 DEF kept

\* Recording a pair leaves another relay's as it was, and the same pair recorded
\* uncharged leaves it to be charged.
LEMMA RecordedOwed ==
    ASSUME NEW c, Holds(c, Capacity - 1, PerLease), NEW l \in Leases,
           Len(c[l]) <= PerLease - 1, NEW e \in Entry,
           NEW h, job[h].lease \in Leases, Owed(c, h),
           l = job[h].lease /\ e.req = job[h].req => ~e.charged
    PROVE  Owed([c EXCEPT ![l] = Append(@, e)], h)
<1> DEFINE d == [c EXCEPT ![l] = Append(@, e)]
           k == job[h].lease
<1>1. /\ Holds(d, Capacity, PerLease)
      /\ \A m \in Leases \ {l} : d[m] = c[m]
      /\ Len(d[l]) = Len(c[l]) + 1
      /\ \A i \in 1..Len(c[l]) : d[l][i] = c[l][i]
      /\ d[l][Len(c[l]) + 1] = e
  BY RecordedHolds
<1> HIDE DEF d
<1>2. c \in Caches /\ d \in Caches
  BY <1>1 DEF Holds
<1>3. /\ Len(c[k]) \in Nat /\ DOMAIN c[k] = 1..Len(c[k]) /\ DOMAIN d[k] = 1..Len(d[k])
  BY <1>2, PlacesOf
<1>4. CASE k # l
  <2>1. d[k] = c[k]
    BY <1>1, <1>4
  <2> QED BY <2>1 DEF Owed, d
<1>5. CASE k = l
  <2>1. Remembers(d[k], job[h].req)
    <3>1. PICK i \in DOMAIN c[k] : c[k][i].req = job[h].req
      BY DEF Owed, Remembers
    <3>2. i \in DOMAIN d[k] /\ d[k][i] = c[k][i]
      BY <1>1, <1>3, <1>5
    <3> QED BY <3>1, <3>2 DEF Remembers
  <2>2. ASSUME NEW i \in DOMAIN d[k], d[k][i].req = job[h].req PROVE ~d[k][i].charged
    <3>1. i \in 1..Len(c[k]) \/ i = Len(c[k]) + 1
      BY <1>1, <1>3, <1>5
    <3>2. CASE i \in 1..Len(c[k])
      <4>1. d[k][i] = c[k][i]
        BY <1>1, <1>5, <3>2
      <4> QED BY <1>3, <2>2, <3>2, <4>1 DEF Owed
    <3>3. CASE i = Len(c[k]) + 1
      <4>1. d[k][i] = e
        BY <1>1, <1>5, <3>3
      <4> QED BY <1>5, <2>2, <4>1
    <3> QED BY <3>1, <3>2, <3>3
  <2> QED BY <2>1, <2>2 DEF Owed, d
<1> QED BY <1>4, <1>5

\* A replay ages the memory and nothing else.
LEMMA EnterReplayedMem ==
    ASSUME IndInv, MemInv, NEW f, NEW r, NEW measured, EnterReplayed(f, r, measured)
    PROVE  MemInv'
<1>1. /\ pairs' \in Trimmed(Fresh(f.at)) /\ Forget(pairs', Running)
      /\ UNCHANGED <<pc, job>>
  BY DEF EnterReplayed, handlerVars
<1>2. Within(pairs', pairs) /\ Holds(pairs', Capacity - 1, PerLease)
  BY <1>1, TrimmedFresh
<1>3. Holds(pairs, Capacity, PerLease)'
  <2>1. Holds(pairs', Capacity, PerLease)
    BY <1>2, HoldsMore
  <2> QED BY <2>1 DEF Holds, CacheSize, Places
<1>4. RelaysOwed'
  <2> SUFFICES ASSUME NEW h \in Handlers, pc[h] = "entered"
               PROVE  /\ job[h].req \in ReqIds
                      /\ <<job[h].lease, job[h].req>> \notin forgotten' =>
                            /\ Owed(pairs', h)
                            /\ \A g \in Handlers : pc[g] = "entered" /\ job[g] = job[h] => g = h
    BY <1>1 DEF RelaysOwed, Owed
  <2>1. <<job[h].lease, job[h].req>> \in Running
    BY DEF Running
  <2> QED BY <1>1, <1>2, <2>1, KeptOwed DEF MemInv, RelaysOwed
<1>5. (forgotten \subseteq Running)'
  BY <1>1 DEF Forget, Running, MemInv
<1> QED BY <1>3, <1>4, <1>5 DEF MemInv

\* What an admission leaves of the relays that run already.
LEMMA AdmitOwed ==
    ASSUME IndInv, MemInv, NEW f \in Frames, NEW r \in ReqIds, Admit(f, r)
    PROVE  /\ Holds(pairs', Capacity, PerLease)
           /\ forgotten' \subseteq Running
           /\ \A h \in Handlers :
                 pc[h] = "entered" /\ <<job[h].lease, job[h].req>> \notin forgotten' =>
                    /\ Owed(pairs', h)
                    /\ \A g \in Handlers : pc[g] = "entered" /\ job[g] = job[h] => g = h
                    /\ <<job[h].lease, job[h].req>> # <<f.lease, r>>
           /\ Remembers(pairs'[f.lease], r)
           /\ \A i \in DOMAIN pairs'[f.lease] :
                 pairs'[f.lease][i].req = r => ~pairs'[f.lease][i].charged
<1> DEFINE l == f.lease
<1>1. l \in Leases /\ f.at \in Nat
  BY LedgerAssumption DEF Frames, IndInv, LedgerTyped
<1>2. PICK kept :
         /\ Within(kept, pairs) /\ Forget(kept, Running)
         /\ ~Remembers(kept[l], r)
         /\ pairs' = Recorded(kept, l, r, f.at, FALSE)
         /\ Holds(kept, Capacity - 1, PerLease)
         /\ Len(kept[l]) <= PerLease - 1
  BY AdmitKeeps
<1> DEFINE e == [req |-> r, at |-> f.at, charged |-> FALSE]
<1>3. e \in Entry /\ e.req = r /\ ~e.charged
  BY <1>1 DEF Entry
<1> DEFINE d == [kept EXCEPT ![l] = Append(@, e)]
<1>4. pairs' = d
  BY <1>2 DEF Recorded
<1> HIDE DEF e, l
<1>5. Holds(kept, Capacity - 1, PerLease) /\ Len(kept[l]) <= PerLease - 1
  BY <1>2
<1>6. /\ Holds(d, Capacity, PerLease)
      /\ Len(d[l]) = Len(kept[l]) + 1
      /\ \A i \in 1..Len(kept[l]) : d[l][i] = kept[l][i]
      /\ d[l][Len(kept[l]) + 1] = e
  BY <1>1, <1>3, <1>5, RecordedHolds
<1>7. /\ Holds(pairs', Capacity, PerLease)
      /\ Len(pairs'[l]) = Len(kept[l]) + 1
      /\ \A i \in 1..Len(kept[l]) : pairs'[l][i] = kept[l][i]
      /\ pairs'[l][Len(kept[l]) + 1] = e
  BY <1>4, <1>6
<1>8. ASSUME NEW h \in Handlers, pc[h] = "entered",
             <<job[h].lease, job[h].req>> \notin forgotten'
      PROVE  /\ Owed(pairs', h)
             /\ \A g \in Handlers : pc[g] = "entered" /\ job[g] = job[h] => g = h
             /\ <<job[h].lease, job[h].req>> # <<l, r>>
  <2>1. <<job[h].lease, job[h].req>> \in Running
    BY <1>8 DEF Running
  <2>2. /\ job[h].lease \in Leases /\ Owed(kept, h)
        /\ \A g \in Handlers : pc[g] = "entered" /\ job[g] = job[h] => g = h
    BY <1>2, <1>8, <2>1, KeptOwed
  <2>3. Owed(pairs', h)
    <3>1. Owed(d, h)
      BY <1>1, <1>3, <1>5, <2>2, RecordedOwed
    <3> QED BY <1>4, <3>1
  <2>4. <<job[h].lease, job[h].req>> # <<l, r>>
    BY <1>2, <2>2 DEF Owed
  <2> QED BY <2>2, <2>3, <2>4
<1>9. kept \in Caches /\ pairs' \in Caches
  BY <1>2, <1>7 DEF Holds
<1>10. /\ DOMAIN pairs'[l] = 1..Len(kept[l]) + 1 /\ Len(kept[l]) \in Nat
      /\ DOMAIN kept[l] = 1..Len(kept[l])
  BY <1>1, <1>7, <1>9, PlacesOf
<1>11. Remembers(pairs'[l], r)
  <2>1. Len(kept[l]) + 1 \in DOMAIN pairs'[l] /\ pairs'[l][Len(kept[l]) + 1].req = r
    BY <1>7, <1>10, <1>3
  <2> QED BY <2>1 DEF Remembers
<1>12. ASSUME NEW i \in DOMAIN pairs'[l], pairs'[l][i].req = r PROVE ~pairs'[l][i].charged
  <2>1. i \in 1..Len(kept[l]) \/ i = Len(kept[l]) + 1
    BY <1>10
  <2>2. i \notin 1..Len(kept[l])
    BY <1>2, <1>7, <1>10, <1>12 DEF Remembers
  <2>3. pairs'[l][i] = e
    BY <1>7, <2>1, <2>2
  <2> QED BY <1>3, <2>3
<1>13. forgotten' \subseteq Running
  BY <1>2 DEF Forget
<1> QED BY <1>7, <1>8, <1>11, <1>12, <1>13 DEF l

\* An admission the cap refuses records its pair.
LEMMA EnterFullMem ==
    ASSUME IndInv, MemInv, NEW f \in Frames, NEW r \in ReqIds, NEW measured,
           EnterFull(f, r, measured)
    PROVE  MemInv'
<1>1. Admit(f, r) /\ UNCHANGED <<pc, job>>
  BY DEF EnterFull, handlerVars
<1>2. Holds(pairs, Capacity, PerLease)'
  <2>1. Holds(pairs', Capacity, PerLease)
    BY <1>1, AdmitOwed
  <2> QED BY <2>1 DEF Holds, CacheSize, Places
<1>3. RelaysOwed'
  <2> SUFFICES ASSUME NEW h \in Handlers, pc[h] = "entered"
               PROVE  /\ job[h].req \in ReqIds
                      /\ <<job[h].lease, job[h].req>> \notin forgotten' =>
                            /\ Owed(pairs', h)
                            /\ \A g \in Handlers : pc[g] = "entered" /\ job[g] = job[h] => g = h
    BY <1>1 DEF RelaysOwed, Owed
  <2> QED BY <1>1, AdmitOwed DEF MemInv, RelaysOwed
<1>4. (forgotten \subseteq Running)'
  <2>1. forgotten' \subseteq Running
    BY <1>1, AdmitOwed
  <2> QED BY <1>1, <2>1 DEF Running, MemInv
<1> QED BY <1>2, <1>3, <1>4 DEF MemInv

\* An admission that enters adds a relay whose pair is new to what is kept.
LEMMA EnterRelayMem ==
    ASSUME IndInv, MemInv, NEW f \in Frames, NEW r \in ReqIds, NEW measured,
           NEW h \in Handlers, EnterRelay(h, f, r, measured)
    PROVE  MemInv'
<1>1. /\ Admit(f, r) /\ pc[h] = "idle"
      /\ pc' = [pc EXCEPT ![h] = "entered"]
      /\ job' = [job EXCEPT ![h] = [lease |-> f.lease, req |-> r]]
  BY DEF EnterRelay
<1>2. pc \in [Handlers -> {"idle", "entered"}] /\ DOMAIN job = Handlers
  BY DEF IndInv, LedgerTyped
<1>3. /\ pc'[h] = "entered" /\ job'[h] = [lease |-> f.lease, req |-> r]
      /\ \A g \in Handlers \ {h} : pc'[g] = pc[g] /\ job'[g] = job[g]
      /\ job'[h].lease = f.lease /\ job'[h].req = r
  BY <1>1, <1>2
<1>4. Holds(pairs, Capacity, PerLease)'
  <2>1. Holds(pairs', Capacity, PerLease)
    BY <1>1, AdmitOwed
  <2> QED BY <2>1 DEF Holds, CacheSize, Places
<1>5. \A g \in Handlers : pc[g] = "entered" => g # h /\ pc'[g] = "entered" /\ job'[g] = job[g]
  BY <1>1, <1>3
<1>6. RelaysOwed'
  <2> SUFFICES ASSUME NEW g \in Handlers, pc'[g] = "entered"
               PROVE  /\ job'[g].req \in ReqIds
                      /\ <<job'[g].lease, job'[g].req>> \notin forgotten' =>
                            /\ Owed(pairs, g)'
                            /\ \A k \in Handlers : pc'[k] = "entered" /\ job'[k] = job'[g] => k = g
    BY DEF RelaysOwed
  <2>1. CASE g = h
    <3>1. job'[g].req \in ReqIds
      BY <1>3, <2>1
    <3>2. Owed(pairs, g)'
      BY <1>1, <1>3, <2>1, AdmitOwed DEF Owed
    <3>3. ASSUME <<job'[g].lease, job'[g].req>> \notin forgotten',
                 NEW k \in Handlers, pc'[k] = "entered", job'[k] = job'[g], k # g
          PROVE  FALSE
      <4>1. pc[k] = "entered" /\ job[k] = job'[h]
        BY <1>3, <2>1, <3>3
      <4>2. <<job[k].lease, job[k].req>> = <<f.lease, r>>
        BY <1>3, <4>1
      <4>3. <<job[k].lease, job[k].req>> \notin forgotten'
        BY <2>1, <3>3, <4>1
      <4> QED BY <1>1, <4>1, <4>2, <4>3, AdmitOwed
    <3> QED BY <3>1, <3>2, <3>3
  <2>2. CASE g # h
    <3>1. pc[g] = "entered" /\ job'[g] = job[g]
      BY <1>3, <2>2
    <3>2. job[g].req \in ReqIds
      BY <3>1 DEF MemInv, RelaysOwed
    <3>3. ASSUME <<job[g].lease, job[g].req>> \notin forgotten'
          PROVE  /\ Owed(pairs, g)'
                 /\ \A k \in Handlers : pc'[k] = "entered" /\ job'[k] = job'[g] => k = g
      <4>1. /\ Owed(pairs', g)
            /\ \A k \in Handlers : pc[k] = "entered" /\ job[k] = job[g] => k = g
            /\ <<job[g].lease, job[g].req>> # <<f.lease, r>>
        BY <1>1, <3>1, <3>3, AdmitOwed
      <4>2. Owed(pairs, g)'
        BY <3>1, <4>1 DEF Owed
      <4>3. ASSUME NEW k \in Handlers, pc'[k] = "entered", job'[k] = job'[g] PROVE k = g
        <5>1. k # h
          BY <1>3, <3>1, <4>1, <4>3
        <5> QED BY <1>3, <3>1, <4>1, <4>3, <5>1
      <4> QED BY <4>2, <4>3
    <3> QED BY <3>1, <3>2, <3>3
  <2> QED BY <2>1, <2>2
<1>7. (forgotten \subseteq Running)'
  <2>1. forgotten' \subseteq Running
    BY <1>1, AdmitOwed
  <2>2. Running \subseteq Running'
    BY <1>5 DEF Running
  <2> QED BY <2>1, <2>2
<1> QED BY <1>4, <1>6, <1>7 DEF MemInv

\* The handlers after one has closed.
LEMMA CloseLeaves ==
    ASSUME IndInv, NEW h \in Handlers, pc[h] = "entered", Close(h)
    PROVE  /\ \A g \in Handlers :
                 pc'[g] = "entered" <=> pc[g] = "entered" /\ g # h
           /\ \A g \in Handlers : pc'[g] = "entered" =>
                 job'[g] = job[g] /\ <<job[g].lease, job[g].req>> \in Running'
<1>1. pc \in [Handlers -> {"idle", "entered"}] /\ DOMAIN job = Handlers
  BY DEF IndInv, LedgerTyped
<1>2. /\ pc'[h] = "idle"
      /\ \A g \in Handlers \ {h} : pc'[g] = pc[g] /\ job'[g] = job[g]
  BY <1>1 DEF Close
<1>3. \A g \in Handlers : pc'[g] = "entered" <=> pc[g] = "entered" /\ g # h
  BY <1>2
<1>4. ASSUME NEW g \in Handlers, pc'[g] = "entered"
      PROVE  job'[g] = job[g] /\ <<job[g].lease, job[g].req>> \in Running'
  <2>1. job'[g] = job[g]
    BY <1>2, <1>4
  <2>2. <<job'[g].lease, job'[g].req>> \in Running'
    BY <1>4 DEF Running
  <2> QED BY <2>1, <2>2
<1> QED BY <1>3, <1>4

\* An abort forgets nothing about the relays that go on.
LEMMA RelayAbortedMem ==
    ASSUME IndInv, MemInv, NEW h \in Handlers, RelayAborted(h)
    PROVE  MemInv'
<1>1. /\ pc[h] = "entered" /\ Close(h) /\ Forget(pairs, Running')
      /\ UNCHANGED pairs
  BY DEF RelayAborted
<1>2. Within(pairs, pairs)
  BY WithinReflexive DEF MemInv, Holds
<1>3. Holds(pairs, Capacity, PerLease)'
  BY <1>1 DEF MemInv, Holds, CacheSize, Places
<1>4. RelaysOwed'
  <2> SUFFICES ASSUME NEW g \in Handlers, pc'[g] = "entered"
               PROVE  /\ job'[g].req \in ReqIds
                      /\ <<job'[g].lease, job'[g].req>> \notin forgotten' =>
                            /\ Owed(pairs, g)'
                            /\ \A k \in Handlers : pc'[k] = "entered" /\ job'[k] = job'[g] => k = g
    BY DEF RelaysOwed
  <2>1. /\ pc[g] = "entered" /\ job'[g] = job[g]
        /\ <<job[g].lease, job[g].req>> \in Running'
    BY <1>1, CloseLeaves
  <2>2. job[g].req \in ReqIds
    BY <2>1 DEF MemInv, RelaysOwed
  <2>3. ASSUME <<job[g].lease, job[g].req>> \notin forgotten'
        PROVE  /\ Owed(pairs, g)'
               /\ \A k \in Handlers : pc'[k] = "entered" /\ job'[k] = job'[g] => k = g
    <3>1. /\ Owed(pairs, g)
          /\ \A k \in Handlers : pc[k] = "entered" /\ job[k] = job[g] => k = g
      BY <1>1, <1>2, <2>1, <2>3, KeptOwed
    <3>2. Owed(pairs, g)'
      BY <1>1, <2>1, <3>1 DEF Owed
    <3>3. \A k \in Handlers : pc'[k] = "entered" => pc[k] = "entered" /\ job'[k] = job[k]
      BY <1>1, CloseLeaves
    <3> QED BY <2>1, <3>1, <3>2, <3>3
  <2> QED BY <2>1, <2>2, <2>3
<1>5. (forgotten \subseteq Running)'
  BY <1>1 DEF Forget, MemInv
<1> QED BY <1>3, <1>4, <1>5 DEF MemInv

\* A boot remembers nothing and runs nothing.
LEMMA RestartMem ==
    ASSUME MemInv, NEW room, Restart(room)
    PROVE  MemInv'
<1>1. /\ pairs' = [l \in Leases |-> <<>>] /\ pc' = [h \in Handlers |-> "idle"]
      /\ forgotten' = {}
  BY DEF Restart
<1>2. Holds(pairs', Capacity, PerLease)
  <2>1. pairs' \in Caches /\ \A l \in Leases : Len(pairs'[l]) = 0
    BY <1>1 DEF Caches
  <2>2. Places(pairs') = {}
    BY <2>1, PlacesOf
  <2>3. IsFiniteSet(Places(pairs')) /\ CacheSize(pairs') = 0
    BY <2>2, FS_EmptySet DEF CacheSize
  <2> QED BY <2>1, <2>3, LedgerAssumption DEF Holds
<1>3. Holds(pairs, Capacity, PerLease)'
  BY <1>2 DEF Holds, CacheSize, Places
<1>4. RelaysOwed' /\ (forgotten \subseteq Running)'
  BY <1>1 DEF RelaysOwed, MemInv
<1> QED BY <1>3, <1>4 DEF MemInv

\* mark_charged on a pair it remembers: one entry turns charged in its place.
LEMMA MarkInPlace ==
    ASSUME MemInv, NEW l \in Leases, NEW i \in DOMAIN pairs[l]
    PROVE  LET c == [pairs EXCEPT ![l][i].charged = TRUE]
           IN  /\ Holds(c, Capacity, PerLease)
               /\ \A k \in Leases : DOMAIN c[k] = DOMAIN pairs[k]
               /\ \A k \in Leases : \A n \in DOMAIN pairs[k] :
                     /\ c[k][n].req = pairs[k][n].req
                     /\ <<k, n>> # <<l, i>> => c[k][n] = pairs[k][n]
<1> DEFINE c == [pairs EXCEPT ![l][i].charged = TRUE]
           e == [pairs[l][i] EXCEPT !.charged = TRUE]
           q == [pairs[l] EXCEPT ![i] = e]
<1>1. pairs \in Caches /\ IsFiniteSet(Places(pairs)) /\ CacheSize(pairs) <= Capacity
  BY DEF MemInv, Holds
<1>2. /\ DOMAIN pairs = Leases /\ pairs[l] \in Seq(Entry)
      /\ \A k \in Leases : Len(pairs[k]) \in Nat /\ DOMAIN pairs[k] = 1..Len(pairs[k])
  BY <1>1, PlacesOf
<1>3. pairs[l][i] \in Entry
  BY <1>2, ElementOfSeq
<1>4. e \in Entry /\ e.req = pairs[l][i].req
  BY <1>3 DEF Entry
<1>5. c = [pairs EXCEPT ![l] = q]
  OBVIOUS
<1> HIDE DEF e, c
<1>6. /\ q \in Seq(Entry) /\ Len(q) = Len(pairs[l])
      /\ \A n \in 1..Len(pairs[l]) : q[n] = IF n = i THEN e ELSE pairs[l][n]
  BY <1>2, <1>4, ExceptSeq
<1> HIDE DEF q
<1>7. c \in Caches /\ c[l] = q /\ \A k \in Leases \ {l} : c[k] = pairs[k]
  BY <1>1, <1>2, <1>5, <1>6 DEF Caches
<1>8. \A k \in Leases : Len(c[k]) = Len(pairs[k])
  BY <1>6, <1>7
<1>9. \A k \in Leases : DOMAIN c[k] = DOMAIN pairs[k]
  BY <1>2, <1>7, <1>8, PlacesOf
<1>10. Places(c) = Places(pairs)
  BY <1>1, <1>7, <1>8, PlacesOf
<1>11. Holds(c, Capacity, PerLease)
  BY <1>1, <1>7, <1>8, <1>10 DEF MemInv, Holds, CacheSize
<1>12. ASSUME NEW k \in Leases, NEW n \in DOMAIN pairs[k]
       PROVE  /\ c[k][n].req = pairs[k][n].req
              /\ <<k, n>> # <<l, i>> => c[k][n] = pairs[k][n]
  <2>1. CASE k = l /\ n = i
    <3>1. c[k][n] = e
      BY <1>2, <1>6, <1>7, <2>1
    <3> QED BY <1>4, <2>1, <3>1
  <2>2. CASE k = l /\ n # i
    <3>1. c[k][n] = pairs[k][n]
      BY <1>2, <1>6, <1>7, <2>2
    <3> QED BY <3>1
  <2>3. CASE k # l
    <3>1. c[k] = pairs[k]
      BY <1>7, <2>3
    <3> QED BY <3>1
  <2> QED BY <2>1, <2>2, <2>3
<1> QED BY <1>9, <1>11, <1>12 DEF c

\* What mark_charged may do: the memory stays bounded, other relays stay owed,
\* and a pair that is owed is charged now.
LEMMA MarkCases ==
    ASSUME IndInv, MemInv, NEW l \in Leases, NEW r \in ReqIds, NEW mark \in MarkCharged(l, r)
    PROVE  /\ Within(mark.kept, pairs)
           /\ Holds(mark.cache, Capacity, PerLease)
           /\ \A g \in Handlers :
                 /\ job[g].lease \in Leases /\ Owed(mark.kept, g)
                 /\ <<job[g].lease, job[g].req>> # <<l, r>>
                 => Owed(mark.cache, g)
           /\ \A h \in Handlers :
                 job[h].lease = l /\ job[h].req = r /\ Owed(pairs, h) => mark.new
<1>1. pairs \in Caches
  BY DEF MemInv, Holds
<1>2. CASE Remembers(pairs[l], r)
  <2> DEFINE i == CHOOSE n \in DOMAIN pairs[l] : pairs[l][n].req = r
             c == [pairs EXCEPT ![l][i].charged = TRUE]
  <2>1. i \in DOMAIN pairs[l] /\ pairs[l][i].req = r
    BY <1>2 DEF Remembers
  <2>2. mark = [new |-> ~pairs[l][i].charged, kept |-> pairs, cache |-> c]
    BY <1>2 DEF MarkCharged
  <2> HIDE DEF i
  <2>3. mark.kept = pairs /\ mark.cache = c
    BY <2>2
  <2>4. Within(mark.kept, pairs)
    BY <1>1, <2>3, WithinReflexive
  <2>5. /\ Holds(c, Capacity, PerLease)
        /\ \A k \in Leases : DOMAIN c[k] = DOMAIN pairs[k]
        /\ \A k \in Leases : \A n \in DOMAIN pairs[k] :
              /\ c[k][n].req = pairs[k][n].req
              /\ <<k, n>> # <<l, i>> => c[k][n] = pairs[k][n]
    BY <2>1, MarkInPlace
  <2> HIDE DEF c
  <2>6. ASSUME NEW g \in Handlers, job[g].lease \in Leases, Owed(pairs, g),
               <<job[g].lease, job[g].req>> # <<l, r>>
        PROVE  Owed(c, g)
    <3> DEFINE k == job[g].lease
    <3>1. Remembers(c[k], job[g].req)
      BY <2>5, <2>6 DEF Owed, Remembers
    <3>2. ASSUME NEW n \in DOMAIN c[k], c[k][n].req = job[g].req PROVE ~c[k][n].charged
      <4>1. n \in DOMAIN pairs[k] /\ pairs[k][n].req = job[g].req
        BY <2>5, <2>6, <3>2
      <4>2. <<k, n>> # <<l, i>>
        BY <2>1, <2>6, <4>1
      <4>3. c[k][n] = pairs[k][n]
        BY <2>5, <2>6, <4>1, <4>2
      <4> QED BY <2>6, <4>1, <4>3 DEF Owed
    <3> QED BY <3>1, <3>2 DEF Owed
  <2>7. ASSUME NEW h \in Handlers, job[h].lease = l, job[h].req = r, Owed(pairs, h)
        PROVE  mark.new
    <3>1. ~pairs[l][i].charged
      BY <2>1, <2>7 DEF Owed
    <3> QED BY <2>2, <3>1
  <2> QED BY <2>3, <2>4, <2>5, <2>6, <2>7
<1>3. CASE ~Remembers(pairs[l], r)
  <2>1. PICK cache \in Trimmed(Fresh(now)) :
           mark = [new |-> TRUE, kept |-> Roomy(cache, l),
                   cache |-> Recorded(Roomy(cache, l), l, r, now, TRUE)]
    BY <1>3 DEF MarkCharged
  <2> DEFINE kept == Roomy(cache, l)
             e == [req |-> r, at |-> now, charged |-> TRUE]
             c == [kept EXCEPT ![l] = Append(@, e)]
  <2>2. mark.new /\ mark.kept = kept /\ mark.cache = c
    BY <2>1 DEF Recorded
  <2>3. e \in Entry /\ e.req = r
    BY DEF Entry, IndInv, LedgerTyped
  <2>4. Within(cache, pairs) /\ Holds(cache, Capacity - 1, PerLease)
    BY TrimmedFresh
  <2>5. /\ Within(kept, cache) /\ Holds(kept, Capacity - 1, PerLease)
        /\ Len(kept[l]) <= PerLease - 1
    <3>1. Capacity - 1 \in Nat
      BY LedgerAssumption
    <3> QED BY <2>4, <3>1, RoomyWithin
  <2> HIDE DEF kept, e
  <2>6. Within(kept, pairs)
    BY <1>1, <2>4, <2>5, WithinTransitive
  <2>7. Holds(c, Capacity, PerLease)
    BY <2>3, <2>5, RecordedHolds
  <2>8. ASSUME NEW g \in Handlers, job[g].lease \in Leases, Owed(kept, g),
               <<job[g].lease, job[g].req>> # <<l, r>>
        PROVE  Owed(c, g)
    BY <2>3, <2>5, <2>8, RecordedOwed
  <2> HIDE DEF c
  <2> QED BY <2>2, <2>6, <2>7, <2>8
<1> QED BY <1>2, <1>3

\* An answer charges its relay and leaves the others owed.
LEMMA AnsweredMem ==
    ASSUME IndInv, MemInv, NEW h \in Handlers, NEW rise, Answered(h, rise)
    PROVE  MemInv'
<1> DEFINE l == job[h].lease
           r == job[h].req
<1>1. /\ pc[h] = "entered" /\ Close(h)
      /\ \E mark \in MarkCharged(l, r) :
            pairs' = mark.cache /\ Forget(mark.kept, Running')
  BY DEF Answered
<1>2. PICK mark \in MarkCharged(l, r) :
         pairs' = mark.cache /\ Forget(mark.kept, Running')
  BY <1>1
<1>3. l \in Leases /\ r \in ReqIds
  BY <1>1 DEF IndInv, JobsGranted, LedgerTyped, MemInv, RelaysOwed
<1>4. /\ Within(mark.kept, pairs)
      /\ Holds(mark.cache, Capacity, PerLease)
      /\ \A g \in Handlers :
            /\ job[g].lease \in Leases /\ Owed(mark.kept, g)
            /\ <<job[g].lease, job[g].req>> # <<l, r>>
            => Owed(mark.cache, g)
      /\ Owed(pairs, h) => mark.new
  BY <1>3, MarkCases
<1>5. Holds(pairs, Capacity, PerLease)'
  <2>1. Holds(pairs', Capacity, PerLease)
    BY <1>2, <1>4
  <2> QED BY <2>1 DEF Holds, CacheSize, Places
<1>6. RelaysOwed'
  <2> SUFFICES ASSUME NEW g \in Handlers, pc'[g] = "entered"
               PROVE  /\ job'[g].req \in ReqIds
                      /\ <<job'[g].lease, job'[g].req>> \notin forgotten' =>
                            /\ Owed(pairs, g)'
                            /\ \A k \in Handlers : pc'[k] = "entered" /\ job'[k] = job'[g] => k = g
    BY DEF RelaysOwed
  <2>1. /\ pc[g] = "entered" /\ g # h /\ job'[g] = job[g]
        /\ <<job[g].lease, job[g].req>> \in Running'
    BY <1>1, CloseLeaves
  <2>2. job[g].req \in ReqIds
    BY <2>1 DEF MemInv, RelaysOwed
  <2>3. ASSUME <<job[g].lease, job[g].req>> \notin forgotten'
        PROVE  /\ Owed(pairs, g)'
               /\ \A k \in Handlers : pc'[k] = "entered" /\ job'[k] = job'[g] => k = g
    <3>1. /\ job[g].lease \in Leases /\ Owed(mark.kept, g)
          /\ \A k \in Handlers : pc[k] = "entered" /\ job[k] = job[g] => k = g
      BY <1>2, <1>4, <2>1, <2>3, KeptOwed
    <3>2. <<job[g].lease, job[g].req>> # <<l, r>>
      <4>1. job[g] # job[h]
        BY <1>1, <2>1, <3>1
      <4>2. /\ job[g] \in [lease : Leases \cup {NoRoom}, req : ReqIds \cup {NoRoom}]
            /\ job[h] \in [lease : Leases \cup {NoRoom}, req : ReqIds \cup {NoRoom}]
        BY DEF IndInv, LedgerTyped
      <4> QED BY <4>1, <4>2
    <3>3. Owed(pairs', g)
      BY <1>2, <1>4, <3>1, <3>2
    <3>4. Owed(pairs, g)'
      BY <2>1, <3>3 DEF Owed
    <3>5. \A k \in Handlers : pc'[k] = "entered" => pc[k] = "entered" /\ job'[k] = job[k]
      BY <1>1, CloseLeaves
    <3> QED BY <2>1, <3>1, <3>4, <3>5
  <2> QED BY <2>1, <2>2, <2>3
<1>7. (forgotten \subseteq Running)'
  BY <1>2 DEF Forget
<1> QED BY <1>5, <1>6, <1>7 DEF MemInv

\* Every step keeps it.
LEMMA MemStep ==
    ASSUME IndInv, MemInv, [Next]_vars
    PROVE  MemInv'
<1> DEFINE memVars == <<pairs, pc, job, forgotten>>
<1>1. ASSUME UNCHANGED vars \/ Flush \/ Tick PROVE UNCHANGED memVars
  BY <1>1 DEF vars, Flush, Tick, handlerVars, historyVars
<1>2. ASSUME NEW p \in Peers, NEW measured \in Measured, NEW handable \in Handable(p),
             NEW l \in Leases, Grant(p, l, measured, handable)
      PROVE  UNCHANGED memVars
  BY <1>2 DEF Grant, handlerVars, historyVars
<1>3. ASSUME NEW p \in Peers, NEW measured \in Measured, NEW handable \in Handable(p),
             GrantRefused(p, measured, handable)
      PROVE  UNCHANGED memVars
  BY <1>3 DEF GrantRefused, handlerVars, historyVars
<1>4. ASSUME NEW l \in Leases, NEW hinted \in 1..MaxHint, UsageHint(l, hinted)
      PROVE  UNCHANGED memVars
  BY <1>4 DEF UsageHint, handlerVars
<1>5. ASSUME NEW f \in Frames, NEW measured \in Measured, EnterRefused(f, measured)
      PROVE  UNCHANGED memVars
  BY <1>5 DEF EnterRefused, handlerVars, historyVars
<1>6. ASSUME NEW room \in Rooms, NoteOwnerHeadroom(room) PROVE UNCHANGED memVars
  BY <1>6 DEF NoteOwnerHeadroom, handlerVars, historyVars
<1>7. CASE UNCHANGED memVars
  BY <1>7, MemUnchanged
<1>8. ASSUME NEW f \in Frames, NEW measured \in Measured, NEW r \in ReqIds,
             \/ EnterReplayed(f, r, measured) \/ EnterFull(f, r, measured)
             \/ \E h \in Handlers : EnterRelay(h, f, r, measured)
      PROVE  MemInv'
  BY <1>8, EnterReplayedMem, EnterFullMem, EnterRelayMem
<1>9. ASSUME NEW h \in Handlers,
             RelayAborted(h) \/ \E rise \in 0..MaxRise : Answered(h, rise)
      PROVE  MemInv'
  BY <1>9, RelayAbortedMem, AnsweredMem
<1>10. ASSUME NEW room \in Rooms, Restart(room) PROVE MemInv'
  BY <1>10, RestartMem
<1> HIDE DEF memVars
<1> QED
  BY <1>1, <1>2, <1>3, <1>4, <1>5, <1>6, <1>7, <1>8, <1>9, <1>10
     DEF Next, Lending, Entering, Leaving

\* A ledger that was restored from nothing remembers nothing.
LEMMA MemInit == Init => MemInv
<1> SUFFICES ASSUME Init PROVE MemInv
  OBVIOUS
<1>1. /\ pairs = [l \in Leases |-> <<>>] /\ pc = [h \in Handlers |-> "idle"]
      /\ forgotten = {}
  BY DEF Init
<1>2. Holds(pairs, Capacity, PerLease)
  <2>1. pairs \in Caches /\ \A l \in Leases : Len(pairs[l]) = 0
    BY <1>1 DEF Caches
  <2>2. Places(pairs) = {}
    BY <2>1, PlacesOf
  <2>3. IsFiniteSet(Places(pairs)) /\ CacheSize(pairs) = 0
    BY <2>2, FS_EmptySet DEF CacheSize
  <2> QED BY <2>1, <2>3, LedgerAssumption DEF Holds
<1> QED BY <1>1, <1>2 DEF MemInv, RelaysOwed

\* The memory of pairs: bounded, and every relay in flight that it still knows
\* is to be charged once.
THEOREM MemoryInvariant == Spec => []MemInv
<1>1. IndInv /\ MemInv /\ [Next]_vars => MemInv'
  BY MemStep
<1> QED BY LedgerInvariant, MemInit, <1>1, PTL DEF Spec

-----------------------------------------------------------------------------
(***************************************************************************)
(* Answers are paid for.                                                   *)
(***************************************************************************)

\* The cache remembers request r of lease l as charged.
ChargedIn(cache, l, r) ==
    \E i \in DOMAIN cache[l] : cache[l][i].req = r /\ cache[l][i].charged

\* What the memory has down as charged while a relay runs under it was charged
\* while it ran.
PaidUp ==
    \A h \in Handlers :
        /\ pc[h] = "entered" /\ job[h].lease \in held
        /\ ChargedIn(pairs, job[h].lease, job[h].req)
        => <<job[h].lease, job[h].req>> \in paid

PaidInv == unpaid = FALSE /\ paid \subseteq Running /\ PaidUp

\* What is dropped is not charged.
LEMMA WithinCharged ==
    ASSUME pairs \in Caches, NEW kept, Within(kept, pairs), NEW l \in Leases, NEW r,
           ChargedIn(kept, l, r)
    PROVE  ChargedIn(pairs, l, r)
<1>1. kept \in Caches
  BY DEF Within
<1>2. DOMAIN kept[l] = 1..Len(kept[l]) /\ DOMAIN pairs[l] = 1..Len(pairs[l])
  BY <1>1, PlacesOf
<1>3. PICK n \in DOMAIN kept[l] : kept[l][n].req = r /\ kept[l][n].charged
  BY DEF ChargedIn
<1>4. \A m \in 1..Len(kept[l]) : \E i \in 1..Len(pairs[l]) : kept[l][m] = pairs[l][i]
  BY DEF Within
<1>5. PICK i \in DOMAIN pairs[l] : kept[l][n] = pairs[l][i]
  BY <1>2, <1>4
<1> QED BY <1>3, <1>5 DEF ChargedIn

\* Recording a pair charges no other.
LEMMA RecordedCharged ==
    ASSUME NEW c, Holds(c, Capacity - 1, PerLease), NEW l \in Leases,
           Len(c[l]) <= PerLease - 1, NEW e \in Entry, NEW k \in Leases, NEW r,
           ChargedIn([c EXCEPT ![l] = Append(@, e)], k, r)
    PROVE  ChargedIn(c, k, r) \/ (k = l /\ e.req = r /\ e.charged)
<1> DEFINE d == [c EXCEPT ![l] = Append(@, e)]
<1>1. /\ Holds(d, Capacity, PerLease)
      /\ \A m \in Leases \ {l} : d[m] = c[m]
      /\ Len(d[l]) = Len(c[l]) + 1
      /\ \A i \in 1..Len(c[l]) : d[l][i] = c[l][i]
      /\ d[l][Len(c[l]) + 1] = e
  BY RecordedHolds
<1>2. ChargedIn(d, k, r)
  OBVIOUS
<1> HIDE DEF d
<1>3. c \in Caches /\ d \in Caches
  BY <1>1 DEF Holds
<1>4. /\ Len(c[k]) \in Nat /\ DOMAIN c[k] = 1..Len(c[k]) /\ DOMAIN d[k] = 1..Len(d[k])
  BY <1>3, PlacesOf
<1>5. PICK i \in DOMAIN d[k] : d[k][i].req = r /\ d[k][i].charged
  BY <1>2 DEF ChargedIn
<1>6. CASE k # l
  BY <1>1, <1>5, <1>6 DEF ChargedIn
<1>7. CASE k = l
  <2>1. i \in 1..Len(c[k]) \/ i = Len(c[k]) + 1
    BY <1>1, <1>4, <1>7
  <2>2. CASE i \in 1..Len(c[k])
    <3>1. d[k][i] = c[k][i]
      BY <1>1, <1>7, <2>2
    <3> QED BY <1>4, <1>5, <2>2, <3>1 DEF ChargedIn
  <2>3. CASE i = Len(c[k]) + 1
    <3>1. d[k][i] = e
      BY <1>1, <1>7, <2>3
    <3> QED BY <1>5, <1>7, <3>1
  <2> QED BY <2>1, <2>2, <2>3
<1> QED BY <1>6, <1>7

\* mark_charged charges its own pair and no other, and says no only where the
\* memory has it as charged.
LEMMA MarkPays ==
    ASSUME IndInv, MemInv, NEW l \in Leases, NEW r \in ReqIds, NEW mark \in MarkCharged(l, r)
    PROVE  /\ ~mark.new => ChargedIn(pairs, l, r)
           /\ \A k \in Leases, q \in ReqIds : ChargedIn(mark.cache, k, q) =>
                 ChargedIn(pairs, k, q) \/ (k = l /\ q = r)
<1>1. pairs \in Caches
  BY DEF MemInv, Holds
<1>2. CASE Remembers(pairs[l], r)
  <2> DEFINE i == CHOOSE n \in DOMAIN pairs[l] : pairs[l][n].req = r
             c == [pairs EXCEPT ![l][i].charged = TRUE]
  <2>1. i \in DOMAIN pairs[l] /\ pairs[l][i].req = r
    BY <1>2 DEF Remembers
  <2>2. mark = [new |-> ~pairs[l][i].charged, kept |-> pairs, cache |-> c]
    BY <1>2 DEF MarkCharged
  <2> HIDE DEF i
  <2>3. mark.cache = c /\ (mark.new <=> ~pairs[l][i].charged)
    BY <2>2
  <2>4. /\ \A k \in Leases : DOMAIN c[k] = DOMAIN pairs[k]
        /\ \A k \in Leases : \A n \in DOMAIN pairs[k] :
              /\ c[k][n].req = pairs[k][n].req
              /\ <<k, n>> # <<l, i>> => c[k][n] = pairs[k][n]
    BY <2>1, MarkInPlace
  <2> HIDE DEF c
  <2>5. ASSUME NEW k \in Leases, NEW q \in ReqIds, ChargedIn(c, k, q)
        PROVE  ChargedIn(pairs, k, q) \/ (k = l /\ q = r)
    <3>1. PICK n \in DOMAIN pairs[k] : c[k][n].req = q /\ c[k][n].charged
      BY <2>4, <2>5 DEF ChargedIn
    <3>2. CASE <<k, n>> = <<l, i>>
      BY <2>1, <2>4, <3>1, <3>2
    <3>3. CASE <<k, n>> # <<l, i>>
      BY <2>4, <3>1, <3>3 DEF ChargedIn
    <3> QED BY <3>2, <3>3
  <2>6. ~mark.new => ChargedIn(pairs, l, r)
    BY <2>1, <2>3 DEF ChargedIn
  <2> QED BY <2>3, <2>5, <2>6
<1>3. CASE ~Remembers(pairs[l], r)
  <2>1. PICK cache \in Trimmed(Fresh(now)) :
           mark = [new |-> TRUE, kept |-> Roomy(cache, l),
                   cache |-> Recorded(Roomy(cache, l), l, r, now, TRUE)]
    BY <1>3 DEF MarkCharged
  <2> DEFINE kept == Roomy(cache, l)
             e == [req |-> r, at |-> now, charged |-> TRUE]
             c == [kept EXCEPT ![l] = Append(@, e)]
  <2>2. mark.new /\ mark.cache = c
    BY <2>1 DEF Recorded
  <2>3. e \in Entry /\ e.req = r
    BY DEF Entry, IndInv, LedgerTyped
  <2>4. Within(cache, pairs) /\ Holds(cache, Capacity - 1, PerLease)
    BY TrimmedFresh
  <2>5. /\ Within(kept, cache) /\ Holds(kept, Capacity - 1, PerLease)
        /\ Len(kept[l]) <= PerLease - 1
    <3>1. Capacity - 1 \in Nat
      BY LedgerAssumption
    <3> QED BY <2>4, <3>1, RoomyWithin
  <2> HIDE DEF kept, e
  <2>6. Within(kept, pairs)
    BY <1>1, <2>4, <2>5, WithinTransitive
  <2>7. ASSUME NEW k \in Leases, NEW q \in ReqIds, ChargedIn(c, k, q)
        PROVE  ChargedIn(pairs, k, q) \/ (k = l /\ q = r)
    <3>1. ChargedIn(kept, k, q) \/ (k = l /\ e.req = q)
      BY <2>3, <2>5, <2>7, RecordedCharged
    <3> QED BY <1>1, <2>3, <2>6, <3>1, WithinCharged
  <2> HIDE DEF c
  <2> QED BY <2>2, <2>7
<1> QED BY <1>2, <1>3

\* An admission charges nothing, and its own pair was not remembered.
LEMMA AdmitPays ==
    ASSUME IndInv, MemInv, NEW f \in Frames, NEW r \in ReqIds, Admit(f, r)
    PROVE  /\ f.lease \in Leases
           /\ \A k \in Leases, q \in ReqIds : ChargedIn(pairs', k, q) => ChargedIn(pairs, k, q)
           /\ ~ChargedIn(pairs', f.lease, r)
<1>1. f.lease \in Leases /\ f.at \in Nat /\ pairs \in Caches
  BY LedgerAssumption DEF Frames, IndInv, LedgerTyped, MemInv, Holds
<1>2. PICK kept :
         /\ Within(kept, pairs)
         /\ pairs' = Recorded(kept, f.lease, r, f.at, FALSE)
         /\ Holds(kept, Capacity - 1, PerLease)
         /\ Len(kept[f.lease]) <= PerLease - 1
  BY AdmitKeeps
<1> DEFINE e == [req |-> r, at |-> f.at, charged |-> FALSE]
<1>3. e \in Entry /\ ~e.charged
  BY <1>1 DEF Entry
<1>4. pairs' = [kept EXCEPT ![f.lease] = Append(@, e)]
  BY <1>2 DEF Recorded
<1> HIDE DEF e
<1>5. ASSUME NEW k \in Leases, NEW q \in ReqIds, ChargedIn(pairs', k, q)
      PROVE  ChargedIn(pairs, k, q)
  <2>1. ChargedIn([kept EXCEPT ![f.lease] = Append(@, e)], k, q)
    BY <1>4, <1>5
  <2>2. ChargedIn(kept, k, q)
    BY <1>1, <1>2, <1>3, <2>1, RecordedCharged
  <2> QED BY <1>1, <1>2, <2>2, WithinCharged
<1>6. ~ChargedIn(pairs', f.lease, r)
  BY AdmitOwed DEF ChargedIn
<1> QED BY <1>1, <1>5, <1>6

\* Whoever is paid up stays paid up while no running relay's pair is charged.
LEMMA NothingCharged ==
    ASSUME IndInv, MemInv, PaidInv,
           UNCHANGED <<paid, unpaid>>, Running \subseteq Running',
           \A h \in Handlers : pc'[h] = "entered" /\ job'[h].lease \in held' =>
              \/ ~ChargedIn(pairs', job'[h].lease, job'[h].req)
              \/ /\ pc[h] = "entered" /\ job'[h] = job[h] /\ job[h].lease \in held
                 /\ ChargedIn(pairs', job[h].lease, job[h].req)
                       => ChargedIn(pairs, job[h].lease, job[h].req)
    PROVE  PaidInv'
<1>1. PaidUp'
  <2> SUFFICES ASSUME NEW h \in Handlers, pc'[h] = "entered", job'[h].lease \in held',
                      ChargedIn(pairs', job'[h].lease, job'[h].req)
               PROVE  <<job'[h].lease, job'[h].req>> \in paid'
    BY DEF PaidUp, ChargedIn
  <2> QED BY DEF PaidInv, PaidUp
<1> QED BY <1>1 DEF PaidInv

\* Entering, refused or not, charges nothing.
LEMMA EnteringPays ==
    ASSUME IndInv, MemInv, PaidInv, NEW f \in Frames, NEW r \in ReqIds, NEW measured,
           \/ EnterReplayed(f, r, measured) \/ EnterFull(f, r, measured)
           \/ \E h \in Handlers : EnterRelay(h, f, r, measured)
    PROVE  PaidInv'
<1>1. UNCHANGED <<held, paid, unpaid>>
  BY DEF EnterReplayed, EnterFull, EnterRelay, ledgerVars
<1>2. pairs \in Caches /\ \A h \in Handlers : pc[h] = "entered" =>
         job[h].lease \in Leases /\ job[h].req \in ReqIds
  BY DEF MemInv, Holds, RelaysOwed, IndInv, JobsGranted, LedgerTyped
<1>3. CASE EnterReplayed(f, r, measured)
  <2>1. pairs' \in Trimmed(Fresh(f.at)) /\ UNCHANGED <<pc, job>>
    BY <1>3 DEF EnterReplayed, handlerVars
  <2>2. Within(pairs', pairs)
    BY <2>1, TrimmedFresh
  <2>3. \A h \in Handlers : pc[h] = "entered" =>
           (ChargedIn(pairs', job[h].lease, job[h].req)
               => ChargedIn(pairs, job[h].lease, job[h].req))
    BY <1>2, <2>2, WithinCharged
  <2>4. Running' = Running
    BY <2>1 DEF Running
  <2> QED BY <1>1, <2>1, <2>3, <2>4, NothingCharged
<1>4. CASE EnterFull(f, r, measured)
  <2>1. Admit(f, r) /\ UNCHANGED <<pc, job>>
    BY <1>4 DEF EnterFull, handlerVars
  <2>2. \A h \in Handlers : pc[h] = "entered" =>
           (ChargedIn(pairs', job[h].lease, job[h].req)
               => ChargedIn(pairs, job[h].lease, job[h].req))
    BY <1>2, <2>1, AdmitPays
  <2>3. Running' = Running
    BY <2>1 DEF Running
  <2> QED BY <1>1, <2>1, <2>2, <2>3, NothingCharged
<1>5. ASSUME NEW h \in Handlers, EnterRelay(h, f, r, measured) PROVE PaidInv'
  <2>1. /\ Admit(f, r) /\ pc[h] = "idle"
        /\ pc' = [pc EXCEPT ![h] = "entered"]
        /\ job' = [job EXCEPT ![h] = [lease |-> f.lease, req |-> r]]
    BY <1>5 DEF EnterRelay
  <2>2. pc \in [Handlers -> {"idle", "entered"}] /\ DOMAIN job = Handlers
    BY DEF IndInv, LedgerTyped
  <2>3. /\ job'[h].lease = f.lease /\ job'[h].req = r
        /\ \A g \in Handlers \ {h} : pc'[g] = pc[g] /\ job'[g] = job[g]
    BY <2>1, <2>2
  <2>4. ~ChargedIn(pairs', job'[h].lease, job'[h].req)
    BY <2>1, <2>3, AdmitPays
  <2>5. \A g \in Handlers : pc[g] = "entered" =>
           (ChargedIn(pairs', job[g].lease, job[g].req)
               => ChargedIn(pairs, job[g].lease, job[g].req))
    BY <1>2, <2>1, AdmitPays
  <2>6. Running \subseteq Running'
    <3>1. \A g \in Handlers : pc[g] = "entered" => pc'[g] = "entered" /\ job'[g] = job[g]
      BY <2>1, <2>3
    <3> QED BY <3>1 DEF Running
  <2> QED BY <1>1, <2>3, <2>4, <2>5, <2>6, NothingCharged
<1> QED BY <1>3, <1>4, <1>5

\* A relay that closes takes its own debt with it.
LEMMA LeavingPays ==
    ASSUME IndInv, MemInv, PaidInv, NEW h \in Handlers,
           RelayAborted(h) \/ \E rise \in 0..MaxRise : Answered(h, rise)
    PROVE  PaidInv'
<1> DEFINE l == job[h].lease
           r == job[h].req
<1>1. pc[h] = "entered" /\ Close(h) /\ held' = held
  BY DEF RelayAborted, Answered
<1>2. /\ l \in Leases /\ r \in ReqIds
      /\ \A g \in Handlers : pc[g] = "entered" =>
            job[g].lease \in Leases /\ job[g].req \in ReqIds
  BY <1>1 DEF MemInv, RelaysOwed, IndInv, JobsGranted, LedgerTyped
<1>3. /\ \A g \in Handlers : pc'[g] = "entered" <=> pc[g] = "entered" /\ g # h
      /\ \A g \in Handlers : pc'[g] = "entered" =>
            job'[g] = job[g] /\ <<job[g].lease, job[g].req>> \in Running'
  BY <1>1, CloseLeaves
<1>4. CASE RelayAborted(h)
  <2>1. pairs' = pairs /\ paid' = paid \cap Running' /\ unpaid' = unpaid
    BY <1>4 DEF RelayAborted
  <2>2. PaidUp'
    <3> SUFFICES ASSUME NEW g \in Handlers, pc'[g] = "entered", job'[g].lease \in held',
                        ChargedIn(pairs', job'[g].lease, job'[g].req)
                 PROVE  <<job'[g].lease, job'[g].req>> \in paid'
      BY DEF PaidUp, ChargedIn
    <3> QED BY <1>1, <1>3, <2>1 DEF PaidInv, PaidUp
  <2> QED BY <2>1, <2>2 DEF PaidInv
<1>5. ASSUME NEW rise \in 0..MaxRise, Answered(h, rise) PROVE PaidInv'
  <2>1. PICK mark \in MarkCharged(l, r) :
           /\ pairs' = mark.cache
           /\ IF mark.new /\ l \in held
              THEN paid' = (paid \cup {<<l, r>>}) \cap Running'
              ELSE paid' = paid \cap Running'
           /\ unpaid' = (unpaid \/ (/\ ~mark.new /\ l \in held
                                    /\ <<l, r>> \notin forgotten \cap paid))
    BY <1>5 DEF Answered
  <2>2. /\ ~mark.new => ChargedIn(pairs, l, r)
        /\ \A k \in Leases, q \in ReqIds : ChargedIn(mark.cache, k, q) =>
              ChargedIn(pairs, k, q) \/ (k = l /\ q = r)
        /\ Owed(pairs, h) => mark.new
    BY <1>2, MarkPays, MarkCases
  <2>3. ~mark.new /\ l \in held => <<l, r>> \in forgotten \cap paid
    <3> SUFFICES ASSUME ~mark.new, l \in held PROVE <<l, r>> \in forgotten \cap paid
      OBVIOUS
    <3>1. <<l, r>> \in paid
      BY <1>1, <2>2 DEF PaidInv, PaidUp
    <3>2. <<l, r>> \in forgotten
      BY <1>1, <2>2 DEF MemInv, RelaysOwed
    <3> QED BY <3>1, <3>2
  <2>4. unpaid' = FALSE
    BY <2>1, <2>3 DEF PaidInv
  <2>5. paid' \subseteq Running'
    BY <2>1
  <2>6. PaidUp'
    <3> SUFFICES ASSUME NEW g \in Handlers, pc'[g] = "entered", job'[g].lease \in held',
                        ChargedIn(pairs', job'[g].lease, job'[g].req)
                 PROVE  <<job'[g].lease, job'[g].req>> \in paid'
      BY DEF PaidUp, ChargedIn
    <3>1. /\ pc[g] = "entered" /\ job'[g] = job[g] /\ job[g].lease \in held
          /\ <<job[g].lease, job[g].req>> \in Running'
      BY <1>1, <1>3
    <3>2. CASE ChargedIn(pairs, job[g].lease, job[g].req)
      <4>1. <<job[g].lease, job[g].req>> \in paid
        BY <3>1, <3>2 DEF PaidInv, PaidUp
      <4> QED BY <2>1, <3>1, <4>1
    <3>3. CASE ~ChargedIn(pairs, job[g].lease, job[g].req)
      <4>1. job[g].lease = l /\ job[g].req = r
        BY <1>2, <2>1, <2>2, <3>1, <3>3
      <4>2. mark.new /\ l \in held
        BY <2>2, <3>1, <3>3, <4>1
      <4> QED BY <2>1, <3>1, <4>1, <4>2
    <3> QED BY <3>2, <3>3
  <2> QED BY <2>4, <2>5, <2>6 DEF PaidInv
<1> QED BY <1>4, <1>5

\* Every step keeps it: a grant and a refusal charge nothing, and after a boot nothing
\* runs.
LEMMA PaidStep ==
    ASSUME IndInv, MemInv, PaidInv, [Next]_vars
    PROVE  PaidInv'
<1> DEFINE quiet == UNCHANGED <<pairs, pc, job, paid, unpaid>>
<1>1. ASSUME quiet, \A h \in Handlers :
                pc[h] = "entered" /\ job[h].lease \in held' => job[h].lease \in held
      PROVE  PaidInv'
  BY <1>1 DEF PaidInv, PaidUp, Running, ChargedIn
<1>2. ASSUME UNCHANGED vars \/ Flush \/ Tick PROVE quiet /\ held' = held
  BY <1>2 DEF vars, Flush, Tick, ledgerVars, handlerVars, historyVars
<1>3. ASSUME NEW p \in Peers, NEW measured \in Measured, NEW handable \in Handable(p),
             NEW l \in Leases, Grant(p, l, measured, handable)
      PROVE  PaidInv'
  <2>1. quiet /\ l \notin minted /\ held' \subseteq held \cup {l}
    BY <1>3 DEF Grant, LiveAt, handlerVars, historyVars
  <2>2. \A h \in Handlers : pc[h] = "entered" => job[h].lease \in minted
    BY DEF IndInv, JobsGranted
  <2> QED BY <1>1, <2>1, <2>2
<1>4. ASSUME NEW p \in Peers, NEW measured \in Measured, NEW handable \in Handable(p),
             GrantRefused(p, measured, handable)
      PROVE  quiet /\ held' = held
  BY <1>4 DEF GrantRefused, ledgerVars, handlerVars, historyVars
<1>5. ASSUME NEW l \in Leases, NEW hinted \in 1..MaxHint, UsageHint(l, hinted)
      PROVE  quiet /\ held' = held
  BY <1>5 DEF UsageHint, handlerVars
<1>6. ASSUME NEW f \in Frames, NEW measured \in Measured, EnterRefused(f, measured)
      PROVE  quiet /\ held' = held
  BY <1>6 DEF EnterRefused, ledgerVars, handlerVars, historyVars
<1>7. ASSUME NEW room \in Rooms, NoteOwnerHeadroom(room) PROVE quiet /\ held' = held
  BY <1>7 DEF NoteOwnerHeadroom, ledgerVars, handlerVars, historyVars
<1>8. ASSUME NEW room \in Rooms, Restart(room) PROVE PaidInv'
  <2>1. pc' = [h \in Handlers |-> "idle"] /\ paid' = {} /\ unpaid' = unpaid
    BY <1>8 DEF Restart
  <2> QED BY <2>1 DEF PaidInv, PaidUp
<1>9. ASSUME NEW f \in Frames, NEW measured \in Measured, NEW r \in ReqIds,
             \/ EnterReplayed(f, r, measured) \/ EnterFull(f, r, measured)
             \/ \E h \in Handlers : EnterRelay(h, f, r, measured)
      PROVE  PaidInv'
  BY <1>9, EnteringPays
<1>10. ASSUME NEW h \in Handlers,
              RelayAborted(h) \/ \E rise \in 0..MaxRise : Answered(h, rise)
       PROVE  PaidInv'
  BY <1>10, LeavingPays
<1> HIDE DEF quiet
<1> QED
  BY <1>1, <1>2, <1>3, <1>4, <1>5, <1>6, <1>7, <1>8, <1>9, <1>10
     DEF Next, Lending, Entering, Leaving

\* What the memory calls charged has been charged.
THEOREM PaidInvariant == Spec => []PaidInv
<1>1. Init => PaidInv
  BY DEF Init, PaidInv, PaidUp
<1>2. IndInv /\ MemInv /\ PaidInv /\ [Next]_vars => PaidInv'
  BY PaidStep
<1> QED BY LedgerInvariant, MemoryInvariant, <1>1, <1>2, PTL DEF Spec

\* What is answered under a lease the ledger holds is charged, for any size of the memory
\* and any age at which it drops a pair, with the one exception NoFreeRelay names: a
\* relay whose pair was dropped while it ran, and which another relay of that pair,
\* running beside it, has paid for.
THEOREM AnsweredIsCharged == Spec => []NoFreeRelay
<1>1. PaidInv => NoFreeRelay
  BY DEF PaidInv, NoFreeRelay
<1> QED BY PaidInvariant, <1>1, PTL

-----------------------------------------------------------------------------
(***************************************************************************)
(* A memory that never has to drop a pair: every answer is charged.        *)
(***************************************************************************)

\* There is room for every request of every lease, and no pair grows old.
AmpleMemory ==
    /\ IsFiniteSet(Leases) /\ IsFiniteSet(ReqIds)
    /\ Cardinality(Leases \X ReqIds) < Capacity
    /\ Cardinality(ReqIds) <= PerLease
    /\ MaxTime < PairTTL

\* Every answer under a lease the ledger holds raises what the lease has spent,
\* without exception.
AnswersCharge ==
    [][\A h \in Handlers, rise \in 0..MaxRise :
          Answered(h, rise) /\ job[h].lease \in held
              => spent'[job[h].lease] > spent[job[h].lease]]_vars

\* No request is remembered twice.
Distinct(cache) ==
    \A l \in Leases : \A i, j \in DOMAIN cache[l] : cache[l][i].req = cache[l][j].req => i = j

NothingDropped == now <= MaxTime /\ Distinct(pairs) /\ forgotten = {}

\* Keeping every place of a sequence keeps the sequence.
LEMMA RetainedAll ==
    ASSUME NEW S, NEW seq \in Seq(S)
    PROVE  Retained(seq, DOMAIN seq) = seq
<1> DEFINE n == Len(seq)
           At(k) == CHOOSE i \in 1..n : Cardinality({j \in 1..n : j <= i}) = k
<1>1. n \in Nat /\ DOMAIN seq = 1..n /\ seq \in [1..n -> S]
  BY LenProperties
<1>2. Cardinality(1..n) = n
  BY <1>1, FS_Interval
<1>3. Retained(seq, DOMAIN seq) = [k \in 1..n |-> seq[At(k)]]
  BY <1>1, <1>2 DEF Retained
<1>4. ASSUME NEW i \in 1..n PROVE Cardinality({j \in 1..n : j <= i}) = i
  <2>1. {j \in 1..n : j <= i} = 1..i
    BY <1>1
  <2>2. Cardinality(1..i) = i
    BY <1>1, FS_Interval
  <2> QED BY <2>1, <2>2
<1>5. ASSUME NEW k \in 1..n PROVE At(k) = k
  BY <1>4
<1> HIDE DEF At, n
<1> QED BY <1>1, <1>3, <1>5

\* Nothing is old.
LEMMA AmpleFresh ==
    ASSUME AmpleMemory, MemInv, NEW t \in Nat, t <= MaxTime
    PROVE  Fresh(t) = pairs
<1>1. pairs \in Caches
  BY DEF MemInv, Holds
<1>2. MaxTime \in Nat /\ PairTTL \in Nat /\ MaxTime < PairTTL
  BY LedgerAssumption DEF AmpleMemory
<1>3. ASSUME NEW l \in Leases
      PROVE  Retained(pairs[l], {i \in DOMAIN pairs[l] : t - pairs[l][i].at < PairTTL}) = pairs[l]
  <2>1. pairs[l] \in Seq(Entry)
    BY <1>1, PlacesOf
  <2>2. \A i \in DOMAIN pairs[l] : pairs[l][i] \in Entry
    BY <2>1, ElementOfSeq, PlacesOf, <1>1
  <2>3. \A i \in DOMAIN pairs[l] : pairs[l][i].at \in Nat
    BY <2>2 DEF Entry
  <2>4. {i \in DOMAIN pairs[l] : t - pairs[l][i].at < PairTTL} = DOMAIN pairs[l]
    BY <1>2, <2>3
  <2> QED BY <2>1, <2>4, RetainedAll
<1> QED BY <1>1, <1>3 DEF Fresh, Caches

\* There is always room across the leases.
LEMMA AmpleTrimmed ==
    ASSUME AmpleMemory, MemInv, Distinct(pairs)
    PROVE  Trimmed(pairs) = {pairs}
<1>1. pairs \in Caches
  BY DEF MemInv, Holds
<1> DEFINE P == Places(pairs)
           T == Leases \X ReqIds
           f == [x \in P |-> <<x[1], pairs[x[1]][x[2]].req>>]
<1>2. ASSUME NEW x \in P
      PROVE  \E l \in Leases : \E i \in DOMAIN pairs[l] :
                 x = <<l, i>> /\ f[x] = <<l, pairs[l][i].req>> /\ pairs[l][i].req \in ReqIds
  <2>1. PICK l \in Leases : \E i \in 1..Len(pairs[l]) : x = <<l, i>>
    BY <1>1, PlacesOf
  <2>2. PICK i \in 1..Len(pairs[l]) : x = <<l, i>>
    BY <2>1
  <2>3. i \in DOMAIN pairs[l] /\ pairs[l] \in Seq(Entry)
    BY <1>1, PlacesOf
  <2>4. pairs[l][i] \in Entry
    BY <2>3, ElementOfSeq, <1>1, PlacesOf
  <2> QED BY <2>2, <2>3, <2>4 DEF Entry
<1>3. f \in [P -> T]
  <2>1. \A x \in P : f[x] \in T
    BY <1>2
  <2> QED BY <2>1
<1>4. ASSUME NEW x \in P, NEW y \in P, f[x] = f[y] PROVE x = y
  <2>1. PICK l \in Leases : \E i \in DOMAIN pairs[l] :
           x = <<l, i>> /\ f[x] = <<l, pairs[l][i].req>>
    BY <1>2
  <2>2. PICK k \in Leases : \E j \in DOMAIN pairs[k] :
           y = <<k, j>> /\ f[y] = <<k, pairs[k][j].req>>
    BY <1>2
  <2>3. PICK i \in DOMAIN pairs[l] : x = <<l, i>> /\ f[x] = <<l, pairs[l][i].req>>
    BY <2>1
  <2>4. PICK j \in DOMAIN pairs[k] : y = <<k, j>> /\ f[y] = <<k, pairs[k][j].req>>
    BY <2>2
  <2>5. l = k /\ pairs[l][i].req = pairs[k][j].req
    BY <1>4, <2>3, <2>4
  <2>6. i = j
    BY <2>5 DEF Distinct
  <2> QED BY <2>3, <2>4, <2>5, <2>6
<1>5. IsFiniteSet(T)
  BY FS_Product DEF AmpleMemory
<1> HIDE DEF f
<1>6. f \in Injection(P, T)
  <2> HIDE DEF P, T
  <2> QED BY <1>3, <1>4 DEF Injection, IsInjective
<1>7. Cardinality(P) <= Cardinality(T) /\ IsFiniteSet(P)
  <2> HIDE DEF P, T
  <2> QED BY <1>5, <1>6, FS_Injection
<1>8. Cardinality(P) < Capacity
  BY <1>5, <1>7, FS_CardinalityType, LedgerAssumption DEF AmpleMemory
<1> QED BY <1>8 DEF Trimmed, CacheSize

\* There is always room in the lease for a request it does not remember.
LEMMA AmpleRoomy ==
    ASSUME AmpleMemory, MemInv, Distinct(pairs), NEW l \in Leases, NEW r \in ReqIds,
           ~Remembers(pairs[l], r)
    PROVE  Roomy(pairs, l) = pairs
<1> DEFINE n == Len(pairs[l])
           T == ReqIds \ {r}
           f == [i \in 1..n |-> pairs[l][i].req]
<1>1. pairs \in Caches
  BY DEF MemInv, Holds
<1>2. n \in Nat /\ DOMAIN pairs[l] = 1..n /\ pairs[l] \in Seq(Entry)
  BY <1>1, PlacesOf
<1>3. \A i \in 1..n : pairs[l][i] \in Entry
  BY <1>2, ElementOfSeq
<1>4. \A i \in 1..n : pairs[l][i].req \in T
  BY <1>2, <1>3 DEF Entry, Remembers
<1>5. \A i, j \in 1..n : pairs[l][i].req = pairs[l][j].req => i = j
  BY <1>2 DEF Distinct
<1>6. f \in Injection(1..n, T)
  <2> HIDE DEF n, T
  <2> QED BY <1>4, <1>5 DEF Injection, IsInjective
<1>7. IsFiniteSet(T) /\ Cardinality(T) = Cardinality(ReqIds) - 1
  BY FS_RemoveElement DEF AmpleMemory
<1>8. Cardinality(1..n) <= Cardinality(T)
  <2> HIDE DEF f, n, T
  <2> QED BY <1>6, <1>7, FS_Injection
<1>9. Cardinality(1..n) = n
  BY <1>2, FS_Interval
<1>10. Cardinality(ReqIds) \in Nat /\ PerLease \in Nat /\ Cardinality(ReqIds) <= PerLease
  BY FS_CardinalityType, LedgerAssumption DEF AmpleMemory
<1>11. ~(Len(pairs[l]) >= PerLease)
  BY <1>2, <1>7, <1>8, <1>9, <1>10
<1> QED BY <1>1, <1>11 DEF Roomy, Caches

\* Recording a request that is not remembered, and marking one that is, leave
\* the requests distinct.
LEMMA RecordedDistinct ==
    ASSUME pairs \in Caches, Distinct(pairs), NEW l \in Leases, NEW r \in ReqIds,
           ~Remembers(pairs[l], r), NEW e \in Entry, e.req = r
    PROVE  Distinct([pairs EXCEPT ![l] = Append(@, e)])
<1> DEFINE d == [pairs EXCEPT ![l] = Append(@, e)]
<1>1. /\ pairs[l] \in Seq(Entry) /\ Len(pairs[l]) \in Nat
      /\ DOMAIN pairs[l] = 1..Len(pairs[l]) /\ DOMAIN pairs = Leases
  BY PlacesOf
<1>2. /\ Append(pairs[l], e) \in Seq(Entry) /\ Len(Append(pairs[l], e)) = Len(pairs[l]) + 1
      /\ \A i \in 1..Len(pairs[l]) : Append(pairs[l], e)[i] = pairs[l][i]
      /\ Append(pairs[l], e)[Len(pairs[l]) + 1] = e
  BY <1>1, AppendProperties
<1>3. d[l] = Append(pairs[l], e) /\ \A k \in Leases \ {l} : d[k] = pairs[k]
  BY <1>1
<1>4. DOMAIN d[l] = 1..Len(pairs[l]) + 1
  BY <1>2, <1>3, LenProperties
<1> HIDE DEF d
<1>5. ASSUME NEW i \in DOMAIN d[l], NEW j \in DOMAIN d[l], d[l][i].req = d[l][j].req
      PROVE  i = j
  <2>1. \A k \in 1..Len(pairs[l]) : d[l][k] = pairs[l][k] /\ pairs[l][k].req # r
    BY <1>1, <1>2, <1>3 DEF Remembers
  <2>2. d[l][Len(pairs[l]) + 1].req = r
    BY <1>2, <1>3
  <2>3. \A k \in DOMAIN d[l] : k \in 1..Len(pairs[l]) \/ k = Len(pairs[l]) + 1
    BY <1>1, <1>4
  <2>4. CASE i \in 1..Len(pairs[l]) /\ j \in 1..Len(pairs[l])
    BY <1>1, <1>5, <2>1, <2>4 DEF Distinct
  <2> QED BY <1>5, <2>1, <2>2, <2>3, <2>4
<1>6. \A k \in Leases \ {l} : \A i, j \in DOMAIN d[k] : d[k][i].req = d[k][j].req => i = j
  BY <1>3 DEF Distinct
<1> QED BY <1>5, <1>6 DEF Distinct, d

\* An admission drops nothing.
LEMMA AdmitDropsNothing ==
    ASSUME AmpleMemory, IndInv, MemInv, NothingDropped, NEW f \in Frames, NEW r \in ReqIds,
           Admit(f, r)
    PROVE  Distinct(pairs') /\ forgotten' = {}
<1>1. f.lease \in Leases /\ f.at \in Nat /\ f.at <= MaxTime /\ pairs \in Caches
  BY LedgerAssumption DEF Frames, IndInv, LedgerTyped, MemInv, Holds, NothingDropped
<1>2. Trimmed(Fresh(f.at)) = {pairs}
  BY <1>1, AmpleFresh, AmpleTrimmed DEF NothingDropped
<1>3. /\ ~Remembers(pairs[f.lease], r)
      /\ pairs' = Recorded(Roomy(pairs, f.lease), f.lease, r, f.at, FALSE)
      /\ Forget(Roomy(pairs, f.lease), Running)
  BY <1>2 DEF Admit
<1>4. Roomy(pairs, f.lease) = pairs
  BY <1>1, <1>3, AmpleRoomy DEF NothingDropped
<1>5. forgotten' = {}
  BY <1>3, <1>4 DEF Forget, NothingDropped
<1> DEFINE e == [req |-> r, at |-> f.at, charged |-> FALSE]
<1>6. e \in Entry /\ e.req = r
  BY <1>1 DEF Entry
<1>7. pairs' = [pairs EXCEPT ![f.lease] = Append(@, e)]
  BY <1>3, <1>4 DEF Recorded
<1> HIDE DEF e
<1>8. Distinct(pairs')
  <2>1. Distinct([pairs EXCEPT ![f.lease] = Append(@, e)])
    BY <1>1, <1>3, <1>6, RecordedDistinct DEF NothingDropped
  <2> QED BY <1>7, <2>1
<1> QED BY <1>5, <1>8

\* Nor does a charge.
LEMMA MarkDropsNothing ==
    ASSUME AmpleMemory, IndInv, MemInv, NothingDropped, NEW l \in Leases, NEW r \in ReqIds,
           NEW mark \in MarkCharged(l, r)
    PROVE  Distinct(mark.cache) /\ mark.kept = pairs
<1>1. now \in Nat /\ now <= MaxTime /\ pairs \in Caches
  BY DEF IndInv, LedgerTyped, MemInv, Holds, NothingDropped
<1>2. CASE Remembers(pairs[l], r)
  <2> DEFINE i == CHOOSE n \in DOMAIN pairs[l] : pairs[l][n].req = r
             c == [pairs EXCEPT ![l][i].charged = TRUE]
  <2>1. i \in DOMAIN pairs[l]
    BY <1>2 DEF Remembers
  <2>2. mark = [new |-> ~pairs[l][i].charged, kept |-> pairs, cache |-> c]
    BY <1>2 DEF MarkCharged
  <2> HIDE DEF i
  <2>3. mark.cache = c /\ mark.kept = pairs
    BY <2>2
  <2>4. /\ \A k \in Leases : DOMAIN c[k] = DOMAIN pairs[k]
        /\ \A k \in Leases : \A n \in DOMAIN pairs[k] : c[k][n].req = pairs[k][n].req
    BY <2>1, MarkInPlace
  <2> HIDE DEF c
  <2>5. Distinct(c)
    BY <2>4 DEF Distinct, NothingDropped
  <2> QED BY <2>3, <2>5
<1>3. CASE ~Remembers(pairs[l], r)
  <2>1. Trimmed(Fresh(now)) = {pairs} /\ Roomy(pairs, l) = pairs
    BY <1>1, <1>3, AmpleFresh, AmpleTrimmed, AmpleRoomy DEF NothingDropped
  <2> DEFINE e == [req |-> r, at |-> now, charged |-> TRUE]
  <2>2. e \in Entry /\ e.req = r
    BY <1>1 DEF Entry
  <2>3. mark.kept = pairs /\ mark.cache = [pairs EXCEPT ![l] = Append(@, e)]
    BY <1>3, <2>1 DEF MarkCharged, Recorded
  <2> HIDE DEF e
  <2>4. Distinct([pairs EXCEPT ![l] = Append(@, e)])
    BY <1>1, <1>3, <2>2, RecordedDistinct DEF NothingDropped
  <2> QED BY <2>3, <2>4
<1> QED BY <1>2, <1>3

\* No step drops a pair.
LEMMA NothingDroppedStep ==
    ASSUME AmpleMemory, IndInv, MemInv, NothingDropped, [Next]_vars
    PROVE  NothingDropped'
<1> DEFINE quiet == UNCHANGED <<now, pairs, forgotten>>
<1>1. CASE quiet
  BY <1>1 DEF NothingDropped, Distinct
<1>2. ASSUME UNCHANGED vars \/ Flush PROVE quiet
  BY <1>2 DEF vars, Flush, historyVars
<1>3. ASSUME Lending PROVE quiet
  BY <1>3 DEF Lending, Grant, GrantRefused, historyVars
<1>4. ASSUME NEW l \in Leases, NEW hinted \in 1..MaxHint, UsageHint(l, hinted)
      PROVE  quiet
  BY <1>4 DEF UsageHint
<1>5. ASSUME NEW f \in Frames, NEW measured \in Measured, EnterRefused(f, measured)
      PROVE  quiet
  BY <1>5 DEF EnterRefused, historyVars
<1>6. ASSUME NEW room \in Rooms, NoteOwnerHeadroom(room) PROVE quiet
  BY <1>6 DEF NoteOwnerHeadroom, historyVars
<1>7. CASE Tick
  BY <1>7, LedgerAssumption DEF Tick, historyVars, NothingDropped, Distinct, IndInv, LedgerTyped
<1>8. ASSUME NEW room \in Rooms, Restart(room) PROVE NothingDropped'
  <2>1. pairs' = [l \in Leases |-> <<>>] /\ forgotten' = {} /\ now' = now
    BY <1>8 DEF Restart
  <2> QED BY <2>1 DEF NothingDropped, Distinct
<1>9. ASSUME NEW f \in Frames, NEW measured \in Measured, NEW r \in ReqIds,
             EnterReplayed(f, r, measured)
      PROVE  NothingDropped'
  <2>1. f.at \in Nat /\ f.at <= MaxTime
    BY LedgerAssumption DEF Frames, IndInv, LedgerTyped, NothingDropped
  <2>2. Trimmed(Fresh(f.at)) = {pairs}
    BY <2>1, AmpleFresh, AmpleTrimmed DEF NothingDropped
  <2>3. pairs' \in Trimmed(Fresh(f.at)) /\ Forget(pairs', Running) /\ now' = now
    BY <1>9 DEF EnterReplayed
  <2>4. pairs' = pairs
    BY <2>2, <2>3
  <2>5. forgotten' = {}
    BY <2>3, <2>4 DEF Forget, NothingDropped
  <2> QED BY <2>3, <2>4, <2>5 DEF NothingDropped, Distinct
<1>10. ASSUME NEW f \in Frames, NEW measured \in Measured, NEW r \in ReqIds,
              EnterFull(f, r, measured) \/ \E h \in Handlers : EnterRelay(h, f, r, measured)
       PROVE  NothingDropped'
  <2>1. Admit(f, r) /\ now' = now
    BY <1>10 DEF EnterFull, EnterRelay
  <2>2. Distinct(pairs') /\ forgotten' = {}
    BY <2>1, AdmitDropsNothing
  <2> QED BY <2>1, <2>2 DEF NothingDropped, Distinct
<1>11. ASSUME NEW h \in Handlers, RelayAborted(h) PROVE NothingDropped'
  BY <1>11 DEF RelayAborted, Forget, NothingDropped, Distinct
<1>12. ASSUME NEW h \in Handlers, NEW rise \in 0..MaxRise, Answered(h, rise)
       PROVE  NothingDropped'
  <2>1. job[h].lease \in Leases /\ job[h].req \in ReqIds
    BY <1>12 DEF Answered, IndInv, JobsGranted, LedgerTyped, MemInv, RelaysOwed
  <2>2. PICK mark \in MarkCharged(job[h].lease, job[h].req) :
           pairs' = mark.cache /\ Forget(mark.kept, Running') /\ now' = now
    BY <1>12 DEF Answered
  <2>3. Distinct(mark.cache) /\ mark.kept = pairs
    BY <2>1, MarkDropsNothing
  <2>4. forgotten' = {}
    BY <2>2, <2>3 DEF Forget, NothingDropped
  <2>5. Distinct(pairs')
    BY <2>2, <2>3
  <2> QED BY <2>2, <2>4, <2>5 DEF NothingDropped, Distinct
<1> HIDE DEF quiet
<1> QED
  BY <1>1, <1>2, <1>3, <1>4, <1>5, <1>6, <1>7, <1>8, <1>9, <1>10, <1>11, <1>12
     DEF Next, Entering, Leaving

\* Where the memory is ample no answer goes free, with no exception: under a lease the
\* ledger holds, every answered relay is charged, however its borrower repeats the id.
\* It takes a bound of the memory, or the age limit, for one relay to ride on another's charge.
THEOREM AmpleMemoryChargesAll ==
    ASSUME AmpleMemory
    PROVE  Spec => AnswersCharge
<1>1. Init => NothingDropped
  BY LedgerAssumption DEF Init, NothingDropped, Distinct
<1>2. IndInv /\ MemInv /\ NothingDropped /\ [Next]_vars => NothingDropped'
  BY AmpleMemory, NothingDroppedStep
<1>3. IndInv /\ MemInv /\ NothingDropped =>
         [\A h \in Handlers, rise \in 0..MaxRise :
             Answered(h, rise) /\ job[h].lease \in held
                 => spent'[job[h].lease] > spent[job[h].lease]]_vars
  <2> SUFFICES ASSUME IndInv, MemInv, NothingDropped, NEW h \in Handlers,
                      NEW rise \in 0..MaxRise, Answered(h, rise), job[h].lease \in held
               PROVE  spent'[job[h].lease] > spent[job[h].lease]
    OBVIOUS
  <2> DEFINE l == job[h].lease
             r == job[h].req
             charge == IF rise > 1 THEN rise ELSE 1
  <2>1. pc[h] = "entered" /\ l \in Leases /\ r \in ReqIds /\ spent \in [Leases -> Nat]
    BY DEF Answered, IndInv, JobsGranted, LedgerTyped, MemInv, RelaysOwed
  <2>2. Owed(pairs, h)
    BY <2>1 DEF MemInv, RelaysOwed, NothingDropped
  <2>3. PICK mark \in MarkCharged(l, r) :
           mark.new /\ l \in held => spent' = [spent EXCEPT ![l] = @ + charge]
    BY DEF Answered
  <2>4. mark.new
    BY <2>1, <2>2, MarkCases
  <2>5. charge \in Nat /\ charge >= 1
    BY LedgerAssumption
  <2> HIDE DEF charge
  <2>6. spent' = [spent EXCEPT ![l] = @ + charge]
    BY <2>3, <2>4
  <2> QED BY <2>1, <2>5, <2>6
<1>4. Spec => []NothingDropped
  BY LedgerInvariant, MemoryInvariant, <1>1, <1>2, PTL DEF Spec
<1> QED BY LedgerInvariant, MemoryInvariant, <1>3, <1>4, PTL DEF AnswersCharge

-----------------------------------------------------------------------------
(***************************************************************************)
(* The measurements and the promises.                                      *)
(***************************************************************************)

RoomTyped == headroom \in [Scopes -> Rooms \cup {NoRoom}]

\* Only measurements are noted.
LEMMA NotedTyped ==
    ASSUME RoomTyped, NEW s \in Scopes, NEW measured \in Measured
    PROVE  Noted(s, measured) \in [Scopes -> Rooms \cup {NoRoom}]
BY DEF RoomTyped, Noted, Measured

\* Every step keeps the type of the headroom.
LEMMA RoomStep ==
    ASSUME IndInv, RoomTyped, [Next]_vars
    PROVE  RoomTyped'
<1>1. ASSUME NEW p \in Peers, NEW measured \in Measured,
             headroom' = Noted(GrantOf[p].scope, measured)
      PROVE  RoomTyped'
  <2>1. GrantOf[p].scope \in Scopes
    BY LedgerAssumption DEF GrantRows
  <2> QED BY <1>1, <2>1, NotedTyped DEF RoomTyped
<1>2. ASSUME NEW f \in Frames, NEW measured \in Measured, headroom' = RelayRoom(f, measured)
      PROVE  RoomTyped'
  <2>1. CASE f.lease \in held
    <3>1. terms[f.lease].scope \in Scopes
      BY <2>1 DEF IndInv, LedgerTyped
    <3> QED BY <1>2, <2>1, <3>1, NotedTyped DEF RoomTyped, RelayRoom
  <2>2. CASE f.lease \notin held
    BY <1>2, <2>2 DEF RoomTyped, RelayRoom
  <2> QED BY <2>1, <2>2
<1>3. ASSUME NEW room \in Rooms, NoteOwnerHeadroom(room) \/ Restart(room) PROVE RoomTyped'
  BY <1>3 DEF NoteOwnerHeadroom, Restart, RoomTyped
<1>4. CASE UNCHANGED headroom
  BY <1>4 DEF RoomTyped
<1>5. ASSUME UNCHANGED vars \/ Flush \/ Tick PROVE UNCHANGED headroom
  BY <1>5 DEF vars, Flush, Tick
<1>6. ASSUME Lending PROVE RoomTyped'
  BY <1>1, <1>6 DEF Lending, GrantRefused, Grant
<1>7. ASSUME Entering PROVE RoomTyped'
  BY <1>2, <1>7 DEF Entering, EnterRefused, EnterReplayed, EnterFull, EnterRelay
<1>8. ASSUME Leaving PROVE UNCHANGED headroom
  BY <1>8 DEF Leaving, RelayAborted, Answered
<1>9. ASSUME NEW l \in Leases, NEW hinted \in 1..MaxHint, UsageHint(l, hinted)
      PROVE  UNCHANGED headroom
  BY <1>9 DEF UsageHint
<1> QED BY <1>3, <1>4, <1>5, <1>6, <1>7, <1>8, <1>9 DEF Next

\* Measurements are all the ledger ever takes for headroom.
THEOREM RoomInvariant == Spec => []RoomTyped
<1>1. Init => RoomTyped
  BY DEF Init, RoomTyped
<1>2. IndInv /\ RoomTyped /\ [Next]_vars => RoomTyped'
  BY RoomStep
<1> QED BY LedgerInvariant, <1>1, <1>2, PTL DEF Spec

\* Type correctness, with the two bounds of the memory of pairs: it holds at
\* most SERVED_CAPACITY pairs and at most SERVED_PER_LEASE_CAPACITY of a lease.
THEOREM LedgerTypeCorrect == Spec => []TypeOK
<1>1. IndInv /\ MemInv /\ PaidInv /\ RoomTyped => TypeOK
  BY DEF IndInv, MemInv, PaidInv, RoomTyped, TypeOK, Holds, Caches, Entry
<1> QED BY LedgerInvariant, MemoryInvariant, PaidInvariant, RoomInvariant, <1>1, PTL

\* The units promised on the accounts of scope s at time t and not spent.
Promised(s, t) ==
    UNION {Unspent(l) : l \in {k \in LiveAt(t) : ScopesOverlap(s, terms[k].scope)}}

\* Finitely many leases promise finitely much.
LEMMA PromisedFinite ==
    ASSUME LedgerTyped, IsFiniteSet(minted), NEW s, NEW t
    PROVE  IsFiniteSet(Promised(s, t)) /\ CommittedFraction(s, t) \in Nat
<1> DEFINE L == {k \in LiveAt(t) : ScopesOverlap(s, terms[k].scope)}
           U == {Unspent(l) : l \in L}
           unitsOf == [l \in L |-> Unspent(l)]
<1>1. L \in SUBSET minted /\ L \subseteq Leases
  BY DEF LiveAt, LedgerTyped
<1>2. IsFiniteSet(L)
  BY <1>1, FS_Subset
<1>3. IsFiniteSet(U)
  <2>1. unitsOf \in Surjection(L, U)
    <3>1. unitsOf \in [L -> U] /\ \A u \in U : \E l \in L : unitsOf[l] = u
      OBVIOUS
    <3> HIDE DEF unitsOf, L, U
    <3> QED BY <3>1 DEF Surjection
  <2> HIDE DEF unitsOf, L, U
  <2> QED BY <1>2, <2>1, FS_Surjection
<1>4. ASSUME NEW l \in L PROVE IsFiniteSet(Unspent(l))
  <2>1. spent[l] + 1 \in Int /\ terms[l].unit \in Int
    BY <1>1 DEF LedgerTyped
  <2>2. IsFiniteSet(spent[l] + 1..terms[l].unit)
    BY <2>1, FS_Interval
  <2>3. IsFiniteSet({l})
    BY FS_Singleton
  <2> QED BY <2>2, <2>3, FS_Product DEF Unspent
<1>5. IsFiniteSet(UNION U)
  <2>1. \A u \in U : IsFiniteSet(u)
    BY <1>4
  <2> HIDE DEF U
  <2> QED BY <1>3, <2>1, FS_UNION
<1> QED BY <1>5, FS_CardinalityType DEF Promised, CommittedFraction

\* clamp_to_grant promises no more than is left, and nothing where nothing was
\* measured.
LEMMA AmountFits ==
    ASSUME NEW p \in Peers, NEW room \in [Scopes -> Rooms \cup {NoRoom}],
           NEW handable \in Nat, NEW amount \in Nat \ {0}, amount = Amount(p, room, handable),
           CommittedFraction(GrantOf[p].scope, now) \in Nat
    PROVE  LET guard == HeadroomFor(room, GrantOf[p].scope)
           IN  guard \in Nat /\ CommittedFraction(GrantOf[p].scope, now) + amount <= guard
<1> DEFINE g == GrantOf[p]
           guard == HeadroomFor(room, g.scope)
           promised == CommittedFraction(g.scope, now)
           left == (IF guard = NoRoom THEN 0 ELSE guard) - promised
           S == {g.fraction, left} \cup (IF g.mode = "hand" THEN {handable} ELSE {})
<1>1. g.scope \in Scopes /\ g.fraction \in Nat /\ AllScope \in Scopes /\ Rooms \subseteq Nat
  BY LedgerAssumption DEF GrantRows
<1>2. guard \in Nat \cup {NoRoom}
  BY <1>1 DEF HeadroomFor
<1> HIDE DEF guard
<1>3. left \in Int
  BY <1>2
<1>4. amount = Min(S)
  BY DEF Amount, guard
<1>5. Min(S) <= left
  <2>1. left \in S /\ \E x \in S : \A y \in S : x <= y
    <3>1. CASE g.mode = "hand"
      <4>1. S = {g.fraction, left, handable}
        BY <3>1
      <4>2. \/ g.fraction <= left /\ g.fraction <= handable
            \/ left <= g.fraction /\ left <= handable
            \/ handable <= g.fraction /\ handable <= left
        BY <1>1, <1>3
      <4>3. g.fraction <= g.fraction /\ left <= left /\ handable <= handable
        BY <1>1, <1>3
      <4> HIDE DEF S, left, g
      <4> QED BY <4>1, <4>2, <4>3
    <3>2. CASE g.mode # "hand"
      <4>1. S = {g.fraction, left}
        BY <3>2
      <4>2. g.fraction <= left \/ left <= g.fraction
        BY <1>1, <1>3
      <4>3. g.fraction <= g.fraction /\ left <= left
        BY <1>1, <1>3
      <4> HIDE DEF S, left, g
      <4> QED BY <4>1, <4>2, <4>3
    <3> QED BY <3>1, <3>2
  <2> HIDE DEF S, left
  <2> QED BY <2>1 DEF Min
<1>6. amount <= left
  <2> HIDE DEF S, left
  <2> QED BY <1>4, <1>5
<1>7. guard # NoRoom
  BY <1>6
<1> QED BY <1>2, <1>6, <1>7 DEF guard

\* The units promised after a grant are those promised before it and the new
\* lease's own.
LEMMA GrantPromises ==
    ASSUME IndInv, IsFiniteSet(minted), RoomTyped,
           NEW p \in Peers, NEW l \in Leases, NEW measured \in Measured,
           NEW handable \in Handable(p), Grant(p, l, measured, handable)
    PROVE  /\ minted' = minted \cup {l} /\ terms'[l].scope = GrantOf[p].scope
           /\ CommittedFraction(GrantOf[p].scope, now)'
                  <= HeadroomFor(headroom, GrantOf[p].scope)'
<1> DEFINE s == GrantOf[p].scope
<1>1. /\ l \notin minted /\ minted' = minted \cup {l}
      /\ held' = LiveAt(now) \cup {l} /\ headroom' = Noted(s, measured)
      /\ UNCHANGED <<now, spent>>
  BY DEF Grant
<1>2. PICK amount \in 1..GrantOf[p].fraction :
         /\ amount = Amount(p, headroom', handable)
         /\ terms' = [terms EXCEPT ![l] =
                [peer |-> p, scope |-> s, unit |-> amount,
                 max |-> GrantOf[p].max, expires |-> now + GrantOf[p].ttl]]
  BY DEF Grant
<1>3. s \in Scopes /\ GrantOf[p].fraction \in Nat
  BY LedgerAssumption DEF GrantRows
<1>4. amount \in Nat \ {0}
  BY <1>3
<1>5. /\ terms'[l].scope = s /\ terms'[l].unit = amount
      /\ \A k \in Leases \ {l} : terms'[k] = terms[k]
  BY <1>2 DEF IndInv, LedgerTyped
<1>6. headroom' \in [Scopes -> Rooms \cup {NoRoom}] /\ handable \in Nat
  BY <1>1, <1>3, NotedTyped, LedgerAssumption DEF Handable
<1>7. IsFiniteSet(Promised(s, now)) /\ CommittedFraction(s, now) \in Nat
  BY PromisedFinite DEF IndInv
<1>8. /\ HeadroomFor(headroom', s) \in Nat
      /\ CommittedFraction(s, now) + amount <= HeadroomFor(headroom', s)
  BY <1>2, <1>4, <1>6, <1>7, AmountFits
<1> DEFINE own == {l} \X (1..amount)
<1>9. Promised(s, now)' \subseteq Promised(s, now) \cup own
  <2> SUFFICES ASSUME NEW x \in Promised(s, now)' PROVE x \in Promised(s, now) \cup own
    OBVIOUS
  <2>1. PICK k \in LiveAt(now)' : ScopesOverlap(s, terms'[k].scope) /\ x \in Unspent(k)'
    BY DEF Promised
  <2>2. k \in held' /\ terms'[k].expires > now
    BY <1>1, <2>1 DEF LiveAt
  <2>3. x \in {k} \X (spent[k] + 1..terms'[k].unit)
    BY <1>1, <2>1 DEF Unspent
  <2>4. CASE k = l
    <3>1. spent[l] \in Nat
      BY DEF IndInv, LedgerTyped
    <3>2. spent[l] + 1..amount \subseteq 1..amount
      BY <1>4, <3>1
    <3> QED BY <1>5, <2>3, <2>4, <3>2
  <2>5. CASE k # l
    <3>1. k \in LiveAt(now) /\ k \in Leases
      BY <1>1, <2>2, <2>5 DEF LiveAt, IndInv, LedgerTyped
    <3>2. terms'[k] = terms[k]
      BY <1>5, <2>5, <3>1
    <3>3. x \in Unspent(k) /\ ScopesOverlap(s, terms[k].scope)
      BY <2>1, <2>3, <3>2 DEF Unspent
    <3> QED BY <3>1, <3>3 DEF Promised
  <2> QED BY <2>4, <2>5
<1>10. IsFiniteSet(own) /\ Cardinality(own) = amount
  <2>1. IsFiniteSet(1..amount) /\ Cardinality(1..amount) = amount
    BY <1>4, FS_Interval
  <2>2. IsFiniteSet({l}) /\ Cardinality({l}) = 1
    BY FS_Singleton
  <2> QED BY <1>4, <2>1, <2>2, FS_Product
<1> HIDE DEF own
<1>11. /\ IsFiniteSet(Promised(s, now) \cup own)
       /\ Cardinality(Promised(s, now) \cup own) <= CommittedFraction(s, now) + amount
  <2>1. CommittedFraction(s, now) = Cardinality(Promised(s, now))
    BY DEF CommittedFraction, Promised
  <2>2. /\ IsFiniteSet(Promised(s, now) \cup own)
        /\ Cardinality(Promised(s, now) \cup own) =
              Cardinality(Promised(s, now)) + Cardinality(own)
                  - Cardinality(Promised(s, now) \cap own)
    BY <1>7, <1>10, FS_Union
  <2>3. Cardinality(Promised(s, now) \cap own) \in Nat
    BY <1>10, FS_Intersection, FS_CardinalityType
  <2> QED BY <1>4, <1>7, <1>10, <2>1, <2>2, <2>3
<1>12. /\ IsFiniteSet(Promised(s, now)')
       /\ Cardinality(Promised(s, now)') <= Cardinality(Promised(s, now) \cup own)
  BY <1>9, <1>11, FS_Subset
<1>13. CommittedFraction(s, now)' = Cardinality(Promised(s, now)')
  BY DEF CommittedFraction, Promised
<1>14. HeadroomFor(headroom, s)' = HeadroomFor(headroom', s)
  BY DEF HeadroomFor
<1>15. /\ Cardinality(Promised(s, now)') \in Nat
       /\ Cardinality(Promised(s, now) \cup own) \in Nat
  BY <1>11, <1>12, FS_CardinalityType
<1>16. CommittedFraction(s, now)' <= HeadroomFor(headroom, s)'
  BY <1>4, <1>7, <1>8, <1>11, <1>12, <1>13, <1>14, <1>15
<1> QED BY <1>1, <1>5, <1>16

\* Every step but a grant mints nothing.
LEMMA MintCases ==
    ASSUME [Next]_vars
    PROVE  \/ minted' = minted
           \/ \E p \in Peers, l \in Leases, measured \in Measured :
                 \E handable \in Handable(p) : Grant(p, l, measured, handable)
BY StepCases
   DEF coreVars, ledgerVars, Flush, Tick, UsageHint, EnterRelay, RelayAborted, Answered, Restart

\* The ledger has granted finitely many leases.
THEOREM FinitelyGranted == Spec => []IsFiniteSet(minted)
<1>1. Init => IsFiniteSet(minted)
  BY FS_EmptySet DEF Init
<1>2. IsFiniteSet(minted) /\ [Next]_vars => IsFiniteSet(minted)'
  <2> SUFFICES ASSUME IsFiniteSet(minted), [Next]_vars PROVE IsFiniteSet(minted')
    OBVIOUS
  <2>1. ASSUME NEW p, NEW l, NEW measured, NEW handable, Grant(p, l, measured, handable)
        PROVE  minted' = minted \cup {l}
    BY <2>1 DEF Grant
  <2> QED BY <2>1, MintCases, FS_AddElement
<1> QED BY <1>1, <1>2, PTL DEF Spec

\* No room is promised twice: what a grant leaves promised on the accounts of its
\* scope is within the headroom it was cut from, whatever leases, reports and
\* restarts came before.
THEOREM GrantsWithinRoom == Spec => PromisesWithinRoom
<1>1. IndInv /\ IsFiniteSet(minted) /\ RoomTyped /\ [Next]_vars =>
        [\A l \in minted' \ minted, s \in Scopes :
            s = terms'[l].scope => CommittedFraction(s, now)' <= HeadroomFor(headroom, s)']_vars
  <2> SUFFICES ASSUME IndInv, IsFiniteSet(minted), RoomTyped, [Next]_vars,
                      NEW l \in minted' \ minted, NEW s \in Scopes, s = terms'[l].scope
               PROVE  CommittedFraction(s, now)' <= HeadroomFor(headroom, s)'
    OBVIOUS
  <2>1. PICK p \in Peers, k \in Leases, measured \in Measured :
           \E handable \in Handable(p) : Grant(p, k, measured, handable)
    BY MintCases
  <2>2. PICK handable \in Handable(p) : Grant(p, k, measured, handable)
    BY <2>1
  <2>3. /\ minted' = minted \cup {k} /\ terms'[k].scope = GrantOf[p].scope
        /\ CommittedFraction(GrantOf[p].scope, now)'
               <= HeadroomFor(headroom, GrantOf[p].scope)'
    BY <2>2, GrantPromises
  <2>4. l = k /\ s = GrantOf[p].scope
    BY <2>3
  <2> QED BY <2>3, <2>4
<1> QED BY LedgerInvariant, FinitelyGranted, RoomInvariant, <1>1, PTL DEF Spec, PromisesWithinRoom
=============================================================================

--------------------------- MODULE TokenMergeProofs ---------------------------
(***************************************************************************)
(* Proofs about TokenMerge, for files and memories of every size.          *)
(***************************************************************************)
EXTENDS TokenMerge, FiniteSets, FiniteSetTheorems, WellFoundedInduction, TLAPS

\* Among fewer candidates an answer that is still there is still the answer.
LEMMA ResolveShrinks ==
  ASSUME NEW S, NEW T \in SUBSET S, NEW f, NEW x, NEW i \in T, ResolvesTo(S, f, x, i)
  PROVE  ResolvesTo(T, f, x, i)
  BY DEF ResolvesTo, Loose, Exact

\* There is one answer.
LEMMA ResolveUnique ==
  ASSUME NEW S, NEW f, NEW x, NEW i, NEW j, ResolvesTo(S, f, x, i), ResolvesTo(S, f, x, j)
  PROVE  i = j
  BY DEF ResolvesTo, Loose, Exact, SameIdentityStrict

\* A record that is itself a candidate resolves to itself or not at all.
LEMMA ResolveSelf ==
  ASSUME NEW S, NEW f, NEW i \in S, NEW j, ResolvesTo(S, f, f[i], j)
  PROVE  i = j
<1>1. SameIdentity(f[i], f[i])
  BY DEF SameIdentity
<1>2. CASE Loose(S, f, f[i]) = {j}
  BY <1>1, <1>2 DEF Loose
<1>3. CASE Exact(S, f, f[i]) = {j}
  BY <1>1, <1>3 DEF Exact, SameIdentityStrict
<1> QED
  BY <1>2, <1>3 DEF ResolvesTo

\* Every step keeps the types.
LEMMA TypeStep ==
  ASSUME TypeOK, [Next]_vars
  PROVE  TypeOK'
<1> USE SizeAssumption DEF TypeOK, Entries, Accounts, inputs
<1>1. ASSUME NEW m \in Accounts, Commit(m) PROVE TypeOK'
  BY <1>1 DEF Commit, Scanning
<1>2. CASE PassOver
  BY <1>2 DEF PassOver, Scanning
<1>3. CASE NextRound
  <2>1. index' \in 1..NumEntries + 2
    BY <1>3 DEF NextRound
  <2> QED
    BY <1>3, <2>1 DEF NextRound
<1>4. ASSUME NEW r \in Accounts \cup {0}, Save(r) PROVE TypeOK'
  <2>1. \A e \in Entries : Reason(e) \in {"None", "NoIdentity", "NoMemoryMatch", "Ambiguous"}
    BY DEF Reason
  <2> QED
    BY <1>4, <2>1 DEF Save
<1>5. CASE UNCHANGED vars
  BY <1>5 DEF vars
<1> QED
  BY <1>1, <1>2, <1>3, <1>4, <1>5 DEF Next

\* What a step does to the plan: nothing, or it commits one mutual pair.
LEMMA PlanStep ==
  ASSUME TypeOK, [Next]_vars
  PROVE  /\ UNCHANGED <<entries, memory>>
         /\ \/ UNCHANGED plan
            \/ \E e \in Entries, m \in Accounts :
                  Mutual(Unsettled, Unclaimed, e, m) /\ plan' = [plan EXCEPT ![e] = m]
<1>1. ASSUME NEW m \in Accounts, Commit(m)
      PROVE  /\ UNCHANGED <<entries, memory>>
             /\ index \in Entries /\ Mutual(Unsettled, Unclaimed, index, m)
             /\ plan' = [plan EXCEPT ![index] = m]
  BY <1>1 DEF Commit, Scanning, inputs, Mutual, Unsettled, Readable
<1>2. PassOver \/ NextRound \/ UNCHANGED vars => UNCHANGED <<entries, memory, plan>>
  BY DEF PassOver, NextRound, vars, inputs
<1>3. ASSUME NEW r, Save(r) PROVE UNCHANGED <<entries, memory, plan>>
  BY <1>3 DEF Save, inputs
<1> QED
  BY <1>1, <1>2, <1>3 DEF Next

\* A committed pair leaves both pools, and nothing else does.
LEMMA PoolsShrink ==
  ASSUME TypeOK, UNCHANGED <<entries, memory>>,
         NEW e \in Entries, NEW m \in Accounts,
         Mutual(Unsettled, Unclaimed, e, m), plan' = [plan EXCEPT ![e] = m]
  PROVE  Unsettled' = Unsettled \ {e} /\ Unclaimed' = Unclaimed \ {m}
<1>1. m # 0 /\ plan[e] = 0
  BY SizeAssumption DEF Mutual, Unsettled, Accounts
<1>2. Unsettled' = Unsettled \ {e}
  BY <1>1 DEF TypeOK, Unsettled, Readable
<1>3. \A n \in Accounts : n # 0
  BY SizeAssumption DEF Accounts
<1> QED
  BY <1>1, <1>2, <1>3 DEF TypeOK, Unclaimed

\* Committing a pair on a free account keeps every account in one home.
LEMMA OneHomeStep ==
  ASSUME TypeOK, OneHome, [Next]_vars
  PROVE  OneHome'
<1>1. CASE UNCHANGED plan
  BY <1>1 DEF OneHome
<1>2. ASSUME NEW e \in Entries, NEW m \in Accounts,
             Mutual(Unsettled, Unclaimed, e, m), plan' = [plan EXCEPT ![e] = m]
      PROVE  OneHome'
  <2>1. \A f \in Entries : plan[f] # m
    BY <1>2 DEF Mutual, Unclaimed
  <2> QED
    BY <1>2, <2>1 DEF TypeOK, OneHome
<1> QED
  BY <1>1, <1>2, PlanStep

\* Twins stay together: the account is a loose match of its entry, so neither
\* side can have another as its only answer.
LEMMA TwinsStep ==
  ASSUME TypeOK, TwinsNeverParted, [Next]_vars
  PROVE  TwinsNeverParted'
<1>1. CASE UNCHANGED plan
  BY <1>1, PlanStep DEF TwinsNeverParted, Twins
<1>2. ASSUME NEW f \in Entries, NEW n \in Accounts,
             Mutual(Unsettled, Unclaimed, f, n), plan' = [plan EXCEPT ![f] = n]
      PROVE  TwinsNeverParted'
  <2> SUFFICES ASSUME NEW e \in Entries, NEW m \in Accounts, Twins(e, m)'
               PROVE  plan'[e] \in {0, m} /\ \A g \in Entries : plan'[g] = m => g = e
    BY DEF TwinsNeverParted
  <2>1. Twins(e, m)
    BY PlanStep DEF Twins
  <2>2. plan[e] \in {0, m} /\ \A g \in Entries : plan[g] = m => g = e
    BY <2>1 DEF TwinsNeverParted
  <2>3. entries[e] = memory[m]
    BY <2>1 DEF Twins
  <2>4. ASSUME f = e PROVE n = m
    <3>1. plan[e] = 0 /\ m # 0
      BY <1>2, <2>4, SizeAssumption DEF Mutual, Unsettled, Accounts
    <3>2. m \in Unclaimed
      BY <2>2, <3>1 DEF Unclaimed
    <3>3. ResolvesTo(Unclaimed, memory, memory[m], n)
      BY <1>2, <2>3, <2>4 DEF Mutual
    <3> QED
      BY <3>2, <3>3, ResolveSelf
  <2>5. ASSUME n = m PROVE f = e
    <3>1. plan[e] = 0
      BY <1>2, <2>2, <2>5 DEF Mutual, Unclaimed
    <3>2. e \in Unsettled
      BY <2>3, <3>1, UnreadableAssumption DEF Unsettled, Readable, TypeOK
    <3>3. ResolvesTo(Unsettled, entries, entries[e], f)
      BY <1>2, <2>3, <2>5 DEF Mutual
    <3> QED
      BY <3>2, <3>3, ResolveSelf
  <2> QED
    BY <1>2, <2>2, <2>4, <2>5 DEF TypeOK
<1> QED
  BY <1>1, <1>2, PlanStep

\* A rotated account's probe resolves to that account in the snapshot, or to
\* none.
LEMMA RotationStep ==
  ASSUME TypeOK, RotationStaysHome, [Next]_vars
  PROVE  RotationStaysHome'
<1>1. CASE UNCHANGED <<rotated, written>>
  BY <1>1 DEF RotationStaysHome
<1>2. ASSUME NEW r \in Accounts \cup {0}, Save(r) PROVE RotationStaysHome'
  <2>1. CASE r = 0
    BY <1>2, <2>1 DEF Save, RotationStaysHome
  <2>2. CASE r \in Accounts /\ r # 0
    <3>1. \A m \in Covers(r) : m = r
      BY <2>2, ResolveSelf DEF Covers
    <3> QED
      BY <1>2, <3>1 DEF Save, RotationStaysHome
  <2> QED
    BY <2>1, <2>2
<1>3. PassOver \/ NextRound \/ UNCHANGED vars => UNCHANGED <<rotated, written>>
  BY DEF PassOver, NextRound, vars
<1>4. ASSUME NEW m, Commit(m) PROVE UNCHANGED <<rotated, written>>
  BY <1>4 DEF Commit
<1> QED
  BY <1>1, <1>2, <1>3, <1>4 DEF Next

\* The diamond: committing one mutual pair leaves every other one mutual.
LEMMA PersistStep ==
  ASSUME TypeOK, [Next]_vars,
         NEW e \in Entries, NEW m \in Accounts, Mutual(Unsettled, Unclaimed, e, m)
  PROVE  Mutual(Unsettled', Unclaimed', e, m) \/ plan'[e] = m
<1>1. CASE UNCHANGED plan
  BY <1>1, PlanStep DEF Mutual, Unsettled, Unclaimed, Readable, ResolvesTo, Loose, Exact
<1>2. ASSUME NEW f \in Entries, NEW n \in Accounts,
             Mutual(Unsettled, Unclaimed, f, n), plan' = [plan EXCEPT ![f] = n],
             UNCHANGED <<entries, memory>>
      PROVE  Mutual(Unsettled', Unclaimed', e, m) \/ plan'[e] = m
  <2>1. CASE f = e
    <3>1. n = m
      BY <1>2, <2>1, ResolveUnique DEF Mutual
    <3> QED
      BY <1>2, <2>1, <3>1 DEF TypeOK
  <2>2. CASE f # e
    <3>1. n # m
      BY <1>2, <2>2, ResolveUnique DEF Mutual
    <3>2. Unsettled' = Unsettled \ {f} /\ Unclaimed' = Unclaimed \ {n}
      BY <1>2, PoolsShrink
    <3>3. e \in Unsettled' /\ m \in Unclaimed'
      BY <2>2, <3>1, <3>2 DEF Mutual
    <3>4. ResolvesTo(Unclaimed', memory, entries[e], m)
      BY <3>2, <3>3, ResolveShrinks DEF Mutual
    <3>5. ResolvesTo(Unsettled', entries, memory[m], e)
      BY <3>2, <3>3, ResolveShrinks DEF Mutual
    <3> QED
      BY <1>2, <3>3, <3>4, <3>5 DEF Mutual
  <2> QED
    BY <2>1, <2>2
<1> QED
  BY <1>1, <1>2, PlanStep

-----------------------------------------------------------------------------
\* Type correctness.
THEOREM TypeCorrect == Spec => []TypeOK
<1>1. Init => TypeOK
  <2> SUFFICES ASSUME Init PROVE TypeOK
    OBVIOUS
  <2>1. index \in 1..NumEntries + 2
    BY SizeAssumption DEF Init
  <2>2. progressed \in BOOLEAN
    BY DEF Init
  <2> QED
    BY <2>1, <2>2 DEF Init, TypeOK
<1>2. TypeOK /\ [Next]_vars => TypeOK'
  BY TypeStep
<1> QED
  BY <1>1, <1>2, PTL DEF Spec

\* plan_merge gives each loaded account at most one entry.
THEOREM EachAccountOnce == Spec => []OneHome
<1>1. Init => OneHome
  BY DEF Init, OneHome
<1>2. TypeOK /\ OneHome /\ [Next]_vars => OneHome'
  BY OneHomeStep
<1> QED
  BY <1>1, <1>2, TypeCorrect, PTL DEF Spec

\* plan_merge never gives an entry that has its own account loaded the
\* credential of another one.
THEOREM OwnCredentialOnly == Spec => []TwinsNeverParted
<1>1. Init => TwinsNeverParted
  BY SizeAssumption DEF Init, TwinsNeverParted, Accounts
<1>2. TypeOK /\ TwinsNeverParted /\ [Next]_vars => TwinsNeverParted'
  BY TwinsStep
<1> QED
  BY <1>1, <1>2, TypeCorrect, PTL DEF Spec

\* persist_tokens writes the rotated account's entry or none.
THEOREM RotationLandsHome == Spec => []RotationStaysHome
<1>1. Init => RotationStaysHome
  BY DEF Init, RotationStaysHome
<1>2. TypeOK /\ RotationStaysHome /\ [Next]_vars => RotationStaysHome'
  BY RotationStep
<1> QED
  BY <1>1, <1>2, TypeCorrect, PTL DEF Spec

\* plan_merge's pairings commute: none makes another impossible.
THEOREM PairingsCommute == Spec => PairingsPersist
<1>1. TypeOK /\ [Next]_vars =>
        [\A e \in Entries, m \in Accounts :
            Mutual(Unsettled, Unclaimed, e, m) =>
                Mutual(Unsettled', Unclaimed', e, m) \/ plan'[e] = m]_vars
  BY PersistStep
<1> QED
  BY <1>1, TypeCorrect, PTL DEF Spec, PairingsPersist

\* While a round has committed nothing, the entries it has passed have no
\* pairing.
PassedHopeless ==
    ~progressed =>
        \A e \in Entries, m \in Accounts :
            e < index => ~Mutual(Unsettled, Unclaimed, e, m)

\* A round without progress finds nothing to pair.
LEMMA PassedStep ==
  ASSUME TypeOK, PassedHopeless, [Next]_vars
  PROVE  PassedHopeless'
<1>1. ASSUME NEW m \in Accounts, Commit(m) PROVE PassedHopeless'
  BY <1>1 DEF Commit, PassedHopeless
<1>2. CASE PassOver
  <2>1. UNCHANGED <<entries, memory, plan, progressed>> /\ index' = index + 1
    BY <1>2 DEF PassOver, inputs
  <2>2. \A m \in Accounts : ~Mutual(Unsettled, Unclaimed, index, m)
    BY <1>2 DEF PassOver
  <2>3. \A e \in Entries : e < index' => e < index \/ e = index
    BY <2>1, SizeAssumption DEF TypeOK, Entries
  <2>4. Unsettled' = Unsettled /\ Unclaimed' = Unclaimed
    BY <2>1 DEF Unsettled, Unclaimed, Readable
  <2>5. \A e, m : Mutual(Unsettled, Unclaimed, e, m)' <=> Mutual(Unsettled, Unclaimed, e, m)
    BY <2>1, <2>4 DEF Mutual, ResolvesTo, Loose, Exact
  <2> QED
    BY <2>1, <2>2, <2>3, <2>5 DEF PassedHopeless
<1>3. CASE NextRound
  BY <1>3, SizeAssumption DEF NextRound, PassedHopeless, Entries
<1>4. ASSUME NEW r \in Accounts \cup {0}, Save(r) PROVE PassedHopeless'
  <2>1. /\ UNCHANGED <<entries, memory, plan, progressed>>
        /\ index = NumEntries + 1 /\ ~progressed
    BY <1>4 DEF Save, inputs
  <2>2. \A e \in Entries : e < index
    BY <2>1, SizeAssumption DEF Entries
  <2>3. \A e, m : Mutual(Unsettled, Unclaimed, e, m)' <=> Mutual(Unsettled, Unclaimed, e, m)
    BY <2>1 DEF Mutual, ResolvesTo, Loose, Exact, Unsettled, Unclaimed, Readable
  <2> QED
    BY <2>1, <2>2, <2>3 DEF PassedHopeless
<1>5. CASE UNCHANGED vars
  BY <1>5 DEF vars, inputs, PassedHopeless, Mutual, ResolvesTo, Loose, Exact, Unsettled, Unclaimed,
       Readable
<1> QED
  BY <1>1, <1>2, <1>3, <1>4, <1>5 DEF Next

\* Save comes after a round without progress.
SavedAfterQuietRound == index = NumEntries + 2 => ~progressed

\* plan_merge stops at a fixed point: with PairingsCommute, at the only one, so
\* the result does not depend on the order of the entries.
THEOREM FixedPointReached == Spec => []NothingLeft
<1>1. Init => PassedHopeless /\ SavedAfterQuietRound
  BY SizeAssumption DEF Init, PassedHopeless, SavedAfterQuietRound, Entries
<1>2. TypeOK /\ SavedAfterQuietRound /\ [Next]_vars => SavedAfterQuietRound'
  BY SizeAssumption DEF TypeOK, SavedAfterQuietRound, Next, Commit, PassOver, Scanning, NextRound,
       Save, vars
<1>3. TypeOK /\ PassedHopeless /\ [Next]_vars => PassedHopeless'
  BY PassedStep
<1>4. TypeOK /\ PassedHopeless /\ SavedAfterQuietRound => NothingLeft
  BY SizeAssumption DEF PassedHopeless, SavedAfterQuietRound, NothingLeft, Entries
<1> QED
  BY <1>1, <1>2, <1>3, <1>4, TypeCorrect, PTL DEF Spec

-----------------------------------------------------------------------------
\* Of two answers among different candidates, each a candidate of the other
\* search too, neither can be preferred: they are the same.
LEMMA ResolveAgree ==
  ASSUME NEW S, NEW T, NEW f, NEW x, NEW i \in S, NEW j \in S, i \in T, j \in T,
         ResolvesTo(S, f, x, i), ResolvesTo(T, f, x, j)
  PROVE  i = j
<1>1. i \in Loose(S, f, x) /\ j \in Loose(T, f, x)
  BY DEF ResolvesTo, Loose, Exact, SameIdentityStrict
<1>2. SUFFICES ASSUME i # j PROVE FALSE
  OBVIOUS
<1>3. j \in Loose(S, f, x) /\ i \in Loose(T, f, x)
  BY <1>1 DEF Loose
<1>4. Exact(S, f, x) = {i} /\ Exact(T, f, x) = {j}
  BY <1>2, <1>3 DEF ResolvesTo
<1> QED
  BY <1>2, <1>4 DEF Exact

\* The pools a pairing made in an order finds when it comes to entry e.
EntriesLeft(q, rank, e) == {f \in Readable : q[f] # 0 => rank[f] >= rank[e]}
AccountsLeft(q, rank, e) ==
    {m \in Accounts : \A f \in Entries : q[f] = m => rank[f] >= rank[e]}

\* The pairs of the plan are pairs of q.
PlanWithin(q) == \A e \in Entries : plan[e] # 0 => q[e] = plan[e]

\* Whatever the scan can commit, every other order has committed or still can,
\* and one that is exhausted has.
LEMMA ForcedPair ==
  ASSUME TypeOK, NEW q \in Pairings, NEW rank \in [Entries -> Entries],
         Exhausted(q), MadeInOrder(q, rank), PlanWithin(q),
         NEW e \in Entries, NEW m \in Accounts, Mutual(Unsettled, Unclaimed, e, m)
  PROVE  q[e] = m
<1>1. /\ q \in [Entries -> Accounts \cup {0}]
      /\ \A x, y \in Entries : q[x] # 0 /\ q[x] = q[y] => x = y
  BY DEF Pairings
<1>2. 0 \notin Accounts /\ \A x, y \in Entries : rank[x] >= rank[y] \/ rank[y] >= rank[x]
  BY SizeAssumption DEF Accounts, Entries
<1>3. /\ e \in Unsettled /\ m \in Unclaimed
      /\ ResolvesTo(Unclaimed, memory, entries[e], m)
      /\ ResolvesTo(Unsettled, entries, memory[m], e)
  BY DEF Mutual
<1>4. e \in Readable /\ plan[e] = 0 /\ \A x \in Entries : plan[x] # m
  BY <1>3 DEF Unsettled, Unclaimed
<1>5. \A x \in Entries : q[x] # 0 => q[x] \in Accounts
  BY <1>1
<1>6. \A x \in Entries : q[x] # 0 =>
         Mutual(EntriesLeft(q, rank, x), AccountsLeft(q, rank, x), x, q[x])
  BY DEF MadeInOrder, EntriesLeft, AccountsLeft
<1> SUFFICES ASSUME q[e] # m PROVE FALSE
  OBVIOUS
<1>7. CASE q[e] = 0 /\ \A x \in Entries : q[x] # m
  <2> DEFINE es == {x \in Readable : q[x] = 0}
             ms == {n \in Accounts : \A x \in Entries : q[x] # n}
  <2>1. es \subseteq Unsettled /\ ms \subseteq Unclaimed
    BY <1>2 DEF PlanWithin, Unsettled, Unclaimed, Readable, TypeOK
  <2>2. e \in es /\ m \in ms
    BY <1>4, <1>7
  <2>3. ~Mutual(es, ms, e, m)
    BY <2>2 DEF Exhausted
  <2> HIDE DEF es, ms
  <2>4. ResolvesTo(ms, memory, entries[e], m)
    BY <1>3, <2>1, <2>2, ResolveShrinks
  <2>5. ResolvesTo(es, entries, memory[m], e)
    BY <1>3, <2>1, <2>2, ResolveShrinks
  <2> QED
    BY <2>2, <2>3, <2>4, <2>5 DEF Mutual
\* The entry went elsewhere first, to an account free for the scan as well.
<1>8. ASSUME q[e] # 0, \A x \in Entries : q[x] = m => rank[x] >= rank[e] PROVE FALSE
  <2>1. m \in AccountsLeft(q, rank, e)
    BY <1>8 DEF AccountsLeft
  <2>2. /\ q[e] \in AccountsLeft(q, rank, e)
        /\ ResolvesTo(AccountsLeft(q, rank, e), memory, entries[e], q[e])
    BY <1>6, <1>8 DEF Mutual
  <2>3. q[e] \in Unclaimed
    BY <1>1, <1>4, <1>5, <1>8 DEF Unclaimed, PlanWithin
  <2> QED
    BY <1>3, <2>1, <2>2, <2>3, ResolveAgree
\* The account was given away first, to an entry free for the scan as well.
<1>9. ASSUME NEW f \in Entries, q[f] = m, q[e] # 0 => rank[e] >= rank[f] PROVE FALSE
  <2>1. q[f] # 0 /\ f # e
    BY <1>2, <1>9
  <2>2. e \in EntriesLeft(q, rank, f)
    BY <1>4, <1>9 DEF EntriesLeft
  <2>3. /\ f \in EntriesLeft(q, rank, f)
        /\ ResolvesTo(EntriesLeft(q, rank, f), entries, memory[m], f)
    BY <1>6, <1>9, <2>1 DEF Mutual
  <2>4. f \in Unsettled
    BY <1>4, <1>9, <2>3 DEF Unsettled, EntriesLeft, PlanWithin
  <2> QED
    BY <1>3, <2>1, <2>2, <2>3, <2>4, ResolveAgree
<1>10. CASE \E f \in Entries : q[f] = m
  <2> PICK f \in Entries : q[f] = m
    BY <1>10
  <2>1. \A x \in Entries : q[x] = m => x = f
    BY <1>1, <1>2
  <2> QED
    BY <1>2, <1>8, <1>9, <2>1
<1> QED
  BY <1>7, <1>8, <1>10

\* What the scan has committed is part of the outcome of every order.
WithinEveryOutcome ==
    \A q \in Pairings, rank \in [Entries -> Entries] :
        Exhausted(q) /\ MadeInOrder(q, rank) => PlanWithin(q)

\* A commit adds a pair that every outcome has.
LEMMA WithinStep ==
  ASSUME TypeOK, WithinEveryOutcome, [Next]_vars
  PROVE  WithinEveryOutcome'
<1> SUFFICES ASSUME NEW q \in Pairings, NEW rank \in [Entries -> Entries],
                    Exhausted(q)', MadeInOrder(q, rank)'
             PROVE  PlanWithin(q)'
  BY DEF WithinEveryOutcome
<1>1. UNCHANGED <<entries, memory>>
  BY PlanStep
<1>2. Exhausted(q) /\ MadeInOrder(q, rank)
  <2>1. \A es, ms, e, m : Mutual(es, ms, e, m)' <=> Mutual(es, ms, e, m)
    BY <1>1 DEF Mutual, ResolvesTo, Loose, Exact
  <2>2. Readable' = Readable
    BY <1>1 DEF Readable
  <2> QED
    BY <2>1, <2>2 DEF Exhausted, MadeInOrder
<1>3. PlanWithin(q)
  BY <1>2 DEF WithinEveryOutcome
<1>4. CASE UNCHANGED plan
  BY <1>3, <1>4 DEF PlanWithin
<1>5. ASSUME NEW e \in Entries, NEW m \in Accounts,
             Mutual(Unsettled, Unclaimed, e, m), plan' = [plan EXCEPT ![e] = m]
      PROVE  PlanWithin(q)'
  <2>1. q[e] = m
    BY <1>2, <1>3, <1>5, ForcedPair
  <2> QED
    BY <1>3, <1>5, <2>1 DEF PlanWithin, TypeOK
<1> QED
  BY <1>4, <1>5, PlanStep

\* A set of entries that is not empty has one of the lowest rank.
LEMMA LowestRank ==
  ASSUME NEW rank \in [Entries -> Entries], NEW D \in SUBSET Entries, D # {}
  PROVE  \E e \in D : \A f \in D : rank[f] >= rank[e]
<1> DEFINE Below(e) == {f \in Entries : rank[f] < rank[e]}
           T == {Below(e) : e \in D}
           R == StrictSubsetOrdering(Entries)
<1>1. IsWellFoundedOn(R, SUBSET Entries)
  <2>1. IsFiniteSet(Entries)
    BY SizeAssumption, FS_Interval DEF Entries
  <2>2. FiniteSubsetsOf(Entries) = SUBSET Entries
    BY <2>1, FS_FiniteSubsetsOfFinite
  <2> QED
    BY <2>2, FS_StrictSubsetOrderingWellFounded
<1>2. T \subseteq SUBSET Entries /\ T # {}
  OBVIOUS
<1> HIDE DEF T, R
<1>3. PICK t \in T : \A u \in T : ~(<<u, t>> \in R)
  BY <1>1, <1>2, WFMin
<1>4. PICK e \in D : t = Below(e)
  BY DEF T
<1>5. ASSUME NEW f \in D, rank[f] < rank[e] PROVE FALSE
  <2>1. /\ rank[e] \in Int /\ \A g \in Entries : rank[g] \in Int
        /\ f \in Entries
    BY SizeAssumption DEF Entries
  <2>2. Below(f) \subseteq Below(e) /\ f \in Below(e) /\ f \notin Below(f)
    BY <1>5, <2>1
  <2>3. Below(f) \in T
    BY DEF T
  <2>4. <<Below(f), t>> \in R
    BY <1>4, <2>2 DEF R, StrictSubsetOrdering
  <2> QED
    BY <1>3, <2>3, <2>4
<1>6. \A f \in D : rank[f] \in Int /\ rank[e] \in Int
  BY SizeAssumption DEF Entries
<1> QED
  BY <1>5, <1>6

\* When nothing is left to pair, an outcome the plan is part of has no more: the
\* first pair it had on its own was possible for the scan too.
LEMMA NothingBeyond ==
  ASSUME TypeOK, NEW q \in Pairings, NEW rank \in [Entries -> Entries],
         MadeInOrder(q, rank), PlanWithin(q),
         \A e \in Entries, m \in Accounts : ~Mutual(Unsettled, Unclaimed, e, m)
  PROVE  q = plan
<1>1. /\ q \in [Entries -> Accounts \cup {0}]
      /\ \A x, y \in Entries : q[x] # 0 /\ q[x] = q[y] => x = y
  BY DEF Pairings
<1>2. plan \in [Entries -> Accounts \cup {0}]
  BY DEF TypeOK
<1> DEFINE D == {e \in Entries : q[e] # 0 /\ plan[e] = 0}
<1>3. CASE D = {}
  <2>1. \A e \in Entries : q[e] = plan[e]
    BY <1>3 DEF PlanWithin
  <2> QED
    BY <1>1, <1>2, <2>1
<1>4. CASE D # {}
  <2>1. PICK e \in D : \A f \in D : rank[f] >= rank[e]
    BY <1>4, LowestRank
  <2>2. /\ e \in Entries /\ q[e] # 0 /\ plan[e] = 0 /\ q[e] \in Accounts
    BY <1>1
  <2>3. Mutual(EntriesLeft(q, rank, e), AccountsLeft(q, rank, e), e, q[e])
    BY <2>2 DEF MadeInOrder, EntriesLeft, AccountsLeft
  <2>4. e \in Unsettled /\ q[e] \in Unclaimed
    <3>1. e \in Readable
      BY <2>3 DEF Mutual, EntriesLeft
    <3>2. \A f \in Entries : plan[f] # q[e]
      BY <1>1, <2>2 DEF PlanWithin
    <3> QED
      BY <2>2, <3>1, <3>2 DEF Unsettled, Unclaimed
  <2>5. Unsettled \subseteq EntriesLeft(q, rank, e)
    BY <2>1 DEF Unsettled, EntriesLeft, Readable
  <2>6. Unclaimed \subseteq AccountsLeft(q, rank, e)
    <3> SUFFICES ASSUME NEW m \in Unclaimed, NEW f \in Entries, q[f] = m
                 PROVE  rank[f] >= rank[e]
      BY DEF AccountsLeft, Unclaimed
    <3>1. m # 0 /\ plan[f] # m
      BY SizeAssumption DEF Unclaimed, Accounts
    <3>2. f \in D
      BY <3>1 DEF PlanWithin
    <3> QED
      BY <2>1, <3>2
  <2>7. ResolvesTo(Unclaimed, memory, entries[e], q[e])
    BY <2>3, <2>4, <2>6, ResolveShrinks DEF Mutual
  <2>8. ResolvesTo(Unsettled, entries, memory[q[e]], e)
    BY <2>3, <2>4, <2>5, ResolveShrinks DEF Mutual
  <2>9. Mutual(Unsettled, Unclaimed, e, q[e])
    BY <2>4, <2>7, <2>8 DEF Mutual
  <2> QED
    BY <2>2, <2>9
<1> QED
  BY <1>3, <1>4

\* plan_merge's result does not depend on the order of the file's entries: it is
\* the one outcome of settling mutual pairs in any order, one by one or in
\* rounds, until none is left.
THEOREM OrderDoesNotMatter == Spec => []OrderIndependent
<1>1. Init => PassedHopeless /\ WithinEveryOutcome
  BY SizeAssumption DEF Init, PassedHopeless, WithinEveryOutcome, PlanWithin, Entries
<1>2. TypeOK /\ PassedHopeless /\ [Next]_vars => PassedHopeless'
  BY PassedStep
<1>3. TypeOK /\ WithinEveryOutcome /\ [Next]_vars => WithinEveryOutcome'
  BY WithinStep
<1>4. TypeOK /\ PassedHopeless /\ WithinEveryOutcome => OrderIndependent
  <2> SUFFICES ASSUME TypeOK, PassedHopeless, WithinEveryOutcome,
                      index = NumEntries + 1, ~progressed,
                      NEW q \in Pairings, NEW rank \in [Entries -> Entries],
                      Exhausted(q), MadeInOrder(q, rank)
               PROVE  q = plan
    BY DEF OrderIndependent
  <2>1. \A e \in Entries, m \in Accounts : ~Mutual(Unsettled, Unclaimed, e, m)
    BY SizeAssumption DEF PassedHopeless, Entries
  <2>2. PlanWithin(q)
    BY DEF WithinEveryOutcome
  <2> QED
    BY <2>1, <2>2, NothingBeyond
<1> QED
  BY <1>1, <1>2, <1>3, <1>4, TypeCorrect, PTL DEF Spec

(***************************************************************************)
(* The scan ends.  A pairing leaves one entry fewer and may raise the      *)
(* flag, the next round lowers the flag again, and every other step goes   *)
(* on in its round: each step lowers what is left to do.                   *)
(***************************************************************************)
Unpaired == {e \in Entries : plan[e] = 0}

RoundsLeft == Cardinality(Unpaired) + (IF progressed THEN 1 ELSE 0)

StepsLeft == (NumEntries + 2) * RoundsLeft + ((NumEntries + 2) - index)

LEMMA RoundsType ==
    ASSUME TypeOK
    PROVE  /\ IsFiniteSet(Unpaired) /\ Cardinality(Unpaired) \in Nat
           /\ RoundsLeft \in Nat /\ StepsLeft \in Nat
<1>1. IsFiniteSet(Entries)
  BY SizeAssumption, FS_Interval DEF Entries
<1>2. IsFiniteSet(Unpaired) /\ Cardinality(Unpaired) \in Nat
  BY <1>1, FS_Subset, FS_CardinalityType DEF Unpaired
<1>3. RoundsLeft \in Nat
  BY <1>2 DEF RoundsLeft
<1>4. (NumEntries + 2) * RoundsLeft \in Nat
  BY <1>3, SizeAssumption
<1>5. (NumEntries + 2) - index \in Nat
  BY SizeAssumption DEF TypeOK
<1> QED BY <1>2, <1>3, <1>4, <1>5 DEF StepsLeft

LEMMA StepsLeftFalls ==
    ASSUME TypeOK, Next
    PROVE  StepsLeft' < StepsLeft
<1> DEFINE n == NumEntries + 2  k == Cardinality(Unpaired)  i == index
<1>0. n \in Nat /\ k \in Nat /\ i \in Nat /\ IsFiniteSet(Unpaired) /\ 0 < n
  BY RoundsType, SizeAssumption DEF TypeOK
<1>1. ASSUME NEW m \in Accounts, Commit(m) PROVE StepsLeft' < StepsLeft
  <2>1. index \in Unpaired /\ Unpaired' = Unpaired \ {index}
    BY <1>1 DEF Commit, Mutual, Unsettled, Readable, Unpaired, Scanning, TypeOK, Accounts
  <2>2. Cardinality(Unpaired') = k - 1
    BY <1>0, <2>1, FS_RemoveElement
  <2>3. progressed' /\ index' = i + 1
    BY <1>1 DEF Commit
  <2>4. RoundsLeft' = k - 1 + 1 /\ (RoundsLeft = k + 1 \/ RoundsLeft = k + 0)
    BY <2>2, <2>3 DEF RoundsLeft
  <2>5. StepsLeft' = n * RoundsLeft' + (n - (i + 1)) /\ StepsLeft = n * RoundsLeft + (n - i)
    BY <2>3 DEF StepsLeft
  <2> HIDE DEF n, k, i
  <2>6. RoundsLeft' = k /\ (RoundsLeft = k + 1 \/ RoundsLeft = k)
    BY <1>0, <2>4
  <2>7. n * (k + 1) = n * k + n /\ n * k \in Nat
    BY <1>0
  <2> QED BY <1>0, <2>5, <2>6, <2>7
<1>2. ASSUME index' = index + 1, UNCHANGED <<plan, progressed>> PROVE StepsLeft' < StepsLeft
  <2>1. Unpaired' = Unpaired
    BY <1>2 DEF Unpaired
  <2> DEFINE r == n * RoundsLeft
  <2>2. RoundsLeft' = RoundsLeft
    BY <1>2, <2>1 DEF RoundsLeft
  <2>3. StepsLeft = r + (n - i) /\ StepsLeft' = r + (n - (i + 1))
    BY <1>2, <2>2 DEF StepsLeft
  <2>4. r \in Nat
    BY <1>0, RoundsType
  <2> HIDE DEF n, i, r
  <2> QED BY <1>0, <2>3, <2>4
<1>3. CASE NextRound
  <2>1. Unpaired' = Unpaired /\ progressed /\ ~progressed' /\ i = n - 1 /\ index' = 1
    BY <1>3, SizeAssumption DEF NextRound, Unpaired
  <2>2. RoundsLeft = k + 1 /\ RoundsLeft' = k + 0 /\ i = n - 1
    BY <2>1 DEF RoundsLeft
  <2>3. StepsLeft = n * RoundsLeft + (n - i) /\ StepsLeft' = n * RoundsLeft' + (n - 1)
    BY <2>1 DEF StepsLeft
  <2> HIDE DEF n, k, i
  <2>4. n * (k + 1) = n * k + n /\ n * k \in Nat /\ k + 0 = k
    BY <1>0
  <2> QED BY <1>0, <2>2, <2>3, <2>4
<1>4. CASE PassOver
  BY <1>2, <1>4 DEF PassOver
<1>5. ASSUME NEW r, Save(r) PROVE StepsLeft' < StepsLeft
  BY <1>2, <1>5, SizeAssumption DEF Save
<1> QED BY <1>1, <1>3, <1>4, <1>5 DEF Next

(* plan_merge's loop makes progress at every step: no step of it, on any   *)
(* file and fleet, leaves as much to do as it found.                       *)
EveryStepIsProgress == [][StepsLeft' < StepsLeft]_vars

(* So plan_merge ends on every file and fleet.                             *)
THEOREM ScanAlwaysAdvances == Spec => [](StepsLeft \in Nat) /\ EveryStepIsProgress
<1>1. TypeOK => StepsLeft \in Nat
  BY RoundsType
<1>2. TypeOK /\ [Next]_vars => [StepsLeft' < StepsLeft]_vars
  BY StepsLeftFalls
<1> QED BY <1>1, <1>2, TypeCorrect, PTL DEF Spec, EveryStepIsProgress
=============================================================================

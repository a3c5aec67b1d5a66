----------------------------- MODULE TokenMerge -----------------------------
(***************************************************************************)
(* Which entry of the config file gets which loaded account's credential:  *)
(* config::plan_merge and merge_tokens over identity::resolve, as          *)
(* persist_tokens (one rotated account) and persist_now (all) run them.    *)
(*                                                                         *)
(* An identity is its provider, name, account UUID and org key; Absent     *)
(* stands for a missing or empty field.  The org key is what org_key makes *)
(* of the org UUID and the org name.  An entry no probe can be read from   *)
(* is Unreadable.                                                          *)
(***************************************************************************)
EXTENDS Naturals

CONSTANTS
    Identities,   \* the identities that occur
    Absent,       \* no account UUID, or no org
    Unreadable,   \* an entry that is no object or has no identity
    NumEntries,   \* entries of the file
    NumAccounts   \* loaded accounts

Entries  == 1..NumEntries
Accounts == 1..NumAccounts

ASSUME SizeAssumption == NumEntries \in Nat /\ NumAccounts \in Nat
ASSUME UnreadableAssumption == Unreadable \notin Identities

VARIABLES
    entries,    \* the accounts list of the file
    memory,     \* Config::accounts in memory
    plan,       \* the account whose credential each entry takes, 0 for none
    index,      \* the entry the scan looks at
    progressed, \* this round committed a pairing
    rotated,    \* the account that was refreshed, 0 for all of them
    skip,       \* SkipReason of each entry that takes none
    written     \* the account written to each entry, 0 for none

inputs == <<entries, memory>>
vars == <<inputs, plan, index, progressed, rotated, skip, written>>

(***************************************************************************)
(* identity.rs                                                             *)
(***************************************************************************)

\* same_identity: within one provider, by UUID with an unknown org matching
\* every org, else by name.
SameIdentity(a, b) ==
    /\ a.provider = b.provider
    /\ IF a.uuid # Absent /\ b.uuid # Absent
       THEN a.uuid = b.uuid /\ (a.org = Absent \/ b.org = Absent \/ a.org = b.org)
       ELSE a.name = b.name

\* same_identity_strict.
SameIdentityStrict(a, b) ==
    SameIdentity(a, b) /\ a.uuid # Absent /\ a.uuid = b.uuid /\ a.org = b.org

Loose(S, f, target) == {i \in S : SameIdentity(target, f[i])}
Exact(S, f, target) == {i \in S : SameIdentityStrict(target, f[i])}

\* Mutant: the first match wins.
ResolvesToFirst(S, f, target, i) ==
    i \in Loose(S, f, target) /\ \A j \in Loose(S, f, target) : i <= j

\* resolve(candidates, target) = One(i): the only loose match, or the only
\* strict one.  Otherwise it is None or Many, and both write nothing.
ResolvesTo(S, f, target, i) ==
    Loose(S, f, target) = {i} \/ Exact(S, f, target) = {i}

(***************************************************************************)
(* plan_merge                                                              *)
(***************************************************************************)

Readable  == {e \in Entries : entries[e] # Unreadable}
Unsettled == {e \in Readable : plan[e] = 0}
Unclaimed == {m \in Accounts : \A e \in Entries : plan[e] # m}

\* Mutant: the entry's choice is enough.
MutualOneWay(es, ms, e, m) ==
    /\ e \in es /\ m \in ms
    /\ ResolvesTo(ms, memory, entries[e], m)

\* Mutant: accounts already paired are still candidates.
MutualWithClaimed(es, ms, e, m) ==
    /\ e \in es /\ m \in Accounts
    /\ ResolvesTo(Accounts, memory, entries[e], m)
    /\ ResolvesTo(es, entries, memory[m], e)

\* Among these entries and accounts, the entry points at the account and the
\* account at the entry.
Mutual(es, ms, e, m) ==
    /\ e \in es /\ m \in ms
    /\ ResolvesTo(ms, memory, entries[e], m)
    /\ ResolvesTo(es, entries, memory[m], e)

Init ==
    /\ entries \in [Entries -> Identities \cup {Unreadable}]
    /\ memory \in [Accounts -> Identities]
    /\ plan = [e \in Entries |-> 0]
    /\ index = 1 /\ progressed = FALSE /\ rotated = 0
    /\ skip = [e \in Entries |-> "None"]
    /\ written = [e \in Entries |-> 0]

Scanning == skip = [e \in Entries |-> "None"] /\ index <= NumEntries

Commit(m) ==
    /\ Scanning /\ Mutual(Unsettled, Unclaimed, index, m)
    /\ plan' = [plan EXCEPT ![index] = m]
    /\ progressed' = TRUE
    /\ index' = index + 1
    /\ UNCHANGED <<inputs, rotated, skip, written>>

PassOver ==
    /\ Scanning /\ \A m \in Accounts : ~Mutual(Unsettled, Unclaimed, index, m)
    /\ index' = index + 1
    /\ UNCHANGED <<inputs, plan, progressed, rotated, skip, written>>

\* Mutant: the flag of the previous round is kept.
NextRoundKeepsFlag ==
    /\ index = NumEntries + 1 /\ progressed
    /\ index' = 1
    /\ UNCHANGED <<inputs, plan, progressed, rotated, skip, written>>

NextRound ==
    /\ index = NumEntries + 1 /\ progressed
    /\ index' = 1
    /\ progressed' = FALSE
    /\ UNCHANGED <<inputs, plan, rotated, skip, written>>

\* The sweep tells apart, for the report, what the fixed point could not settle;
\* an entry without a probe was settled when it was parsed (one reason stands
\* for the parser's three).
Reason(e) ==
    IF entries[e] = Unreadable THEN "NoIdentity"
    ELSE IF plan[e] # 0 THEN "None"
    ELSE IF Loose(Unclaimed, memory, entries[e]) = {} THEN "NoMemoryMatch"
    ELSE "Ambiguous"

\* Mutant: a rotation writes every account, as the shutdown does.
CoversAll(r) == Accounts

\* CredentialScope: every account, or the one the rotated account's probe
\* resolves to in the snapshot (none of them when it ties).
Covers(r) ==
    IF r = 0 THEN Accounts
    ELSE {m \in Accounts : ResolvesTo(Accounts, memory, memory[r], m)}

\* Mutant: the pairing is saved after any round.
SaveAfterAnyRound(r) ==
    /\ index = NumEntries + 1
    /\ index' = NumEntries + 2
    /\ rotated' = r
    /\ skip' = [e \in Entries |-> Reason(e)]
    /\ written' = [e \in Entries |-> IF plan[e] \in Covers(r) THEN plan[e] ELSE 0]
    /\ UNCHANGED <<inputs, plan, progressed>>

\* merge_tokens writes what the plan and the scope allow.
Save(r) ==
    /\ index = NumEntries + 1 /\ ~progressed
    /\ index' = NumEntries + 2
    /\ rotated' = r
    /\ skip' = [e \in Entries |-> Reason(e)]
    /\ written' = [e \in Entries |-> IF plan[e] \in Covers(r) THEN plan[e] ELSE 0]
    /\ UNCHANGED <<inputs, plan, progressed>>

Next ==
    \/ \E m \in Accounts : Commit(m)
    \/ PassOver
    \/ NextRound
    \/ \E r \in Accounts \cup {0} : Save(r)

Spec == Init /\ [][Next]_vars

\* The scan is one synchronous call.
FairSpec == Spec /\ WF_vars(Next)

-----------------------------------------------------------------------------
(***************************************************************************)
(* Properties.                                                             *)
(***************************************************************************)

\* Every variable holds a value of its type.
TypeOK ==
    /\ entries \in [Entries -> Identities \cup {Unreadable}]
    /\ memory \in [Accounts -> Identities]
    /\ plan \in [Entries -> Accounts \cup {0}]
    /\ index \in 1..NumEntries + 2
    /\ progressed \in BOOLEAN
    /\ rotated \in Accounts \cup {0}
    /\ skip \in [Entries -> {"None", "NoIdentity", "NoMemoryMatch", "Ambiguous"}]
    /\ written \in [Entries -> Accounts \cup {0}]

\* No credential is stamped on two entries: each account has one home.
OneHome ==
    \A e, f \in Entries : plan[e] # 0 /\ plan[e] = plan[f] => e = f

\* The entry and the account are each other's only double.
Twins(e, m) ==
    /\ entries[e] = memory[m]
    /\ \A n \in Accounts : memory[n] = memory[m] => n = m
    /\ \A f \in Entries : entries[f] = entries[e] => f = e

\* An entry that has its account loaded never takes another account's
\* credential, however the legacy entries around it pair off.
TwinsNeverParted ==
    \A e \in Entries, m \in Accounts :
        Twins(e, m) => plan[e] \in {0, m} /\ \A f \in Entries : plan[f] = m => f = e

\* The pairings: an account or none for every entry, no account twice.
Pairings ==
    {q \in [Entries -> Accounts \cup {0}] :
        \A e, f \in Entries : q[e] # 0 /\ q[e] = q[f] => e = f}

\* The pairing q, made in the order rank, several entries at a time where ranks
\* tie: every pair was mutual among what the earlier ones had left.
MadeInOrder(q, rank) ==
    \A e \in Entries : q[e] # 0 =>
        Mutual({f \in Readable : q[f] # 0 => rank[f] >= rank[e]},
               {m \in Accounts : \A f \in Entries : q[f] = m => rank[f] >= rank[e]},
               e, q[e])

\* The pairing q leaves nothing mutual.
Exhausted(q) ==
    LET es == {e \in Readable : q[e] = 0}
        ms == {m \in Accounts : \A e \in Entries : q[e] # m}
    IN  \A e \in es, m \in ms : ~Mutual(es, ms, e, m)

\* The result does not depend on the order the entries sit in the file: every
\* other order of settling them, whole rounds at once too, ends with the pairing
\* the scan in file order ends with.
OrderIndependent ==
    (index = NumEntries + 1 /\ ~progressed) =>
        \A q \in Pairings :
            q # plan /\ Exhausted(q) =>
                \A rank \in [Entries -> Entries] : ~MadeInOrder(q, rank)

\* A rotation reaches the rotated account's entry or none: the snapshot's
\* resolve and the file's pairing never combine to stamp another account.
RotationStaysHome ==
    rotated # 0 => \A e \in Entries : written[e] \in {0, rotated}

\* A pairing that is possible stays possible until it is made, whichever other
\* pairing is committed first.
PairingsPersist ==
    [][\A e \in Entries, m \in Accounts :
          Mutual(Unsettled, Unclaimed, e, m) =>
              Mutual(Unsettled', Unclaimed', e, m) \/ plan'[e] = m]_vars

\* What is left is ambiguous or foreign: the scan stops only when no pairing is
\* possible any more.
NothingLeft ==
    index = NumEntries + 2 =>
        \A e \in Entries, m \in Accounts : ~Mutual(Unsettled, Unclaimed, e, m)

\* The rounds end.
MergeEnds == <>(index = NumEntries + 2)
=============================================================================

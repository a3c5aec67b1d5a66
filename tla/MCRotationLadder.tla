-------------------------- MODULE MCRotationLadder --------------------------
(* Instances of RotationLadder for TLC: which requests are explored.       *)
EXTENDS RotationLadder, TLC

(* Two accounts already tell every restriction apart: the one inside it    *)
(* and the one outside.  Each restriction is explored alone and with bound *)
(* history; a Codex request, which is never lent, has none but the lock.   *)
Restrictions(r) ==
    {"scope" : x \in {r.scope} \ {Accounts}}
    \cup {"group" : x \in {r.members} \ {Accounts}}
    \cup {"lock" : x \in {r.lock} \cap Accounts}
    \cup {"history" : x \in {r.history} \cap Accounts}

MCRequests ==
    {r \in RequestShapes :
        /\ r.scope # {} /\ r.members # {}
        /\ r.strict = (r.members # Accounts)
        /\ r.lendable = (r.provider = "anthropic")
        /\ Cardinality(Restrictions(r) \ {"history"}) <= 1
        /\ r.provider = "codex" => Restrictions(r) \subseteq {"lock"}}

(* A plain request: no scope, group, lock or bound history.                *)
MCPlain ==
    {r \in RequestShapes :
        /\ r.provider = "anthropic" /\ r.scope = Accounts /\ ~r.strict
        /\ r.members = Accounts /\ r.lock = NoAccount /\ r.history = NoAccount
        /\ ~r.lendable}

Symmetry == Permutations(Accounts)
=============================================================================

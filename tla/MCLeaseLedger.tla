---------------------------- MODULE MCLeaseLedger ----------------------------
(***************************************************************************)
(* LeaseLedger for TLC: two borrowers, one lent the whole fleet and served *)
(* here, one lent a group in hand mode, and memory for two pairs, one of a  *)
(* lease: the bound of a lease bites while there is room across leases,    *)
(* the bound across leases once both have relayed.                         *)
(***************************************************************************)
EXTENDS LeaseLedger, TLC

CONSTANTS p1, p2, h1, h2, r1, r2, l1, l2

MCGrantOf ==
    p1 :> [scope |-> "all", fraction |-> 1, max |-> 2, ttl |-> 1, mode |-> "serve"] @@
    p2 :> [scope |-> "work", fraction |-> 1, max |-> 1, ttl |-> 1, mode |-> "hand"]

\* Handlers, request ids and lease ids are interchangeable.
MCSymmetry == Permutations({h1, h2}) \cup Permutations({r1, r2}) \cup Permutations({l1, l2})
=============================================================================

---------------------------- MODULE MCTokenMerge ----------------------------
(***************************************************************************)
(* TokenMerge for TLC: one person in two orgs with and without the stored  *)
(* org and UUID, a namesake at another provider.                           *)
(***************************************************************************)
EXTENDS TokenMerge

CONSTANTS anthropic, codex, n1, n2, u1, o1, o2

Id(provider, name, uuid, org) ==
    [provider |-> provider, name |-> name, uuid |-> uuid, org |-> org]

MCIdentities ==
    {Id(anthropic, n1, Absent, Absent),  \* before UUIDs were stored
     Id(anthropic, n1, u1, Absent),      \* before orgs were stored
     Id(anthropic, n1, u1, o1),
     Id(anthropic, n2, u1, o2),          \* the same person's other org
     Id(codex, n1, Absent, Absent)}
=============================================================================

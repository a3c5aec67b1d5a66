----------------------------- MODULE LeaseBudget -----------------------------
(***************************************************************************)
(* What a lender promises about the leases it grants, and no more: a lease *)
(* is a budget and a cap.  No relay starts once the budget is spent, never *)
(* more than the cap run at once, a relay that ends charges at most        *)
(* MaxCharge, a borrower's report only raises the spend, and a restart ends*)
(* every relay and may forget charges but never adds one.                  *)
(***************************************************************************)
EXTENDS Integers, TLAPS

CONSTANTS
    Leases,     \* the leases ever granted
    MaxCharge   \* the most one relay is charged

VARIABLES
    phase,      \* lease -> "new", "live" or "over"
    limit,      \* lease -> its budget
    cap,        \* lease -> how many relays it may have running
    spent,      \* lease -> charged so far
    reported,   \* lease -> how much of that its borrower reported
    running     \* lease -> relays running under it

vars == <<phase, limit, cap, spent, reported, running>>

Init ==
    /\ phase = [l \in Leases |-> "new"]
    /\ limit = [l \in Leases |-> 0] /\ cap = [l \in Leases |-> 0]
    /\ spent = [l \in Leases |-> 0] /\ reported = [l \in Leases |-> 0]
    /\ running = [l \in Leases |-> 0]

\* A lease that is over can neither be spent nor come back.
EndSome == phase' \in [Leases -> {"new", "live", "over"}]
           /\ \A l \in Leases : phase'[l] # phase[l] => phase[l] = "live" /\ phase'[l] = "over"

\* Granting a lease is also when the lender drops the ones that ran out.
Issue(l) ==
    /\ phase[l] = "new"
    /\ limit'[l] \in Nat \ {0} /\ limit' = [limit EXCEPT ![l] = limit'[l]]
    /\ cap'[l] \in Nat /\ cap' = [cap EXCEPT ![l] = cap'[l]]
    /\ phase'[l] = "live"
    /\ phase' \in [Leases -> {"new", "live", "over"}]
    /\ \A k \in Leases \ {l} :
          phase'[k] # phase[k] => phase[k] = "live" /\ phase'[k] = "over"
    /\ UNCHANGED <<spent, reported, running>>

Begin(l) ==
    /\ phase[l] = "live"
    /\ spent[l] < limit[l]
    /\ running[l] < cap[l]
    /\ running' = [running EXCEPT ![l] = @ + 1]
    /\ UNCHANGED <<phase, limit, cap, spent, reported>>

\* A relay ends and is charged; nothing is charged to a lease that is over.
Settle(l) ==
    /\ running[l] > 0
    /\ running' = [running EXCEPT ![l] = @ - 1]
    /\ \E c \in 0..MaxCharge :
          /\ phase[l] # "live" => c = 0
          /\ spent' = [spent EXCEPT ![l] = @ + c]
    /\ UNCHANGED <<phase, limit, cap, reported>>

Report(l) ==
    /\ phase[l] = "live"
    /\ spent'[l] \in Nat /\ spent'[l] >= spent[l]
    /\ spent' = [spent EXCEPT ![l] = spent'[l]]
    /\ reported' = [reported EXCEPT ![l] = @ + (spent'[l] - spent[l])]
    /\ UNCHANGED <<phase, limit, cap, running>>

Restart ==
    /\ EndSome
    /\ running' = [l \in Leases |-> 0]
    /\ spent' \in [Leases -> Nat]
    /\ \A l \in Leases : spent'[l] <= spent[l]
    /\ UNCHANGED <<limit, cap, reported>>

Next ==
    \/ \E l \in Leases : Issue(l) \/ Begin(l) \/ Settle(l) \/ Report(l)
    \/ Restart

Spec == Init /\ [][Next]_vars

-----------------------------------------------------------------------------
\* max_inflight bounds the overdraft: however late the charges land, a lease
\* is overdrawn by fewer than its cap of relays at the highest charge, beyond
\* what its own borrower reported.
OverdraftBounded ==
    \A l \in Leases :
        phase[l] # "new" => spent[l] + running[l] * MaxCharge
                                < limit[l] + cap[l] * MaxCharge + reported[l]

-----------------------------------------------------------------------------
(***************************************************************************)
(* The bound is a consequence of the promise alone.                        *)
(***************************************************************************)

\* Every variable holds a value of its type.
TypeOK ==
    /\ phase \in [Leases -> {"new", "live", "over"}]
    /\ limit \in [Leases -> Nat] /\ cap \in [Leases -> Nat]
    /\ spent \in [Leases -> Nat] /\ reported \in [Leases -> Nat]
    /\ running \in [Leases -> Nat]

\* Nothing happens to a lease before it is granted.
NewIsUntouched ==
    \A l \in Leases : phase[l] = "new" => spent[l] = 0 /\ reported[l] = 0 /\ running[l] = 0

IndInv == TypeOK /\ NewIsUntouched /\ OverdraftBounded

\* What a relay more may cost stays within a cap that has room for it: the only
\* nonlinear fact about MaxCharge.
LEMMA CapFact ==
    ASSUME NEW r \in Nat, NEW c \in Nat, NEW m \in Nat
    PROVE  /\ r * m \in Nat
           /\ (r + 1) * m = r * m + m
           /\ r < c => r * m + m <= c * m
<1>1. r * m \in Nat /\ (r + 1) * m = r * m + m
  OBVIOUS
<1>2. ASSUME r < c PROVE r * m + m <= c * m
  <2>1. PICK d \in Nat : c = r + 1 + d
    BY <1>2
  <2>2. c * m = r * m + m + d * m
    BY <2>1
  <2>3. d * m \in Nat
    OBVIOUS
  <2> QED BY <1>1, <2>2, <2>3
<1> QED BY <1>1, <1>2

\* The promise starts true: no lease is granted, nothing runs.
LEMMA InitInv == Init => IndInv
BY DEF Init, IndInv, TypeOK, NewIsUntouched, OverdraftBounded

\* Every step of the promise keeps its types and leaves new leases untouched.
LEMMA NextType ==
    ASSUME MaxCharge \in Nat, IndInv, [Next]_vars
    PROVE  TypeOK' /\ NewIsUntouched'
<1> USE DEF IndInv, TypeOK, NewIsUntouched
<1>1. ASSUME NEW l \in Leases, Issue(l) PROVE TypeOK' /\ NewIsUntouched'
  BY <1>1 DEF Issue
<1>2. ASSUME NEW l \in Leases, Begin(l) PROVE TypeOK' /\ NewIsUntouched'
  BY <1>2 DEF Begin
<1>3. ASSUME NEW l \in Leases, Settle(l) PROVE TypeOK' /\ NewIsUntouched'
  BY <1>3 DEF Settle
<1>4. ASSUME NEW l \in Leases, Report(l) PROVE TypeOK' /\ NewIsUntouched'
  BY <1>4 DEF Report
<1>5. CASE Restart
  BY <1>5 DEF Restart, EndSome
<1>6. CASE UNCHANGED vars
  BY <1>6 DEF vars
<1> QED BY <1>1, <1>2, <1>3, <1>4, <1>5, <1>6 DEF Next

\* And the bound: a relay starts only below the budget and below the cap, and
\* what it is charged when it ends is no more than what it stood for.
LEMMA NextOverdraft ==
    ASSUME MaxCharge \in Nat, IndInv, [Next]_vars
    PROVE  OverdraftBounded'
<1> TypeOK' /\ NewIsUntouched'
  BY NextType
<1> SUFFICES ASSUME NEW k \in Leases, phase'[k] # "new"
             PROVE  spent'[k] + running'[k] * MaxCharge
                        < limit'[k] + cap'[k] * MaxCharge + reported'[k]
  BY DEF OverdraftBounded
<1> DEFINE load == running[k] * MaxCharge
           room == cap[k] * MaxCharge
<1>0. phase[k] # "new" => spent[k] + load < limit[k] + room + reported[k]
  BY DEF IndInv, OverdraftBounded
<1>t. /\ load \in Nat /\ room \in Nat
      /\ (running[k] + 1) * MaxCharge = load + MaxCharge
      /\ running[k] < cap[k] => load + MaxCharge <= room
  BY CapFact DEF IndInv, TypeOK
<1> USE DEF IndInv, TypeOK, NewIsUntouched
<1>1. ASSUME NEW l \in Leases, Issue(l)
      PROVE  spent'[k] + running'[k] * MaxCharge < limit'[k] + cap'[k] * MaxCharge + reported'[k]
  <2>1. CASE k = l
    <3>1. spent'[k] = 0 /\ running'[k] = 0 /\ reported'[k] = 0 /\ limit'[k] > 0 /\ cap'[k] \in Nat
      BY <1>1, <2>1 DEF Issue
    <3>2. cap'[k] * MaxCharge \in Nat /\ running'[k] * MaxCharge = 0
      BY <3>1, CapFact
    <3> QED BY <3>1, <3>2
  <2>2. CASE k # l
    <3>1. phase[k] # "new"
      BY <1>1, <2>2 DEF Issue
    <3>2. UNCHANGED <<spent[k], running[k], limit[k], cap[k], reported[k]>>
      BY <1>1, <2>2 DEF Issue
    <3> QED BY <3>1, <3>2, <1>0
  <2> QED BY <2>1, <2>2
<1>2. ASSUME NEW l \in Leases, Begin(l)
      PROVE  spent'[k] + running'[k] * MaxCharge < limit'[k] + cap'[k] * MaxCharge + reported'[k]
  <2>1. phase[k] # "new" /\ UNCHANGED <<spent[k], limit[k], cap[k], reported[k]>>
    BY <1>2 DEF Begin
  <2>2. CASE k = l
    <3>1. running'[k] = running[k] + 1 /\ spent[k] < limit[k] /\ running[k] < cap[k]
      BY <1>2, <2>2 DEF Begin
    <3>2. running'[k] * MaxCharge = load + MaxCharge /\ load + MaxCharge <= room
      BY <3>1, <1>t
    <3>3. cap'[k] * MaxCharge = room
      BY <2>1
    <3> QED BY <3>1, <3>2, <3>3, <2>1, <1>t
  <2>3. CASE k # l
    <3>1. running'[k] = running[k]
      BY <1>2, <2>3 DEF Begin
    <3> QED BY <2>1, <3>1, <1>0
  <2> QED BY <2>2, <2>3
<1>3. ASSUME NEW l \in Leases, Settle(l)
      PROVE  spent'[k] + running'[k] * MaxCharge < limit'[k] + cap'[k] * MaxCharge + reported'[k]
  <2>1. phase[k] # "new" /\ UNCHANGED <<limit[k], cap[k], reported[k]>>
    BY <1>3 DEF Settle
  <2>2. CASE k = l
    <3>1. PICK c \in 0..MaxCharge : spent'[k] = spent[k] + c
      BY <1>3, <2>2 DEF Settle
    <3>2. running'[k] \in Nat /\ running[k] = running'[k] + 1
      BY <1>3, <2>2 DEF Settle
    <3>3. running'[k] * MaxCharge \in Nat /\ load = running'[k] * MaxCharge + MaxCharge
      BY <3>2, CapFact
    <3>4. cap'[k] * MaxCharge = room
      BY <2>1
    <3> QED BY <3>1, <3>3, <3>4, <2>1, <1>0, <1>t
  <2>3. CASE k # l
    <3>1. running'[k] = running[k] /\ spent'[k] = spent[k]
      BY <1>3, <2>3 DEF Settle
    <3> QED BY <2>1, <3>1, <1>0
  <2> QED BY <2>2, <2>3
<1>4. ASSUME NEW l \in Leases, Report(l)
      PROVE  spent'[k] + running'[k] * MaxCharge < limit'[k] + cap'[k] * MaxCharge + reported'[k]
  <2>1. phase[k] # "new" /\ UNCHANGED <<limit[k], cap[k], running[k]>>
    BY <1>4 DEF Report
  <2>2. PICK rise \in Nat : spent'[k] = spent[k] + rise /\ reported'[k] = reported[k] + rise
    <3>1. CASE k = l
      BY <1>4, <3>1 DEF Report
    <3>2. CASE k # l
      <4>1. spent'[k] = spent[k] + 0 /\ reported'[k] = reported[k] + 0
        BY <1>4, <3>2 DEF Report
      <4> QED BY <4>1
    <3> QED BY <3>1, <3>2
  <2>3. running'[k] * MaxCharge = load /\ cap'[k] * MaxCharge = room
    BY <2>1
  <2> QED BY <2>1, <2>2, <2>3, <1>0, <1>t
<1>5. CASE Restart
  <2>1. phase[k] # "new" /\ UNCHANGED <<limit[k], cap[k], reported[k]>>
    BY <1>5 DEF Restart, EndSome
  <2>2. running'[k] = 0 /\ spent'[k] <= spent[k]
    BY <1>5 DEF Restart
  <2>3. running'[k] * MaxCharge = 0 /\ cap'[k] * MaxCharge = room
    BY <2>1, <2>2
  <2> QED BY <2>1, <2>2, <2>3, <1>0, <1>t
<1>6. CASE UNCHANGED vars
  BY <1>6, <1>0 DEF vars
<1> QED BY <1>1, <1>2, <1>3, <1>4, <1>5, <1>6 DEF Next

\* However late the charges land, a lender that keeps its promise is overdrawn
\* by fewer than the cap of relays, beyond what the borrower itself reported.
THEOREM BudgetBoundsOverdraft ==
    ASSUME MaxCharge \in Nat PROVE Spec => []OverdraftBounded
<1>1. IndInv /\ [Next]_vars => IndInv'
  BY NextType, NextOverdraft DEF IndInv
<1>2. IndInv => OverdraftBounded
  BY DEF IndInv
<1> QED BY InitInv, <1>1, <1>2, PTL DEF Spec
=============================================================================

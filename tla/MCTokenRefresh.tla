--------------------------- MODULE MCTokenRefresh ---------------------------
(***************************************************************************)
(* TokenRefresh for TLC: a process with two refresh tasks and a successor  *)
(* with one.                                                               *)
(***************************************************************************)
EXTENDS TokenRefresh, TLC

CONSTANTS p1, p2, t1, t2, u1

MCProcs  == {p1, p2}
MCTasks  == {t1, t2, u1}
MCProcOf == t1 :> p1 @@ t2 :> p1 @@ u1 :> p2

\* One process and its two tasks, for the runs without a successor.
OneProc     == {p1}
TwoTasks    == {t1, t2}
OneProcOf   == t1 :> p1 @@ t2 :> p1

\* The two tasks of the first process do the same.
TaskSymmetry == Permutations({t1, t2})
=============================================================================

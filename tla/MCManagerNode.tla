---------------------------- MODULE MCManagerNode ----------------------------
(* Values of the constants of ManagerNode for TLC. *)
EXTENDS ManagerNode

CONSTANTS j1, t1, t2, w1, w2, a1, a2

(* One job of two tasks *)
OneJob == {j1}
TwoTasks == {t1, t2}
JobOfTwo == (t1 :> j1) @@ (t2 :> j1)
R1 == j1 :> 1
F1 == j1 :> 1
Limit9 == j1 :> 9

Both == Permutations({w1, w2}) \cup Permutations({t1, t2})
==============================================================================

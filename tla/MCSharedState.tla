---------------------------- MODULE MCSharedState ----------------------------
(* Values of the constants of SharedState for TLC. *)
EXTENDS SharedState, TLC

CONSTANTS j1, t1, t2, w1, w2, w3, a1, a2

OneJob == {j1}
OneTask == {t1}
JobOfOne == t1 :> j1
Every(n) == j1 :> n
R2 == Every(2)
F1 == Every(1)
Limit3 == Every(3)

(* No definition tells two workers, or two addresses, apart. *)
Symmetry == Permutations({w1, w2, w3}) \cup Permutations({a1, a2})
==============================================================================

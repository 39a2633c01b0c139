----------------------------- MODULE MCNodeLocks -----------------------------
(* Values of the constants of NodeLocks for TLC. *)
EXTENDS NodeLocks

(* As many as a worker may be given by the events of a run *)
Runs == {"run1", "run2", "run3"}
==============================================================================

---------------------------- MODULE MCEventQueue ----------------------------
(* Workers are interchangeable. *)
EXTENDS EventQueue, TLC

CONSTANTS w1, w2

WorkerSymmetry == Permutations(Worker)
==============================================================================

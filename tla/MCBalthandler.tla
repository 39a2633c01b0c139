---------------------------- MODULE MCBalthandler ----------------------------
(* Values of the constants of Balthandler for TLC. *)
EXTENDS Balthandler

CONSTANTS r1, r2, r3, c1, c2
==============================================================================

------------------------------ MODULE Exchange ------------------------------
(***************************************************************************)
(* What the handlers of a connection promise about a request: its receiver *)
(* takes it once and answers what it took, the maker gets that answer or   *)
(* fails, once. Relationship counts on it: a request is a message that may *)
(* be lost, and its answer another.                                        *)
(***************************************************************************)
CONSTANT Request

VARIABLE stage  \* of each request: "new", "made", "taken", "answered", "ended", "failed"

Init == stage = [r \in Request |-> "new"]

Moves(r, s, t) == stage[r] = s /\ stage' = [stage EXCEPT ![r] = t]

Make(r) == Moves(r, "new", "made")
Take(r) == Moves(r, "made", "taken")
Answer(r) == Moves(r, "taken", "answered")
End(r) == Moves(r, "answered", "ended")

(* A connection that closes fails all its requests at once. *)
Fail(S) ==
    /\ S # {} /\ \A r \in S : stage[r] \in {"made", "taken", "answered"}
    /\ stage' = [r \in Request |-> IF r \in S THEN "failed" ELSE stage[r]]

Next ==
    \/ \E r \in Request : Make(r) \/ Take(r) \/ Answer(r) \/ End(r)
    \/ \E S \in SUBSET Request : Fail(S)

Spec == Init /\ [][Next]_stage
=============================================================================

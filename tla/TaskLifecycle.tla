--------------------------- MODULE TaskLifecycle ---------------------------
(***************************************************************************)
(* What the oracle engine promises about every task: it is learnt from the *)
(* chain, its replicas are given to and taken from workers one at a time,  *)
(* it is settled once, and the contract records the verdict once. This is  *)
(* the abstract specification SharedState implements.                      *)
(***************************************************************************)
EXTENDS Naturals, FiniteSets

CONSTANTS Task, Worker,
          Capacity          \* per task: workers it can be assigned to at a time

VARIABLES state,            \* what the oracle knows of a task
          assigned,         \* the workers it is assigned to
          verdict           \* what the contract knows of it

vars == <<state, assigned, verdict>>

(* Every TaskDefiniteErrorKind but Aborted, which the contract cannot store *)
Verdict == {"Completed", "TimedOut", "Download", "Runtime",
            "IncorrectSpecification", "IncorrectResult"}

Init ==
    /\ state = [t \in Task |-> "Unknown"]
    /\ assigned = [t \in Task |-> {}]
    /\ verdict = [t \in Task |-> "Unknown"]

(* The tasks of a job appear on the contract together. *)
Publish(S) ==
    /\ S # {}
    /\ \A t \in S : verdict[t] = "Unknown"
    /\ verdict' = [t \in Task |-> IF t \in S THEN "Incomplete" ELSE verdict[t]]
    /\ UNCHANGED <<state, assigned>>

Learn(t) ==
    /\ state[t] = "Unknown" /\ verdict[t] # "Unknown"
    /\ state' = [state EXCEPT ![t] = "Incomplete"]
    /\ UNCHANGED <<assigned, verdict>>

Assign(t, w) ==
    /\ state[t] = "Incomplete"
    /\ w \notin assigned[t] /\ Cardinality(assigned[t]) < Capacity[t]
    /\ assigned' = [assigned EXCEPT ![t] = @ \cup {w}]
    /\ UNCHANGED <<state, verdict>>

Unassign(t, w) ==
    /\ state[t] = "Incomplete"
    /\ w \in assigned[t]
    /\ assigned' = [assigned EXCEPT ![t] = @ \ {w}]
    /\ UNCHANGED <<state, verdict>>

Settle(t, v) ==
    /\ state[t] = "Incomplete"
    /\ state' = [state EXCEPT ![t] = v]
    /\ assigned' = [assigned EXCEPT ![t] = {}]
    /\ UNCHANGED verdict

Record(t) ==
    /\ state[t] \in Verdict /\ verdict[t] = "Incomplete"
    /\ verdict' = [verdict EXCEPT ![t] = state[t]]
    /\ UNCHANGED <<state, assigned>>

(* The oracle restarts and forgets everything; the contract does not. *)
Forget ==
    /\ state' = [t \in Task |-> "Unknown"]
    /\ assigned' = [t \in Task |-> {}]
    /\ UNCHANGED verdict

Next ==
    \/ \E S \in SUBSET Task : Publish(S)
    \/ \E t \in Task :
          \/ Learn(t) \/ Record(t)
          \/ \E w \in Worker : Assign(t, w) \/ Unassign(t, w)
          \/ \E v \in Verdict : Settle(t, v)
    \/ Forget

Spec == Init /\ [][Next]_vars
=============================================================================

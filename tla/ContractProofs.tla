---------------------------- MODULE ContractProofs ----------------------------
(***************************************************************************)
(* Proofs about what the oracle engine tells the Jobs contract and its     *)
(* receivers: the verdict it commits, the managers and the workers it has  *)
(* paid, and the events it emits; and, with them, that the engine          *)
(* implements the life cycle of a task.                                    *)
(***************************************************************************)
EXTENDS SharedStateProofs

------------------------------------------------------------------------------
(* The inductive invariant: IInv, and four parts of its own *)

(* The verdict a change carries *)
VerdictOf(c) == IF c.kind = "Complete" THEN "Completed" ELSE c.reason

(* The handler is telling the contract of the verdict of t. *)
Telling(t) == cur = t /\ phase \in {"managers", "commit"}

(* The list still fits the state it was computed from: a task to create is  *)
(* on the chain, and a number of failures to set is not behind.             *)
FreshInv ==
    /\ CreateC \in todo => chain_state[cur] # "Unknown"
    /\ \A c, d \in todo : c.kind = "SetNbFailures" =>
          /\ nb_failures[cur] <= c.nb
          /\ d.kind = "SetNbFailures" => c = d

(* The contract has every local verdict but the one being told, and no other *)
VerdictInv ==
    /\ \A t \in Task :
          /\ completeness[t] \in Final /\ panic = "none" /\ ~Telling(t) =>
                chain_state[t] = completeness[t]
          /\ chain_state[t] \in Final =>
                completeness[t] = chain_state[t] \/ restarts > 0
    /\ phase \in {"managers", "commit"} =>
          \A c \in todo : completeness[cur] = VerdictOf(c)

LastIs(m, t) ==
    /\ managers_addresses[t] # <<>>
    /\ managers_addresses[t][Len(managers_addresses[t])] = m

(* What the contract has been told of t by an oracle that never restarted:  *)
(* everything once it is settled, the first managers while the handler is   *)
(* telling it, and nothing before.                                          *)
Credited(t) ==
    IF chain_state[t] \in Final
    THEN /\ chain_managers[t] = managers_addresses[t]
         /\ chain_state[t] = "Completed" =>
               chain_paid[t] = payment_infos[t] /\ DOMAIN chain_paid[t] = Slots(t)
    ELSE IF Telling(t)
    THEN /\ Len(chain_managers[t]) = pushed
         /\ pushed <= Len(managers_addresses[t])
         /\ \A i \in 1..pushed : chain_managers[t][i] = managers_addresses[t][i]
    ELSE chain_managers[t] = <<>>

CreditInv ==
    /\ DOMAIN chain_paid = Task
    /\ phase = "apply" /\ todo # {} => pushed = 0
    /\ phase # "idle" => AddManagerC \in todo \/ LastIs(from, cur)
    /\ phase = "commit" => pushed = Len(managers_addresses[cur])
    /\ \A t \in Task : DOMAIN payment_infos[t] \subseteq Slots(t)
    /\ restarts = 0 => \A t \in Task : Credited(t)

(* A task that is not known has no event behind it. *)
MirrorInv ==
    /\ \A t \in Task : completeness[t] = "Unknown" =>
          mirror[t] = [workers |-> {}, pending |-> 0]
    /\ EventsMirrorSubstates

------------------------------------------------------------------------------
(* What a step does to the replicas of the tasks *)

LEMMA Replicas ==
    ASSUME NEW t \in Task
    PROVE  /\ Filled(t) \subseteq Slots(t)
           /\ IsFiniteSet(Slots(t)) /\ Cardinality(Slots(t)) = Redundancy[JobOf[t]]
           /\ IsFiniteSet(Filled(t)) /\ IsFiniteSet(Slots(t) \ Filled(t))
           /\ nb_unassigned(t) \in Nat
<1>1. Redundancy[JobOf[t]] \in Nat /\ Redundancy[JobOf[t]] >= 1
      /\ Slots(t) = 1..Redundancy[JobOf[t]]
  BY TaskConstants
<1>2. IsFiniteSet(Slots(t)) /\ Cardinality(Slots(t)) = Redundancy[JobOf[t]]
  BY <1>1, FS_Interval
<1>3. Filled(t) \in SUBSET Slots(t) /\ (Slots(t) \ Filled(t)) \in SUBSET Slots(t)
  BY DEF Filled
<1>4. IsFiniteSet(Filled(t)) /\ IsFiniteSet(Slots(t) \ Filled(t))
  BY <1>2, <1>3, FS_Subset
<1>. QED
  BY <1>2, <1>3, <1>4, FS_CardinalityType DEF nb_unassigned

LEMMA ReplicasKept ==
    ASSUME NEW t \in Task, substates'[t] = substates[t]
    PROVE  /\ Filled(t)' = Filled(t) /\ Workers(t)' = Workers(t)
           /\ nb_unassigned(t)' = nb_unassigned(t)
<1>1. Filled(t)' = Filled(t) /\ Slots(t)' = Slots(t)
  BY DEF Filled, Slots
<1>. QED
  BY <1>1 DEF Workers, nb_unassigned

(* The replicas of a task are emptied: Task::new, or the verdict *)
LEMMA ReplicasEmptied ==
    ASSUME NEW t \in Task, substates'[t] = Empty(t)
    PROVE  /\ Filled(t)' = {} /\ Workers(t)' = {}
           /\ nb_unassigned(t)' = Redundancy[JobOf[t]]
<1>1. Filled(t)' = {}
  BY DEF Filled, Empty, Slots
<1>2. Slots(t)' = Slots(t) /\ Slots(t) \ {} = Slots(t)
  BY DEF Slots
<1>. QED
  BY <1>1, <1>2, Replicas DEF Workers, nb_unassigned

(* TaskCompleteness::unassign gives back one slot and one worker. *)
LEMMA ReplicaReleased ==
    ASSUME TypeOK, ReplicasOnDistinctWorkers, NEW t \in Task, NEW s \in Filled(t),
           substates'[t] = [substates[t] EXCEPT ![s] = Nobody]
    PROVE  /\ Workers(t)' = Workers(t) \ {substates[t][s]}
           /\ nb_unassigned(t)' = nb_unassigned(t) + 1
           /\ Filled(t)' = Filled(t) \ {s}
<1>1. s \in Slots(t) /\ substates[t] \in [Slots(t) -> Worker \cup {Nobody}]
  BY DEF Filled, TypeOK
<1>2. substates'[t][s] = Nobody /\ \A r \in Slots(t) : r # s => substates'[t][r] = substates[t][r]
  BY <1>1
<1>3. \A r : r \in Filled(t)' <=> r \in Slots(t) /\ substates'[t][r] # Nobody
  BY DEF Filled, Slots
<1>4. \A r : r \in Filled(t) <=> r \in Slots(t) /\ substates[t][r] # Nobody
  BY DEF Filled
<1>5. Filled(t)' = Filled(t) \ {s}
  <2>1. \A r : r \in Filled(t)' <=> r \in Filled(t) \ {s}
    BY <1>2, <1>3, <1>4
  <2>. QED
    BY <2>1
<1>6. Workers(t)' = Workers(t) \ {substates[t][s]}
  <2>1. Workers(t)' = {substates'[t][r] : r \in Filled(t)'}
    BY DEF Workers
  <2>2. \A r \in Filled(t)' : r \in Slots(t) /\ r # s /\ substates'[t][r] = substates[t][r]
    BY <1>2, <1>4, <1>5
  <2>3. \A r \in Filled(t) : substates[t][r] = substates[t][s] => r = s
    BY DEF ReplicasOnDistinctWorkers
  <2>. QED
    BY <1>5, <2>1, <2>2, <2>3 DEF Workers
<1>7. nb_unassigned(t)' = nb_unassigned(t) + 1
  <2>1. Slots(t)' = Slots(t)
    BY DEF Slots
  <2>2. Slots(t) \ Filled(t)' = (Slots(t) \ Filled(t)) \cup {s} /\ s \notin Slots(t) \ Filled(t)
    BY <1>1, <1>5
  <2>. QED
    BY <2>1, <2>2, Replicas, FS_AddElement DEF nb_unassigned
<1>. QED
  BY <1>5, <1>6, <1>7

(* TaskCompleteness::assign takes one slot, and there was room for it. *)
LEMMA ReplicaTaken ==
    ASSUME TypeOK, NEW t \in Task, NEW s \in Slots(t) \ Filled(t), NEW w \in Worker,
           substates'[t] = [substates[t] EXCEPT ![s] = w]
    PROVE  /\ Workers(t)' = Workers(t) \cup {w}
           /\ nb_unassigned(t)' = nb_unassigned(t) - 1
           /\ Filled(t)' = Filled(t) \cup {s}
           /\ Cardinality(Workers(t)) < Redundancy[JobOf[t]]
<1>1. substates[t] \in [Slots(t) -> Worker \cup {Nobody}] /\ w # Nobody
  BY ParametersAssumption DEF TypeOK
<1>2. substates'[t][s] = w /\ \A r \in Slots(t) : r # s => substates'[t][r] = substates[t][r]
  BY <1>1
<1>3. \A r : r \in Filled(t)' <=> r \in Slots(t) /\ substates'[t][r] # Nobody
  BY DEF Filled, Slots
<1>4. \A r : r \in Filled(t) <=> r \in Slots(t) /\ substates[t][r] # Nobody
  BY DEF Filled
<1>5. Filled(t)' = Filled(t) \cup {s}
  <2>1. \A r : r \in Filled(t)' <=> r \in Filled(t) \cup {s}
    BY <1>1, <1>2, <1>3, <1>4
  <2>. QED
    BY <2>1
<1>6. Workers(t)' = Workers(t) \cup {w}
  <2>1. Workers(t)' = {substates'[t][r] : r \in Filled(t)'}
    BY DEF Workers
  <2>2. \A r \in Filled(t) : r \in Slots(t) /\ r # s /\ substates'[t][r] = substates[t][r]
    BY <1>2, <1>4
  <2>. QED
    BY <1>2, <1>5, <2>1, <2>2 DEF Workers
<1>7. nb_unassigned(t)' = nb_unassigned(t) - 1
  <2>1. Slots(t)' = Slots(t)
    BY DEF Slots
  <2>2. Slots(t) \ Filled(t)' = (Slots(t) \ Filled(t)) \ {s}
    BY <1>5
  <2>. QED
    BY <2>1, <2>2, Replicas, FS_RemoveElement DEF nb_unassigned
<1>8. Cardinality(Workers(t)) < Redundancy[JobOf[t]]
  <2>1. Cardinality(Workers(t)) <= Cardinality(Filled(t)) /\ IsFiniteSet(Workers(t))
    <3>. DEFINE f == [r \in Filled(t) |-> substates[t][r]]
    <3>1. f \in Surjection(Filled(t), Workers(t))
      BY DEF Surjection, Workers
    <3>. QED
      BY <3>1, Replicas, FS_Surjection
  <2>2. Cardinality(Filled(t)) <= Redundancy[JobOf[t]]
        /\ Cardinality(Filled(t)) # Redundancy[JobOf[t]]
    <3>1. s \in Slots(t) /\ s \notin Filled(t) /\ Filled(t) \in SUBSET Slots(t)
      BY Replicas
    <3>2. IsFiniteSet(Slots(t)) /\ Cardinality(Slots(t)) = Redundancy[JobOf[t]]
      BY Replicas
    <3>3. Cardinality(Filled(t)) <= Cardinality(Slots(t))
          /\ (Cardinality(Slots(t)) = Cardinality(Filled(t)) => Slots(t) = Filled(t))
      BY <3>1, <3>2, FS_Subset
    <3>. QED
      BY <3>1, <3>2, <3>3
  <2>3. Cardinality(Filled(t)) \in Nat /\ Cardinality(Workers(t)) \in Nat
        /\ Redundancy[JobOf[t]] \in Nat
    BY <2>1, Replicas, TaskConstants, FS_CardinalityType
  <2>. QED
    BY <2>1, <2>2, <2>3
<1>. QED
  BY <1>5, <1>6, <1>7, <1>8

------------------------------------------------------------------------------
(* What a step does to the rest, once the branches IInv excludes are gone *)

(* An accepted proposal only takes the lock, for a task that is not settled. *)
Takes(t, m) ==
    /\ Listening /\ cur' = t /\ from' = m /\ phase' = "apply" /\ pushed' = 0
    /\ UNCHANGED <<local, panic, restarts, chain, mirror>>
    /\ AddManagerC \in todo' /\ completeness[t] \notin Final
    /\ Len(managers_addresses[t]) < MaxProposals

(* The list was computed from the state it is applied to. *)
Fits(t, changes) ==
    /\ CreateC \in changes => chain_state[t] # "Unknown"
    /\ \A c, d \in changes : c.kind = "SetNbFailures" =>
          /\ nb_failures[t] <= c.nb
          /\ d.kind = "SetNbFailures" => c = d

LEMMA ReceiveEffect ==
    ASSUME IInv, Receive
    PROVE  \E t \in Task, m \in Address : Takes(t, m) /\ Fits(t, todo')
<1>0. IInv' /\ TypeOK
  BY ReceiveIInv DEF IInv, TypeInv
<1>01. CreateC.kind = "Create" /\ AddManagerC.kind = "AddManager" /\ AddManagerC # CreateC
  BY DEF CreateC, AddManagerC
<1>1. ASSUME NEW t \in Task, NEW m \in Address, NEW changes, Listening,
             Accept(t, m, changes), Fits(t, changes)
      PROVE  Takes(t, m) /\ Fits(t, todo')
  <2>1. /\ todo' = changes \cup {AddManagerC} /\ cur' = t /\ phase' = "apply"
        /\ UNCHANGED completeness
    BY <1>1 DEF Accept, local
  <2>2. completeness'[cur'] \in {"Unknown", "Incomplete"}
    <3>1. ApplicableOK' /\ todo' # {}
      BY <1>0, <2>1 DEF IInv, ListsApplicable
    <3>. QED
      BY <2>1, <3>1 DEF ApplicableOK, Incomplete
  <2>3. completeness[t] \notin Final
    BY <2>1, <2>2 DEF Final, Reason
  <2>4. Fits(t, todo')
    BY <1>01, <1>1, <2>1 DEF Fits
  <2>. QED
    BY <1>1, <2>1, <2>3, <2>4 DEF Takes, Accept
<1>2. ASSUME NEW t \in Task, NEW m \in Address, ReceiveNewTask(t, m)
      PROVE  Takes(t, m) /\ Fits(t, todo')
  <2>1. Fits(t, {CreateC})
    BY <1>01, <1>2 DEF Fits, ReceiveNewTask
  <2>. QED
    BY <1>1, <1>2, <2>1 DEF ReceiveNewTask
<1>3. ASSUME NEW t \in Task, NEW m \in Address, NEW changes, Listening,
             Accept(t, m, changes), \A c \in changes : c.kind \notin {"Create", "SetNbFailures"}
      PROVE  Takes(t, m) /\ Fits(t, todo')
  <2>1. Fits(t, changes)
    BY <1>01, <1>3 DEF Fits
  <2>. QED
    BY <1>1, <1>3, <2>1
<1>4. ASSUME NEW t \in Task, NEW m \in Address, NEW k \in FailureKind,
             NEW w \in Worker, NEW id \in InnerId, NEW n \in 0..MaxNb,
             ReceiveFailure(t, m, k, w, id, n)
      PROVE  Takes(t, m) /\ Fits(t, todo')
  <2>. DEFINE U == UnassignChanges(t, k, w)
              S == SetNbFailuresC(n)
              D == DefinetelyFailedC(ReasonOf(k))
  <2>1. /\ Listening /\ n \in Nat /\ nb_failures[t] \in Nat /\ Max_failures(t) \in Nat
        /\ FailureApplies(t, k, w, id, n)
    BY <1>0, <1>4, TaskConstants DEF ReceiveFailure, TypeOK
  <2>2. Incomplete(t)
    BY <2>1 DEF IInv, ListsApplicable, FailureApplies, Workers, ApplicableOK
  <2>3. nb_failures[t] <= Max_failures(t)
    BY <2>1, <2>2, IdleBudget
  <2>4. nb_failures[t] <= n
    <3>1. CASE k \in {"Aborted", "ManUnavailable"}
      BY <2>1, <3>1 DEF FailureApplies, FailureAccepted
    <3>2. CASE k = "Specs"
      BY <2>1, <2>3, <3>2 DEF FailureApplies, FailureAccepted
    <3>3. CASE k \notin {"Aborted", "ManUnavailable", "Specs"}
      BY <2>1, <3>3 DEF FailureApplies, FailureAccepted
    <3>. QED
      BY <3>1, <3>2, <3>3
  <2>5. /\ \A c \in U : c.kind = "Unassign"
        /\ S.kind = "SetNbFailures" /\ S.nb = n /\ D.kind = "DefinetelyFailed"
    BY DEF UnassignChanges, UnassignC, SetNbFailuresC, DefinetelyFailedC
  <2>6. panic' # "reason"
    BY <1>0 DEF IInv, OnlyForeseenPanics
  <2>. HIDE DEF U, S, D
  <2>7. Fits(t, {S} \cup U) /\ Fits(t, {S, D} \cup U)
    BY <1>01, <2>4, <2>5 DEF Fits
  <2>8. Accept(t, m, {S} \cup U) \/ Accept(t, m, {S, D} \cup U)
    BY <1>4, <2>6 DEF ReceiveFailure, U, S, D
  <2>. QED
    BY <1>1, <2>1, <2>7, <2>8
<1>5. ASSUME NEW t \in Task, NEW m \in Address, NEW offers \in Offers,
             ReceiveScheduling(t, m, offers)
      PROVE  Takes(t, m) /\ Fits(t, todo')
  <2>. DEFINE A == {AssignC(offers[i].worker, i) : i \in Taken(t, offers)}
  <2>1. \A c \in A : c.kind = "Assign"
    BY DEF AssignC
  <2>2. Accept(t, m, A) /\ Listening
    BY <1>5 DEF ReceiveScheduling
  <2>. QED
    BY <1>3, <2>1, <2>2
<1>6. ASSUME NEW t \in Task, NEW m \in Address, NEW w \in Worker, ReceiveChecked(t, m, w)
      PROVE  Takes(t, m) /\ Fits(t, todo')
  BY <1>3, <1>6 DEF ReceiveChecked, CheckedC
<1>7. ASSUME NEW t \in Task, NEW m \in Address, NEW w \in Worker,
             NEW idMan \in InnerId, NEW idStatus \in InnerId,
             NEW r \in {"empty", "data"}, ReceiveCompleted(t, m, w, idMan, idStatus, r)
      PROVE  Takes(t, m) /\ Fits(t, todo')
  BY <1>3, <1>7 DEF ReceiveCompleted, CompleteC
<1>. QED
  BY <1>2, <1>4, <1>5, <1>6, <1>7 DEF Receive

(* Task::new: the task was not known, and its managers are still to come. *)
Creates ==
    /\ completeness[cur] = "Unknown" /\ CreateC \in todo
    /\ todo' = {AddManagerC}
    /\ completeness' = [completeness EXCEPT ![cur] = "Incomplete"]
    /\ substates' = [substates EXCEPT ![cur] = Empty(cur)]
    /\ nb_failures' = [nb_failures EXCEPT ![cur] = 0]
    /\ managers_addresses' = [managers_addresses EXCEPT ![cur] = <<>>]
    /\ mirror' = [mirror EXCEPT ![cur] = PendingEvents(mirror[cur], Redundancy[JobOf[cur]])]
    /\ UNCHANGED payment_infos

(* Any other change of an incomplete task but the verdict *)
Updates(c) ==
    /\ Incomplete(cur)
    /\ todo' = todo \ {c} /\ CreateC \notin todo
    /\ UNCHANGED <<completeness, payment_infos>>
    /\ IF c.kind = "AddManager"
       THEN /\ c = AddManagerC
            /\ managers_addresses' =
                 [managers_addresses EXCEPT ![cur] = Append(managers_addresses[cur], from)]
       ELSE c # AddManagerC /\ UNCHANGED managers_addresses
    /\ IF c.kind = "SetNbFailures" THEN nb_failures' = [nb_failures EXCEPT ![cur] = c.nb]
                                   ELSE UNCHANGED nb_failures

(* The local verdict: the handler turns to the contract. *)
Settles(c) ==
    /\ Incomplete(cur)
    /\ todo = {c} /\ todo' = todo /\ AddManagerC \notin todo
    /\ VerdictOf(c) \in Final
    /\ completeness' = [completeness EXCEPT ![cur] = VerdictOf(c)]
    /\ substates' = [substates EXCEPT ![cur] = Empty(cur)]
    /\ payment_infos' = [payment_infos EXCEPT ![cur] =
            IF c.kind = "Complete" THEN [s \in Filled(cur) |-> substates[cur][s]] ELSE <<>>]
    /\ phase' = "managers"
    /\ UNCHANGED <<nb_failures, managers_addresses, mirror>>

LEMMA ApplyEffect ==
    ASSUME IInv, NEW c \in todo,
           \/ ApplyCreate(c) \/ ApplyChecked(c) \/ ApplyUnassign(c)
           \/ ApplyAssign(c) \/ ApplyAddManager(c) \/ ApplySetNbFailures(c)
           \/ ApplyComplete(c) \/ ApplyDefinetelyFailed(c)
    PROVE  /\ cur \in Task /\ c \in Change /\ Applying(c, c.kind) /\ phase = "apply"
           /\ panic = "none"
           /\ \/ Die("assign")
              \/ /\ UNCHANGED <<cur, from, pushed, panic, restarts, chain>>
                 /\ \/ ApplyCreate(c) /\ Creates /\ UNCHANGED phase
                    \/ /\ \/ ApplyChecked(c) \/ ApplyUnassign(c) \/ ApplyAssign(c)
                          \/ ApplyAddManager(c) \/ ApplySetNbFailures(c)
                       /\ Updates(c) /\ UNCHANGED phase
                    \/ (ApplyComplete(c) \/ ApplyDefinetelyFailed(c)) /\ Settles(c)
<1>1. Applying(c, c.kind)
  BY DEF ApplyCreate, ApplyChecked, ApplyUnassign, ApplyAssign, ApplyAddManager,
         ApplySetNbFailures, ApplyComplete, ApplyDefinetelyFailed, Applying
<1>2. /\ cur \in Task /\ c \in Change /\ First(c) /\ phase = "apply" /\ panic = "none"
      /\ ApplicableOK /\ TypeOK /\ ListOK
  BY <1>1, ApplyingTask DEF IInv, TypeInv, ListsApplicable
<1>3. c.kind # "AddManager" <=> c # AddManagerC
  BY <1>2, ChangeShape DEF AddManagerC
<1>4. CASE ApplyCreate(c)
  <2>1. c.kind = "Create" /\ Done(c)
    BY <1>4 DEF ApplyCreate, Applying
  <2>2. completeness[cur] = "Unknown" /\ todo = {CreateC, AddManagerC} /\ c = CreateC
    BY <1>1, <1>2, <2>1, AppliedToIncomplete, ChangeShape
  <2>3. CreateC # AddManagerC
    BY DEF CreateC, AddManagerC
  <2>4. todo' = {AddManagerC}
    BY <2>1, <2>2, <2>3 DEF Done
  <2>5. Creates
    BY <1>4, <2>2, <2>4 DEF ApplyCreate, Creates
  <2>. QED
    BY <1>1, <1>2, <1>4, <2>1, <2>5 DEF Done
<1>5. CASE ApplyChecked(c) \/ ApplyUnassign(c) \/ ApplyAssign(c)
            \/ ApplyAddManager(c) \/ ApplySetNbFailures(c)
  <2>1. c.kind \in {"Checked", "Unassign", "Assign", "AddManager", "SetNbFailures"}
    BY <1>5 DEF ApplyChecked, ApplyUnassign, ApplyAssign, ApplyAddManager,
                ApplySetNbFailures, Applying
  <2>2. Incomplete(cur) /\ CreateC \notin todo
    BY <1>1, <2>1, AppliedToIncomplete
  <2>3. c.kind \in {"Checked", "Unassign"} => c.worker \in Workers(cur)
    BY <1>2 DEF ApplicableOK
  <2>4. CASE ApplyChecked(c)
    <3>1. c.kind = "Checked"
      BY <2>4 DEF ApplyChecked, Applying
    <3>2. Done(c) /\ Updates(c)
      BY <1>3, <2>2, <2>3, <2>4, <3>1 DEF ApplyChecked, Updates, Done
    <3>. QED
      BY <1>1, <1>2, <2>4, <3>2 DEF Done
  <2>5. CASE ApplyUnassign(c)
    <3>1. c.kind = "Unassign"
      BY <2>5 DEF ApplyUnassign, Applying
    <3>2. Done(c) /\ Updates(c)
      BY <1>3, <2>2, <2>3, <2>5, <3>1 DEF ApplyUnassign, Updates, Done
    <3>. QED
      BY <1>1, <1>2, <2>5, <3>2 DEF Done
  <2>6. CASE ApplyAssign(c)
    <3>1. c.kind = "Assign"
      BY <2>6 DEF ApplyAssign, Applying
    <3>2. Die("assign") \/ (Done(c) /\ Updates(c))
      BY <1>3, <2>2, <2>6, <3>1 DEF ApplyAssign, Updates, Done, Refuse
    <3>. QED
      BY <1>1, <1>2, <2>6, <3>2 DEF Done
  <2>7. CASE ApplyAddManager(c)
    <3>1. c.kind = "AddManager"
      BY <2>7 DEF ApplyAddManager, Applying
    <3>2. Done(c) /\ Updates(c)
      BY <1>3, <2>2, <2>7, <3>1 DEF ApplyAddManager, Updates, Done
    <3>. QED
      BY <1>1, <1>2, <2>7, <3>2 DEF Done
  <2>8. CASE ApplySetNbFailures(c)
    <3>1. c.kind = "SetNbFailures"
      BY <2>8 DEF ApplySetNbFailures, Applying
    <3>2. Done(c) /\ Updates(c)
      BY <1>3, <2>2, <2>8, <3>1 DEF ApplySetNbFailures, Updates, Done
    <3>. QED
      BY <1>1, <1>2, <2>8, <3>2 DEF Done
  <2>. QED
    BY <1>5, <2>4, <2>5, <2>6, <2>7, <2>8
<1>6. CASE ApplyComplete(c) \/ ApplyDefinetelyFailed(c)
  <2>1. c.kind \in {"Complete", "DefinetelyFailed"} /\ IsVerdict(c)
    BY <1>6 DEF ApplyComplete, ApplyDefinetelyFailed, Applying, IsVerdict
  <2>2. Incomplete(cur) /\ todo = {c}
    BY <1>1, <1>2, <2>1, AppliedToIncomplete, VerdictComesLast DEF TypeOK
  <2>3. AddManagerC \notin todo
    BY <1>3, <2>1, <2>2
  <2>4. VerdictOf(c) \in Final
    BY <1>2, <2>1, ChangeShape DEF VerdictOf, Final
  <2>5. CASE ApplyComplete(c)
    <3>1. c.kind = "Complete"
      BY <2>5 DEF ApplyComplete, Applying
    <3>2. Settles(c) /\ UNCHANGED <<cur, from, pushed, panic, restarts, chain>>
      BY <2>2, <2>3, <2>4, <2>5, <3>1 DEF ApplyComplete, Settle, Settles, VerdictOf
    <3>. QED
      BY <1>1, <1>2, <2>5, <3>2
  <2>6. CASE ApplyDefinetelyFailed(c)
    <3>1. c.kind = "DefinetelyFailed"
      BY <2>6 DEF ApplyDefinetelyFailed, Applying
    <3>2. Settles(c) /\ UNCHANGED <<cur, from, pushed, panic, restarts, chain>>
      BY <2>2, <2>3, <2>4, <2>6, <3>1 DEF ApplyDefinetelyFailed, Settle, Settles, VerdictOf
    <3>. QED
      BY <1>1, <1>2, <2>6, <3>2
  <2>. QED
    BY <1>6, <2>5, <2>6
<1>. QED
  BY <1>4, <1>5, <1>6

(* The transactions touch neither the local state nor the list but its end. *)
LEMMA CommitEffect ==
    ASSUME IInv, Commit \/ Release
    PROVE  /\ UNCHANGED <<local, from, restarts, mirror>> /\ panic = "none"
           /\ panic' \in {"none", "chain"}
           /\ \/ Die("chain") /\ phase \in {"managers", "commit"}
              \/ PushManager /\ UNCHANGED <<cur, todo, phase, chain_state, chain_paid>>
                   /\ phase = "managers"
              \/ ManagersSet /\ UNCHANGED <<cur, todo, pushed, panic, chain>>
                   /\ phase = "managers" /\ phase' = "commit"
              \/ /\ phase = "commit" /\ phase' = "apply" /\ todo' = {}
                 /\ UNCHANGED <<cur, pushed, chain_managers>>
                 /\ \E c \in todo :
                       todo = {c} /\ c \in Change /\ IsVerdict(c) /\ CommitVerdict(c)
              \/ Release /\ UNCHANGED <<todo, pushed, panic, chain>> /\ todo = {}
                   /\ phase = "apply" /\ phase' = "idle" /\ cur' = NoTask
<1>1. TypeOK /\ PhaseOK /\ panic \in {"none", "assign", "chain"}
  BY DEF IInv, TypeInv, OnlyForeseenPanics
<1>2. CASE PushManager
  BY <1>2 DEF PushManager, Committing, Answers
<1>3. CASE ManagersSet
  BY <1>3 DEF ManagersSet, Committing
<1>4. CASE ChainError
  <2>1. Die("chain") /\ panic = "none" /\ phase \in {"managers", "commit"}
    BY <1>4 DEF ChainError, Committing
  <2>2. UNCHANGED <<local, from, restarts, mirror>> /\ panic' = "chain"
    BY <2>1 DEF Die, handler
  <2>. QED
    BY <2>1, <2>2
<1>5. ASSUME NEW c \in todo, CommitVerdict(c)
      PROVE  /\ UNCHANGED <<local, from, restarts, mirror>> /\ panic = "none"
             /\ panic' \in {"none", "chain"}
             /\ phase = "commit" /\ phase' = "apply" /\ todo' = {}
             /\ UNCHANGED <<cur, pushed, chain_managers>>
             /\ todo = {c} /\ c \in Change /\ IsVerdict(c)
  <2>1. phase = "commit" /\ panic = "none" /\ todo' = todo \ {c}
    BY <1>5 DEF CommitVerdict, Committing
  <2>2. todo = {c} /\ IsVerdict(c) /\ c \in Change
    BY <1>1, <2>1 DEF PhaseOK, TypeOK
  <2>. QED
    BY <1>5, <2>1, <2>2 DEF CommitVerdict, Answers
<1>6. CASE Release
  BY <1>6 DEF Release
<1>. QED
  BY <1>2, <1>3, <1>4, <1>5, <1>6 DEF Commit

(* What is not the oracle's handler: the sender, the clock and a restart *)
LEMMA OtherEffect ==
    ASSUME IInv, \/ UNCHANGED vars
                 \/ \E t \in Task, w \in Worker : Elapse(t, w)
    PROVE  UNCHANGED <<jobs, completeness, substates, nb_failures, managers_addresses,
                       payment_infos, handler, cur, from, todo, phase, pushed, panic,
                       restarts, chain, chain_state, chain_managers, chain_paid, mirror>>
  BY DEF vars, local, handler, chain, Elapse

(* The cases of a step, each with the facts above *)
LEMMA StepCases ==
    ASSUME IInv, [Next]_vars
    PROVE  \/ \E j \in Job : LockJob(j)
           \/ Receive
           \/ Apply
           \/ Commit \/ Release
           \/ UNCHANGED vars \/ \E t \in Task, w \in Worker : Elapse(t, w)
           \/ Restart
  BY DEF Next, Handler

------------------------------------------------------------------------------
(* FreshInv is inductive *)

LEMMA NextFreshInv == IInv /\ FreshInv /\ [Next]_vars => FreshInv'
<1>. SUFFICES ASSUME IInv, FreshInv, [Next]_vars PROVE FreshInv'
  OBVIOUS
<1>0. TypeOK
  BY DEF IInv, TypeInv
<1>1. ASSUME NEW j \in Job, LockJob(j) PROVE FreshInv'
  <2>1. UNCHANGED <<todo, cur, nb_failures>>
    BY <1>1 DEF LockJob, local, handler
  <2>2. \A t \in Task : chain_state[t] # "Unknown" => chain_state'[t] # "Unknown"
    BY <1>1 DEF LockJob
  <2>3. CreateC \in todo => cur \in Task
    BY <1>0 DEF TypeOK, IInv, TypeInv, PhaseOK
  <2>. QED
    BY <2>1, <2>2, <2>3 DEF FreshInv
<1>2. CASE Receive
  <2>1. PICK t \in Task, m \in Address : Takes(t, m) /\ Fits(t, todo')
    BY <1>2, ReceiveEffect
  <2>2. cur' = t /\ UNCHANGED <<nb_failures, chain_state>>
    BY <2>1 DEF Takes, local, chain
  <2>. QED
    BY <2>1, <2>2 DEF Fits, FreshInv
<1>3. CASE Apply
  <2>1. PICK c \in todo :
           \/ ApplyCreate(c) \/ ApplyChecked(c) \/ ApplyUnassign(c)
           \/ ApplyAssign(c) \/ ApplyAddManager(c) \/ ApplySetNbFailures(c)
           \/ ApplyComplete(c) \/ ApplyDefinetelyFailed(c)
    BY <1>3 DEF Apply
  <2>2. cur \in Task
    BY <2>1, ApplyEffect
  <2>3. CASE Die("assign")
    BY <2>3 DEF Die, local, handler, chain, FreshInv
  <2>4. CASE Creates
    <3>1. todo' = {AddManagerC} /\ AddManagerC.kind = "AddManager" /\ CreateC.kind = "Create"
      BY <2>4 DEF Creates, AddManagerC, CreateC
    <3>. QED
      BY <3>1 DEF FreshInv
  <2>5. CASE Updates(c) /\ UNCHANGED <<cur, chain>>
    <3>1. todo' = todo \ {c} /\ CreateC \notin todo /\ cur' = cur
      BY <2>5 DEF Updates
    <3>2. CASE c.kind = "SetNbFailures"
      <4>1. \A d \in todo' : d.kind # "SetNbFailures"
        BY <3>1, <3>2 DEF FreshInv
      <4>. QED
        BY <3>1, <4>1 DEF FreshInv
    <3>3. CASE c.kind # "SetNbFailures"
      BY <2>5, <3>1, <3>3 DEF Updates, FreshInv
    <3>. QED
      BY <3>2, <3>3
  <2>6. CASE Settles(c) /\ UNCHANGED <<cur, chain>>
    BY <2>6 DEF Settles, FreshInv, chain
  <2>. QED
    BY <2>1, <2>3, <2>4, <2>5, <2>6, ApplyEffect
<1>4. CASE Commit \/ Release
  <2>1. UNCHANGED nb_failures
    BY <1>4, CommitEffect DEF local
  <2>2. \/ UNCHANGED <<cur, todo, chain_state>>
        \/ todo' = {}
    BY <1>4, CommitEffect DEF Die, handler, chain
  <2>. QED
    BY <2>1, <2>2 DEF FreshInv
<1>5. CASE UNCHANGED vars \/ \E t \in Task, w \in Worker : Elapse(t, w)
  BY <1>5, OtherEffect DEF FreshInv
<1>6. CASE Restart
  BY <1>6 DEF Restart, FreshInv
<1>. QED
  BY <1>1, <1>2, <1>3, <1>4, <1>5, <1>6, StepCases

(* A settled task never changes again, locally until the process dies, on   *)
(* the contract for ever, and failures are never taken back: every change   *)
(* but Create needs an incomplete task, and Create an unknown one.          *)
LEMMA NextIsFinal ==
    ASSUME IInv, FreshInv, [Next]_vars, NEW t \in Task
    PROVE  /\ chain_state[t] \in Final =>
                 UNCHANGED <<chain_state[t], chain_managers[t], chain_paid[t]>>
           /\ completeness[t] \in Final /\ restarts' = restarts =>
                 UNCHANGED <<completeness[t], nb_failures[t], managers_addresses[t],
                             payment_infos[t]>>
           /\ Known(t) /\ restarts' = restarts => nb_failures'[t] >= nb_failures[t]
<1>0. /\ TypeOK /\ nb_failures[t] \in Nat
      /\ "Unknown" \notin Final /\ "Incomplete" \notin Final
  BY DEF IInv, TypeInv, TypeOK, Final, Reason
<1>. DEFINE Chain(s) == s \in Final =>
                 UNCHANGED <<chain_state[t], chain_managers[t], chain_paid[t]>>
            Local == UNCHANGED <<completeness[t], nb_failures[t], managers_addresses[t],
                                 payment_infos[t]>>
<1>1. ASSUME NEW j \in Job, LockJob(j)
      PROVE  Chain(chain_state[t]) /\ Local
  BY <1>0, <1>1 DEF LockJob, local
<1>2. CASE Receive
  <2>1. UNCHANGED <<local, chain>>
    BY <1>2, ReceiveEffect DEF Takes
  <2>. QED
    BY <1>0, <2>1 DEF local, chain
<1>3. CASE Apply
  <2>1. PICK c \in todo :
           \/ ApplyCreate(c) \/ ApplyChecked(c) \/ ApplyUnassign(c)
           \/ ApplyAssign(c) \/ ApplyAddManager(c) \/ ApplySetNbFailures(c)
           \/ ApplyComplete(c) \/ ApplyDefinetelyFailed(c)
    BY <1>3 DEF Apply
  <2>2. cur \in Task /\ UNCHANGED chain
    BY <2>1, ApplyEffect DEF Die
  <2>3. Chain(chain_state[t])
    BY <2>2 DEF chain
  <2>4. CASE Die("assign")
    BY <1>0, <2>3, <2>4 DEF Die, local
  <2>5. CASE Creates
    <3>1. completeness[t] \in Final => t # cur
      BY <1>0, <2>5 DEF Creates
    <3>2. Known(t) => t # cur
      BY <2>5 DEF Creates, Known
    <3>. QED
      BY <1>0, <2>2, <2>3, <2>5, <3>1, <3>2 DEF Creates, TypeOK
  <2>6. CASE Updates(c)
    <3>1. completeness[t] \in Final => t # cur
      BY <1>0, <2>6 DEF Updates, Incomplete
    <3>2. c.kind = "SetNbFailures" => c.nb \in Nat /\ nb_failures[cur] <= c.nb
      BY <1>0, ChangeShape DEF FreshInv, TypeOK
    <3>3. nb_failures'[t] >= nb_failures[t]
      <4>1. CASE c.kind = "SetNbFailures"
        <5>1. nb_failures' = [nb_failures EXCEPT ![cur] = c.nb]
          BY <2>6, <4>1 DEF Updates
        <5>. QED
          BY <1>0, <2>2, <3>2, <4>1, <5>1 DEF TypeOK
      <4>2. CASE c.kind # "SetNbFailures"
        BY <1>0, <2>6, <4>2 DEF Updates
      <4>. QED
        BY <4>1, <4>2
    <3>. QED
      BY <1>0, <2>2, <2>3, <2>6, <3>1, <3>3 DEF Updates, TypeOK
  <2>7. CASE Settles(c)
    <3>1. completeness[t] \in Final => t # cur
      BY <1>0, <2>7 DEF Settles, Incomplete
    <3>. QED
      BY <1>0, <2>2, <2>3, <2>7, <3>1 DEF Settles, TypeOK
  <2>. QED
    BY <2>1, <2>4, <2>5, <2>6, <2>7, ApplyEffect
<1>4. CASE Commit \/ Release
  <2>1. UNCHANGED <<completeness, nb_failures, managers_addresses, payment_infos>>
    BY <1>4, CommitEffect DEF local
  <2>2. CASE UNCHANGED chain
    BY <1>0, <2>1, <2>2 DEF chain
  <2>3. CASE PushManager
    <3>1. chain_state[t] \in Final => t # cur
      BY <1>0, <2>3 DEF PushManager, PushAllowed
    <3>. QED
      BY <1>0, <2>1, <2>3, <3>1 DEF PushManager, TypeOK
  <2>4. ASSUME NEW c, CommitVerdict(c) PROVE Chain(chain_state[t])
    <3>1. chain_state[t] \in Final => t # cur
      BY <1>0, <2>4 DEF CommitVerdict, VerdictAllowed, SetCompletedAllowed,
                        SetDefinitelyFailedAllowed
    <3>. QED
      BY <1>0, <2>4, <3>1 DEF CommitVerdict, TypeOK
  <2>. QED
    BY <1>0, <1>4, <2>1, <2>2, <2>3, <2>4, CommitEffect DEF Die
<1>5. CASE UNCHANGED vars \/ \E u \in Task, w \in Worker : Elapse(u, w)
  BY <1>0, <1>5, OtherEffect
<1>6. CASE Restart
  <2>1. restarts' # restarts /\ UNCHANGED chain
    BY <1>0, <1>6 DEF Restart, TypeOK
  <2>. QED
    BY <2>1 DEF chain
<1>. QED
  BY <1>0, <1>1, <1>2, <1>3, <1>4, <1>5, <1>6, StepCases

------------------------------------------------------------------------------
(* VerdictInv is inductive *)

LEMMA NextVerdictInv == IInv /\ VerdictInv /\ [Next]_vars => VerdictInv'
<1>. SUFFICES ASSUME IInv, VerdictInv, [Next]_vars PROVE VerdictInv'
  OBVIOUS
<1>0. /\ TypeOK /\ restarts \in Nat
      /\ "Unknown" \notin Final /\ "Incomplete" \notin Final
  BY ParametersAssumption DEF IInv, TypeInv, TypeOK, Final, Reason
<1>. DEFINE Agrees(t) ==
              /\ completeness[t] \in Final /\ panic = "none" /\ ~Telling(t) =>
                    chain_state[t] = completeness[t]
              /\ chain_state[t] \in Final =>
                    completeness[t] = chain_state[t] \/ restarts > 0
            Told == phase \in {"managers", "commit"} =>
                      \A c \in todo : completeness[cur] = VerdictOf(c)
<1>01. Told /\ \A t \in Task : Agrees(t)
  BY DEF VerdictInv
<1>02. ASSUME Told', \A t \in Task : Agrees(t)' PROVE VerdictInv'
  BY <1>02 DEF VerdictInv
<1>1. ASSUME NEW j \in Job, LockJob(j) PROVE VerdictInv'
  <2>1. UNCHANGED <<completeness, panic, cur, phase, todo, restarts>>
    BY <1>1 DEF LockJob, local, handler
  <2>2. ASSUME NEW t \in Task PROVE Agrees(t)'
    <3>1. \/ chain_state'[t] = chain_state[t]
          \/ chain_state[t] = "Unknown" /\ chain_state'[t] = "Incomplete"
      BY <1>1 DEF LockJob
    <3>2. Telling(t)' = Telling(t)
      BY <2>1 DEF Telling
    <3>. QED
      BY <1>0, <1>01, <2>1, <3>1, <3>2
  <2>3. Told'
    BY <1>01, <2>1
  <2>. QED
    BY <1>02, <2>2, <2>3
<1>2. CASE Receive
  <2>1. /\ UNCHANGED <<completeness, panic, restarts, chain_state>>
        /\ phase = "idle" /\ phase' = "apply"
    BY <1>2, ReceiveEffect DEF Takes, Listening, local, chain
  <2>2. \A t \in Task : ~Telling(t) /\ ~Telling(t)'
    BY <2>1 DEF Telling
  <2>. QED
    BY <1>01, <1>02, <2>1, <2>2
<1>3. CASE Apply
  <2>1. PICK c \in todo :
           \/ ApplyCreate(c) \/ ApplyChecked(c) \/ ApplyUnassign(c)
           \/ ApplyAssign(c) \/ ApplyAddManager(c) \/ ApplySetNbFailures(c)
           \/ ApplyComplete(c) \/ ApplyDefinetelyFailed(c)
    BY <1>3 DEF Apply
  <2>2. cur \in Task /\ phase = "apply" /\ \A t \in Task : ~Telling(t)
    BY <2>1, ApplyEffect DEF Telling
  <2>3. CASE Die("assign")
    <3>1. /\ panic' # "none"
          /\ UNCHANGED <<completeness, cur, phase, todo, restarts, chain_state>>
      BY <2>3 DEF Die, local, handler, chain
    <3>. QED
      BY <1>01, <1>02, <3>1
  <2>4. CASE Creates /\ UNCHANGED <<cur, phase, panic, restarts, chain>>
    <3>1. \A t \in Task : ~Telling(t)'
      BY <2>2, <2>4 DEF Telling
    <3>2. completeness[cur] \notin Final /\ completeness'[cur] = "Incomplete"
          /\ \A t \in Task \ {cur} : completeness'[t] = completeness[t]
      BY <1>0, <2>2, <2>4 DEF Creates, TypeOK
    <3>3. Told' /\ UNCHANGED <<chain_state, panic, restarts>>
      BY <2>2, <2>4 DEF chain
    <3>4. ASSUME NEW t \in Task PROVE Agrees(t)'
      BY <1>0, <1>01, <2>2, <3>1, <3>2, <3>3
    <3>. QED
      BY <1>02, <3>3, <3>4
  <2>5. CASE Updates(c) /\ UNCHANGED <<cur, phase, panic, restarts, chain>>
    <3>1. \A t \in Task : ~Telling(t)'
      BY <2>2, <2>5 DEF Telling
    <3>2. Told' /\ UNCHANGED <<completeness, chain_state, panic, restarts>>
      BY <2>2, <2>5 DEF Updates, chain
    <3>. QED
      BY <1>01, <1>02, <2>2, <3>1, <3>2
  <2>6. CASE Settles(c) /\ UNCHANGED <<cur, panic, restarts, chain>>
    <3>1. Telling(cur)' /\ \A t \in Task \ {cur} : ~Telling(t)'
      BY <2>6 DEF Telling, Settles
    <3>2. completeness[cur] \notin Final /\ completeness'[cur] = VerdictOf(c)
          /\ \A t \in Task \ {cur} : completeness'[t] = completeness[t]
      BY <1>0, <2>2, <2>6 DEF Settles, Incomplete, TypeOK
    <3>3. Told'
      BY <2>6, <3>2 DEF Settles, VerdictOf
    <3>4. UNCHANGED <<chain_state, panic, restarts, cur>>
      BY <2>6 DEF chain
    <3>5. ASSUME NEW t \in Task PROVE Agrees(t)'
      <4>1. t = cur => Telling(t)'
        BY <2>6 DEF Telling, Settles
      <4>. QED
        BY <1>0, <1>01, <2>2, <3>1, <3>2, <3>4, <4>1
    <3>. QED
      BY <1>02, <3>3, <3>5
  <2>. QED
    BY <2>1, <2>3, <2>4, <2>5, <2>6, ApplyEffect
<1>4. CASE Commit \/ Release
  <2>1. UNCHANGED <<completeness, restarts>> /\ panic = "none"
    BY <1>4, CommitEffect DEF local
  <2>2. CASE /\ UNCHANGED <<cur, todo, chain_state>>
             /\ phase \in {"managers", "commit"} /\ phase' \in {"managers", "commit"}
    <3>1. \A t \in Task : Telling(t)' = Telling(t)
      BY <2>2 DEF Telling
    <3>. QED
      BY <1>01, <1>02, <2>1, <2>2, <3>1
  <2>3. ASSUME NEW c, CommitVerdict(c), todo = {c}, UNCHANGED cur, phase = "commit",
               phase' = "apply"
        PROVE  VerdictInv'
    <3>1. cur \in Task /\ completeness[cur] = VerdictOf(c)
      BY <1>0, <1>01, <2>3 DEF TypeOK
    <3>2. chain_state'[cur] = completeness[cur]
          /\ \A t \in Task \ {cur} : chain_state'[t] = chain_state[t]
      BY <1>0, <2>3, <3>1 DEF CommitVerdict, VerdictOf, TypeOK
    <3>3. \A t \in Task \ {cur} : ~Telling(t)
      BY DEF Telling
    <3>. QED
      BY <1>01, <1>02, <2>1, <2>3, <3>2, <3>3
  <2>4. CASE UNCHANGED <<panic, chain>> /\ phase = "apply" /\ phase' = "idle"
    <3>1. \A t \in Task : ~Telling(t) /\ ~Telling(t)'
      BY <2>4 DEF Telling
    <3>. QED
      BY <1>01, <1>02, <2>1, <2>4, <3>1 DEF chain
  <2>. QED
    BY <1>4, <2>2, <2>3, <2>4, CommitEffect DEF Die, handler, chain
<1>5. CASE UNCHANGED vars \/ \E t \in Task, w \in Worker : Elapse(t, w)
  <2>1. UNCHANGED <<completeness, panic, cur, phase, todo, restarts, chain_state>>
    BY <1>5, OtherEffect
  <2>. QED
    BY <2>1 DEF VerdictInv, Telling
<1>6. CASE Restart
  <2>1. /\ completeness' = [t \in Task |-> "Unknown"] /\ phase' = "idle"
        /\ restarts' > 0
    BY <1>0, <1>6 DEF Restart
  <2>. QED
    BY <1>0, <1>02, <2>1
<1>. QED
  BY <1>1, <1>2, <1>3, <1>4, <1>5, <1>6, StepCases

------------------------------------------------------------------------------
(* CreditInv is inductive *)

LEMMA SameSequence ==
    ASSUME NEW S, NEW p \in Seq(S), NEW q \in Seq(S), Len(p) = Len(q),
           \A i \in 1..Len(q) : p[i] = q[i]
    PROVE  p = q
<1>1. p \in [1..Len(q) -> S] /\ q \in [1..Len(q) -> S]
  OBVIOUS
<1>. QED
  BY <1>1

(* While it is alive for the first time, the oracle is not ahead of itself. *)
LEMMA NotYetFinal ==
    ASSUME VerdictInv, restarts = 0, NEW t \in Task, completeness[t] \notin Final
    PROVE  chain_state[t] \notin Final
  BY DEF VerdictInv

(* The verdict reaches a contract that has been told of every manager. *)
LEMMA VerdictCredits ==
    ASSUME IInv, CreditInv, NEW c \in Change, CommitVerdict(c), phase = "commit",
           restarts = 0
    PROVE  /\ chain_managers[cur] = managers_addresses[cur]
           /\ chain_state'[cur] = "Completed" =>
                 /\ chain_paid'[cur] = payment_infos[cur]
                 /\ DOMAIN payment_infos[cur] = Slots(cur)
<1>1. cur \in Task /\ TypeOK
  BY DEF IInv, TypeInv, TypeOK
<1>2. c.kind # "Complete" => c.reason # "Completed"
  <2>1. CASE c.kind = "DefinetelyFailed"
    BY <2>1, ChangeShape DEF Reason
  <2>2. CASE c.kind \notin {"Complete", "DefinetelyFailed"}
    <3>1. PhaseOK /\ First(c)
      BY DEF IInv, TypeInv, CommitVerdict
    <3>. QED
      BY <2>2, <3>1 DEF PhaseOK, IsVerdict, First
  <2>. QED
    BY <2>1, <2>2
<1>3. chain_state[cur] = "Incomplete"
  BY DEF CommitVerdict, VerdictAllowed, SetCompletedAllowed, SetDefinitelyFailedAllowed
<1>4. chain_managers[cur] = managers_addresses[cur]
  <2>1. chain_state[cur] \notin Final /\ Telling(cur) /\ Credited(cur)
    BY <1>1, <1>3 DEF Final, Reason, Telling, CreditInv
  <2>2. /\ Len(chain_managers[cur]) = pushed /\ pushed = Len(managers_addresses[cur])
        /\ \A i \in 1..pushed : chain_managers[cur][i] = managers_addresses[cur][i]
    BY <2>1 DEF Credited, CreditInv
  <2>3. chain_managers[cur] \in Seq(Address) /\ managers_addresses[cur] \in Seq(Address)
    BY <1>1 DEF TypeOK
  <2>. QED
    BY <2>2, <2>3, SameSequence
<1>5. ASSUME chain_state'[cur] = "Completed"
      PROVE  /\ chain_paid'[cur] = payment_infos[cur]
             /\ DOMAIN payment_infos[cur] = Slots(cur)
  <2>1. chain_state'[cur] = IF c.kind = "Complete" THEN "Completed" ELSE c.reason
    BY <1>1 DEF CommitVerdict, TypeOK
  <2>2. c.kind = "Complete"
    BY <1>2, <1>5, <2>1
  <2>3. /\ chain_paid' = [chain_paid EXCEPT ![cur] = payment_infos[cur]]
        /\ Cardinality(DOMAIN payment_infos[cur]) = Redundancy[JobOf[cur]]
    BY <2>2 DEF CommitVerdict, VerdictAllowed, SetCompletedAllowed
  <2>4. DOMAIN payment_infos[cur] \in SUBSET Slots(cur)
    BY <1>1 DEF CreditInv
  <2>5. DOMAIN payment_infos[cur] = Slots(cur)
    BY <1>1, <2>3, <2>4, Replicas, FS_Subset
  <2>. QED
    BY <1>1, <2>3, <2>5 DEF CreditInv
<1>. QED
  BY <1>4, <1>5

LEMMA NextCreditInv == IInv /\ VerdictInv /\ CreditInv /\ [Next]_vars => CreditInv'
<1>. SUFFICES ASSUME IInv, VerdictInv, CreditInv, [Next]_vars PROVE CreditInv'
  OBVIOUS
<1>0. /\ TypeOK /\ restarts \in Nat /\ pushed \in Nat
      /\ "Unknown" \notin Final /\ "Incomplete" \notin Final
  BY ParametersAssumption DEF IInv, TypeInv, TypeOK, Final, Reason
<1>. DEFINE Fresh == phase = "apply" /\ todo # {} => pushed = 0
            Last == phase # "idle" => AddManagerC \in todo \/ LastIs(from, cur)
            All == phase = "commit" => pushed = Len(managers_addresses[cur])
            Infos == \A t \in Task : DOMAIN payment_infos[t] \subseteq Slots(t)
            Paid == DOMAIN chain_paid = Task
<1>01. Fresh /\ Last /\ All /\ Infos /\ Paid /\ (restarts = 0 => \A t \in Task : Credited(t))
  BY DEF CreditInv
<1>02. ASSUME Fresh', Last', All', Infos', Paid', restarts' = 0 => \A t \in Task : Credited(t)'
       PROVE  CreditInv'
  BY <1>02 DEF CreditInv
<1>03. ASSUME UNCHANGED <<managers_addresses, payment_infos, chain, restarts>>,
              \A t \in Task : Telling(t)' = Telling(t),
              pushed' = pushed \/ \A t \in Task : ~Telling(t)
       PROVE  Infos' /\ Paid' /\ (restarts' = 0 => \A t \in Task : Credited(t)')
  <2>1. UNCHANGED <<chain_state, chain_managers, chain_paid>>
    BY <1>03 DEF chain
  <2>2. \A t \in Task : Slots(t)' = Slots(t)
    BY DEF Slots
  <2>3. ASSUME NEW t \in Task, Credited(t) PROVE Credited(t)'
    BY <1>03, <2>1, <2>2, <2>3 DEF Credited
  <2>. QED
    BY <1>01, <1>03, <2>1, <2>2, <2>3
<1>1. ASSUME NEW j \in Job, LockJob(j) PROVE CreditInv'
  <2>1. UNCHANGED <<local, managers_addresses, payment_infos, handler, cur, from, todo,
                    phase, pushed, restarts, chain_managers, chain_paid>>
    BY <1>1 DEF LockJob, local, handler
  <2>2. ASSUME NEW t \in Task, Credited(t) PROVE Credited(t)'
    <3>1. \/ chain_state'[t] = chain_state[t]
          \/ chain_state[t] = "Unknown" /\ chain_state'[t] = "Incomplete"
      BY <1>1 DEF LockJob
    <3>2. Telling(t)' = Telling(t) /\ Slots(t)' = Slots(t)
      BY <2>1 DEF Telling, Slots
    <3>. QED
      BY <1>0, <2>1, <2>2, <3>1, <3>2 DEF Credited
  <2>3. \A t \in Task : Slots(t)' = Slots(t)
    BY DEF Slots
  <2>4. LastIs(from, cur)' = LastIs(from, cur)
    BY <2>1 DEF LastIs
  <2>. QED
    BY <1>01, <1>02, <2>1, <2>2, <2>3, <2>4
<1>2. CASE Receive
  <2>1. /\ UNCHANGED <<managers_addresses, payment_infos, restarts, chain>>
        /\ phase = "idle" /\ phase' = "apply" /\ pushed' = 0 /\ AddManagerC \in todo'
    BY <1>2, ReceiveEffect DEF Takes, Listening, local
  <2>2. \A t \in Task : ~Telling(t) /\ Telling(t)' = Telling(t)
    BY <2>1 DEF Telling
  <2>. QED
    BY <1>02, <1>03, <2>1, <2>2
<1>3. CASE Apply
  <2>1. PICK c \in todo :
           \/ ApplyCreate(c) \/ ApplyChecked(c) \/ ApplyUnassign(c)
           \/ ApplyAssign(c) \/ ApplyAddManager(c) \/ ApplySetNbFailures(c)
           \/ ApplyComplete(c) \/ ApplyDefinetelyFailed(c)
    BY <1>3 DEF Apply
  <2>2. cur \in Task /\ phase = "apply" /\ pushed = 0 /\ \A t \in Task : ~Telling(t)
    BY <1>01, <2>1, ApplyEffect DEF Telling
  <2>02. managers_addresses \in [Task -> Seq(Address)] /\ from \in Address
    BY <1>0 DEF TypeOK
  <2>3. CASE Die("assign")
    <3>1. /\ UNCHANGED <<managers_addresses, payment_infos, cur, from, todo, phase, pushed,
                         restarts, chain>>
      BY <2>3 DEF Die, local, handler
    <3>2. \A t \in Task : Telling(t)' = Telling(t)
      BY <3>1 DEF Telling
    <3>3. LastIs(from, cur)' = LastIs(from, cur)
      BY <3>1 DEF LastIs
    <3>. QED
      BY <1>01, <1>02, <1>03, <3>1, <3>2, <3>3
  <2>4. CASE Creates /\ UNCHANGED <<cur, from, pushed, panic, restarts, chain, phase>>
    <3>1. \A t \in Task : Telling(t)' = FALSE
      BY <2>2, <2>4 DEF Telling
    <3>2. /\ completeness[cur] \notin Final /\ todo' = {AddManagerC}
          /\ \A t \in Task \ {cur} : managers_addresses'[t] = managers_addresses[t]
          /\ UNCHANGED <<payment_infos, chain_state, chain_managers, chain_paid>>
      BY <1>0, <2>2, <2>4 DEF Creates, TypeOK, chain
    <3>3. ASSUME restarts = 0, NEW t \in Task PROVE Credited(t)'
      <4>1. t = cur => chain_state[t] \notin Final
        BY <3>2, <3>3, NotYetFinal
      <4>2. Slots(t)' = Slots(t) /\ Credited(t)
        BY <1>01, <3>3 DEF Slots
      <4>. QED
        BY <2>2, <3>1, <3>2, <4>1, <4>2 DEF Credited
    <3>4. Infos' /\ Paid'
      BY <1>01, <3>2 DEF Slots
    <3>. QED
      BY <1>02, <2>2, <2>4, <3>2, <3>3, <3>4
  <2>5. CASE Updates(c) /\ UNCHANGED <<cur, from, pushed, panic, restarts, chain, phase>>
    <3>1. \A t \in Task : Telling(t)' = FALSE
      BY <2>2, <2>5 DEF Telling
    <3>2. /\ completeness[cur] \notin Final /\ todo' = todo \ {c}
          /\ UNCHANGED <<payment_infos, chain_state, chain_managers, chain_paid>>
      BY <1>0, <2>5 DEF Updates, Incomplete, chain
    <3>3. \A t \in Task \ {cur} : managers_addresses'[t] = managers_addresses[t]
      BY <2>2, <2>02, <2>5 DEF Updates
    <3>4. AddManagerC \in todo' \/ LastIs(from, cur)'
      <4>1. CASE c.kind = "AddManager"
        <5>1. managers_addresses'[cur] = Append(managers_addresses[cur], from)
          BY <2>2, <2>02, <2>5, <4>1 DEF Updates
        <5>2. managers_addresses[cur] \in Seq(Address)
          BY <2>2, <2>02
        <5>3. /\ Append(managers_addresses[cur], from) # <<>>
              /\ Append(managers_addresses[cur], from)
                   [Len(Append(managers_addresses[cur], from))] = from
          BY <2>02, <5>2
        <5>. QED
          BY <2>5, <5>1, <5>3 DEF LastIs
      <4>2. CASE c.kind # "AddManager"
        BY <1>01, <2>2, <2>5, <3>2, <4>2 DEF Updates, LastIs
      <4>. QED
        BY <4>1, <4>2
    <3>5. ASSUME restarts = 0, NEW t \in Task PROVE Credited(t)'
      <4>1. t = cur => chain_state[t] \notin Final
        BY <3>2, <3>5, NotYetFinal
      <4>2. Slots(t)' = Slots(t) /\ Credited(t)
        BY <1>01, <3>5 DEF Slots
      <4>. QED
        BY <2>2, <3>1, <3>2, <3>3, <4>1, <4>2 DEF Credited
    <3>6. Infos' /\ Paid'
      BY <1>01, <3>2 DEF Slots
    <3>. QED
      BY <1>02, <2>2, <2>5, <3>4, <3>5, <3>6
  <2>6. CASE Settles(c) /\ UNCHANGED <<cur, from, pushed, panic, restarts, chain>>
    <3>1. Telling(cur)' /\ \A t \in Task \ {cur} : Telling(t)' = FALSE
      BY <2>6 DEF Telling, Settles
    <3>2. /\ completeness[cur] \notin Final /\ phase' = "managers" /\ AddManagerC \notin todo
          /\ UNCHANGED <<managers_addresses, chain_state, chain_managers, chain_paid>>
      BY <1>0, <2>6 DEF Settles, Incomplete, chain
    <3>3. /\ DOMAIN payment_infos'[cur] \subseteq Slots(cur)
          /\ \A t \in Task \ {cur} : payment_infos'[t] = payment_infos[t]
      <4>1. Filled(cur) \subseteq Slots(cur) /\ DOMAIN <<>> = {}
        BY DEF Filled
      <4>2. payment_infos' = [payment_infos EXCEPT ![cur] =
              IF c.kind = "Complete" THEN [s \in Filled(cur) |-> substates[cur][s]] ELSE <<>>]
        BY <2>6 DEF Settles
      <4>. QED
        BY <1>0, <2>2, <4>1, <4>2 DEF TypeOK
    <3>4. Infos' /\ Paid'
      BY <1>01, <3>2, <3>3 DEF Slots
    <3>5. LastIs(from, cur)'
      BY <1>01, <2>2, <2>6, <3>2 DEF LastIs
    <3>6. ASSUME restarts = 0, NEW t \in Task PROVE Credited(t)'
      <4>1. Slots(t)' = Slots(t) /\ Credited(t)
        BY <1>01, <3>6 DEF Slots
      <4>2. CASE t = cur
        <5>1. chain_state[t] \notin Final /\ chain_managers[t] = <<>>
          BY <2>2, <3>2, <3>6, <4>1, <4>2, NotYetFinal DEF Credited
        <5>2. Len(chain_managers'[t]) = 0 /\ pushed' = 0 /\ Len(managers_addresses'[t]) \in Nat
          BY <2>2, <2>02, <2>6, <3>2, <5>1
        <5>3. Telling(t)'
          BY <2>6, <4>2 DEF Telling, Settles
        <5>. QED
          BY <3>2, <5>1, <5>2, <5>3 DEF Credited
      <4>3. CASE t # cur
        BY <2>2, <3>1, <3>2, <3>3, <4>1, <4>3 DEF Credited
      <4>. QED
        BY <4>2, <4>3
    <3>. QED
      BY <1>02, <2>6, <3>2, <3>4, <3>5, <3>6
  <2>. QED
    BY <2>1, <2>3, <2>4, <2>5, <2>6, ApplyEffect
<1>4. CASE Commit \/ Release
  <2>1. UNCHANGED <<managers_addresses, payment_infos, from, restarts>>
    BY <1>4, CommitEffect DEF local
  <2>2. CASE Die("chain") /\ phase \in {"managers", "commit"}
    <3>1. UNCHANGED <<cur, from, todo, phase, pushed, chain>>
      BY <2>2 DEF Die, handler
    <3>2. (\A t \in Task : Telling(t)' = Telling(t)) /\ LastIs(from, cur)' = LastIs(from, cur)
      BY <2>1, <3>1 DEF Telling, LastIs
    <3>. QED
      BY <1>01, <1>02, <1>03, <2>1, <3>1, <3>2
  <2>3. CASE PushManager /\ phase = "managers"
               /\ UNCHANGED <<cur, todo, phase, chain_state, chain_paid>>
    <3>1. cur \in Task /\ chain_state[cur] \notin Final /\ pushed' = pushed + 1
          /\ pushed < Len(managers_addresses[cur])
      BY <1>0, <2>3 DEF PushManager, PushAllowed, TypeOK
    <3>2. Last' /\ Infos' /\ Paid'
      BY <1>01, <2>1, <2>3 DEF LastIs, Slots
    <3>3. ASSUME restarts = 0, NEW t \in Task PROVE Credited(t)'
      <4>1. Credited(t) /\ Slots(t)' = Slots(t) /\ Telling(t)' = Telling(t)
        BY <1>01, <2>3, <3>3 DEF Slots, Telling
      <4>2. CASE t = cur
        <5>1. Telling(t) /\ chain_state'[t] \notin Final
          BY <2>3, <3>1, <4>2 DEF Telling
        <5>2. /\ Len(chain_managers[t]) = pushed
              /\ \A i \in 1..pushed : chain_managers[t][i] = managers_addresses[t][i]
          BY <3>1, <4>1, <4>2, <5>1 DEF Credited
        <5>3. /\ chain_managers[t] \in Seq(Address) /\ managers_addresses[t] \in Seq(Address)
              /\ managers_addresses[t][pushed + 1] \in Address
          BY <1>0, <3>1, <4>2 DEF TypeOK
        <5>4. chain_managers'[t] = Append(chain_managers[t], managers_addresses[t][pushed + 1])
          BY <1>0, <2>3, <3>1, <4>2 DEF PushManager, TypeOK
        <5>5. /\ Len(chain_managers'[t]) = pushed'
              /\ \A i \in 1..pushed' : chain_managers'[t][i] = managers_addresses'[t][i]
          BY <1>0, <2>1, <3>1, <5>2, <5>3, <5>4
        <5>6. pushed' <= Len(managers_addresses'[t])
          BY <1>0, <2>1, <3>1, <4>2, <5>3
        <5>. QED
          BY <4>1, <5>1, <5>5, <5>6 DEF Credited
      <4>3. CASE t # cur
        <5>1. chain_managers'[t] = chain_managers[t] /\ ~Telling(t)
          BY <1>0, <2>3, <3>1, <4>3 DEF PushManager, TypeOK, Telling
        <5>. QED
          BY <2>1, <2>3, <4>1, <5>1 DEF Credited
      <4>. QED
        BY <4>2, <4>3
    <3>. QED
      BY <1>02, <2>1, <2>3, <3>2, <3>3
  <2>4. CASE ManagersSet /\ UNCHANGED <<cur, todo, pushed, panic, chain>>
               /\ phase = "managers" /\ phase' = "commit"
    <3>1. \A t \in Task : Telling(t)' = Telling(t)
      BY <2>4 DEF Telling
    <3>2. pushed = Len(managers_addresses[cur])
      BY <2>4 DEF ManagersSet
    <3>3. LastIs(from, cur)' = LastIs(from, cur)
      BY <2>1, <2>4 DEF LastIs
    <3>. QED
      BY <1>01, <1>02, <1>03, <2>1, <2>4, <3>1, <3>2, <3>3
  <2>5. ASSUME NEW c \in Change, CommitVerdict(c), todo = {c}, todo' = {}, IsVerdict(c),
               phase = "commit", phase' = "apply", UNCHANGED <<cur, pushed, chain_managers>>
        PROVE  CreditInv'
    <3>1. cur \in Task
      BY <1>0, <2>5 DEF TypeOK
    <3>2. LastIs(from, cur)'
      <4>1. AddManagerC \notin todo
        BY <2>5 DEF AddManagerC, IsVerdict
      <4>. QED
        BY <1>01, <2>1, <2>5, <4>1 DEF LastIs
    <3>3. Infos' /\ Paid'
      BY <1>01, <2>1, <2>5 DEF Slots, CommitVerdict
    <3>4. \A t \in Task \ {cur} : /\ chain_state'[t] = chain_state[t]
                                  /\ chain_paid'[t] = chain_paid[t]
      BY <1>0, <1>01, <2>5, <3>1 DEF CommitVerdict, TypeOK
    <3>5. chain_state'[cur] \in Final
      <4>1. chain_state'[cur] = VerdictOf(c)
        BY <1>0, <2>5, <3>1 DEF CommitVerdict, VerdictOf, TypeOK
      <4>2. VerdictOf(c) \in Final
        BY <2>5, ChangeShape DEF VerdictOf, IsVerdict, Final
      <4>. QED
        BY <4>1, <4>2
    <3>6. ASSUME restarts = 0, NEW t \in Task PROVE Credited(t)'
      <4>1. Credited(t) /\ Slots(t)' = Slots(t) /\ Telling(t)' = FALSE
        BY <1>01, <2>5, <3>6 DEF Slots, Telling
      <4>2. CASE t = cur
        BY <2>1, <2>5, <3>5, <3>6, <4>1, <4>2, VerdictCredits DEF Credited
      <4>3. CASE t # cur
        <5>1. ~Telling(t)
          BY <4>3 DEF Telling
        <5>. QED
          BY <2>1, <2>5, <3>4, <4>1, <4>3, <5>1 DEF Credited
      <4>. QED
        BY <4>2, <4>3
    <3>. QED
      BY <1>02, <2>1, <2>5, <3>2, <3>3, <3>6
  <2>6. CASE phase = "apply" /\ phase' = "idle" /\ UNCHANGED <<pushed, chain>>
    <3>1. \A t \in Task : Telling(t)' = Telling(t)
      BY <2>6 DEF Telling
    <3>. QED
      BY <1>02, <1>03, <2>1, <2>6, <3>1
  <2>. QED
    BY <1>4, <2>2, <2>3, <2>4, <2>5, <2>6, CommitEffect
<1>5. CASE UNCHANGED vars \/ \E t \in Task, w \in Worker : Elapse(t, w)
  <2>1. UNCHANGED <<managers_addresses, payment_infos, cur, from, todo, phase, pushed,
                    restarts, chain>>
    BY <1>5, OtherEffect
  <2>2. (\A t \in Task : Telling(t)' = Telling(t)) /\ LastIs(from, cur)' = LastIs(from, cur)
    BY <2>1 DEF Telling, LastIs
  <2>. QED
    BY <1>01, <1>02, <1>03, <2>1, <2>2
<1>6. CASE Restart
  <2>1. /\ payment_infos' = [t \in Task |-> <<>>] /\ phase' = "idle" /\ todo' = {}
        /\ restarts' > 0 /\ chain_paid' = chain_paid
    BY <1>0, <1>6 DEF Restart, chain
  <2>2. Infos'
    BY <2>1
  <2>. QED
    BY <1>0, <1>01, <1>02, <2>1, <2>2
<1>. QED
  BY <1>1, <1>2, <1>3, <1>4, <1>5, <1>6, StepCases

------------------------------------------------------------------------------
(* MirrorInv is inductive *)

(* What the receiver of the events knows of one task *)
Mirrored(t) ==
    /\ completeness[t] = "Unknown" => mirror[t] = [workers |-> {}, pending |-> 0]
    /\ Incomplete(t) => mirror[t] = [workers |-> Workers(t), pending |-> nb_unassigned(t)]
    /\ completeness[t] = "Completed" =>
          mirror[t].workers = {payment_infos[t][s] : s \in DOMAIN payment_infos[t]}

LEMMA MirrorByTask == MirrorInv <=> \A t \in Task : Mirrored(t)
  BY DEF MirrorInv, EventsMirrorSubstates, Mirrored

LEMMA MirrorFrame ==
    ASSUME UNCHANGED <<completeness, substates, payment_infos, mirror>>, NEW t \in Task,
           Mirrored(t)
    PROVE  Mirrored(t)'
<1>1. Workers(t)' = Workers(t) /\ nb_unassigned(t)' = nb_unassigned(t)
  BY ReplicasKept
<1>. QED
  BY <1>1 DEF Mirrored, Incomplete

(* The events of a change of one task say nothing of another. *)
LEMMA MirrorOther ==
    ASSUME NEW t \in Task, Mirrored(t), completeness'[t] = completeness[t],
           payment_infos'[t] = payment_infos[t], mirror'[t] = mirror[t],
           Workers(t)' = Workers(t), nb_unassigned(t)' = nb_unassigned(t)
    PROVE  Mirrored(t)'
  BY DEF Mirrored, Incomplete

LEMMA ApplyMirrorInv == IInv /\ MirrorInv /\ Apply => MirrorInv'
<1>. SUFFICES ASSUME IInv, MirrorInv, NEW c \in todo,
                     \/ ApplyCreate(c) \/ ApplyChecked(c) \/ ApplyUnassign(c)
                     \/ ApplyAssign(c) \/ ApplyAddManager(c) \/ ApplySetNbFailures(c)
                     \/ ApplyComplete(c) \/ ApplyDefinetelyFailed(c),
                     NEW t \in Task
              PROVE  Mirrored(t)'
  <2>1. (\A t \in Task : Mirrored(t)') => MirrorInv'
    BY DEF MirrorInv, EventsMirrorSubstates, Mirrored
  <2>. QED
    BY <2>1 DEF Apply
<1>0. /\ TypeOK /\ ReplicasOnDistinctWorkers /\ Mirrored(t) /\ cur \in Task
      /\ c \in Change /\ ApplicableOK
  BY MirrorByTask, ApplyEffect DEF IInv, TypeInv, ListsApplicable
<1>01. Incomplete(cur) => mirror[cur] = [workers |-> Workers(cur),
                                         pending |-> nb_unassigned(cur)]
  BY <1>0, MirrorByTask DEF Mirrored
<1>1. CASE Die("assign")
  BY <1>0, <1>1, MirrorFrame DEF Die, local
<1>2. CASE ApplyCreate(c) /\ Creates
  <2>1. /\ substates' = [substates EXCEPT ![cur] = Empty(cur)] /\ payment_infos' = payment_infos
        /\ completeness' = [completeness EXCEPT ![cur] = "Incomplete"]
        /\ mirror' = [mirror EXCEPT ![cur] = PendingEvents(mirror[cur], Redundancy[JobOf[cur]])]
        /\ completeness[cur] = "Unknown"
    BY <1>2 DEF Creates
  <2>2. CASE t = cur
    <3>1. mirror[t] = [workers |-> {}, pending |-> 0] /\ Redundancy[JobOf[t]] \in Nat
      BY <1>0, <2>1, <2>2, TaskConstants DEF Mirrored
    <3>2. mirror'[t] = [workers |-> {}, pending |-> Redundancy[JobOf[t]]]
      <4>1. mirror'[t] = PendingEvents(mirror[t], Redundancy[JobOf[t]])
        BY <1>0, <2>1, <2>2 DEF TypeOK
      <4>. QED
        BY <3>1, <4>1 DEF PendingEvents
    <3>3. Workers(t)' = {} /\ nb_unassigned(t)' = Redundancy[JobOf[t]]
      BY <1>0, <2>1, <2>2, ReplicasEmptied DEF TypeOK
    <3>4. completeness'[t] = "Incomplete"
      BY <1>0, <2>1, <2>2 DEF TypeOK
    <3>. QED
      BY <3>2, <3>3, <3>4 DEF Mirrored
  <2>3. CASE t # cur
    <3>1. Workers(t)' = Workers(t) /\ nb_unassigned(t)' = nb_unassigned(t)
      BY <1>0, <2>1, <2>3, ReplicasKept DEF TypeOK
    <3>. QED
      BY <1>0, <2>1, <2>3, <3>1, MirrorOther DEF TypeOK
  <2>. QED
    BY <2>2, <2>3
<1>3. CASE ApplyUnassign(c) /\ Updates(c)
  <2>1. Incomplete(cur) /\ UNCHANGED <<completeness, payment_infos>>
    BY <1>3 DEF Updates
  <2>2. c.worker \in Workers(cur)
    BY <1>0, <1>3 DEF ApplicableOK, ApplyUnassign, Applying
  <2>3. PICK s \in Filled(cur) : /\ substates[cur][s] = c.worker
                                 /\ substates' = [substates EXCEPT ![cur][s] = Nobody]
    BY <1>3, <2>1, <2>2 DEF ApplyUnassign
  <2>4. mirror' = [mirror EXCEPT ![cur] = UnassignedEvents(mirror[cur], c.worker)]
    BY <1>3, <2>1, <2>2 DEF ApplyUnassign
  <2>6. CASE t = cur
    <3>1. substates'[t] = [substates[t] EXCEPT ![s] = Nobody]
      BY <1>0, <2>3, <2>6 DEF TypeOK
    <3>2. Workers(t)' = Workers(t) \ {c.worker} /\ nb_unassigned(t)' = nb_unassigned(t) + 1
      BY <1>0, <2>3, <2>6, <3>1, ReplicaReleased
    <3>3. mirror'[t] = [workers |-> Workers(t) \ {c.worker}, pending |-> nb_unassigned(t) + 1]
      <4>1. mirror'[t] = UnassignedEvents(mirror[t], c.worker)
        BY <1>0, <2>4, <2>6 DEF TypeOK
      <4>2. mirror[t] = [workers |-> Workers(t), pending |-> nb_unassigned(t)]
        BY <1>01, <2>1, <2>6
      <4>. QED
        BY <4>1, <4>2 DEF UnassignedEvents
    <3>. QED
      BY <2>1, <2>6, <3>2, <3>3 DEF Mirrored, Incomplete
  <2>7. CASE t # cur
    <3>1. substates'[t] = substates[t]
      BY <1>0, <2>3, <2>7 DEF TypeOK
    <3>. QED
      BY <1>0, <2>1, <2>4, <2>7, <3>1, ReplicasKept, MirrorOther DEF TypeOK
  <2>. QED
    BY <2>6, <2>7
<1>4. CASE ApplyAssign(c) /\ Updates(c)
  <2>1. Incomplete(cur) /\ UNCHANGED <<completeness, payment_infos>> /\ c.worker \in Worker
    BY <1>0, <1>4, ChangeShape DEF Updates, ApplyAssign, Applying
  <2>2. CASE Assignable(cur, c.worker)
    <3>1. PICK s \in Slots(cur) \ Filled(cur) :
             substates' = [substates EXCEPT ![cur][s] = c.worker]
      BY <1>4, <2>1, <2>2 DEF ApplyAssign
    <3>2. mirror' = [mirror EXCEPT ![cur] = AssignedEvent(mirror[cur], c.worker)]
      BY <1>4, <2>1, <2>2 DEF ApplyAssign
    <3>4. CASE t = cur
      <4>1. substates'[t] = [substates[t] EXCEPT ![s] = c.worker]
        BY <1>0, <3>1, <3>4 DEF TypeOK
      <4>2. Workers(t)' = Workers(t) \cup {c.worker} /\ nb_unassigned(t)' = nb_unassigned(t) - 1
        BY <1>0, <2>1, <3>1, <3>4, <4>1, ReplicaTaken
      <4>3. mirror'[t] = [workers |-> Workers(t) \cup {c.worker},
                          pending |-> nb_unassigned(t) - 1]
        <5>1. mirror'[t] = AssignedEvent(mirror[t], c.worker)
          BY <1>0, <3>2, <3>4 DEF TypeOK
        <5>2. mirror[t] = [workers |-> Workers(t), pending |-> nb_unassigned(t)]
          BY <1>01, <2>1, <3>4
        <5>. QED
          BY <5>1, <5>2 DEF AssignedEvent
      <4>. QED
        BY <2>1, <3>4, <4>2, <4>3 DEF Mirrored, Incomplete
    <3>5. CASE t # cur
      <4>1. substates'[t] = substates[t]
        BY <1>0, <3>1, <3>5 DEF TypeOK
      <4>. QED
        BY <1>0, <2>1, <3>2, <3>5, <4>1, ReplicasKept, MirrorOther DEF TypeOK
    <3>. QED
      BY <3>4, <3>5
  <2>3. CASE ~Assignable(cur, c.worker)
    BY <1>0, <1>4, <2>1, <2>3, MirrorFrame DEF ApplyAssign, Refuse, Die, local
  <2>. QED
    BY <2>2, <2>3
<1>5. CASE /\ ApplyChecked(c) \/ ApplyAddManager(c) \/ ApplySetNbFailures(c)
           /\ Updates(c)
  <2>1. Incomplete(cur) /\ UNCHANGED <<completeness, payment_infos>>
    BY <1>5 DEF Updates
  <2>2. UNCHANGED <<substates, mirror>>
    BY <1>5, <2>1 DEF ApplyChecked, ApplyAddManager, ApplySetNbFailures, Refuse, Die, local
  <2>. QED
    BY <1>0, <2>1, <2>2, MirrorFrame
<1>6. CASE Settles(c) /\ (ApplyComplete(c) \/ ApplyDefinetelyFailed(c))
  <2>1. /\ Incomplete(cur) /\ UNCHANGED mirror /\ VerdictOf(c) \in Final
        /\ completeness' = [completeness EXCEPT ![cur] = VerdictOf(c)]
        /\ substates' = [substates EXCEPT ![cur] = Empty(cur)]
        /\ payment_infos' = [payment_infos EXCEPT ![cur] =
              IF c.kind = "Complete" THEN [s \in Filled(cur) |-> substates[cur][s]] ELSE <<>>]
    BY <1>6 DEF Settles
  <2>2. CASE t = cur
    <3>1. completeness'[t] = VerdictOf(c) /\ completeness'[t] \notin {"Unknown", "Incomplete"}
      BY <1>0, <2>1, <2>2 DEF TypeOK, Final, Reason
    <3>2. ASSUME completeness'[t] = "Completed"
          PROVE  mirror'[t].workers = {payment_infos'[t][s] : s \in DOMAIN payment_infos'[t]}
      <4>1. c.kind = "Complete"
        <5>1. c.kind \in {"Complete", "DefinetelyFailed"}
          BY <1>6 DEF ApplyComplete, ApplyDefinetelyFailed, Applying
        <5>2. c.kind = "DefinetelyFailed" => c.reason # "Completed"
          BY <1>0, ChangeShape DEF Reason
        <5>. QED
          BY <3>1, <3>2, <5>1, <5>2 DEF VerdictOf
      <4>2. payment_infos'[t] = [s \in Filled(t) |-> substates[t][s]]
        BY <1>0, <2>1, <2>2, <4>1 DEF TypeOK
      <4>3. mirror'[t].workers = Workers(t)
        BY <1>01, <2>1, <2>2
      <4>. QED
        BY <4>2, <4>3 DEF Workers
    <3>. QED
      BY <3>1, <3>2 DEF Mirrored, Incomplete
  <2>3. CASE t # cur
    <3>1. Workers(t)' = Workers(t) /\ nb_unassigned(t)' = nb_unassigned(t)
      BY <1>0, <2>1, <2>3, ReplicasKept DEF TypeOK
    <3>. QED
      BY <1>0, <2>1, <2>3, <3>1, MirrorOther DEF TypeOK
  <2>. QED
    BY <2>2, <2>3
<1>. QED
  BY <1>1, <1>2, <1>3, <1>4, <1>5, <1>6, ApplyEffect

LEMMA NextMirrorInv == IInv /\ MirrorInv /\ [Next]_vars => MirrorInv'
<1>. SUFFICES ASSUME IInv, MirrorInv, [Next]_vars PROVE MirrorInv'
  OBVIOUS
<1>1. ASSUME UNCHANGED <<completeness, substates, payment_infos, mirror>>
      PROVE  MirrorInv'
  <2>1. \A t \in Task : Mirrored(t)'
    BY <1>1, MirrorFrame, MirrorByTask
  <2>. QED
    BY <2>1 DEF MirrorInv, EventsMirrorSubstates, Mirrored
<1>2. ASSUME NEW j \in Job, LockJob(j) PROVE MirrorInv'
  BY <1>1, <1>2 DEF LockJob, local
<1>3. CASE Receive
  BY <1>1, <1>3, ReceiveEffect DEF Takes, local
<1>4. CASE Commit \/ Release
  BY <1>1, <1>4, CommitEffect DEF local
<1>5. CASE UNCHANGED vars \/ \E t \in Task, w \in Worker : Elapse(t, w)
  BY <1>1, <1>5, OtherEffect
<1>6. CASE Restart
  <2>1. /\ completeness' = [t \in Task |-> "Unknown"]
        /\ mirror' = [t \in Task |-> [workers |-> {}, pending |-> 0]]
    BY <1>6 DEF Restart
  <2>2. \A t \in Task : Mirrored(t)'
    BY <2>1 DEF Mirrored, Incomplete
  <2>. QED
    BY <2>2 DEF MirrorInv, EventsMirrorSubstates, Mirrored
<1>. QED
  BY <1>2, <1>3, <1>4, <1>5, <1>6, ApplyMirrorInv, StepCases

------------------------------------------------------------------------------
(* The theorems *)

ChainInv == IInv /\ FreshInv /\ VerdictInv /\ CreditInv /\ MirrorInv

LEMMA InitChainInv == Init => ChainInv
<1>. SUFFICES ASSUME Init PROVE ChainInv
  OBVIOUS
<1>0. "Unknown" \notin Final
  BY DEF Final, Reason
<1>1. IInv
  BY InitIInv
<1>2. FreshInv
  BY DEF Init, FreshInv
<1>3. VerdictInv
  BY <1>0 DEF Init, VerdictInv
<1>4. CreditInv
  <2>1. \A t \in Task : DOMAIN payment_infos[t] = {} /\ Credited(t)
    BY <1>0 DEF Init, Credited, Telling
  <2>. QED
    BY <2>1 DEF Init, CreditInv
<1>5. MirrorInv
  BY DEF Init, MirrorInv, EventsMirrorSubstates, Incomplete
<1>. QED
  BY <1>1, <1>2, <1>3, <1>4, <1>5 DEF ChainInv

LEMMA NextChainInv == ChainInv /\ [Next]_vars => ChainInv'
  BY NextIInv, NextFreshInv, NextVerdictInv, NextCreditInv, NextMirrorInv DEF ChainInv

LEMMA ChainInductive == Spec => []ChainInv
  BY InitChainInv, NextChainInv, PTL DEF Spec

(* When the lock is released the contract has the local verdict, and no     *)
(* verdict reaches it before the oracle has taken it, unless a restart made *)
(* the oracle forget (jobs_set_completed, jobs_set_definitely_failed).      *)
THEOREM VerdictsAgree == Spec => []VerdictAgreement
<1>1. ChainInv => VerdictAgreement
  <2>. SUFFICES ASSUME ChainInv PROVE VerdictAgreement
    OBVIOUS
  <2>1. \A t \in Task : cur # t => ~Telling(t)
    BY DEF Telling
  <2>. QED
    BY <2>1 DEF ChainInv, VerdictInv, VerdictAgreement
<1>. QED
  BY <1>1, ChainInductive, PTL

(* The contract is told of every manager whose proposal was accepted, in    *)
(* order, the last one included, and pays exactly the workers assigned when *)
(* the task was completed (jobs_set_managers before the verdict).           *)
THEOREM AllCredited == Spec => []EveryoneCredited
<1>1. ChainInv => EveryoneCredited
  <2>. SUFFICES ASSUME ChainInv, restarts = 0, NEW t \in Task, chain_state[t] \in Final
                PROVE  /\ chain_managers[t] = managers_addresses[t]
                       /\ cur = t =>
                            managers_addresses[t][Len(managers_addresses[t])] = from
                       /\ chain_state[t] = "Completed" =>
                             /\ chain_paid[t] = payment_infos[t]
                             /\ DOMAIN chain_paid[t] = Slots(t)
    BY DEF EveryoneCredited
  <2>1. Credited(t)
    BY DEF ChainInv, CreditInv
  <2>2. cur = t => LastIs(from, t)
    <3>. SUFFICES ASSUME cur = t PROVE LastIs(from, cur)
      OBVIOUS
    <3>1. phase # "idle"
      BY ParametersAssumption DEF ChainInv, IInv, TypeInv, TypeOK
    <3>2. completeness[t] \in Final
      BY DEF ChainInv, VerdictInv
    <3>3. ~Incomplete(t) /\ completeness[t] # "Unknown"
      BY <3>2 DEF Incomplete, Final, Reason
    <3>4. AddManagerC \notin todo
      <4>1. CASE phase = "apply"
        BY <3>3, <4>1 DEF ChainInv, IInv, ListsApplicable, ApplicableOK
      <4>2. CASE phase # "apply"
        BY <3>1, <4>2 DEF ChainInv, IInv, TypeInv, TypeOK, PhaseOK, IsVerdict, AddManagerC
      <4>. QED
        BY <4>1, <4>2
    <3>. QED
      BY <3>1, <3>4 DEF ChainInv, CreditInv
  <2>. QED
    BY <2>1, <2>2 DEF Credited, LastIs
<1>. QED
  BY <1>1, ChainInductive, PTL

(* A receiver that only applies the events, in order, knows the replicas of *)
(* every incomplete task and the last workers of a completed one: no branch *)
(* of apply_state_change forgets one of its events.                         *)
THEOREM EventsSuffice == Spec => []EventsMirrorSubstates
<1>1. ChainInv => EventsMirrorSubstates
  BY DEF ChainInv, MirrorInv
<1>. QED
  BY <1>1, ChainInductive, PTL

(* No step changes a settled task, on the contract or, until the process    *)
(* dies, locally, and no step lowers a number of failures.                  *)
THEOREM VerdictsAreFinal == Spec => VerdictIsFinal
<1>. DEFINE Step ==
        \A t \in Task :
         /\ chain_state[t] \in Final =>
               <<chain_state[t], chain_managers[t], chain_paid[t]>>' =
                 <<chain_state[t], chain_managers[t], chain_paid[t]>>
         /\ completeness[t] \in Final /\ restarts' = restarts =>
               <<completeness[t], nb_failures[t], managers_addresses[t],
                 payment_infos[t]>>' =
                 <<completeness[t], nb_failures[t], managers_addresses[t],
                   payment_infos[t]>>
         /\ Known(t) /\ restarts' = restarts => nb_failures'[t] >= nb_failures[t]
<1>1. ChainInv /\ [Next]_vars => Step
  BY NextIsFinal DEF ChainInv
<1>2. ChainInv /\ [Next]_vars => [Step]_vars
  BY <1>1
<1>3. Spec => [][Step]_vars
  BY <1>2, ChainInductive, PTL DEF Spec
<1>. QED
  BY <1>3 DEF VerdictIsFinal

------------------------------------------------------------------------------
(* Refinement: every step of SharedState is a step of TaskLifecycle, or      *)
(* leaves its variables alone.                                             *)

(* A step of the engine, seen as one of the life cycle *)
Moves == [Lifecycle!Next]_(Lifecycle!vars)

(* The life cycle counts as the engine does. *)
LEMMA SameCardinality == ASSUME NEW S PROVE Lifecycle!Cardinality(S) = Cardinality(S)
  BY DEF Lifecycle!Cardinality, Cardinality

LEMMA Stutters ==
    ASSUME UNCHANGED <<completeness, chain_state>>,
           \A t \in Task : Workers(t)' = Workers(t)
    PROVE  Moves
  BY DEF Moves, Lifecycle!vars

LEMMA FrameStutters ==
    ASSUME UNCHANGED <<completeness, chain_state, substates>>
    PROVE  Moves
  BY ReplicasKept, Stutters

(* Steps of one task: what they show of it, and that they show no other *)
LEMMA LearnMoves ==
    ASSUME TypeOK, NEW t \in Task,
           completeness[t] = "Unknown", chain_state[t] # "Unknown",
           completeness' = [completeness EXCEPT ![t] = "Incomplete"],
           UNCHANGED chain_state, \A u \in Task : Workers(u)' = Workers(u)
    PROVE  Moves
<1>1. Lifecycle!Learn(t)
  BY DEF Lifecycle!Learn
<1>. QED
  BY <1>1 DEF Moves, Lifecycle!Next

LEMMA AssignMoves ==
    ASSUME NEW t \in Task, NEW w \in Worker, Incomplete(t), w \notin Workers(t),
           Cardinality(Workers(t)) < Redundancy[JobOf[t]],
           UNCHANGED <<completeness, chain_state>>,
           Workers(t)' = Workers(t) \cup {w},
           \A u \in Task \ {t} : Workers(u)' = Workers(u)
    PROVE  Moves
<1>1. [u \in Task |-> Workers(u)]' =
        [[u \in Task |-> Workers(u)] EXCEPT ![t] = Workers(t) \cup {w}]
  OBVIOUS
<1>2. /\ [u \in Task |-> Workers(u)][t] = Workers(t)
      /\ [u \in Task |-> Redundancy[JobOf[u]]][t] = Redundancy[JobOf[t]]
  OBVIOUS
<1>3. /\ completeness[t] = "Incomplete" /\ w \notin [u \in Task |-> Workers(u)][t]
      /\ Cardinality([u \in Task |-> Workers(u)][t])
           < [u \in Task |-> Redundancy[JobOf[u]]][t]
  BY <1>2 DEF Incomplete
<1>4. [u \in Task |-> Workers(u)]' =
        [[u \in Task |-> Workers(u)] EXCEPT
            ![t] = [u \in Task |-> Workers(u)][t] \cup {w}]
  BY <1>1, <1>2
<1>5. Lifecycle!Assign(t, w)
  BY <1>3, <1>4, SameCardinality DEF Lifecycle!Assign
<1>. QED
  BY <1>5 DEF Moves, Lifecycle!Next

LEMMA UnassignMoves ==
    ASSUME NEW t \in Task, NEW w \in Worker, Incomplete(t), w \in Workers(t),
           UNCHANGED <<completeness, chain_state>>,
           Workers(t)' = Workers(t) \ {w},
           \A u \in Task \ {t} : Workers(u)' = Workers(u)
    PROVE  Moves
<1>1. [u \in Task |-> Workers(u)]' =
        [[u \in Task |-> Workers(u)] EXCEPT ![t] = Workers(t) \ {w}]
  OBVIOUS
<1>2. Lifecycle!Unassign(t, w)
  BY <1>1 DEF Lifecycle!Unassign, Incomplete
<1>. QED
  BY <1>2 DEF Moves, Lifecycle!Next

LEMMA SettleMoves ==
    ASSUME NEW t \in Task, NEW v \in Lifecycle!Verdict, Incomplete(t),
           completeness' = [completeness EXCEPT ![t] = v],
           UNCHANGED chain_state, Workers(t)' = {},
           \A u \in Task \ {t} : Workers(u)' = Workers(u)
    PROVE  Moves
<1>1. [u \in Task |-> Workers(u)]' = [[u \in Task |-> Workers(u)] EXCEPT ![t] = {}]
  OBVIOUS
<1>2. Lifecycle!Settle(t, v)
  BY <1>1 DEF Lifecycle!Settle, Incomplete
<1>. QED
  BY <1>2 DEF Moves, Lifecycle!Next

LEMMA RecordMoves ==
    ASSUME NEW t \in Task, completeness[t] \in Lifecycle!Verdict,
           chain_state[t] = "Incomplete",
           chain_state' = [chain_state EXCEPT ![t] = completeness[t]],
           UNCHANGED completeness, \A u \in Task : Workers(u)' = Workers(u)
    PROVE  Moves
<1>1. Lifecycle!Record(t)
  BY DEF Lifecycle!Record
<1>. QED
  BY <1>1 DEF Moves, Lifecycle!Next

(* The verdicts of the life cycle are the ones the contract can store. *)
LEMMA StorableVerdict ==
    ASSUME NEW v \in Final, Storable(v)
    PROVE  v \in Lifecycle!Verdict
  BY DEF Final, Reason, Storable, Lifecycle!Verdict

------------------------------------------------------------------------------
LEMMA ApplyMoves == ChainInv /\ Apply => Moves
<1>. SUFFICES ASSUME ChainInv, NEW c \in todo,
                     \/ ApplyCreate(c) \/ ApplyChecked(c) \/ ApplyUnassign(c)
                     \/ ApplyAssign(c) \/ ApplyAddManager(c) \/ ApplySetNbFailures(c)
                     \/ ApplyComplete(c) \/ ApplyDefinetelyFailed(c)
              PROVE  Moves
  BY DEF Apply
<1>0. /\ IInv /\ TypeOK /\ ReplicasOnDistinctWorkers /\ cur \in Task /\ c \in Change
      /\ ApplicableOK /\ ReasonsStorable
  BY ApplyEffect DEF ChainInv, IInv, TypeInv, ListsApplicable
<1>1. CASE Die("assign")
  BY <1>1, FrameStutters DEF Die, local, chain
<1>2. CASE Creates /\ UNCHANGED chain
  <2>1. /\ substates' = [substates EXCEPT ![cur] = Empty(cur)] /\ CreateC \in todo
        /\ completeness[cur] = "Unknown"
        /\ completeness' = [completeness EXCEPT ![cur] = "Incomplete"]
    BY <1>2 DEF Creates
  <2>2. chain_state[cur] # "Unknown" /\ UNCHANGED chain_state
    BY <1>2, <2>1 DEF ChainInv, FreshInv, chain
  <2>3. ASSUME NEW t \in Task PROVE Workers(t)' = Workers(t)
    <3>1. CASE t = cur
      <4>1. Workers(t)' = {}
        BY <1>0, <2>1, <3>1, ReplicasEmptied DEF TypeOK
      <4>2. Filled(t) = {}
        BY <1>0, <2>1, <3>1 DEF ApplicableOK, Incomplete
      <4>. QED
        BY <4>1, <4>2 DEF Workers
    <3>2. CASE t # cur
      BY <1>0, <2>1, <3>2, ReplicasKept DEF TypeOK
    <3>. QED
      BY <3>1, <3>2
  <2>. QED
    BY <1>0, <2>1, <2>2, <2>3, LearnMoves
<1>3. CASE ApplyUnassign(c) /\ Updates(c) /\ UNCHANGED chain
  <2>1. Incomplete(cur) /\ UNCHANGED <<completeness, chain_state>>
    BY <1>3 DEF Updates, chain
  <2>2. c.worker \in Workers(cur) /\ c.worker \in Worker
    BY <1>0, <1>3, ChangeShape DEF ApplicableOK, ApplyUnassign, Applying
  <2>3. PICK s \in Filled(cur) : /\ substates[cur][s] = c.worker
                                 /\ substates' = [substates EXCEPT ![cur][s] = Nobody]
    BY <1>3, <2>1, <2>2 DEF ApplyUnassign
  <2>4. ASSUME NEW t \in Task, t = cur
        PROVE  Workers(t)' = Workers(t) \ {c.worker}
    <3>1. substates'[t] = [substates[t] EXCEPT ![s] = Nobody]
      BY <1>0, <2>3, <2>4 DEF TypeOK
    <3>. QED
      BY <1>0, <2>3, <2>4, <3>1, ReplicaReleased
  <2>5. \A t \in Task \ {cur} : Workers(t)' = Workers(t)
    BY <1>0, <2>3, ReplicasKept DEF TypeOK
  <2>. QED
    BY <1>0, <2>1, <2>2, <2>4, <2>5, UnassignMoves
<1>4. CASE ApplyAssign(c) /\ Updates(c) /\ UNCHANGED chain
  <2>1. Incomplete(cur) /\ UNCHANGED <<completeness, chain_state>> /\ c.worker \in Worker
    BY <1>0, <1>4, ChangeShape DEF Updates, chain, ApplyAssign, Applying
  <2>2. CASE Assignable(cur, c.worker)
    <3>1. PICK s \in Slots(cur) \ Filled(cur) :
             substates' = [substates EXCEPT ![cur][s] = c.worker]
      BY <1>4, <2>1, <2>2 DEF ApplyAssign
    <3>2. ASSUME NEW t \in Task, t = cur
          PROVE  /\ Workers(t)' = Workers(t) \cup {c.worker}
                 /\ Cardinality(Workers(t)) < Redundancy[JobOf[t]]
      <4>1. substates'[t] = [substates[t] EXCEPT ![s] = c.worker]
        BY <1>0, <3>1, <3>2 DEF TypeOK
      <4>. QED
        BY <1>0, <2>1, <3>1, <3>2, <4>1, ReplicaTaken
    <3>3. \A t \in Task \ {cur} : Workers(t)' = Workers(t)
      BY <1>0, <3>1, ReplicasKept DEF TypeOK
    <3>4. c.worker \notin Workers(cur)
      BY <2>2 DEF Assignable
    <3>. QED
      BY <1>0, <2>1, <3>2, <3>3, <3>4, AssignMoves
  <2>3. CASE ~Assignable(cur, c.worker)
    BY <1>4, <2>1, <2>3, FrameStutters DEF ApplyAssign, Refuse, Die, local
  <2>. QED
    BY <2>2, <2>3
<1>5. CASE /\ ApplyChecked(c) \/ ApplyAddManager(c) \/ ApplySetNbFailures(c)
           /\ Updates(c) /\ UNCHANGED chain
  <2>1. Incomplete(cur) /\ UNCHANGED <<completeness, chain_state>>
    BY <1>5 DEF Updates, chain
  <2>2. UNCHANGED substates
    BY <1>5, <2>1 DEF ApplyChecked, ApplyAddManager, ApplySetNbFailures, Refuse, Die, local
  <2>. QED
    BY <2>1, <2>2, FrameStutters
<1>6. CASE Settles(c) /\ (ApplyComplete(c) \/ ApplyDefinetelyFailed(c)) /\ UNCHANGED chain
  <2>1. /\ Incomplete(cur) /\ UNCHANGED chain_state /\ VerdictOf(c) \in Final
        /\ completeness' = [completeness EXCEPT ![cur] = VerdictOf(c)]
        /\ substates' = [substates EXCEPT ![cur] = Empty(cur)]
    BY <1>6 DEF Settles, chain
  <2>2. Storable(VerdictOf(c))
    BY <1>0, <1>6 DEF ReasonsStorable, VerdictOf, Storable, ApplyComplete,
                      ApplyDefinetelyFailed, Applying
  <2>3. \A t \in Task : /\ t = cur => Workers(t)' = {}
                        /\ t # cur => Workers(t)' = Workers(t)
    BY <1>0, <2>1, ReplicasEmptied, ReplicasKept DEF TypeOK
  <2>4. VerdictOf(c) \in Lifecycle!Verdict
    BY <2>1, <2>2, StorableVerdict
  <2>. QED
    BY <1>0, <2>1, <2>3, <2>4, SettleMoves
<1>. QED
  BY <1>0, <1>1, <1>2, <1>3, <1>4, <1>5, <1>6, ApplyEffect

LEMMA NextMoves == ChainInv /\ [Next]_vars => Moves
<1>. SUFFICES ASSUME ChainInv, [Next]_vars PROVE Moves
  OBVIOUS
<1>0. IInv /\ TypeOK
  BY DEF ChainInv, IInv, TypeInv
<1>1. ASSUME NEW j \in Job, LockJob(j) PROVE Moves
  <2>. DEFINE S == {t \in Task : JobOf[t] = j}
  <2>1. Lifecycle!Publish(S)
    <3>1. S # {} /\ \A t \in S : chain_state[t] = "Unknown"
      BY <1>1 DEF LockJob
    <3>2. chain_state' = [t \in Task |-> IF t \in S THEN "Incomplete" ELSE chain_state[t]]
      BY <1>1 DEF LockJob
    <3>3. UNCHANGED <<completeness, substates>>
      BY <1>1 DEF LockJob, local
    <3>4. \A t \in Task : Workers(t)' = Workers(t)
      BY <3>3, ReplicasKept
    <3>. HIDE DEF S
    <3>. QED
      BY <3>1, <3>2, <3>3, <3>4 DEF Lifecycle!Publish
  <2>2. S \in SUBSET Task
    OBVIOUS
  <2>. HIDE DEF S
  <2>. QED
    BY <2>1, <2>2 DEF Moves, Lifecycle!Next
<1>2. CASE Receive
  BY <1>0, <1>2, ReceiveEffect, FrameStutters DEF Takes, local, chain
<1>3. CASE Commit \/ Release
  <2>1. UNCHANGED <<completeness, substates>>
    BY <1>0, <1>3, CommitEffect DEF local
  <2>2. CASE UNCHANGED chain_state
    BY <2>1, <2>2, FrameStutters
  <2>3. ASSUME NEW c \in Change, CommitVerdict(c), todo = {c}, IsVerdict(c), phase = "commit"
        PROVE  Moves
    <3>1. cur \in Task /\ completeness[cur] = VerdictOf(c) /\ completeness[cur] \in Final
      BY <1>0, <2>3 DEF TypeOK, ChainInv, VerdictInv, IInv, TypeInv, PhaseOK
    <3>2. Storable(completeness[cur]) /\ chain_state[cur] = "Incomplete"
      BY <2>3, <3>1 DEF CommitVerdict, VerdictAllowed, SetCompletedAllowed,
                        SetDefinitelyFailedAllowed, VerdictOf, Storable
    <3>3. chain_state' = [chain_state EXCEPT ![cur] = completeness[cur]]
      BY <2>3, <3>1 DEF CommitVerdict, VerdictOf
    <3>4. completeness[cur] \in Lifecycle!Verdict
      BY <3>1, <3>2, StorableVerdict
    <3>5. \A t \in Task : Workers(t)' = Workers(t)
      BY <2>1, ReplicasKept
    <3>. QED
      BY <2>1, <3>1, <3>2, <3>3, <3>4, <3>5, RecordMoves
  <2>. QED
    BY <1>0, <1>3, <2>2, <2>3, CommitEffect DEF Die, chain
<1>4. CASE UNCHANGED vars \/ \E t \in Task, w \in Worker : Elapse(t, w)
  BY <1>0, <1>4, OtherEffect, FrameStutters
<1>5. CASE Restart
  <2>1. /\ completeness' = [t \in Task |-> "Unknown"] /\ UNCHANGED chain_state
        /\ substates' = [t \in Task |-> Empty(t)]
    BY <1>5 DEF Restart, chain
  <2>2. \A t \in Task : Workers(t)' = {}
    BY <2>1, ReplicasEmptied
  <2>3. Lifecycle!Forget
    BY <2>1, <2>2 DEF Lifecycle!Forget
  <2>. QED
    BY <2>3 DEF Moves, Lifecycle!Next
<1>. QED
  BY <1>0, <1>1, <1>2, <1>3, <1>4, <1>5, ApplyMoves, StepCases

(* Whatever the managers propose, in whatever order, and whatever fails, a  *)
(* task is learnt, assigned, settled and recorded as the life cycle says.   *)
THEOREM EngineImplementsLifecycle == Spec => ImplementsLifecycle
<1>1. Init => Lifecycle!Init
  <2>1. ASSUME Init PROVE \A t \in Task : Workers(t) = {}
    BY <2>1 DEF Init, Workers, Filled, Empty
  <2>. QED
    BY <2>1 DEF Init, Lifecycle!Init
<1>2. ChainInv /\ [Next]_vars => [Lifecycle!Next]_(Lifecycle!vars)
  BY NextMoves DEF Moves
<1>. QED
  BY <1>1, <1>2, ChainInductive, PTL DEF Spec, ImplementsLifecycle, Lifecycle!Spec
------------------------------------------------------------------------------
(* What kills the process where nothing outside can: one replica per task,  *)
(* a contract with room for every manager, a node that answers.             *)

Reliable ==
    /\ \A j \in Job : Redundancy[j] = 1 /\ MaxProposals <= ManagerLimit[j]
    /\ ~ChainMayFail /\ MaxRestarts = 0

(* The contract waits for the verdict being told, and no task has more      *)
(* managers than the contract registers, the next one included.             *)
RoomInv ==
    /\ \A t \in Task : Known(t) => chain_state[t] # "Unknown"
    /\ phase \in {"managers", "commit"} => chain_state[cur] = "Incomplete"
    /\ \A t \in Task : Len(managers_addresses[t]) <= MaxProposals
    /\ AddManagerC \in todo => Len(managers_addresses[cur]) < MaxProposals

(* An Assign comes alone and finds the replica free, a Complete comes alone *)
(* and finds it taken: its worker is in the payments the contract is told.  *)
PassInv ==
    /\ phase = "apply" =>
          \A c \in todo :
             /\ c.kind = "Assign" => Assignable(cur, c.worker)
             /\ c.kind = "Complete" => Filled(cur) # {}
             /\ c.kind \in {"Assign", "Complete"} => todo \subseteq {c, AddManagerC}
    /\ phase \in {"managers", "commit"} =>
          \A c \in todo : c.kind = "Complete" => DOMAIN payment_infos[cur] # {}

LEMMA NeverRestarted ==
    ASSUME Reliable, ChainInv
    PROVE  /\ TypeOK /\ restarts = 0 /\ ~Restart
           /\ phase # "idle" => cur \in Task
<1>1. TypeOK
  BY DEF ChainInv, IInv, TypeInv
<1>2. restarts = 0 /\ MaxRestarts = 0
  BY <1>1 DEF Reliable, TypeOK
<1>. QED
  BY <1>1, <1>2 DEF Restart, TypeOK

LEMMA NextRoomInv ==
    ASSUME Reliable, ChainInv, RoomInv, [Next]_vars
    PROVE  RoomInv'
<1>0. /\ TypeOK /\ restarts = 0 /\ ~Restart /\ IInv /\ MaxProposals \in Nat
      /\ phase # "idle" => cur \in Task
      /\ "Unknown" \notin Final /\ "Incomplete" \notin Final
  BY NeverRestarted, ParametersAssumption DEF ChainInv, Final, Reason
<1>1. ASSUME NEW j \in Job, LockJob(j) PROVE RoomInv'
  <2>1. UNCHANGED <<completeness, managers_addresses, cur, todo, phase>>
    BY <1>1 DEF LockJob, local, handler
  <2>2. \A t \in Task : \/ chain_state'[t] = chain_state[t]
                        \/ chain_state[t] = "Unknown" /\ chain_state'[t] = "Incomplete"
    BY <1>1 DEF LockJob
  <2>. QED
    BY <1>0, <2>1, <2>2 DEF RoomInv, Known
<1>2. CASE Receive
  <2>1. PICK t \in Task, m \in Address : Takes(t, m)
    BY <1>0, <1>2, ReceiveEffect
  <2>2. UNCHANGED <<completeness, managers_addresses, chain_state>>
        /\ cur' = t /\ phase' = "apply" /\ Len(managers_addresses[t]) < MaxProposals
    BY <2>1 DEF Takes, local, chain
  <2>. QED
    BY <2>2 DEF RoomInv, Known
<1>3. CASE Apply
  <2>1. PICK c \in todo :
           \/ ApplyCreate(c) \/ ApplyChecked(c) \/ ApplyUnassign(c)
           \/ ApplyAssign(c) \/ ApplyAddManager(c) \/ ApplySetNbFailures(c)
           \/ ApplyComplete(c) \/ ApplyDefinetelyFailed(c)
    BY <1>3 DEF Apply
  <2>2. cur \in Task /\ phase = "apply"
    BY <1>0, <2>1, ApplyEffect
  <2>02. /\ managers_addresses \in [Task -> Seq(Address)] /\ from \in Address
         /\ completeness \in [Task -> {"Unknown", "Incomplete"} \cup Final]
    BY <1>0 DEF TypeOK
  <2>3. CASE Die("assign")
    BY <2>3 DEF Die, local, handler, chain, RoomInv, Known
  <2>4. CASE Creates /\ UNCHANGED <<cur, chain, phase>>
    <3>1. chain_state[cur] # "Unknown"
      BY <2>4 DEF Creates, ChainInv, FreshInv
    <3>2. AddManagerC \in todo
      BY <1>0, <2>2, <2>4 DEF Creates, IInv, ListsApplicable, ApplicableOK
    <3>3. Len(managers_addresses[cur]) \in Nat /\ Len(<<>>) = 0
      BY <2>2, <2>02
    <3>4. 0 < MaxProposals
      BY <1>0, <3>2, <3>3 DEF RoomInv
    <3>5. /\ \A t \in Task \ {cur} : /\ managers_addresses'[t] = managers_addresses[t]
                                     /\ completeness'[t] = completeness[t]
          /\ Len(managers_addresses'[cur]) = 0
          /\ UNCHANGED <<cur, phase, chain_state>>
      BY <2>2, <2>02, <2>4, <3>3 DEF Creates, chain
    <3>. QED
      BY <1>0, <2>2, <3>1, <3>4, <3>5 DEF RoomInv, Known
  <2>5. CASE Updates(c) /\ UNCHANGED <<cur, from, chain, phase>>
    <3>1. todo' = todo \ {c} /\ UNCHANGED <<completeness, cur, phase, chain_state>>
      BY <2>5 DEF Updates, chain
    <3>2. CASE c.kind = "AddManager"
      <4>1. /\ c = AddManagerC
            /\ managers_addresses'[cur] = Append(managers_addresses[cur], from)
            /\ \A t \in Task \ {cur} : managers_addresses'[t] = managers_addresses[t]
        BY <2>2, <2>02, <2>5, <3>2 DEF Updates
      <4>2. Len(managers_addresses'[cur]) = Len(managers_addresses[cur]) + 1
            /\ Len(managers_addresses[cur]) \in Nat
        BY <2>2, <2>02, <4>1
      <4>3. Len(managers_addresses[cur]) < MaxProposals
        BY <4>1 DEF RoomInv
      <4>4. Len(managers_addresses'[cur]) <= MaxProposals
        BY <1>0, <4>2, <4>3
      <4>5. AddManagerC \notin todo'
        BY <3>1, <4>1
      <4>. QED
        BY <2>2, <3>1, <4>1, <4>4, <4>5 DEF RoomInv, Known
    <3>3. CASE c.kind # "AddManager"
      <4>1. UNCHANGED managers_addresses
        BY <2>5, <3>3 DEF Updates
      <4>. QED
        BY <3>1, <4>1 DEF RoomInv, Known
    <3>. QED
      BY <3>2, <3>3
  <2>6. CASE Settles(c) /\ UNCHANGED <<cur, chain, restarts>>
    <3>1. Incomplete(cur) /\ UNCHANGED <<managers_addresses, todo, cur, chain_state>>
          /\ \A t \in Task \ {cur} : completeness'[t] = completeness[t]
      BY <2>2, <2>02, <2>6 DEF Settles, chain
    <3>2. chain_state[cur] # "Unknown"
      BY <2>2, <3>1 DEF RoomInv, Known, Incomplete
    <3>3. chain_state[cur] \notin Final
      BY <1>0, <2>2, <3>1 DEF ChainInv, VerdictInv, Incomplete
    <3>4. chain_state[cur] = "Incomplete"
      BY <1>0, <2>2, <3>2, <3>3 DEF TypeOK
    <3>. QED
      BY <2>2, <3>1, <3>4 DEF RoomInv, Known
  <2>. QED
    BY <1>0, <2>1, <2>3, <2>4, <2>5, <2>6, ApplyEffect
<1>4. CASE Commit \/ Release
  <2>1. UNCHANGED <<completeness, managers_addresses>>
    BY <1>0, <1>4, CommitEffect DEF local
  <2>2. CASE UNCHANGED <<cur, todo, chain_state>>
             /\ (phase' \in {"managers", "commit"} => phase \in {"managers", "commit"})
    BY <2>1, <2>2 DEF RoomInv, Known
  <2>3. CASE todo = {} /\ UNCHANGED <<todo, chain>> /\ phase' = "idle"
    BY <2>1, <2>3 DEF RoomInv, Known, chain
  <2>4. ASSUME NEW c \in Change, IsVerdict(c), CommitVerdict(c),
               todo' = {}, phase = "commit", phase' = "apply"
        PROVE  RoomInv'
    <3>1. cur \in Task
      BY <1>0, <2>4
    <3>2. \A t \in Task \ {cur} : chain_state'[t] = chain_state[t]
      BY <1>0, <2>4 DEF CommitVerdict, TypeOK
    <3>3. chain_state'[cur] = VerdictOf(c)
      BY <1>0, <2>4, <3>1 DEF CommitVerdict, VerdictOf, TypeOK
    <3>4. VerdictOf(c) \in Final
      BY <2>4, ChangeShape DEF VerdictOf, IsVerdict, Final
    <3>. QED
      BY <1>0, <2>1, <2>4, <3>1, <3>2, <3>3, <3>4 DEF RoomInv, Known
  <2>5. CASE Die("chain")
    BY <2>2, <2>5 DEF Die, handler, chain
  <2>. QED
    BY <1>0, <1>4, <2>2, <2>3, <2>4, <2>5, CommitEffect DEF chain
<1>5. CASE UNCHANGED vars \/ \E t \in Task, w \in Worker : Elapse(t, w)
  BY <1>0, <1>5, OtherEffect DEF RoomInv, Known
<1>. QED
  BY <1>0, <1>1, <1>2, <1>3, <1>4, <1>5, StepCases

(* The lists the handlers make: an Assign or a Complete is alone in its     *)
(* own, because a task has one replica and a proposal one result.           *)
LEMMA ReceivePassInv ==
    ASSUME Reliable, IInv, Receive
    PROVE  PassInv'
<1>. DEFINE Passes(t, changes) ==
              \A c \in changes :
                 /\ c.kind = "Assign" => Assignable(t, c.worker) /\ changes = {c}
                 /\ c.kind = "Complete" => Filled(t) # {} /\ changes = {c}
<1>0. TypeOK /\ AddManagerC.kind = "AddManager"
  BY DEF IInv, TypeInv, AddManagerC
<1>1. ASSUME NEW t \in Task, NEW m \in Address, NEW changes,
             Accept(t, m, changes), Passes(t, changes)
      PROVE  PassInv'
  <2>1. /\ todo' = changes \cup {AddManagerC} /\ cur' = t /\ phase' = "apply"
        /\ UNCHANGED substates
    BY <1>1 DEF Accept, local
  <2>2. Filled(cur)' = Filled(t)
    BY <2>1 DEF Filled, Slots
  <2>3. \A w : Assignable(cur, w)' = Assignable(t, w)
    BY <2>1, <2>2 DEF Assignable, Workers, nb_unassigned, Slots
  <2>. QED
    BY <1>0, <1>1, <2>1, <2>2, <2>3 DEF PassInv
<1>2. ASSUME NEW t \in Task, NEW m \in Address, ReceiveNewTask(t, m)
      PROVE  PassInv'
  BY <1>1, <1>2 DEF ReceiveNewTask, CreateC
<1>3. ASSUME NEW t \in Task, NEW m \in Address, NEW k \in FailureKind,
             NEW w \in Worker, NEW id \in InnerId, NEW n \in 0..MaxNb,
             ReceiveFailure(t, m, k, w, id, n)
      PROVE  PassInv'
  <2>. DEFINE U == UnassignChanges(t, k, w)
              S == SetNbFailuresC(n)
              D == DefinetelyFailedC(ReasonOf(k))
  <2>1. /\ \A c \in U : c.kind = "Unassign"
        /\ S.kind = "SetNbFailures" /\ D.kind = "DefinetelyFailed"
    BY DEF UnassignChanges, UnassignC, SetNbFailuresC, DefinetelyFailedC
  <2>2. panic' # "reason"
    BY ReceiveIInv DEF IInv, OnlyForeseenPanics
  <2>. HIDE DEF U, S, D
  <2>3. Passes(t, {S} \cup U) /\ Passes(t, {S, D} \cup U)
    BY <2>1
  <2>4. Accept(t, m, {S} \cup U) \/ Accept(t, m, {S, D} \cup U)
    BY <1>3, <2>2 DEF ReceiveFailure, U, S, D
  <2>. QED
    BY <1>1, <2>3, <2>4
<1>4. ASSUME NEW t \in Task, NEW m \in Address, NEW offers \in Offers,
             ReceiveScheduling(t, m, offers)
      PROVE  PassInv'
  <2>. DEFINE A == {AssignC(offers[i].worker, i) : i \in Taken(t, offers)}
  <2>1. /\ Accept(t, m, A) /\ nb_unassigned(t) # 0
        /\ \A i \in Taken(t, offers) : offers[i].worker \notin Workers(t)
    BY <1>4 DEF ReceiveScheduling, SchedulingApplies
  <2>2. nb_unassigned(t) <= 1
    <3>1. Cardinality(Slots(t)) = 1 /\ Slots(t) \ Filled(t) \in SUBSET Slots(t)
      BY Replicas, TaskConstants DEF Reliable
    <3>. QED
      BY <3>1, Replicas, FS_Subset DEF nb_unassigned
  <2>3. \A i \in Taken(t, offers) : i = 1
    <3>1. PICK n \in 0..MaxOffers : offers \in [1..n -> Offer]
      BY DEF Offers
    <3>2. n \in Nat /\ DOMAIN offers = 1..n /\ nb_unassigned(t) \in Nat
      <4>1. MaxOffers \in Nat
        BY ParametersAssumption
      <4>2. DOMAIN offers = 1..n
        BY <3>1
      <4>3. nb_unassigned(t) \in Nat
        BY Replicas
      <4>4. n \in Nat
        BY <4>1
      <4>. QED
        BY <4>2, <4>3, <4>4
    <3>3. ASSUME NEW i \in Taken(t, offers) PROVE i = 1
      <4>1. i \in 1..n /\ i <= nb_unassigned(t)
        BY <3>2 DEF Taken
      <4>. QED
        BY <2>2, <3>2, <4>1
    <3>. QED
      BY <3>3
  <2>4. \A c \in A : c.kind = "Assign" /\ Assignable(t, c.worker) /\ A = {c}
    BY <2>1, <2>3 DEF AssignC, Assignable
  <2>5. Passes(t, A)
    BY <2>4
  <2>. HIDE DEF A, Passes
  <2>. QED
    BY <1>1, <2>1, <2>5
<1>5. ASSUME NEW t \in Task, NEW m \in Address, NEW w \in Worker, ReceiveChecked(t, m, w)
      PROVE  PassInv'
  BY <1>1, <1>5 DEF ReceiveChecked, CheckedC
<1>6. ASSUME NEW t \in Task, NEW m \in Address, NEW w \in Worker,
             NEW idMan \in InnerId, NEW idStatus \in InnerId,
             NEW r \in {"empty", "data"}, ReceiveCompleted(t, m, w, idMan, idStatus, r)
      PROVE  PassInv'
  <2>1. Accept(t, m, {CompleteC(r)}) /\ Filled(t) # {}
    BY <1>6 DEF ReceiveCompleted, CompletedApplies, Workers
  <2>2. Passes(t, {CompleteC(r)})
    BY <2>1 DEF CompleteC
  <2>. QED
    BY <1>1, <2>1, <2>2
<1>. QED
  BY <1>2, <1>3, <1>4, <1>5, <1>6 DEF Receive

LEMMA NextPassInv ==
    ASSUME Reliable, ChainInv, PassInv, [Next]_vars
    PROVE  PassInv'
<1>0. /\ TypeOK /\ ~Restart /\ IInv
      /\ phase # "idle" => cur \in Task
  BY NeverRestarted DEF ChainInv
<1>1. ASSUME UNCHANGED <<substates, payment_infos, cur, todo, phase>> PROVE PassInv'
  <2>1. Filled(cur)' = Filled(cur) /\ \A w : Assignable(cur, w)' = Assignable(cur, w)
    BY <1>1 DEF Filled, Slots, Assignable, Workers, nb_unassigned
  <2>. QED
    BY <1>1, <2>1 DEF PassInv
<1>2. CASE Apply
  <2>1. PICK c \in todo :
           \/ ApplyCreate(c) \/ ApplyChecked(c) \/ ApplyUnassign(c)
           \/ ApplyAssign(c) \/ ApplyAddManager(c) \/ ApplySetNbFailures(c)
           \/ ApplyComplete(c) \/ ApplyDefinetelyFailed(c)
    BY <1>2 DEF Apply
  <2>2. cur \in Task /\ phase = "apply" /\ c \in Change /\ Applying(c, c.kind)
    BY <1>0, <2>1, ApplyEffect
  <2>3. CASE Die("assign")
    BY <1>1, <2>3 DEF Die, local, handler
  <2>4. CASE Creates /\ UNCHANGED phase
    <3>1. todo' = {AddManagerC} /\ phase' = "apply" /\ AddManagerC.kind = "AddManager"
      BY <2>2, <2>4 DEF Creates, AddManagerC
    <3>. QED
      BY <3>1 DEF PassInv
  <2>5. CASE /\ \/ ApplyChecked(c) \/ ApplyUnassign(c) \/ ApplyAssign(c)
                \/ ApplyAddManager(c) \/ ApplySetNbFailures(c)
             /\ Updates(c) /\ UNCHANGED <<cur, phase>>
    <3>1. todo' = todo \ {c} /\ UNCHANGED <<cur, phase>>
      BY <2>5 DEF Updates
    <3>2. CASE c = AddManagerC
      <4>1. ApplyAddManager(c)
        BY <2>5, <3>2 DEF ApplyChecked, ApplyUnassign, ApplyAssign, ApplySetNbFailures,
                          Applying, AddManagerC
      <4>2. UNCHANGED substates
        BY <2>5, <4>1 DEF ApplyAddManager, Updates
      <4>3. Filled(cur)' = Filled(cur) /\ \A w : Assignable(cur, w)' = Assignable(cur, w)
        BY <3>1, <4>2 DEF Filled, Slots, Assignable, Workers, nb_unassigned
      <4>. QED
        BY <2>2, <3>1, <4>3 DEF PassInv
    <3>3. CASE c # AddManagerC
      <4>1. \A d \in todo' : d.kind \notin {"Assign", "Complete"}
        BY <2>2, <3>1, <3>3 DEF PassInv
      <4>. QED
        BY <2>2, <3>1, <4>1 DEF PassInv
    <3>. QED
      BY <3>2, <3>3
  <2>6. CASE Settles(c)
    <3>1. todo' = {c} /\ phase' = "managers"
      BY <2>6 DEF Settles
    <3>2. cur' = cur
      BY <1>0, <2>1, ApplyEffect DEF Die, handler
    <3>3. c.kind = "Complete" => DOMAIN payment_infos'[cur] # {}
      <4>. SUFFICES ASSUME c.kind = "Complete" PROVE DOMAIN payment_infos'[cur] # {}
        OBVIOUS
      <4>1. payment_infos'[cur] = [s \in Filled(cur) |-> substates[cur][s]]
        BY <1>0, <2>2, <2>6 DEF Settles, TypeOK
      <4>2. Filled(cur) # {}
        BY <2>2 DEF PassInv
      <4>. QED
        BY <4>1, <4>2
    <3>. QED
      BY <3>1, <3>2, <3>3 DEF PassInv
  <2>. QED
    BY <1>0, <2>1, <2>3, <2>4, <2>5, <2>6, ApplyEffect
<1>3. CASE Commit \/ Release
  <2>1. UNCHANGED <<substates, payment_infos>>
    BY <1>0, <1>3, CommitEffect DEF local
  <2>2. \/ UNCHANGED <<cur, todo, phase>>
        \/ UNCHANGED <<cur, todo>> /\ phase = "managers" /\ phase' = "commit"
        \/ todo' = {}
    BY <1>0, <1>3, CommitEffect DEF Die, handler
  <2>. QED
    BY <1>1, <2>1, <2>2 DEF PassInv
<1>4. ASSUME NEW j \in Job, LockJob(j) PROVE PassInv'
  BY <1>1, <1>4 DEF LockJob, local, handler
<1>5. CASE UNCHANGED vars \/ \E t \in Task, w \in Worker : Elapse(t, w)
  BY <1>0, <1>1, <1>5, OtherEffect
<1>. QED
  BY <1>0, <1>2, <1>3, <1>4, <1>5, ReceivePassInv, StepCases

(* A change that is applied is never refused. *)
LEMMA ApplySurvives ==
    ASSUME ChainInv, PassInv, NEW c \in todo,
           \/ ApplyCreate(c) \/ ApplyChecked(c) \/ ApplyUnassign(c)
           \/ ApplyAssign(c) \/ ApplyAddManager(c) \/ ApplySetNbFailures(c)
           \/ ApplyComplete(c) \/ ApplyDefinetelyFailed(c)
    PROVE  panic' = "none"
<1>1. Applying(c, c.kind) /\ phase = "apply" /\ panic = "none" /\ IInv
  BY ApplyEffect DEF ChainInv
<1>2. c.kind # "Create" => Incomplete(cur)
  BY <1>1, AppliedToIncomplete
<1>3. CASE ApplyAssign(c)
  <2>1. c.kind = "Assign"
    BY <1>3 DEF ApplyAssign, Applying
  <2>2. Incomplete(cur) /\ Assignable(cur, c.worker)
    BY <1>1, <1>2, <2>1 DEF PassInv
  <2>3. Done(c)
    BY <1>3, <2>2 DEF ApplyAssign
  <2>. QED
    BY <1>1, <2>3 DEF Done
<1>4. CASE ~ApplyAssign(c)
  <2>1. ASSUME Die("assign") PROVE FALSE
    <3>1. panic' = "assign"
      BY <2>1 DEF Die
    <3>2. ~Done(c) /\ ~(UNCHANGED panic)
      BY <1>1, <3>1 DEF Done
    <3>3. \A why : Refuse(why) => why = "assign" \/ ~Incomplete(cur)
      BY <3>1 DEF Refuse, Die
    <3>4. CASE ApplyCreate(c) \/ ApplyChecked(c) \/ ApplyUnassign(c) \/ ApplyAddManager(c)
               \/ ApplySetNbFailures(c)
      <4>1. ApplyCreate(c) => FALSE
        BY <3>2 DEF ApplyCreate
      <4>2. Incomplete(cur)
        BY <1>2, <3>4, <4>1 DEF ApplyChecked, ApplyUnassign, ApplyAddManager,
                               ApplySetNbFailures, Applying
      <4>. QED
        BY <3>2, <3>3, <3>4, <4>1, <4>2 DEF ApplyChecked, ApplyUnassign, ApplyAddManager,
                                         ApplySetNbFailures
    <3>5. CASE ApplyComplete(c) \/ ApplyDefinetelyFailed(c)
      <4>1. Incomplete(cur)
        BY <1>2, <3>5 DEF ApplyComplete, ApplyDefinetelyFailed, Applying
      <4>. QED
        BY <3>2, <3>5, <4>1 DEF ApplyComplete, ApplyDefinetelyFailed, Settle
    <3>. QED
      BY <1>4, <3>4, <3>5
  <2>. QED
    BY <1>1, <2>1, ApplyEffect
<1>. QED
  BY <1>3, <1>4

(* The contract refuses no manager, and no verdict but that of an empty     *)
(* result.                                                                  *)
LEMMA CommitSurvives ==
    ASSUME Reliable, ChainInv, RoomInv, PassInv, Commit
    PROVE  panic' = "none" \/ \E c \in todo' : c.kind = "Complete" /\ c.result = "empty"
<1>0. /\ TypeOK /\ IInv /\ restarts = 0 /\ ~ChainMayFail
      /\ "Incomplete" \notin Final
      /\ phase # "idle" => cur \in Task
  BY NeverRestarted DEF ChainInv, Reliable, Final, Reason
<1>1. CASE PushManager
  BY <1>0, <1>1 DEF PushManager, Answers
<1>2. CASE ManagersSet
  BY <1>2 DEF ManagersSet, Committing
<1>3. ASSUME NEW c \in todo, CommitVerdict(c) PROVE panic' = "none"
  BY <1>0, <1>3 DEF CommitVerdict, Answers
<1>4. CASE ChainError
  <2>1. /\ phase \in {"managers", "commit"} /\ cur \in Task /\ todo' = todo
        /\ chain_state[cur] = "Incomplete"
    BY <1>0, <1>4 DEF ChainError, Committing, Die, handler, RoomInv
  <2>2. /\ Redundancy[JobOf[cur]] = 1 /\ MaxProposals <= ManagerLimit[JobOf[cur]]
        /\ ManagerLimit[JobOf[cur]] \in Nat /\ MaxProposals \in Nat
    BY <2>1, ParametersAssumption DEF Reliable
  <2>3. Len(chain_managers[cur]) = pushed /\ Len(managers_addresses[cur]) <= MaxProposals
    <3>1. Credited(cur) /\ Telling(cur)
      BY <1>0, <2>1 DEF ChainInv, CreditInv, Telling
    <3>. QED
      BY <1>0, <2>1, <3>1 DEF Credited, RoomInv
  <2>4. pushed \in Nat /\ Len(managers_addresses[cur]) \in Nat
    BY <1>0, <2>1 DEF TypeOK
  <2>5. pushed < Len(managers_addresses[cur]) => PushAllowed(cur)
    BY <2>1, <2>2, <2>3, <2>4 DEF PushAllowed
  <2>6. phase = "commit"
    BY <1>0, <1>4, <2>5 DEF ChainError, Committing
  <2>7. PICK c \in todo : ~VerdictAllowed(c)
    BY <1>0, <1>4, <2>6 DEF ChainError, Committing
  <2>8. todo = {c} /\ IsVerdict(c) /\ c \in Change
    BY <1>0, <2>6, <2>7 DEF IInv, TypeInv, PhaseOK, TypeOK
  <2>9. chain_managers[cur] # <<>>
    <3>1. LastIs(from, cur)
      BY <2>6, <2>8 DEF ChainInv, CreditInv, IsVerdict, AddManagerC
    <3>2. Len(managers_addresses[cur]) # 0
      BY <1>0, <2>1, <3>1 DEF LastIs, TypeOK
    <3>3. Len(chain_managers[cur]) # 0
      BY <2>3, <2>6, <3>2 DEF ChainInv, CreditInv
    <3>. QED
      BY <3>3
  <2>10. CASE c.kind = "Complete"
    <3>1. Cardinality(DOMAIN payment_infos[cur]) = 1
      <4>1. DOMAIN payment_infos[cur] # {} /\ DOMAIN payment_infos[cur] \subseteq 1..1
        BY <2>1, <2>2, <2>6, <2>7, <2>10, TaskConstants DEF ChainInv, CreditInv, PassInv
      <4>2. DOMAIN payment_infos[cur] = {1}
        BY <4>1
      <4>. QED
        BY <4>2, FS_Singleton
    <3>2. c.result = "empty"
      BY <2>1, <2>2, <2>7, <2>9, <2>10, <3>1 DEF VerdictAllowed, SetCompletedAllowed
    <3>. QED
      BY <2>1, <2>8, <2>10, <3>2
  <2>11. CASE c.kind = "DefinetelyFailed"
    <3>1. Storable(c.reason)
      BY <1>0, <2>8, <2>11 DEF IInv, ListsApplicable, ReasonsStorable
    <3>. QED
      BY <2>1, <2>7, <2>9, <2>11, <3>1 DEF VerdictAllowed, SetDefinitelyFailedAllowed
  <2>. QED
    BY <2>8, <2>10, <2>11 DEF IsVerdict
<1>. QED
  BY <1>1, <1>2, <1>3, <1>4 DEF Commit

LEMMA NextSurvives ==
    ASSUME Reliable, ChainInv, RoomInv, PassInv, OnlyEmptyResultKills, [Next]_vars
    PROVE  OnlyEmptyResultKills'
<1>0. IInv /\ ~Restart
  BY NeverRestarted DEF ChainInv
<1>1. ASSUME NEW j \in Job, LockJob(j) PROVE OnlyEmptyResultKills'
  BY <1>1 DEF LockJob, handler, OnlyEmptyResultKills
<1>2. CASE Receive
  <2>1. panic' = "none"
    BY <1>0, <1>2, ReceiveEffect DEF Takes, Listening
  <2>. QED
    BY <2>1 DEF OnlyEmptyResultKills
<1>3. CASE Apply
  <2>1. panic' = "none"
    BY <1>3, ApplySurvives DEF Apply
  <2>. QED
    BY <2>1 DEF OnlyEmptyResultKills
<1>4. CASE Commit
  BY <1>4, CommitSurvives DEF OnlyEmptyResultKills
<1>5. CASE Release
  BY <1>5 DEF Release, OnlyEmptyResultKills
<1>6. CASE UNCHANGED vars \/ \E t \in Task, w \in Worker : Elapse(t, w)
  BY <1>0, <1>6, OtherEffect DEF OnlyEmptyResultKills
<1>. QED
  BY <1>0, <1>1, <1>2, <1>3, <1>4, <1>5, <1>6, StepCases

(* With one replica per task, a contract with room for every manager and a  *)
(* node that answers, the process can only die of an empty result, which    *)
(* set_completed refuses: the offers, the failures and the other results a  *)
(* proposal carries never make apply_state_change or the chain fail.        *)
THEOREM OnlyEmptyResults ==
    ASSUME Reliable
    PROVE  Spec => []OnlyEmptyResultKills
<1>1. Init => RoomInv /\ PassInv /\ OnlyEmptyResultKills
  <2>1. MaxProposals \in Nat /\ Len(<<>>) = 0
    BY ParametersAssumption
  <2>. QED
    BY <2>1 DEF Init, RoomInv, PassInv, OnlyEmptyResultKills, Known
<1>2. ChainInv /\ RoomInv /\ PassInv /\ OnlyEmptyResultKills /\ [Next]_vars
        => RoomInv' /\ PassInv' /\ OnlyEmptyResultKills'
  BY NextRoomInv, NextPassInv, NextSurvives
<1>. QED
  BY <1>1, <1>2, ChainInductive, PTL DEF Spec
==============================================================================

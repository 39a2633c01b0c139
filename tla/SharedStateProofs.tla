-------------------------- MODULE SharedStateProofs --------------------------
(***************************************************************************)
(* Proofs about the oracle engine, for every number of tasks, workers,     *)
(* replicas, failures and offers.                                          *)
(***************************************************************************)
EXTENDS SharedState, FiniteSetTheorems, TLAPS

------------------------------------------------------------------------------
(* The inductive invariant *)

TypeInv == TypeOK /\ ListOK /\ PhaseOK
IInv == TypeInv /\ ListsApplicable /\ ReplicasOnDistinctWorkers
          /\ FailureBudget /\ OnlyForeseenPanics

------------------------------------------------------------------------------
(* What each kind of change looks like *)

LEMMA ChangeShape ==
    ASSUME NEW c \in Change
    PROVE  /\ c.rank \in 0..7 /\ c.pos \in Nat
           /\ c.kind = "Create" <=> c.rank = 0
           /\ c.kind = "Create" => c = CreateC
           /\ c.kind = "Checked" <=> c.rank = 1
           /\ c.kind = "Unassign" <=> c.rank = 2
           /\ c.kind \in {"Checked", "Unassign", "Assign"} => c.worker \in Worker
           /\ c.kind = "Assign" <=> c.rank = 3
           /\ c.kind = "AddManager" <=> c.rank = 4
           /\ c.kind = "AddManager" => c = AddManagerC
           /\ c.kind = "SetNbFailures" <=> c.rank = 5
           /\ c.kind = "SetNbFailures" => c.nb \in Nat
           /\ c.kind = "Complete" <=> c.rank = 6
           /\ c.kind = "DefinetelyFailed" <=> c.rank = 7
           /\ c.kind = "DefinetelyFailed" => c.reason \in Reason
           /\ c.kind \in {"Create", "Checked", "Unassign", "Assign", "AddManager",
                          "SetNbFailures", "Complete", "DefinetelyFailed"}
<1>1. CASE c = CreateC
  BY <1>1 DEF CreateC
<1>2. CASE c = AddManagerC
  BY <1>2 DEF AddManagerC
<1>3. CASE c \notin {CreateC, AddManagerC}
  BY <1>3 DEF Change
<1>. QED
  BY <1>1, <1>2, <1>3

(* The contract of a task: what the constants say of it *)
LEMMA TaskConstants ==
    ASSUME NEW t \in Task
    PROVE  /\ JobOf[t] \in Job
           /\ Redundancy[JobOf[t]] \in Nat \ {0}
           /\ Max_failures(t) \in Nat
           /\ Slots(t) = 1..Redundancy[JobOf[t]]
  BY ParametersAssumption DEF Max_failures, Slots

LEMMA EmptySlots ==
    ASSUME NEW t \in Task
    PROVE  Empty(t) \in [Slots(t) -> Worker \cup {Nobody}]
  BY DEF Empty

(* The verdict of a list is applied when nothing else is left. *)
LEMMA VerdictComesLast ==
    ASSUME todo \subseteq Change, ListOK, NEW c, First(c), IsVerdict(c)
    PROVE  todo = {c}
<1>1. c \in todo /\ c \in Change
  BY DEF First
<1>2. c.rank \in {6, 7}
  BY <1>1, ChangeShape DEF IsVerdict
<1>3. ASSUME NEW d \in todo PROVE d = c
  <2>1. d \in Change /\ c.rank <= d.rank
    BY <1>1, ChangeShape DEF First
  <2>2. d.rank \in {6, 7}
    BY <1>2, <2>1, ChangeShape
  <2>3. IsVerdict(d)
    BY <2>1, <2>2, ChangeShape DEF IsVerdict
  <2>. QED
    BY <1>1, <2>3 DEF ListOK
<1>. QED
  BY <1>1, <1>3

------------------------------------------------------------------------------
(* TypeInv is inductive *)

LEMMA InitTypeInv == Init => TypeInv
<1>. SUFFICES ASSUME Init PROVE TypeInv
  OBVIOUS
<1>1. TypeOK
  <2>1. \A t \in Task : substates[t] \in [Slots(t) -> Worker \cup {Nobody}]
    BY EmptySlots DEF Init
  <2>2. (phase = "idle") <=> (cur = NoTask)
    BY DEF Init
  <2>3. restarts \in 0..MaxRestarts
    BY ParametersAssumption DEF Init
  <2>. QED
    BY <2>1, <2>2, <2>3 DEF Init, TypeOK
<1>2. ListOK /\ PhaseOK
  BY DEF Init, ListOK, PhaseOK
<1>. QED
  BY <1>1, <1>2 DEF TypeInv

LEMMA DieTypeInv ==
    ASSUME TypeInv, NEW why, Die(why),
           why \in {"checked", "unassign", "assign", "manager", "failures",
                    "verdict", "settled", "chain"}
    PROVE  TypeInv'
<1>. USE DEF TypeInv, Die, local, handler, chain
<1>1. TypeOK'
  BY DEF TypeOK, Slots
<1>2. ListOK'
  BY DEF ListOK, Max_failures
<1>3. PhaseOK'
  BY DEF PhaseOK
<1>. QED
  BY <1>1, <1>2, <1>3

(* What Accept leaves: a list for one task, and everything else unchanged *)
LEMMA AcceptTypeInv ==
    ASSUME TypeInv, Listening, NEW t \in Task, NEW m \in Address, NEW changes,
           Accept(t, m, changes), changes \subseteq Change,
           \A c, d \in changes : IsVerdict(c) /\ IsVerdict(d) => c = d,
           \A c \in changes : c.kind = "SetNbFailures" /\ c.nb > Max_failures(t) =>
              \E d \in changes : d.kind = "DefinetelyFailed"
    PROVE  TypeInv'
<1>1. AddManagerC \in Change /\ AddManagerC.kind = "AddManager"
  BY DEF Change, AddManagerC
<1>5. todo' \in SUBSET Change
  BY <1>1 DEF Accept
<1>2. TypeOK'
  <2>1. t # NoTask
    BY ParametersAssumption
  <2>. QED
    BY <1>5, <2>1 DEF TypeInv, TypeOK, Accept, local, chain, Slots
<1>3. ListOK'
  <2>1. todo' = changes \cup {AddManagerC} /\ cur' = t
    BY DEF Accept
  <2>3. \A c, d \in todo' : IsVerdict(c) /\ IsVerdict(d) => c = d
    BY <1>1, <2>1 DEF IsVerdict
  <2>4. \A c \in todo' : c.kind = "SetNbFailures" /\ c.nb > Max_failures(t) =>
          \E d \in todo' : d.kind = "DefinetelyFailed"
    BY <1>1, <2>1
  <2>. QED
    BY <2>1, <2>3, <2>4 DEF ListOK, Max_failures
<1>4. PhaseOK'
  BY DEF Accept, PhaseOK
<1>. QED
  BY <1>2, <1>3, <1>4 DEF TypeInv

(* The lists of the five handlers *)
LEMMA ReceiveTypeInv == TypeInv /\ Receive => TypeInv'
<1>. SUFFICES ASSUME TypeInv, Receive PROVE TypeInv'
  OBVIOUS
<1>1. ASSUME NEW t \in Task, NEW m \in Address, ReceiveNewTask(t, m)
      PROVE  TypeInv'
  <2>1. CreateC \in Change /\ CreateC.kind = "Create"
    BY DEF Change, CreateC
  <2>. QED
    BY <1>1, <2>1, AcceptTypeInv DEF ReceiveNewTask, IsVerdict
<1>2. ASSUME NEW t \in Task, NEW m \in Address, NEW k \in FailureKind,
             NEW w \in Worker, NEW id \in InnerId, NEW n \in 0..MaxNb,
             ReceiveFailure(t, m, k, w, id, n)
      PROVE  TypeInv'
  <2>. DEFINE U == UnassignChanges(t, k, w)
              S == SetNbFailuresC(n)
              D == DefinetelyFailedC(ReasonOf(k))
  <2>1. n \in Nat
    OBVIOUS
  <2>2. U \subseteq Change /\ \A c \in U : c.kind = "Unassign"
    <3>1. ASSUME NEW s \in Filled(t)
          PROVE  /\ UnassignC(substates[t][s], s) \in Change
                 /\ UnassignC(substates[t][s], s).kind = "Unassign"
      <4>1. s \in Nat /\ substates[t][s] \in Worker
        BY <3>1, TaskConstants DEF Filled, TypeInv, TypeOK, Slots
      <4>. QED
        BY <4>1 DEF Change, UnassignC
    <3>2. UnassignC(w, 0) \in Change /\ UnassignC(w, 0).kind = "Unassign"
      BY DEF Change, UnassignC
    <3>. QED
      BY <3>1, <3>2 DEF UnassignChanges
  <2>3. S \in Change /\ S.kind = "SetNbFailures" /\ S.nb = n
    BY <2>1 DEF Change, SetNbFailuresC
  <2>4. HasReason(k) => D \in Change /\ D.kind = "DefinetelyFailed"
    BY DEF HasReason, ReasonOf, FailureKind, Reason, Change, DefinetelyFailedC
  <2>5. CASE n <= Max_failures(t)
    <3>1. Accept(t, m, {S} \cup U) /\ Listening
      BY <1>2, <2>5 DEF ReceiveFailure, FailureApplies
    <3>2. \A c \in {S} \cup U : c.kind = "SetNbFailures" => c.nb <= Max_failures(t)
      BY <2>2, <2>3, <2>5
    <3>3. ~(\E c \in {S} \cup U : c.kind = "SetNbFailures" /\ c.nb > Max_failures(t))
      <4>1. \A c \in {S} \cup U : c.kind = "SetNbFailures" => c = S
        BY <2>2
      <4>. QED
        BY <2>1, <2>3, <2>5, <4>1, TaskConstants
    <3>. QED
      BY <2>2, <2>3, <3>1, <3>3, AcceptTypeInv DEF IsVerdict
  <2>6. CASE n > Max_failures(t) /\ HasReason(k)
    <3>1. Accept(t, m, {S, D} \cup U) /\ Listening
      BY <1>2, <2>1, <2>6, TaskConstants DEF ReceiveFailure, FailureApplies
    <3>. QED
      BY <2>2, <2>3, <2>4, <2>6, <3>1, AcceptTypeInv DEF IsVerdict
  <2>7. CASE n > Max_failures(t) /\ ~HasReason(k)
    <3>1. panic' = "reason" /\ UNCHANGED <<local, handler, restarts, chain, mirror>>
      BY <1>2, <2>1, <2>7, TaskConstants DEF ReceiveFailure, FailureApplies
    <3>. QED
      BY <3>1 DEF TypeInv, TypeOK, ListOK, PhaseOK, local, handler, chain, Slots,
                  Max_failures
  <2>. QED
    BY <2>1, <2>5, <2>6, <2>7, TaskConstants
<1>3. ASSUME NEW t \in Task, NEW m \in Address, NEW offers \in Offers,
             ReceiveScheduling(t, m, offers)
      PROVE  TypeInv'
  <2>. DEFINE taken == Taken(t, offers)
              A == {AssignC(offers[i].worker, i) : i \in taken}
  <2>1. Accept(t, m, A) /\ Listening
    BY <1>3 DEF ReceiveScheduling, SchedulingApplies
  <2>2. \A c \in A : c \in Change /\ c.kind = "Assign"
    <3>1. ASSUME NEW i \in taken PROVE i \in Nat /\ offers[i].worker \in Worker
      <4>1. PICK n \in 0..MaxOffers : offers \in [1..n -> Offer]
        BY DEF Offers
      <4>. QED
        BY <4>1 DEF Offer, Taken
    <3>. QED
      BY <3>1 DEF Change, AssignC
  <2>. HIDE DEF A
  <2>. QED
    BY <2>1, <2>2, AcceptTypeInv DEF IsVerdict
<1>4. ASSUME NEW t \in Task, NEW m \in Address, NEW w \in Worker,
             ReceiveChecked(t, m, w)
      PROVE  TypeInv'
  <2>1. CheckedC(w) \in Change /\ CheckedC(w).kind = "Checked"
    BY DEF Change, CheckedC
  <2>. QED
    BY <1>4, <2>1, AcceptTypeInv DEF ReceiveChecked, IsVerdict
<1>5. ASSUME NEW t \in Task, NEW m \in Address, NEW w \in Worker,
             NEW idMan \in InnerId, NEW idStatus \in InnerId,
             NEW r \in {"empty", "data"}, ReceiveCompleted(t, m, w, idMan, idStatus, r)
      PROVE  TypeInv'
  <2>1. CompleteC(r) \in Change /\ CompleteC(r).kind = "Complete"
    BY DEF Change, CompleteC
  <2>. QED
    BY <1>5, <2>1, AcceptTypeInv DEF ReceiveCompleted, CompletedApplies, IsVerdict
<1>. QED
  BY <1>1, <1>2, <1>3, <1>4, <1>5 DEF Receive

(* While a list is applied, there is a task under the lock. *)
LEMMA ApplyingTask ==
    ASSUME TypeInv, NEW c, NEW kind, Applying(c, kind)
    PROVE  /\ cur \in Task /\ c \in todo /\ c \in Change /\ First(c) /\ c.kind = kind
           /\ phase = "apply" /\ panic = "none"
  BY DEF TypeInv, TypeOK, ListOK, Applying, First

(* A change other than a verdict is taken off the list. *)
LEMMA DoneListOK ==
    ASSUME TypeInv, NEW c, Applying(c, c.kind), ~IsVerdict(c), Done(c)
    PROVE  ListOK' /\ PhaseOK'
<1>1. c.kind # "DefinetelyFailed"
  BY DEF IsVerdict
<1>2. ListOK'
  BY <1>1 DEF TypeInv, ListOK, Done, Max_failures, IsVerdict
<1>3. PhaseOK'
  BY DEF TypeInv, PhaseOK, Done, Applying
<1>. QED
  BY <1>2, <1>3

LEMMA ApplyTypeInv == TypeInv /\ Apply => TypeInv'
<1>. SUFFICES ASSUME TypeInv, NEW c \in todo,
                     \/ ApplyCreate(c) \/ ApplyChecked(c) \/ ApplyUnassign(c)
                     \/ ApplyAssign(c) \/ ApplyAddManager(c) \/ ApplySetNbFailures(c)
                     \/ ApplyComplete(c) \/ ApplyDefinetelyFailed(c)
              PROVE  TypeInv'
  BY DEF Apply
<1>. USE DEF TypeInv
<1>0. TypeOK
  OBVIOUS
<1>1. CASE ApplyCreate(c)
  <2>1. Applying(c, "Create") /\ Done(c)
    BY <1>1 DEF ApplyCreate
  <2>2. cur \in Task /\ JobOf[cur] \in Job
    BY <2>1, ApplyingTask, TaskConstants
  <2>3. TypeOK'
    <3>1. Empty(cur) \in [Slots(cur) -> Worker \cup {Nobody}]
      BY <2>2, EmptySlots
    <3>2. /\ jobs' \in SUBSET Job
          /\ completeness' \in [Task -> {"Unknown", "Incomplete"} \cup Final]
          /\ due' \in [Task -> SUBSET Worker]
          /\ nb_failures' \in [Task -> Nat]
          /\ managers_addresses' \in [Task -> Seq(Address)]
          /\ DOMAIN mirror' = Task
      BY <1>0, <1>1, <2>2 DEF ApplyCreate, TypeOK
    <3>3. DOMAIN substates' = Task
          /\ \A t \in Task : substates'[t] \in [Slots(t) -> Worker \cup {Nobody}]
      BY <1>0, <1>1, <2>2, <3>1 DEF ApplyCreate, TypeOK
    <3>4. todo' \in SUBSET Change
      BY <1>0, <2>1 DEF Done, TypeOK
    <3>5. UNCHANGED <<payment_infos, cur, from, phase, pushed, panic, restarts, chain>>
      BY <1>1, <2>1 DEF Done, ApplyCreate
    <3>. QED
      BY <1>0, <3>2, <3>3, <3>4, <3>5 DEF TypeOK, chain, Slots
  <2>4. ListOK' /\ PhaseOK'
    BY <2>1, DoneListOK DEF IsVerdict, Applying
  <2>. QED
    BY <2>3, <2>4
<1>2. CASE ApplyChecked(c)
  <2>1. Applying(c, "Checked") /\ cur \in Task
    BY <1>2, ApplyingTask DEF ApplyChecked
  <2>2. CASE Incomplete(cur) /\ c.worker \in Workers(cur)
    <3>1. Done(c)
      BY <1>2, <2>2 DEF ApplyChecked
    <3>2. TypeOK'
      <4>1. due' \in [Task -> SUBSET Worker]
        BY <1>0, <1>2, <2>1, <2>2 DEF ApplyChecked, TypeOK
      <4>2. UNCHANGED <<jobs, completeness, substates, nb_failures, managers_addresses,
                        payment_infos, mirror, cur, from, phase, pushed, panic,
                        restarts, chain>>
        BY <1>2, <2>2, <3>1 DEF ApplyChecked, Done
      <4>3. todo' \in SUBSET Change
        BY <1>0, <3>1 DEF Done, TypeOK
      <4>. QED
        BY <1>0, <4>1, <4>2, <4>3 DEF TypeOK, chain, Slots
    <3>. QED
      BY <2>1, <3>1, <3>2, DoneListOK DEF IsVerdict, Applying
  <2>3. CASE ~(Incomplete(cur) /\ c.worker \in Workers(cur))
    BY <1>2, <2>3, DieTypeInv DEF ApplyChecked, Refuse
  <2>. QED
    BY <2>2, <2>3
<1>3. CASE ApplyUnassign(c)
  <2>1. Applying(c, "Unassign") /\ cur \in Task
    BY <1>3, ApplyingTask DEF ApplyUnassign
  <2>2. CASE Incomplete(cur) /\ c.worker \in Workers(cur)
    <3>1. Done(c)
      BY <1>3, <2>2 DEF ApplyUnassign
    <3>2. PICK s \in Filled(cur) : substates' = [substates EXCEPT ![cur][s] = Nobody]
      BY <1>3, <2>2 DEF ApplyUnassign
    <3>3. DOMAIN substates' = Task
          /\ \A t \in Task : substates'[t] \in [Slots(t) -> Worker \cup {Nobody}]
      BY <1>0, <2>1, <3>2 DEF TypeOK, Filled
    <3>4. due' \in [Task -> SUBSET Worker] /\ DOMAIN mirror' = Task
      <4>1. due' = [due EXCEPT ![cur] = @ \ {c.worker}] /\ DOMAIN mirror' = DOMAIN mirror
        BY <1>3, <2>2 DEF ApplyUnassign
      <4>. QED
        BY <1>0, <2>1, <4>1 DEF TypeOK
    <3>5. TypeOK'
      <4>1. UNCHANGED <<jobs, completeness, nb_failures, managers_addresses,
                        payment_infos, cur, from, phase, pushed, panic, restarts, chain>>
        BY <1>3, <2>2 DEF ApplyUnassign, Done
      <4>2. todo' \in SUBSET Change
        BY <1>0, <3>1 DEF Done, TypeOK
      <4>. QED
        BY <1>0, <3>3, <3>4, <4>1, <4>2 DEF TypeOK, chain, Slots
    <3>. QED
      BY <2>1, <3>1, <3>5, DoneListOK DEF IsVerdict, Applying
  <2>3. CASE ~(Incomplete(cur) /\ c.worker \in Workers(cur))
    BY <1>3, <2>3, DieTypeInv DEF ApplyUnassign, Refuse
  <2>. QED
    BY <2>2, <2>3
<1>4. CASE ApplyAssign(c)
  <2>1. Applying(c, "Assign") /\ cur \in Task /\ c.worker \in Worker
    BY <1>4, ApplyingTask, ChangeShape DEF ApplyAssign
  <2>2. CASE Incomplete(cur) /\ Assignable(cur, c.worker)
    <3>1. Done(c)
      BY <1>4, <2>2 DEF ApplyAssign
    <3>2. PICK s \in Slots(cur) \ Filled(cur) :
                 substates' = [substates EXCEPT ![cur][s] = c.worker]
      BY <1>4, <2>2 DEF ApplyAssign
    <3>3. DOMAIN substates' = Task
          /\ \A t \in Task : substates'[t] \in [Slots(t) -> Worker \cup {Nobody}]
      BY <1>0, <2>1, <3>2 DEF TypeOK, Filled
    <3>4. TypeOK'
      BY <1>0, <1>4, <2>1, <2>2, <3>3 DEF ApplyAssign, TypeOK, Done, chain, Slots
    <3>. QED
      BY <2>1, <3>1, <3>4, DoneListOK DEF IsVerdict, Applying
  <2>3. CASE ~(Incomplete(cur) /\ Assignable(cur, c.worker))
    BY <1>4, <2>3, DieTypeInv DEF ApplyAssign, Refuse
  <2>. QED
    BY <2>2, <2>3
<1>5. CASE ApplyAddManager(c)
  <2>1. Applying(c, "AddManager") /\ cur \in Task
    BY <1>5, ApplyingTask DEF ApplyAddManager
  <2>2. CASE Incomplete(cur)
    <3>1. Done(c)
      BY <1>5, <2>2 DEF ApplyAddManager
    <3>2. managers_addresses' \in [Task -> Seq(Address)]
      <4>1. managers_addresses \in [Task -> Seq(Address)] /\ from \in Address
        BY <1>0 DEF TypeOK
      <4>2. Append(managers_addresses[cur], from) \in Seq(Address)
        BY <2>1, <4>1
      <4>3. managers_addresses' = [managers_addresses EXCEPT
                                     ![cur] = Append(managers_addresses[cur], from)]
        BY <1>5, <2>2 DEF ApplyAddManager
      <4>. QED
        BY <4>1, <4>2, <4>3
    <3>3. TypeOK'
      BY <1>0, <1>5, <2>2, <3>2 DEF ApplyAddManager, TypeOK, Done, chain, Slots
    <3>. QED
      BY <2>1, <3>1, <3>3, DoneListOK DEF IsVerdict, Applying
  <2>3. CASE ~Incomplete(cur)
    BY <1>5, <2>3, DieTypeInv DEF ApplyAddManager, Refuse
  <2>. QED
    BY <2>2, <2>3
<1>6. CASE ApplySetNbFailures(c)
  <2>1. Applying(c, "SetNbFailures") /\ cur \in Task /\ c.nb \in Nat
    BY <1>6, ApplyingTask, ChangeShape DEF ApplySetNbFailures
  <2>2. CASE Incomplete(cur)
    <3>1. Done(c)
      BY <1>6, <2>2 DEF ApplySetNbFailures
    <3>2. nb_failures' \in [Task -> Nat]
      BY <1>0, <1>6, <2>1, <2>2 DEF ApplySetNbFailures, TypeOK
    <3>3. TypeOK'
      BY <1>0, <1>6, <2>2, <3>2 DEF ApplySetNbFailures, TypeOK, Done, chain, Slots
    <3>. QED
      BY <2>1, <3>1, <3>3, DoneListOK DEF IsVerdict, Applying
  <2>3. CASE ~Incomplete(cur)
    BY <1>6, <2>3, DieTypeInv DEF ApplySetNbFailures, Refuse
  <2>. QED
    BY <2>2, <2>3
<1>7. ASSUME NEW verdict \in Final, NEW infos, IsVerdict(c), Applying(c, c.kind),
             Settle(verdict, infos)
      PROVE  TypeInv'
  <2>1. cur \in Task /\ todo = {c}
    <3>1. cur \in Task /\ First(c)
      BY <1>7, ApplyingTask
    <3>2. todo \subseteq Change /\ ListOK
      BY <1>0 DEF TypeOK
    <3>. QED
      BY <1>7, <3>1, <3>2, VerdictComesLast
  <2>2. CASE Incomplete(cur)
    <3>1. Empty(cur) \in [Slots(cur) -> Worker \cup {Nobody}]
      BY <2>1, EmptySlots
    <3>2. /\ completeness' \in [Task -> {"Unknown", "Incomplete"} \cup Final]
          /\ due' \in [Task -> SUBSET Worker]
          /\ DOMAIN substates' = Task
          /\ \A t \in Task : substates'[t] \in [Slots(t) -> Worker \cup {Nobody}]
      <4>1. /\ completeness' = [completeness EXCEPT ![cur] = verdict]
            /\ due' = [due EXCEPT ![cur] = {}]
            /\ substates' = [substates EXCEPT ![cur] = Empty(cur)]
        BY <1>7, <2>2 DEF Settle
      <4>. QED
        BY <1>0, <1>7, <2>1, <3>1, <4>1 DEF TypeOK
    <3>3. cur # NoTask
      BY <2>1, ParametersAssumption
    <3>4. TypeOK'
      BY <1>0, <1>7, <2>2, <3>2, <3>3 DEF Settle, TypeOK, chain, Slots
    <3>5. ListOK'
      BY <1>7, <2>2 DEF Settle, ListOK, Max_failures
    <3>6. PhaseOK'
      <4>1. /\ completeness' = [completeness EXCEPT ![cur] = verdict]
            /\ phase' = "managers" /\ cur' = cur /\ todo' = todo
        BY <1>7, <2>2 DEF Settle
      <4>2. completeness'[cur'] \in Final
        BY <1>0, <1>7, <2>1, <4>1 DEF TypeOK
      <4>3. \E d \in todo' : todo' = {d} /\ IsVerdict(d)
        BY <1>7, <2>1, <4>1
      <4>. QED
        BY <4>1, <4>2, <4>3 DEF PhaseOK
    <3>. QED
      BY <3>4, <3>5, <3>6
  <2>3. CASE ~Incomplete(cur)
    BY <1>7, <2>3, DieTypeInv DEF Settle, Refuse
  <2>. QED
    BY <2>2, <2>3
<1>8. CASE ApplyComplete(c)
  BY <1>7, <1>8 DEF ApplyComplete, Final, IsVerdict, Applying
<1>9. CASE ApplyDefinetelyFailed(c)
  <2>1. c.reason \in Final
    BY <1>9, ApplyingTask, ChangeShape DEF ApplyDefinetelyFailed, Final
  <2>. QED
    BY <1>7, <1>9, <2>1 DEF ApplyDefinetelyFailed, IsVerdict, Applying
<1>. QED
  BY <1>1, <1>2, <1>3, <1>4, <1>5, <1>6, <1>8, <1>9

LEMMA CommitTypeInv == TypeInv /\ (Commit \/ Release) => TypeInv'
<1>. SUFFICES ASSUME TypeInv, Commit \/ Release PROVE TypeInv'
  OBVIOUS
<1>. USE DEF TypeInv
<1>0. TypeOK
  OBVIOUS
<1>1. CASE PushManager
  <2>1. cur \in Task
    BY <1>0, <1>1 DEF PushManager, Committing, TypeOK
  <2>2. pushed + 1 \in 1..Len(managers_addresses[cur])
    BY <1>0, <1>1, <2>1 DEF PushManager, TypeOK
  <2>3. managers_addresses[cur][pushed + 1] \in Address
    BY <1>0, <2>1, <2>2 DEF TypeOK
  <2>4. chain_managers' \in [Task -> Seq(Address)]
    <3>1. Append(chain_managers[cur], managers_addresses[cur][pushed + 1]) \in Seq(Address)
      BY <1>0, <2>1, <2>3 DEF TypeOK
    <3>2. chain_managers' = [chain_managers EXCEPT
            ![cur] = Append(chain_managers[cur], managers_addresses[cur][pushed + 1])]
      BY <1>1 DEF PushManager
    <3>. QED
      BY <1>0, <3>1, <3>2 DEF TypeOK
  <2>5. TypeOK'
    BY <1>0, <1>1, <2>4 DEF PushManager, TypeOK, local, Slots, Answers
  <2>6. ListOK' /\ PhaseOK'
    BY <1>1 DEF PushManager, ListOK, PhaseOK, local, Max_failures
  <2>. QED
    BY <2>5, <2>6
<1>2. CASE ManagersSet
  <2>1. TypeOK'
    BY <1>0, <1>2 DEF ManagersSet, Committing, TypeOK, local, chain, Slots
  <2>2. ListOK' /\ PhaseOK'
    BY <1>2 DEF ManagersSet, Committing, ListOK, PhaseOK, local, Max_failures
  <2>. QED
    BY <2>1, <2>2
<1>3. CASE ChainError
  BY <1>3, DieTypeInv DEF ChainError
<1>4. ASSUME NEW c \in todo, CommitVerdict(c) PROVE TypeInv'
  <2>1. cur \in Task /\ phase = "commit" /\ c \in Change
    BY <1>0, <1>4 DEF CommitVerdict, Committing, TypeOK, ListOK
  <2>2. c.kind # "Complete" => c.reason \in Final
    BY <2>1, ChangeShape DEF PhaseOK, IsVerdict, Final
  <2>3. chain_state' \in [Task -> {"Unknown", "Incomplete"} \cup Final]
    <3>1. (IF c.kind = "Complete" THEN "Completed" ELSE c.reason) \in Final
      BY <2>2 DEF Final
    <3>2. chain_state' = [chain_state EXCEPT
                     ![cur] = IF c.kind = "Complete" THEN "Completed" ELSE c.reason]
      BY <1>4 DEF CommitVerdict
    <3>. QED
      BY <1>0, <3>1, <3>2 DEF TypeOK
  <2>4. TypeOK'
    <3>1. panic' \in {"none", "chain"}
      BY <1>4 DEF CommitVerdict, Answers
    <3>2. UNCHANGED <<jobs, completeness, substates, due, nb_failures, managers_addresses,
                      payment_infos, cur, from, pushed, restarts, chain_managers, mirror>>
          /\ todo' \subseteq todo /\ phase' = "apply"
      BY <1>4 DEF CommitVerdict, local
    <3>. QED
      BY <1>0, <2>1, <2>3, <3>1, <3>2 DEF TypeOK, Slots
  <2>5. todo' = {} /\ phase' = "apply"
    BY <1>4, <2>1 DEF CommitVerdict, PhaseOK
  <2>. QED
    BY <2>4, <2>5 DEF ListOK, PhaseOK
<1>5. CASE Release
  <2>1. TypeOK'
    BY <1>0, <1>5 DEF Release, TypeOK, local, chain, Slots
  <2>. QED
    BY <1>5, <2>1 DEF Release, ListOK, PhaseOK
<1>. QED
  BY <1>1, <1>2, <1>3, <1>4, <1>5 DEF Commit

LEMMA EnvironmentTypeInv ==
    TypeInv /\ ((\E j \in Job : LockJob(j)) \/ Restart
                 \/ (\E t \in Task, w \in Worker : Elapse(t, w)))
      => TypeInv'
<1>. SUFFICES ASSUME TypeInv,
                     \/ \E j \in Job : LockJob(j)
                     \/ Restart
                     \/ \E t \in Task, w \in Worker : Elapse(t, w)
              PROVE  TypeInv'
  OBVIOUS
<1>. USE DEF TypeInv
<1>1. CASE \E j \in Job : LockJob(j)
  BY <1>1 DEF LockJob, TypeOK, ListOK, PhaseOK, local, handler, Slots, Max_failures
<1>2. CASE Restart
  <2>1. \A t \in Task : Empty(t) \in [Slots(t) -> Worker \cup {Nobody}]
    BY EmptySlots
  <2>2. TypeOK'
    BY <1>2, <2>1, ParametersAssumption DEF Restart, TypeOK, chain, Slots
  <2>. QED
    BY <1>2, <2>2 DEF Restart, ListOK, PhaseOK
<1>3. ASSUME NEW t \in Task, NEW w \in Worker, Elapse(t, w) PROVE TypeInv'
  BY <1>3 DEF Elapse, TypeOK, ListOK, PhaseOK, handler, chain, Slots, Max_failures
<1>. QED
  BY <1>1, <1>2, <1>3

LEMMA NextTypeInv == TypeInv /\ [Next]_vars => TypeInv'
<1>1. TypeInv /\ UNCHANGED vars => TypeInv'
  BY DEF vars, local, handler, chain, TypeInv, TypeOK, ListOK, PhaseOK, Slots,
         Max_failures
<1>. QED
  BY <1>1, ReceiveTypeInv, ApplyTypeInv, CommitTypeInv, EnvironmentTypeInv
  DEF Next, Handler

(* Every variable keeps its type, a list of changes its shape, and the      *)
(* handler its order, whatever is proposed and whatever fails.              *)
THEOREM TypeCorrect == Spec => []TypeOK
<1>1. Spec => []TypeInv
  BY InitTypeInv, NextTypeInv, PTL DEF Spec
<1>2. TypeInv => TypeOK
  BY DEF TypeInv
<1>. QED
  BY <1>1, <1>2, PTL

------------------------------------------------------------------------------
(* IInv is inductive. The task-wise conjuncts only read these variables.    *)

LEMMA InitIInv == Init => IInv
<1>. SUFFICES ASSUME Init PROVE IInv
  OBVIOUS
<1>1. TypeInv
  BY InitTypeInv
<1>2. \A t \in Task : Filled(t) = {} /\ DOMAIN payment_infos[t] = {}
  BY DEF Init, Filled, Empty
<1>3. ListsApplicable
  BY <1>1, <1>2 DEF Init, TypeInv, ListsApplicable, ReasonsStorable, ApplicableOK
<1>4. ReplicasOnDistinctWorkers
  BY <1>2 DEF ReplicasOnDistinctWorkers
<1>5. FailureBudget /\ OnlyForeseenPanics
  BY DEF Init, FailureBudget, Incomplete, OnlyForeseenPanics
<1>. QED
  BY <1>1, <1>3, <1>4, <1>5 DEF IInv

(* A step of the environment that leaves the task-wise state alone *)
LEMMA FrameIInv ==
    ASSUME IInv, TypeInv',
           UNCHANGED <<completeness, substates, nb_failures, payment_infos, cur, todo,
                       phase>>,
           panic' \in {"none", "assign", "chain"}
    PROVE  IInv'
<1>. USE DEF IInv, TypeInv, ListsApplicable
<1>1. \A t \in Task : Filled(t)' = Filled(t) /\ Workers(t)' = Workers(t)
                      /\ Incomplete(t)' = Incomplete(t)
  BY DEF Filled, Workers, Slots, Incomplete
<1>2. ReasonsStorable' /\ OnlyForeseenPanics'
  BY DEF ReasonsStorable, OnlyForeseenPanics
<1>3. ApplicableOK'
  BY DEF ApplicableOK, Incomplete, Workers, Filled, Slots
<1>4. ReplicasOnDistinctWorkers'
  BY <1>1 DEF ReplicasOnDistinctWorkers
<1>5. FailureBudget'
  BY <1>1 DEF FailureBudget, Max_failures
<1>. QED
  BY <1>2, <1>3, <1>4, <1>5

(* Between two proposals no task is over its budget. *)
LEMMA IdleBudget ==
    ASSUME IInv, Listening, NEW t \in Task, Incomplete(t)
    PROVE  nb_failures[t] <= Max_failures(t)
<1>1. todo = {} /\ nb_failures[t] \in Nat
  BY DEF IInv, TypeInv, PhaseOK, Listening, TypeOK
<1>. QED
  BY <1>1, TaskConstants DEF IInv, FailureBudget

(* What the handlers must ensure of the list they accept *)
LEMMA AcceptIInv ==
    ASSUME IInv, Listening, TypeInv', NEW t \in Task, NEW m \in Address, NEW changes,
           Accept(t, m, changes), changes \subseteq Change,
           \A c \in changes : c.kind = "DefinetelyFailed" => Storable(c.reason),
           \A c \in changes : c.kind \in {"Checked", "Unassign"} => c.worker \in Workers(t),
           \A c, d \in changes : c.kind = "Unassign" /\ d.kind = "Unassign"
                                   /\ c.worker = d.worker => c = d,
           \/ changes = {CreateC} /\ completeness[t] = "Unknown"
           \/ CreateC \notin changes /\ Incomplete(t)
    PROVE  IInv'
<1>. USE DEF IInv, TypeInv, ListsApplicable
<1>1. /\ todo' = changes \cup {AddManagerC} /\ cur' = t /\ phase' = "apply"
      /\ UNCHANGED <<completeness, substates, nb_failures, payment_infos, panic>>
  BY DEF Accept, local
<1>2. AddManagerC.kind = "AddManager" /\ AddManagerC # CreateC
  BY DEF AddManagerC, CreateC
<1>3. \A u \in Task : Filled(u)' = Filled(u) /\ Workers(u)' = Workers(u)
                      /\ Incomplete(u)' = Incomplete(u)
  BY <1>1 DEF Filled, Workers, Slots, Incomplete
<1>4. ReasonsStorable'
  BY <1>1, <1>2 DEF ReasonsStorable
<1>5. ApplicableOK'
  <2>1. \A c \in todo' : c.kind \in {"Checked", "Unassign"} => c.worker \in Workers(t)
    BY <1>1, <1>2
  <2>2. \A c, d \in todo' : c.kind = "Unassign" /\ d.kind = "Unassign"
                              /\ c.worker = d.worker => c = d
    BY <1>1, <1>2
  <2>3. \/ todo' = {CreateC, AddManagerC} /\ completeness'[t] = "Unknown"
        \/ CreateC \notin todo' /\ Incomplete(t)'
    BY <1>1, <1>2, <1>3
  <2>4. Workers(cur)' = Workers(t) /\ Incomplete(cur)' = Incomplete(t)
    BY <1>1, <1>3 DEF Incomplete, Workers, Filled, Slots
  <2>. QED
    BY <1>1, <1>3, <2>1, <2>2, <2>3, <2>4 DEF ApplicableOK, Incomplete
<1>6. ReplicasOnDistinctWorkers'
  BY <1>1, <1>3 DEF ReplicasOnDistinctWorkers
<1>7. FailureBudget'
  <2>1. \A u \in Task : Incomplete(u) => nb_failures[u] <= Max_failures(u)
    BY IdleBudget
  <2>2. \A u \in Task : nb_failures[u] \in Nat /\ Max_failures(u) \in Nat
    BY TaskConstants DEF TypeOK
  <2>. QED
    BY <1>1, <1>3, <2>1, <2>2 DEF FailureBudget, Max_failures
<1>8. OnlyForeseenPanics'
  BY <1>1 DEF OnlyForeseenPanics
<1>. QED
  BY <1>4, <1>5, <1>6, <1>7, <1>8

LEMMA ReceiveIInv == IInv /\ Receive => IInv'
<1>. SUFFICES ASSUME IInv, Receive PROVE IInv'
  OBVIOUS
<1>0. TypeInv /\ TypeInv' /\ TypeOK /\ ApplicableOK /\ ReplicasOnDistinctWorkers
  BY ReceiveTypeInv DEF IInv, TypeInv, ListsApplicable
<1>1. ASSUME NEW t \in Task, NEW m \in Address, ReceiveNewTask(t, m)
      PROVE  IInv'
  <2>1. CreateC \in Change /\ CreateC.kind = "Create"
    BY DEF Change, CreateC
  <2>. QED
    BY <1>0, <1>1, <2>1, AcceptIInv DEF ReceiveNewTask, Known
<1>2. ASSUME NEW t \in Task, NEW m \in Address, NEW k \in FailureKind,
             NEW w \in Worker, NEW id \in InnerId, NEW n \in 0..MaxNb,
             ReceiveFailure(t, m, k, w, id, n)
      PROVE  IInv'
  <2>. DEFINE U == UnassignChanges(t, k, w)
              S == SetNbFailuresC(n)
              D == DefinetelyFailedC(ReasonOf(k))
  <2>1. Listening /\ n \in Nat /\ Max_failures(t) \in Nat /\ nb_failures[t] \in Nat
    BY <1>0, <1>2, TaskConstants DEF ReceiveFailure, FailureApplies, TypeOK
  <2>2. Incomplete(t)
    BY <1>0, <1>2 DEF ReceiveFailure, FailureApplies, Workers, ApplicableOK
  <2>3. nb_failures[t] <= Max_failures(t)
    BY <2>1, <2>2, IdleBudget
  <2>4. n > Max_failures(t) => k \notin {"Aborted", "ManUnavailable"}
    BY <1>2, <2>1, <2>3 DEF ReceiveFailure, FailureApplies, FailureAccepted
  <2>5. \A c \in U : /\ c \in Change /\ c.kind = "Unassign" /\ c.worker \in Workers(t)
                     /\ \A d \in U : c.worker = d.worker => c = d
    <3>1. CASE UnassignsAll(t, k)
      <4>1. U = {UnassignC(substates[t][s], s) : s \in Filled(t)}
        BY <3>1 DEF UnassignChanges
      <4>2. ASSUME NEW s \in Filled(t)
            PROVE  s \in Nat /\ substates[t][s] \in Worker /\ substates[t][s] \in Workers(t)
        <5>1. s \in Slots(t) /\ substates[t] \in [Slots(t) -> Worker \cup {Nobody}]
          BY <1>0 DEF Filled, TypeOK
        <5>. QED
          BY <5>1, TaskConstants DEF Filled, Workers
      <4>3. \A r, s \in Filled(t) : substates[t][r] = substates[t][s] => r = s
        BY <1>0 DEF ReplicasOnDistinctWorkers
      <4>. QED
        BY <4>1, <4>2, <4>3 DEF Change, UnassignC
    <3>2. CASE ~UnassignsAll(t, k)
      <4>1. U = {UnassignC(w, 0)} /\ w \in Workers(t)
        BY <1>2, <3>2 DEF UnassignChanges, ReceiveFailure, FailureApplies
      <4>. QED
        BY <4>1 DEF Change, UnassignC
    <3>. QED
      BY <3>1, <3>2
  <2>6. S \in Change /\ S.kind = "SetNbFailures"
    BY <2>1 DEF Change, SetNbFailuresC
  <2>7. k # "ManUnavailable" => D \in Change /\ D.kind = "DefinetelyFailed"
    BY DEF ReasonOf, FailureKind, Reason, Change, DefinetelyFailedC
  <2>8. k \notin {"Aborted", "ManUnavailable"} => Storable(D.reason)
    BY DEF ReasonOf, FailureKind, Storable, DefinetelyFailedC
  <2>9. CreateC.kind = "Create"
    BY DEF CreateC
  <2>. HIDE DEF U, S, D
  <2>10. CASE n <= Max_failures(t)
    <3>1. Accept(t, m, {S} \cup U)
      BY <1>2, <2>10 DEF ReceiveFailure, FailureApplies, U, S
    <3>. QED
      BY <1>0, <2>1, <2>2, <2>5, <2>6, <2>9, <3>1, AcceptIInv
  <2>11. CASE n > Max_failures(t)
    <3>1. k \notin {"Aborted", "ManUnavailable"}
      BY <2>4, <2>11
    <3>2. Accept(t, m, {S, D} \cup U)
      BY <1>2, <2>1, <2>11, <3>1 DEF ReceiveFailure, FailureApplies, HasReason, U, S, D
    <3>. QED
      BY <1>0, <2>1, <2>2, <2>5, <2>6, <2>7, <2>8, <2>9, <3>1, <3>2, AcceptIInv
  <2>. QED
    BY <2>1, <2>10, <2>11
<1>3. ASSUME NEW t \in Task, NEW m \in Address, NEW offers \in Offers,
             ReceiveScheduling(t, m, offers)
      PROVE  IInv'
  <2>. DEFINE taken == Taken(t, offers)
              A == {AssignC(offers[i].worker, i) : i \in taken}
  <2>1. Accept(t, m, A) /\ Listening /\ Incomplete(t)
    BY <1>3 DEF ReceiveScheduling, SchedulingApplies
  <2>2. \A c \in A : c \in Change /\ c.kind = "Assign"
    <3>1. ASSUME NEW i \in taken PROVE i \in Nat /\ offers[i].worker \in Worker
      <4>1. PICK n \in 0..MaxOffers : offers \in [1..n -> Offer]
        BY DEF Offers
      <4>. QED
        BY <4>1 DEF Offer, Taken
    <3>. QED
      BY <3>1 DEF Change, AssignC
  <2>3. CreateC.kind = "Create"
    BY DEF CreateC
  <2>. HIDE DEF A
  <2>. QED
    BY <1>0, <2>1, <2>2, <2>3, AcceptIInv
<1>4. ASSUME NEW t \in Task, NEW m \in Address, NEW w \in Worker,
             ReceiveChecked(t, m, w)
      PROVE  IInv'
  <2>1. /\ CheckedC(w) \in Change /\ CheckedC(w).kind = "Checked"
        /\ CheckedC(w).worker = w /\ CheckedC(w) # CreateC
    BY DEF Change, CheckedC, CreateC
  <2>2. Incomplete(t) /\ w \in Workers(t) /\ Accept(t, m, {CheckedC(w)}) /\ Listening
    BY <1>0, <1>4 DEF ReceiveChecked, ApplicableOK, Workers
  <2>. QED
    BY <1>0, <2>1, <2>2, AcceptIInv
<1>5. ASSUME NEW t \in Task, NEW m \in Address, NEW w \in Worker,
             NEW idMan \in InnerId, NEW idStatus \in InnerId,
             NEW r \in {"empty", "data"}, ReceiveCompleted(t, m, w, idMan, idStatus, r)
      PROVE  IInv'
  <2>1. CompleteC(r) \in Change /\ CompleteC(r).kind = "Complete" /\ CompleteC(r) # CreateC
    BY DEF Change, CompleteC, CreateC
  <2>. QED
    BY <1>0, <1>5, <2>1, AcceptIInv DEF ReceiveCompleted, CompletedApplies
<1>. QED
  BY <1>1, <1>2, <1>3, <1>4, <1>5 DEF Receive

(* All changes but Create are applied to an incomplete task, and Create to  *)
(* one the shared state does not know.                                      *)
LEMMA AppliedToIncomplete ==
    ASSUME IInv, NEW c, Applying(c, c.kind)
    PROVE  /\ c.kind = "Create" => /\ completeness[cur] = "Unknown"
                                   /\ todo = {CreateC, AddManagerC}
           /\ c.kind # "Create" => Incomplete(cur) /\ CreateC \notin todo
<1>1. c \in todo /\ c \in Change /\ First(c) /\ phase = "apply"
  BY ApplyingTask DEF IInv
<1>2. ApplicableOK
  BY DEF IInv, ListsApplicable
<1>3. CreateC.rank = 0 /\ CreateC.kind = "Create"
  BY DEF CreateC
<1>4. AddManagerC.rank = 4
  BY DEF AddManagerC
<1>5. ASSUME CreateC \in todo PROVE c = CreateC
  <2>1. c.rank <= 0 /\ c.rank \in 0..7
    BY <1>1, <1>3, <1>5, ChangeShape DEF First
  <2>. QED
    BY <1>1, <2>1, ChangeShape
<1>6. c.kind = "Create" => c = CreateC
  BY <1>1, ChangeShape
<1>. QED
  BY <1>1, <1>2, <1>3, <1>5, <1>6 DEF ApplicableOK

(* Taking a change off the list keeps what is said of the others. *)
LEMMA DoneIInv ==
    ASSUME IInv, TypeInv', NEW c, Applying(c, c.kind), Done(c), ~IsVerdict(c),
           completeness'[cur] = "Incomplete",
           \A d \in todo' : d.kind \in {"Checked", "Unassign"} =>
              d.worker \in Workers(cur)',
           \A t \in Task : Filled(t)' # {} => Incomplete(t)',
           ReplicasOnDistinctWorkers', FailureBudget'
    PROVE  IInv'
<1>1. ReasonsStorable'
  BY DEF IInv, ListsApplicable, ReasonsStorable, Done
<1>2. CreateC \notin todo'
  <2>1. c.kind = "Create" => c = CreateC
    BY ApplyingTask, ChangeShape DEF IInv
  <2>2. CreateC \in todo => c.kind = "Create"
    BY AppliedToIncomplete
  <2>. QED
    BY <2>1, <2>2 DEF Done
<1>3. \A d, e \in todo' : d.kind = "Unassign" /\ e.kind = "Unassign"
                            /\ d.worker = e.worker => d = e
  BY DEF IInv, ListsApplicable, ApplicableOK, Done
<1>4. cur' = cur
  BY DEF Done
<1>5. Incomplete(cur)'
  BY <1>4 DEF Incomplete
<1>6. ApplicableOK'
  BY <1>2, <1>3, <1>4, <1>5 DEF ApplicableOK
<1>7. OnlyForeseenPanics'
  BY DEF IInv, OnlyForeseenPanics, Done
<1>8. ListOK' /\ PhaseOK'
  BY DEF TypeInv
<1>. QED
  BY <1>1, <1>6, <1>7, <1>8 DEF IInv, ListsApplicable

(* Nothing but panic changes when the process dies. *)
LEMMA DieIInv ==
    ASSUME IInv, NEW why \in {"assign", "chain"}, Die(why)
    PROVE  IInv'
<1>1. TypeInv'
  BY DieTypeInv DEF IInv
<1>2. /\ panic' \in {"none", "assign", "chain"}
      /\ UNCHANGED <<completeness, substates, nb_failures, payment_infos, cur, todo,
                     phase>>
  BY DEF Die, local, handler
<1>. QED
  BY <1>1, <1>2, FrameIInv

LEMMA ApplyIInv == IInv /\ Apply => IInv'
<1>. SUFFICES ASSUME IInv, NEW c \in todo,
                     \/ ApplyCreate(c) \/ ApplyChecked(c) \/ ApplyUnassign(c)
                     \/ ApplyAssign(c) \/ ApplyAddManager(c) \/ ApplySetNbFailures(c)
                     \/ ApplyComplete(c) \/ ApplyDefinetelyFailed(c)
              PROVE  IInv'
  BY DEF Apply
<1>0. /\ TypeInv' /\ TypeOK /\ ListOK /\ ApplicableOK
      /\ ReplicasOnDistinctWorkers /\ FailureBudget
  BY ApplyTypeInv DEF Apply, IInv, TypeInv, ListsApplicable
<1>01. Applying(c, c.kind) /\ cur \in Task /\ c \in Change /\ First(c) /\ phase = "apply"
  <2>1. Applying(c, c.kind)
    BY DEF ApplyCreate, ApplyChecked, ApplyUnassign, ApplyAssign, ApplyAddManager,
           ApplySetNbFailures, ApplyComplete, ApplyDefinetelyFailed, Applying
  <2>. QED
    BY <2>1, ApplyingTask DEF IInv
<1>02. \A d \in todo : d.kind \in {"Checked", "Unassign"} => d.worker \in Workers(cur)
  BY <1>0 DEF ApplicableOK
<1>1. CASE ApplyCreate(c)
  <2>1. c.kind = "Create" /\ Done(c)
    BY <1>1 DEF ApplyCreate, Applying
  <2>2. todo' \subseteq {AddManagerC} /\ AddManagerC.kind = "AddManager"
    BY <1>01, <2>1, AppliedToIncomplete, ChangeShape DEF Done, AddManagerC
  <2>3. /\ completeness' = [completeness EXCEPT ![cur] = "Incomplete"]
        /\ substates' = [substates EXCEPT ![cur] = Empty(cur)]
        /\ nb_failures' = [nb_failures EXCEPT ![cur] = 0]
        /\ payment_infos' = payment_infos /\ cur' = cur
    BY <1>1 DEF ApplyCreate, Done
  <2>4. /\ completeness'[cur] = "Incomplete"
        /\ \A t \in Task \ {cur} : completeness'[t] = completeness[t]
        /\ nb_failures'[cur] = 0
        /\ \A t \in Task \ {cur} : nb_failures'[t] = nb_failures[t]
        /\ substates'[cur] = Empty(cur)
        /\ \A t \in Task \ {cur} : substates'[t] = substates[t]
    BY <1>0, <1>01, <2>3 DEF TypeOK
  <2>5. Filled(cur)' = {} /\ \A t \in Task \ {cur} : Filled(t)' = Filled(t)
    BY <2>4, <2>3 DEF Filled, Slots, Empty
  <2>6. \A t \in Task : Filled(t)' # {} => Incomplete(t)'
    BY <1>0, <2>4, <2>5 DEF ApplicableOK, Incomplete
  <2>7. ReplicasOnDistinctWorkers'
    BY <1>0, <2>3, <2>4, <2>5 DEF ReplicasOnDistinctWorkers
  <2>8. FailureBudget'
    <3>1. ASSUME NEW t \in Task, Incomplete(t)', nb_failures'[t] > Max_failures(t)
          PROVE  FALSE
      <4>1. CASE t = cur
        BY <2>4, <3>1, <4>1, TaskConstants
      <4>2. CASE t # cur
        BY <1>0, <2>4, <3>1, <4>2 DEF FailureBudget, Incomplete
      <4>. QED
        BY <4>1, <4>2
    <3>. QED
      BY <3>1 DEF FailureBudget, Max_failures
  <2>. QED
    BY <1>0, <1>01, <2>1, <2>2, <2>4, <2>6, <2>7, <2>8, DoneIInv DEF IsVerdict
<1>2. CASE ApplyChecked(c)
  <2>1. c.kind = "Checked"
    BY <1>2 DEF ApplyChecked, Applying
  <2>2. Incomplete(cur) /\ c.worker \in Workers(cur)
    BY <1>01, <1>02, <2>1, AppliedToIncomplete
  <2>3. /\ UNCHANGED <<completeness, substates, nb_failures, payment_infos>>
        /\ Done(c) /\ cur' = cur
    BY <1>2, <2>2 DEF ApplyChecked, Done
  <2>4. \A t \in Task : Filled(t)' = Filled(t) /\ Workers(t)' = Workers(t)
                        /\ Incomplete(t)' = Incomplete(t)
    BY <2>3 DEF Filled, Workers, Slots, Incomplete
  <2>5. Workers(cur)' = Workers(cur)
    BY <2>3 DEF Filled, Workers, Slots
  <2>6. ReplicasOnDistinctWorkers'
    BY <1>0, <2>3, <2>4 DEF ReplicasOnDistinctWorkers
  <2>7. FailureBudget'
    BY <1>0, <2>1, <2>3, <2>4 DEF FailureBudget, Max_failures, Done
  <2>8. \A t \in Task : Filled(t)' # {} => Incomplete(t)'
    BY <1>0, <2>4 DEF ApplicableOK
  <2>9. todo' \subseteq todo /\ completeness'[cur] = "Incomplete"
    BY <2>2, <2>3 DEF Done, Incomplete
  <2>. QED
    BY <1>0, <1>01, <1>02, <2>1, <2>3, <2>5, <2>6, <2>7, <2>8, <2>9, DoneIInv DEF IsVerdict
<1>3. CASE ApplyUnassign(c)
  <2>1. c.kind = "Unassign"
    BY <1>3 DEF ApplyUnassign, Applying
  <2>2. Incomplete(cur) /\ c.worker \in Workers(cur)
    BY <1>01, <1>02, <2>1, AppliedToIncomplete
  <2>3. /\ UNCHANGED <<completeness, nb_failures, payment_infos>>
        /\ Done(c) /\ cur' = cur
    BY <1>3, <2>2 DEF ApplyUnassign, Done
  <2>4. PICK s \in Filled(cur) : /\ substates[cur][s] = c.worker
                                 /\ substates' = [substates EXCEPT ![cur][s] = Nobody]
    BY <1>3, <2>2 DEF ApplyUnassign
  <2>5. /\ \A t \in Task \ {cur} : substates'[t] = substates[t]
        /\ substates'[cur] = [substates[cur] EXCEPT ![s] = Nobody]
        /\ substates[cur] \in [Slots(cur) -> Worker \cup {Nobody}]
        /\ s \in Slots(cur)
    BY <1>0, <1>01, <2>4 DEF TypeOK, Filled
  <2>6. /\ \A t \in Task \ {cur} : Filled(t)' = Filled(t)
        /\ Filled(cur)' = Filled(cur) \ {s}
        /\ \A r \in Filled(cur)' : substates'[cur][r] = substates[cur][r]
    BY <2>3, <2>5 DEF Filled, Slots
  <2>7. ReplicasOnDistinctWorkers'
    <3>1. \A t \in Task : Filled(t)' \subseteq Filled(t)
             /\ \A r \in Filled(t)' : substates'[t][r] = substates[t][r]
      BY <2>3, <2>5, <2>6
    <3>. QED
      BY <1>0, <2>3, <3>1 DEF ReplicasOnDistinctWorkers
  <2>8. \A d \in todo' : d.kind \in {"Checked", "Unassign"} => d.worker \in Workers(cur)'
    <3>1. ASSUME NEW d \in todo', d.kind \in {"Checked", "Unassign"}
          PROVE  d.worker \in Workers(cur)'
      <4>1. d \in todo /\ d # c /\ d \in Change
        BY <1>0, <2>3 DEF Done, TypeOK
      <4>2. c.rank = 2 /\ c.rank <= d.rank /\ d.rank \in 0..7
        BY <1>01, <2>1, <4>1, ChangeShape DEF First
      <4>3. d.kind = "Unassign"
        BY <3>1, <4>1, <4>2, ChangeShape
      <4>4. d.worker # c.worker
        BY <1>0, <2>1, <4>1, <4>3 DEF ApplicableOK
      <4>5. PICK r \in Filled(cur) : substates[cur][r] = d.worker
        BY <1>02, <3>1, <4>1 DEF Workers
      <4>6. r # s
        BY <2>4, <4>4, <4>5
      <4>7. r \in Filled(cur)' /\ substates'[cur][r] = d.worker
        BY <2>6, <4>5, <4>6
      <4>. QED
        BY <2>3, <4>7 DEF Workers
    <3>. QED
      BY <3>1
  <2>9. FailureBudget'
    <3>1. \A t \in Task : Incomplete(t)' = Incomplete(t)
      BY <2>3 DEF Incomplete
    <3>. QED
      BY <1>0, <2>1, <2>3, <3>1 DEF FailureBudget, Max_failures, Done
  <2>10. \A t \in Task : Filled(t)' # {} => Incomplete(t)'
    BY <1>0, <2>3, <2>6 DEF ApplicableOK, Incomplete
  <2>11. completeness'[cur] = "Incomplete"
    BY <2>2, <2>3 DEF Incomplete
  <2>. QED
    BY <1>0, <1>01, <2>1, <2>3, <2>7, <2>8, <2>9, <2>10, <2>11, DoneIInv DEF IsVerdict
<1>4. CASE ApplyAssign(c)
  <2>1. c.kind = "Assign" /\ c.worker \in Worker
    BY <1>01, <1>4, ChangeShape DEF ApplyAssign, Applying
  <2>2. Incomplete(cur)
    BY <1>01, <2>1, AppliedToIncomplete
  <2>3. CASE Assignable(cur, c.worker)
    <3>1. /\ UNCHANGED <<completeness, nb_failures, payment_infos>>
          /\ Done(c) /\ cur' = cur
      BY <1>4, <2>2, <2>3 DEF ApplyAssign, Done
    <3>2. PICK s \in Slots(cur) \ Filled(cur) :
             substates' = [substates EXCEPT ![cur][s] = c.worker]
      BY <1>4, <2>2, <2>3 DEF ApplyAssign
    <3>3. /\ \A t \in Task \ {cur} : substates'[t] = substates[t]
          /\ substates'[cur] = [substates[cur] EXCEPT ![s] = c.worker]
          /\ substates[cur] \in [Slots(cur) -> Worker \cup {Nobody}]
          /\ c.worker # Nobody
      BY <1>0, <1>01, <2>1, <3>2, ParametersAssumption DEF TypeOK
    <3>4. /\ \A t \in Task \ {cur} : Filled(t)' = Filled(t)
          /\ Filled(cur)' = Filled(cur) \cup {s}
          /\ \A r \in Filled(cur) : substates'[cur][r] = substates[cur][r]
          /\ substates'[cur][s] = c.worker
      <4>1. s \in Slots(cur) /\ s \notin Filled(cur)
        BY <3>2
      <4>2. substates'[cur][s] = c.worker
        BY <3>3, <4>1
      <4>3. \A r \in Slots(cur) : r # s => substates'[cur][r] = substates[cur][r]
        BY <3>3, <4>1
      <4>4. \A t \in Task \ {cur} : Filled(t)' = Filled(t)
        BY <3>3 DEF Filled, Slots
      <4>5. \A r : r \in Filled(cur)' <=> r \in Slots(cur) /\ substates'[cur][r] # Nobody
        BY <3>1 DEF Filled, Slots
      <4>6. \A r : r \in Filled(cur) <=> r \in Slots(cur) /\ substates[cur][r] # Nobody
        BY DEF Filled
      <4>7. \A r : r \in Filled(cur)' <=> r \in Filled(cur) \cup {s}
        BY <3>3, <4>1, <4>2, <4>3, <4>5, <4>6
      <4>. QED
        BY <4>1, <4>2, <4>3, <4>4, <4>6, <4>7
    <3>5. \A r \in Filled(cur) : substates[cur][r] # c.worker
      BY <2>3 DEF Workers, Assignable
    <3>6. ReplicasOnDistinctWorkers'
      <4>1. ASSUME NEW t \in Task, NEW r \in Filled(t)', NEW q \in Filled(t)',
                   substates'[t][r] = substates'[t][q]
            PROVE  r = q
        <5>1. CASE t = cur
          BY <1>0, <3>1, <3>4, <3>5, <4>1, <5>1 DEF ReplicasOnDistinctWorkers
        <5>2. CASE t # cur
          BY <1>0, <3>1, <3>3, <3>4, <4>1, <5>2 DEF ReplicasOnDistinctWorkers
        <5>. QED
          BY <5>1, <5>2
      <4>. QED
        BY <1>0, <3>1, <4>1 DEF ReplicasOnDistinctWorkers
    <3>7. \A w \in Workers(cur) : w \in Workers(cur)'
      BY <3>1, <3>4 DEF Workers
    <3>8. FailureBudget'
      <4>1. \A t \in Task : Incomplete(t)' = Incomplete(t)
        BY <3>1 DEF Incomplete
      <4>. QED
        BY <1>0, <2>1, <3>1, <4>1 DEF FailureBudget, Max_failures, Done
    <3>9. \A t \in Task : Filled(t)' # {} => Incomplete(t)'
      BY <1>0, <2>2, <3>1, <3>4 DEF ApplicableOK, Incomplete
    <3>10. completeness'[cur] = "Incomplete" /\ todo' \subseteq todo
      BY <2>2, <3>1 DEF Incomplete, Done
    <3>. QED
      BY <1>0, <1>01, <1>02, <2>1, <3>1, <3>6, <3>7, <3>8, <3>9, <3>10, DoneIInv
      DEF IsVerdict
  <2>4. CASE ~Assignable(cur, c.worker)
    <3>1. Die("assign")
      BY <1>4, <2>2, <2>4 DEF ApplyAssign, Refuse
    <3>. QED
      BY <3>1, DieIInv
  <2>. QED
    BY <2>3, <2>4
<1>5. CASE ApplyAddManager(c) \/ ApplySetNbFailures(c)
  <2>1. c.kind \in {"AddManager", "SetNbFailures"}
    BY <1>5 DEF ApplyAddManager, ApplySetNbFailures, Applying
  <2>2. Incomplete(cur)
    BY <1>01, <2>1, AppliedToIncomplete
  <2>3. /\ UNCHANGED <<completeness, substates, payment_infos>>
        /\ Done(c) /\ cur' = cur
    BY <1>5, <2>2 DEF ApplyAddManager, ApplySetNbFailures, Done
  <2>4. \A t \in Task : Filled(t)' = Filled(t) /\ Workers(t)' = Workers(t)
                        /\ Incomplete(t)' = Incomplete(t)
    BY <2>3 DEF Filled, Workers, Slots, Incomplete
  <2>5. Workers(cur)' = Workers(cur)
    BY <2>3 DEF Filled, Workers, Slots
  <2>6. ReplicasOnDistinctWorkers'
    BY <1>0, <2>3, <2>4 DEF ReplicasOnDistinctWorkers
  <2>7. FailureBudget'
    <3>1. CASE ApplyAddManager(c)
      <4>1. nb_failures' = nb_failures /\ c.kind = "AddManager"
        BY <2>2, <3>1 DEF ApplyAddManager, Applying
      <4>. QED
        BY <1>0, <2>3, <2>4, <4>1 DEF FailureBudget, Max_failures, Done
    <3>2. CASE ApplySetNbFailures(c)
      <4>1. nb_failures' = [nb_failures EXCEPT ![cur] = c.nb] /\ c.kind = "SetNbFailures"
        BY <2>2, <3>2 DEF ApplySetNbFailures, Applying
      <4>2. ASSUME NEW t \in Task, Incomplete(t)', nb_failures'[t] > Max_failures(t)
            PROVE  cur = t /\ \E d \in todo' : d.kind = "DefinetelyFailed"
        <5>1. CASE t = cur
          <6>1. c.nb > Max_failures(cur)
            BY <1>0, <1>01, <4>1, <4>2, <5>1 DEF TypeOK
          <6>2. PICK d \in todo : d.kind = "DefinetelyFailed"
            BY <1>0, <1>01, <4>1, <6>1 DEF ListOK, First
          <6>. QED
            BY <2>3, <4>1, <5>1, <6>2 DEF Done
        <5>2. CASE t # cur
          <6>1. nb_failures[t] > Max_failures(t) /\ Incomplete(t)
            BY <1>0, <1>01, <2>4, <4>1, <4>2, <5>2 DEF TypeOK
          <6>. QED
            BY <1>0, <5>2, <6>1 DEF FailureBudget
        <5>. QED
          BY <5>1, <5>2
      <4>. QED
        BY <2>3, <4>2 DEF FailureBudget, Max_failures
    <3>. QED
      BY <1>5, <3>1, <3>2
  <2>8. \A t \in Task : Filled(t)' # {} => Incomplete(t)'
    BY <1>0, <2>4 DEF ApplicableOK
  <2>9. todo' \subseteq todo /\ completeness'[cur] = "Incomplete"
    BY <2>2, <2>3 DEF Done, Incomplete
  <2>. QED
    BY <1>0, <1>01, <1>02, <2>1, <2>3, <2>5, <2>6, <2>7, <2>8, <2>9, DoneIInv DEF IsVerdict
<1>6. ASSUME NEW verdict \in Final, NEW infos, IsVerdict(c), Settle(verdict, infos),
             DOMAIN infos = {} \/ infos = [s \in Filled(cur) |-> substates[cur][s]]
      PROVE  IInv'
  <2>1. Incomplete(cur) /\ todo = {c}
    BY <1>0, <1>01, <1>6, AppliedToIncomplete, VerdictComesLast DEF IsVerdict, TypeOK
  <2>2. /\ completeness' = [completeness EXCEPT ![cur] = verdict]
        /\ payment_infos' = [payment_infos EXCEPT ![cur] = infos]
        /\ substates' = [substates EXCEPT ![cur] = Empty(cur)]
        /\ phase' = "managers"
        /\ UNCHANGED <<nb_failures, todo, cur, panic>>
    BY <1>6, <2>1 DEF Settle
  <2>3. /\ completeness'[cur] = verdict
        /\ \A t \in Task \ {cur} : completeness'[t] = completeness[t]
        /\ substates'[cur] = Empty(cur)
        /\ \A t \in Task \ {cur} : substates'[t] = substates[t]
    BY <1>0, <1>01, <2>2 DEF TypeOK
  <2>4. verdict \notin {"Incomplete", "Unknown"}
    BY DEF Final, Reason
  <2>5. Filled(cur)' = {} /\ \A t \in Task \ {cur} : Filled(t)' = Filled(t)
    BY <2>2, <2>3 DEF Filled, Slots, Empty
  <2>6. \A t \in Task : Filled(t)' # {} => Incomplete(t)'
    BY <1>0, <2>2, <2>3, <2>5 DEF ApplicableOK, Incomplete
  <2>7. ApplicableOK'
    BY <1>6, <2>1, <2>2, <2>6 DEF ApplicableOK, IsVerdict
  <2>8. ReplicasOnDistinctWorkers'
    <3>1. \A r, s \in DOMAIN infos : infos[r] = infos[s] => r = s
      BY <1>0, <1>01, <1>6 DEF ReplicasOnDistinctWorkers
    <3>2. \A t \in Task : payment_infos'[t] = infos \/ payment_infos'[t] = payment_infos[t]
      BY <2>2, <1>01 DEF TypeOK
    <3>3. \A t \in Task : \A r, s \in Filled(t)' :
             substates'[t][r] = substates'[t][s] => r = s
      BY <1>0, <2>2, <2>3, <2>5 DEF ReplicasOnDistinctWorkers
    <3>4. \A t \in Task : \A r, s \in DOMAIN payment_infos'[t] :
             payment_infos'[t][r] = payment_infos'[t][s] => r = s
      BY <1>0, <3>1, <3>2 DEF ReplicasOnDistinctWorkers
    <3>. QED
      BY <3>3, <3>4 DEF ReplicasOnDistinctWorkers
  <2>9. FailureBudget'
    <3>1. \A t \in Task : Incomplete(t)' => t # cur /\ Incomplete(t)
      BY <2>3, <2>4 DEF Incomplete
    <3>. QED
      BY <1>0, <2>2, <3>1 DEF FailureBudget, Max_failures
  <2>10. ReasonsStorable' /\ OnlyForeseenPanics'
    BY <2>2 DEF IInv, ListsApplicable, ReasonsStorable, OnlyForeseenPanics
  <2>11. ListOK' /\ PhaseOK'
    BY <1>0 DEF TypeInv
  <2>. QED
    BY <1>0, <2>7, <2>8, <2>9, <2>10, <2>11 DEF IInv, ListsApplicable
<1>7. CASE ApplyComplete(c)
  BY <1>6, <1>7 DEF ApplyComplete, Applying, IsVerdict, Final
<1>8. CASE ApplyDefinetelyFailed(c)
  <2>1. c.reason \in Final /\ IsVerdict(c) /\ Settle(c.reason, <<>>)
    BY <1>01, <1>8, ChangeShape DEF ApplyDefinetelyFailed, Final, Applying, IsVerdict
  <2>2. DOMAIN <<>> = {}
    OBVIOUS
  <2>. QED
    BY <1>6, <2>1, <2>2
<1>. QED
  BY <1>1, <1>2, <1>3, <1>4, <1>5, <1>7, <1>8

(* Once no verdict is left to decide, the list only shrinks. *)
LEMMA SettledIInv ==
    ASSUME IInv, TypeInv',
           UNCHANGED <<completeness, substates, nb_failures, payment_infos>>,
           panic' = panic \/ panic' \in {"none", "chain"},
           todo' \subseteq todo,
           \A c \in todo' : IsVerdict(c),
           phase' = "apply" => todo' = {},
           \A t \in Task : Incomplete(t) => ~(nb_failures[t] > Max_failures(t))
    PROVE  IInv'
<1>1. \A t \in Task : Filled(t)' = Filled(t) /\ Incomplete(t)' = Incomplete(t)
  BY DEF Filled, Slots, Incomplete
<1>2. ReasonsStorable' /\ OnlyForeseenPanics'
  BY DEF IInv, ListsApplicable, ReasonsStorable, OnlyForeseenPanics
<1>3. ApplicableOK'
  BY <1>1 DEF IInv, ListsApplicable, ApplicableOK, IsVerdict
<1>4. ReplicasOnDistinctWorkers'
  BY <1>1 DEF IInv, ReplicasOnDistinctWorkers
<1>5. FailureBudget'
  BY <1>1 DEF FailureBudget, Max_failures
<1>. QED
  BY <1>2, <1>3, <1>4, <1>5 DEF IInv, TypeInv, ListsApplicable

LEMMA CommitIInv == IInv /\ (Commit \/ Release) => IInv'
<1>. SUFFICES ASSUME IInv, Commit \/ Release PROVE IInv'
  OBVIOUS
<1>0. TypeInv /\ TypeInv' /\ TypeOK /\ PhaseOK /\ FailureBudget /\ OnlyForeseenPanics
  BY CommitTypeInv DEF IInv, TypeInv
<1>1. CASE PushManager
  <2>1. /\ UNCHANGED <<completeness, substates, nb_failures, payment_infos, cur, todo,
                       phase>>
        /\ panic' \in {"none", "chain"}
    BY <1>1 DEF PushManager, local, Answers
  <2>. QED
    BY <1>0, <2>1, FrameIInv
<1>2. CASE ManagersSet
  <2>1. /\ UNCHANGED <<completeness, substates, nb_failures, payment_infos, panic, todo>>
        /\ phase = "managers" /\ phase' = "commit"
    BY <1>2 DEF ManagersSet, Committing, local
  <2>2. completeness[cur] \in Final /\ \A c \in todo : IsVerdict(c)
    BY <1>0, <2>1 DEF PhaseOK
  <2>3. \A t \in Task : Incomplete(t) => t # cur
    BY <2>2 DEF Incomplete, Final, Reason
  <2>4. \A t \in Task : Incomplete(t) => ~(nb_failures[t] > Max_failures(t))
    BY <1>0, <2>3 DEF FailureBudget
  <2>. QED
    BY <1>0, <2>1, <2>2, <2>4, SettledIInv
<1>3. CASE ChainError
  BY <1>3, DieIInv DEF ChainError
<1>4. ASSUME NEW c \in todo, CommitVerdict(c) PROVE IInv'
  <2>1. /\ UNCHANGED <<completeness, substates, nb_failures, payment_infos>>
        /\ phase = "commit" /\ todo' = todo \ {c} /\ panic' \in {"none", "chain"}
    BY <1>4 DEF CommitVerdict, Committing, local, Answers
  <2>2. completeness[cur] \in Final /\ todo' = {}
    BY <1>0, <2>1 DEF PhaseOK
  <2>3. \A t \in Task : Incomplete(t) => t # cur
    BY <2>2 DEF Incomplete, Final, Reason
  <2>4. \A t \in Task : Incomplete(t) => ~(nb_failures[t] > Max_failures(t))
    BY <1>0, <2>3 DEF FailureBudget
  <2>. QED
    BY <1>0, <2>1, <2>2, <2>4, SettledIInv
<1>5. CASE Release
  <2>1. /\ UNCHANGED <<completeness, substates, nb_failures, payment_infos, panic, todo>>
        /\ todo = {}
    BY <1>5 DEF Release, local
  <2>2. \A t \in Task : Incomplete(t) => ~(nb_failures[t] > Max_failures(t))
    BY <1>0, <2>1 DEF FailureBudget
  <2>. QED
    BY <1>0, <2>1, <2>2, SettledIInv
<1>. QED
  BY <1>1, <1>2, <1>3, <1>4, <1>5 DEF Commit

LEMMA EnvironmentIInv ==
    IInv /\ ((\E j \in Job : LockJob(j)) \/ Restart
               \/ (\E t \in Task, w \in Worker : Elapse(t, w)))
      => IInv'
<1>. SUFFICES ASSUME IInv,
                     \/ \E j \in Job : LockJob(j)
                     \/ Restart
                     \/ \E t \in Task, w \in Worker : Elapse(t, w)
              PROVE  IInv'
  OBVIOUS
<1>0. TypeInv' /\ OnlyForeseenPanics
  BY EnvironmentTypeInv DEF IInv
<1>1. CASE \/ \E j \in Job : LockJob(j)
           \/ \E t \in Task, w \in Worker : Elapse(t, w)
  <2>1. UNCHANGED <<completeness, substates, nb_failures, payment_infos, cur, todo,
                    phase, panic>>
    BY <1>1 DEF LockJob, Elapse, local, handler
  <2>. QED
    BY <1>0, <2>1, FrameIInv DEF OnlyForeseenPanics
<1>2. CASE Restart
  <2>1. /\ completeness' = [t \in Task |-> "Unknown"]
        /\ substates' = [t \in Task |-> Empty(t)]
        /\ payment_infos' = [t \in Task |-> <<>>]
        /\ todo' = {} /\ phase' = "idle" /\ panic' = "none"
    BY <1>2 DEF Restart
  <2>2. \A t \in Task : Filled(t)' = {} /\ DOMAIN payment_infos'[t] = {} /\ ~Incomplete(t)'
    BY <2>1 DEF Filled, Slots, Empty, Incomplete
  <2>3. ReasonsStorable' /\ OnlyForeseenPanics'
    BY <2>1 DEF ReasonsStorable, OnlyForeseenPanics
  <2>4. ApplicableOK'
    BY <2>1, <2>2 DEF ApplicableOK
  <2>5. ReplicasOnDistinctWorkers' /\ FailureBudget'
    BY <2>2 DEF ReplicasOnDistinctWorkers, FailureBudget
  <2>. QED
    BY <1>0, <2>3, <2>4, <2>5 DEF IInv, TypeInv, ListsApplicable
<1>. QED
  BY <1>1, <1>2

LEMMA NextIInv == IInv /\ [Next]_vars => IInv'
<1>1. IInv /\ UNCHANGED vars => IInv'
  <2>. SUFFICES ASSUME IInv, UNCHANGED vars PROVE IInv'
    OBVIOUS
  <2>1. TypeInv'
    BY NextTypeInv DEF IInv
  <2>2. /\ UNCHANGED <<completeness, substates, nb_failures, payment_infos, cur, todo,
                       phase>>
        /\ panic' \in {"none", "assign", "chain"}
    BY DEF vars, local, handler, IInv, OnlyForeseenPanics
  <2>. QED
    BY <2>1, <2>2, FrameIInv
<1>. QED
  BY <1>1, ReceiveIInv, ApplyIInv, CommitIInv, EnvironmentIInv DEF Next, Handler

LEMMA Inductive == Spec => []IInv
  BY InitIInv, NextIInv, PTL DEF Spec

(* Whatever failures the managers report, a task that can still be          *)
(* scheduled has not used up its failures: handle_proposal_failure fails it *)
(* in the same critical section that counts the failure too many.           *)
THEOREM BudgetRespected == Spec => []FailureBudget
<1>1. IInv => FailureBudget
  BY DEF IInv
<1>. QED
  BY <1>1, Inductive, PTL

(* No worker ever holds two replicas of a task, and no worker is paid twice *)
(* for one, whatever the offers of the managers (Assigned, assign).         *)
THEOREM DistinctWorkers == Spec => []ReplicasOnDistinctWorkers
<1>1. IInv => ReplicasOnDistinctWorkers
  BY DEF IInv
<1>. QED
  BY <1>1, Inductive, PTL

(* The process dies only of a refused Assign or of the chain: every other   *)
(* unwrap of apply_state_change is covered by the check of a handler.       *)
THEOREM ForeseenPanics == Spec => []OnlyForeseenPanics
<1>1. IInv => OnlyForeseenPanics
  BY DEF IInv
<1>. QED
  BY <1>1, Inductive, PTL

(* The list a handler returns, sorted by to_cmp_int, stays applicable while *)
(* it is applied, and the contract can store the verdict it ends with.      *)
THEOREM ChangesApplicable == Spec => []ListsApplicable
<1>1. IInv => ListsApplicable
  BY DEF IInv
<1>. QED
  BY <1>1, Inductive, PTL
==============================================================================

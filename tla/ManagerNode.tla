----------------------------- MODULE ManagerNode -----------------------------
(***************************************************************************)
(* The oracle's node around the engine (balthalib/src/node/mod.rs): the    *)
(* table of its workers and their slots (workers.rs), the inner channel    *)
(* that carries proposals to the engine and the engine's events back, the  *)
(* scheduling tick and the events of the swarm.                            *)
(*                                                                         *)
(* The channel has one consumer, handle_event, which is busy while the     *)
(* engine handles a proposal. The swarm and the tick run between any two   *)
(* steps of it, except where they need the shared_state lock, which the    *)
(* engine holds until it is idle again. Events that change nothing here    *)
(* (Log, Pending) are left out of the channel.                             *)
(***************************************************************************)
EXTENDS SharedState, SequencesExt

CONSTANTS
    Me,             \* payment address of this node
    CpuCount,       \* slots of a worker
    ChannelSize,    \* bound: length of the inner channel
    ForeignFailure, \* failures other managers propose
    MaxTicks,       \* bound: scheduling ticks that propose something
    MaxJoins,       \* bound: workers announced, the same ones again included
    MaxExternal     \* bound: proposals of other managers

(* No task is a state of a slot, the tasks can be listed, and the bounds of *)
(* the engine are above every number of failures and offers the node sends. *)
ASSUME NodeAssumption ==
    /\ Me \in Address
    /\ CpuCount \in Nat \ {0}
    /\ ForeignFailure \subseteq FailureKind
    /\ ChannelSize \in Nat /\ MaxTicks \in Nat /\ MaxJoins \in Nat /\ MaxExternal \in Nat
    /\ IsFiniteSet(Task) /\ Task \cap {"Available", "Pending"} = {}
    /\ \A j \in Job : Redundancy[j] <= MaxOffers /\ MaxFailures[j] < MaxNb

VARIABLES
    workers,    \* Workers.workers, in order: worker and its assignments
    inner,      \* the inner channel
    running,    \* executions of a task on a worker, known to this node or not
    completed,  \* <<worker, task>> completed since the last time it was assigned
    dead,       \* the expectation of the node that failed: "none", "status", "task", "worker"
    ticks, joins, external

node == <<workers, inner, running, completed, dead, ticks, joins, external>>
nodevars == <<vars, node>>

Alive == panic = "none" /\ dead = "none"

------------------------------------------------------------------------------
(* The slots of a worker: WorkerAssignment *)

Slot == {"Available", "Pending"} \cup Task

Has(slots, v) == \E i \in DOMAIN slots : slots[i] = v

(* The first slot that is v becomes u. *)
SetFirst(slots, v, u) == [slots EXCEPT ![SelectInSeq(slots, LAMBDA s : s = v)] = u]

reserve_slot(slots) ==
    IF Has(slots, "Available") THEN SetFirst(slots, "Available", "Pending") ELSE slots

(* Pending slots first, then available ones *)
assign_slot(slots, t) ==
    IF Has(slots, "Pending") THEN SetFirst(slots, "Pending", t)
                             ELSE SetFirst(slots, "Available", t)

unassign_slot_Kept(slots, t) == IF Has(slots, t) THEN SetFirst(slots, t, t) ELSE slots

unassign_slot(slots, t) ==
    IF Has(slots, t) THEN SetFirst(slots, t, "Available") ELSE slots

unreserve_all(slots) == [i \in DOMAIN slots |->
                           IF slots[i] = "Pending" THEN "Available" ELSE slots[i]]

(* The elements of a sequence that are wanted, in their order *)
Those(seq, wanted) ==
    FoldLeft(LAMBDA some, x : IF x \in wanted THEN Append(some, x) ELSE some, <<>>, seq)

NewWorker(w) == [peer_id |-> w, slots |-> [i \in 1..CpuCount |-> "Available"]]
Position(w) == SelectInSeq(workers, LAMBDA x : x.peer_id = w)
IsKnown(w) == Position(w) # 0
SlotsOf(w) == workers[Position(w)].slots
Free(x) == Has(x.slots, "Available") \/ Has(x.slots, "Pending")

(* The table with the slots of one worker changed *)
Update(w, slots) == [workers EXCEPT ![Position(w)].slots = slots]

------------------------------------------------------------------------------
(* Messages of the inner channel *)

(* HashId::to_bytes, which the node writes in its offers and completions *)
OwnId(t) == [task |-> t, form |-> "multihash"]

NewTaskP(t, m) == [kind |-> "NewTask", task |-> t, from |-> m]
SchedulingP(t, m, offers) ==
    [kind |-> "Scheduling", task |-> t, from |-> m, offers |-> offers]
FailureP(t, m, w, k, nb) ==
    [kind |-> "Failure", task |-> t, from |-> m, worker |-> w, failure |-> k, nb |-> nb]
CheckedP(t, m, w) == [kind |-> "Checked", task |-> t, from |-> m, worker |-> w]
CompletedP(t, m, w, id) ==
    [kind |-> "Completed", task |-> t, from |-> m, worker |-> w, id |-> id]
AssignedE(t, w) == [kind |-> "Assigned", task |-> t, worker |-> w]
UnassignedE(t, w) == [kind |-> "Unassigned", task |-> t, worker |-> w]

IsProposal(e) == e.kind \notin {"Assigned", "Unassigned"}

(* send_abord_proposal: the failures counted now *)
AbortedP(t, w) == FailureP(t, Me, w, "Aborted", nb_failures[t])

Send(queue, msgs) ==
    /\ Len(queue) + Len(msgs) <= ChannelSize
    /\ inner' = queue \o msgs

------------------------------------------------------------------------------
NodeInit ==
    /\ Init
    /\ workers = <<>> /\ inner = <<>>
    /\ running = [w \in Worker |-> [t \in Task |-> 0]]
    /\ completed = {} /\ dead = "none"
    /\ ticks = 0 /\ joins = 0 /\ external = 0

(* The consumer of the channel: handle_event *)

Consuming(kinds) ==
    /\ Alive /\ phase = "idle"
    /\ inner # <<>> /\ Head(inner).kind \in kinds

Applies(p) ==
    CASE p.kind = "NewTask" -> ~Known(p.task) /\ chain_state[p.task] # "Unknown"
      [] p.kind = "Scheduling" -> SchedulingApplies(p.task, p.offers)
      [] p.kind = "Failure" ->
            FailureApplies(p.task, p.failure, p.worker, as_bytes(p.task), p.nb)
      [] p.kind = "Checked" -> p.worker \in Workers(p.task) /\ p.worker \in due[p.task]
      [] p.kind = "Completed" -> CompletedApplies(p.task, p.worker, p.id, p.id)

(* check_and_apply_proposal starts; a proposal it refuses is dropped. *)
ConsumeProposal ==
    /\ Consuming({"NewTask", "Scheduling", "Failure", "Checked", "Completed"})
    /\ inner' = Tail(inner)
    /\ LET p == Head(inner) IN
         \/ p.kind = "NewTask" /\ ReceiveNewTask(p.task, p.from)
         \/ p.kind = "Scheduling" /\ ReceiveScheduling(p.task, p.from, p.offers)
         \/ p.kind = "Failure"
              /\ ReceiveFailure(p.task, p.from, p.failure, p.worker, as_bytes(p.task), p.nb)
         \/ p.kind = "Checked" /\ ReceiveChecked(p.task, p.from, p.worker)
         \/ p.kind = "Completed"
              /\ ReceiveCompleted(p.task, p.from, p.worker, p.id, p.id, "data")
         \/ ~Applies(p) /\ UNCHANGED vars
    /\ UNCHANGED <<workers, running, completed, dead, ticks, joins, external>>

(* handle_shared_state_change, Assigned: the worker gets the task if it has *)
(* a slot left, otherwise the assignment is given back.                     *)
ConsumeAssigned_NoAbort ==
    /\ Consuming({"Assigned"})
    /\ LET t == Head(inner).task
           w == Head(inner).worker
       IN  IF IsKnown(w) /\ Free(workers[Position(w)])
           THEN /\ workers' = Update(w, assign_slot(SlotsOf(w), t))
                /\ running' = [running EXCEPT ![w][t] = @ + 1]
           ELSE UNCHANGED <<workers, running>>
    /\ inner' = Tail(inner)
    /\ completed' = completed \ {<<Head(inner).worker, Head(inner).task>>}
    /\ UNCHANGED <<vars, dead, ticks, joins, external>>

ConsumeAssigned ==
    /\ Consuming({"Assigned"})
    /\ LET t == Head(inner).task
           w == Head(inner).worker
       IN  IF ~Known(t) THEN dead' = "task" /\ UNCHANGED <<workers, inner, running, completed>>
           ELSE /\ dead' = dead
                /\ IF IsKnown(w) /\ Free(workers[Position(w)])
                   THEN /\ workers' = Update(w, assign_slot(SlotsOf(w), t))
                        /\ running' = [running EXCEPT ![w][t] = @ + 1]
                        /\ completed' = completed \ {<<w, t>>}
                        /\ inner' = Tail(inner)
                   ELSE /\ Send(Tail(inner), <<AbortedP(t, w)>>)
                        /\ UNCHANGED <<workers, running, completed>>
    /\ UNCHANGED <<vars, ticks, joins, external>>

(* handle_shared_state_change, Unassigned: the worker is not told. *)
ConsumeUnassigned ==
    /\ Consuming({"Unassigned"})
    /\ LET t == Head(inner).task
           w == Head(inner).worker
       IN  workers' = IF IsKnown(w) THEN Update(w, unassign_slot(SlotsOf(w), t)) ELSE workers
    /\ inner' = Tail(inner)
    /\ UNCHANGED <<vars, running, completed, dead, ticks, joins, external>>

(* The steps of check_and_apply_proposal, with the events it sends *)
Emitting(c) == phase = "apply" /\ First(c) /\ c.kind \in {"Assign", "Unassign"}

EventOf(c) == IF c.kind = "Assign" THEN AssignedE(cur, c.worker) ELSE UnassignedE(cur, c.worker)

EngineStep ==
    /\ Alive
    /\ Handler
    /\ IF panic' = "none" /\ \E c \in todo : Emitting(c)
       THEN \E c \in todo : Emitting(c) /\ Send(inner, <<EventOf(c)>>)
       ELSE UNCHANGED inner
    /\ UNCHANGED <<workers, running, completed, dead, ticks, joins, external>>

------------------------------------------------------------------------------
(* The tick: propose_assignements *)

(* get_unassigned_workers_sorted: workers with an available slot first *)
SortedWorkers(table) ==
    LET free == {x \in Range(table) : Free(x)}
        available == {x \in free : Has(x.slots, "Available")}
    IN  Those(table, available) \o Those(table, free \ available)

ToPropose == {t \in Task : Incomplete(t) /\ nb_unassigned(t) > 0}

Offered(table, t) ==
    LET sorted == SortedWorkers(table)
        taken == IF Len(sorted) < nb_unassigned(t) THEN Len(sorted) ELSE nb_unassigned(t)
    IN  [i \in 1..taken |-> sorted[i].peer_id]

Reserve(table, ws) ==
    [i \in DOMAIN table |->
       IF \E j \in DOMAIN ws : ws[j] = table[i].peer_id
       THEN [table[i] EXCEPT !.slots = reserve_slot(@)] ELSE table[i]]

(* One task of the tick: its workers are reserved and offered. *)
ProposeTask(acc, t) ==
    LET ws == Offered(acc.table, t) IN
    IF ws = <<>> THEN acc
    ELSE [table |-> Reserve(acc.table, ws),
          msgs |-> Append(acc.msgs, SchedulingP(t, Me,
                     [i \in DOMAIN ws |-> [id |-> OwnId(t), worker |-> ws[i]]]))]

Tick ==
    /\ Alive /\ phase = "idle"
    /\ ticks < MaxTicks /\ ticks' = ticks + 1
    /\ \E i \in DOMAIN workers : Free(workers[i])
    /\ \E order \in SetToSeqs(ToPropose) :
         LET start == [table |-> [i \in DOMAIN workers |->
                                    [workers[i] EXCEPT !.slots = unreserve_all(@)]],
                       msgs |-> <<>>]
             end == FoldLeft(ProposeTask, start, order)
         IN  workers' = end.table /\ Send(inner, end.msgs)
    /\ UNCHANGED <<vars, running, completed, dead, joins, external>>

------------------------------------------------------------------------------
(* Events of the swarm: handle_swarm_event *)

WorkerNew_Again(w) ==
    /\ Alive
    /\ joins < MaxJoins /\ joins' = joins + 1
    /\ workers' = Append(workers, NewWorker(w))
    /\ UNCHANGED <<vars, inner, running, completed, dead, ticks, external>>

(* Workers.push: a worker already in the table keeps its slots, one that    *)
(* comes back after it was gone gets new ones.                              *)
WorkerNew(w) ==
    /\ Alive
    /\ joins < MaxJoins /\ joins' = joins + 1
    /\ workers' = IF IsKnown(w) THEN workers ELSE Append(workers, NewWorker(w))
    /\ UNCHANGED <<vars, inner, running, completed, dead, ticks, external>>

(* delete_worker, on WorkerBye and WorkerTimedOut. The worker, who may only *)
(* have lost its connection, goes on with what it executes. A worker may be *)
(* gone before its WorkerNew, which is still to come: EventQueue.           *)
WorkerGone(w) ==
    /\ Alive
    /\ \/ /\ IsKnown(w) /\ phase = "idle"
          /\ LET assigned == Those(SlotsOf(w), Task) IN
               IF \A i \in DOMAIN assigned : Known(assigned[i])
               THEN /\ workers' = RemoveAt(workers, Position(w))
                    /\ Send(inner, [i \in DOMAIN assigned |-> AbortedP(assigned[i], w)])
                    /\ UNCHANGED dead
               ELSE dead' = "task" /\ UNCHANGED <<workers, inner>>
       \/ /\ ~IsKnown(w) /\ joins < MaxJoins
          /\ dead' = "worker" /\ UNCHANGED <<workers, inner>>
    /\ UNCHANGED <<vars, running, completed, ticks, joins, external>>

(* handle_task_status: an execution ends, and the worker reports it. *)
Ends(w, t) ==
    /\ Alive
    /\ running[w][t] > 0
    /\ running' = [running EXCEPT ![w][t] = @ - 1]

HasSlot(w, t) == IsKnown(w) /\ Has(SlotsOf(w), t)

(* unassign_slot finds no slot: the worker has left the table, or the task  *)
(* was taken back without telling it.                                       *)
NoSlot(w, t) ==
    /\ ~HasSlot(w, t)
    /\ dead' = "status"
    /\ UNCHANGED <<vars, workers, inner, completed, ticks, joins, external>>

StatusCompleted(w, t) ==
    /\ Ends(w, t)
    /\ \/ NoSlot(w, t)
       \/ /\ HasSlot(w, t)
          /\ workers' = Update(w, unassign_slot(SlotsOf(w), t))
          /\ Send(inner, <<CompletedP(t, Me, w, OwnId(t))>>)
          /\ completed' = completed \cup {<<w, t>>}
          /\ UNCHANGED <<vars, dead, ticks, joins, external>>

(* The failures are read, then counted one more (Download and Runtime are   *)
(* what handle_runner reports).                                             *)
StatusError(w, t, k) ==
    /\ Ends(w, t)
    /\ \/ NoSlot(w, t)
       \/ /\ HasSlot(w, t) /\ phase = "idle"
          /\ workers' = Update(w, unassign_slot(SlotsOf(w), t))
          /\ IF Known(t)
             THEN Send(inner, <<FailureP(t, Me, w, k, nb_failures[t] + 1)>>) /\ UNCHANGED dead
             ELSE dead' = "task" /\ UNCHANGED inner
          /\ UNCHANGED <<vars, completed, ticks, joins, external>>

(* The worker has no manager to tell, or is no longer its worker. *)
StatusLost(w, t) ==
    /\ Ends(w, t) /\ ~IsKnown(w)
    /\ UNCHANGED <<vars, workers, inner, completed, dead, ticks, joins, external>>

(* Proposals of other managers put in the channel *)
External(p) ==
    /\ Alive
    /\ external < MaxExternal /\ external' = external + 1
    /\ Send(inner, <<p>>)
    /\ UNCHANGED <<vars, workers, running, completed, dead, ticks, joins>>

------------------------------------------------------------------------------
OtherManager == Address \ {Me}

(* Offers the engine can accept, a worker offered twice included *)
OffersOf(t, ws) == [i \in DOMAIN ws |-> [id |-> as_bytes(t), worker |-> ws[i]]]

ExternalStep ==
    \E t \in Task, m \in OtherManager :
        \/ External(NewTaskP(t, m))
        \/ \E n \in 1..MaxOffers : \E ws \in [1..n -> Worker] :
              External(SchedulingP(t, m, OffersOf(t, ws)))
        \/ \E w \in Worker :
              \/ External(CheckedP(t, m, w))
              \/ External(CompletedP(t, m, w, as_bytes(t)))
              \/ \E k \in ForeignFailure, nb \in 0..MaxNb :
                    External(FailureP(t, m, w, k, nb))

Swarm ==
    \E w \in Worker :
        \/ WorkerNew(w) \/ WorkerGone(w)
        \/ \E t \in Task :
              \/ StatusCompleted(w, t) \/ StatusLost(w, t)
              \/ \E k \in {"Download", "Runtime"} : StatusError(w, t, k)

Consumer == ConsumeProposal \/ ConsumeAssigned \/ ConsumeUnassigned

NodeNext ==
    \/ \E j \in Job : Alive /\ LockJob(j) /\ UNCHANGED node
    \/ \E t \in Task, w \in Worker : Alive /\ Elapse(t, w) /\ UNCHANGED node
    \/ EngineStep \/ Consumer \/ Tick \/ Swarm \/ ExternalStep

NodeSpec == NodeInit /\ [][NodeNext]_nodevars

------------------------------------------------------------------------------
(* Properties *)

SlotCount(w, t) ==
    IF IsKnown(w) THEN Cardinality({i \in 1..CpuCount : SlotsOf(w)[i] = t}) ELSE 0

(* The slots of w that hold t once the events in the channel are handled,   *)
(* if the worker is known and has room                                      *)
Handled(n, e, w, t) ==
    CASE e = AssignedE(t, w) -> n + 1
      [] e = UnassignedE(t, w) /\ n > 0 -> n - 1
      [] OTHER -> n

Expected(w, t) == FoldLeft(LAMBDA n, e : Handled(n, e, w, t), SlotCount(w, t), inner)

(* The table has each worker once, with its slots, though workers leave and *)
(* come back; no task is ever unknown when a failure is reported for it, or *)
(* when it is assigned: dead is never "task".                               *)
NodeTypeOK ==
    /\ \A i, j \in DOMAIN workers :
          workers[i].peer_id = workers[j].peer_id => i = j
    /\ \A i \in DOMAIN workers :
          /\ workers[i].peer_id \in Worker
          /\ workers[i].slots \in [1..CpuCount -> Slot]
    /\ Len(inner) <= ChannelSize
    /\ dead \in {"none", "status", "worker"}

(* The table follows the engine: a slot that holds a task, or will once the *)
(* events in the channel are handled, is a replica of the engine, or one of *)
(* a completed task whose worker has not answered yet; and no worker gives  *)
(* two slots to one task, however ticks, departures and late statuses fall. *)
SlotsFollowReplicas ==
    \A w \in Worker, t \in Task :
        /\ Expected(w, t) <= 1
        /\ Expected(w, t) = 1 =>
              w \in Workers(t) \cup {payment_infos[t][s] : s \in DOMAIN payment_infos[t]}

FailureSent(w, t) ==
    \E i \in DOMAIN inner : /\ inner[i].kind = "Failure" /\ inner[i].from = Me
                            /\ inner[i].worker = w /\ inner[i].task = t

(* "Delete known worker and if it were assigned, announce it unassigned"    *)
(* (node/mod.rs:305): a replica of the engine is held by a slot, is about to *)
(* be, has been completed, or is about to be given back; none is left to a  *)
(* worker who will not execute it. Only where no failure was counted yet:   *)
(* the count that goes with a failure is read when it is sent (mod.rs:360,  *)
(* 685), and a failure with an old count is refused                         *)
(* (shared_state.rs:407-415), which leaves the replica.                     *)
Held(w, t) == Expected(w, t) = 1 \/ FailureSent(w, t) \/ <<w, t>> \in completed

NoReplicaForgotten ==
    Alive /\ phase = "idle" =>
        \A t \in Task : \A w \in Workers(t) : nb_failures[t] = 0 => Held(w, t)
==============================================================================

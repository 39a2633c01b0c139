----------------------------- MODULE SharedState -----------------------------
(***************************************************************************)
(* The oracle engine of a manager node: what check_and_apply_proposal does *)
(* with the proposals of the managers (balthalib/src/node/shared_state.rs) *)
(* on the shared state (balthamisc/src/shared_state.rs), and the           *)
(* transactions it sends to the Jobs contract when a task is settled.      *)
(*                                                                         *)
(* A handler holds the write lock of the shared state from its first line  *)
(* to its last, so at most one proposal is being handled, but it awaits    *)
(* the inner channel and the chain between two changes: every change of    *)
(* the state, and every transaction, is a step of its own here.            *)
(***************************************************************************)
EXTENDS Naturals, Sequences, FiniteSets

CONSTANTS
    Task,           \* tasks of the locked jobs
    Job,            \* jobs
    JobOf,          \* the job of each task, as Jobs.get_task answers
    Redundancy,     \* per job: replicas of a task
    MaxFailures,    \* per job: failures a task survives
    ManagerLimit,   \* per job: managers the contract lets register on a task
    Worker,         \* workers' PeerIds
    Address,        \* payment addresses of the proposing managers
    Nobody,         \* the empty slot of a replica
    NoTask,         \* no proposal is being handled
    ChainMayFail,   \* can a call to the Ethereum node return an error?
    MaxNb,          \* bound: largest new_nb_failures a proposal carries
    MaxOffers,      \* bound: offers in one ProposeScheduling
    MaxProposals,   \* bound: accepted proposals per task
    MaxRestarts     \* bound: times a dead oracle is started again

ASSUME ParametersAssumption ==
    /\ JobOf \in [Task -> Job]
    /\ Redundancy \in [Job -> Nat \ {0}]
    /\ MaxFailures \in [Job -> Nat]
    /\ ManagerLimit \in [Job -> Nat]
    /\ Nobody \notin Worker
    /\ NoTask \notin Task
    /\ ChainMayFail \in BOOLEAN
    /\ MaxNb \in Nat /\ MaxOffers \in Nat
    /\ MaxProposals \in Nat /\ MaxRestarts \in Nat

VARIABLES
    jobs,               \* SharedState.jobs: the jobs already fetched
    completeness,       \* Task.completeness; "Unknown": not in SharedState.tasks
    substates,          \* the replicas of an incomplete task
    due,                \* assigned workers last checked min_check_interval ago
    nb_failures,        \* Task.nb_failures
    managers_addresses, \* Task.managers_addresses
    payment_infos,      \* Completed.workers_payment_info: slot |-> worker
    cur, from, todo,    \* the proposal being handled: task, proposer, changes left
    phase, pushed,      \* position in the handler, managers already registered
    panic,              \* why the process died, "none" while it runs
    restarts,
    chain_state,        \* Jobs contract: state of each task
    chain_managers,     \* Jobs contract: managers_addresses of each task
    chain_paid,         \* Jobs contract: workers paid by set_completed
    mirror              \* what the emitted events tell their receiver

local  == <<jobs, completeness, substates, due, nb_failures, managers_addresses,
            payment_infos>>
handler == <<cur, from, todo, phase, pushed>>
chain  == <<chain_state, chain_managers, chain_paid>>
vars   == <<local, handler, panic, restarts, chain, mirror>>

------------------------------------------------------------------------------
(* Values *)

(* TaskDefiniteErrorKind *)
Reason == {"TimedOut", "Download", "Runtime", "IncorrectSpecification",
           "IncorrectResult", "Aborted"}
Final == {"Completed"} \cup Reason

(* Reasons the contract can store: convert_task_error_kind *)
Storable(r) == r # "Aborted"

(* The inner messages of a proposal name the task again, as bytes: either   *)
(* the whole multihash (HashId::to_bytes) or its digest (HashId::as_bytes). *)
InnerId == [task : Task, form : {"multihash", "digest"}]
as_bytes(t) == [task |-> t, form |-> "digest"]

(* The failures a proposal can report, with the reason each one carries.    *)
(* "Aborted" and "ManUnavailable" leave the number of failures alone.       *)
FailureKind == {"TimedOut", "Download", "Runtime", "Aborted", "ManUnavailable",
                "Results", "Specs"}
HasReason(k) == k # "ManUnavailable"
ReasonOf(k) == CASE k = "Results" -> "IncorrectResult"
                 [] k = "Specs"   -> "IncorrectSpecification"
                 [] OTHER         -> k
NamesWorker(k) == k \notin {"Results", "Specs"}

Slots(t) == 1..Redundancy[JobOf[t]]
Max_failures(t) == MaxFailures[JobOf[t]]
Filled(t) == {s \in Slots(t) : substates[t][s] # Nobody}
Workers(t) == {substates[t][s] : s \in Filled(t)}
Empty(t) == [s \in Slots(t) |-> Nobody]
nb_unassigned(t) == Cardinality(Slots(t) \ Filled(t))

(* TaskCompleteness::assign needs an empty slot and a worker who holds none. *)
(* Operators whose name has a suffix are mutants: no action uses them.       *)
Assignable_AnyWorker(t, w) == nb_unassigned(t) # 0
Assignable(t, w) == w \notin Workers(t) /\ nb_unassigned(t) # 0

Known(t) == completeness[t] # "Unknown"
Incomplete(t) == completeness[t] = "Incomplete"

------------------------------------------------------------------------------
(* StateChange: "rank" is to_cmp_int, "pos" the place in the list, so that  *)
(* the stable sort of the list is the order of <<rank, pos>>.               *)

CreateC          == [kind |-> "Create", rank |-> 0, pos |-> 0]
CheckedC(w)      == [kind |-> "Checked", rank |-> 1, pos |-> 0, worker |-> w]
UnassignC(w, p)  == [kind |-> "Unassign", rank |-> 2, pos |-> p, worker |-> w]
AssignC(w, p)    == [kind |-> "Assign", rank |-> 3, pos |-> p, worker |-> w]
AddManagerC      == [kind |-> "AddManager", rank |-> 4, pos |-> 0]
SetNbFailuresC_OneMore(n) == [kind |-> "SetNbFailures", rank |-> 5, pos |-> 0, nb |-> n + 1]
SetNbFailuresC(n) == [kind |-> "SetNbFailures", rank |-> 5, pos |-> 0, nb |-> n]
CompleteC(r)     == [kind |-> "Complete", rank |-> 6, pos |-> 0, result |-> r]
DefinetelyFailedC_BeforeUnassign(r) ==
    [kind |-> "DefinetelyFailed", rank |-> 1, pos |-> 0, reason |-> r]
DefinetelyFailedC(r) ==
    [kind |-> "DefinetelyFailed", rank |-> 7, pos |-> 0, reason |-> r]

(* The stable sort of the list: the change that is applied next *)
First(c) ==
    /\ c \in todo
    /\ \A d \in todo : c.rank < d.rank \/ (c.rank = d.rank /\ c.pos <= d.pos)

------------------------------------------------------------------------------
Init ==
    /\ jobs = {}
    /\ completeness = [t \in Task |-> "Unknown"]
    /\ substates = [t \in Task |-> Empty(t)]
    /\ due = [t \in Task |-> {}]
    /\ nb_failures = [t \in Task |-> 0]
    /\ managers_addresses = [t \in Task |-> <<>>]
    /\ payment_infos = [t \in Task |-> <<>>]
    /\ cur = NoTask /\ from \in Address /\ todo = {}
    /\ phase = "idle" /\ pushed = 0
    /\ panic = "none" /\ restarts = 0
    /\ chain_state = [t \in Task |-> "Unknown"]
    /\ chain_managers = [t \in Task |-> <<>>]
    /\ chain_paid = [t \in Task |-> <<>>]
    /\ mirror = [t \in Task |-> [workers |-> {}, pending |-> 0]]

(* The sender locks a job: its tasks exist on the contract from then on. *)
LockJob(j) ==
    /\ \E t \in Task : JobOf[t] = j
    /\ \A t \in Task : JobOf[t] = j => chain_state[t] = "Unknown"
    /\ chain_state' = [t \in Task |->
                         IF JobOf[t] = j THEN "Incomplete" ELSE chain_state[t]]
    /\ UNCHANGED <<local, handler, panic, restarts, chain_managers, chain_paid, mirror>>

------------------------------------------------------------------------------
(* check_and_apply_proposal: the proposal is accepted with the given list   *)
(* of changes, to which log_res adds AddManager. A rejected proposal        *)
(* changes nothing.                                                         *)

Listening == panic = "none" /\ phase = "idle"

Accept_Unpaid(t, m, changes) ==
    /\ Len(managers_addresses[t]) < MaxProposals
    /\ cur' = t /\ from' = m /\ phase' = "apply" /\ pushed' = 0
    /\ todo' = changes
    /\ UNCHANGED <<local, panic, restarts, chain, mirror>>

Accept(t, m, changes) ==
    /\ Len(managers_addresses[t]) < MaxProposals
    /\ cur' = t /\ from' = m /\ phase' = "apply" /\ pushed' = 0
    /\ todo' = changes \cup {AddManagerC}
    /\ UNCHANGED <<local, panic, restarts, chain, mirror>>

(* handle_proposal_new_task: the task and its job are read on the chain *)
ReceiveNewTask_Again(t, m) ==
    /\ Listening
    /\ chain_state[t] # "Unknown"
    /\ Accept(t, m, {CreateC})

ReceiveNewTask(t, m) ==
    /\ Listening
    /\ ~Known(t)
    /\ chain_state[t] # "Unknown"
    /\ Accept(t, m, {CreateC})

(* handle_proposal_failure, the checks of each failure kind *)
FailureAccepted_AnyNumber(t, k, w, id, n) ==
    k = "ManUnavailable" => id = as_bytes(t)

FailureAccepted(t, k, w, id, n) ==
    /\ k = "ManUnavailable" => id = as_bytes(t)
    /\ CASE k \in {"Aborted", "ManUnavailable"} -> n = nb_failures[t]
         [] k = "Specs" -> n > Max_failures(t)
         [] OTHER -> n = nb_failures[t] + 1

UnassignsAll(t, k) == ~NamesWorker(k) \/ nb_failures[t] >= Max_failures(t)

UnassignChanges(t, k, w) ==
    IF UnassignsAll(t, k)
    THEN {UnassignC(substates[t][s], s) : s \in Filled(t)}
    ELSE {UnassignC(w, 0)}

FailureApplies(t, k, w, id, n) ==
    /\ Known(t)
    /\ FailureAccepted(t, k, w, id, n)
    /\ IF UnassignsAll(t, k) THEN Incomplete(t) ELSE w \in Workers(t)

ReceiveFailure(t, m, k, w, id, n) ==
    /\ Listening
    /\ FailureApplies(t, k, w, id, n)
    /\ IF n <= Max_failures(t)
       THEN Accept(t, m, {SetNbFailuresC(n)} \cup UnassignChanges(t, k, w))
       ELSE IF HasReason(k)
       THEN Accept(t, m, {SetNbFailuresC(n), DefinetelyFailedC(ReasonOf(k))}
                           \cup UnassignChanges(t, k, w))
       ELSE /\ panic' = "reason"
            /\ UNCHANGED <<local, handler, restarts, chain, mirror>>

(* handle_proposal_scheduling: only the first nb_unassigned offers are read *)
Offer == [id : InnerId, worker : Worker]
Offers == UNION {[1..n -> Offer] : n \in 0..MaxOffers}

Taken(t, offers) == {i \in DOMAIN offers : i <= nb_unassigned(t)}

SchedulingApplies(t, offers) ==
    /\ Incomplete(t)
    /\ nb_unassigned(t) # 0
    /\ \A i \in Taken(t, offers) : /\ offers[i].id = as_bytes(t)
                                   /\ offers[i].worker \notin Workers(t)

ReceiveScheduling(t, m, offers) ==
    /\ Listening
    /\ SchedulingApplies(t, offers)
    /\ Accept(t, m, {AssignC(offers[i].worker, i) : i \in Taken(t, offers)})

(* handle_proposal_checked: at most one per min_check_interval and worker *)
ReceiveChecked(t, m, w) ==
    /\ Listening
    /\ w \in Workers(t)
    /\ w \in due[t]
    /\ Accept(t, m, {CheckedC(w)})

(* handle_proposal_completed: the selected result comes from one of the     *)
(* assigned workers; nothing is asked of the other replicas.                *)
CompletedApplies(t, w, idMan, idStatus) ==
    /\ Incomplete(t)
    /\ idMan = as_bytes(t)
    /\ w \in Workers(t)
    /\ idStatus = as_bytes(t)

ReceiveCompleted(t, m, w, idMan, idStatus, result) ==
    /\ Listening
    /\ CompletedApplies(t, w, idMan, idStatus)
    /\ Accept(t, m, {CompleteC(result)})

(* min_check_interval passes since the last_check_timestamp of a replica *)
Elapse(t, w) ==
    /\ panic = "none"
    /\ w \in Workers(t) \ due[t]
    /\ due' = [due EXCEPT ![t] = @ \cup {w}]
    /\ UNCHANGED <<jobs, completeness, substates, nb_failures, managers_addresses,
                   payment_infos, handler, panic, restarts, chain, mirror>>

------------------------------------------------------------------------------
(* apply_state_change: one action per StateChange, in sorted order. An Err  *)
(* is unwrapped by the caller: the process dies.                            *)

Applying(c, kind) ==
    /\ panic = "none" /\ phase = "apply"
    /\ First(c) /\ c.kind = kind

Die(why) ==
    /\ panic' = why
    /\ UNCHANGED <<local, handler, restarts, chain, mirror>>

Done(c) ==
    /\ todo' = todo \ {c}
    /\ UNCHANGED <<cur, from, phase, pushed, panic, restarts, chain>>

(* What the events of a change tell their receiver: TaskStatus Pending, once *)
(* per replica, Unassigned then Pending, and Assigned                        *)
PendingEvents(m, n)    == [m EXCEPT !.pending = @ + n]
UnassignedEvents_NoPending(m, w) == [m EXCEPT !.workers = @ \ {w}]
UnassignedEvents(m, w) == [workers |-> m.workers \ {w}, pending |-> m.pending + 1]
AssignedEvent(m, w)    == [workers |-> m.workers \cup {w}, pending |-> m.pending - 1]

(* A change other than Create is refused once the task is settled. *)
Refuse(why) == Die(IF Incomplete(cur) THEN why ELSE "settled")

(* SharedState.jobs.entry(job_id).or_insert(job), Task::new, and one Pending *)
(* event per replica                                                         *)
ApplyCreate(c) ==
    /\ Applying(c, "Create")
    /\ jobs' = jobs \cup {JobOf[cur]}
    /\ completeness' = [completeness EXCEPT ![cur] = "Incomplete"]
    /\ substates' = [substates EXCEPT ![cur] = Empty(cur)]
    /\ due' = [due EXCEPT ![cur] = {}]
    /\ nb_failures' = [nb_failures EXCEPT ![cur] = 0]
    /\ managers_addresses' = [managers_addresses EXCEPT ![cur] = <<>>]
    /\ mirror' = [mirror EXCEPT ![cur] = PendingEvents(@, Redundancy[JobOf[cur]])]
    /\ UNCHANGED payment_infos
    /\ Done(c)

(* Assigned::update_last_check_timestamp *)
ApplyChecked(c) ==
    /\ Applying(c, "Checked")
    /\ IF Incomplete(cur) /\ c.worker \in Workers(cur)
       THEN /\ due' = [due EXCEPT ![cur] = @ \ {c.worker}]
            /\ UNCHANGED <<jobs, completeness, substates, nb_failures,
                           managers_addresses, payment_infos, mirror>>
            /\ Done(c)
       ELSE Refuse("checked")

(* TaskCompleteness::unassign, then an Unassigned and a Pending event *)
ApplyUnassign(c) ==
    /\ Applying(c, "Unassign")
    /\ IF Incomplete(cur) /\ c.worker \in Workers(cur)
       THEN /\ \E s \in Filled(cur) :
                 /\ substates[cur][s] = c.worker
                 /\ \A r \in Filled(cur) : r < s => substates[cur][r] # c.worker
                 /\ substates' = [substates EXCEPT ![cur][s] = Nobody]
            /\ due' = [due EXCEPT ![cur] = @ \ {c.worker}]
            /\ mirror' = [mirror EXCEPT ![cur] = UnassignedEvents(@, c.worker)]
            /\ UNCHANGED <<jobs, completeness, nb_failures, managers_addresses,
                           payment_infos>>
            /\ Done(c)
       ELSE Refuse("unassign")

(* TaskCompleteness::assign takes the first empty slot and refuses a worker *)
(* who already has a replica of the task; then an Assigned event.           *)
ApplyAssign(c) ==
    /\ Applying(c, "Assign")
    /\ IF Incomplete(cur) /\ Assignable(cur, c.worker)
       THEN /\ \E s \in Slots(cur) \ Filled(cur) :
                 /\ \A r \in Slots(cur) \ Filled(cur) : s <= r
                 /\ substates' = [substates EXCEPT ![cur][s] = c.worker]
            /\ mirror' = [mirror EXCEPT ![cur] = AssignedEvent(@, c.worker)]
            /\ UNCHANGED <<jobs, completeness, due, nb_failures,
                           managers_addresses, payment_infos>>
            /\ Done(c)
       ELSE Refuse("assign")

(* A manager is registered, and paid, for each accepted proposal. *)
ApplyAddManager(c) ==
    /\ Applying(c, "AddManager")
    /\ IF Incomplete(cur)
       THEN /\ managers_addresses' = [managers_addresses EXCEPT ![cur] = Append(@, from)]
            /\ UNCHANGED <<jobs, completeness, substates, due, nb_failures,
                           payment_infos, mirror>>
            /\ Done(c)
       ELSE Refuse("manager")

ApplySetNbFailures(c) ==
    /\ Applying(c, "SetNbFailures")
    /\ IF Incomplete(cur)
       THEN /\ nb_failures' = [nb_failures EXCEPT ![cur] = c.nb]
            /\ UNCHANGED <<jobs, completeness, substates, due, managers_addresses,
                           payment_infos, mirror>>
            /\ Done(c)
       ELSE Refuse("failures")

(* Task::set_completed, set_definitely_failed: the local verdict, before    *)
(* the chain is told. The change stays in todo until the contract has it.   *)
Settle(verdict, infos) ==
    IF Incomplete(cur)
    THEN /\ completeness' = [completeness EXCEPT ![cur] = verdict]
         /\ payment_infos' = [payment_infos EXCEPT ![cur] = infos]
         /\ substates' = [substates EXCEPT ![cur] = Empty(cur)]
         /\ due' = [due EXCEPT ![cur] = {}]
         /\ phase' = "managers"
         /\ UNCHANGED <<jobs, nb_failures, managers_addresses, cur, from, todo,
                        pushed, panic, restarts, chain, mirror>>
    ELSE Refuse("verdict")

ApplyComplete(c) ==
    /\ Applying(c, "Complete")
    /\ Settle("Completed", [s \in Filled(cur) |-> substates[cur][s]])

ApplyDefinetelyFailed(c) ==
    /\ Applying(c, "DefinetelyFailed")
    /\ Settle(c.reason, <<>>)

(* The proposal is fully applied: the lock is released. *)
Release_KeepsTask ==
    /\ panic = "none" /\ phase = "apply" /\ todo = {}
    /\ phase' = "idle"
    /\ UNCHANGED <<local, cur, from, todo, pushed, panic, restarts, chain, mirror>>

Release ==
    /\ panic = "none" /\ phase = "apply" /\ todo = {}
    /\ cur' = NoTask /\ phase' = "idle"
    /\ UNCHANGED <<local, from, todo, pushed, panic, restarts, chain, mirror>>

------------------------------------------------------------------------------
(* The transactions of a settled task, one after the other *)

Committing(p) == panic = "none" /\ phase = p

(* push_manager of the contract *)
PushAllowed_Settled(t) ==
    /\ chain_state[t] # "Unknown"
    /\ Len(chain_managers[t]) < ManagerLimit[JobOf[t]]

PushAllowed(t) ==
    /\ chain_state[t] = "Incomplete"
    /\ Len(chain_managers[t]) < ManagerLimit[JobOf[t]]

(* The node answers, or fails after the transaction: Err, unwrapped. *)
Answers == {"none"} \cup (IF ChainMayFail THEN {"chain"} ELSE {})

(* jobs_set_managers: one push_manager transaction per registered manager *)
PushManager ==
    /\ Committing("managers")
    /\ pushed < Len(managers_addresses[cur])
    /\ PushAllowed(cur)
    /\ chain_managers' = [chain_managers EXCEPT
                            ![cur] = Append(@, managers_addresses[cur][pushed + 1])]
    /\ pushed' = pushed + 1
    /\ panic' \in Answers
    /\ UNCHANGED <<local, cur, from, todo, phase, restarts, chain_state, chain_paid,
                   mirror>>

ManagersSet_ButOne ==
    /\ Committing("managers")
    /\ pushed + 1 = Len(managers_addresses[cur])
    /\ phase' = "commit"
    /\ UNCHANGED <<local, cur, from, todo, pushed, panic, restarts, chain, mirror>>

ManagersSet ==
    /\ Committing("managers")
    /\ pushed = Len(managers_addresses[cur])
    /\ phase' = "commit"
    /\ UNCHANGED <<local, cur, from, todo, pushed, panic, restarts, chain, mirror>>

(* set_completed of the contract: as many workers to pay as replicas *)
SetCompletedAllowed(t, result) ==
    /\ chain_state[t] = "Incomplete"
    /\ result # "empty"
    /\ Cardinality(DOMAIN payment_infos[t]) = Redundancy[JobOf[t]]
    /\ chain_managers[t] # <<>>

(* set_definitely_failed of the contract, and the conversion of the reason *)
SetDefinitelyFailedAllowed(t, reason) ==
    /\ Storable(reason)
    /\ chain_state[t] = "Incomplete"
    /\ chain_managers[t] # <<>>

VerdictAllowed(c) ==
    IF c.kind = "Complete" THEN SetCompletedAllowed(cur, c.result)
                           ELSE SetDefinitelyFailedAllowed(cur, c.reason)

(* jobs_set_completed, jobs_set_definitely_failed *)
CommitVerdict(c) ==
    /\ Committing("commit") /\ First(c)
    /\ VerdictAllowed(c)
    /\ chain_state' = [chain_state EXCEPT
                         ![cur] = IF c.kind = "Complete" THEN "Completed" ELSE c.reason]
    /\ chain_paid' = IF c.kind = "Complete"
                     THEN [chain_paid EXCEPT ![cur] = payment_infos[cur]]
                     ELSE chain_paid
    /\ todo' = todo \ {c}
    /\ phase' = "apply"
    /\ panic' \in Answers
    /\ UNCHANGED <<local, cur, from, pushed, restarts, chain_managers, mirror>>

(* A transaction is refused, or the node fails before it: Err, unwrapped. *)
ChainError_Ignored ==
    /\ Committing("managers") \/ Committing("commit")
    /\ ChainMayFail
    /\ phase' = "apply" /\ todo' = {}
    /\ UNCHANGED <<local, cur, from, pushed, panic, restarts, chain, mirror>>

ChainError ==
    /\ \/ Committing("managers") /\ pushed < Len(managers_addresses[cur])
          /\ (ChainMayFail \/ ~PushAllowed(cur))
       \/ Committing("commit") /\ \E c \in todo : First(c) /\
             (ChainMayFail \/ ~VerdictAllowed(c))
    /\ Die("chain")

(* The dead process is started again: the shared state is not persisted. *)
Restart ==
    /\ panic # "none" /\ restarts < MaxRestarts
    /\ restarts' = restarts + 1 /\ panic' = "none"
    /\ jobs' = {}
    /\ completeness' = [t \in Task |-> "Unknown"]
    /\ substates' = [t \in Task |-> Empty(t)]
    /\ due' = [t \in Task |-> {}]
    /\ nb_failures' = [t \in Task |-> 0]
    /\ managers_addresses' = [t \in Task |-> <<>>]
    /\ payment_infos' = [t \in Task |-> <<>>]
    /\ mirror' = [t \in Task |-> [workers |-> {}, pending |-> 0]]
    /\ cur' = NoTask /\ todo' = {} /\ phase' = "idle" /\ pushed' = 0
    /\ UNCHANGED <<from, chain>>

------------------------------------------------------------------------------
Receive ==
    \E t \in Task, m \in Address :
        \/ ReceiveNewTask(t, m)
        \/ \E k \in FailureKind, w \in Worker, id \in InnerId, n \in 0..MaxNb :
              ReceiveFailure(t, m, k, w, id, n)
        \/ \E offers \in Offers : ReceiveScheduling(t, m, offers)
        \/ \E w \in Worker : ReceiveChecked(t, m, w)
        \/ \E w \in Worker, idMan, idStatus \in InnerId, r \in {"empty", "data"} :
              ReceiveCompleted(t, m, w, idMan, idStatus, r)

Apply ==
    \E c \in todo :
        \/ ApplyCreate(c) \/ ApplyChecked(c)
        \/ ApplyUnassign(c) \/ ApplyAssign(c) \/ ApplyAddManager(c)
        \/ ApplySetNbFailures(c) \/ ApplyComplete(c) \/ ApplyDefinetelyFailed(c)

Commit ==
    \/ PushManager \/ ManagersSet \/ ChainError
    \/ \E c \in todo : CommitVerdict(c)

(* The steps of the handler that holds the lock *)
Handler == Apply \/ Release \/ Commit

Next ==
    \/ \E j \in Job : LockJob(j)
    \/ Receive
    \/ Handler
    \/ \E t \in Task, w \in Worker : Elapse(t, w)
    \/ Restart

Spec == Init /\ [][Next]_vars
------------------------------------------------------------------------------
(* Properties *)

Change ==
    {CreateC, AddManagerC}
      \cup [kind : {"Checked"}, rank : {1}, pos : {0}, worker : Worker]
      \cup [kind : {"Unassign"}, rank : {2}, pos : Nat, worker : Worker]
      \cup [kind : {"Assign"}, rank : {3}, pos : Nat, worker : Worker]
      \cup [kind : {"SetNbFailures"}, rank : {5}, pos : {0}, nb : Nat]
      \cup [kind : {"Complete"}, rank : {6}, pos : {0}, result : {"empty", "data"}]
      \cup [kind : {"DefinetelyFailed"}, rank : {7}, pos : {0}, reason : Reason]

(* Every variable has its type; the handler has a task exactly when the     *)
(* lock is held.                                                            *)
TypeOK ==
    /\ jobs \in SUBSET Job
    /\ completeness \in [Task -> {"Unknown", "Incomplete"} \cup Final]
    /\ DOMAIN substates = Task
    /\ \A t \in Task : substates[t] \in [Slots(t) -> Worker \cup {Nobody}]
    /\ due \in [Task -> SUBSET Worker]
    /\ nb_failures \in [Task -> Nat]
    /\ managers_addresses \in [Task -> Seq(Address)]
    /\ DOMAIN payment_infos = Task
    /\ cur \in Task \cup {NoTask} /\ from \in Address
    /\ todo \in SUBSET Change
    /\ (phase = "idle") <=> (cur = NoTask)
    /\ phase \in {"idle", "apply", "managers", "commit"}
    /\ pushed \in Nat
    /\ panic \in {"none", "reason", "checked", "unassign", "assign", "manager",
                  "failures", "verdict", "settled", "chain"}
    /\ restarts \in 0..MaxRestarts
    /\ chain_state \in [Task -> {"Unknown", "Incomplete"} \cup Final]
    /\ chain_managers \in [Task -> Seq(Address)]
    /\ DOMAIN mirror = Task

(* No worker holds two replicas of a task, and none is paid twice for one:  *)
(* whatever offers a proposal carries, and whatever was unassigned before.  *)
ReplicasOnDistinctWorkers ==
    \A t \in Task :
        /\ \A r, s \in Filled(t) : substates[t][r] = substates[t][s] => r = s
        /\ \A r, s \in DOMAIN payment_infos[t] :
              payment_infos[t][r] = payment_infos[t][s] => r = s

(* A task that can still be scheduled has not used up its failures: the     *)
(* number goes over max_failures only inside the handler that is about to   *)
(* fail the task. It is what keeps the panic "`reason` is `None`" and the    *)
(* reason Aborted, which the contract cannot store, out of reach.           *)
FailureBudget ==
    \A t \in Task :
        Incomplete(t) /\ nb_failures[t] > Max_failures(t) =>
            cur = t /\ \E c \in todo : c.kind = "DefinetelyFailed"

(* "but this is supposed to be checked before": the handlers' checks leave  *)
(* only two ways for apply_state_change to answer Err, a second offer for   *)
(* the same worker inside one ProposeScheduling, and the chain.             *)
OnlyForeseenPanics == panic \in {"none", "assign", "chain"}

IsVerdict(c) == c.kind \in {"Complete", "DefinetelyFailed"}

(* A list of changes has at most one verdict, and a number of failures that *)
(* is too high comes with one.                                              *)
ListOK ==
    /\ \A c, d \in todo : IsVerdict(c) /\ IsVerdict(d) => c = d
    /\ \A c \in todo : c.kind = "SetNbFailures" /\ c.nb > Max_failures(cur) =>
          \E d \in todo : d.kind = "DefinetelyFailed"

(* The reason of a failure verdict is one the contract can store. *)
ReasonsStorable == \A c \in todo : c.kind = "DefinetelyFailed" => Storable(c.reason)

(* The changes left can all be applied, except for an Assign. *)
ApplicableOK ==
    /\ \A c \in todo : c.kind \in {"Checked", "Unassign"} => c.worker \in Workers(cur)
    /\ \A c, d \in todo : c.kind = "Unassign" /\ d.kind = "Unassign"
                            /\ c.worker = d.worker => c = d
    /\ phase = "apply" =>
          \/ todo = {CreateC, AddManagerC} /\ completeness[cur] = "Unknown"
          \/ CreateC \notin todo /\ (todo # {} => Incomplete(cur))
    /\ \A t \in Task : Filled(t) # {} => Incomplete(t)

(* The chain is told of a verdict after everything else. *)
PhaseOK ==
    /\ phase = "idle" => todo = {}
    /\ phase \in {"managers", "commit"} =>
          /\ completeness[cur] \in Final
          /\ \E c \in todo : todo = {c} /\ IsVerdict(c)

(* "this is supposed to be checked before": what is still to be applied     *)
(* when a step of the handler begins can be applied. This is what makes the *)
(* order of to_cmp_int, and the checks of the handlers, sufficient.         *)
ListsApplicable == ListOK /\ ReasonsStorable /\ PhaseOK /\ ApplicableOK

(* A verdict is on the contract when the lock is released, it is the local  *)
(* verdict, and no verdict is on the contract before the oracle has it      *)
(* (unless the oracle forgot it in a restart).                              *)
VerdictAgreement ==
    \A t \in Task :
        /\ completeness[t] \in Final /\ panic = "none" /\ cur # t =>
              chain_state[t] = completeness[t]
        /\ chain_state[t] \in Final =>
              \/ completeness[t] = chain_state[t]
              \/ restarts > 0 /\ ~(completeness[t] \in Final /\ panic = "none" /\ cur # t)

(* The contract pays every manager whose proposal was accepted, in the      *)
(* order of acceptance, the one that settled the task included, and the     *)
(* workers assigned at that moment.                                         *)
EveryoneCredited ==
    \A t \in Task :
        chain_state[t] \in Final /\ restarts = 0 =>
            /\ chain_managers[t] = managers_addresses[t]
            /\ cur = t => managers_addresses[t][Len(managers_addresses[t])] = from
            /\ chain_state[t] = "Completed" =>
                  /\ chain_paid[t] = payment_infos[t]
                  /\ DOMAIN chain_paid[t] = Slots(t)

(* A receiver that only applies the emitted events, in order, knows which   *)
(* workers hold a replica and how many replicas wait for one, at any time   *)
(* a task is incomplete; once it is settled it still has the last workers.  *)
EventsMirrorSubstates ==
    \A t \in Task :
        /\ Incomplete(t) => mirror[t] = [workers |-> Workers(t),
                                         pending |-> nb_unassigned(t)]
        /\ completeness[t] = "Completed" =>
              mirror[t].workers = {payment_infos[t][s] : s \in DOMAIN payment_infos[t]}

(* A settled task never changes again, locally until the process dies, on   *)
(* the contract for ever; failures are never taken back.                    *)
VerdictIsFinal ==
    [][\A t \in Task :
         /\ chain_state[t] \in Final =>
               <<chain_state[t], chain_managers[t], chain_paid[t]>>' =
                 <<chain_state[t], chain_managers[t], chain_paid[t]>>
         /\ completeness[t] \in Final /\ restarts' = restarts =>
               <<completeness[t], nb_failures[t], managers_addresses[t],
                 payment_infos[t]>>' =
                 <<completeness[t], nb_failures[t], managers_addresses[t],
                   payment_infos[t]>>
         /\ Known(t) /\ restarts' = restarts => nb_failures'[t] >= nb_failures[t]]_vars

(* With one replica per task, a node that answers and enough room for the   *)
(* managers, only an empty result, which the contract refuses, kills the    *)
(* process: no offer, failure or completion can.                            *)
OnlyEmptyResultKills ==
    panic # "none" => \E c \in todo : c.kind = "Complete" /\ c.result = "empty"

(* What the engine promises of each task, whatever the proposals *)
Lifecycle ==
    INSTANCE TaskLifecycle WITH
        Capacity <- [t \in Task |-> Redundancy[JobOf[t]]],
        state <- completeness,
        assigned <- [t \in Task |-> Workers(t)],
        verdict <- chain_state

(* The engine implements the life cycle of a task. *)
ImplementsLifecycle == Lifecycle!Spec
==============================================================================

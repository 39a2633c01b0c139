------------------------------ MODULE NodeLocks ------------------------------
(***************************************************************************)
(* What the handlers of a node wait for (balthalib/src/node/mod.rs): the   *)
(* shared_state and workers locks and the bounded channels. The handlers   *)
(* are futures of one select!, so they interleave where they await; an     *)
(* await may yield even when it need not (tokio's cooperative budget).     *)
(*                                                                         *)
(* A handler is the list of what it awaits and drops, in order; what the   *)
(* tables hold only decides between lists. As in ManagerNode, tasks reach  *)
(* an oracle by the proposals other managers gossip, which are external.   *)
(***************************************************************************)
EXTENDS Naturals, SequencesExt

CONSTANTS
    Run,            \* tasks a worker may execute
    ChannelSize,    \* CHANNEL_SIZE
    Redundancy,     \* bound: replicas of a task
    CpuCount,       \* bound: tasks of one worker, of one TasksExecute, of one tick
    MaxEvents       \* bound: events from outside

ASSUME LocksAssumption ==
    /\ ChannelSize \in Nat \ {0} /\ Redundancy \in Nat /\ CpuCount \in Nat /\ MaxEvents \in Nat
    /\ Run \cap {"consumer", "swarm", "tick", "chain", "ctrlc"} = {}

VARIABLES
    kind,       \* "oracle", "manager" (not the oracle) or "worker"
    todo,       \* what each handler has left to do
    line,       \* requests for each lock, in order: those granted, then those that wait
    queue,      \* messages of each channel
    parked,     \* senders that wait for room in each channel, in order
    events

vars == <<kind, todo, line, queue, parked, events>>

Actor == {"consumer", "swarm", "tick", "chain", "ctrlc"} \cup Run
Channel == {"inner", "swarm", "runner"}

------------------------------------------------------------------------------
(* The steps of a handler *)

Read == <<"shared_state", "read">>
Write == <<"shared_state", "write">>
Table == <<"workers", "write">>

Lock(requests) == [do |-> "lock", of |-> requests]
Drop(requests) == [do |-> "drop", of |-> requests]
Send(channel, message) == [do |-> "send", of |-> {<<channel, message>>}]

(* An answer of the Ethereum node, or of the storage *)
Await == [do |-> "await", of |-> {}]

Log == Send("inner", "quiet")
Propose == Send("inner", "proposal")
Command == Send("swarm", "command")

Times(n, step) == [i \in 1..n |-> step]
Alternate(n, one, other) == [i \in 1..(2 * n) |-> IF i % 2 = 1 THEN one ELSE other]

(* Only an oracle knows tasks, and has assigned some. *)
Tasks == IF kind = "oracle" THEN 0..CpuCount ELSE {0}

delete_worker_WriteLock ==
    {<<Lock({Table}), Lock({Write})>> \o Times(n, Propose) \o <<Drop({Table, Write})>> : n \in Tasks}

delete_worker ==
    {<<Lock({Table}), Lock({Read})>> \o Times(n, Propose) \o <<Drop({Table, Read})>> : n \in Tasks}

handle_task_status ==
    IF kind # "oracle" THEN {<<>>}
    ELSE {<<>>, <<Lock({Table}), Propose, Drop({Table})>>,
          <<Lock({Table}), Lock({Read}), Drop({Read}), Propose, Drop({Table})>>}

(* The second is of a manager that has a program to try: it fetches it. *)
WorkerNew == {<<Lock({Table}), Drop({Table}), Log>>,
              <<Lock({Table}), Drop({Table}), Log, Await, Log, Command>>}

handle_swarm_event ==
    IF kind = "worker"
    THEN {<<Log>>} \cup {Times(n, Send("runner", "task")) : n \in 1..CpuCount}
    ELSE WorkerNew \cup {<<Log>> \o p : p \in delete_worker \cup handle_task_status}

(* The proposals of other managers *)
Gossip == IF kind = "oracle" THEN {<<Propose>>} ELSE {}

(* For any number n of replicas: a new task is fetched from the contract    *)
(* and announced; replicas are assigned; replicas are given back, and the   *)
(* verdict, if there is one, is written to the contract. A proposal that is *)
(* refused, or changes nothing one is told of, is one of these with n = 0.  *)
Created(n) == <<Await, Log>> \o Times(n, Log)
Assigned(n) == <<Log>> \o Times(n, Send("inner", "assigned"))
Unassigned(n) == <<Log>> \o Alternate(n, Send("inner", "unassigned"), Log)
Verdict(n) == Unassigned(n) \o <<Await>>

Changes ==
    UNION {{Created(n), Assigned(n), Unassigned(n), Verdict(n)} : n \in 0..Redundancy}

check_and_apply_proposal ==
    {<<Lock({Write})>> \o changes \o <<Drop({Write})>> : changes \in Changes}

handle_shared_state_change(message) ==
    IF message = "unassigned" THEN {<<Lock({Table}), Drop({Table})>>}
    ELSE {<<Lock({Read, Table}), step, Drop({Read, Table})>> : step \in {Propose, Command}}

handle_event(message) ==
    CASE message = "quiet" -> {<<>>}
      [] message = "proposal" /\ kind # "oracle" -> {<<Command>>}
      [] message = "proposal" /\ kind = "oracle" ->
            {<<Command>> \o p : p \in check_and_apply_proposal}
      [] OTHER -> handle_shared_state_change(message)

propose_assignements ==
    {<<Lock({Read, Table})>> \o Times(n, Propose) \o <<Drop({Read, Table})>> : n \in Tasks}

handle_chain_event == IF kind = "oracle" THEN {<<Log>>} ELSE {<<Log>>, <<Log, Propose>>}

handle_ctrlc == {<<Command>>}

(* The program cannot be fetched, fails, or gives a result. *)
handle_runner ==
    LET started == <<Command, Log, Await, Log, Log, Command, Await>>
    IN  {<<Command, Log, Await, Command, Log>>,
         started \o <<Command, Log>>, started \o <<Log, Command>>}

------------------------------------------------------------------------------
Init ==
    /\ kind \in {"oracle", "manager", "worker"}
    /\ todo = [a \in Actor |-> <<>>]
    /\ line = [l \in {"shared_state", "workers"} |-> <<>>]
    /\ queue = [c \in Channel |-> <<>>]
    /\ parked = [c \in Channel |-> <<>>]
    /\ events = 0

IsParked(a, c) == \E i \in DOMAIN parked[c] : parked[c][i] = a
Idle(a) == todo[a] = <<>> /\ \A c \in Channel : ~IsParked(a, c)

(* The locks are fair: a request is granted once all that came before it    *)
(* are dropped, or are reads as it is.                                      *)
Asks(a, l) == \E i \in DOMAIN line[l] : line[l][i].actor = a
Place(a, l) == CHOOSE i \in DOMAIN line[l] : line[l][i].actor = a
Left(a, l) == IF Asks(a, l) THEN RemoveAt(line[l], Place(a, l)) ELSE line[l]
Ahead(a, l) ==
    {line[l][i].actor : i \in {i \in DOMAIN line[l] : \E j \in DOMAIN line[l] :
        i < j /\ line[l][j].actor = a /\ "write" \in {line[l][i].mode, line[l][j].mode}}}
Granted(a, l) == Asks(a, l) /\ Ahead(a, l) = {}

(* a is not parked, and its next step is this one. *)
At(a, do) ==
    /\ todo[a] # <<>> /\ Head(todo[a]).do = do
    /\ \A c \in Channel : ~IsParked(a, c)

Proceed(a) == todo' = [todo EXCEPT ![a] = Tail(@)]

Mode(requests, l) == IF <<l, "write">> \in requests THEN "write" ELSE "read"

(* join! asks for both locks before it waits for them. *)
Ask(a) ==
    /\ At(a, "lock")
    /\ \A r \in Head(todo[a]).of : ~Asks(a, r[1])
    /\ line' = [l \in DOMAIN line |->
                  IF \E r \in Head(todo[a]).of : r[1] = l
                  THEN Append(line[l], [actor |-> a, mode |-> Mode(Head(todo[a]).of, l)])
                  ELSE line[l]]
    /\ UNCHANGED <<kind, todo, queue, parked, events>>

Acquire(a) ==
    /\ At(a, "lock")
    /\ \A r \in Head(todo[a]).of : Granted(a, r[1])
    /\ Proceed(a)
    /\ UNCHANGED <<kind, line, queue, parked, events>>

Release(a) ==
    /\ At(a, "drop")
    /\ line' = [l \in DOMAIN line |->
                  IF \E r \in Head(todo[a]).of : r[1] = l
                  THEN Left(a, l) ELSE line[l]]
    /\ Proceed(a)
    /\ UNCHANGED <<kind, queue, parked, events>>

Push_NoPark(a) ==
    /\ At(a, "send")
    /\ \E m \in Head(todo[a]).of : queue' = [queue EXCEPT ![m[1]] = Append(@, m[2])]
    /\ Proceed(a)
    /\ UNCHANGED <<kind, line, parked, events>>

(* The message is always queued; its sender then waits if there is no room. *)
Push(a) ==
    /\ At(a, "send")
    /\ \E m \in Head(todo[a]).of :
          /\ queue' = [queue EXCEPT ![m[1]] = Append(@, m[2])]
          /\ parked' = IF Len(queue'[m[1]]) > ChannelSize
                       THEN [parked EXCEPT ![m[1]] = Append(@, a)] ELSE parked
    /\ Proceed(a)
    /\ UNCHANGED <<kind, line, events>>

Step(a) == Ask(a) \/ Acquire(a) \/ Release(a) \/ Push(a)

(* What is outside may answer, an error too, or never do. *)
Answer(a) ==
    /\ At(a, "await")
    /\ Proceed(a)
    /\ UNCHANGED <<kind, line, queue, parked, events>>

(* A message taken lets one sender go on. *)
Pop(c) ==
    /\ queue[c] # <<>>
    /\ queue' = [queue EXCEPT ![c] = Tail(@)]
    /\ parked' = [parked EXCEPT ![c] = IF @ = <<>> THEN @ ELSE Tail(@)]

(* inner_out.then: the next event once the handler of the last one ended *)
Receive ==
    /\ Idle("consumer")
    /\ Pop("inner")
    /\ \E p \in handle_event(Head(queue["inner"])) : todo' = [todo EXCEPT !["consumer"] = p]
    /\ UNCHANGED <<kind, line, events>>

(* The swarm is polled, which takes its commands, between two of its events. *)
Poll ==
    /\ Idle("swarm")
    /\ Pop("swarm")
    /\ UNCHANGED <<kind, todo, line, events>>

Execute_OneAtATime(r) ==
    /\ \A s \in Run : Idle(s)
    /\ Pop("runner")
    /\ \E p \in handle_runner : todo' = [todo EXCEPT ![r] = p]
    /\ UNCHANGED <<kind, line, events>>

(* for_each_concurrent takes every task at once. *)
Execute(r) ==
    /\ Idle(r)
    /\ Pop("runner")
    /\ \E p \in handle_runner : todo' = [todo EXCEPT ![r] = p]
    /\ UNCHANGED <<kind, line, events>>

Starts(a, programs) ==
    /\ Idle(a)
    /\ events < MaxEvents /\ events' = events + 1
    /\ \E p \in programs : todo' = [todo EXCEPT ![a] = p]
    /\ UNCHANGED <<kind, line, queue, parked>>

Outside ==
    \/ Starts("swarm", handle_swarm_event \cup Gossip)
    \/ Starts("ctrlc", handle_ctrlc)
    \/ kind # "worker" /\ Starts("tick", propose_assignements)
    \/ kind # "worker" /\ Starts("chain", handle_chain_event)
    \/ \E a \in Actor : Answer(a)

Inside == Receive \/ Poll \/ (\E r \in Run : Execute(r)) \/ \E a \in Actor : Step(a)

Next == Outside \/ Inside

(* select! polls every future that was woken; nothing makes Outside act. *)
Fairness ==
    /\ WF_vars(Receive) /\ WF_vars(Poll)
    /\ \A r \in Run : WF_vars(Execute(r))
    /\ \A a \in Actor : WF_vars(Step(a))

Spec == Init /\ [][Next]_vars /\ Fairness

------------------------------------------------------------------------------
(* Properties *)

(* Whom a waits for: the task that takes the messages of the channel it is  *)
(* parked on, and every handler ahead of it for a lock *)
WaitsFor(a) ==
    (IF IsParked(a, "inner") THEN {"consumer"} ELSE {})
      \cup (IF IsParked(a, "swarm") THEN {"swarm"} ELSE {})
      \cup UNION {Ahead(a, l) : l \in DOMAIN line}

(* The handlers that will never go on: each waits for another of them. *)
Stuck ==
    LET waiting == {a \in Actor : WaitsFor(a) # {}}
    IN  UNION {S \in SUBSET waiting : \A a \in S : WaitsFor(a) \cap S # {}}

Parked(c) == \E a \in Stuck : IsParked(a, c)

(* A channel holds no more than its size and one message of each sender     *)
(* that waits; a handler asks once for a lock.                              *)
TypeOK ==
    /\ DOMAIN todo = Actor /\ events \in 0..MaxEvents
    /\ \A c \in Channel : Len(queue[c]) <= ChannelSize + Len(parked[c])
    /\ \A l \in DOMAIN line : \A i, j \in DOMAIN line[l] :
          line[l][i].actor = line[l][j].actor => i = j

(* The handlers can wait for each other in four ways only: the swarm sends  *)
(* itself a command when its channel is full; the consumer cannot take the  *)
(* messages a full inner channel needs it to take; the consumer and the     *)
(* swarm each fill the channel of the other; or the tick, the swarm and a   *)
(* proposal close a cycle with the locks alone, which it takes all three    *)
(* for, as readers do not block each other. A worker has none of them, and  *)
(* a manager which is not the oracle only those with the swarm's channel.   *)
OnlyForeseenDeadlocks ==
    Stuck # {} =>
        /\ kind # "worker"
        /\ kind = "manager" => Parked("swarm")
        /\ \/ IsParked("swarm", "swarm")
           \/ "consumer" \in Stuck /\ (Parked("inner") \/ Parked("swarm"))
           \/ /\ Granted("tick", "shared_state") /\ ~Granted("tick", "workers")
              /\ Granted("swarm", "workers") /\ ~Granted("swarm", "shared_state")
              /\ Asks("consumer", "shared_state") /\ ~Granted("consumer", "shared_state")

(* No handler waits for ever for the Ethereum node or the storage. *)
OutsideAnswers == \A a \in Actor : []<>(~At(a, "await"))

(* The swarm, whose actions "should be very quick, otherwise it the whole   *)
(* swarm will pause" (node/mod.rs:396), is polled again, unless handlers    *)
(* wait for each other or for an answer from outside.                       *)
SwarmResumes ==
    OutsideAnswers => (~Idle("swarm") ~> Idle("swarm") \/ Stuck # {})
==============================================================================

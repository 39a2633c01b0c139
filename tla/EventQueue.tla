----------------------------- MODULE EventQueue -----------------------------
(***************************************************************************)
(* What the application of a manager is told of its workers, and in which  *)
(* order: BalthBehaviour.events (balthernet/src/balthazar/mod.rs), the     *)
(* queue of messages received, messages to send and events to announce;    *)
(* the events of BalthBehavioursWrapper (wrapper.rs) behind it; and the    *)
(* handlers of the node (balthalib/src/node/mod.rs), which run one by one. *)
(* A handler of a message may queue what it announces, behind what waits   *)
(* already, or return it at once.                                          *)
(*                                                                         *)
(* The workers are those Relationship describes: a worker asks once, and   *)
(* breaks its end of the relationship when it likes. The manager knows the *)
(* type of every worker; time is a choice: any poll may find that a worker *)
(* needs a ping or has timed out. Left out: messages that change nothing   *)
(* (acknowledgments, pongs, the pings of the workers, which are answered   *)
(* like statuses) and the end of the manager by Ctrl+C. A worker has one   *)
(* slot.                                                                   *)
(***************************************************************************)
EXTENDS Naturals, Sequences

CONSTANTS
    Worker,
    MaxPings,   \* bound: pings of the manager
    MaxOrders   \* bound: tasks sent to workers

ASSUME EventQueueAssumption == MaxPings \in Nat /\ MaxOrders \in Nat

VARIABLES
    workers,    \* ManagerData.workers: the workers in relationship
    events,     \* BalthBehaviour.events, the next one first
    announced,  \* BalthBehavioursWrapper.events: announced, not handled yet
    table,      \* Balthazar.workers: the workers of the application
    busy,       \* those of the table with an assigned slot
    inbound,    \* workers with a TasksExecute on its way to BalthBehaviour
    dead,       \* the event whose handler panicked: the process has ended
    net,        \* messages in flight
    asked, mine, running,   \* workers that asked, that have this manager, with a task
    left,       \* history: how the manager found out that a worker left
    pings, orders

node_vars == <<table, busy, inbound, dead>>
worker_vars == <<asked, mine, running>>
vars == <<workers, events, announced, node_vars, net, worker_vars, left, pings, orders>>

(* Those to a worker: "Accepted", "Ping" (ManagerPing), "Execute"          *)
(* (TasksExecute), "ByeTo" (ManagerBye) and "NotMineTo" (NotMine).          *)
Message(k, w) == [kind |-> k, who |-> w]
FromWorker == {"ManagerRequest", "ManagerBye", "NotMine", "TaskStatus"}

(* The three things the queue holds *)
Handler(x) == [do |-> "handle", what |-> x]
Send(k, w) == [do |-> "send", what |-> Message(k, w)]
Emit(k, w) == [do |-> "emit", what |-> Message(k, w)]

Departures == {"WorkerBye", "WorkerTimedOut"}
Alive == dead.kind = "none"

------------------------------------------------------------------------------
Init ==
    /\ workers = {} /\ events = <<>> /\ announced = <<>>
    /\ table = {} /\ busy = {} /\ inbound = {} /\ dead = [kind |-> "none"]
    /\ net = {} /\ asked = {} /\ mine = {} /\ running = {}
    /\ left = [w \in Worker |-> "no"]
    /\ pings = 0 /\ orders = 0

(* inject_event: a message has come. *)
inject_event(x) ==
    /\ Alive /\ x \in net /\ x.kind \in FromWorker
    /\ events' = Append(events, Handler(x))
    /\ net' = net \ {x}
    /\ UNCHANGED <<workers, announced, node_vars, worker_vars, left, pings, orders>>

------------------------------------------------------------------------------
(* The checks at the start of every poll: what they decide is queued.       *)

Ping(w) ==
    /\ Alive /\ w \in workers /\ pings < MaxPings
    /\ pings' = pings + 1
    /\ events' = Append(events, Send("Ping", w))
    /\ UNCHANGED <<workers, announced, node_vars, net, worker_vars, left, orders>>

TimedOut_Direct(w) ==
    /\ Alive /\ w \in workers
    /\ workers' = workers \ {w} /\ left' = [left EXCEPT ![w] = "timeout"]
    /\ events' = Append(events, Send("ByeTo", w))
    /\ announced' = Append(announced, Message("WorkerTimedOut", w))
    /\ UNCHANGED <<node_vars, net, worker_vars, pings, orders>>

TimedOut(w) ==
    /\ Alive /\ w \in workers
    /\ workers' = workers \ {w} /\ left' = [left EXCEPT ![w] = "timeout"]
    /\ events' = events \o <<Send("ByeTo", w), Emit("WorkerTimedOut", w)>>
    /\ UNCHANGED <<announced, node_vars, net, worker_vars, pings, orders>>

------------------------------------------------------------------------------
(* The rest of a poll: the next event of the queue *)

Pops(do, kinds) ==
    /\ Alive /\ events # <<>>
    /\ Head(events).do = do /\ Head(events).what.kind \in kinds

Who == Head(events).what.who

(* What the next event leaves in the queue, with what it adds *)
Queues(more) == events' = Tail(events) \o more

manager_request ==
    /\ Pops("handle", {"ManagerRequest"})
    /\ workers' = workers \cup {Who}
    /\ net' = net \cup {Message("Accepted", Who)}
    /\ Queues(<<Emit("WorkerNew", Who)>>)
    /\ UNCHANGED <<announced, node_vars, worker_vars, left, pings, orders>>

Breaks(how) ==
    /\ workers' = workers \ {Who}
    /\ left' = IF Who \in workers THEN [left EXCEPT ![Who] = how] ELSE left


manager_bye ==
    /\ Pops("handle", {"ManagerBye"})
    /\ Breaks("bye")
    /\ Queues(IF Who \in workers THEN <<Emit("WorkerBye", Who)>> ELSE <<>>)
    /\ UNCHANGED <<announced, node_vars, net, worker_vars, pings, orders>>

(* The refusal of a worker is announced at once. *)
not_mine ==
    /\ Pops("handle", {"NotMine"})
    /\ Breaks("refused")
    /\ announced' = IF Who \in workers
                    THEN Append(announced, Message("WorkerBye", Who)) ELSE announced
    /\ Queues(<<>>)
    /\ UNCHANGED <<node_vars, net, worker_vars, pings, orders>>

task_status ==
    /\ Pops("handle", {"TaskStatus"})
    /\ Queues(IF Who \in workers THEN <<Emit("TaskStatus", Who)>> ELSE <<>>)
    /\ net' = IF Who \in workers THEN net ELSE net \cup {Message("NotMineTo", Who)}
    /\ UNCHANGED <<workers, announced, node_vars, worker_vars, left, pings, orders>>

SendNext ==
    /\ Pops("send", {"Ping", "ByeTo", "Execute"})
    /\ net' = net \cup {Head(events).what}
    /\ Queues(<<>>)
    /\ UNCHANGED <<workers, announced, node_vars, worker_vars, left, pings, orders>>

EmitNext ==
    /\ Pops("emit", {"WorkerNew", "TaskStatus"} \cup Departures)
    /\ announced' = Append(announced, Head(events).what)
    /\ Queues(<<>>)
    /\ UNCHANGED <<workers, node_vars, net, worker_vars, left, pings, orders>>

poll ==
    \/ \E w \in Worker : Ping(w) \/ TimedOut(w)
    \/ manager_request \/ manager_bye \/ not_mine \/ task_status
    \/ SendNext \/ EmitNext

------------------------------------------------------------------------------
(* The application: handle_swarm_event, one event at a time *)

Told(kinds) == Alive /\ announced # <<>> /\ Head(announced).kind \in kinds
About == Head(announced).who

WorkerNew ==
    /\ Told({"WorkerNew"})
    /\ announced' = Tail(announced) /\ table' = table \cup {About}
    /\ UNCHANGED <<workers, events, busy, inbound, dead, net, worker_vars, left, pings, orders>>

delete_worker ==
    /\ Told(Departures)
    /\ announced' = Tail(announced)
    /\ table' = table \ {About} /\ busy' = busy \ {About}
    /\ dead' = IF About \in table THEN dead ELSE Head(announced)
    /\ UNCHANGED <<workers, events, inbound, net, worker_vars, left, pings, orders>>

handle_task_status ==
    /\ Told({"TaskStatus"})
    /\ announced' = Tail(announced)
    /\ busy' = busy \ {About}
    /\ dead' = IF About \in busy THEN dead ELSE Head(announced)
    /\ UNCHANGED <<workers, events, table, inbound, net, worker_vars, left, pings, orders>>

Assigned(w) ==
    /\ Alive /\ w \in table \ busy /\ orders < MaxOrders
    /\ orders' = orders + 1
    /\ busy' = busy \cup {w} /\ inbound' = inbound \cup {w}
    /\ UNCHANGED <<workers, events, announced, table, dead, net, worker_vars, left, pings>>

(* The commands are read once every event is handed over.                   *)
TasksExecute(w) ==
    /\ Alive /\ announced = <<>> /\ w \in inbound
    /\ inbound' = inbound \ {w}
    /\ events' = Append(events, Send("Execute", w))
    /\ UNCHANGED <<workers, announced, table, busy, dead, net, worker_vars, left, pings, orders>>

Application ==
    \/ WorkerNew \/ delete_worker \/ handle_task_status
    \/ \E w \in Worker : Assigned(w) \/ TasksExecute(w)

------------------------------------------------------------------------------
(* The workers *)

manager_vars == <<workers, events, announced, node_vars, left, pings, orders>>

Ask(w) ==
    /\ w \notin asked
    /\ asked' = asked \cup {w} /\ net' = net \cup {Message("ManagerRequest", w)}
    /\ UNCHANGED <<manager_vars, mine, running>>

(* A worker that has another manager by then says good bye. *)
GetsAccepted(w) ==
    /\ Message("Accepted", w) \in net
    /\ \/ mine' = mine \cup {w} /\ net' = net \ {Message("Accepted", w)}
       \/ mine' = mine
          /\ net' = (net \ {Message("Accepted", w)}) \cup {Message("ManagerBye", w)}
    /\ UNCHANGED <<manager_vars, asked, running>>

GetsRequest(w, k) ==
    /\ Message(k, w) \in net
    /\ net' = (net \ {Message(k, w)})
                \cup (IF w \in mine THEN {} ELSE {Message("NotMine", w)})
    /\ running' = IF w \in mine /\ k = "Execute" THEN running \cup {w} ELSE running
    /\ UNCHANGED <<manager_vars, asked, mine>>

GetsBye(w, k) ==
    /\ Message(k, w) \in net
    /\ net' = net \ {Message(k, w)} /\ mine' = mine \ {w}
    /\ UNCHANGED <<manager_vars, asked, running>>

(* The manager did not answer in time, or the process is told to end. *)
Leaves(w) ==
    /\ w \in mine
    /\ mine' = mine \ {w} /\ net' = net \cup {Message("ManagerBye", w)}
    /\ UNCHANGED <<manager_vars, asked, running>>

Finishes(w) ==
    /\ w \in running
    /\ running' = running \ {w}
    /\ net' = IF w \in mine THEN net \cup {Message("TaskStatus", w)} ELSE net
    /\ UNCHANGED <<manager_vars, asked, mine>>

WorkerStep(w) ==
    \/ Ask(w) \/ GetsAccepted(w) \/ Leaves(w) \/ Finishes(w)
    \/ \E k \in {"Ping", "Execute"} : GetsRequest(w, k)
    \/ \E k \in {"ByeTo", "NotMineTo"} : GetsBye(w, k)

Next ==
    \/ \E x \in net : inject_event(x)
    \/ poll \/ Application
    \/ \E w \in Worker : WorkerStep(w)

Spec == Init /\ [][Next]_vars

------------------------------------------------------------------------------
(* Properties *)

(* The arrivals and departures that still are to be handled, of a worker     *)
Announcements(w) ==
    LET Emits(e) == e.do = "emit"
        queued == SelectSeq(events, Emits)
        Of_w(x) == x.who = w /\ x.kind # "TaskStatus"
    IN  SelectSeq(announced \o [i \in DOMAIN queued |-> queued[i].what], Of_w)

(* What is announced of a worker and not handled yet leads from the table   *)
(* of the application to the relationships of the node, arrival first: the  *)
(* application never looks for a worker it does not have (mod.rs:321-323),  *)
(* and keeps none that left.                                                *)
AnnouncedInOrder ==
    /\ dead.kind \notin Departures
    /\ Alive => \A w \in Worker :
          LET arrival == IF w \in table THEN <<>> ELSE <<Message("WorkerNew", w)>>
          IN  IF w \in workers
              THEN Announcements(w) = arrival
              ELSE \/ w \notin table /\ Announcements(w) = <<>>
                   \/ \E d \in Departures : Announcements(w) = Append(arrival, Message(d, w))

==============================================================================

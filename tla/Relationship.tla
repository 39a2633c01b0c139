---------------------------- MODULE Relationship ----------------------------
(***************************************************************************)
(* The relationship of a worker and its manager: BalthBehaviour            *)
(* (balthernet/src/balthazar/mod.rs and events.rs) at both ends of every   *)
(* connection. A node learns the type of its peers; a worker asks a        *)
(* manager once, when it learns its type; each end then pings the other    *)
(* and decides on its own that it is gone. Task messages are refused with  *)
(* NotMine outside of a relationship.                                      *)
(*                                                                         *)
(* A request and its answer have a substream of their own, so messages are *)
(* a set, handled in any order; identical ones in flight are one. The      *)
(* queue of internal events of a node, first in first out, is part of that *)
(* delay: a handler is one step. What that queue does to the order of the  *)
(* events the application gets is modelled by EventQueue. Messages whose   *)
(* handler changes nothing are left out: acknowledgments and the type of a *)
(* node for a peer that knows it.                                          *)
(***************************************************************************)
EXTENDS Naturals, FiniteSets

CONSTANTS
    Worker, Manager,    \* the nodes, by peer id: a process that restarts is another
    AuthorizedIds,      \* managers authorized_managers names by their id
    AuthorizedAddrs,    \* managers it names by their address
    Bootstrap,          \* <<worker, manager>> dialed at the start of one of them
    Announced,          \* <<node, peer>> whose address mdns gives
    Interval, Timeout,  \* manager_check_interval, manager_timeout, in ticks
    MaxOrders,          \* bound: orders of the applications
    MaxLost,            \* bound: messages lost by a connection that holds
    MaxCuts,            \* bound: connections cut
    MaxStops            \* bound: processes that end

Node == Worker \cup Manager

ASSUME RelationshipAssumption ==
    /\ Worker \cap Manager = {}
    /\ AuthorizedIds \subseteq Manager /\ AuthorizedAddrs \subseteq Manager
    /\ Bootstrap \subseteq Worker \X Manager /\ Announced \subseteq Node \X Node
    /\ Interval \in Nat /\ Timeout \in Nat
    /\ MaxOrders \in Nat /\ MaxLost \in Nat /\ MaxCuts \in Nat /\ MaxStops \in Nat

VARIABLES
    status,     \* "running", "shutting" (is_shutting_down), "blocked" (its only
                \* thread waits for a lock it holds) or "stopped"
    known,      \* peers whose node_type is known
    found,      \* peers dialed since mdns gave their address
    links,      \* <<worker, manager>> connected
    dials,      \* <<worker, manager>> being dialed
    pending,    \* Peer.pending_messages
    rel,        \* manager or workers: the peers in relationship, with the ages
                \* of the last ping and the last pong
    related,    \* history: <<worker, manager>> the manager ever accepted
    net,        \* messages in flight
    orders, lost, cuts

vars == <<status, known, found, links, dials, pending, rel, related, net, orders,
          lost, cuts>>
links_orders == <<found, links, orders, lost, cuts>>
links_etc == <<status, links_orders>>

Up(n) == status[n] \in {"running", "shutting"}
Pair(n, p) == IF n \in Worker THEN <<n, p>> ELSE <<p, n>>
Peers(n) == IF n \in Worker THEN Manager ELSE Worker
Connected(n, p) == Pair(n, p) \in links

Kind == {"NodeTypeRequest", "NodeTypeAnswer", "ManagerRequest", "Accepted",
         "ManagerBye", "ManagerPing", "ManagerPong", "NotMine", "TasksExecute", "TaskStatus"}
Message(k, n, p) == [kind |-> k, from |-> n, to |-> p]
Messages == {Message(k, n, p) : k \in Kind, n \in Node, p \in Node}

------------------------------------------------------------------------------
(* The ages of a relationship. waiting: last_pong is before last_ping.     *)

MaxAge == IF Timeout > Interval THEN Timeout ELSE Interval + 1
Fresh == [waiting |-> FALSE, ping |-> 0, pong |-> 0]
NoRelation == [p \in {} |-> Fresh]
Aged(age) == IF age < MaxAge THEN age + 1 ELSE age
Older(r) == [waiting |-> r.waiting, ping |-> Aged(r.ping), pong |-> Aged(r.pong)]
Pinged(r) == [waiting |-> TRUE, ping |-> 0, pong |-> r.pong]
Ponged(r) == [waiting |-> FALSE, ping |-> r.ping, pong |-> 0]

IsTimedOut(r) == r.waiting /\ r.pong >= Timeout
NeedsPing(r) == ~IsTimedOut(r) /\ r.pong > Interval /\ r.ping > Interval

is_in_relationship_with(n, p) == p \in DOMAIN rel[n]
is_manager_authorized(w, m) == m \in AuthorizedIds \/ (m \in AuthorizedAddrs /\ m \in found[w])

Without(f, p) == [q \in DOMAIN f \ {p} |-> f[q]]

(* break_worker_manager_relationship *)
Break(n, p) == rel' = [rel EXCEPT ![n] = Without(@, p)]

(* The relationship starts. *)
Relate(n, p, others) ==
    rel' = [rel EXCEPT ![n] =
               [q \in DOMAIN others \cup {p} |-> IF q = p THEN Fresh ELSE others[q]]]

Update(n, p, r) == rel' = [rel EXCEPT ![n][p] = r]

------------------------------------------------------------------------------
Init ==
    /\ status = [n \in Node |-> "running"]
    /\ known = [n \in Node |-> {}] /\ found = [n \in Node |-> {}]
    /\ links = {} /\ dials = Bootstrap
    /\ pending = [n \in Node |-> {}]
    /\ rel = [n \in Node |-> NoRelation] /\ related = {} /\ net = {}
    /\ orders = 0 /\ lost = 0 /\ cuts = 0

(* A message goes out now, after a dial, or, when shutting down, nowhere   *)
(* (MsgDropped). in_flight is net without the message being answered.      *)
send_to_peer_or_dial(n, msgs, in_flight) ==
    IF status[n] # "running"
    THEN net' = in_flight /\ UNCHANGED <<pending, dials>>
    ELSE LET later == {m \in msgs : ~Connected(n, m.to)} IN
         /\ net' = in_flight \cup (msgs \ later)
         /\ pending' = [pending EXCEPT ![n] = @ \cup later]
         /\ dials' = dials \cup {Pair(n, m.to) : m \in later}

------------------------------------------------------------------------------
(* Connections. A new peer is dialed once; then only a message that waits  *)
(* for it dials it again.                                                  *)

Mdns(n, p) ==
    /\ Up(n) /\ Up(p)
    /\ <<n, p>> \in Announced /\ p \notin found[n]
    /\ found' = [found EXCEPT ![n] = @ \cup {p}]
    /\ dials' = IF Connected(n, p) THEN dials ELSE dials \cup {Pair(n, p)}
    /\ UNCHANGED <<status, known, links, pending, rel, related, orders, net, lost, cuts>>

(* inject_connected at one end: ask the type, send what waited *)
OnConnected(n, p) ==
    (IF p \in known[n] THEN {} ELSE {Message("NodeTypeRequest", n, p)})
      \cup (IF status[n] = "running" THEN {m \in pending[n] : m.to = p} ELSE {})

KeepFor(n, p) == {m \in pending[n] : m.to # p}

inject_connected_NoDrain(w, m) ==
    /\ <<w, m>> \in dials
    /\ Up(w) /\ Up(m)
    /\ dials' = dials \ {<<w, m>>} /\ links' = links \cup {<<w, m>>}
    /\ net' = net \cup {x \in OnConnected(w, m) \cup OnConnected(m, w) :
                          x.kind = "NodeTypeRequest"}
    /\ UNCHANGED <<status, known, found, pending, rel, related, orders, lost, cuts>>

inject_connected(w, m) ==
    /\ <<w, m>> \in dials
    /\ Up(w) /\ Up(m)
    /\ dials' = dials \ {<<w, m>>} /\ links' = links \cup {<<w, m>>}
    /\ net' = net \cup OnConnected(w, m) \cup OnConnected(m, w)
    /\ pending' = [pending EXCEPT ![w] = KeepFor(w, m), ![m] = KeepFor(m, w)]
    /\ UNCHANGED <<status, known, found, rel, related, orders, lost, cuts>>

(* A dial that fails is only logged: what waits goes on waiting. *)
DialFails(w, m) ==
    /\ <<w, m>> \in dials
    /\ dials' = dials \ {<<w, m>>}
    /\ UNCHANGED <<status, known, found, links, pending, rel, related, orders, net, lost, cuts>>

Between(w, m) == {x \in net : {x.from, x.to} = {w, m}}

(* The connection is cut with its substreams; the relationship is not. *)
inject_disconnected(w, m) ==
    /\ <<w, m>> \in links /\ cuts < MaxCuts
    /\ cuts' = cuts + 1
    /\ links' = links \ {<<w, m>>} /\ net' = net \ Between(w, m)
    /\ UNCHANGED <<status, known, found, dials, pending, rel, related, orders, lost>>

(* A substream fails: QueryError, which changes nothing. *)
Lose(x) ==
    /\ x \in net /\ lost < MaxLost
    /\ net' = net \ {x} /\ lost' = lost + 1
    /\ UNCHANGED <<status, known, found, links, dials, pending, rel, related, orders, cuts>>

------------------------------------------------------------------------------
(* The messages of a peer: handler_event *)

Gets(x, kinds) ==
    /\ x \in net /\ x.kind \in kinds
    /\ Up(x.to)

(* What the handler of x answers and sends through the connection of x *)
Answers(x, kinds) == (net \ {x}) \cup {Message(k, x.to, x.from) : k \in kinds}

AsksFor_EachTime(n, p) ==
    /\ n \in Worker
    /\ DOMAIN rel[n] = {}
    /\ is_manager_authorized(n, p)

(* The worker asks a manager when it first learns it is one. *)
AsksFor(n, p) ==
    /\ n \in Worker /\ p \notin known[n]
    /\ DOMAIN rel[n] = {}
    /\ is_manager_authorized(n, p)

Requests(n, p) == IF AsksFor(n, p) THEN {"ManagerRequest"} ELSE {}

(* node_type_request registers the type as node_type_answer does. *)
node_type(x) ==
    /\ Gets(x, {"NodeTypeRequest", "NodeTypeAnswer"})
    /\ known' = [known EXCEPT ![x.to] = @ \cup {x.from}]
    /\ net' = Answers(x, Requests(x.to, x.from)
                 \cup (IF x.kind = "NodeTypeRequest" /\ x.to \notin known[x.from]
                      THEN {"NodeTypeAnswer"} ELSE {}))
    /\ UNCHANGED <<links_etc, dials, pending, rel, related>>

(* The handler locks a peer it has locked already: nothing of this node      *)
(* runs any more, and nothing is answered.                                  *)
Blocks(x) ==
    /\ status' = [status EXCEPT ![x.to] = "blocked"]
    /\ net' = Answers(x, {})
    /\ UNCHANGED rel

(* A manager accepts every peer it knows to be a worker. The branch that    *)
(* refuses reads the peer while the condition still has it locked to write. *)
manager_request(x) ==
    /\ Gets(x, {"ManagerRequest"})
    /\ IF x.from \in known[x.to]
       THEN /\ Relate(x.to, x.from, rel[x.to])
            /\ related' = related \cup {<<x.from, x.to>>}
            /\ net' = Answers(x, {"Accepted"})
            /\ UNCHANGED status
       ELSE Blocks(x) /\ UNCHANGED related
    /\ UNCHANGED <<links_orders, known, dials, pending>>

Accepted_NoBye(x) ==
    /\ Gets(x, {"Accepted"})
    /\ IF DOMAIN rel[x.to] = {} THEN Relate(x.to, x.from, NoRelation) ELSE UNCHANGED rel
    /\ net' = Answers(x, {})
    /\ UNCHANGED <<links_etc, known, dials, pending, related>>

(* manager_answer: the first authorized manager that accepts is the manager, *)
(* any other that does is told good bye. If one's own manager accepts again, *)
(* it is to be sent a ping, which locks the peer the match has locked.      *)
Accepted(x) ==
    /\ Gets(x, {"Accepted"})
    /\ IF is_in_relationship_with(x.to, x.from) /\ status[x.to] = "running"
       THEN Blocks(x)
       ELSE /\ UNCHANGED status
            /\ IF DOMAIN rel[x.to] = {} /\ is_manager_authorized(x.to, x.from)
               THEN Relate(x.to, x.from, NoRelation) /\ net' = Answers(x, {})
               ELSE /\ UNCHANGED rel
                    /\ net' = Answers(x, IF is_in_relationship_with(x.to, x.from)
                                         THEN {} ELSE {"ManagerBye"})
    /\ UNCHANGED <<links_orders, known, dials, pending, related>>

(* manager_bye, not_mine: the peer has left. *)
Leaves(x) ==
    /\ Gets(x, {"ManagerBye", "NotMine"})
    /\ IF is_in_relationship_with(x.to, x.from)
       THEN Break(x.to, x.from) ELSE UNCHANGED rel
    /\ net' = Answers(x, {})
    /\ UNCHANGED <<links_etc, known, dials, pending, related>>

needs_relationship_with_Not(x, answer) == answer

needs_relationship_with(x, answer) ==
    IF is_in_relationship_with(x.to, x.from) THEN answer ELSE {"NotMine"}

(* manager_ping, tasks_execute and task_status, the last two acknowledged *)
Asks(x) ==
    /\ Gets(x, {"ManagerPing", "TasksExecute", "TaskStatus"})
    /\ net' = Answers(x, needs_relationship_with(x,
                 IF x.kind = "ManagerPing" THEN {"ManagerPong"} ELSE {}))
    /\ UNCHANGED <<links_etc, known, dials, pending, rel, related>>

manager_pong(x) ==
    /\ Gets(x, {"ManagerPong"})
    /\ IF is_in_relationship_with(x.to, x.from)
       THEN Update(x.to, x.from, Ponged(rel[x.to][x.from])) ELSE UNCHANGED rel
    /\ net' = Answers(x, {})
    /\ UNCHANGED <<links_etc, known, dials, pending, related>>

Receive(x) ==
    \/ node_type(x) \/ manager_request(x) \/ Accepted(x)
    \/ Leaves(x) \/ Asks(x) \/ manager_pong(x)

------------------------------------------------------------------------------
(* The checks at the start of every poll *)

Checks(n, p) == status[n] = "running" /\ is_in_relationship_with(n, p)

TimedOut(n, p) ==
    /\ Checks(n, p) /\ IsTimedOut(rel[n][p])
    /\ send_to_peer_or_dial(n, {Message("ManagerBye", n, p)}, net)
    /\ Break(n, p)
    /\ UNCHANGED <<links_etc, known, related>>

Ping(n, p) ==
    /\ Checks(n, p) /\ NeedsPing(rel[n][p])
    /\ Update(n, p, Pinged(rel[n][p]))
    /\ send_to_peer_or_dial(n, {Message("ManagerPing", n, p)}, net)
    /\ UNCHANGED <<links_etc, known, related>>

Poll(n) == \E p \in Peers(n) : TimedOut(n, p) \/ Ping(n, p)

Tick ==
    /\ rel' = [n \in Node |-> [p \in DOMAIN rel[n] |-> Older(rel[n][p])]]
    /\ rel' # rel
    /\ UNCHANGED <<links_etc, known, dials, pending, related, net>>

------------------------------------------------------------------------------
(* The application: handle_event_in *)

Orders == orders < MaxOrders /\ orders' = orders + 1

(* To a worker the application was told of: it may have left since. *)
TasksExecute(m, w) ==
    /\ Orders
    /\ Up(m) /\ <<w, m>> \in related
    /\ send_to_peer_or_dial(m, {Message("TasksExecute", m, w)}, net)
    /\ UNCHANGED <<status, found, links, known, rel, related, lost, cuts>>

TaskStatus(w, m) ==
    /\ Orders
    /\ Up(w) /\ is_in_relationship_with(w, m)
    /\ send_to_peer_or_dial(w, {Message("TaskStatus", w, m)}, net)
    /\ UNCHANGED <<status, found, links, known, rel, related, lost, cuts>>

(* A worker forgets its manager, a manager keeps its workers. *)
Bye(n) ==
    /\ Orders
    /\ status[n] = "running"
    /\ status' = [status EXCEPT ![n] = "shutting"]
    /\ send_to_peer_or_dial(n, {Message("ManagerBye", n, p) : p \in DOMAIN rel[n]}, net)
    /\ rel' = IF n \in Worker THEN [rel EXCEPT ![n] = NoRelation] ELSE rel
    /\ UNCHANGED <<known, found, links, related, lost, cuts>>

(* The process ends, after Bye or without it. *)
Stop(n) ==
    /\ status[n] # "stopped"
    /\ Cardinality({o \in Node : status[o] = "stopped"}) < MaxStops
    /\ status' = [status EXCEPT ![n] = "stopped"]
    /\ links' = {l \in links : l[1] # n /\ l[2] # n}
    /\ net' = {x \in net : x.from # n /\ x.to # n}
    /\ rel' = [rel EXCEPT ![n] = NoRelation]
    /\ pending' = [pending EXCEPT ![n] = {}]
    /\ UNCHANGED <<known, found, dials, related, orders, lost, cuts>>

------------------------------------------------------------------------------
Next ==
    \/ \E w \in Worker, m \in Manager :
          \/ inject_connected(w, m) \/ DialFails(w, m) \/ inject_disconnected(w, m)
          \/ TasksExecute(m, w) \/ TaskStatus(w, m)
          \/ Mdns(w, m) \/ Mdns(m, w)
    \/ \E x \in net : Receive(x) \/ Lose(x)
    \/ \E n \in Node : Poll(n) \/ Bye(n) \/ Stop(n)
    \/ Tick

(* Time passes; the swarm of a node is polled again and again: its delays, *)
(* the timers of the libp2p ping and of mdns, and every event of the       *)
(* network wake it. Nothing is assumed of the network: messages may wait   *)
(* for ever.                                                               *)
Fairness == WF_vars(Tick) /\ \A n \in Node : WF_vars(Poll(n))

Spec == Init /\ [][Next]_vars /\ Fairness

------------------------------------------------------------------------------
(* Properties *)

Age == [waiting : BOOLEAN, ping : 0..MaxAge, pong : 0..MaxAge]

(* A node is in relationship with nodes of the other kind. A message in     *)
(* flight has a connection, one that waits for a dial has none: none is     *)
(* forgotten by the connection it waited for.                               *)
TypeOK ==
    /\ \A n \in Node :
          /\ DOMAIN rel[n] \subseteq Peers(n)
          /\ \A p \in DOMAIN rel[n] : rel[n][p] \in Age
          /\ known[n] \subseteq Peers(n) /\ found[n] \subseteq Peers(n)
          /\ status[n] \in {"running", "shutting", "blocked", "stopped"}
          /\ \A x \in pending[n] : x \in Messages /\ x.from = n /\ ~Connected(n, x.to)
    /\ links \subseteq Worker \X Manager /\ dials \subseteq Worker \X Manager
    /\ net \subseteq Messages
    /\ \A x \in net : Connected(x.from, x.to)

(* A worker asks a manager once per process: a relationship that ended,     *)
(* whatever end found out first and however it did, never starts again.     *)
RelationshipOnce ==
    [][\A w \in Worker, m \in Manager :
         w \in DOMAIN rel'[m] /\ w \notin DOMAIN rel[m] => <<w, m>> \notin related]_vars

Half(n, p) ==
    /\ status[n] = "running"
    /\ is_in_relationship_with(n, p) /\ ~is_in_relationship_with(p, n)

(* A worker that does not want a manager that accepted it, or not any more,  *)
(* says so: as long as no message is lost, an acceptance, a good bye or a   *)
(* refusal of one of its messages is on its way to tell the manager.        *)
ManagerIsTold ==
    \A w \in Worker, m \in Manager :
        Half(m, w) /\ lost = 0 /\ cuts = 0 /\ status[w] # "stopped" =>
            \/ Message("Accepted", m, w) \in net
            \/ \E k \in {"ManagerBye", "NotMine"} : Message(k, w, m) \in net

(* A relationship that only one end believes in ends: lost answers and      *)
(* goodbyes, a second manager that accepted, a process that stopped are all *)
(* found out by the pings (config.rs:83-91), whatever the network does.     *)
HalfRelationshipEnds ==
    \A w \in Worker, m \in Manager :
        /\ Half(m, w) ~> ~Half(m, w)
        /\ Half(w, m) ~> ~Half(w, m)

(* "it will be stored on hold and a dialing request will be made"           *)
(* (mod.rs:181-182): a message for a peer in relationship does not wait for *)
(* ever: it goes out at the next connection, or the relationship ends.      *)
PendingEnds ==
    \A n \in Node : \A p \in Peers(n) :
        LET Waits == /\ status[n] = "running" /\ is_in_relationship_with(n, p)
                     /\ \E x \in pending[n] : x.to = p
        IN  Waits ~> ~Waits

(* "Maximum interval to wait after a ManagerPing to receive a ManagerPong"  *)
(* (config.rs:88): a peer is given up only when the last ping is that old,  *)
(* or at least as old as the interval, which is shorter.                    *)
PingGetsItsTime ==
    [][\A n \in Node : \A p \in Peers(n) : TimedOut(n, p) => rel[n][p].ping >= Timeout]_vars

(* "For request messages, the handling function has to return a             *)
(* Poll::Ready(NetworkBehaviourAction::NotifyHandler {..}) value"           *)
(* (mod.rs:617-618). Of the two handlers that can block on the lock of a    *)
(* peer, that of a worker never does: it asks once, so that its own manager *)
(* never accepts again. A manager does only for a worker that knew it first *)
(* and whose request overtook the answer with its own type.                 *)
OnlyOvertakenBlocks ==
    \A n \in Node : status[n] = "blocked" =>
        /\ n \in Manager
        /\ \E w \in Worker : n \in known[w] /\ w \notin known[n]
==============================================================================

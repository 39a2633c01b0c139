-------------------------- MODULE RelationshipProofs --------------------------
(***************************************************************************)
(* Proofs about the relationship of workers and managers, for any nodes,   *)
(* authorizations, intervals and bounds.                                   *)
(***************************************************************************)
EXTENDS Relationship, TLAPS

------------------------------------------------------------------------------
(* The inductive invariant *)

(* What a node sends by itself; the rest answers a message of a connection. *)
Spontaneous == {"ManagerBye", "ManagerPing", "TasksExecute", "TaskStatus"}

Outgoing(n, msgs) ==
    \A x \in msgs : /\ x \in Messages
                    /\ x.from = n /\ x.to \in Peers(n) /\ x.kind \in Spontaneous

NodesOK ==
    /\ status \in [Node -> {"running", "shutting", "blocked", "stopped"}]
    /\ known \in [Node -> SUBSET Node] /\ \A n \in Node : known[n] \subseteq Peers(n)
    /\ found \in [Node -> SUBSET Node] /\ \A n \in Node : found[n] \subseteq Peers(n)

PendingOK ==
    /\ pending \in [Node -> SUBSET Messages]
    /\ \A n \in Node : Outgoing(n, pending[n]) /\ \A x \in pending[n] : ~Connected(n, x.to)

LinksOK == links \subseteq Worker \X Manager /\ dials \subseteq Worker \X Manager

(* A worker asks a manager it knows and that never accepted it; only        *)
(* managers accept.                                                         *)
RoleOK(x) ==
    /\ x.kind = "ManagerRequest" =>
          /\ x.from \in Worker /\ x.to \in known[x.from]
          /\ <<x.from, x.to>> \notin related
    /\ x.kind = "Accepted" => x.from \in Manager

NetOK == \A x \in net : x \in Messages /\ Connected(x.from, x.to) /\ RoleOK(x)

(* The worker a manager accepted knows it: it will not ask again. *)
RelatedKnown == \A w \in Worker, m \in Manager : <<w, m>> \in related => m \in known[w]

RelInv ==
    /\ DOMAIN rel = Node
    /\ \A n \in Node : /\ DOMAIN rel[n] \subseteq Peers(n)
                       /\ \A p \in DOMAIN rel[n] : rel[n][p] \in Age

NetInv == NodesOK /\ PendingOK /\ LinksOK /\ NetOK /\ RelatedKnown
IInv == NetInv /\ RelInv

(* What a step must not do to the relationships of managers *)
StartsOnce ==
    \A w \in Worker, m \in Manager :
        w \in DOMAIN rel'[m] /\ w \notin DOMAIN rel[m] => <<w, m>> \notin related

------------------------------------------------------------------------------
(* Messages, peers and ages *)

LEMMA MessageShape ==
    /\ \A k \in Kind, n \in Node, p \in Node :
          /\ Message(k, n, p) \in Messages
          /\ Message(k, n, p).kind = k
          /\ Message(k, n, p).from = n /\ Message(k, n, p).to = p
    /\ \A x \in Messages : /\ x.kind \in Kind /\ x.from \in Node /\ x.to \in Node
                           /\ x = Message(x.kind, x.from, x.to)
  BY DEF Message, Messages

LEMMA PeersShape ==
    /\ \A n \in Node : Peers(n) \subseteq Node
    /\ \A n \in Node : \A p \in Peers(n) :
          n \in Peers(p) /\ Pair(n, p) = Pair(p, n) /\ Pair(n, p) \in Worker \X Manager
    /\ \A w \in Worker : Peers(w) = Manager
    /\ \A m \in Manager : Peers(m) = Worker
  BY RelationshipAssumption DEF Peers, Pair, Node

(* The two ends of a message are a worker and a manager, connected. *)
LEMMA NetShape ==
    ASSUME NetInv, NEW x \in net
    PROVE  /\ x \in Messages /\ x.from \in Node /\ x.to \in Node
           /\ x.from \in Peers(x.to) /\ x.to \in Peers(x.from)
           /\ Connected(x.from, x.to) /\ Connected(x.to, x.from)
<1>1. x \in Messages /\ Connected(x.from, x.to) /\ links \subseteq Worker \X Manager
  BY DEF NetInv, NetOK, LinksOK
<1>2. x.from \in Node /\ x.to \in Node
  BY <1>1, MessageShape
<1>3. x.to \in Peers(x.from)
  BY <1>1, <1>2 DEF Connected, Pair, Peers, Node
<1>4. x.from \in Peers(x.to) /\ Pair(x.from, x.to) = Pair(x.to, x.from)
  BY <1>2, <1>3, PeersShape
<1>. QED
  BY <1>1, <1>2, <1>3, <1>4 DEF Connected

LEMMA Ages ==
    /\ MaxAge \in Nat /\ Fresh \in Age
    /\ \A r \in Age : Older(r) \in Age /\ Pinged(r) \in Age /\ Ponged(r) \in Age
<1>1. MaxAge \in Nat
  BY RelationshipAssumption DEF MaxAge
<1>2. Fresh \in Age
  BY <1>1 DEF Fresh, Age
<1>3. \A age \in 0..MaxAge : Aged(age) \in 0..MaxAge
  BY <1>1 DEF Aged
<1>4. ASSUME NEW r \in Age PROVE Older(r) \in Age /\ Pinged(r) \in Age /\ Ponged(r) \in Age
  <2>1. r.waiting \in BOOLEAN /\ r.ping \in 0..MaxAge /\ r.pong \in 0..MaxAge
    BY DEF Age
  <2>2. Older(r) \in Age
    BY <1>3, <2>1 DEF Older, Age
  <2>3. Pinged(r) \in Age /\ Ponged(r) \in Age
    BY <1>1, <2>1 DEF Pinged, Ponged, Age
  <2>. QED
    BY <2>2, <2>3
<1>. QED
  BY <1>1, <1>2, <1>4

------------------------------------------------------------------------------
(* What the helpers do to the messages *)

LEMMA SendKeeps ==
    ASSUME NetInv, NEW n \in Node, NEW msgs, Outgoing(n, msgs),
           send_to_peer_or_dial(n, msgs, net),
           UNCHANGED <<links, known, related>>
    PROVE  PendingOK' /\ LinksOK' /\ NetOK'
<1>1. CASE status[n] # "running"
  <2>1. UNCHANGED <<net, pending, dials, links, known, related>>
    BY <1>1 DEF send_to_peer_or_dial
  <2>. QED
    BY <2>1 DEF NetInv, PendingOK, LinksOK, NetOK, RoleOK, Connected
<1>2. CASE status[n] = "running"
  <2>. DEFINE later == {m \in msgs : ~Connected(n, m.to)}
  <2>1. /\ net' = net \cup (msgs \ later)
        /\ pending' = [pending EXCEPT ![n] = @ \cup later]
        /\ dials' = dials \cup {Pair(n, m.to) : m \in later}
    BY <1>2 DEF send_to_peer_or_dial
  <2>2. PendingOK'
    BY <2>1 DEF NetInv, PendingOK, Outgoing, Connected
  <2>3. \A m \in later : Pair(n, m.to) \in Worker \X Manager
    BY PeersShape DEF Outgoing
  <2>4. LinksOK'
    BY <2>1, <2>3 DEF NetInv, LinksOK
  <2>5. ASSUME NEW x \in msgs \ later
        PROVE  x \in Messages /\ Connected(x.from, x.to) /\ RoleOK(x)
    BY <2>5 DEF Outgoing, Spontaneous, RoleOK
  <2>6. NetOK'
    BY <2>1, <2>5 DEF NetInv, NetOK, RoleOK, Connected
  <2>. QED
    BY <2>2, <2>4, <2>6
<1>. QED
  BY <1>1, <1>2

LEMMA AnswersKeep ==
    ASSUME NetInv, NEW x \in net, NEW kinds \in SUBSET Kind,
           net' = Answers(x, kinds), links' = links,
           known' = known \/ known' = [known EXCEPT ![x.to] = @ \cup {x.from}],
           \/ related' = related
           \/ x.kind = "ManagerRequest" /\ related' = related \cup {<<x.from, x.to>>},
           "Accepted" \in kinds => x.to \in Manager,
           "ManagerRequest" \in kinds =>
              /\ x.to \in Worker /\ x.from \in known'[x.to]
              /\ <<x.to, x.from>> \notin related'
    PROVE  NetOK'
<1>1. \A n \in Node : known[n] \subseteq known'[n]
  BY DEF NetInv, NodesOK
<1>2. ASSUME NEW y \in net, y # x PROVE (y \in Messages /\ Connected(y.from, y.to) /\ RoleOK(y))'
  <2>1. y \in Messages /\ Connected(y.from, y.to) /\ RoleOK(y) /\ y.from \in Node
    BY MessageShape DEF NetInv, NetOK
  <2>2. x.kind = "ManagerRequest" /\ y.kind = "ManagerRequest" => <<y.from, y.to>> # <<x.from, x.to>>
    BY <1>2, <2>1, NetShape, MessageShape
  <2>. QED
    BY <1>1, <2>1, <2>2 DEF RoleOK, Connected
<1>3. ASSUME NEW k \in kinds
      PROVE  /\ Message(k, x.to, x.from) \in Messages
             /\ Connected(x.to, x.from)'
             /\ RoleOK(Message(k, x.to, x.from))'
  <2>1. /\ Message(k, x.to, x.from) \in Messages
        /\ Message(k, x.to, x.from).kind = k
        /\ Message(k, x.to, x.from).from = x.to /\ Message(k, x.to, x.from).to = x.from
    BY NetShape, MessageShape
  <2>2. Connected(x.to, x.from)'
    BY NetShape DEF Connected
  <2>. QED
    BY <2>1, <2>2 DEF RoleOK
<1>4. \A k \in kinds : /\ Message(k, x.to, x.from).from = x.to
                       /\ Message(k, x.to, x.from).to = x.from
  BY NetShape, MessageShape
<1>. QED
  BY <1>2, <1>3, <1>4 DEF NetOK, Answers

------------------------------------------------------------------------------
(* What the helpers do to the relationships *)

LEMMA RelationsUnchanged ==
    ASSUME RelInv, UNCHANGED rel
    PROVE  RelInv' /\ StartsOnce
  BY DEF RelInv, StartsOnce

LEMMA RelateKeeps ==
    ASSUME RelInv, NEW n \in Node, NEW p \in Peers(n), NEW others,
           others = rel[n] \/ (others = NoRelation /\ DOMAIN rel[n] = {}),
           Relate(n, p, others)
    PROVE  RelInv' /\ \A m \in Node : DOMAIN rel'[m] = IF m = n THEN DOMAIN rel[n] \cup {p}
                                                       ELSE DOMAIN rel[m]
<1>. DEFINE f == [q \in DOMAIN others \cup {p} |-> IF q = p THEN Fresh ELSE others[q]]
<1>1. rel' = [rel EXCEPT ![n] = f]
  BY DEF Relate
<1>2. DOMAIN others = DOMAIN rel[n]
  BY DEF NoRelation
<1>3. DOMAIN f = DOMAIN rel[n] \cup {p}
  BY <1>2
<1>4. \A q \in DOMAIN f : f[q] \in Age
  <2>1. ASSUME NEW q \in DOMAIN f, q # p PROVE others[q] \in Age
    BY <1>3, <2>1 DEF RelInv, NoRelation
  <2>. QED
    BY <2>1, Ages
<1>5. DOMAIN rel' = Node /\ rel'[n] = f /\ \A m \in Node : m # n => rel'[m] = rel[m]
  BY <1>1 DEF RelInv
<1>. HIDE DEF f
<1>6. RelInv'
  BY <1>3, <1>4, <1>5 DEF RelInv
<1>. QED
  BY <1>3, <1>5, <1>6

LEMMA BreakKeeps ==
    ASSUME RelInv, NEW n \in Node, NEW p, Break(n, p)
    PROVE  RelInv' /\ StartsOnce
<1>1. /\ DOMAIN rel' = Node /\ DOMAIN rel'[n] = DOMAIN rel[n] \ {p}
      /\ \A q \in DOMAIN rel'[n] : rel'[n][q] = rel[n][q]
      /\ \A m \in Node : m # n => rel'[m] = rel[m]
  BY DEF RelInv, Break, Without
<1>2. RelInv'
  BY <1>1 DEF RelInv
<1>3. StartsOnce
  BY <1>1 DEF StartsOnce, Node
<1>. QED
  BY <1>2, <1>3

(* Only the ages change. *)
LEMMA AgesKeep ==
    ASSUME RelInv, DOMAIN rel' = Node,
           \A n \in Node : /\ DOMAIN rel'[n] = DOMAIN rel[n]
                           /\ \A p \in DOMAIN rel[n] : rel'[n][p] \in Age
    PROVE  RelInv' /\ StartsOnce
  BY DEF RelInv, StartsOnce, Node

LEMMA UpdateKeeps ==
    ASSUME RelInv, NEW n \in Node, NEW p \in DOMAIN rel[n], NEW r \in Age,
           Update(n, p, r)
    PROVE  RelInv' /\ StartsOnce
<1>1. /\ DOMAIN rel' = Node
      /\ \A m \in Node : /\ DOMAIN rel'[m] = DOMAIN rel[m]
                         /\ \A q \in DOMAIN rel[m] : rel'[m][q] \in Age
  BY DEF RelInv, Update
<1>. QED
  BY <1>1, AgesKeep

(* A node forgets all its relationships. *)
LEMMA ForgetKeeps ==
    ASSUME RelInv, NEW n \in Node,
           rel' = [rel EXCEPT ![n] = NoRelation]
    PROVE  RelInv' /\ StartsOnce
<1>1. DOMAIN NoRelation = {}
  BY DEF NoRelation
<1>2. DOMAIN rel' = Node /\ rel'[n] = NoRelation /\ \A m \in Node : m # n => rel'[m] = rel[m]
  BY DEF RelInv
<1>. HIDE DEF NoRelation
<1>3. RelInv'
  BY <1>1, <1>2 DEF RelInv
<1>4. StartsOnce
  BY <1>1, <1>2 DEF StartsOnce, Node
<1>. QED
  BY <1>3, <1>4

------------------------------------------------------------------------------
(* Every step keeps the invariant and starts a relationship once. *)

LEMMA InitEstablishes == Init => IInv
<1>. SUFFICES ASSUME Init PROVE IInv
  OBVIOUS
<1>1. NodesOK /\ PendingOK /\ NetOK /\ RelatedKnown
  BY DEF Init, NodesOK, PendingOK, NetOK, RelatedKnown, Outgoing
<1>2. LinksOK
  BY RelationshipAssumption DEF Init, LinksOK
<1>3. RelInv
  BY DEF Init, RelInv, NoRelation, Node
<1>. QED
  BY <1>1, <1>2, <1>3 DEF IInv, NetInv

Kept == NetInv' /\ RelInv' /\ StartsOnce

LEMMA ConnectedKeeps ==
    ASSUME IInv, NEW w \in Worker, NEW m \in Manager, inject_connected(w, m)
    PROVE  Kept
<1>. USE DEF IInv
<1>1. NodesOK' /\ RelatedKnown' /\ RelInv' /\ StartsOnce
  BY RelationsUnchanged DEF inject_connected, NetInv, NodesOK, RelatedKnown
<1>2. LinksOK' /\ Connected(w, m)' /\ Connected(m, w)'
  BY RelationshipAssumption DEF inject_connected, NetInv, LinksOK, Connected, Pair
<1>3. PendingOK'
  <2>1. /\ pending' = [pending EXCEPT ![w] = KeepFor(w, m), ![m] = KeepFor(m, w)]
        /\ links' = links \cup {<<w, m>>}
    BY DEF inject_connected
  <2>2. w \in Node /\ m \in Node /\ w # m
    BY RelationshipAssumption DEF Node
  <2>3. ASSUME NEW n \in Node, NEW x \in pending'[n] PROVE ~Connected(n, x.to)'
    <3>1. x \in pending[n] /\ x.to \in Peers(n) /\ ~Connected(n, x.to)
      BY <2>1, <2>2, <2>3 DEF NetInv, PendingOK, Outgoing, KeepFor
    <3>2. (n = w => x.to # m) /\ (n = m => x.to # w)
      BY <2>1, <2>2, <2>3 DEF NetInv, PendingOK, KeepFor
    <3>3. Pair(n, x.to) # <<w, m>>
      BY <3>1, <3>2 DEF Pair
    <3>. QED
      BY <2>1, <3>1, <3>3 DEF Connected
  <2>4. pending' \in [Node -> SUBSET Messages] /\ \A n \in Node : Outgoing(n, pending'[n])
    BY <2>1, <2>2 DEF NetInv, PendingOK, Outgoing, KeepFor
  <2>. QED
    BY <2>3, <2>4 DEF PendingOK, Outgoing
<1>4. ASSUME NEW n \in Node, NEW p \in Node, <<n, p>> \in {<<w, m>>, <<m, w>>}, NEW x \in OnConnected(n, p)
      PROVE  (x \in Messages /\ Connected(x.from, x.to) /\ RoleOK(x))'
  <2>1. x \in Messages /\ x.from = n /\ x.to = p
           /\ (x.kind = "NodeTypeRequest" \/ x.kind \in Spontaneous)
    BY MessageShape DEF OnConnected, Kind, NetInv, PendingOK, Outgoing
  <2>. QED
    BY <1>2, <1>4, <2>1 DEF RoleOK, Spontaneous
<1>5. ASSUME NEW x \in net PROVE (x \in Messages /\ Connected(x.from, x.to) /\ RoleOK(x))'
  BY DEF inject_connected, NetInv, NetOK, Connected, RoleOK
<1>6. NetOK'
  BY <1>4, <1>5 DEF inject_connected, NetOK, Node
<1>. QED
  BY <1>1, <1>2, <1>3, <1>6 DEF Kept, NetInv

(* Steps that take connections or messages away, or learn an address *)
LEMMA NetworkKeeps ==
    ASSUME IInv, NEW w \in Worker, NEW m \in Manager,
           \/ DialFails(w, m) \/ inject_disconnected(w, m)
           \/ Mdns(w, m) \/ Mdns(m, w) \/ \E x \in net : Lose(x)
    PROVE  Kept
<1>. USE DEF IInv
<1>1. UNCHANGED <<status, known, pending, rel, related>> /\ net' \subseteq net
  BY DEF DialFails, inject_disconnected, Mdns, Lose
<1>2. NodesOK'
  <2>1. \/ found' = found
        \/ found' = [found EXCEPT ![w] = @ \cup {m}]
        \/ found' = [found EXCEPT ![m] = @ \cup {w}]
    BY DEF DialFails, inject_disconnected, Mdns, Lose
  <2>2. w \in Node /\ m \in Node /\ m \in Peers(w) /\ w \in Peers(m)
    BY PeersShape DEF Node
  <2>3. found' \in [Node -> SUBSET Node] /\ \A n \in Node : found'[n] \subseteq Peers(n)
    BY <2>1, <2>2 DEF NetInv, NodesOK
  <2>. QED
    BY <1>1, <2>3 DEF NetInv, NodesOK
<1>3. LinksOK'
  BY RelationshipAssumption
     DEF DialFails, inject_disconnected, Mdns, Lose, NetInv, LinksOK, Pair
<1>4. \A x \in net' : Connected(x.from, x.to)'
  <2>1. ASSUME inject_disconnected(w, m), NEW x \in net' PROVE Connected(x.from, x.to)'
    <3>1. x \in net /\ x \notin Between(w, m) /\ links' = links \ {<<w, m>>}
      BY <2>1 DEF inject_disconnected
    <3>2. Connected(x.from, x.to) /\ x.from \in Node /\ x.to \in Node
      BY <3>1, NetShape
    <3>3. Pair(x.from, x.to) # <<w, m>>
      BY <3>1 DEF Between, Pair
    <3>. QED
      BY <3>1, <3>2, <3>3 DEF Connected
  <2>2. ASSUME ~inject_disconnected(w, m) PROVE links' = links
    BY <2>2 DEF DialFails, Mdns, Lose
  <2>. QED
    BY <1>1, <2>1, <2>2 DEF NetInv, NetOK, Connected
<1>5. RelatedKnown' /\ NetOK'
  BY <1>1, <1>4 DEF NetInv, RelatedKnown, NetOK, RoleOK
<1>6. links' \subseteq links
  BY DEF DialFails, inject_disconnected, Mdns, Lose
<1>7. PendingOK'
  BY <1>1, <1>6 DEF NetInv, PendingOK, Outgoing, Connected
<1>8. RelInv' /\ StartsOnce
  BY <1>1, RelationsUnchanged
<1>. QED
  BY <1>2, <1>3, <1>5, <1>7, <1>8 DEF Kept, NetInv

(* A handler leaves what waits for a connection as it was, and the nodes,   *)
(* but that it may block its own.                                           *)
MayBlock(n) == status' = status \/ status' = [status EXCEPT ![n] = "blocked"]

LEMMA HandlerKeeps ==
    ASSUME NetInv, UNCHANGED <<links_orders, dials, pending>>, UNCHANGED known,
           NEW n \in Node, MayBlock(n)
    PROVE  NodesOK' /\ PendingOK' /\ LinksOK'
  BY DEF links_orders, NetInv, NodesOK, PendingOK, Outgoing, LinksOK, Connected, MayBlock

LEMMA NodeTypeKeeps ==
    ASSUME IInv, NEW x \in net, node_type(x)
    PROVE  Kept
<1>. USE DEF IInv
<1>. DEFINE kinds == Requests(x.to, x.from)
                 \cup (IF x.kind = "NodeTypeRequest" /\ x.to \notin known[x.from]
                      THEN {"NodeTypeAnswer"} ELSE {})
<1>1. /\ known' = [known EXCEPT ![x.to] = @ \cup {x.from}]
      /\ net' = Answers(x, kinds)
      /\ UNCHANGED <<status, found, links, dials, pending, rel, related>>
  BY DEF node_type, links_etc, links_orders
<1>2. kinds \in SUBSET Kind /\ "Accepted" \notin kinds
  BY DEF Requests, Kind
<1>3. ASSUME "ManagerRequest" \in kinds
      PROVE  /\ x.to \in Worker /\ x.from \in known'[x.to]
             /\ <<x.to, x.from>> \notin related'
  <2>1. x.to \in Worker /\ x.from \notin known[x.to]
    BY <1>3 DEF Requests, AsksFor
  <2>2. x.from \in Manager
    <3>1. x.from \in Peers(x.to)
      BY NetShape
    <3>. QED
      BY <2>1, <3>1 DEF Peers
  <2>. QED
    BY <1>1, <2>1, <2>2 DEF NetInv, NodesOK, RelatedKnown, Node
<1>. HIDE DEF kinds
<1>4. NetOK'
  BY <1>1, <1>2, <1>3, AnswersKeep
<1>5. NodesOK' /\ RelatedKnown'
  BY <1>1, NetShape DEF NetInv, NodesOK, RelatedKnown, Node
<1>6. PendingOK' /\ LinksOK' /\ RelInv' /\ StartsOnce
  BY <1>1, RelationsUnchanged DEF NetInv, PendingOK, Outgoing, LinksOK, Connected
<1>. QED
  BY <1>4, <1>5, <1>6 DEF Kept, NetInv

(* The other handlers, which accept nobody and answer without asking *)
LEMMA OtherAnswers ==
    ASSUME IInv, NEW x \in net, NEW kinds \in SUBSET (Kind \ {"Accepted", "ManagerRequest"}),
           net' = Answers(x, kinds),
           UNCHANGED <<links_orders, known, dials, pending, related>>, MayBlock(x.to),
           RelInv' /\ StartsOnce
    PROVE  Kept
<1>. USE DEF IInv
<1>1. NetOK'
  BY AnswersKeep DEF links_orders
<1>2. RelatedKnown'
  BY DEF NetInv, RelatedKnown
<1>3. x.to \in Node
  BY NetShape
<1>. QED
  BY <1>1, <1>2, <1>3, HandlerKeeps DEF Kept, NetInv

LEMMA RequestKeeps ==
    ASSUME IInv, NEW x \in net, manager_request(x)
    PROVE  Kept
<1>. USE DEF IInv
<1>1. /\ x.kind = "ManagerRequest" /\ x.from \in Worker /\ x.to \in Manager
      /\ x.to \in known[x.from] /\ <<x.from, x.to>> \notin related
      /\ x.from \in Peers(x.to)
  <2>1. x.kind = "ManagerRequest" /\ RoleOK(x)
    BY DEF manager_request, Gets, NetInv, NetOK
  <2>2. x.to \in Peers(x.from) /\ x.from \in Peers(x.to)
    BY NetShape
  <2>. QED
    BY <2>1, <2>2, PeersShape DEF RoleOK
<1>2. UNCHANGED <<links_orders, known, dials, pending>>
  BY DEF manager_request
<1>3. CASE x.from \in known[x.to]
  <2>1. /\ Relate(x.to, x.from, rel[x.to])
        /\ related' = related \cup {<<x.from, x.to>>}
        /\ net' = Answers(x, {"Accepted"}) /\ MayBlock(x.to)
    BY <1>3 DEF manager_request, MayBlock
  <2>2. /\ RelInv'
        /\ \A m \in Node : DOMAIN rel'[m] = IF m = x.to THEN DOMAIN rel[x.to] \cup {x.from}
                                            ELSE DOMAIN rel[m]
    BY <1>1, <2>1, RelateKeeps DEF Node
  <2>3. StartsOnce
    BY <1>1, <2>2 DEF StartsOnce, Node
  <2>4. NetOK'
    BY <1>1, <1>2, <2>1, AnswersKeep DEF Kind, links_orders
  <2>5. RelatedKnown'
    BY <1>1, <1>2, <2>1 DEF NetInv, RelatedKnown
  <2>. QED
    BY <1>1, <1>2, <2>1, <2>2, <2>3, <2>4, <2>5, HandlerKeeps DEF Kept, NetInv, Node
<1>4. CASE x.from \notin known[x.to]
  <2>1. net' = Answers(x, {}) /\ UNCHANGED <<rel, related>> /\ MayBlock(x.to)
    BY <1>4 DEF manager_request, Blocks, MayBlock
  <2>2. RelInv' /\ StartsOnce
    BY <2>1, RelationsUnchanged
  <2>. QED
    BY <1>2, <2>1, <2>2, OtherAnswers
<1>. QED
  BY <1>3, <1>4

LEMMA AcceptedKeeps ==
    ASSUME IInv, NEW x \in net, Accepted(x)
    PROVE  Kept
<1>. USE DEF IInv
<1>1. x.from \in Manager /\ x.to \in Worker /\ x.from \in Peers(x.to)
  <2>1. x.kind = "Accepted" /\ RoleOK(x)
    BY DEF Accepted, Gets, NetInv, NetOK
  <2>2. x.to \in Peers(x.from) /\ x.from \in Peers(x.to)
    BY NetShape
  <2>. QED
    BY <2>1, <2>2, PeersShape DEF RoleOK
<1>2. UNCHANGED <<links_orders, known, dials, pending, related>> /\ MayBlock(x.to)
  BY DEF Accepted, Blocks, MayBlock
<1>3. PICK kinds \in SUBSET {"ManagerBye"} :
         /\ net' = Answers(x, kinds)
         /\ \/ UNCHANGED rel
            \/ DOMAIN rel[x.to] = {} /\ Relate(x.to, x.from, NoRelation)
  BY DEF Accepted, Blocks
<1>4. CASE UNCHANGED rel
  <2>1. RelInv' /\ StartsOnce
    BY <1>4, RelationsUnchanged
  <2>. QED
    BY <1>2, <1>3, <2>1, OtherAnswers DEF Kind
<1>5. CASE DOMAIN rel[x.to] = {} /\ Relate(x.to, x.from, NoRelation)
  <2>1. /\ RelInv'
        /\ \A m \in Node : DOMAIN rel'[m] = IF m = x.to THEN DOMAIN rel[x.to] \cup {x.from}
                                            ELSE DOMAIN rel[m]
    BY <1>1, <1>5, RelateKeeps DEF Node
  <2>2. StartsOnce
    BY <1>1, <2>1, RelationshipAssumption DEF StartsOnce, Node
  <2>. QED
    BY <1>2, <1>3, <2>1, <2>2, OtherAnswers DEF Kind
<1>. QED
  BY <1>3, <1>4, <1>5

LEMMA LeavesKeeps ==
    ASSUME IInv, NEW x \in net, Leaves(x)
    PROVE  Kept
<1>. USE DEF IInv
<1>1. net' = Answers(x, {}) /\ UNCHANGED <<links_etc, known, dials, pending, related>>
  BY DEF Leaves
<1>2. RelInv' /\ StartsOnce
  <2>1. CASE is_in_relationship_with(x.to, x.from)
    BY <2>1, NetShape, BreakKeeps DEF Leaves
  <2>2. CASE ~is_in_relationship_with(x.to, x.from)
    BY <2>2, RelationsUnchanged DEF Leaves
  <2>. QED
    BY <2>1, <2>2
<1>. QED
  BY <1>1, <1>2, OtherAnswers DEF links_etc, MayBlock

LEMMA AsksKeeps ==
    ASSUME IInv, NEW x \in net, Asks(x)
    PROVE  Kept
<1>. USE DEF IInv
<1>. DEFINE kinds == needs_relationship_with(x,
                 IF x.kind = "ManagerPing" THEN {"ManagerPong"} ELSE {})
<1>1. /\ net' = Answers(x, kinds)
      /\ UNCHANGED <<links_etc, known, dials, pending, rel, related>>
  BY DEF Asks
<1>2. kinds \in SUBSET (Kind \ {"Accepted", "ManagerRequest"})
  BY DEF needs_relationship_with, Kind
<1>. HIDE DEF kinds
<1>3. RelInv' /\ StartsOnce
  BY <1>1, RelationsUnchanged
<1>. QED
  BY <1>1, <1>2, <1>3, OtherAnswers DEF links_etc, MayBlock

LEMMA PongKeeps ==
    ASSUME IInv, NEW x \in net, manager_pong(x)
    PROVE  Kept
<1>. USE DEF IInv
<1>1. net' = Answers(x, {}) /\ UNCHANGED <<links_etc, known, dials, pending, related>>
  BY DEF manager_pong
<1>2. RelInv' /\ StartsOnce
  <2>1. CASE is_in_relationship_with(x.to, x.from)
    <3>1. x.to \in Node /\ x.from \in DOMAIN rel[x.to]
      BY <2>1, NetShape DEF is_in_relationship_with
    <3>2. Ponged(rel[x.to][x.from]) \in Age
      BY <3>1, Ages DEF RelInv
    <3>3. Update(x.to, x.from, Ponged(rel[x.to][x.from]))
      BY <2>1 DEF manager_pong
    <3>. QED
      BY <1>1, <3>1, <3>2, <3>3, UpdateKeeps
  <2>2. CASE ~is_in_relationship_with(x.to, x.from)
    BY <1>1, <2>2, RelationsUnchanged DEF manager_pong
  <2>. QED
    BY <2>1, <2>2
<1>. QED
  BY <1>1, <1>2, OtherAnswers DEF links_etc, MayBlock

LEMMA PollKeeps ==
    ASSUME IInv, NEW n \in Node, NEW p \in Peers(n), TimedOut(n, p) \/ Ping(n, p)
    PROVE  Kept
<1>. USE DEF IInv
<1>1. UNCHANGED <<links_etc, known, related>> /\ p \in DOMAIN rel[n]
  BY DEF TimedOut, Ping, Checks, is_in_relationship_with
<1>2. \E k \in Spontaneous : send_to_peer_or_dial(n, {Message(k, n, p)}, net)
  BY DEF TimedOut, Ping, Spontaneous
<1>3. \A k \in Spontaneous : Outgoing(n, {Message(k, n, p)})
  BY MessageShape, PeersShape DEF Outgoing, Spontaneous, Kind
<1>4. PendingOK' /\ LinksOK' /\ NetOK'
  BY <1>1, <1>2, <1>3, SendKeeps DEF links_etc, links_orders
<1>5. NodesOK' /\ RelatedKnown'
  BY <1>1 DEF links_etc, links_orders, NetInv, NodesOK, RelatedKnown
<1>6. RelInv' /\ StartsOnce
  <2>1. CASE TimedOut(n, p)
    BY <2>1, BreakKeeps DEF TimedOut
  <2>2. CASE Ping(n, p)
    <3>1. Pinged(rel[n][p]) \in Age
      BY <1>1, Ages DEF RelInv
    <3>. QED
      BY <1>1, <2>2, <3>1, UpdateKeeps DEF Ping
  <2>. QED
    BY <2>1, <2>2
<1>. QED
  BY <1>4, <1>5, <1>6 DEF Kept, NetInv

LEMMA OrdersKeep ==
    ASSUME IInv, NEW w \in Worker, NEW m \in Manager, TasksExecute(m, w) \/ TaskStatus(w, m)
    PROVE  Kept
<1>. USE DEF IInv
<1>1. UNCHANGED <<status, found, links, known, rel, related>>
  BY DEF TasksExecute, TaskStatus
<1>2. \E n, p \in Node, k \in Spontaneous :
         p \in Peers(n) /\ send_to_peer_or_dial(n, {Message(k, n, p)}, net)
  <2>1. m \in Node /\ w \in Node /\ w \in Peers(m) /\ m \in Peers(w)
    BY PeersShape DEF Node
  <2>2. "TasksExecute" \in Spontaneous /\ "TaskStatus" \in Spontaneous
    BY DEF Spontaneous
  <2>3. CASE TasksExecute(m, w)
    <3>1. send_to_peer_or_dial(m, {Message("TasksExecute", m, w)}, net)
      BY <2>3 DEF TasksExecute
    <3>. QED
      BY <2>1, <2>2, <3>1
  <2>4. CASE TaskStatus(w, m)
    <3>1. send_to_peer_or_dial(w, {Message("TaskStatus", w, m)}, net)
      BY <2>4 DEF TaskStatus
    <3>. QED
      BY <2>1, <2>2, <3>1
  <2>. QED
    BY <2>3, <2>4
<1>3. PICK n \in Node, p \in Node, k \in Spontaneous :
         p \in Peers(n) /\ send_to_peer_or_dial(n, {Message(k, n, p)}, net)
  BY <1>2
<1>4. Outgoing(n, {Message(k, n, p)})
  BY <1>3, MessageShape DEF Outgoing, Spontaneous, Kind
<1>5. PendingOK' /\ LinksOK' /\ NetOK'
  BY <1>1, <1>3, <1>4, SendKeeps
<1>6. NodesOK' /\ RelatedKnown'
  BY <1>1 DEF NetInv, NodesOK, RelatedKnown
<1>. QED
  BY <1>1, <1>5, <1>6, RelationsUnchanged DEF Kept, NetInv

LEMMA ByeKeeps ==
    ASSUME IInv, NEW n \in Node, Bye(n)
    PROVE  Kept
<1>. USE DEF IInv
<1>. DEFINE byes == {Message("ManagerBye", n, p) : p \in DOMAIN rel[n]}
<1>1. /\ status' = [status EXCEPT ![n] = "shutting"]
      /\ send_to_peer_or_dial(n, byes, net)
      /\ UNCHANGED <<known, found, links, related>>
  BY DEF Bye
<1>2. Outgoing(n, byes)
  BY MessageShape, PeersShape DEF Outgoing, Spontaneous, Kind, RelInv
<1>. HIDE DEF byes
<1>3. PendingOK' /\ LinksOK' /\ NetOK'
  BY <1>1, <1>2, SendKeeps
<1>4. NodesOK' /\ RelatedKnown'
  BY <1>1 DEF NetInv, NodesOK, RelatedKnown
<1>5. RelInv' /\ StartsOnce
  <2>1. CASE n \in Worker
    BY <2>1, ForgetKeeps DEF Bye
  <2>2. CASE n \notin Worker
    BY <2>2, RelationsUnchanged DEF Bye
  <2>. QED
    BY <2>1, <2>2
<1>. QED
  BY <1>3, <1>4, <1>5 DEF Kept, NetInv

LEMMA StopKeeps ==
    ASSUME IInv, NEW n \in Node, Stop(n)
    PROVE  Kept
<1>. USE DEF IInv
<1>1. /\ status' = [status EXCEPT ![n] = "stopped"]
      /\ links' = {l \in links : l[1] # n /\ l[2] # n}
      /\ net' = {x \in net : x.from # n /\ x.to # n}
      /\ pending' = [pending EXCEPT ![n] = {}]
      /\ UNCHANGED <<known, found, dials, related>>
  BY DEF Stop
<1>2. NodesOK' /\ RelatedKnown' /\ LinksOK'
  BY <1>1 DEF NetInv, NodesOK, RelatedKnown, LinksOK
<1>3. PendingOK'
  BY <1>1 DEF NetInv, PendingOK, Outgoing, Connected
<1>4. ASSUME NEW x \in net' PROVE (x \in Messages /\ Connected(x.from, x.to) /\ RoleOK(x))'
  <2>1. x \in net /\ x.from # n /\ x.to # n
    BY <1>1
  <2>2. x \in Messages /\ Connected(x.from, x.to) /\ RoleOK(x)
    BY <2>1 DEF NetInv, NetOK
  <2>3. Pair(x.from, x.to)[1] # n /\ Pair(x.from, x.to)[2] # n
    BY <2>1 DEF Pair
  <2>. QED
    BY <1>1, <2>2, <2>3 DEF Connected, RoleOK
<1>5. RelInv' /\ StartsOnce
  BY ForgetKeeps DEF Stop
<1>. QED
  BY <1>2, <1>3, <1>4, <1>5 DEF Kept, NetInv, NetOK

LEMMA TickKeeps ==
    ASSUME IInv, Tick
    PROVE  Kept
<1>. USE DEF IInv
<1>1. /\ rel' = [n \in Node |-> [p \in DOMAIN rel[n] |-> Older(rel[n][p])]]
      /\ UNCHANGED <<links_etc, known, dials, pending, related, net>>
  BY DEF Tick
<1>2. RelInv' /\ StartsOnce
  <2>1. DOMAIN rel' = Node
    BY <1>1
  <2>2. ASSUME NEW n \in Node
        PROVE  /\ DOMAIN rel'[n] = DOMAIN rel[n]
               /\ \A p \in DOMAIN rel[n] : rel'[n][p] \in Age
    BY <1>1, Ages DEF RelInv
  <2>. QED
    BY <2>1, <2>2, AgesKeep
<1>3. RelatedKnown' /\ NetOK'
  BY <1>1 DEF links_etc, links_orders, NetInv, RelatedKnown, NetOK, RoleOK, Connected
<1>4. NodesOK' /\ PendingOK' /\ LinksOK'
  BY <1>1 DEF links_etc, links_orders, NetInv, NodesOK, PendingOK, Outgoing, LinksOK, Connected
<1>. QED
  BY <1>1, <1>2, <1>3, <1>4 DEF Kept, NetInv

LEMMA NextIsKept ==
    ASSUME IInv, Next
    PROVE  Kept
<1>1. CASE \E w \in Worker, m \in Manager : inject_connected(w, m)
  BY <1>1, ConnectedKeeps
<1>2. CASE \E w \in Worker, m \in Manager :
             DialFails(w, m) \/ inject_disconnected(w, m) \/ Mdns(w, m) \/ Mdns(m, w)
  BY <1>2, NetworkKeeps
<1>3. CASE \E w \in Worker, m \in Manager : TasksExecute(m, w) \/ TaskStatus(w, m)
  BY <1>3, OrdersKeep
<1>4. CASE \E x \in net : Receive(x)
  <2>1. PICK x \in net : Receive(x)
    BY <1>4
  <2>. QED
    BY <2>1, NodeTypeKeeps, RequestKeeps, AcceptedKeeps, LeavesKeeps, AsksKeeps, PongKeeps
       DEF Receive
<1>5. CASE \E x \in net : Lose(x)
  <2>1. PICK x \in net : Lose(x)
    BY <1>5
  <2>2. PICK w \in Worker, m \in Manager : TRUE
    BY <2>1, NetShape DEF IInv, NetInv, LinksOK, Connected
  <2>. QED
    BY <1>5, NetworkKeeps
<1>6. CASE \E n \in Node : Poll(n)
  BY <1>6, PollKeeps DEF Poll
<1>7. CASE \E n \in Node : Bye(n) \/ Stop(n)
  BY <1>7, ByeKeeps, StopKeeps
<1>8. CASE Tick
  BY <1>8, TickKeeps
<1>. QED
  BY <1>1, <1>2, <1>3, <1>4, <1>5, <1>6, <1>7, <1>8 DEF Next

LEMMA NextKeeps == IInv /\ [Next]_vars => IInv' /\ (StartsOnce \/ UNCHANGED vars)
<1>1. ASSUME IInv, Next PROVE Kept
  BY <1>1, NextIsKept
<1>2. ASSUME IInv, UNCHANGED vars PROVE IInv'
  BY <1>2 DEF vars, IInv, NetInv, NodesOK, PendingOK, Outgoing, LinksOK, NetOK, RoleOK, Connected,
              RelatedKnown, RelInv
<1>. QED
  BY <1>1, <1>2 DEF Kept, IInv

------------------------------------------------------------------------------
(* What a manager is told of a worker that does not want it *)

(* The messages of two nodes that have not been in relationship yet, and    *)
(* those that tell a manager whether its worker wants it                    *)
Introductions == {"NodeTypeRequest", "NodeTypeAnswer", "ManagerRequest"}
Telling == {"Accepted", "ManagerBye", "NotMine"}

Sent == net \cup UNION {pending[n] : n \in Node}

Grounded(x) == x.kind \notin Introductions => Pair(x.from, x.to) \in related

(* A running manager that dismisses a worker has forgotten it. *)
Dismisses(x) ==
    x.from \in Manager /\ x.kind \in {"ManagerBye", "NotMine"} =>
        x.to \notin DOMAIN rel[x.from] \/ status[x.from] # "running"

CountsOK == lost \in Nat /\ cuts \in Nat

(* Only a manager that accepted a worker is in relationship with it, or is   *)
(* sent more than introductions.                                            *)
RelatedFirst == \A n \in Node : \A p \in DOMAIN rel[n] : Pair(n, p) \in related
SentOK == \A x \in Sent : Grounded(x) /\ Dismisses(x)

(* Those who were in relationship stay connected while both live.           *)
StayConnected ==
    \A w \in Worker, m \in Manager :
        <<w, m>> \in related /\ cuts = 0 /\ status[w] # "stopped" /\ status[m] # "stopped"
          => <<w, m>> \in links

TellInv == CountsOK /\ RelatedFirst /\ SentOK /\ StayConnected /\ ManagerIsTold

(* The ends of a message that was sent are a worker and a manager. *)
LEMMA SentShape ==
    ASSUME NetInv, NEW x \in Sent
    PROVE  x \in Messages /\ x.from \in Node /\ x.to \in Node /\ x.to \in Peers(x.from)
<1>1. CASE x \in net
  BY <1>1, NetShape
<1>2. CASE x \notin net
  <2>1. PICK n \in Node : x \in pending[n]
    BY <1>2 DEF Sent
  <2>. QED
    BY <2>1, MessageShape DEF NetInv, PendingOK, Outgoing
<1>. QED
  BY <1>1, <1>2

(* What is sent stays grounded: a worker in relationship once is for ever   *)
(* known to have been, and one that left does not come back.                *)
LEMMA SentKept ==
    ASSUME IInv, TellInv, StartsOnce, NEW new,
           Sent' \subseteq Sent \cup new, \A x \in new : Grounded(x)' /\ Dismisses(x)',
           related \subseteq related',
           \A m \in Manager : status[m] # "running" => status'[m] # "running"
    PROVE  SentOK'
<1>1. ASSUME NEW x \in Sent PROVE Grounded(x)' /\ Dismisses(x)'
  <2>1. Grounded(x) /\ Dismisses(x)
    BY DEF TellInv, SentOK
  <2>2. ASSUME x.from \in Manager, x.kind \in {"ManagerBye", "NotMine"}
        PROVE  x.to \notin DOMAIN rel'[x.from] \/ status'[x.from] # "running"
    <3>1. x.to \in Worker
      BY <2>2, SentShape, PeersShape DEF IInv
    <3>2. Pair(x.from, x.to) \in related
      BY <2>1, <2>2 DEF Grounded, Introductions
    <3>3. Pair(x.from, x.to) = <<x.to, x.from>>
      BY <2>2, RelationshipAssumption DEF Pair
    <3>4. x.to \notin DOMAIN rel[x.from] \/ status[x.from] # "running"
      BY <2>1, <2>2 DEF Dismisses
    <3>. QED
      BY <2>2, <3>1, <3>2, <3>3, <3>4 DEF StartsOnce
  <2>. QED
    BY <2>1, <2>2 DEF Grounded, Dismisses
<1>. QED
  BY <1>1 DEF SentOK

(* No process ends or starts; one may block. *)
ProcessesLive ==
    \A o \in Node : /\ status'[o] = "running" => status[o] = "running"
                    /\ status'[o] = "stopped" <=> status[o] = "stopped"

(* A step that starts and ends no relationship, and takes no message away   *)
(* that a manager needs, unless it is lost                                  *)
LEMMA QuietTells ==
    ASSUME IInv, TellInv, NEW new,
           UNCHANGED related, ProcessesLive, CountsOK',
           \A n \in Node : DOMAIN rel'[n] = DOMAIN rel[n],
           Sent' \subseteq Sent \cup new, \A x \in new : Grounded(x) /\ Dismisses(x),
           cuts' = 0 => cuts = 0 /\ links \subseteq links',
           cuts' = 0 /\ lost' = 0 => lost = 0 /\ \A x \in net : x.kind \in Telling => x \in net'
    PROVE  TellInv'
<1>1. StartsOnce
  BY DEF StartsOnce, Node
<1>2. \A x \in new : Grounded(x)' /\ Dismisses(x)'
  <2>. SUFFICES ASSUME NEW x \in new PROVE Grounded(x)' /\ Dismisses(x)'
    OBVIOUS
  <2>1. Grounded(x)' /\ (x.from \in Manager => DOMAIN rel'[x.from] = DOMAIN rel[x.from])
    BY DEF Grounded, Node
  <2>. QED
    BY <2>1 DEF Dismisses, ProcessesLive, Node
<1>3. SentOK'
  BY <1>1, <1>2, SentKept DEF ProcessesLive, Node
<1>4. RelatedFirst' /\ StayConnected'
  BY DEF TellInv, RelatedFirst, StayConnected, ProcessesLive, Node
<1>5. ManagerIsTold'
  <2>. SUFFICES ASSUME NEW w \in Worker, NEW m \in Manager,
                       Half(m, w)', lost' = 0, cuts' = 0, status'[w] # "stopped"
                PROVE  \/ Message("Accepted", m, w) \in net'
                       \/ \E k \in {"ManagerBye", "NotMine"} : Message(k, w, m) \in net'
    BY DEF ManagerIsTold
  <2>1. Half(m, w) /\ w \in Node /\ m \in Node
    BY DEF Half, is_in_relationship_with, ProcessesLive, Node
  <2>2. \/ Message("Accepted", m, w) \in net
        \/ \E k \in {"ManagerBye", "NotMine"} : Message(k, w, m) \in net
    BY <2>1 DEF TellInv, ManagerIsTold, ProcessesLive
  <2>3. \A k \in Telling : Message(k, m, w).kind \in Telling /\ Message(k, w, m).kind \in Telling
    BY <2>1 DEF Message
  <2>. QED
    BY <2>2, <2>3 DEF Telling
<1>. QED
  BY <1>3, <1>4, <1>5 DEF TellInv

(* What goes out is sent, now if the connection holds. *)
LEMMA SendSends ==
    ASSUME NetInv, NEW n \in Node, NEW msgs, send_to_peer_or_dial(n, msgs, net)
    PROVE  /\ Sent' \subseteq Sent \cup msgs /\ net \subseteq net'
           /\ status[n] = "running" => \A x \in msgs : Connected(n, x.to) => x \in net'
<1>1. CASE status[n] # "running"
  BY <1>1 DEF send_to_peer_or_dial, Sent
<1>2. CASE status[n] = "running"
  <2>. DEFINE later == {x \in msgs : ~Connected(n, x.to)}
  <2>1. /\ net' = net \cup (msgs \ later)
        /\ pending' = [pending EXCEPT ![n] = @ \cup later]
    BY <1>2 DEF send_to_peer_or_dial
  <2>2. \A o \in Node : pending'[o] \subseteq pending[o] \cup msgs
    BY <2>1 DEF NetInv, PendingOK
  <2>. QED
    BY <2>1, <2>2 DEF Sent
<1>. QED
  BY <1>1, <1>2

(* Answers are sent; all but the message that is answered stays.            *)
LEMMA AnswersSend ==
    ASSUME NetInv, NEW x \in net, NEW kinds \in SUBSET Kind, net' = Answers(x, kinds),
           pending' = pending
    PROVE  /\ Sent' \subseteq Sent \cup {Message(k, x.to, x.from) : k \in kinds}
           /\ \A y \in net : y # x => y \in net'
           /\ \A k \in kinds : Message(k, x.to, x.from) \in net'
  BY DEF Answers, Sent


Told == TellInv'

LEMMA InitTells == Init => TellInv
<1>. SUFFICES ASSUME Init PROVE TellInv
  OBVIOUS
<1>1. \A n \in Node : DOMAIN rel[n] = {}
  BY DEF Init, NoRelation
<1>2. Sent = {}
  BY DEF Init, Sent
<1>3. CountsOK /\ RelatedFirst /\ SentOK /\ StayConnected
  BY <1>1, <1>2 DEF Init, CountsOK, RelatedFirst, SentOK, StayConnected
<1>4. ManagerIsTold
  BY <1>1 DEF ManagerIsTold, Half, is_in_relationship_with, Node
<1>. QED
  BY <1>3, <1>4 DEF TellInv

(* Connections, and the messages that go out with them or are lost *)
LEMMA NetworkTells ==
    ASSUME IInv, TellInv, NEW w \in Worker, NEW m \in Manager,
           \/ inject_connected(w, m) \/ DialFails(w, m) \/ inject_disconnected(w, m)
           \/ Mdns(w, m) \/ Mdns(m, w) \/ \E x \in net : Lose(x)
    PROVE  Told
<1>. DEFINE new == OnConnected(w, m) \cup OnConnected(m, w)
<1>1. UNCHANGED <<status, rel, related>>
  BY DEF inject_connected, DialFails, inject_disconnected, Mdns, Lose
<1>2. \A x \in new : x \in Sent \/ x.kind \in Introductions
  BY DEF OnConnected, Sent, Introductions, Message, Node
<1>3. \A x \in new : Grounded(x) /\ Dismisses(x)
  BY <1>2 DEF TellInv, SentOK, Grounded, Dismisses, Introductions
<1>4. Sent' \subseteq Sent \cup new
  <2>1. net' \subseteq net \cup new
    BY DEF inject_connected, DialFails, inject_disconnected, Mdns, Lose
  <2>2. \A n \in Node : pending'[n] \subseteq pending[n]
    BY DEF inject_connected, DialFails, inject_disconnected, Mdns, Lose, KeepFor,
           IInv, NetInv, PendingOK
  <2>. QED
    BY <2>1, <2>2 DEF Sent
<1>. HIDE DEF new
<1>5. CountsOK'
  BY DEF TellInv, CountsOK, inject_connected, DialFails, inject_disconnected, Mdns, Lose
<1>6. cuts' = 0 => cuts = 0 /\ links \subseteq links'
  BY DEF TellInv, CountsOK, inject_connected, DialFails, inject_disconnected, Mdns, Lose
<1>7. cuts' = 0 /\ lost' = 0 => lost = 0 /\ net \subseteq net'
  BY DEF TellInv, CountsOK, inject_connected, DialFails, inject_disconnected, Mdns, Lose
<1>8. TellInv'
  BY <1>1, <1>3, <1>4, <1>5, <1>6, <1>7, QuietTells DEF ProcessesLive
<1>. QED
  BY <1>8 DEF Told

(* A handler that answers and leaves the relationships as they were *)
LEMMA AnswersTell ==
    ASSUME IInv, TellInv, NEW x \in net, x.kind \notin Telling, NEW kinds \in SUBSET Kind,
           net' = Answers(x, kinds),
           UNCHANGED <<links_orders, pending, related>>, ProcessesLive,
           \A n \in Node : DOMAIN rel'[n] = DOMAIN rel[n],
           \A k \in kinds : k \in Introductions \/ x.kind \notin Introductions,
           "NotMine" \in kinds => ~is_in_relationship_with(x.to, x.from),
           "ManagerBye" \notin kinds
    PROVE  Told
<1>. DEFINE new == {Message(k, x.to, x.from) : k \in kinds}
<1>1. x.from \in Node /\ x.to \in Node /\ Pair(x.from, x.to) = Pair(x.to, x.from)
  BY NetShape, PeersShape DEF IInv
<1>2. ASSUME NEW k \in kinds
      PROVE  Grounded(Message(k, x.to, x.from)) /\ Dismisses(Message(k, x.to, x.from))
  <2>1. /\ Message(k, x.to, x.from).kind = k
        /\ Message(k, x.to, x.from).from = x.to /\ Message(k, x.to, x.from).to = x.from
    BY DEF Message
  <2>2. Grounded(x)
    BY DEF TellInv, SentOK, Sent
  <2>3. Grounded(Message(k, x.to, x.from))
    BY <1>1, <2>1, <2>2 DEF Grounded
  <2>4. Dismisses(Message(k, x.to, x.from))
    BY <2>1 DEF Dismisses, is_in_relationship_with
  <2>. QED
    BY <2>3, <2>4
<1>3. \A y \in new : Grounded(y) /\ Dismisses(y)
  BY <1>2
<1>4. Sent' \subseteq Sent \cup new /\ \A y \in net : y # x => y \in net'
  BY AnswersSend DEF IInv
<1>. HIDE DEF new
<1>5. CountsOK' /\ UNCHANGED <<links, lost, cuts>>
  BY DEF TellInv, CountsOK, links_orders
<1>6. TellInv'
  BY <1>3, <1>4, <1>5, QuietTells
<1>. QED
  BY <1>6 DEF Told

LEMMA HandlersTell ==
    ASSUME IInv, TellInv, NEW x \in net,
           node_type(x) \/ Asks(x) \/ manager_pong(x)
    PROVE  Told
<1>1. CASE node_type(x)
  <2>. DEFINE kinds == Requests(x.to, x.from)
                 \cup (IF x.kind = "NodeTypeRequest" /\ x.to \notin known[x.from]
                      THEN {"NodeTypeAnswer"} ELSE {})
  <2>1. /\ net' = Answers(x, kinds) /\ x.kind \in {"NodeTypeRequest", "NodeTypeAnswer"}
        /\ UNCHANGED <<links_etc, pending, rel, related>>
    BY <1>1 DEF node_type, Gets
  <2>2. kinds \subseteq {"ManagerRequest", "NodeTypeAnswer"}
    BY DEF Requests
  <2>. HIDE DEF kinds
  <2>. QED
    BY <2>1, <2>2, AnswersTell DEF links_etc, ProcessesLive, Introductions, Telling, Kind
<1>2. CASE Asks(x)
  <2>. DEFINE kinds == needs_relationship_with(x,
                 IF x.kind = "ManagerPing" THEN {"ManagerPong"} ELSE {})
  <2>1. /\ net' = Answers(x, kinds) /\ x.kind \in {"ManagerPing", "TasksExecute", "TaskStatus"}
        /\ UNCHANGED <<links_etc, pending, rel, related>>
    BY <1>2 DEF Asks, Gets
  <2>2. /\ kinds \subseteq {"ManagerPong", "NotMine"}
        /\ "NotMine" \in kinds => ~is_in_relationship_with(x.to, x.from)
    BY DEF needs_relationship_with
  <2>. HIDE DEF kinds
  <2>. QED
    BY <2>1, <2>2, AnswersTell DEF links_etc, ProcessesLive, Introductions, Telling, Kind
<1>3. CASE manager_pong(x)
  <2>1. /\ net' = Answers(x, {}) /\ x.kind = "ManagerPong"
        /\ UNCHANGED <<links_etc, pending, related>>
    BY <1>3 DEF manager_pong, Gets
  <2>2. \A n \in Node : DOMAIN rel'[n] = DOMAIN rel[n]
    BY <1>3, NetShape DEF manager_pong, Update, IInv, RelInv, is_in_relationship_with
  <2>. QED
    BY <2>1, <2>2, AnswersTell DEF links_etc, ProcessesLive, Telling
<1>. QED
  BY <1>1, <1>2, <1>3


(* The manager that accepts a worker tells it. *)
LEMMA RequestTells ==
    ASSUME IInv, TellInv, NEW x \in net, manager_request(x), Kept
    PROVE  Told
<1>1. /\ x.kind = "ManagerRequest" /\ x.from \in Worker /\ x.to \in Manager
      /\ <<x.from, x.to>> \in links
  <2>1. x.kind = "ManagerRequest" /\ RoleOK(x)
    BY DEF manager_request, Gets, IInv, NetInv, NetOK
  <2>2. x.to \in Peers(x.from) /\ Connected(x.from, x.to)
    BY NetShape DEF IInv
  <2>. QED
    BY <2>1, <2>2, PeersShape DEF RoleOK, Connected, Pair
<1>2. UNCHANGED <<links_orders, known, dials, pending>>
  BY DEF manager_request
<1>3. CASE x.from \in known[x.to]
  <2>1. /\ Relate(x.to, x.from, rel[x.to])
        /\ related' = related \cup {<<x.from, x.to>>}
        /\ net' = Answers(x, {"Accepted"}) /\ status' = status
    BY <1>3 DEF manager_request
  <2>2. \A n \in Node : DOMAIN rel'[n] = IF n = x.to THEN DOMAIN rel[n] \cup {x.from}
                                         ELSE DOMAIN rel[n]
    BY <2>1 DEF Relate, IInv, RelInv
  <2>. DEFINE answer == Message("Accepted", x.to, x.from)
              new == {answer}
  <2>3. /\ Sent' \subseteq Sent \cup new /\ answer \in net'
        /\ \A y \in net : y # x => y \in net'
    BY <1>2, <2>1, AnswersSend DEF Kind, IInv
  <2>4. \A y \in new : Grounded(y)' /\ Dismisses(y)'
    BY <1>1, <2>1, RelationshipAssumption DEF Message, Grounded, Dismisses, Pair
  <2>. HIDE DEF answer, new
  <2>5. SentOK'
    <3>1. StartsOnce /\ status' = status /\ related \subseteq related'
      BY <2>1 DEF Kept
    <3>2. Sent' \subseteq Sent \cup new
      BY <2>3
    <3>. QED
      BY <2>4, <3>1, <3>2, SentKept
  <2>6. RelatedFirst'
    BY <1>1, <2>1, <2>2, RelationshipAssumption DEF TellInv, RelatedFirst, Pair
  <2>7. StayConnected' /\ CountsOK'
    BY <1>1, <1>2, <2>1 DEF TellInv, StayConnected, CountsOK, links_orders
  <2>8. ASSUME NEW w \in Worker, NEW m \in Manager,
               Half(m, w)', lost' = 0, cuts' = 0, status'[w] # "stopped"
        PROVE  \/ Message("Accepted", m, w) \in net'
               \/ \E k \in {"ManagerBye", "NotMine"} : Message(k, w, m) \in net'
    <3>1. CASE w = x.from /\ m = x.to
      BY <3>1, <2>3 DEF answer
    <3>2. CASE ~(w = x.from /\ m = x.to)
      <4>1. Half(m, w)
        BY <1>1, <2>1, <2>2, <2>8, <3>2, RelationshipAssumption
           DEF Half, is_in_relationship_with, Node
      <4>2. \/ Message("Accepted", m, w) \in net
            \/ \E k \in {"ManagerBye", "NotMine"} : Message(k, w, m) \in net
        BY <1>2, <2>1, <2>8, <4>1 DEF TellInv, ManagerIsTold, links_orders
      <4>. QED
        BY <1>1, <2>3, <4>2 DEF Message
    <3>. QED
      BY <3>1, <3>2
  <2>. QED
    BY <2>5, <2>6, <2>7, <2>8 DEF Told, TellInv, ManagerIsTold
<1>4. CASE x.from \notin known[x.to]
  <2>1. net' = Answers(x, {}) /\ UNCHANGED <<rel, related>>
    BY <1>4 DEF manager_request, Blocks
  <2>2. ProcessesLive
    BY <1>4 DEF manager_request, Blocks, Gets, Up, ProcessesLive, IInv, NetInv, NodesOK
  <2>. QED
    BY <1>1, <1>2, <2>1, <2>2, AnswersTell DEF Telling
<1>. QED
  BY <1>3, <1>4

(* The worker that is accepted has a manager: this one, or it says good bye. *)
LEMMA AcceptedTells ==
    ASSUME IInv, TellInv, NEW x \in net, Accepted(x), Kept
    PROVE  Told
<1>1. /\ x.kind = "Accepted" /\ x.from \in Manager /\ x.to \in Worker
      /\ <<x.to, x.from>> \in related
  <2>1. x.kind = "Accepted" /\ RoleOK(x) /\ Grounded(x)
    BY DEF Accepted, Gets, IInv, NetInv, NetOK, TellInv, SentOK, Sent
  <2>2. x.to \in Peers(x.from)
    BY NetShape DEF IInv
  <2>. QED
    BY <2>1, <2>2, PeersShape, RelationshipAssumption DEF RoleOK, Grounded, Introductions, Pair
<1>2. UNCHANGED <<links_orders, known, dials, pending, related>> /\ ProcessesLive
  BY DEF Accepted, Blocks, Gets, Up, ProcessesLive, IInv, NetInv, NodesOK
<1>3. PICK kinds \in SUBSET {"ManagerBye"} :
         /\ net' = Answers(x, kinds)
         /\ \/ DOMAIN rel[x.to] = {} /\ Relate(x.to, x.from, NoRelation)
            \/ UNCHANGED rel /\ x.from \in DOMAIN rel[x.to]
            \/ UNCHANGED rel /\ kinds = {"ManagerBye"} /\ x.from \notin DOMAIN rel[x.to]
         /\ kinds # {} => UNCHANGED rel /\ x.from \notin DOMAIN rel[x.to]
  BY DEF Accepted, Blocks, is_in_relationship_with
<1>4. \A n \in Node : /\ DOMAIN rel[n] \subseteq DOMAIN rel'[n]
                      /\ n # x.to => DOMAIN rel'[n] = DOMAIN rel[n]
                      /\ DOMAIN rel'[n] \subseteq DOMAIN rel[n] \cup {x.from}
                      /\ n = x.to /\ kinds = {} => x.from \in DOMAIN rel'[n]
  BY <1>3 DEF Relate, NoRelation, IInv, RelInv
<1>. DEFINE new == {Message(k, x.to, x.from) : k \in kinds}
<1>5. /\ Sent' \subseteq Sent \cup new
      /\ \A y \in net : y # x => y \in net'
      /\ \A k \in kinds : Message(k, x.to, x.from) \in net'
  BY <1>2, <1>3, AnswersSend DEF Kind, IInv
<1>6. \A y \in new : Grounded(y)' /\ Dismisses(y)'
  BY <1>1, <1>2, RelationshipAssumption DEF Message, Grounded, Dismisses, Pair
<1>. HIDE DEF new
<1>7. SentOK'
  BY <1>2, <1>5, <1>6, SentKept DEF Kept, ProcessesLive, Node
<1>8. RelatedFirst'
  BY <1>1, <1>2, <1>3, <1>4 DEF TellInv, RelatedFirst, Pair, Node
<1>9. StayConnected' /\ CountsOK'
  BY <1>2 DEF TellInv, StayConnected, CountsOK, links_orders, ProcessesLive, Node
<1>10. ASSUME NEW w \in Worker, NEW m \in Manager,
              Half(m, w)', lost' = 0, cuts' = 0, status'[w] # "stopped"
       PROVE  \/ Message("Accepted", m, w) \in net'
              \/ \E k \in {"ManagerBye", "NotMine"} : Message(k, w, m) \in net'
  <2>1. w \in Node /\ m \in Node /\ m # x.to
    BY <1>1, RelationshipAssumption DEF Node
  <2>2. m \notin DOMAIN rel'[w] /\ w \in DOMAIN rel'[m]
    BY <1>10 DEF Half, is_in_relationship_with
  <2>3. CASE w = x.to /\ m = x.from
    BY <1>4, <1>5, <2>1, <2>2, <2>3
  <2>4. CASE ~(w = x.to /\ m = x.from)
    <3>1. Half(m, w)
      BY <1>2, <1>4, <1>10, <2>1, <2>2 DEF Half, is_in_relationship_with, ProcessesLive
    <3>2. \/ Message("Accepted", m, w) \in net
          \/ \E k \in {"ManagerBye", "NotMine"} : Message(k, w, m) \in net
      BY <1>2, <1>10, <2>1, <3>1 DEF TellInv, ManagerIsTold, links_orders, ProcessesLive
    <3>. QED
      BY <1>1, <1>5, <2>4, <3>2 DEF Message
  <2>. QED
    BY <2>3, <2>4
<1>. QED
  BY <1>7, <1>8, <1>9, <1>10 DEF Told, TellInv, ManagerIsTold

(* Relationships end, at node n: those with the peers in gone.              *)
LEMMA EndTells ==
    ASSUME IInv, TellInv, Kept, NEW n \in Node, NEW gone, NEW new,
           related' = related, links' = links, CountsOK', lost' = lost, cuts' = cuts,
           \/ status' = status
           \/ status[n] = "running" /\ status' = [status EXCEPT ![n] = "shutting"],
           \A o \in Node : DOMAIN rel'[o] = IF o = n THEN DOMAIN rel[n] \ gone ELSE DOMAIN rel[o],
           Sent' \subseteq Sent \cup new, \A y \in new : Grounded(y)' /\ Dismisses(y)',
           \A w \in Worker, m \in Manager : \A k \in Telling : Half(m, w) =>
              /\ Message(k, m, w) \in net => Message(k, m, w) \in net' \/ (n = m /\ w \in gone)
              /\ Message(k, w, m) \in net => Message(k, w, m) \in net' \/ (n = m /\ w \in gone),
           \A p \in gone : n \in Worker /\ p \in DOMAIN rel[n] =>
              \/ ~(p \in Manager /\ Half(p, n)')
              \/ cuts = 0 /\ status[n] # "stopped" => Message("ManagerBye", n, p) \in net'
    PROVE  Told
<1>1. SentOK'
  BY SentKept DEF Kept, IInv, NetInv, NodesOK, Node
<1>2. \A o \in Node : /\ \/ status'[o] = status[o]
                         \/ status[o] = "running" /\ status'[o] = "shutting"
                      /\ DOMAIN rel'[o] \subseteq DOMAIN rel[o]
  BY DEF IInv, NetInv, NodesOK
<1>3. RelatedFirst' /\ StayConnected'
  BY <1>2 DEF TellInv, RelatedFirst, StayConnected, Node
<1>4. ASSUME NEW w \in Worker, NEW m \in Manager,
             Half(m, w)', lost' = 0, cuts' = 0, status'[w] # "stopped"
      PROVE  \/ Message("Accepted", m, w) \in net'
             \/ \E k \in {"ManagerBye", "NotMine"} : Message(k, w, m) \in net'
  <2>1. w \in Node /\ m \in Node /\ w # m
    BY RelationshipAssumption DEF Node
  <2>2. /\ m \notin DOMAIN rel'[w] /\ w \in DOMAIN rel'[m]
        /\ status[m] = "running" /\ status[w] # "stopped" /\ ~(n = m /\ w \in gone)
    BY <1>2, <1>4, <2>1 DEF Half, is_in_relationship_with
  <2>3. CASE m \in DOMAIN rel[w]
    <3>1. n = w /\ m \in gone
      BY <2>1, <2>2, <2>3
    <3>2. Message("ManagerBye", w, m) \in net'
      BY <1>4, <2>2, <2>3, <3>1
    <3>. QED
      BY <3>2
  <2>4. CASE m \notin DOMAIN rel[w]
    <3>1. Half(m, w)
      BY <2>1, <2>2, <2>4 DEF Half, is_in_relationship_with
    <3>2. \/ Message("Accepted", m, w) \in net
          \/ \E k \in {"ManagerBye", "NotMine"} : Message(k, w, m) \in net
      BY <1>4, <2>2, <3>1 DEF TellInv, ManagerIsTold
    <3>. QED
      BY <2>2, <3>1, <3>2 DEF Telling
  <2>. QED
    BY <2>3, <2>4
<1>. QED
  BY <1>1, <1>3, <1>4 DEF Told, TellInv, ManagerIsTold


(* The manager whose worker leaves forgets it; the worker that is dismissed *)
(* is forgotten already.                                                    *)
LEMMA LeavesTells ==
    ASSUME IInv, TellInv, NEW x \in net, Leaves(x), Kept
    PROVE  Told
<1>. DEFINE gone == {x.from}
            new == {Message(k, x.to, x.from) : k \in {}}
<1>1. /\ net' = Answers(x, {}) /\ x.kind \in {"ManagerBye", "NotMine"}
      /\ UNCHANGED <<links_etc, known, dials, pending, related>>
      /\ x.from \in Node /\ x.to \in Node /\ x.to \in Peers(x.from)
  BY NetShape DEF Leaves, Gets, IInv
<1>2. Sent' \subseteq Sent \cup new /\ \A y \in net : y # x => y \in net'
  BY <1>1, AnswersSend DEF IInv
<1>3. new = {}
  OBVIOUS
<1>4. \A o \in Node : DOMAIN rel'[o] = IF o = x.to THEN DOMAIN rel[x.to] \ gone ELSE DOMAIN rel[o]
  <2>1. CASE is_in_relationship_with(x.to, x.from)
    <3>1. rel' = [rel EXCEPT ![x.to] = Without(rel[x.to], x.from)]
      BY <2>1 DEF Leaves, Break
    <3>2. DOMAIN Without(rel[x.to], x.from) = DOMAIN rel[x.to] \ {x.from}
      BY DEF Without
    <3>. QED
      BY <1>1, <3>1, <3>2 DEF IInv, RelInv
  <2>2. CASE ~is_in_relationship_with(x.to, x.from)
    BY <1>1, <2>2 DEF Leaves, is_in_relationship_with
  <2>. QED
    BY <2>1, <2>2
<1>. HIDE DEF new
<1>5. \A w \in Worker, m \in Manager : \A k \in Telling : Half(m, w) =>
         /\ Message(k, m, w) \in net => Message(k, m, w) \in net' \/ (x.to = m /\ w \in gone)
         /\ Message(k, w, m) \in net => Message(k, w, m) \in net' \/ (x.to = m /\ w \in gone)
  <2>. SUFFICES ASSUME NEW w \in Worker, NEW m \in Manager, NEW k \in Telling, Half(m, w)
                PROVE  /\ Message(k, m, w) = x => x.to = m /\ w \in gone
                       /\ Message(k, w, m) = x => x.to = m /\ w \in gone
    BY <1>2
  <2>1. Message(k, w, m) = x => x.to = m /\ x.from = w
    BY DEF Message
  <2>2. Message(k, m, w) # x
    <3>. SUFFICES ASSUME x.from = m, x.to = w PROVE FALSE
      BY DEF Message
    <3>1. Dismisses(x)
      BY DEF TellInv, SentOK, Sent
    <3>. QED
      BY <1>1, <3>1 DEF Dismisses, Half, is_in_relationship_with
  <2>. QED
    BY <2>1, <2>2
<1>6. \A p \in gone : x.to \in Worker /\ p \in DOMAIN rel[x.to] => ~(p \in Manager /\ Half(p, x.to)')
  <2>. SUFFICES ASSUME x.to \in Worker, x.from \in Manager PROVE ~Half(x.from, x.to)'
    OBVIOUS
  <2>1. Dismisses(x) /\ x.to # x.from
    BY RelationshipAssumption DEF TellInv, SentOK, Sent
  <2>. QED
    BY <1>1, <1>4, <2>1 DEF Dismisses, Half, is_in_relationship_with, links_etc, links_orders
<1>7. CountsOK' /\ UNCHANGED <<status, links, lost, cuts, related>> /\ x.to \in Node
  BY <1>1 DEF TellInv, CountsOK, links_etc, links_orders
<1>. HIDE DEF gone
<1>. QED
  BY <1>2, <1>3, <1>4, <1>5, <1>6, <1>7, EndTells

(* Only a worker that lives is forgotten by its manager in silence. *)
LEMMA TimedOutTells ==
    ASSUME IInv, TellInv, NEW n \in Node, NEW p \in Peers(n), TimedOut(n, p), Kept
    PROVE  Told
<1>. DEFINE gone == {p}
            new == {Message("ManagerBye", n, p)}
<1>1. /\ p \in DOMAIN rel[n] /\ status[n] = "running" /\ p \in Node
      /\ UNCHANGED <<links_etc, known, related>>
  BY PeersShape DEF TimedOut, Checks, is_in_relationship_with
<1>2. \A o \in Node : DOMAIN rel'[o] = IF o = n THEN DOMAIN rel[n] \ gone ELSE DOMAIN rel[o]
  BY DEF TimedOut, Break, Without, IInv, RelInv
<1>3. /\ Sent' \subseteq Sent \cup new /\ net \subseteq net'
      /\ Connected(n, p) => Message("ManagerBye", n, p) \in net'
  <2>1. send_to_peer_or_dial(n, new, net)
    BY DEF TimedOut
  <2>2. Message("ManagerBye", n, p) \in new /\ Message("ManagerBye", n, p).to = p
    BY DEF Message
  <2>. HIDE DEF new
  <2>. QED
    BY <1>1, <2>1, <2>2, SendSends DEF IInv
<1>4. Pair(n, p) \in related
  BY <1>1 DEF TellInv, RelatedFirst
<1>5. \A y \in new : Grounded(y)' /\ Dismisses(y)'
  BY <1>1, <1>2, <1>4 DEF Message, Grounded, Dismisses
<1>6. \A q \in gone : n \in Worker /\ q \in DOMAIN rel[n] =>
         \/ ~(q \in Manager /\ Half(q, n)')
         \/ cuts = 0 /\ status[n] # "stopped" => Message("ManagerBye", n, q) \in net'
  <2>. SUFFICES ASSUME n \in Worker, p \in Manager, Half(p, n)', cuts = 0
                PROVE  Message("ManagerBye", n, p) \in net'
    OBVIOUS
  <2>1. <<n, p>> \in related
    BY <1>4 DEF Pair
  <2>2. status[n] # "stopped" /\ status[p] # "stopped"
    BY <1>1 DEF Half, links_etc
  <2>3. <<n, p>> \in links
    BY <2>1, <2>2 DEF TellInv, StayConnected
  <2>. QED
    BY <1>3, <2>3 DEF Connected, Pair
<1>. HIDE DEF new, gone
<1>7. CountsOK' /\ UNCHANGED <<status, links, lost, cuts, related>>
  BY <1>1 DEF TellInv, CountsOK, links_etc, links_orders
<1>. QED
  BY <1>2, <1>3, <1>5, <1>6, <1>7, EndTells

LEMMA ByeTells ==
    ASSUME IInv, TellInv, NEW n \in Node, Bye(n), Kept
    PROVE  Told
<1>. DEFINE gone == IF n \in Worker THEN DOMAIN rel[n] ELSE {}
            new == {Message("ManagerBye", n, p) : p \in DOMAIN rel[n]}
<1>1. /\ status[n] = "running" /\ status' = [status EXCEPT ![n] = "shutting"]
      /\ UNCHANGED <<links, related, lost, cuts>> /\ CountsOK'
  BY DEF Bye, TellInv, CountsOK
<1>2. \A o \in Node : DOMAIN rel'[o] = IF o = n THEN DOMAIN rel[n] \ gone ELSE DOMAIN rel[o]
  <2>1. DOMAIN NoRelation = {} /\ DOMAIN rel = Node
    BY DEF NoRelation, IInv, RelInv
  <2>2. CASE n \in Worker
    BY <2>1, <2>2 DEF Bye
  <2>3. CASE n \notin Worker
    BY <2>3 DEF Bye
  <2>. QED
    BY <2>2, <2>3
<1>3. /\ Sent' \subseteq Sent \cup new /\ net \subseteq net'
      /\ \A p \in DOMAIN rel[n] : Connected(n, p) => Message("ManagerBye", n, p) \in net'
  <2>1. send_to_peer_or_dial(n, new, net)
    BY DEF Bye
  <2>2. \A p \in DOMAIN rel[n] : /\ Message("ManagerBye", n, p) \in new
                                 /\ Message("ManagerBye", n, p).to = p
    BY DEF Message
  <2>. HIDE DEF new
  <2>. QED
    BY <1>1, <2>1, <2>2, SendSends DEF IInv
<1>4. \A p \in DOMAIN rel[n] : Pair(n, p) \in related
  BY DEF TellInv, RelatedFirst
<1>5. \A y \in new : Grounded(y)' /\ Dismisses(y)'
  <2>1. status'[n] # "running"
    BY <1>1 DEF IInv, NetInv, NodesOK
  <2>. QED
    BY <1>1, <1>4, <2>1 DEF Message, Grounded, Dismisses
<1>6. \A p \in gone : n \in Worker /\ p \in DOMAIN rel[n] =>
         \/ ~(p \in Manager /\ Half(p, n)')
         \/ cuts = 0 /\ status[n] # "stopped" => Message("ManagerBye", n, p) \in net'
  <2>. SUFFICES ASSUME n \in Worker, NEW p \in Manager, p \in DOMAIN rel[n], Half(p, n)', cuts = 0
                PROVE  Message("ManagerBye", n, p) \in net'
    OBVIOUS
  <2>1. <<n, p>> \in related
    BY <1>4 DEF Pair
  <2>2. status[n] # "stopped" /\ status[p] # "stopped"
    BY <1>1 DEF Half, IInv, NetInv, NodesOK
  <2>3. <<n, p>> \in links
    BY <2>1, <2>2 DEF TellInv, StayConnected
  <2>. QED
    BY <1>3, <2>3 DEF Connected, Pair
<1>. HIDE DEF new, gone
<1>. QED
  BY <1>1, <1>2, <1>3, <1>5, <1>6, EndTells

(* The steps of the timers and the application that only send a message to   *)
(* a peer in relationship, and the passing of time                          *)
LEMMA SendersTell ==
    ASSUME IInv, TellInv, Kept,
           \/ \E n \in Node : \E p \in Peers(n) : Ping(n, p)
           \/ \E w \in Worker, m \in Manager : TasksExecute(m, w) \/ TaskStatus(w, m)
    PROVE  Told
<1>1. UNCHANGED <<status, found, links, known, related, lost, cuts>> /\ CountsOK'
  BY DEF Ping, TasksExecute, TaskStatus, TellInv, CountsOK, links_etc, links_orders
<1>2. \A n \in Node : DOMAIN rel'[n] = DOMAIN rel[n]
  BY DEF Ping, TasksExecute, TaskStatus, Update, IInv, RelInv
<1>3. \E n \in Node, k \in {"ManagerPing", "TasksExecute", "TaskStatus"} : \E p \in Node :
         Pair(n, p) \in related /\ send_to_peer_or_dial(n, {Message(k, n, p)}, net)
  <2>1. CASE \E n \in Node : \E p \in Peers(n) : Ping(n, p)
    BY <2>1, PeersShape DEF Ping, Checks, is_in_relationship_with, TellInv, RelatedFirst
  <2>2. CASE \E w \in Worker, m \in Manager : TasksExecute(m, w)
    BY <2>2, RelationshipAssumption DEF TasksExecute, Pair, Node
  <2>3. CASE \E w \in Worker, m \in Manager : TaskStatus(w, m)
    BY <2>3 DEF TaskStatus, is_in_relationship_with, TellInv, RelatedFirst, Node
  <2>. QED
    BY <2>1, <2>2, <2>3
<1>4. PICK n \in Node, k \in {"ManagerPing", "TasksExecute", "TaskStatus"} : \E p \in Node :
         Pair(n, p) \in related /\ send_to_peer_or_dial(n, {Message(k, n, p)}, net)
  BY <1>3
<1>5. PICK p \in Node : Pair(n, p) \in related /\ send_to_peer_or_dial(n, {Message(k, n, p)}, net)
  BY <1>4
<1>. DEFINE new == {Message(k, n, p)}
<1>6. \A y \in new : Grounded(y) /\ Dismisses(y)
  BY <1>5 DEF Message, Grounded, Dismisses
<1>7. Sent' \subseteq Sent \cup new /\ net \subseteq net'
  BY <1>5, SendSends DEF IInv
<1>. HIDE DEF new
<1>8. TellInv'
  BY <1>1, <1>2, <1>6, <1>7, QuietTells DEF ProcessesLive
<1>. QED
  BY <1>8 DEF Told


LEMMA TickTells ==
    ASSUME IInv, TellInv, Tick
    PROVE  Told
<1>1. /\ UNCHANGED <<links_etc, pending, related, net>>
      /\ \A n \in Node : DOMAIN rel'[n] = DOMAIN rel[n]
  BY DEF Tick
<1>. DEFINE new == {x \in net : FALSE}
<1>2. Sent' \subseteq Sent \cup new /\ \A x \in new : Grounded(x) /\ Dismisses(x)
  BY <1>1 DEF Sent
<1>. HIDE DEF new
<1>3. CountsOK' /\ UNCHANGED <<status, links, lost, cuts>>
  BY <1>1 DEF links_etc, links_orders, TellInv, CountsOK
<1>4. TellInv'
  BY <1>1, <1>2, <1>3, QuietTells DEF ProcessesLive
<1>. QED
  BY <1>4 DEF Told

(* A node that ends owes nothing, and its messages tell no other. *)
LEMMA StopTells ==
    ASSUME IInv, TellInv, NEW n \in Node, Stop(n), Kept
    PROVE  Told
<1>1. /\ status' = [status EXCEPT ![n] = "stopped"]
      /\ links' = {l \in links : l[1] # n /\ l[2] # n}
      /\ net' = {x \in net : x.from # n /\ x.to # n}
      /\ pending' = [pending EXCEPT ![n] = {}]
      /\ UNCHANGED <<related, lost, cuts>> /\ CountsOK'
  BY DEF Stop, TellInv, CountsOK
<1>2. \A o \in Node : DOMAIN rel'[o] = IF o = n THEN {} ELSE DOMAIN rel[o]
  <2>1. DOMAIN NoRelation = {} /\ DOMAIN rel = Node /\ rel' = [rel EXCEPT ![n] = NoRelation]
    BY DEF NoRelation, Stop, IInv, RelInv
  <2>. HIDE DEF NoRelation
  <2>. QED
    BY <2>1
<1>3. \A o \in Node : status'[o] = IF o = n THEN "stopped" ELSE status[o]
  BY <1>1 DEF IInv, NetInv, NodesOK
<1>. DEFINE new == {x \in net : FALSE}
<1>4. SentOK'
  <2>1. Sent' \subseteq Sent \cup new /\ \A x \in new : Grounded(x)' /\ Dismisses(x)'
    BY <1>1 DEF Sent, IInv, NetInv, PendingOK
  <2>2. StartsOnce /\ \A m \in Manager : status[m] # "running" => status'[m] # "running"
    BY <1>3 DEF Kept, Node
  <2>. HIDE DEF new
  <2>. QED
    BY <1>1, <2>1, <2>2, SentKept
<1>5. RelatedFirst'
  BY <1>1, <1>2 DEF TellInv, RelatedFirst
<1>6. StayConnected'
  BY <1>1, <1>3 DEF TellInv, StayConnected, Node
<1>7. ASSUME NEW w \in Worker, NEW m \in Manager,
             Half(m, w)', lost' = 0, cuts' = 0, status'[w] # "stopped"
      PROVE  \/ Message("Accepted", m, w) \in net'
             \/ \E k \in {"ManagerBye", "NotMine"} : Message(k, w, m) \in net'
  <2>1. w # n /\ m # n /\ w \in Node /\ m \in Node
    BY <1>3, <1>7 DEF Half, Node
  <2>2. Half(m, w) /\ status[w] # "stopped"
    BY <1>2, <1>3, <1>7, <2>1 DEF Half, is_in_relationship_with
  <2>3. \/ Message("Accepted", m, w) \in net
        \/ \E k \in {"ManagerBye", "NotMine"} : Message(k, w, m) \in net
    BY <1>1, <1>7, <2>2 DEF TellInv, ManagerIsTold
  <2>. QED
    BY <1>1, <2>1, <2>3 DEF Message
<1>. QED
  BY <1>1, <1>4, <1>5, <1>6, <1>7 DEF Told, TellInv, ManagerIsTold

LEMMA NextTells == IInv /\ TellInv /\ [Next]_vars => TellInv'
<1>1. ASSUME IInv, TellInv, Next PROVE Told
  <2>. USE <1>1
  <2>1. Kept
    BY NextIsKept
  <2>2. CASE \E w \in Worker, m \in Manager :
               \/ inject_connected(w, m) \/ DialFails(w, m) \/ inject_disconnected(w, m)
               \/ Mdns(w, m) \/ Mdns(m, w)
    BY <2>2, NetworkTells
  <2>3. CASE \E w \in Worker, m \in Manager : TasksExecute(m, w) \/ TaskStatus(w, m)
    BY <2>1, <2>3, SendersTell
  <2>4. CASE \E x \in net : Receive(x)
    <3>1. PICK x \in net : Receive(x)
      BY <2>4
    <3>. QED
      BY <2>1, <3>1, HandlersTell, RequestTells, AcceptedTells, LeavesTells DEF Receive
  <2>5. CASE \E x \in net : Lose(x)
    <3>1. PICK x \in net : Lose(x)
      BY <2>5
    <3>2. PICK w \in Worker, m \in Manager : TRUE
      BY <3>1, NetShape DEF IInv, NetInv, LinksOK, Connected
    <3>. QED
      BY <2>5, NetworkTells
  <2>6. CASE \E n \in Node : Poll(n)
    <3>1. PICK n \in Node : \E p \in Peers(n) : TimedOut(n, p) \/ Ping(n, p)
      BY <2>6 DEF Poll
    <3>. QED
      BY <2>1, <3>1, TimedOutTells, SendersTell
  <2>7. CASE \E n \in Node : Bye(n) \/ Stop(n)
    BY <2>1, <2>7, ByeTells, StopTells
  <2>8. CASE Tick
    BY <2>8, TickTells
  <2>. QED
    BY <2>2, <2>3, <2>4, <2>5, <2>6, <2>7, <2>8 DEF Next
<1>2. ASSUME TellInv, UNCHANGED vars PROVE TellInv'
  BY <1>2 DEF vars, TellInv, CountsOK, RelatedFirst, SentOK, Sent, Grounded, Dismisses,
              StayConnected, ManagerIsTold, Half, is_in_relationship_with
<1>. QED
  BY <1>1, <1>2 DEF Told

------------------------------------------------------------------------------
(* Who blocks *)

(* Once a manager is a worker's, it accepts it no more. *)
AcceptedOnce ==
    \A w \in Worker, m \in Manager : m \in DOMAIN rel[w] => Message("Accepted", m, w) \notin net

BlockInv == OnlyOvertakenBlocks /\ AcceptedOnce

(* A step that accepts nobody, starts no relationship and blocks no node *)
Calm ==
    /\ \A y \in net' : y.kind = "Accepted" => y \in net
    /\ \A w \in Worker : DOMAIN rel'[w] \subseteq DOMAIN rel[w]
    /\ \A n \in Node : status'[n] = "blocked" => status[n] = "blocked"
    /\ \A n \in Node : /\ known[n] \subseteq known'[n]
                       /\ status[n] = "blocked" => known'[n] = known[n]

LEMMA CalmKeeps ==
    ASSUME BlockInv, Calm
    PROVE  BlockInv'
<1>1. AcceptedOnce'
  <2>. SUFFICES ASSUME NEW w \in Worker, NEW m \in Manager, m \in DOMAIN rel'[w]
                PROVE  Message("Accepted", m, w) \notin net'
    BY DEF AcceptedOnce
  <2>1. Message("Accepted", m, w).kind = "Accepted"
    BY DEF Message
  <2>. QED
    BY <2>1 DEF BlockInv, AcceptedOnce, Calm
<1>2. OnlyOvertakenBlocks'
  BY DEF BlockInv, OnlyOvertakenBlocks, Calm, Node
<1>. QED
  BY <1>1, <1>2 DEF BlockInv

LEMMA NetworkCalm ==
    ASSUME IInv, NEW w \in Worker, NEW m \in Manager,
           \/ inject_connected(w, m) \/ DialFails(w, m) \/ inject_disconnected(w, m)
           \/ Mdns(w, m) \/ Mdns(m, w) \/ \E x \in net : Lose(x)
    PROVE  Calm
<1>. DEFINE new == OnConnected(w, m) \cup OnConnected(m, w)
<1>1. UNCHANGED <<status, known, rel>> /\ net' \subseteq net \cup new
  BY DEF inject_connected, DialFails, inject_disconnected, Mdns, Lose
<1>2. ASSUME NEW y \in new PROVE y.kind # "Accepted"
  BY DEF OnConnected, Message, IInv, NetInv, PendingOK, Outgoing, Spontaneous, Node
<1>. HIDE DEF new
<1>. QED
  BY <1>1, <1>2 DEF Calm

(* The handlers but that of a request and that of its answer *)
LEMMA HandlersCalm ==
    ASSUME IInv, NEW x \in net, node_type(x) \/ Leaves(x) \/ Asks(x) \/ manager_pong(x)
    PROVE  Calm
<1>1. \E kinds : "Accepted" \notin kinds /\ net' = Answers(x, kinds)
  <2>1. CASE node_type(x)
    BY <2>1 DEF node_type, Requests
  <2>2. CASE Leaves(x) \/ manager_pong(x)
    BY <2>2 DEF Leaves, manager_pong
  <2>3. CASE Asks(x)
    BY <2>3 DEF Asks, needs_relationship_with
  <2>. QED
    BY <2>1, <2>2, <2>3
<1>2. \A y \in net' : y.kind = "Accepted" => y \in net
  BY <1>1 DEF Answers, Message
<1>3. status' = status /\ Up(x.to) /\ x.to \in Node
  BY NetShape DEF node_type, Leaves, Asks, manager_pong, Gets, links_etc, IInv
<1>4. \/ UNCHANGED known
      \/ known' = [known EXCEPT ![x.to] = @ \cup {x.from}]
  BY DEF node_type, Leaves, Asks, manager_pong
<1>5. \A n \in Node : /\ known[n] \subseteq known'[n]
                      /\ status[n] = "blocked" => known'[n] = known[n]
  BY <1>3, <1>4 DEF Up, IInv, NetInv, NodesOK
<1>6. \A n \in Node : DOMAIN rel'[n] \subseteq DOMAIN rel[n]
  BY DEF node_type, Leaves, Asks, manager_pong, Break, Without, Update, IInv, RelInv
<1>. QED
  BY <1>2, <1>3, <1>5, <1>6 DEF Calm, Node

(* What a node sends by itself, and the end of a process *)
LEMMA SendersCalm ==
    ASSUME IInv,
           \/ \E n \in Node : \E p \in Peers(n) : TimedOut(n, p) \/ Ping(n, p)
           \/ \E w \in Worker, m \in Manager : TasksExecute(m, w) \/ TaskStatus(w, m)
           \/ \E n \in Node : Bye(n) \/ Stop(n)
           \/ Tick
    PROVE  Calm
<1>1. \A y \in net' : y.kind = "Accepted" => y \in net
  <2>1. ASSUME NEW n, NEW msgs, send_to_peer_or_dial(n, msgs, net),
               \A y \in msgs : y.kind # "Accepted"
        PROVE  \A y \in net' : y.kind = "Accepted" => y \in net
    BY <2>1 DEF send_to_peer_or_dial
  <2>2. CASE \E n \in Node : \E p \in Peers(n) : TimedOut(n, p) \/ Ping(n, p)
    BY <2>1, <2>2 DEF TimedOut, Ping, Message
  <2>3. CASE \E w \in Worker, m \in Manager : TasksExecute(m, w) \/ TaskStatus(w, m)
    BY <2>1, <2>3 DEF TasksExecute, TaskStatus, Message
  <2>4. CASE \E n \in Node : Bye(n)
    BY <2>1, <2>4 DEF Bye, Message
  <2>5. CASE Tick \/ \E n \in Node : Stop(n)
    BY <2>5 DEF Stop, Tick
  <2>. QED
    BY <2>2, <2>3, <2>4, <2>5
<1>2. known' = known
  BY DEF TimedOut, Ping, TasksExecute, TaskStatus, Bye, Stop, Tick
<1>3. \A n \in Node : status'[n] = "blocked" => status[n] = "blocked"
  BY DEF TimedOut, Ping, TasksExecute, TaskStatus, Bye, Stop, Tick, links_etc,
         IInv, NetInv, NodesOK
<1>4. \A n \in Node : DOMAIN rel'[n] \subseteq DOMAIN rel[n]
  <2>1. DOMAIN NoRelation = {} /\ DOMAIN rel = Node
    BY DEF NoRelation, IInv, RelInv
  <2>. HIDE DEF NoRelation
  <2>2. CASE \E n \in Node : \E p \in Peers(n) : TimedOut(n, p) \/ Ping(n, p)
    BY <2>1, <2>2 DEF TimedOut, Ping, Break, Without, Update
  <2>3. CASE \E w \in Worker, m \in Manager : TasksExecute(m, w) \/ TaskStatus(w, m)
    BY <2>3 DEF TasksExecute, TaskStatus
  <2>4. CASE \E n \in Node : Bye(n) \/ Stop(n)
    BY <2>1, <2>4 DEF Bye, Stop
  <2>5. CASE Tick
    BY <2>5 DEF Tick
  <2>. QED
    BY <2>2, <2>3, <2>4, <2>5
<1>. QED
  BY <1>1, <1>2, <1>3, <1>4 DEF Calm, Node

(* A worker asks a manager it knows; its own one has accepted it already.   *)
LEMMA RequestBlocks ==
    ASSUME IInv, TellInv, BlockInv, NEW x \in net, manager_request(x)
    PROVE  BlockInv'
<1>1. /\ x.from \in Worker /\ x.to \in Manager /\ x.to \in Node
      /\ x.to \in known[x.from] /\ <<x.from, x.to>> \notin related
  <2>1. x.kind = "ManagerRequest" /\ RoleOK(x)
    BY DEF manager_request, Gets, IInv, NetInv, NetOK
  <2>2. x.to \in Peers(x.from) /\ x.to \in Node
    BY NetShape DEF IInv
  <2>. QED
    BY <2>1, <2>2, PeersShape DEF RoleOK
<1>2. known' = known
  BY DEF manager_request
<1>3. \A w \in Worker : DOMAIN rel'[w] = DOMAIN rel[w]
  BY <1>1, RelationshipAssumption DEF manager_request, Relate, Blocks, IInv, RelInv, Node
<1>4. x.to \notin DOMAIN rel[x.from]
  BY <1>1 DEF TellInv, RelatedFirst, Pair, Node
<1>5. AcceptedOnce'
  <2>. SUFFICES ASSUME NEW w \in Worker, NEW m \in Manager, m \in DOMAIN rel'[w]
                PROVE  Message("Accepted", m, w) \notin net'
    BY DEF AcceptedOnce
  <2>1. Message("Accepted", m, w) \notin net
    BY <1>3 DEF BlockInv, AcceptedOnce
  <2>2. Message("Accepted", m, w) # Message("Accepted", x.to, x.from)
    BY <1>3, <1>4 DEF Message
  <2>. QED
    BY <2>1, <2>2 DEF manager_request, Blocks, Answers
<1>6. OnlyOvertakenBlocks'
  BY <1>1, <1>2 DEF manager_request, Blocks, BlockInv, OnlyOvertakenBlocks, IInv, NetInv, NodesOK
<1>. QED
  BY <1>5, <1>6 DEF BlockInv

(* The message that makes a manager a worker's is the only one of its kind. *)
LEMMA AcceptedBlocks ==
    ASSUME IInv, BlockInv, NEW x \in net, Accepted(x)
    PROVE  BlockInv'
<1>1. /\ x = Message("Accepted", x.from, x.to) /\ x.kind = "Accepted"
      /\ x.from \in Manager /\ x.to \in Worker /\ x.to \in Node
  <2>1. x.kind = "Accepted" /\ RoleOK(x) /\ x \in Messages
    BY DEF Accepted, Gets, IInv, NetInv, NetOK
  <2>2. x.to \in Peers(x.from) /\ x.to \in Node
    BY NetShape DEF IInv
  <2>. QED
    BY <2>1, <2>2, PeersShape, MessageShape DEF RoleOK
<1>2. ~is_in_relationship_with(x.to, x.from)
  BY <1>1 DEF BlockInv, AcceptedOnce, is_in_relationship_with
<1>3. UNCHANGED <<status, known>>
  BY <1>2 DEF Accepted
<1>4. /\ \A y \in net' : y.kind = "Accepted" => y \in net \ {x}
      /\ \A w \in Worker : DOMAIN rel'[w] \subseteq
                             DOMAIN rel[w] \cup (IF w = x.to THEN {x.from} ELSE {})
  <2>1. \E kinds \in SUBSET {"ManagerBye"} : net' = Answers(x, kinds)
    BY DEF Accepted, Blocks
  <2>2. rel' = rel \/ Relate(x.to, x.from, NoRelation)
    BY DEF Accepted, Blocks
  <2>3. DOMAIN NoRelation = {} /\ DOMAIN rel = Node
    BY DEF NoRelation, IInv, RelInv
  <2>. HIDE DEF NoRelation
  <2>. QED
    BY <1>1, <2>1, <2>2, <2>3 DEF Answers, Message, Relate, Node
<1>5. AcceptedOnce'
  <2>. SUFFICES ASSUME NEW w \in Worker, NEW m \in Manager, m \in DOMAIN rel'[w],
                       Message("Accepted", m, w) \in net'
                PROVE  FALSE
    BY DEF AcceptedOnce
  <2>1. Message("Accepted", m, w).kind = "Accepted"
    BY DEF Message
  <2>2. Message("Accepted", m, w) \in net \ {x}
    BY <1>4, <2>1
  <2>3. w = x.to /\ m = x.from
    BY <1>4, <2>2 DEF BlockInv, AcceptedOnce
  <2>. QED
    BY <1>1, <2>2, <2>3
<1>6. OnlyOvertakenBlocks'
  BY <1>3 DEF BlockInv, OnlyOvertakenBlocks
<1>. QED
  BY <1>5, <1>6 DEF BlockInv

LEMMA NextBlocks == IInv /\ TellInv /\ BlockInv /\ [Next]_vars => BlockInv'
<1>1. ASSUME IInv, TellInv, BlockInv, Next PROVE BlockInv'
  <2>. USE <1>1
  <2>1. CASE \E w \in Worker, m \in Manager :
               \/ inject_connected(w, m) \/ DialFails(w, m) \/ inject_disconnected(w, m)
               \/ Mdns(w, m) \/ Mdns(m, w)
    BY <2>1, NetworkCalm, CalmKeeps
  <2>2. CASE \E x \in net : Receive(x)
    <3>1. PICK x \in net : Receive(x)
      BY <2>2
    <3>. QED
      BY <3>1, HandlersCalm, CalmKeeps, RequestBlocks, AcceptedBlocks DEF Receive
  <2>3. CASE \E x \in net : Lose(x)
    <3>1. PICK x \in net : Lose(x)
      BY <2>3
    <3>2. PICK w \in Worker, m \in Manager : TRUE
      BY <3>1, NetShape DEF IInv, NetInv, LinksOK, Connected
    <3>. QED
      BY <2>3, NetworkCalm, CalmKeeps
  <2>4. CASE \/ \E n \in Node : Poll(n) \/ Bye(n) \/ Stop(n)
             \/ \E w \in Worker, m \in Manager : TasksExecute(m, w) \/ TaskStatus(w, m)
             \/ Tick
    BY <2>4, SendersCalm, CalmKeeps DEF Poll
  <2>. QED
    BY <2>1, <2>2, <2>3, <2>4 DEF Next
<1>2. ASSUME BlockInv, UNCHANGED vars PROVE BlockInv'
  BY <1>2 DEF vars, BlockInv, OnlyOvertakenBlocks, AcceptedOnce
<1>. QED
  BY <1>1, <1>2

LEMMA InitBlocks == Init => BlockInv
  BY DEF Init, BlockInv, OnlyOvertakenBlocks, AcceptedOnce

------------------------------------------------------------------------------
(* Theorems *)

LEMMA Invariance == Spec => []IInv
<1>. QED
  BY InitEstablishes, NextKeeps, PTL DEF Spec

(* Whatever the order of dials, connections, cuts and messages: a message   *)
(* in flight has a connection, and one that waits for a dial has none, so   *)
(* that none is forgotten by the connection it waited for (mod.rs:355-371). *)
THEOREM MessagesFollowConnections == Spec => []TypeOK
<1>1. IInv => TypeOK
  BY DEF IInv, NetInv, NodesOK, PendingOK, Outgoing, LinksOK, NetOK, RelInv, TypeOK
<1>. QED
  BY <1>1, Invariance, PTL

(* A relationship that ended never starts again. *)
THEOREM NeverTwice == Spec => RelationshipOnce
<1>1. StartsOnce \/ UNCHANGED vars =>
        [\A w \in Worker, m \in Manager :
           w \in DOMAIN rel'[m] /\ w \notin DOMAIN rel[m] => <<w, m>> \notin related]_vars
  BY DEF StartsOnce
<1>. QED
  BY <1>1, Invariance, NextKeeps, PTL DEF Spec, RelationshipOnce

(* A worker that does not want the manager that accepted it, or not any     *)
(* more, says so as long as nothing is lost on the way: it answers the       *)
(* acceptance with a good bye (events.rs:514), tells a manager it gives up,  *)
(* and refuses the orders of any other.                                     *)
THEOREM ManagerWillKnow == Spec => []ManagerIsTold
<1>1. TellInv => ManagerIsTold
  BY DEF TellInv
<1>. QED
  BY <1>1, Invariance, InitTells, NextTells, PTL DEF Spec

(* A node that blocks on the lock of a peer is a manager whose worker asked *)
(* before the answer with its type had come (events.rs:388-406): a worker   *)
(* never does (events.rs:459-471), since its own manager accepts it once.   *)
THEOREM WorkersNeverBlock == Spec => []OnlyOvertakenBlocks
<1>1. BlockInv => OnlyOvertakenBlocks
  BY DEF BlockInv
<1>. QED
  BY <1>1, Invariance, InitTells, NextTells, InitBlocks, NextBlocks, PTL DEF Spec
==============================================================================

-------------------------- MODULE NodeLocksProofs --------------------------
(***************************************************************************)
(* Proofs about what the handlers of a node wait for, for any number of    *)
(* tasks, any channel size, redundancy, number of processors and events.   *)
(***************************************************************************)
EXTENDS NodeLocks, SequenceTheorems, TLAPS

------------------------------------------------------------------------------
(* The inductive invariant *)

Request == {Read, Write, Table}
LockName == {"shared_state", "workers"}
Asked == [actor : Actor, mode : {"read", "write"}]
Content == {"quiet", "proposal", "assigned", "unassigned", "command", "task"}

(* The steps of the handlers of a kind of node that take no lock: what they *)
(* send, and the answers they wait for. What such a node's inner channel    *)
(* holds.                                                                   *)
Sends(k) ==
    CASE k = "worker" -> {Await, Log, Command, Send("runner", "task")}
      [] k = "manager" -> {Await, Log, Propose, Command}
      [] OTHER -> {Await, Log, Propose, Command, Send("inner", "assigned"),
                   Send("inner", "unassigned")}

Contents(k) ==
    CASE k = "worker" -> {"quiet"}
      [] k = "manager" -> {"quiet", "proposal"}
      [] OTHER -> {"quiet", "proposal", "assigned", "unassigned"}

Moves == {Lock(r) : r \in SUBSET Request} \cup {Drop(r) : r \in SUBSET Request}
Steps(k) == Moves \cup Sends(k)

TypeInv ==
    /\ kind \in {"oracle", "manager", "worker"}
    /\ todo \in [Actor -> Seq(Steps(kind))]
    /\ line \in [LockName -> Seq(Asked)]
    /\ queue \in [Channel -> Seq(Content)] /\ queue["inner"] \in Seq(Contents(kind))
    /\ parked \in [Channel -> Seq(Actor)]
    /\ events \in 0..MaxEvents

RoomOK == \A c \in Channel : Len(queue[c]) <= ChannelSize + Len(parked[c])

OnceOK ==
    \A l \in LockName : \A i, j \in DOMAIN line[l] :
        line[l][i].actor = line[l][j].actor => i = j

IsParkedSomewhere(a) == \E c \in Channel : IsParked(a, c)
ParkedOnce == \A a \in Actor : \A c, d \in Channel : IsParked(a, c) /\ IsParked(a, d) => c = d

Wants(a, l) == todo[a] # <<>> /\ Head(todo[a]).do = "lock" /\ \E r \in Head(todo[a]).of : r[1] = l

(* What a handler is not waiting for, it has. *)
HasRest ==
    \A a \in Actor, l \in LockName :
        Asks(a, l) /\ (Wants(a, l) => IsParkedSomewhere(a)) => Ahead(a, l) = {}

(* A handler that takes locks together, and drops them at its end *)
Footprint(s, h) ==
    /\ s \in Seq({Lock(h), Drop(h)} \cup Sends(kind))
    /\ (\E i \in DOMAIN s : s[i] = Lock(h)) => s[Len(s)] = Drop(h)

StandsFor(a, h) ==
    /\ Footprint(todo[a], h)
    /\ \A l \in LockName : Asks(a, l) => todo[a] # <<>> /\ todo[a][Len(todo[a])] = Drop(h)
    /\ \A l \in LockName : \A i \in DOMAIN line[l] :
          line[l][i].actor = a => <<l, line[l][i].mode>> \in h

TickOK ==
    /\ StandsFor("tick", {Read, Table})
    /\ todo["tick"] \in Seq({Lock({Read, Table}), Drop({Read, Table}), Propose})
    /\ ~IsParked("tick", "swarm")

(* The consumer of a node that is not the oracle only sends commands, that  *)
(* of a worker nothing.                                                     *)
ConsumerOK ==
    /\ \E h \in {{Write}, {Table}, {Read, Table}} : StandsFor("consumer", h)
    /\ kind # "oracle" =>
          /\ todo["consumer"] \in Seq({Command})
          /\ \A l \in LockName : ~Asks("consumer", l)
          /\ ~IsParked("consumer", "inner")
    /\ kind = "worker" => todo["consumer"] = <<>> /\ ~IsParkedSomewhere("consumer")

ReadFreed(s, i, r) ==
    \/ ~r /\ \A k \in 1..i : s[k] # Lock({Read})
    \/ \E j \in 1..(i - 1) : s[j] = Drop({Read}) /\ \A k \in j..i : s[k] # Lock({Read})

FreesRead(s, i) == s[i] \in {Drop({Read}), Drop({Table, Read})}

(* A handler that takes the table, and with it the shared state: it has the  *)
(* table at its start if t, the shared state if r.                          *)
Nested(s, t, r) ==
    /\ s \in Seq({Lock({Table}), Lock({Read}), Drop({Table}), Drop({Read}), Drop({Table, Read})}
                   \cup Sends(kind))
    /\ \A i \in DOMAIN s : s[i] = Lock({Read}) =>
          /\ IF i = 1 THEN t ELSE s[i - 1] = Lock({Table})
          /\ \E j \in DOMAIN s : j > i /\ FreesRead(s, j)
    /\ \A i \in DOMAIN s : s[i] = Drop({Table}) => ReadFreed(s, i, r)
    /\ r => \E j \in DOMAIN s : FreesRead(s, j)

(* The swarm reads the shared state only while it has the table. *)
SwarmOK ==
    /\ Nested(todo["swarm"], Asks("swarm", "workers"), Asks("swarm", "shared_state"))
    /\ Asks("swarm", "shared_state") => Granted("swarm", "workers")
    /\ \A i \in DOMAIN line["shared_state"] :
          line["shared_state"][i].actor = "swarm" => line["shared_state"][i].mode = "read"
    /\ kind = "worker" =>
          /\ todo["swarm"] \in Seq({Log, Send("runner", "task")})
          /\ ~IsParked("swarm", "swarm")

OnlySends(a) == todo[a] \in Seq(Sends(kind)) /\ \A l \in LockName : ~Asks(a, l)

(* Of the other handlers, and of all those of a worker, none takes a lock.  *)
CodeOK(a) ==
    /\ a = "tick" => TickOK
    /\ a = "consumer" => ConsumerOK
    /\ a = "swarm" => SwarmOK
    /\ a \notin {"tick", "consumer", "swarm"} \/ kind = "worker" => OnlySends(a)

LinesOK == OnceOK /\ HasRest /\ ParkedOnce
IInv == TypeInv /\ RoomOK /\ LinesOK /\ \A a \in Actor : CodeOK(a)

------------------------------------------------------------------------------
(* A line: a request joins it at its end, or leaves it *)

InLine(s, a) == \E i \in DOMAIN s : s[i].actor = a
AheadIn(s, a) ==
    {s[i].actor : i \in {i \in DOMAIN s : \E j \in DOMAIN s :
        i < j /\ s[j].actor = a /\ "write" \in {s[i].mode, s[j].mode}}}
Once(s) == \A i, j \in DOMAIN s : s[i].actor = s[j].actor => i = j

LEMMA Joins ==
    ASSUME NEW s \in Seq(Asked), Once(s), NEW r \in Asked, ~InLine(s, r.actor)
    PROVE  /\ Append(s, r) \in Seq(Asked) /\ Once(Append(s, r))
           /\ \A i \in DOMAIN Append(s, r) :
                 \/ i \in DOMAIN s /\ Append(s, r)[i] = s[i]
                 \/ Append(s, r)[i] = r
           /\ \A b : InLine(Append(s, r), b) <=> InLine(s, b) \/ b = r.actor
           /\ \A b : b # r.actor => AheadIn(Append(s, r), b) \subseteq AheadIn(s, b)
<1>. DEFINE t == Append(s, r)
<1>1. /\ t \in Seq(Asked) /\ Len(t) = Len(s) + 1 /\ Len(s) \in Nat
      /\ DOMAIN s = 1..Len(s) /\ DOMAIN t = 1..(Len(s) + 1)
      /\ t[Len(s) + 1] = r /\ \A i \in 1..Len(s) : t[i] = s[i]
  OBVIOUS
<1>. HIDE DEF t
<1>2. Once(t)
  <2>. SUFFICES ASSUME NEW i \in 1..(Len(s) + 1), NEW j \in 1..(Len(s) + 1), t[i].actor = t[j].actor
                PROVE  i = j
    BY <1>1 DEF Once
  <2>1. (i \in 1..Len(s) \/ i = Len(s) + 1) /\ (j \in 1..Len(s) \/ j = Len(s) + 1)
    BY <1>1
  <2>. QED
    BY <1>1, <2>1 DEF Once, InLine
<1>3. \A i \in DOMAIN t : (i \in DOMAIN s /\ t[i] = s[i]) \/ t[i] = r
  BY <1>1
<1>4. \A b : InLine(t, b) <=> InLine(s, b) \/ b = r.actor
  BY <1>1 DEF InLine
<1>5. ASSUME NEW b, b # r.actor PROVE AheadIn(t, b) \subseteq AheadIn(s, b)
  <2>. SUFFICES ASSUME NEW i \in DOMAIN t, NEW j \in DOMAIN t,
                       i < j, t[j].actor = b, "write" \in {t[i].mode, t[j].mode}
                PROVE  t[i].actor \in AheadIn(s, b)
    BY DEF AheadIn
  <2>1. j \in 1..Len(s) /\ i \in 1..Len(s)
    BY <1>1, <1>5
  <2>. QED
    BY <1>1, <2>1 DEF AheadIn
<1>. QED
  BY <1>1, <1>2, <1>3, <1>4, <1>5 DEF t

LEMMA LeavesLine ==
    ASSUME NEW s \in Seq(Asked), Once(s), NEW k \in DOMAIN s
    PROVE  /\ RemoveAt(s, k) \in Seq(Asked) /\ Once(RemoveAt(s, k))
           /\ \A i \in DOMAIN RemoveAt(s, k) :
                 \E j \in DOMAIN s : j # k /\ RemoveAt(s, k)[i] = s[j]
           /\ \A b : InLine(RemoveAt(s, k), b) <=> InLine(s, b) /\ b # s[k].actor
           /\ \A b : AheadIn(RemoveAt(s, k), b) \subseteq AheadIn(s, b)
<1>. DEFINE t == RemoveAt(s, k)
            at(i) == IF i < k THEN i ELSE i + 1
<1>1. /\ Len(s) \in Nat /\ DOMAIN s = 1..Len(s) /\ k \in 1..Len(s)
      /\ SubSeq(s, 1, k - 1) \in Seq(Asked) /\ SubSeq(s, k + 1, Len(s)) \in Seq(Asked)
      /\ Len(SubSeq(s, 1, k - 1)) = k - 1 /\ Len(SubSeq(s, k + 1, Len(s))) = Len(s) - k
      /\ \A i \in 1..(k - 1) : SubSeq(s, 1, k - 1)[i] = s[i]
      /\ \A i \in 1..(Len(s) - k) : SubSeq(s, k + 1, Len(s))[i] = s[k + i]
  <2>1. Len(s) \in Nat /\ DOMAIN s = 1..Len(s) /\ k \in 1..Len(s)
    OBVIOUS
  <2>2. \A i \in 1..(k - 1) : s[i] \in Asked
    BY <2>1
  <2>3. \A i \in (k + 1)..Len(s) : s[i] \in Asked
    BY <2>1
  <2>4. /\ SubSeq(s, 1, k - 1) \in Seq(Asked) /\ Len(SubSeq(s, 1, k - 1)) = k - 1
        /\ \A i \in 1..(k - 1) : SubSeq(s, 1, k - 1)[i] = s[i]
    BY <2>1, <2>2, SubSeqProperties
  <2>5. /\ SubSeq(s, k + 1, Len(s)) \in Seq(Asked) /\ Len(SubSeq(s, k + 1, Len(s))) = Len(s) - k
        /\ \A i \in 1..(Len(s) - k) : SubSeq(s, k + 1, Len(s))[i] = s[k + i]
    BY <2>1, <2>3, SubSeqProperties
  <2>. QED
    BY <2>1, <2>4, <2>5
<1>2. /\ t \in Seq(Asked) /\ Len(t) = Len(s) - 1
      /\ \A i \in 1..(Len(s) - 1) : t[i] = s[at(i)] /\ at(i) \in 1..Len(s) /\ at(i) # k
  <2>. DEFINE u == SubSeq(s, 1, k - 1)
              v == SubSeq(s, k + 1, Len(s))
  <2>1. t = u \o v
    BY DEF RemoveAt
  <2>2. /\ u \in Seq(Asked) /\ v \in Seq(Asked) /\ Len(u) = k - 1 /\ Len(v) = Len(s) - k
        /\ \A i \in 1..(k - 1) : u[i] = s[i]
        /\ \A i \in 1..(Len(s) - k) : v[i] = s[k + i]
    BY <1>1
  <2>. HIDE DEF u, v, t
  <2>3. /\ t \in Seq(Asked) /\ Len(t) = Len(s) - 1
        /\ \A i \in 1..(Len(s) - 1) : t[i] = IF i <= k - 1 THEN u[i] ELSE v[i - (k - 1)]
    <3>1. t \in Seq(Asked) /\ Len(t) = Len(u) + Len(v)
      BY <2>1, <2>2, ConcatProperties
    <3>2. \A i \in 1..(Len(u) + Len(v)) : t[i] = IF i <= Len(u) THEN u[i] ELSE v[i - Len(u)]
      BY <2>1, <2>2, ConcatProperties
    <3>3. Len(u) + Len(v) = Len(s) - 1 /\ Len(u) = k - 1
      BY <1>1, <2>2
    <3>. QED
      BY <3>1, <3>2, <3>3
  <2>4. ASSUME NEW i \in 1..(Len(s) - 1)
        PROVE  t[i] = s[at(i)] /\ at(i) \in 1..Len(s) /\ at(i) # k
    <3>1. CASE i < k
      <4>1. i \in 1..(k - 1) /\ i <= k - 1
        BY <1>1, <3>1
      <4>. QED
        BY <1>1, <2>2, <2>3, <3>1, <4>1
    <3>2. CASE i >= k
      <4>1. i - (k - 1) \in 1..(Len(s) - k) /\ ~(i <= k - 1) /\ k + (i - (k - 1)) = i + 1
        BY <1>1, <3>2
      <4>2. v[i - (k - 1)] = s[i + 1]
        BY <2>2, <4>1
      <4>3. t[i] = s[i + 1]
        BY <2>3, <4>1, <4>2
      <4>4. at(i) = i + 1 /\ i + 1 \in 1..Len(s) /\ i + 1 # k
        BY <1>1, <3>2
      <4>. QED
        BY <4>3, <4>4
    <3>. QED
      BY <1>1, <3>1, <3>2
  <2>. QED
    BY <2>3, <2>4
<1>3. DOMAIN t = 1..(Len(s) - 1) /\ \A i, j \in 1..(Len(s) - 1) : i < j => at(i) < at(j)
  BY <1>1, <1>2
<1>4. \A j \in 1..Len(s) : j # k => \E i \in 1..(Len(s) - 1) : at(i) = j
  <2>. SUFFICES ASSUME NEW j \in 1..Len(s), j # k PROVE \E i \in 1..(Len(s) - 1) : at(i) = j
    OBVIOUS
  <2>1. CASE j < k
    <3>1. j \in 1..(Len(s) - 1) /\ at(j) = j
      BY <1>1, <2>1
    <3>. QED
      BY <3>1
  <2>2. CASE j > k
    <3>1. j - 1 \in 1..(Len(s) - 1) /\ at(j - 1) = j
      BY <1>1, <2>2
    <3>. QED
      BY <3>1
  <2>. QED
    BY <1>1, <2>1, <2>2
<1>. HIDE DEF t, at
<1>5. Once(t)
  <2>. SUFFICES ASSUME NEW i \in 1..(Len(s) - 1), NEW j \in 1..(Len(s) - 1), t[i].actor = t[j].actor
                PROVE  i = j
    BY <1>3 DEF Once
  <2>1. /\ t[i].actor = s[at(i)].actor /\ at(i) \in DOMAIN s
        /\ t[j].actor = s[at(j)].actor /\ at(j) \in DOMAIN s
    BY <1>1, <1>2
  <2>2. at(i) = at(j)
    BY <2>1 DEF Once
  <2>3. ~(i < j) /\ ~(j < i)
    <3>1. i < j => at(i) < at(j)
      BY <1>3
    <3>2. j < i => at(j) < at(i)
      BY <1>3
    <3>. QED
      BY <1>1, <1>2, <2>2, <3>1, <3>2
  <2>. QED
    BY <2>3
<1>6. \A i \in DOMAIN t : \E j \in DOMAIN s : j # k /\ t[i] = s[j]
  BY <1>1, <1>2, <1>3
<1>7. ASSUME NEW b PROVE InLine(t, b) <=> InLine(s, b) /\ b # s[k].actor
  <2>1. ASSUME NEW i \in DOMAIN t, t[i].actor = b PROVE InLine(s, b) /\ b # s[k].actor
    <3>1. t[i] = s[at(i)] /\ at(i) \in DOMAIN s /\ at(i) # k
      BY <1>1, <1>2, <1>3
    <3>. QED
      BY <2>1, <3>1 DEF InLine, Once
  <2>2. ASSUME NEW j \in DOMAIN s, s[j].actor = b, b # s[k].actor PROVE InLine(t, b)
    <3>1. j # k
      BY <2>2
    <3>2. PICK i \in 1..(Len(s) - 1) : at(i) = j
      BY <1>1, <1>4, <3>1
    <3>3. t[i] = s[j] /\ i \in DOMAIN t
      BY <1>2, <1>3, <3>2
    <3>. QED
      BY <2>2, <3>3 DEF InLine
  <2>. QED
    BY <2>1, <2>2 DEF InLine
<1>8. ASSUME NEW b PROVE AheadIn(t, b) \subseteq AheadIn(s, b)
  <2>. SUFFICES ASSUME NEW i \in DOMAIN t, NEW j \in DOMAIN t,
                       i < j, t[j].actor = b, "write" \in {t[i].mode, t[j].mode}
                PROVE  t[i].actor \in AheadIn(s, b)
    BY DEF AheadIn
  <2>1. at(i) < at(j) /\ at(i) \in DOMAIN s /\ at(j) \in DOMAIN s /\ t[i] = s[at(i)] /\ t[j] = s[at(j)]
    BY <1>1, <1>2, <1>3
  <2>. QED
    BY <2>1 DEF AheadIn
<1>. QED
  BY <1>2, <1>5, <1>6, <1>7, <1>8 DEF t

------------------------------------------------------------------------------
(* Who waits for whom, in a state *)

Before(a, b, l) ==
    \E i, j \in DOMAIN line[l] : i < j /\ line[l][i].actor = a /\ line[l][j].actor = b

(* The requests of a line are in one order. *)
LEMMA BeforeOrder ==
    ASSUME TypeInv, OnceOK, NEW l \in LockName
    PROVE  /\ \A a, b : ~(Before(a, b, l) /\ Before(b, a, l)) /\ ~Before(a, a, l)
           /\ \A a, b, c : Before(a, b, l) /\ Before(b, c, l) => Before(a, c, l)
<1>1. DOMAIN line[l] = 1..Len(line[l]) /\ Len(line[l]) \in Nat
  BY DEF TypeInv
<1>2. \A i, j \in DOMAIN line[l] : line[l][i].actor = line[l][j].actor => i = j
  BY DEF OnceOK
<1>3. ASSUME NEW a, NEW b, NEW c, Before(a, b, l), Before(b, c, l)
      PROVE  Before(a, c, l)
  <2>1. PICK i \in DOMAIN line[l], j \in DOMAIN line[l] :
           i < j /\ line[l][i].actor = a /\ line[l][j].actor = b
    BY <1>3 DEF Before
  <2>2. PICK p \in DOMAIN line[l], q \in DOMAIN line[l] :
           p < q /\ line[l][p].actor = b /\ line[l][q].actor = c
    BY <1>3 DEF Before
  <2>3. j = p
    BY <1>2, <2>1, <2>2
  <2>4. i < q
    BY <1>1, <2>1, <2>2, <2>3
  <2>. QED
    BY <2>1, <2>2, <2>4 DEF Before
<1>4. \A a : ~Before(a, a, l)
  <2>. SUFFICES ASSUME NEW a, NEW i \in DOMAIN line[l], NEW j \in DOMAIN line[l],
                       i < j, line[l][i].actor = a, line[l][j].actor = a
                PROVE  FALSE
    BY DEF Before
  <2>. QED
    BY <1>1, <1>2
<1>. QED
  BY <1>3, <1>4

ConsumerWrites ==
    \E i \in DOMAIN line["shared_state"] :
        line["shared_state"][i].actor = "consumer" /\ line["shared_state"][i].mode = "write"

(* The swarm and the tick only read the shared state. *)
LEMMA AheadOrder ==
    ASSUME IInv, NEW l \in LockName, NEW a, NEW b \in Ahead(a, l)
    PROVE  /\ Before(b, a, l) /\ Asks(a, l) /\ Asks(b, l) /\ a \in Actor /\ b \in Actor
           /\ l = "shared_state" => ConsumerWrites /\ (a = "consumer" \/ b = "consumer")
<1>1. PICK i \in DOMAIN line[l], j \in DOMAIN line[l] :
         /\ i < j /\ line[l][i].actor = b /\ line[l][j].actor = a
         /\ "write" \in {line[l][i].mode, line[l][j].mode}
  BY DEF Ahead
<1>2. \A k \in DOMAIN line[l] : line[l][k].actor \in Actor
  <2>1. line[l] \in Seq(Asked)
    BY DEF IInv, TypeInv
  <2>2. \A k \in DOMAIN line[l] : line[l][k] \in Asked
    BY <2>1
  <2>. QED
    BY <2>2 DEF Asked
<1>3. Asks(a, l) /\ Asks(b, l)
  BY <1>1 DEF Asks
<1>4. ASSUME l = "shared_state", NEW k \in DOMAIN line[l], line[l][k].mode = "write"
      PROVE  line[l][k].actor = "consumer"
  <2>1. line[l][k].actor \in Actor /\ Asks(line[l][k].actor, l)
    BY <1>2 DEF Asks
  <2>2. line[l][k].actor \in {"consumer", "swarm", "tick"}
    BY <2>1 DEF IInv, CodeOK, OnlySends
  <2>3. line[l][k].actor # "swarm"
    BY <1>4, <2>1 DEF IInv, CodeOK, SwarmOK
  <2>4. line[l][k].actor = "tick" => <<"shared_state", "write">> \in {Read, Table}
    BY <1>4, <2>1 DEF IInv, CodeOK, TickOK, StandsFor
  <2>5. <<"shared_state", "write">> \notin {Read, Table}
    BY DEF Read, Table
  <2>. QED
    BY <2>2, <2>3, <2>4, <2>5
<1>5. l = "shared_state" => ConsumerWrites /\ (a = "consumer" \/ b = "consumer")
  BY <1>1, <1>4 DEF ConsumerWrites
<1>. QED
  BY <1>1, <1>2, <1>3, <1>5 DEF Before

(* The consumer writes the shared state without the table. *)
LEMMA WritesAlone == IInv /\ ConsumerWrites => ~Asks("consumer", "workers")
<1>. SUFFICES ASSUME IInv, ConsumerWrites PROVE ~Asks("consumer", "workers")
  OBVIOUS
<1>1. PICK h \in {{Write}, {Table}, {Read, Table}} : StandsFor("consumer", h)
  BY DEF IInv, CodeOK, ConsumerOK, Actor
<1>2. <<"shared_state", "write">> \in h
  BY <1>1 DEF ConsumerWrites, StandsFor, LockName
<1>3. h = {Write}
  BY <1>2 DEF Read, Write, Table
<1>4. \A mode : <<"workers", mode>> \notin {Write}
  BY DEF Write
<1>. QED
  BY <1>1, <1>3, <1>4 DEF StandsFor, Asks, LockName

Waiting(S) == S # {} /\ S \in SUBSET Actor /\ \A a \in S : WaitsFor(a) \cap S # {}

LEMMA WaitsShape ==
    ASSUME IInv, NEW a \in Actor, NEW b \in WaitsFor(a)
    PROVE  \/ IsParked(a, "inner") /\ b = "consumer"
           \/ IsParked(a, "swarm") /\ b = "swarm"
           \/ /\ ~IsParkedSomewhere(a)
              /\ \E l \in LockName : b \in Ahead(a, l)
<1>1. CASE \E l \in LockName : b \in Ahead(a, l)
  <2>1. PICK l \in LockName : b \in Ahead(a, l)
    BY <1>1
  <2>2. Asks(a, l)
    BY <2>1, AheadOrder
  <2>. QED
    BY <2>1, <2>2 DEF IInv, LinesOK, HasRest
<1>2. CASE ~(\E l \in LockName : b \in Ahead(a, l))
  <2>1. DOMAIN line = LockName
    BY DEF IInv, TypeInv
  <2>. QED
    BY <1>2, <2>1 DEF WaitsFor
<1>. QED
  BY <1>1, <1>2

(* The swarm and the tick do not wait for each other for the locks alone. *)
LEMMA SwarmAndTick ==
    ASSUME IInv, NEW l \in LockName, NEW k \in LockName,
           "tick" \in Ahead("swarm", l), "swarm" \in Ahead("tick", k)
    PROVE  FALSE
<1>1. l = "workers" /\ k = "workers"
  BY AheadOrder DEF LockName
<1>. QED
  BY <1>1, AheadOrder, BeforeOrder DEF IInv, LinesOK

(* Handlers that wait for locks only: the tick, the swarm and a proposal *)
LEMMA LockCycle ==
    ASSUME IInv, NEW S, Waiting(S),
           \A a \in S : \E b \in S, l \in LockName : b \in Ahead(a, l)
    PROVE  /\ kind = "oracle"
           /\ Granted("tick", "shared_state") /\ ~Granted("tick", "workers")
           /\ Granted("swarm", "workers") /\ ~Granted("swarm", "shared_state")
           /\ Asks("consumer", "shared_state") /\ ~Granted("consumer", "shared_state")
<1>1. "shared_state" \in LockName /\ "workers" \in LockName
  BY DEF LockName
<1>2. S \subseteq {"consumer", "swarm", "tick"}
  BY AheadOrder DEF IInv, CodeOK, OnlySends, Waiting
<1>3. \A a \in S, b \in S, l \in LockName :
         b \in Ahead(a, l) => Before(b, a, l) /\ (~ConsumerWrites => l = "workers")
  BY AheadOrder DEF Waiting, LockName
<1>4. /\ \A l \in LockName : \A a, b : ~(Before(a, b, l) /\ Before(b, a, l)) /\ ~Before(a, a, l)
      /\ \A l \in LockName : \A a, b, c : Before(a, b, l) /\ Before(b, c, l) => Before(a, c, l)
  BY BeforeOrder DEF IInv, LinesOK
<1>5. ConsumerWrites
  <2>. SUFFICES ASSUME ~ConsumerWrites PROVE FALSE
    OBVIOUS
  <2>1. \A a \in S : \E b \in S : Before(b, a, "workers")
    BY <1>3
  <2>2. \A a, b : ~(Before(a, b, "workers") /\ Before(b, a, "workers")) /\ ~Before(a, a, "workers")
    BY <1>1, <1>4
  <2>3. \A a, b, c : Before(a, b, "workers") /\ Before(b, c, "workers") => Before(a, c, "workers")
    BY <1>1, <1>4
  <2>4. PICK a \in S : TRUE
    BY DEF Waiting
  <2>5. PICK b \in S : Before(b, a, "workers")
    BY <2>1
  <2>6. PICK c \in S : Before(c, b, "workers")
    BY <2>1
  <2>7. PICK d \in S : Before(d, c, "workers")
    BY <2>1
  <2>8. a # b /\ b # c /\ c # d /\ a # c /\ a # d /\ b # d
    BY <2>2, <2>3, <2>5, <2>6, <2>7
  <2>. QED
    BY <1>2, <2>8
<1>6. kind = "oracle" /\ ~Asks("consumer", "workers") /\ Asks("consumer", "shared_state")
  <2>1. Asks("consumer", "shared_state")
    BY <1>5 DEF ConsumerWrites, Asks
  <2>. QED
    BY <1>1, <1>5, <2>1, WritesAlone DEF IInv, CodeOK, ConsumerOK, Actor
<1>7. \A a \in {"swarm", "tick"}, b \in {"swarm", "tick"}, l \in LockName :
         b \in Ahead(a, l) => l = "workers" /\ Before(b, a, "workers")
  BY AheadOrder DEF LockName
<1>8. "consumer" \in S
  <2>. SUFFICES ASSUME "consumer" \notin S PROVE FALSE
    OBVIOUS
  <2>1. \A a \in S : \E b \in S : Before(b, a, "workers")
    BY <1>2, <1>7
  <2>2. PICK a \in S : TRUE
    BY DEF Waiting
  <2>3. PICK b \in S : Before(b, a, "workers")
    BY <2>1
  <2>4. PICK c \in S : Before(c, b, "workers")
    BY <2>1
  <2>5. a # b /\ b # c /\ a # c
    BY <1>1, <1>4, <2>3, <2>4
  <2>. QED
    BY <1>2, <2>5
<1>9. PICK x \in S : x \in Ahead("consumer", "shared_state") /\ Before(x, "consumer", "shared_state")
  <2>1. PICK x \in S, l \in LockName : x \in Ahead("consumer", l)
    BY <1>8
  <2>2. Asks("consumer", l) /\ Before(x, "consumer", l)
    BY <2>1, AheadOrder
  <2>. QED
    BY <1>6, <2>1, <2>2 DEF LockName
<1>10. x \in {"swarm", "tick"} /\ Asks(x, "shared_state")
  BY <1>1, <1>2, <1>4, <1>9, AheadOrder
<1>11. \A a : Before("consumer", a, "workers") \/ Before(a, "consumer", "workers") => FALSE
  BY <1>6 DEF Before, Asks
(* The one before the consumer waits for the other, which waits for the consumer. *)
<1>12. PICK y \in {"swarm", "tick"} :
          /\ y # x /\ y \in S /\ y \in Ahead(x, "workers") /\ Before(y, x, "workers")
          /\ "consumer" \in Ahead(y, "shared_state")
  <2>1. PICK y \in S, l \in LockName : y \in Ahead(x, l)
    OBVIOUS
  <2>2. Before(y, x, l)
    BY <2>1, AheadOrder
  <2>3. y # "consumer"
    BY <1>1, <1>4, <1>9, <1>11, <2>2 DEF LockName
  <2>4. y \in {"swarm", "tick"} /\ l = "workers" /\ y # x
    BY <1>2, <1>4, <1>7, <1>10, <2>1, <2>2, <2>3
  <2>5. PICK z \in S, k \in LockName : z \in Ahead(y, k)
    BY <2>1
  <2>6. Before(z, y, k)
    BY <2>5, AheadOrder
  <2>7. z # y
    BY <1>4, <2>6
  <2>8. z # x
    BY <1>1, <1>4, <1>7, <1>10, <2>2, <2>4, <2>5
  <2>9. z = "consumer"
    BY <1>2, <1>10, <2>4, <2>7, <2>8
  <2>10. k = "shared_state"
    BY <1>11, <2>6, <2>9 DEF LockName
  <2>. QED
    BY <2>1, <2>2, <2>4, <2>5, <2>9, <2>10
<1>13. y = "swarm" /\ x = "tick"
  <2>1. x # "swarm"
    BY <1>10, <1>12 DEF IInv, CodeOK, SwarmOK, Granted, Actor
  <2>. QED
    BY <1>10, <1>12, <2>1
<1>14. Granted("swarm", "workers") /\ ~Granted("swarm", "shared_state")
  <2>1. Asks("swarm", "shared_state")
    BY <1>1, <1>12, <1>13, AheadOrder
  <2>. QED
    BY <1>12, <1>13, <2>1 DEF IInv, CodeOK, SwarmOK, Granted, Actor
<1>15. Granted("tick", "shared_state")
  <2>. SUFFICES ASSUME NEW z \in Ahead("tick", "shared_state") PROVE FALSE
    BY <1>10, <1>13 DEF Granted
  <2>1. z = "consumer" /\ Before(z, "tick", "shared_state")
    BY <1>1, AheadOrder
  <2>. QED
    BY <1>1, <1>4, <1>9, <1>13, <2>1
<1>. QED
  BY <1>6, <1>9, <1>12, <1>13, <1>14, <1>15 DEF Granted

(* A handler waits for a channel: the consumer, or the swarm, is stuck. *)
LEMMA ChannelCycle ==
    ASSUME IInv, NEW S, Waiting(S), NEW a \in S, NEW c \in {"inner", "swarm"}, IsParked(a, c)
    PROVE  /\ kind # "worker"
           /\ kind = "manager" => \E b \in S : IsParked(b, "swarm")
           /\ \/ IsParked("swarm", "swarm")
              \/ "consumer" \in S /\ \E b \in S : IsParked(b, "inner") \/ IsParked(b, "swarm")
<1>1. "inner" \in Channel /\ "swarm" \in Channel /\ "inner" # "swarm"
  BY DEF Channel
<1>2. \A b \in S : b \in Actor /\ \E x \in S : x \in WaitsFor(b)
  BY DEF Waiting
<1>3. CASE "consumer" \in S
  <2>1. PICK x \in S : x \in WaitsFor("consumer")
    BY <1>2, <1>3
  <2>2. \/ IsParked("consumer", "inner") \/ IsParked("consumer", "swarm")
        \/ \E l \in LockName : x \in Ahead("consumer", l)
    BY <1>2, <1>3, <2>1, WaitsShape
  <2>3. \A l \in LockName : x \in Ahead("consumer", l) => Asks("consumer", l)
    BY AheadOrder
  <2>4. kind # "worker"
    BY <1>1, <2>2, <2>3 DEF IInv, CodeOK, ConsumerOK, SwarmOK, OnlySends, Actor, IsParkedSomewhere
  <2>5. kind = "manager" => IsParked("consumer", "swarm")
    BY <2>2, <2>3 DEF IInv, CodeOK, ConsumerOK, SwarmOK, OnlySends, Actor, IsParkedSomewhere
  <2>. QED
    BY <1>3, <2>4, <2>5
<1>4. CASE "consumer" \notin S
  <2>1. PICK x \in S : x \in WaitsFor(a)
    BY <1>2
  <2>2. c = "swarm" /\ x = "swarm"
    BY <1>1, <1>2, <1>4, <2>1, WaitsShape DEF IInv, LinesOK, ParkedOnce, IsParkedSomewhere
  <2>3. PICK y \in S : y \in WaitsFor("swarm")
    BY <1>2, <2>1, <2>2
  <2>4. IsParked("swarm", "swarm") \/ \E l \in LockName : y \in Ahead("swarm", l)
    BY <1>2, <1>4, <2>1, <2>2, <2>3, WaitsShape
  <2>5. ASSUME NEW l \in LockName, y \in Ahead("swarm", l) PROVE FALSE
    <3>1. Before(y, "swarm", l) /\ Asks(y, l) /\ y \in Actor
      BY <2>5, AheadOrder
    <3>2. y = "tick"
      BY <1>4, <2>3, <3>1, BeforeOrder DEF IInv, LinesOK, CodeOK, OnlySends
    <3>3. PICK z \in S : z \in WaitsFor("tick")
      BY <1>2, <2>3, <3>2
    <3>4. PICK k \in LockName : z \in Ahead("tick", k)
      BY <1>2, <1>4, <2>3, <3>2, <3>3, WaitsShape DEF IInv, CodeOK, TickOK, IsParkedSomewhere
    <3>5. Before(z, "tick", k) /\ Asks(z, k) /\ z \in Actor
      BY <3>4, AheadOrder
    <3>6. z = "swarm"
      BY <1>4, <3>3, <3>5, BeforeOrder DEF IInv, LinesOK, CodeOK, OnlySends
    <3>. QED
      BY <2>5, <3>2, <3>4, <3>6, SwarmAndTick
  <2>6. IsParked("swarm", "swarm")
    BY <2>4, <2>5
  <2>. QED
    BY <1>1, <2>1, <2>2, <2>6 DEF IInv, CodeOK, ConsumerOK, SwarmOK, OnlySends, Actor, IsParkedSomewhere
<1>. QED
  BY <1>3, <1>4

LEMMA Foreseen == IInv => OnlyForeseenDeadlocks
<1>. SUFFICES ASSUME IInv, NEW b \in Stuck PROVE OnlyForeseenDeadlocks
  BY DEF OnlyForeseenDeadlocks
<1>1. PICK S \in SUBSET {a \in Actor : WaitsFor(a) # {}} : S # {} /\ \A a \in S : WaitsFor(a) \cap S # {}
  BY DEF Stuck
<1>2. Waiting(S) /\ S \subseteq Stuck
  BY <1>1 DEF Waiting, Stuck
<1>3. CASE \E a \in S, c \in {"inner", "swarm"} : IsParked(a, c)
  <2>1. PICK a \in S, c \in {"inner", "swarm"} : IsParked(a, c)
    BY <1>3
  <2>2. /\ kind # "worker"
        /\ kind = "manager" => \E x \in S : IsParked(x, "swarm")
        /\ \/ IsParked("swarm", "swarm")
           \/ "consumer" \in S /\ \E x \in S : IsParked(x, "inner") \/ IsParked(x, "swarm")
    BY <1>2, <2>1, ChannelCycle
  <2>. QED
    BY <1>2, <2>2 DEF OnlyForeseenDeadlocks, Parked
<1>4. CASE ~(\E a \in S, c \in {"inner", "swarm"} : IsParked(a, c))
  <2>1. ASSUME NEW a \in S PROVE \E x \in S, l \in LockName : x \in Ahead(a, l)
    <3>1. PICK x \in S : x \in WaitsFor(a)
      BY <1>2 DEF Waiting
    <3>. QED
      BY <1>2, <1>4, <3>1, WaitsShape DEF Waiting
  <2>2. /\ kind = "oracle"
        /\ Granted("tick", "shared_state") /\ ~Granted("tick", "workers")
        /\ Granted("swarm", "workers") /\ ~Granted("swarm", "shared_state")
        /\ Asks("consumer", "shared_state") /\ ~Granted("consumer", "shared_state")
    BY <1>2, <2>1, LockCycle
  <2>. QED
    BY <2>2 DEF OnlyForeseenDeadlocks
<1>. QED
  BY <1>3, <1>4

------------------------------------------------------------------------------
(* What a step does to the lines *)

Takes(a, l) == \E r \in Head(todo[a]).of : r[1] = l

LEMMA LineShape ==
    \A a, l : /\ Asks(a, l) <=> InLine(line[l], a)
              /\ Ahead(a, l) = AheadIn(line[l], a)
  BY DEF Asks, InLine, Ahead, AheadIn

(* The requests of line' are those of line, and perhaps one of a. *)
From(a, l, added) ==
    \A i \in DOMAIN line'[l] :
        \/ \E j \in DOMAIN line[l] : line'[l][i] = line[l][j]
        \/ added /\ line'[l][i] = [actor |-> a, mode |-> Mode(Head(todo[a]).of, l)]

LEMMA AskLines ==
    ASSUME TypeInv, OnceOK, NEW a \in Actor, Ask(a)
    PROVE  /\ line' \in [LockName -> Seq(Asked)] /\ OnceOK'
           /\ \A l \in LockName :
                 /\ \A b : Asks(b, l)' <=> Asks(b, l) \/ (b = a /\ Takes(a, l))
                 /\ \A b : b # a \/ ~Takes(a, l) => Ahead(b, l)' \subseteq Ahead(b, l)
                 /\ From(a, l, Takes(a, l))
<1>. DEFINE r(l) == [actor |-> a, mode |-> Mode(Head(todo[a]).of, l)]
<1>1. /\ \A l \in LockName : line'[l] = IF Takes(a, l) THEN Append(line[l], r(l)) ELSE line[l]
      /\ DOMAIN line' = LockName
  BY DEF Ask, TypeInv, Takes
<1>2. \A l \in LockName : Takes(a, l) => ~InLine(line[l], a)
  BY LineShape DEF Ask, Takes
<1>3. ASSUME NEW l \in LockName
      PROVE  /\ line'[l] \in Seq(Asked) /\ Once(line'[l])
             /\ \A b : InLine(line'[l], b) <=> InLine(line[l], b) \/ (b = a /\ Takes(a, l))
             /\ \A b : b # a \/ ~Takes(a, l) => AheadIn(line'[l], b) \subseteq AheadIn(line[l], b)
             /\ From(a, l, Takes(a, l))
  <2>1. line[l] \in Seq(Asked) /\ Once(line[l])
    BY DEF TypeInv, OnceOK, Once
  <2>2. CASE Takes(a, l)
    <3>1. r(l) \in Asked /\ r(l).actor = a
      BY DEF Asked, Mode
    <3>2. ~InLine(line[l], a) /\ line'[l] = Append(line[l], r(l))
      BY <1>1, <1>2, <2>2
    <3>. HIDE DEF r
    <3>3. /\ Append(line[l], r(l)) \in Seq(Asked) /\ Once(Append(line[l], r(l)))
          /\ \A i \in DOMAIN Append(line[l], r(l)) :
                \/ i \in DOMAIN line[l] /\ Append(line[l], r(l))[i] = line[l][i]
                \/ Append(line[l], r(l))[i] = r(l)
          /\ \A b : InLine(Append(line[l], r(l)), b) <=> InLine(line[l], b) \/ b = a
          /\ \A b : b # a => AheadIn(Append(line[l], r(l)), b) \subseteq AheadIn(line[l], b)
      BY <2>1, <3>1, <3>2, Joins
    <3>4. From(a, l, Takes(a, l))
      BY <2>2, <3>2, <3>3 DEF From, r
    <3>. QED
      BY <2>2, <3>2, <3>3, <3>4
  <2>3. CASE ~Takes(a, l)
    <3>1. line'[l] = line[l]
      BY <1>1, <2>3
    <3>. QED
      BY <2>1, <2>3, <3>1 DEF From
  <2>. QED
    BY <2>2, <2>3
<1>4. line' \in [LockName -> Seq(Asked)]
  <2>1. line' = [l \in LockName |-> line'[l]]
    BY <1>1 DEF Ask, TypeInv
  <2>. QED
    BY <1>3, <2>1
<1>5. OnceOK'
  BY <1>3 DEF OnceOK, Once
<1>6. \A a_1, l : (Asks(a_1, l)' <=> InLine(line'[l], a_1)) /\ Ahead(a_1, l)' = AheadIn(line'[l], a_1)
  BY DEF Asks, InLine, Ahead, AheadIn
<1>. QED
  BY <1>3, <1>4, <1>5, <1>6, LineShape

LEMMA ReleaseLines ==
    ASSUME TypeInv, OnceOK, NEW a \in Actor, Release(a)
    PROVE  /\ line' \in [LockName -> Seq(Asked)] /\ OnceOK'
           /\ \A l \in LockName :
                 /\ \A b : Asks(b, l)' <=> Asks(b, l) /\ ~(b = a /\ Takes(a, l))
                 /\ \A b : Ahead(b, l)' \subseteq Ahead(b, l)
                 /\ From(a, l, FALSE)
<1>1. /\ \A l \in LockName : line'[l] = IF Takes(a, l) THEN Left(a, l) ELSE line[l]
      /\ DOMAIN line' = LockName
  BY DEF Release, TypeInv, Takes
<1>2. ASSUME NEW l \in LockName
      PROVE  /\ line'[l] \in Seq(Asked) /\ Once(line'[l])
             /\ \A b : InLine(line'[l], b) <=> InLine(line[l], b) /\ ~(b = a /\ Takes(a, l))
             /\ \A b : AheadIn(line'[l], b) \subseteq AheadIn(line[l], b)
             /\ From(a, l, FALSE)
  <2>1. line[l] \in Seq(Asked) /\ Once(line[l])
    BY DEF TypeInv, OnceOK, Once
  <2>2. CASE Takes(a, l) /\ Asks(a, l)
    <3>1. Place(a, l) \in DOMAIN line[l] /\ line[l][Place(a, l)].actor = a
      BY <2>2 DEF Asks, Place
    <3>2. line'[l] = RemoveAt(line[l], Place(a, l))
      BY <1>1, <2>2 DEF Left
    <3>3. PICK k \in DOMAIN line[l] : k = Place(a, l)
      BY <3>1
    <3>4. /\ RemoveAt(line[l], k) \in Seq(Asked) /\ Once(RemoveAt(line[l], k))
          /\ \A i \in DOMAIN RemoveAt(line[l], k) :
                \E j \in DOMAIN line[l] : j # k /\ RemoveAt(line[l], k)[i] = line[l][j]
          /\ \A b : InLine(RemoveAt(line[l], k), b) <=> InLine(line[l], b) /\ b # line[l][k].actor
          /\ \A b : AheadIn(RemoveAt(line[l], k), b) \subseteq AheadIn(line[l], b)
      BY <2>1, LeavesLine
    <3>5. From(a, l, FALSE)
      BY <3>2, <3>3, <3>4 DEF From
    <3>. QED
      BY <2>2, <3>1, <3>2, <3>3, <3>4, <3>5
  <2>3. CASE ~(Takes(a, l) /\ Asks(a, l))
    <3>1. line'[l] = line[l]
      BY <1>1, <2>3 DEF Left
    <3>. QED
      BY <2>1, <2>3, <3>1, LineShape DEF From
  <2>. QED
    BY <2>2, <2>3
<1>3. line' \in [LockName -> Seq(Asked)]
  <2>1. line' = [l \in LockName |-> line'[l]]
    BY <1>1 DEF Release, TypeInv
  <2>. QED
    BY <1>2, <2>1
<1>4. OnceOK'
  BY <1>2 DEF OnceOK, Once
<1>5. \A b, l : (Asks(b, l)' <=> InLine(line'[l], b)) /\ Ahead(b, l)' = AheadIn(line'[l], b)
  BY DEF Asks, InLine, Ahead, AheadIn
<1>. QED
  BY <1>2, <1>3, <1>4, <1>5, LineShape

(* A step that is not of b, for b *)
Alone(b) ==
    /\ todo'[b] = todo[b]
    /\ \A l \in LockName : /\ Asks(b, l)' <=> Asks(b, l)
                           /\ Ahead(b, l)' \subseteq Ahead(b, l)
                           /\ \A i \in DOMAIN line'[l] : line'[l][i].actor = b =>
                                 \E j \in DOMAIN line[l] : line'[l][i] = line[l][j]
    /\ \A c \in Channel : IsParked(b, c)' => IsParked(b, c)

LEMMA AloneKeeps ==
    ASSUME NEW b \in Actor, Alone(b), kind' = kind, CodeOK(b), HasRest
    PROVE  /\ CodeOK(b)'
           /\ \A l \in LockName : (Asks(b, l) /\ (Wants(b, l) => IsParkedSomewhere(b)))'
                                     => Ahead(b, l)' = {}
<1>1. \A l \in LockName : (Asks(b, l)' <=> Asks(b, l)) /\ Ahead(b, l)' \subseteq Ahead(b, l)
  BY DEF Alone
<1>2. todo'[b] = todo[b] /\ (IsParkedSomewhere(b)' => IsParkedSomewhere(b))
  BY DEF Alone, IsParkedSomewhere
<1>3. "workers" \in LockName /\ "shared_state" \in LockName
  BY DEF LockName
<1>4. ASSUME NEW h, StandsFor(b, h) PROVE StandsFor(b, h)'
  <2>1. Footprint(todo[b], h)'
    BY <1>2, <1>4 DEF StandsFor, Footprint
  <2>2. \A l \in LockName : \A i \in DOMAIN line'[l] :
           line'[l][i].actor = b => <<l, line'[l][i].mode>> \in h
    BY <1>4 DEF StandsFor, Alone
  <2>. QED
    BY <1>1, <1>2, <1>4, <2>1, <2>2 DEF StandsFor
<1>5. ASSUME b = "tick" PROVE TickOK'
  BY <1>2, <1>4, <1>5 DEF CodeOK, TickOK, Alone, Channel
<1>6. ASSUME b = "consumer" PROVE ConsumerOK'
  <2>1. ConsumerOK /\ \A c \in Channel : IsParked(b, c)' => IsParked(b, c)
    BY <1>6 DEF CodeOK, Alone
  <2>2. \E h \in {{Write}, {Table}, {Read, Table}} : StandsFor("consumer", h)'
    BY <1>4, <1>6, <2>1 DEF ConsumerOK
  <2>. QED
    BY <1>1, <1>2, <1>6, <2>1, <2>2 DEF ConsumerOK, Channel
<1>7. ASSUME b = "swarm" PROVE SwarmOK'
  <2>1. Nested(todo["swarm"], Asks("swarm", "workers"), Asks("swarm", "shared_state"))'
    <3>1. /\ Asks("swarm", "workers")' = Asks("swarm", "workers")
          /\ Asks("swarm", "shared_state")' = Asks("swarm", "shared_state")
          /\ Nested(todo["swarm"], Asks("swarm", "workers"), Asks("swarm", "shared_state"))
      BY <1>1, <1>3, <1>7 DEF CodeOK, SwarmOK, Asks
    <3>2. todo'["swarm"] = todo["swarm"] /\ Sends(kind)' = Sends(kind)
      BY <1>2, <1>7
    <3>. HIDE DEF Nested
    <3>. QED
      BY <3>1, <3>2 DEF Nested
  <2>2. Asks("swarm", "shared_state")' => Granted("swarm", "workers")'
    BY <1>1, <1>3, <1>7 DEF CodeOK, SwarmOK, Granted
  <2>3. \A i \in DOMAIN line'["shared_state"] :
           line'["shared_state"][i].actor = "swarm" => line'["shared_state"][i].mode = "read"
    BY <1>3, <1>7 DEF CodeOK, SwarmOK, Alone
  <2>4. IsParked("swarm", "swarm")' => IsParked("swarm", "swarm")
    BY <1>7 DEF Alone, Channel
  <2>. QED
    BY <1>2, <1>7, <2>1, <2>2, <2>3, <2>4 DEF CodeOK, SwarmOK
<1>8. OnlySends(b) => OnlySends(b)'
  BY <1>1, <1>2 DEF OnlySends
<1>9. CodeOK(b)'
  BY <1>5, <1>6, <1>7, <1>8 DEF CodeOK
<1>10. \A l \in LockName : Wants(b, l)' <=> Wants(b, l)
  BY <1>2 DEF Wants
<1>. QED
  BY <1>1, <1>2, <1>9, <1>10 DEF HasRest

------------------------------------------------------------------------------
(* The lists of steps the handlers start with *)

LEMMA StepKinds ==
    /\ \A h : Lock(h).do = "lock" /\ Lock(h).of = h /\ Drop(h).do = "drop" /\ Drop(h).of = h
    /\ \A c, m : Send(c, m).do = "send" /\ Send(c, m).of = {<<c, m>>}
    /\ \A k : \A s \in Sends(k) : s.do \in {"send", "await"}
    /\ Await.do = "await" /\ Await.of = {}
  BY DEF Lock, Drop, Send, Await, Sends, Log, Propose, Command

LEMMA LocksDiffer ==
    /\ Lock({Read}) # Lock({Table})
    /\ Drop({Table}) # Drop({Table, Read}) /\ Drop({Table}) # Drop({Read})
    /\ \A h, g : Lock(h) # Drop(g)
    /\ \A h, k : Lock(h) \notin Sends(k) /\ Drop(h) \notin Sends(k)
<1>1. Read # Table
  BY DEF Read, Table
<1>2. {Read} # {Table} /\ {Table} # {Table, Read}
  BY <1>1
<1>. QED
  BY <1>2, StepKinds

LEMMA TimesTyped ==
    ASSUME NEW S, NEW n \in Nat, NEW e \in S, NEW f \in S
    PROVE  Times(n, e) \in Seq(S) /\ Alternate(n, e, f) \in Seq(S) /\ Len(Times(n, e)) = n
<1>1. Times(n, e) \in [1..n -> S] /\ Alternate(n, e, f) \in [1..(2 * n) -> S] /\ 2 * n \in Nat
  BY DEF Times, Alternate
<1>2. \A k \in Nat : \A s \in [1..k -> S] : s \in Seq(S) /\ Len(s) = k
  OBVIOUS
<1>. QED
  BY <1>1, <1>2

LEMMA FirstPut ==
    ASSUME NEW S, NEW e \in S, NEW s \in Seq(S)
    PROVE  /\ <<e>> \o s \in Seq(S) /\ Len(<<e>> \o s) = Len(s) + 1
           /\ (<<e>> \o s)[1] = e
           /\ \A i \in 1..Len(s) : (<<e>> \o s)[i + 1] = s[i]
<1>1. <<e>> \in Seq(S) /\ Len(<<e>>) = 1 /\ <<e>>[1] = e
  OBVIOUS
<1>. DEFINE u == <<e>>
<1>. HIDE DEF u
<1>2. u \in Seq(S) /\ Len(u) = 1 /\ u[1] = e
  BY <1>1 DEF u
<1>3. u \o s \in Seq(S) /\ Len(u \o s) = 1 + Len(s)
  <2>1. u \in Seq(S)
    BY <1>2
  <2>2. u \o s \in Seq(S) /\ Len(u \o s) = Len(s) + Len(u)
    BY <2>1, ConcatProperties
  <2>. QED
    BY <1>2, <2>2
<1>4. \A i \in 1..(1 + Len(s)) : (u \o s)[i] = IF i <= 1 THEN u[i] ELSE s[i - 1]
  <2>0. u \in Seq(S)
    BY <1>2
  <2>1. \A i \in 1..(Len(u) + Len(s)) : (u \o s)[i] = IF i <= Len(u) THEN u[i] ELSE s[i - Len(u)]
    BY <2>0, ConcatProperties
  <2>. QED
    BY <1>2, <2>1
<1>5. Len(s) \in Nat
  OBVIOUS
<1>6. \A i \in 1..Len(s) : i + 1 \in 1..(1 + Len(s)) /\ ~(i + 1 <= 1) /\ (i + 1) - 1 = i
  BY <1>5
<1>7. (u \o s)[1] = e
  BY <1>2, <1>4, <1>5
<1>8. \A i \in 1..Len(s) : (u \o s)[i + 1] = s[i]
  BY <1>4, <1>6
<1>. QED
  BY <1>3, <1>5, <1>7, <1>8 DEF u

LEMMA LastPut ==
    ASSUME NEW S, NEW e \in S, NEW s \in Seq(S)
    PROVE  /\ s \o <<e>> \in Seq(S) /\ Len(s \o <<e>>) = Len(s) + 1
           /\ (s \o <<e>>)[Len(s) + 1] = e
           /\ \A i \in 1..Len(s) : (s \o <<e>>)[i] = s[i]
<1>1. <<e>> \in Seq(S) /\ Len(<<e>>) = 1 /\ <<e>>[1] = e
  OBVIOUS
<1>. DEFINE u == <<e>>
<1>. HIDE DEF u
<1>2. u \in Seq(S) /\ Len(u) = 1 /\ u[1] = e
  BY <1>1 DEF u
<1>3. s \o u \in Seq(S) /\ Len(s \o u) = Len(s) + 1
  <2>1. u \in Seq(S)
    BY <1>2
  <2>2. s \o u \in Seq(S) /\ Len(s \o u) = Len(s) + Len(u)
    BY <2>1, ConcatProperties
  <2>. QED
    BY <1>2, <2>2
<1>4. \A i \in 1..(Len(s) + 1) : (s \o u)[i] = IF i <= Len(s) THEN s[i] ELSE u[i - Len(s)]
  <2>0. u \in Seq(S)
    BY <1>2
  <2>1. \A i \in 1..(Len(s) + Len(u)) : (s \o u)[i] = IF i <= Len(s) THEN s[i] ELSE u[i - Len(s)]
    BY <2>0, ConcatProperties
  <2>. QED
    BY <1>2, <2>1
<1>5. Len(s) \in Nat
  OBVIOUS
<1>6. (s \o u)[Len(s) + 1] = e
  <2>1. Len(s) + 1 \in 1..(Len(s) + 1) /\ ~(Len(s) + 1 <= Len(s)) /\ (Len(s) + 1) - Len(s) = 1
    BY <1>5
  <2>. QED
    BY <1>2, <1>4, <2>1
<1>7. \A i \in 1..Len(s) : (s \o u)[i] = s[i]
  BY <1>4, <1>5
<1>. QED
  BY <1>3, <1>6, <1>7 DEF u

LEMMA EndsWithDrop ==
    ASSUME NEW h, NEW s \in Seq({Lock(h), Drop(h)} \cup Sends(kind))
    PROVE  Footprint(s \o <<Drop(h)>>, h)
<1>1. Drop(h) \in {Lock(h), Drop(h)} \cup Sends(kind)
  OBVIOUS
<1>2. /\ s \o <<Drop(h)>> \in Seq({Lock(h), Drop(h)} \cup Sends(kind))
      /\ Len(s \o <<Drop(h)>>) = Len(s) + 1 /\ (s \o <<Drop(h)>>)[Len(s) + 1] = Drop(h)
  BY <1>1, LastPut
<1>. QED
  BY <1>2 DEF Footprint

LEMMA StartsWithSend ==
    ASSUME NEW h, NEW s, Footprint(s, h), NEW e \in Sends(kind)
    PROVE  Footprint(<<e>> \o s, h)
<1>. DEFINE S == {Lock(h), Drop(h)} \cup Sends(kind)
            t == <<e>> \o s
<1>1. s \in Seq(S) /\ e \in S
  BY DEF Footprint
<1>2. /\ t \in Seq(S) /\ Len(t) = Len(s) + 1 /\ t[1] = e
      /\ \A i \in 1..Len(s) : t[i + 1] = s[i]
  <2>. HIDE DEF S
  <2>. QED
    BY <1>1, FirstPut
<1>. HIDE DEF t
<1>3. ASSUME NEW i \in DOMAIN t, t[i] = Lock(h) PROVE t[Len(t)] = Drop(h)
  <2>1. DOMAIN t = 1..(Len(s) + 1) /\ Len(s) \in Nat /\ DOMAIN s = 1..Len(s)
    BY <1>1, <1>2
  <2>2. i # 1
    BY <1>2, <1>3, LocksDiffer
  <2>3. i - 1 \in 1..Len(s) /\ (i - 1) + 1 = i
    BY <2>1, <2>2
  <2>4. s[i - 1] = Lock(h)
    BY <1>2, <1>3, <2>3
  <2>5. s[Len(s)] = Drop(h) /\ Len(s) \in 1..Len(s)
    BY <2>1, <2>3, <2>4 DEF Footprint
  <2>. QED
    BY <1>2, <2>5
<1>. QED
  BY <1>2, <1>3 DEF Footprint, t

LEMMA TickProgram ==
    ASSUME LocksAssumption, kind # "worker", kind \in {"oracle", "manager", "worker"},
           NEW p \in propose_assignements
    PROVE  /\ Footprint(p, {Read, Table})
           /\ p \in Seq({Lock({Read, Table}), Drop({Read, Table}), Propose})
<1>. DEFINE h == {Read, Table}
            S == {Lock(h), Drop(h), Propose}
            b == <<Lock(h)>>
<1>1. PICK n \in Tasks : p = b \o Times(n, Propose) \o <<Drop(h)>>
  BY DEF propose_assignements
<1>2. n \in Nat
  BY <1>1 DEF Tasks, LocksAssumption
<1>3. Lock(h) \in S /\ Drop(h) \in S /\ Propose \in S
  OBVIOUS
<1>4. Propose \in Sends(kind)
  BY DEF Sends
<1>. HIDE DEF h, S
<1>5. Times(n, Propose) \in Seq(S)
  BY <1>2, <1>3, TimesTyped
<1>6. b \o Times(n, Propose) \in Seq(S)
  BY <1>3, <1>5, FirstPut
<1>7. p \in Seq(S)
  BY <1>1, <1>3, <1>6, LastPut
<1>8. b \o Times(n, Propose) \in Seq({Lock(h), Drop(h)} \cup Sends(kind))
  <2>1. S \subseteq {Lock(h), Drop(h)} \cup Sends(kind)
    BY <1>4 DEF S
  <2>. QED
    BY <1>6, <2>1
<1>9. Footprint(p, h)
  BY <1>1, <1>8, EndsWithDrop
<1>. QED
  BY <1>7, <1>9 DEF h, S

LEMMA ConsumerProgram ==
    ASSUME LocksAssumption, kind \in {"oracle", "manager", "worker"},
           NEW m \in Contents(kind), NEW p \in handle_event(m)
    PROVE  /\ \E h \in {{Write}, {Table}, {Read, Table}} : Footprint(p, h)
           /\ kind # "oracle" => p \in Seq({Command})
           /\ kind = "worker" => p = <<>>
<1>0. Command \in Sends(kind) /\ \A h : Footprint(<<>>, h)
  BY DEF Sends, Footprint
<1>1. CASE m = "quiet"
  <2>1. p = <<>>
    BY <1>1 DEF handle_event
  <2>. QED
    BY <1>0, <2>1
<1>2. CASE m = "proposal" /\ kind # "oracle"
  <2>1. p = <<Command>>
    BY <1>2 DEF handle_event
  <2>2. kind # "worker"
    BY <1>2 DEF Contents
  <2>3. Footprint(p, {Write})
    BY <1>0, <2>1, LocksDiffer DEF Footprint
  <2>. QED
    BY <2>1, <2>2, <2>3
<1>3. CASE m = "proposal" /\ kind = "oracle"
  <2>1. PICK changes \in Changes :
           p = <<Command>> \o (<<Lock({Write})>> \o changes \o <<Drop({Write})>>)
    BY <1>3 DEF handle_event, check_and_apply_proposal
  <2>2. changes \in Seq(Sends(kind))
    <3>1. PICK n \in 0..Redundancy : changes \in {Created(n), Assigned(n), Unassigned(n), Verdict(n)}
      BY DEF Changes
    <3>2. /\ Log \in Sends(kind) /\ Send("inner", "assigned") \in Sends(kind)
          /\ Send("inner", "unassigned") \in Sends(kind) /\ Await \in Sends(kind) /\ n \in Nat
      BY <1>3 DEF Sends, LocksAssumption
    <3>3. QED
      <4>. DEFINE S == Sends(kind)
      <4>. HIDE DEF S
      <4>1. Times(n, Log) \in Seq(S) /\ Alternate(n, Send("inner", "unassigned"), Log) \in Seq(S)
        BY <3>2, TimesTyped DEF S
      <4>2. Times(n, Send("inner", "assigned")) \in Seq(S)
        BY <3>2, TimesTyped DEF S
      <4>3. \A x, y \in Seq(S) : x \o y \in Seq(S)
        BY ConcatProperties
      <4>4. <<Log>> \in Seq(S) /\ <<Await>> \in Seq(S) /\ <<Await, Log>> \in Seq(S)
        BY <3>2 DEF S
      <4>5. Created(n) \in Seq(S) /\ Assigned(n) \in Seq(S) /\ Unassigned(n) \in Seq(S)
        BY <4>1, <4>2, <4>3, <4>4 DEF Created, Assigned, Unassigned
      <4>6. Verdict(n) \in Seq(S)
        BY <4>3, <4>4, <4>5 DEF Verdict
      <4>. QED
        BY <3>1, <4>5, <4>6 DEF S
  <2>. DEFINE S == {Lock({Write}), Drop({Write})} \cup Sends(kind)
              u == <<Lock({Write})>>
  <2>3. u \in Seq(S) /\ changes \in Seq(S)
    <3>1. Lock({Write}) \in S
      OBVIOUS
    <3>2. Sends(kind) \subseteq S
      OBVIOUS
    <3>. HIDE DEF S
    <3>. QED
      BY <2>2, <3>1, <3>2
  <2>. HIDE DEF u
  <2>4. u \o changes \in Seq(S)
    <3>. HIDE DEF S
    <3>. QED
      BY <2>3, ConcatProperties
  <2>5. Footprint(u \o changes \o <<Drop({Write})>>, {Write})
    BY <2>4, EndsWithDrop
  <2>6. Footprint(p, {Write})
    BY <1>0, <2>1, <2>5, StartsWithSend DEF u
  <2>. QED
    BY <1>3, <2>6
<1>4. CASE m # "quiet" /\ m # "proposal"
  <2>1. p \in handle_shared_state_change(m) /\ kind = "oracle"
    BY <1>4 DEF handle_event, Contents
  <2>2. CASE m = "unassigned"
    <3>1. p = <<Lock({Table}), Drop({Table})>>
      BY <2>1, <2>2 DEF handle_shared_state_change
    <3>2. Footprint(p, {Table})
      BY <3>1 DEF Footprint
    <3>. QED
      BY <2>1, <3>2
  <2>3. CASE m # "unassigned"
    <3>1. PICK step \in {Propose, Command} : p = <<Lock({Read, Table}), step, Drop({Read, Table})>>
      BY <2>1, <2>3 DEF handle_shared_state_change
    <3>2. step \in Sends(kind)
      BY <2>1 DEF Sends
    <3>3. Footprint(p, {Read, Table})
      BY <3>1, <3>2 DEF Footprint
    <3>. QED
      BY <2>1, <3>3
  <2>. QED
    BY <2>2, <2>3
<1>. QED
  BY <1>1, <1>2, <1>3, <1>4

(* What the swarm's lists of steps hold *)
SwarmSteps(k) ==
    {Lock({Table}), Lock({Read}), Drop({Table}), Drop({Read}), Drop({Table, Read})} \cup Sends(k)

LEMMA NestedStart ==
    ASSUME NEW s, Nested(s, FALSE, FALSE), NEW t \in BOOLEAN
    PROVE  Nested(s, t, FALSE)
  BY DEF Nested, ReadFreed

(* A list of steps that takes no lock but the table *)
LEMMA NestedTable ==
    ASSUME NEW s \in Seq(SwarmSteps(kind)), \A i \in DOMAIN s : s[i] # Lock({Read})
    PROVE  Nested(s, FALSE, FALSE)
<1>1. \A i \in DOMAIN s : ReadFreed(s, i, FALSE)
  <2>1. \A i \in DOMAIN s : 1..i \subseteq DOMAIN s
    OBVIOUS
  <2>. QED
    BY <2>1 DEF ReadFreed
<1>. QED
  BY <1>1 DEF Nested, SwarmSteps

LEMMA NestedSends ==
    ASSUME NEW s \in Seq(Sends(kind))
    PROVE  Nested(s, FALSE, FALSE)
<1>1. \A i \in DOMAIN s : s[i] \in Sends(kind)
  OBVIOUS
<1>2. \A i \in DOMAIN s : s[i] # Lock({Read})
  BY <1>1, LocksDiffer
<1>3. s \in Seq(SwarmSteps(kind))
  <2>1. Sends(kind) \subseteq SwarmSteps(kind)
    BY DEF SwarmSteps
  <2>. QED
    BY <2>1
<1>. QED
  BY <1>2, <1>3, NestedTable

LEMMA NestedAfterSend ==
    ASSUME NEW s, Nested(s, FALSE, FALSE), NEW e \in Sends(kind)
    PROVE  Nested(<<e>> \o s, FALSE, FALSE)
<1>. DEFINE t == <<e>> \o s
<1>0. s \in Seq(SwarmSteps(kind)) /\ e \in SwarmSteps(kind)
  BY DEF Nested, SwarmSteps
<1>1. /\ t \in Seq(SwarmSteps(kind)) /\ Len(t) = Len(s) + 1 /\ t[1] = e
      /\ \A i \in 1..Len(s) : t[i + 1] = s[i]
  <2>. DEFINE S == SwarmSteps(kind)
  <2>. HIDE DEF S
  <2>1. s \in Seq(S) /\ e \in S
    BY <1>0 DEF S
  <2>2. /\ t \in Seq(S) /\ Len(t) = Len(s) + 1 /\ t[1] = e
        /\ \A i \in 1..Len(s) : t[i + 1] = s[i]
    BY <2>1, FirstPut
  <2>. QED
    BY <2>2 DEF S
<1>. HIDE DEF t
<1>2. DOMAIN t = 1..(Len(s) + 1) /\ DOMAIN s = 1..Len(s) /\ Len(s) \in Nat
  BY <1>0, <1>1
<1>3. \A i \in DOMAIN t : i # 1 => i - 1 \in DOMAIN s /\ t[i] = s[i - 1]
  <2>1. \A i \in DOMAIN t : i # 1 => i - 1 \in 1..Len(s) /\ (i - 1) + 1 = i
    BY <1>2
  <2>. QED
    BY <1>1, <1>2, <2>1
<1>4. e # Lock({Read}) /\ e # Drop({Table})
  BY LocksDiffer
<1>5. ASSUME NEW i \in DOMAIN t, t[i] = Lock({Read})
      PROVE  /\ IF i = 1 THEN FALSE ELSE t[i - 1] = Lock({Table})
             /\ \E j \in DOMAIN t : j > i /\ FreesRead(t, j)
  <2>1. i # 1 /\ i - 1 \in DOMAIN s /\ s[i - 1] = Lock({Read})
    BY <1>1, <1>3, <1>4, <1>5
  <2>2. i - 1 # 1 /\ s[(i - 1) - 1] = Lock({Table})
    BY <2>1 DEF Nested
  <2>3. t[i - 1] = Lock({Table})
    <3>1. i - 1 \in DOMAIN t
      BY <1>2, <2>1
    <3>. QED
      BY <1>3, <2>2, <3>1
  <2>4. PICK j \in DOMAIN s : j > i - 1 /\ FreesRead(s, j)
    BY <2>1 DEF Nested
  <2>5. j + 1 \in DOMAIN t /\ j + 1 > i /\ t[j + 1] = s[j]
    BY <1>1, <1>2, <2>4
  <2>6. FreesRead(t, j + 1)
    BY <2>4, <2>5 DEF FreesRead
  <2>. QED
    BY <2>1, <2>3, <2>5, <2>6
<1>6. ASSUME NEW i \in DOMAIN t, t[i] = Drop({Table})
      PROVE  ReadFreed(t, i, FALSE)
  <2>1. i # 1 /\ i - 1 \in DOMAIN s /\ s[i - 1] = Drop({Table})
    BY <1>1, <1>3, <1>4, <1>6
  <2>2. ReadFreed(s, i - 1, FALSE)
    BY <2>1 DEF Nested
  <2>3. CASE \A k \in 1..(i - 1) : s[k] # Lock({Read})
    <3>1. ASSUME NEW k \in 1..i PROVE t[k] # Lock({Read})
      <4>1. CASE k = 1
        BY <1>1, <1>4, <4>1
      <4>2. CASE k # 1
        <5>1. k \in DOMAIN t /\ k - 1 \in 1..(i - 1)
          BY <1>2, <2>1, <4>2
        <5>. QED
          BY <1>3, <2>3, <4>2, <5>1
      <4>. QED
        BY <4>1, <4>2
    <3>. QED
      BY <3>1 DEF ReadFreed
  <2>4. CASE \E j \in 1..(i - 1 - 1) : s[j] = Drop({Read}) /\ \A k \in j..(i - 1) : s[k] # Lock({Read})
    <3>1. PICK j \in 1..(i - 1 - 1) : s[j] = Drop({Read}) /\ \A k \in j..(i - 1) : s[k] # Lock({Read})
      BY <2>4
    <3>2. j + 1 \in 1..(i - 1) /\ j \in 1..Len(s)
      BY <1>2, <2>1
    <3>3. t[j + 1] = Drop({Read})
      BY <1>1, <3>1, <3>2
    <3>4. ASSUME NEW k \in (j + 1)..i PROVE t[k] # Lock({Read})
      <4>1. k \in DOMAIN t /\ k # 1 /\ k - 1 \in j..(i - 1)
        BY <1>2, <2>1, <3>2
      <4>. QED
        BY <1>3, <3>1, <4>1
    <3>. QED
      BY <3>2, <3>3, <3>4 DEF ReadFreed
  <2>. QED
    BY <2>2, <2>3, <2>4 DEF ReadFreed
<1>7. t \in Seq(SwarmSteps(kind))
  BY <1>1
<1>. QED
  BY <1>5, <1>6, <1>7 DEF Nested, SwarmSteps, t

(* delete_worker takes the table, then the shared state, and drops both. *)
LEMMA NestedDeletion ==
    ASSUME LocksAssumption, NEW p \in delete_worker, Propose \in Sends(kind)
    PROVE  Nested(p, FALSE, FALSE)
<1>. DEFINE S == SwarmSteps(kind)
            u == <<Lock({Table}), Lock({Read})>>
<1>1. PICK n \in Tasks : p = u \o Times(n, Propose) \o <<Drop({Table, Read})>>
  BY DEF delete_worker
<1>2. n \in Nat
  BY <1>1 DEF Tasks, LocksAssumption
<1>3. u \in Seq(S) /\ Len(u) = 2 /\ u[1] = Lock({Table}) /\ u[2] = Lock({Read})
  BY DEF SwarmSteps
<1>4. Times(n, Propose) \in Seq(S) /\ Len(Times(n, Propose)) = n
  <2>1. Propose \in S
    BY DEF SwarmSteps
  <2>. HIDE DEF S
  <2>. QED
    BY <1>2, <2>1, TimesTyped
<1>. DEFINE v == Times(n, Propose)
            w == u \o v
<1>5. \A i \in 1..n : v[i] = Propose
  BY <1>2 DEF Times
<1>. HIDE DEF u, v, S
<1>6. /\ w \in Seq(S) /\ Len(w) = n + 2 /\ w[1] = Lock({Table}) /\ w[2] = Lock({Read})
      /\ \A i \in 3..(n + 2) : w[i] = Propose
  <2>1. u \in Seq(S) /\ v \in Seq(S)
    BY <1>3, <1>4 DEF v
  <2>2. /\ w \in Seq(S) /\ Len(w) = Len(u) + Len(v)
        /\ \A i \in 1..(Len(u) + Len(v)) : w[i] = IF i <= Len(u) THEN u[i] ELSE v[i - Len(u)]
    BY <2>1, ConcatProperties
  <2>3. Len(u) = 2 /\ Len(v) = n
    BY <1>3, <1>4 DEF v
  <2>4. \A i \in 3..(n + 2) : i \in 1..(2 + n) /\ ~(i <= 2) /\ i - 2 \in 1..n
    BY <1>2
  <2>5. \A i \in 3..(n + 2) : w[i] = Propose
    BY <1>5, <2>2, <2>3, <2>4
  <2>6. 1 \in 1..(2 + n) /\ 2 \in 1..(2 + n)
    BY <1>2
  <2>. QED
    BY <1>2, <1>3, <2>2, <2>3, <2>5, <2>6
<1>7. Drop({Table, Read}) \in S
  BY DEF S, SwarmSteps
<1>. HIDE DEF w
<1>8. /\ p \in Seq(S) /\ Len(p) = n + 3 /\ p[n + 3] = Drop({Table, Read})
      /\ \A i \in 1..(n + 2) : p[i] = w[i]
  <2>1. p = w \o <<Drop({Table, Read})>>
    BY <1>1 DEF w, v, u
  <2>2. w \in Seq(S) /\ Len(w) = n + 2
    BY <1>6
  <2>3. /\ p \in Seq(S) /\ Len(p) = Len(w) + 1 /\ p[Len(w) + 1] = Drop({Table, Read})
        /\ \A i \in 1..Len(w) : p[i] = w[i]
    BY <1>7, <2>1, <2>2, LastPut
  <2>4. Len(w) + 1 = n + 3
    BY <1>2, <2>2
  <2>. QED
    BY <2>2, <2>3, <2>4
<1>9. DOMAIN p = 1..(n + 3)
  BY <1>8
<1>10. Propose # Lock({Read}) /\ Propose # Drop({Table})
  BY LocksDiffer
<1>11. ASSUME NEW i \in DOMAIN p PROVE (p[i] = Lock({Read}) => i = 2) /\ p[i] # Drop({Table})
  <2>1. i = 1 \/ i = 2 \/ i \in 3..(n + 2) \/ i = n + 3
    BY <1>2, <1>9
  <2>2. i # n + 3 => i \in 1..(n + 2)
    BY <1>2, <1>9
  <2>. QED
    BY <1>6, <1>8, <1>10, <2>1, <2>2, LocksDiffer
<1>12. n + 3 \in DOMAIN p /\ n + 3 > 2 /\ FreesRead(p, n + 3)
  BY <1>2, <1>8, <1>9 DEF FreesRead
<1>13. p[1] = Lock({Table})
  BY <1>2, <1>6, <1>8
<1>14. \A i \in DOMAIN p : p[i] = Lock({Read}) =>
          /\ IF i = 1 THEN FALSE ELSE p[i - 1] = Lock({Table})
          /\ \E j \in DOMAIN p : j > i /\ FreesRead(p, j)
  BY <1>11, <1>12, <1>13
<1>. QED
  BY <1>8, <1>11, <1>14 DEF Nested, S, SwarmSteps

LEMMA SwarmProgram ==
    ASSUME LocksAssumption, kind \in {"oracle", "manager", "worker"},
           NEW p \in handle_swarm_event \cup Gossip
    PROVE  /\ Nested(p, FALSE, FALSE)
           /\ kind = "worker" => p \in Seq({Log, Send("runner", "task")})
<1>0. Log \in Sends(kind) /\ Await \in Sends(kind)
  BY DEF Sends
<1>1. CASE kind = "worker"
  <2>1. p = <<Log>> \/ \E n \in 1..CpuCount : p = Times(n, Send("runner", "task"))
    BY <1>1 DEF handle_swarm_event, Gossip
  <2>2. p \in Seq({Log, Send("runner", "task")})
    <3>. DEFINE S == {Log, Send("runner", "task")}
    <3>1. CASE p = <<Log>>
      BY <3>1
    <3>2. CASE \E n \in 1..CpuCount : p = Times(n, Send("runner", "task"))
      <4>1. PICK n \in 1..CpuCount : p = Times(n, Send("runner", "task"))
        BY <3>2
      <4>2. n \in Nat /\ Send("runner", "task") \in S
        BY DEF LocksAssumption
      <4>. HIDE DEF S
      <4>3. p \in Seq(S)
        BY <4>1, <4>2, TimesTyped
      <4>. QED
        BY <4>3 DEF S
    <3>. QED
      BY <2>1, <3>1, <3>2
  <2>3. p \in Seq(Sends(kind))
    <3>1. {Log, Send("runner", "task")} \subseteq Sends(kind)
      BY <1>1 DEF Sends
    <3>. QED
      BY <2>2, <3>1
  <2>. QED
    BY <2>2, <2>3, NestedSends
<1>2. CASE kind # "worker"
  <2>0. Propose \in Sends(kind) /\ Command \in Sends(kind)
    BY <1>2 DEF Sends
  <2>1. CASE p \in WorkerNew
    <3>. DEFINE S == {Lock({Table}), Drop({Table}), Log, Await, Command}
    <3>1. p \in Seq(S)
      <4>1. /\ Lock({Table}) \in S /\ Drop({Table}) \in S /\ Log \in S /\ Await \in S
            /\ Command \in S
        OBVIOUS
      <4>. HIDE DEF S
      <4>2. \A a, b, c, d, e \in S : <<a, b, c>> \in Seq(S) /\ <<a, b, c, d, c, e>> \in Seq(S)
        OBVIOUS
      <4>3. \/ p = <<Lock({Table}), Drop({Table}), Log>>
            \/ p = <<Lock({Table}), Drop({Table}), Log, Await, Log, Command>>
        BY <2>1 DEF WorkerNew
      <4>4. /\ <<Lock({Table}), Drop({Table}), Log>> \in Seq(S)
            /\ <<Lock({Table}), Drop({Table}), Log, Await, Log, Command>> \in Seq(S)
        BY <4>1, <4>2
      <4>. QED
        BY <4>3, <4>4
    <3>2. S \subseteq SwarmSteps(kind) /\ Lock({Read}) \notin S
      BY <1>0, <2>0, LocksDiffer DEF SwarmSteps
    <3>. HIDE DEF S
    <3>3. \A i \in DOMAIN p : p[i] # Lock({Read})
      <4>1. \A i \in DOMAIN p : p[i] \in S
        BY <3>1
      <4>. QED
        BY <3>2, <4>1
    <3>4. p \in Seq(SwarmSteps(kind))
      BY <3>1, <3>2
    <3>. QED
      BY <1>2, <3>3, <3>4, NestedTable
  <2>2. ASSUME NEW q \in delete_worker, p = <<Log>> \o q PROVE Nested(p, FALSE, FALSE)
    BY <1>0, <2>0, <2>2, NestedDeletion, NestedAfterSend
  <2>3. ASSUME NEW q \in handle_task_status, p = <<Log>> \o q PROVE Nested(p, FALSE, FALSE)
    <3>1. \/ q = <<>> \/ q = <<Lock({Table}), Propose, Drop({Table})>>
          \/ q = <<Lock({Table}), Lock({Read}), Drop({Read}), Propose, Drop({Table})>>
      BY DEF handle_task_status
    <3>2. ASSUME q = <<>> PROVE Nested(q, FALSE, FALSE)
      BY <3>2 DEF Nested
    <3>3. ASSUME q = <<Lock({Table}), Propose, Drop({Table})>>
          PROVE  Nested(q, FALSE, FALSE)
      <4>1. q \in Seq(SwarmSteps(kind))
        BY <2>0, <3>3 DEF SwarmSteps
      <4>2. \A i \in DOMAIN q : q[i] # Lock({Read})
        BY <2>0, <3>3, LocksDiffer
      <4>. QED
        BY <4>1, <4>2, NestedTable
    <3>4. ASSUME q = <<Lock({Table}), Lock({Read}), Drop({Read}), Propose, Drop({Table})>>
          PROVE  Nested(q, FALSE, FALSE)
      <4>1. q \in Seq(SwarmSteps(kind)) /\ DOMAIN q = 1..5
        BY <2>0, <3>4 DEF SwarmSteps
      <4>2. \A i \in 1..5 : (q[i] = Lock({Read}) => i = 2) /\ (q[i] = Drop({Table}) => i = 5)
        <5>1. \A i \in 1..5 : i = 1 \/ i = 2 \/ i = 3 \/ i = 4 \/ i = 5
          OBVIOUS
        <5>. QED
          BY <2>0, <3>4, <5>1, LocksDiffer
      <4>3. q[1] = Lock({Table}) /\ q[3] = Drop({Read}) /\ FreesRead(q, 3)
        BY <3>4 DEF FreesRead
      <4>4. ReadFreed(q, 5, FALSE)
        <5>1. \A k \in 3..5 : q[k] # Lock({Read})
          BY <4>2
        <5>. QED
          BY <4>3, <5>1 DEF ReadFreed
      <4>5. \A i \in DOMAIN q : q[i] = Lock({Read}) =>
               /\ IF i = 1 THEN FALSE ELSE q[i - 1] = Lock({Table})
               /\ \E j \in DOMAIN q : j > i /\ FreesRead(q, j)
        <5>1. \A i \in DOMAIN q : q[i] = Lock({Read}) => i = 2
          BY <4>1, <4>2
        <5>2. 3 \in DOMAIN q /\ 3 > 2 /\ 2 - 1 = 1
          BY <4>1
        <5>. QED
          BY <4>3, <5>1, <5>2
      <4>6. \A i \in DOMAIN q : q[i] = Drop({Table}) => ReadFreed(q, i, FALSE)
        BY <4>1, <4>2, <4>4
      <4>. QED
        BY <4>1, <4>5, <4>6 DEF Nested, SwarmSteps
    <3>5. Nested(q, FALSE, FALSE)
      BY <3>1, <3>2, <3>3, <3>4
    <3>. QED
      BY <1>0, <2>3, <3>5, NestedAfterSend
  <2>4. CASE p \in Gossip
    <3>1. p = <<Propose>>
      BY <2>4 DEF Gossip
    <3>2. p \in Seq(Sends(kind))
      BY <2>0, <3>1
    <3>. QED
      BY <1>2, <3>2, NestedSends
  <2>5. \/ p \in WorkerNew \/ p \in Gossip
        \/ \E q \in delete_worker \cup handle_task_status : p = <<Log>> \o q
    BY <1>2 DEF handle_swarm_event
  <2>. QED
    BY <1>2, <2>1, <2>2, <2>3, <2>4, <2>5
<1>. QED
  BY <1>1, <1>2

(* What the other handlers start with takes no lock. *)
LEMMA OtherPrograms ==
    ASSUME kind \in {"oracle", "manager", "worker"}
    PROVE  /\ handle_ctrlc \subseteq Seq(Sends(kind)) /\ handle_runner \subseteq Seq(Sends(kind))
           /\ kind # "worker" => handle_chain_event \subseteq Seq(Sends(kind))
<1>1. /\ Log \in Sends(kind) /\ Command \in Sends(kind) /\ Await \in Sends(kind)
      /\ kind # "worker" => Propose \in Sends(kind)
  BY DEF Sends
<1>. DEFINE S == Sends(kind)
<1>. HIDE DEF S
<1>2. Log \in S /\ Command \in S /\ Await \in S
  BY <1>1 DEF S
<1>3. handle_ctrlc \subseteq Seq(S)
  BY <1>2 DEF handle_ctrlc
<1>4. kind # "worker" => handle_chain_event \subseteq Seq(S)
  <2>1. kind # "worker" => Propose \in S
    BY <1>1 DEF S
  <2>2. <<Log>> \in Seq(S) /\ (kind # "worker" => <<Log, Propose>> \in Seq(S))
    BY <1>2, <2>1
  <2>. QED
    BY <2>2 DEF handle_chain_event
<1>5. handle_runner \subseteq Seq(S)
  <2>. DEFINE started == <<Command, Log, Await, Log, Log, Command, Await>>
  <2>1. started \in Seq(S) /\ <<Command, Log>> \in Seq(S) /\ <<Log, Command>> \in Seq(S)
        /\ <<Command, Log, Await, Command, Log>> \in Seq(S)
    BY <1>2
  <2>2. \A x, y \in Seq(S) : x \o y \in Seq(S)
    OBVIOUS
  <2>3. started \o <<Command, Log>> \in Seq(S) /\ started \o <<Log, Command>> \in Seq(S)
    <3>. HIDE DEF started
    <3>. QED
      BY <2>1, <2>2
  <2>. QED
    BY <2>1, <2>3 DEF handle_runner
<1>. QED
  BY <1>3, <1>4, <1>5 DEF S

------------------------------------------------------------------------------
(* What is left of a handler after a step of its own *)

LEMMA TailOf ==
    ASSUME NEW S, NEW s \in Seq(S), s # <<>>
    PROVE  /\ Tail(s) \in Seq(S) /\ Len(Tail(s)) = Len(s) - 1 /\ Len(s) \in Nat \ {0}
           /\ Head(s) = s[1] /\ 1 \in DOMAIN s /\ Head(s) \in S
           /\ DOMAIN s = 1..Len(s) /\ DOMAIN Tail(s) = 1..(Len(s) - 1)
           /\ \A i \in 1..(Len(s) - 1) : Tail(s)[i] = s[i + 1]
  OBVIOUS

LEMMA FootprintTail ==
    ASSUME NEW h, NEW s, Footprint(s, h), s # <<>>
    PROVE  /\ Footprint(Tail(s), h)
           /\ s[Len(s)] = Drop(h) /\ Head(s) # Drop(h) =>
                 Tail(s) # <<>> /\ Tail(s)[Len(Tail(s))] = Drop(h)
           /\ Head(s) \in {Lock(h), Drop(h)} \cup Sends(kind)
           /\ Head(s) = Lock(h) => s[Len(s)] = Drop(h)
<1>. DEFINE S == {Lock(h), Drop(h)} \cup Sends(kind)
<1>1. s \in Seq(S)
  BY DEF Footprint
<1>. HIDE DEF S
<1>2. /\ Tail(s) \in Seq(S) /\ Len(Tail(s)) = Len(s) - 1 /\ Len(s) \in Nat \ {0}
      /\ Head(s) = s[1] /\ 1 \in DOMAIN s /\ Head(s) \in S
      /\ DOMAIN s = 1..Len(s) /\ DOMAIN Tail(s) = 1..(Len(s) - 1)
      /\ \A i \in 1..(Len(s) - 1) : Tail(s)[i] = s[i + 1]
  BY <1>1, TailOf
<1>. DEFINE t == Tail(s)
            n == Len(s)
<1>3. t \in Seq(S) /\ n \in Nat \ {0} /\ Len(t) = n - 1 /\ \A i \in 1..(n - 1) : t[i] = s[i + 1]
  BY <1>2
<1>. HIDE DEF t, n
<1>4. n > 1 => t[Len(t)] = s[n] /\ t # <<>>
  <2>. SUFFICES ASSUME n > 1 PROVE t[Len(t)] = s[n] /\ t # <<>>
    OBVIOUS
  <2>1. n - 1 \in 1..(n - 1) /\ (n - 1) + 1 = n
    BY <1>3
  <2>. QED
    BY <1>3, <2>1
<1>5. ASSUME NEW i \in DOMAIN t, t[i] = Lock(h) PROVE t[Len(t)] = Drop(h)
  <2>1. i \in 1..(n - 1) /\ i + 1 \in 1..n /\ n > 1
    BY <1>3
  <2>2. s[i + 1] = Lock(h) /\ i + 1 \in DOMAIN s
    BY <1>2, <1>3, <1>5, <2>1 DEF n
  <2>3. s[n] = Drop(h)
    BY <2>2 DEF Footprint, n
  <2>. QED
    BY <1>4, <2>1, <2>3
<1>6. Footprint(t, h)
  BY <1>3, <1>5 DEF Footprint, S
<1>7. s[n] = Drop(h) /\ Head(s) # Drop(h) => n > 1
  BY <1>2, <1>3 DEF n
<1>8. Head(s) = Lock(h) => s[n] = Drop(h)
  BY <1>2 DEF Footprint, n
<1>. QED
  BY <1>2, <1>4, <1>6, <1>7, <1>8 DEF S, t, n

LEMMA NestedTail ==
    ASSUME NEW s, NEW t \in BOOLEAN, NEW r \in BOOLEAN, Nested(s, t, r), s # <<>>,
           NEW u \in BOOLEAN, NEW q \in BOOLEAN,
           Head(s) = Lock({Table}) => u, q => r, FreesRead(s, 1) => ~q
    PROVE  Nested(Tail(s), u, q)
<1>. DEFINE v == Tail(s)
            n == Len(s)
<1>1. s \in Seq(SwarmSteps(kind))
  BY DEF Nested, SwarmSteps
<1>2. /\ v \in Seq(SwarmSteps(kind)) /\ Len(v) = n - 1 /\ n \in Nat \ {0} /\ Head(s) = s[1]
      /\ DOMAIN s = 1..n /\ DOMAIN v = 1..(n - 1)
      /\ \A i \in 1..(n - 1) : v[i] = s[i + 1]
  BY <1>1, TailOf
<1>. HIDE DEF v, n
<1>3. \A j \in DOMAIN s : j # 1 => j - 1 \in DOMAIN v /\ v[j - 1] = s[j]
  <2>. SUFFICES ASSUME NEW j \in DOMAIN s, j # 1 PROVE j - 1 \in DOMAIN v /\ v[j - 1] = s[j]
    OBVIOUS
  <2>1. j - 1 \in 1..(n - 1) /\ (j - 1) + 1 = j
    BY <1>2
  <2>. QED
    BY <1>2, <2>1
<1>4. ASSUME NEW i \in DOMAIN v, v[i] = Lock({Read})
      PROVE  /\ IF i = 1 THEN u ELSE v[i - 1] = Lock({Table})
             /\ \E j \in DOMAIN v : j > i /\ FreesRead(v, j)
  <2>1. i + 1 \in DOMAIN s /\ s[i + 1] = Lock({Read}) /\ i + 1 # 1 /\ (i + 1) - 1 = i
    BY <1>2, <1>4
  <2>2. s[i] = Lock({Table})
    BY <2>1 DEF Nested
  <2>3. IF i = 1 THEN u ELSE v[i - 1] = Lock({Table})
    <3>1. CASE i = 1
      BY <1>2, <2>2, <3>1
    <3>2. CASE i # 1
      <4>1. i \in DOMAIN s
        BY <1>2
      <4>. QED
        BY <1>3, <2>2, <3>2, <4>1
    <3>. QED
      BY <3>1, <3>2
  <2>4. PICK j \in DOMAIN s : j > i + 1 /\ FreesRead(s, j)
    BY <2>1 DEF Nested
  <2>5. j # 1 /\ j - 1 > i
    BY <1>2, <2>4
  <2>6. j - 1 \in DOMAIN v /\ FreesRead(v, j - 1)
    BY <1>3, <2>4, <2>5 DEF FreesRead
  <2>. QED
    BY <2>3, <2>5, <2>6
<1>5. ASSUME NEW i \in DOMAIN v, v[i] = Drop({Table})
      PROVE  ReadFreed(v, i, q)
  <2>1. i + 1 \in DOMAIN s /\ s[i + 1] = Drop({Table})
    BY <1>2, <1>5
  <2>2. ReadFreed(s, i + 1, r)
    BY <2>1 DEF Nested
  <2>3. \A k \in 1..i : v[k] = s[k + 1] /\ k + 1 \in 1..(i + 1)
    BY <1>2
  <2>4. CASE ~r /\ \A k \in 1..(i + 1) : s[k] # Lock({Read})
    BY <2>3, <2>4 DEF ReadFreed
  <2>5. CASE \E j \in 1..((i + 1) - 1) : s[j] = Drop({Read}) /\ \A k \in j..(i + 1) : s[k] # Lock({Read})
    <3>1. PICK j \in 1..i : s[j] = Drop({Read}) /\ \A k \in j..(i + 1) : s[k] # Lock({Read})
      <4>1. (i + 1) - 1 = i
        BY <1>2
      <4>. QED
        BY <2>5, <4>1
    <3>2. CASE j = 1
      <4>1. ~q
        BY <3>1, <3>2 DEF FreesRead
      <4>2. \A k \in 1..i : v[k] # Lock({Read})
        <5>1. \A k \in 1..i : k + 1 \in 1..(i + 1)
          BY <1>2
        <5>. QED
          BY <2>3, <3>1, <3>2, <5>1
      <4>. QED
        BY <4>1, <4>2 DEF ReadFreed
    <3>3. CASE j # 1
      <4>1. j - 1 \in 1..(i - 1) /\ j \in DOMAIN s
        BY <1>2, <2>1, <3>3
      <4>2. v[j - 1] = Drop({Read})
        BY <1>3, <3>1, <3>3, <4>1
      <4>3. ASSUME NEW k \in (j - 1)..i PROVE v[k] # Lock({Read})
        <5>1. k \in 1..i /\ k + 1 \in j..(i + 1)
          BY <1>2, <4>1
        <5>. QED
          BY <2>3, <3>1, <5>1
      <4>. QED
        BY <4>1, <4>2, <4>3 DEF ReadFreed
    <3>. QED
      BY <3>2, <3>3
  <2>. QED
    BY <2>2, <2>4, <2>5 DEF ReadFreed
<1>6. q => \E j \in DOMAIN v : FreesRead(v, j)
  <2>. SUFFICES ASSUME q PROVE \E j \in DOMAIN v : FreesRead(v, j)
    OBVIOUS
  <2>1. PICK j \in DOMAIN s : FreesRead(s, j)
    BY DEF Nested
  <2>2. j # 1
    BY <2>1
  <2>. QED
    BY <1>3, <2>1, <2>2 DEF FreesRead
<1>. QED
  BY <1>2, <1>4, <1>5, <1>6 DEF Nested, SwarmSteps, v

Stands == {{Write}, {Table}, {Read, Table}}

LEMMA ModeOf ==
    ASSUME NEW h \in Stands, NEW l, \E r \in h : r[1] = l
    PROVE  <<l, Mode(h, l)>> \in h
  BY DEF Stands, Mode, Read, Write, Table

LEMMA OneMode ==
    ASSUME NEW h \in Stands, NEW l, NEW mode, <<l, mode>> \in h
    PROVE  \E r \in h : r[1] = l
  OBVIOUS

LEMMA AskStands ==
    ASSUME TypeInv, OnceOK, NEW a \in Actor, NEW h \in Stands, StandsFor(a, h), Ask(a)
    PROVE  StandsFor(a, h)'
<1>1. todo[a] # <<>> /\ Head(todo[a]).do = "lock" /\ todo' = todo /\ kind' = kind
  BY DEF Ask, At
<1>2. Footprint(todo[a], h)
  BY DEF StandsFor
<1>3. Head(todo[a]) = Lock(h) /\ todo[a][Len(todo[a])] = Drop(h)
  BY <1>1, <1>2, FootprintTail, StepKinds
<1>4. Head(todo[a]).of = h
  BY <1>3, StepKinds
<1>5. Footprint(todo[a], h)'
  BY <1>1, <1>2 DEF Footprint
<1>6. \A l \in LockName : From(a, l, Takes(a, l))
  BY AskLines
<1>7. ASSUME NEW l \in LockName, NEW i \in DOMAIN line'[l], line'[l][i].actor = a
      PROVE  <<l, line'[l][i].mode>> \in h
  <2>1. CASE \E j \in DOMAIN line[l] : line'[l][i] = line[l][j]
    BY <1>7, <2>1 DEF StandsFor
  <2>2. CASE Takes(a, l) /\ line'[l][i] = [actor |-> a, mode |-> Mode(Head(todo[a]).of, l)]
    <3>1. line'[l][i].mode = Mode(h, l) /\ \E r \in h : r[1] = l
      BY <1>4, <2>2 DEF Takes
    <3>. QED
      BY <3>1, ModeOf
  <2>. QED
    BY <1>6, <2>1, <2>2 DEF From
<1>. QED
  BY <1>1, <1>3, <1>5, <1>7 DEF StandsFor

LEMMA TailStands ==
    ASSUME TypeInv, NEW a \in Actor, NEW h \in Stands, StandsFor(a, h),
           todo[a] # <<>>, Head(todo[a]).do \in {"lock", "send", "await"}, Proceed(a),
           UNCHANGED <<kind, line>>
    PROVE  StandsFor(a, h)'
<1>1. todo'[a] = Tail(todo[a]) /\ kind' = kind /\ line' = line
  BY DEF Proceed, TypeInv
<1>2. Footprint(todo[a], h)
  BY DEF StandsFor
<1>3. Head(todo[a]) # Drop(h)
  BY StepKinds
<1>. DEFINE s == todo[a]
            t == todo'[a]
<1>4. /\ Footprint(t, h)
      /\ s[Len(s)] = Drop(h) => t # <<>> /\ t[Len(t)] = Drop(h)
  BY <1>1, <1>2, <1>3, FootprintTail
<1>5. Footprint(todo[a], h)'
  BY <1>1, <1>4 DEF Footprint
<1>6. \A l \in LockName : Asks(a, l)' <=> Asks(a, l)
  BY <1>1 DEF Asks
<1>7. \A l \in LockName : Asks(a, l)' => todo'[a] # <<>> /\ todo'[a][Len(todo'[a])] = Drop(h)
  BY <1>4, <1>6 DEF StandsFor
<1>8. \A l \in LockName : \A i \in DOMAIN line'[l] :
         line'[l][i].actor = a => <<l, line'[l][i].mode>> \in h
  BY <1>1 DEF StandsFor
<1>. QED
  BY <1>5, <1>7, <1>8 DEF StandsFor

LEMMA ReleaseStands ==
    ASSUME TypeInv, OnceOK, NEW a \in Actor, NEW h \in Stands, StandsFor(a, h), Release(a)
    PROVE  StandsFor(a, h)' /\ \A l \in LockName : ~Asks(a, l)'
<1>1. todo[a] # <<>> /\ Head(todo[a]).do = "drop" /\ todo'[a] = Tail(todo[a]) /\ kind' = kind
  BY DEF Release, At, Proceed, TypeInv
<1>2. Footprint(todo[a], h)
  BY DEF StandsFor
<1>3. Head(todo[a]) = Drop(h) /\ Footprint(Tail(todo[a]), h)
  BY <1>1, <1>2, FootprintTail, StepKinds
<1>4. Head(todo[a]).of = h
  BY <1>3, StepKinds
<1>5. \A l \in LockName : Asks(a, l) => Takes(a, l)
  <2>. SUFFICES ASSUME NEW l \in LockName, Asks(a, l) PROVE Takes(a, l)
    OBVIOUS
  <2>1. PICK i \in DOMAIN line[l] : line[l][i].actor = a
    BY DEF Asks
  <2>2. <<l, line[l][i].mode>> \in h
    BY <2>1 DEF StandsFor
  <2>. QED
    BY <1>4, <2>2, OneMode DEF Takes
<1>6. \A l \in LockName : ~Asks(a, l)'
  BY <1>5, ReleaseLines
<1>7. Footprint(todo[a], h)'
  BY <1>1, <1>3 DEF Footprint
<1>8. \A l \in LockName : \A i \in DOMAIN line'[l] : line'[l][i].actor # a
  BY <1>6 DEF Asks
<1>. QED
  BY <1>6, <1>7, <1>8 DEF StandsFor

(* A handler that only sends takes no lock and drops none. *)
LEMMA SendsOnly ==
    ASSUME NEW a, OnlySends(a), todo[a] # <<>>
    PROVE  /\ Head(todo[a]) \in Sends(kind) /\ Head(todo[a]).do \in {"send", "await"}
           /\ Tail(todo[a]) \in Seq(Sends(kind))
<1>1. todo[a] \in Seq(Sends(kind))
  BY DEF OnlySends
<1>2. Head(todo[a]) \in Sends(kind) /\ Tail(todo[a]) \in Seq(Sends(kind))
  BY <1>1
<1>. QED
  BY <1>2, StepKinds

LEMMA SwarmHead ==
    ASSUME SwarmOK, todo["swarm"] # <<>>
    PROVE  /\ Head(todo["swarm"]) = todo["swarm"][1] /\ 1 \in DOMAIN todo["swarm"]
           /\ Head(todo["swarm"]) \in SwarmSteps(kind)
           /\ Head(todo["swarm"]).do = "lock" =>
                 Head(todo["swarm"]) \in {Lock({Table}), Lock({Read})}
           /\ Head(todo["swarm"]).do = "drop" =>
                 Head(todo["swarm"]) \in {Drop({Table}), Drop({Read}), Drop({Table, Read})}
<1>1. todo["swarm"] \in Seq(SwarmSteps(kind))
  BY DEF SwarmOK, Nested, SwarmSteps
<1>2. /\ Head(todo["swarm"]) = todo["swarm"][1] /\ 1 \in DOMAIN todo["swarm"]
      /\ Head(todo["swarm"]) \in SwarmSteps(kind)
  BY <1>1, TailOf
<1>. QED
  BY <1>2, StepKinds DEF SwarmSteps

LEMMA SwarmTakes ==
    /\ Table[1] = "workers" /\ Read[1] = "shared_state"
    /\ "workers" # "shared_state"
    /\ Mode({Read}, "shared_state") = "read"
  BY DEF Table, Read, Mode

LEMMA SwarmAsks ==
    ASSUME IInv, Ask("swarm")
    PROVE  SwarmOK'
<1>. DEFINE s == todo["swarm"]
            t == Asks("swarm", "workers")
            r == Asks("swarm", "shared_state")
<1>1. /\ s # <<>> /\ Head(s).do = "lock" /\ todo' = todo /\ kind' = kind /\ parked' = parked
      /\ \A q \in Head(s).of : ~Asks("swarm", q[1]) /\ \A c \in Channel : ~IsParked("swarm", c)
  BY DEF Ask, At
<1>2. SwarmOK /\ TypeInv /\ OnceOK /\ HasRest /\ "swarm" \in Actor
  BY DEF IInv, CodeOK, LinesOK, Actor
<1>3. Nested(s, t, r) /\ t \in BOOLEAN /\ r \in BOOLEAN /\ (r => Granted("swarm", "workers"))
  BY <1>2 DEF SwarmOK, Asks
<1>4. /\ \A l \in LockName :
            /\ Asks("swarm", l)' <=> Asks("swarm", l) \/ Takes("swarm", l)
            /\ ~Takes("swarm", l) => Ahead("swarm", l)' \subseteq Ahead("swarm", l)
            /\ From("swarm", l, Takes("swarm", l))
      /\ "workers" \in LockName /\ "shared_state" \in LockName
  BY <1>2, AskLines DEF LockName
<1>5. /\ \/ Head(s) = Lock({Table}) /\ Head(s).of = {Table}
         \/ Head(s) = Lock({Read}) /\ Head(s).of = {Read}
      /\ Head(s) = s[1] /\ 1 \in DOMAIN s
  BY <1>1, <1>2, SwarmHead, StepKinds
<1>6. /\ kind = "worker" => s \in Seq({Log, Send("runner", "task")}) /\ ~IsParked("swarm", "swarm")
      /\ IsParked("swarm", "swarm")' <=> IsParked("swarm", "swarm")
  BY <1>1, <1>2 DEF SwarmOK, IsParked
<1>7. CASE Head(s) = Lock({Table}) /\ Head(s).of = {Table}
  <2>1. Takes("swarm", "workers") /\ ~Takes("swarm", "shared_state") /\ ~t
    BY <1>1, <1>7, SwarmTakes DEF Takes
  <2>2. ~r /\ Asks("swarm", "workers")' = TRUE /\ Asks("swarm", "shared_state")' = FALSE
    BY <1>3, <1>4, <2>1 DEF Granted, Asks
  <2>3. Nested(s, TRUE, FALSE)
    BY <1>3, <2>1, <2>2 DEF Nested
  <2>4. Nested(todo["swarm"], Asks("swarm", "workers"), Asks("swarm", "shared_state"))'
    <3>1. Nested(s, TRUE, FALSE)'
      BY <1>1, <2>3 DEF Nested, Sends
    <3>. QED
      BY <2>2, <3>1
  <2>5. \A i \in DOMAIN line'["shared_state"] :
           line'["shared_state"][i].actor = "swarm" => line'["shared_state"][i].mode = "read"
    <3>1. \A i \in DOMAIN line["shared_state"] :
             line["shared_state"][i].actor = "swarm" => line["shared_state"][i].mode = "read"
      BY <1>2 DEF SwarmOK
    <3>2. From("swarm", "shared_state", FALSE)
      BY <1>4, <2>1 DEF From
    <3>. QED
      BY <3>1, <3>2 DEF From
  <2>. QED
    BY <1>1, <1>6, <2>2, <2>4, <2>5 DEF SwarmOK
<1>8. CASE Head(s) = Lock({Read}) /\ Head(s).of = {Read}
  <2>1. ~Takes("swarm", "workers") /\ Takes("swarm", "shared_state") /\ ~r
    BY <1>1, <1>8, SwarmTakes DEF Takes
  <2>2. t /\ \E j \in DOMAIN s : FreesRead(s, j)
    BY <1>3, <1>5, <1>8 DEF Nested
  <2>3. Asks("swarm", "workers")' = TRUE /\ Asks("swarm", "shared_state")' = TRUE
    BY <1>4, <2>1, <2>2 DEF Asks
  <2>4. ASSUME NEW i \in DOMAIN s, s[i] = Drop({Table}) PROVE ReadFreed(s, i, TRUE)
    <3>1. ReadFreed(s, i, FALSE)
      BY <1>3, <2>1, <2>4 DEF Nested
    <3>2. s \in Seq(SwarmSteps(kind))
      BY <1>3 DEF Nested, SwarmSteps
    <3>3. 1 \in 1..i
      BY <3>2
    <3>. QED
      BY <1>5, <1>8, <3>1, <3>3 DEF ReadFreed
  <2>5. Nested(s, TRUE, TRUE)
    BY <1>3, <2>2, <2>4 DEF Nested
  <2>6. Nested(todo["swarm"], Asks("swarm", "workers"), Asks("swarm", "shared_state"))'
    <3>1. Nested(s, TRUE, TRUE)'
      BY <1>1, <2>5 DEF Nested, Sends
    <3>. QED
      BY <2>3, <3>1
  <2>7. Granted("swarm", "workers")'
    <3>1. ~Wants("swarm", "workers")
      BY <2>1 DEF Wants, Takes
    <3>2. Ahead("swarm", "workers") = {}
      BY <1>2, <1>4, <2>2, <3>1 DEF HasRest
    <3>. QED
      BY <1>4, <2>1, <2>2, <3>2 DEF Granted
  <2>8. \A i \in DOMAIN line'["shared_state"] :
           line'["shared_state"][i].actor = "swarm" => line'["shared_state"][i].mode = "read"
    <3>1. Mode(Head(s).of, "shared_state") = "read"
      BY <1>8, SwarmTakes
    <3>2. \A i \in DOMAIN line["shared_state"] :
             line["shared_state"][i].actor = "swarm" => line["shared_state"][i].mode = "read"
      BY <1>2 DEF SwarmOK
    <3>3. From("swarm", "shared_state", Takes("swarm", "shared_state"))
      BY <1>4
    <3>. QED
      BY <3>1, <3>2, <3>3 DEF From
  <2>. QED
    BY <1>1, <1>6, <2>6, <2>7, <2>8 DEF SwarmOK
<1>. QED
  BY <1>5, <1>7, <1>8

(* The swarm after it got a lock, or sent a message *)
LEMMA SwarmGoesOn ==
    ASSUME IInv, todo["swarm"] # <<>>, Head(todo["swarm"]).do \in {"lock", "send", "await"},
           Head(todo["swarm"]) = Lock({Table}) => Granted("swarm", "workers"),
           Proceed("swarm"), UNCHANGED <<kind, line>>,
           kind = "worker" => ~IsParked("swarm", "swarm")'
    PROVE  SwarmOK'
<1>. DEFINE s == todo["swarm"]
            t == Asks("swarm", "workers")
            r == Asks("swarm", "shared_state")
<1>1. todo'["swarm"] = Tail(s) /\ kind' = kind /\ line' = line
  BY DEF Proceed, IInv, TypeInv, Actor
<1>2. SwarmOK
  BY DEF IInv, CodeOK, Actor
<1>3. Nested(s, t, r) /\ t \in BOOLEAN /\ r \in BOOLEAN /\ s # <<>>
  BY <1>2 DEF SwarmOK, Asks
<1>4. Head(s) = Lock({Table}) => t
  BY DEF Granted
<1>5. ~FreesRead(s, 1)
  BY <1>2, SwarmHead, StepKinds DEF FreesRead
<1>. HIDE DEF s, t, r
<1>6. Nested(Tail(s), t, r)
  BY <1>3, <1>4, <1>5, NestedTail
<1>7. /\ Asks("swarm", "workers")' = t /\ Asks("swarm", "shared_state")' = r
      /\ Granted("swarm", "workers")' = Granted("swarm", "workers")
  BY <1>1 DEF Asks, Granted, Ahead, t, r
<1>8. Nested(todo["swarm"], Asks("swarm", "workers"), Asks("swarm", "shared_state"))'
  <2>1. Nested(Tail(s), t, r) = Nested(todo'["swarm"], t, r)
    BY <1>1
  <2>2. Nested(todo["swarm"], Asks("swarm", "workers"), Asks("swarm", "shared_state"))'
           <=> Nested(todo'["swarm"], t, r)
    BY <1>1, <1>7 DEF Nested, Sends
  <2>. QED
    BY <1>6, <2>1, <2>2
<1>9. kind = "worker" => Tail(s) \in Seq({Log, Send("runner", "task")})
  <2>1. kind = "worker" => s \in Seq({Log, Send("runner", "task")})
    BY <1>2 DEF SwarmOK, s
  <2>. QED
    BY <1>3, <2>1
<1>. QED
  BY <1>1, <1>2, <1>7, <1>8, <1>9 DEF SwarmOK, r

LEMMA SwarmReleases ==
    ASSUME IInv, Release("swarm")
    PROVE  SwarmOK'
<1>. DEFINE s == todo["swarm"]
            t == Asks("swarm", "workers")
            r == Asks("swarm", "shared_state")
            u == Asks("swarm", "workers")'
            q == Asks("swarm", "shared_state")'
<1>1. /\ s # <<>> /\ Head(s).do = "drop" /\ todo'["swarm"] = Tail(s) /\ kind' = kind
      /\ parked' = parked
  BY DEF Release, At, Proceed, IInv, TypeInv, Actor
<1>2. SwarmOK /\ TypeInv /\ OnceOK /\ "swarm" \in Actor
  BY DEF IInv, CodeOK, LinesOK, Actor
<1>3. Nested(s, t, r) /\ t \in BOOLEAN /\ r \in BOOLEAN /\ u \in BOOLEAN /\ q \in BOOLEAN
  BY <1>2 DEF SwarmOK, Asks
<1>4. /\ \A l \in LockName :
            /\ Asks("swarm", l)' <=> Asks("swarm", l) /\ ~Takes("swarm", l)
            /\ Ahead("swarm", l)' \subseteq Ahead("swarm", l)
            /\ From("swarm", l, FALSE)
      /\ "workers" \in LockName /\ "shared_state" \in LockName
  BY <1>2, ReleaseLines DEF LockName
<1>5. /\ Head(s) \in {Drop({Table}), Drop({Read}), Drop({Table, Read})}
      /\ Head(s) = s[1] /\ 1 \in DOMAIN s
  BY <1>1, <1>2, SwarmHead
<1>6. FreesRead(s, 1) => ~q
  <2>1. FreesRead(s, 1) => Read \in Head(s).of
    BY <1>5, StepKinds DEF FreesRead
  <2>2. FreesRead(s, 1) => Takes("swarm", "shared_state")
    BY <2>1, SwarmTakes DEF Takes
  <2>. QED
    BY <1>4, <2>2
<1>7. Head(s) = Drop({Table}) => ~r
  <2>1. Head(s) = Drop({Table}) => ReadFreed(s, 1, r)
    BY <1>3, <1>5 DEF Nested
  <2>. QED
    BY <2>1 DEF ReadFreed
<1>8. q => r /\ u
  <2>1. r => Asks("swarm", "workers")
    BY <1>2 DEF SwarmOK, Granted
  <2>2. Head(s) = Drop({Read}) => ~q
    BY <1>5, <1>6 DEF FreesRead
  <2>3. Head(s) = Drop({Table, Read}) => ~q
    BY <1>5, <1>6 DEF FreesRead
  <2>. QED
    BY <1>4, <1>5, <1>7, <2>2, <2>3
<1>9. Head(s) # Lock({Table})
  BY <1>1, StepKinds
<1>10. q => r
  BY <1>8
<1>11. Granted("swarm", "workers")' \/ ~q
  BY <1>2, <1>4, <1>8 DEF SwarmOK, Granted
<1>. HIDE DEF s, t, r, u, q
<1>12. Nested(Tail(s), u, q)
  BY <1>1, <1>3, <1>6, <1>9, <1>10, NestedTail
<1>13. Nested(todo["swarm"], Asks("swarm", "workers"), Asks("swarm", "shared_state"))'
  <2>1. Nested(Tail(s), u, q) = Nested(todo'["swarm"], u, q)
    BY <1>1
  <2>2. Nested(todo["swarm"], Asks("swarm", "workers"), Asks("swarm", "shared_state"))'
           <=> Nested(todo'["swarm"], u, q)
    BY <1>1 DEF Nested, Sends, u, q
  <2>. QED
    BY <1>12, <2>1, <2>2
<1>14. kind = "worker" => Tail(s) \in Seq({Log, Send("runner", "task")}) /\ ~IsParked("swarm", "swarm")'
  <2>1. kind = "worker" => s \in Seq({Log, Send("runner", "task")}) /\ ~IsParked("swarm", "swarm")
    BY <1>2 DEF SwarmOK, s
  <2>2. IsParked("swarm", "swarm")' <=> IsParked("swarm", "swarm")
    BY <1>1 DEF IsParked
  <2>. QED
    BY <1>1, <2>1, <2>2
<1>15. \A i \in DOMAIN line'["shared_state"] :
          line'["shared_state"][i].actor = "swarm" => line'["shared_state"][i].mode = "read"
  <2>1. \A i \in DOMAIN line["shared_state"] :
           line["shared_state"][i].actor = "swarm" => line["shared_state"][i].mode = "read"
    BY <1>2 DEF SwarmOK
  <2>2. From("swarm", "shared_state", FALSE)
    BY <1>4
  <2>. QED
    BY <2>1, <2>2 DEF From
<1>. QED
  BY <1>1, <1>11, <1>13, <1>14, <1>15 DEF SwarmOK, q

LEMMA Roles ==
    ASSUME IInv, NEW a \in Actor, kind' = kind, todo[a] # <<>>,
           todo'[a] \in {todo[a], Tail(todo[a])},
           \A h \in Stands : StandsFor(a, h) => StandsFor(a, h)',
           a = "swarm" => SwarmOK',
           \A l \in LockName : Asks(a, l)' => Asks(a, l) \/ Head(todo[a]).do = "lock",
           \A c \in Channel : IsParked(a, c)' =>
              IsParked(a, c) \/ (Head(todo[a]).do = "send" /\ \E m \in Head(todo[a]).of : m[1] = c)
    PROVE  CodeOK(a)'
<1>. DEFINE s == todo[a]
<1>0. CodeOK(a) /\ "swarm" \in Channel /\ "inner" \in Channel
  BY DEF IInv, Channel
<1>1. \A S : s \in Seq(S) => todo'[a] \in Seq(S) /\ Head(s) \in S
  OBVIOUS
<1>2. ASSUME a = "tick" PROVE TickOK'
  <2>1. TickOK /\ {Read, Table} \in Stands
    BY <1>0, <1>2 DEF CodeOK, Stands
  <2>2. StandsFor("tick", {Read, Table})'
    BY <1>2, <2>1 DEF TickOK
  <2>3. /\ todo'["tick"] \in Seq({Lock({Read, Table}), Drop({Read, Table}), Propose})
        /\ Head(s) \in {Lock({Read, Table}), Drop({Read, Table}), Propose}
    BY <1>1, <1>2, <2>1 DEF TickOK
  <2>4. Head(s).do = "send" => \A m \in Head(s).of : m[1] # "swarm"
    BY <2>3, StepKinds DEF Propose
  <2>5. ~IsParked("tick", "swarm")'
    BY <1>0, <1>2, <2>1, <2>4 DEF TickOK
  <2>. QED
    BY <2>2, <2>3, <2>5 DEF TickOK
<1>3. ASSUME a = "consumer" PROVE ConsumerOK'
  <2>1. ConsumerOK
    BY <1>0, <1>3 DEF CodeOK
  <2>2. \E h \in {{Write}, {Table}, {Read, Table}} : StandsFor("consumer", h)'
    BY <1>3, <2>1 DEF ConsumerOK, Stands
  <2>3. kind # "worker"
    BY <1>3, <2>1 DEF ConsumerOK
  <2>4. ASSUME kind # "oracle"
        PROVE  /\ todo'["consumer"] \in Seq({Command})
               /\ \A l \in LockName : ~Asks("consumer", l)'
               /\ ~IsParked("consumer", "inner")'
    <3>1. todo'["consumer"] \in Seq({Command}) /\ Head(s) = Command
      BY <1>1, <1>3, <2>1, <2>4 DEF ConsumerOK
    <3>2. Head(s).do = "send" /\ \A m \in Head(s).of : m[1] # "inner"
      BY <3>1, StepKinds DEF Command
    <3>. QED
      BY <1>0, <1>3, <2>1, <2>4, <3>1, <3>2 DEF ConsumerOK
  <2>. QED
    BY <2>2, <2>3, <2>4 DEF ConsumerOK
<1>4. ASSUME OnlySends(a) PROVE OnlySends(a)'
  <2>1. Head(s).do \in {"send", "await"} /\ todo'[a] \in Seq(Sends(kind))
    BY <1>1, <1>4, SendsOnly DEF OnlySends
  <2>. QED
    BY <1>4, <2>1 DEF OnlySends
<1>5. a \notin {"tick", "consumer", "swarm"} \/ kind' = "worker" => OnlySends(a)'
  BY <1>0, <1>4 DEF CodeOK
<1>. QED
  BY <1>2, <1>3, <1>5 DEF CodeOK

RestOf(a) == \A l \in LockName : Asks(a, l) /\ (Wants(a, l) => IsParkedSomewhere(a)) => Ahead(a, l) = {}

LEMMA AskKept ==
    ASSUME IInv, NEW a \in Actor, Ask(a)
    PROVE  CodeOK(a)' /\ RestOf(a)'
<1>1. /\ todo[a] # <<>> /\ Head(todo[a]).do = "lock" /\ todo' = todo /\ kind' = kind /\ parked' = parked
      /\ \A c \in Channel : ~IsParked(a, c)
  BY DEF Ask, At
<1>2. TypeInv /\ OnceOK /\ HasRest
  BY DEF IInv, LinesOK
<1>3. \A l \in LockName :
         /\ Asks(a, l)' <=> Asks(a, l) \/ Takes(a, l)
         /\ ~Takes(a, l) => Ahead(a, l)' \subseteq Ahead(a, l)
  BY <1>2, AskLines
<1>4. \A c : IsParked(a, c)' <=> IsParked(a, c)
  BY <1>1 DEF IsParked
<1>5. CodeOK(a)'
  <2>1. \A h \in Stands : StandsFor(a, h) => StandsFor(a, h)'
    BY <1>2, AskStands
  <2>2. a = "swarm" => SwarmOK'
    BY SwarmAsks
  <2>3. todo'[a] \in {todo[a], Tail(todo[a])}
    BY <1>1
  <2>. QED
    BY <1>1, <1>4, <2>1, <2>2, <2>3, Roles
<1>6. ASSUME NEW l \in LockName, Asks(a, l)', Wants(a, l)' => IsParkedSomewhere(a)'
      PROVE  Ahead(a, l)' = {}
  <2>1. ~IsParkedSomewhere(a)' /\ (Wants(a, l)' <=> Takes(a, l))
    BY <1>1, <1>4 DEF IsParkedSomewhere, Wants, Takes
  <2>2. ~Takes(a, l) /\ Asks(a, l) /\ ~Wants(a, l)
    BY <1>1, <1>3, <1>6, <2>1 DEF Wants, Takes
  <2>3. Ahead(a, l) = {}
    BY <1>2, <2>2 DEF HasRest
  <2>. QED
    BY <1>3, <2>2, <2>3
<1>. QED
  BY <1>5, <1>6 DEF RestOf

LEMMA AcquireKept ==
    ASSUME IInv, NEW a \in Actor, Acquire(a)
    PROVE  CodeOK(a)' /\ RestOf(a)'
<1>1. /\ todo[a] # <<>> /\ Head(todo[a]).do = "lock" /\ Proceed(a) /\ todo'[a] = Tail(todo[a])
      /\ UNCHANGED <<kind, line, parked>>
      /\ \A r \in Head(todo[a]).of : Granted(a, r[1])
  BY DEF Acquire, At, Proceed, IInv, TypeInv
<1>2. TypeInv /\ HasRest
  BY DEF IInv, LinesOK
<1>3. /\ \A c : IsParked(a, c)' <=> IsParked(a, c)
      /\ \A l \in LockName : (Asks(a, l)' <=> Asks(a, l)) /\ Ahead(a, l)' = Ahead(a, l)
  BY <1>1 DEF IsParked, Asks, Ahead
<1>4. CodeOK(a)'
  <2>1. \A h \in Stands : StandsFor(a, h) => StandsFor(a, h)'
    BY <1>1, <1>2, TailStands
  <2>2. a = "swarm" => SwarmOK'
    <3>. SUFFICES ASSUME a = "swarm" PROVE SwarmOK'
      OBVIOUS
    <3>1. Head(todo["swarm"]) = Lock({Table}) => Granted("swarm", "workers")
      BY <1>1, StepKinds, SwarmTakes
    <3>2. SwarmOK
      BY DEF IInv, CodeOK
    <3>3. kind = "worker" => ~IsParked("swarm", "swarm")'
      BY <1>3, <3>2 DEF SwarmOK
    <3>. QED
      BY <1>1, <3>1, <3>3, SwarmGoesOn
  <2>3. todo'[a] \in {todo[a], Tail(todo[a])} /\ kind' = kind
    BY <1>1
  <2>. QED
    BY <1>1, <1>3, <2>1, <2>2, <2>3, Roles
<1>5. ASSUME NEW l \in LockName, Asks(a, l) PROVE Ahead(a, l) = {}
  <2>1. CASE Takes(a, l)
    BY <1>1, <2>1 DEF Takes, Granted
  <2>2. CASE ~Takes(a, l)
    <3>1. ~Wants(a, l)
      BY <2>2 DEF Wants, Takes
    <3>. QED
      BY <1>2, <1>5, <3>1 DEF HasRest
  <2>. QED
    BY <2>1, <2>2
<1>. QED
  BY <1>3, <1>4, <1>5 DEF RestOf

LEMMA ReleaseKept ==
    ASSUME IInv, NEW a \in Actor, Release(a)
    PROVE  CodeOK(a)' /\ RestOf(a)'
<1>1. /\ todo[a] # <<>> /\ Head(todo[a]).do = "drop" /\ Proceed(a) /\ todo'[a] = Tail(todo[a])
      /\ UNCHANGED <<kind, parked>>
  BY DEF Release, At, Proceed, IInv, TypeInv
<1>2. TypeInv /\ OnceOK /\ HasRest
  BY DEF IInv, LinesOK
<1>3. /\ \A c : IsParked(a, c)' <=> IsParked(a, c)
      /\ \A l \in LockName : (Asks(a, l)' => Asks(a, l)) /\ Ahead(a, l)' \subseteq Ahead(a, l)
  BY <1>1, <1>2, ReleaseLines DEF IsParked
<1>4. CodeOK(a)'
  <2>1. \A h \in Stands : StandsFor(a, h) => StandsFor(a, h)'
    BY <1>2, ReleaseStands
  <2>2. a = "swarm" => SwarmOK'
    BY SwarmReleases
  <2>3. todo'[a] \in {todo[a], Tail(todo[a])} /\ kind' = kind
    BY <1>1
  <2>. QED
    BY <1>1, <1>3, <2>1, <2>2, <2>3, Roles
<1>5. \A l \in LockName : ~Wants(a, l)
  BY <1>1 DEF Wants
<1>. QED
  BY <1>2, <1>3, <1>4, <1>5 DEF RestOf, HasRest

------------------------------------------------------------------------------
(* What a step does to the channels *)

LEMMA ProceedTyped ==
    ASSUME TypeInv, NEW a \in Actor, todo[a] # <<>>, Proceed(a)
    PROVE  /\ todo' \in [Actor -> Seq(Steps(kind))] /\ todo'[a] = Tail(todo[a])
           /\ \A b \in Actor : b # a => todo'[b] = todo[b]
<1>. DEFINE S == Steps(kind)
<1>1. todo \in [Actor -> Seq(S)] /\ Tail(todo[a]) \in Seq(S)
  BY DEF TypeInv
<1>. HIDE DEF S
<1>2. todo' = [todo EXCEPT ![a] = Tail(todo[a])]
  BY DEF Proceed
<1>. QED
  BY <1>1, <1>2 DEF S

LEMMA SentMessage ==
    ASSUME TypeInv, NEW a \in Actor, At(a, "send"), NEW m \in Head(todo[a]).of
    PROVE  /\ Head(todo[a]) \in Sends(kind) /\ m[1] \in Channel /\ m[2] \in Content
           /\ m[1] = "inner" => m[2] \in Contents(kind)
           /\ Head(todo[a]).of = {m}
<1>1. Head(todo[a]) \in Steps(kind)
  <2>1. todo[a] \in Seq(Steps(kind)) /\ todo[a] # <<>>
    BY DEF TypeInv, At
  <2>. QED
    BY <2>1
<1>2. Head(todo[a]) \in Sends(kind)
  BY <1>1, StepKinds DEF Steps, Moves, At
<1>3. kind \in {"oracle", "manager", "worker"}
  BY DEF TypeInv
<1>4. \/ Head(todo[a]) = Send("inner", "quiet") \/ Head(todo[a]) = Send("swarm", "command")
      \/ Head(todo[a]) = Send("runner", "task")
      \/ Head(todo[a]) = Send("inner", "proposal") /\ kind # "worker"
      \/ Head(todo[a]) = Send("inner", "assigned") /\ kind = "oracle"
      \/ Head(todo[a]) = Send("inner", "unassigned") /\ kind = "oracle"
  BY <1>2, <1>3, StepKinds DEF Sends, Log, Propose, Command
<1>5. PICK c \in {"inner", "swarm", "runner"}, x \in Content :
         /\ Head(todo[a]) = Send(c, x)
         /\ c = "inner" => x \in Contents(kind)
  BY <1>3, <1>4 DEF Content, Contents
<1>6. Head(todo[a]).of = {<<c, x>>}
  BY <1>5, StepKinds
<1>. QED
  BY <1>2, <1>5, <1>6 DEF Channel

LEMMA PushQueues ==
    ASSUME TypeInv, RoomOK, ParkedOnce, NEW a \in Actor, Push(a)
    PROVE  /\ queue' \in [Channel -> Seq(Content)] /\ queue'["inner"] \in Seq(Contents(kind))
           /\ parked' \in [Channel -> Seq(Actor)]
           /\ RoomOK' /\ ParkedOnce'
           /\ \A b \in Actor, c \in Channel :
                 /\ IsParked(b, c) => IsParked(b, c)'
                 /\ IsParked(b, c)' => IsParked(b, c) \/ (b = a /\ \E m \in Head(todo[a]).of : m[1] = c)
<1>1. PICK m \in Head(todo[a]).of :
         /\ queue' = [queue EXCEPT ![m[1]] = Append(@, m[2])]
         /\ parked' = IF Len(queue'[m[1]]) > ChannelSize
                      THEN [parked EXCEPT ![m[1]] = Append(@, a)] ELSE parked
  BY DEF Push
<1>2. At(a, "send") /\ \A c \in Channel : ~IsParked(a, c)
  BY DEF Push, At
<1>3. PICK d \in Channel : d = m[1]
  BY <1>2, SentMessage
<1>4. m[2] \in Content /\ (d = "inner" => m[2] \in Contents(kind)) /\ Head(todo[a]).of = {m}
  BY <1>2, <1>3, SentMessage
<1>5. /\ queue \in [Channel -> Seq(Content)] /\ queue["inner"] \in Seq(Contents(kind))
      /\ parked \in [Channel -> Seq(Actor)] /\ "inner" \in Channel
  BY DEF TypeInv, Channel
<1>6. /\ queue' \in [Channel -> Seq(Content)]
      /\ \A c \in Channel : queue'[c] = IF c = d THEN Append(queue[d], m[2]) ELSE queue[c]
  BY <1>1, <1>3, <1>4, <1>5
<1>7. queue'["inner"] \in Seq(Contents(kind))
  <2>. DEFINE S == Contents(kind)
  <2>1. queue["inner"] \in Seq(S) /\ (d = "inner" => m[2] \in S)
    BY <1>4, <1>5
  <2>. HIDE DEF S
  <2>2. d = "inner" => Append(queue["inner"], m[2]) \in Seq(S)
    BY <2>1
  <2>. QED
    BY <1>5, <1>6, <2>1, <2>2 DEF S
<1>8. /\ parked' \in [Channel -> Seq(Actor)]
      /\ \A c \in Channel : c # d => parked'[c] = parked[c]
      /\ Len(queue'[d]) > ChannelSize => parked'[d] = Append(parked[d], a)
      /\ ~(Len(queue'[d]) > ChannelSize) => parked'[d] = parked[d]
  BY <1>1, <1>3, <1>5
<1>9. /\ Len(queue'[d]) = Len(queue[d]) + 1 /\ Len(queue[d]) \in Nat
      /\ \A c \in Channel : Len(parked[c]) \in Nat /\ Len(queue[c]) \in Nat
  BY <1>4, <1>5, <1>6
<1>10. RoomOK'
  <2>. SUFFICES ASSUME NEW c \in Channel PROVE Len(queue'[c]) <= ChannelSize + Len(parked'[c])
    BY DEF RoomOK
  <2>1. CASE c # d
    BY <1>6, <1>8, <2>1 DEF RoomOK
  <2>2. CASE c = d /\ Len(queue'[d]) > ChannelSize
    <3>1. Len(parked'[d]) = Len(parked[d]) + 1
      BY <1>5, <1>8, <2>2
    <3>2. Len(queue[d]) <= ChannelSize + Len(parked[d])
      BY DEF RoomOK
    <3>. QED
      BY <1>9, <2>2, <3>1, <3>2, LocksAssumption
  <2>3. CASE c = d /\ ~(Len(queue'[d]) > ChannelSize)
    <3>1. parked'[d] = parked[d]
      BY <1>8, <2>3
    <3>. QED
      BY <1>9, <2>3, <3>1, LocksAssumption
  <2>. QED
    BY <2>1, <2>2, <2>3
<1>11. ASSUME NEW b \in Actor, NEW c \in Channel
       PROVE  /\ IsParked(b, c) => IsParked(b, c)'
              /\ IsParked(b, c)' => IsParked(b, c) \/ (b = a /\ d = c)
  <2>1. CASE parked'[c] = parked[c]
    BY <2>1 DEF IsParked
  <2>2. CASE c = d /\ parked'[c] = Append(parked[c], a)
    <3>1. /\ DOMAIN parked'[c] = 1..(Len(parked[c]) + 1) /\ Len(parked[c]) \in Nat
          /\ DOMAIN parked[c] = 1..Len(parked[c])
          /\ \A i \in 1..Len(parked[c]) : parked'[c][i] = parked[c][i]
          /\ parked'[c][Len(parked[c]) + 1] = a
      <4>1. parked[c] \in Seq(Actor)
        BY <1>5
      <4>. QED
        BY <2>2, <4>1
    <3>2. \A i \in DOMAIN parked'[c] : i \in DOMAIN parked[c] \/ i = Len(parked[c]) + 1
      BY <3>1
    <3>3. \A i \in DOMAIN parked[c] : i \in DOMAIN parked'[c]
      BY <3>1
    <3>. QED
      BY <2>2, <3>1, <3>2, <3>3 DEF IsParked
  <2>. QED
    BY <1>8, <2>1, <2>2
<1>12. ParkedOnce'
  BY <1>2, <1>11 DEF ParkedOnce
<1>13. \A c : d = c => \E k \in Head(todo[a]).of : k[1] = c
  BY <1>3
<1>. QED
  BY <1>6, <1>7, <1>8, <1>10, <1>11, <1>12, <1>13

LEMMA PushKept ==
    ASSUME IInv, NEW a \in Actor, Push(a)
    PROVE  CodeOK(a)' /\ RestOf(a)'
<1>1. /\ todo[a] # <<>> /\ Head(todo[a]).do = "send" /\ Proceed(a) /\ UNCHANGED <<kind, line>>
      /\ todo'[a] = Tail(todo[a]) /\ \A c \in Channel : ~IsParked(a, c)
  BY DEF Push, At, Proceed, IInv, TypeInv
<1>2. TypeInv /\ RoomOK /\ ParkedOnce /\ HasRest /\ "swarm" \in Channel
  BY DEF IInv, LinesOK, Channel
<1>3. /\ \A l \in LockName : (Asks(a, l)' <=> Asks(a, l)) /\ Ahead(a, l)' = Ahead(a, l)
      /\ \A c \in Channel : IsParked(a, c)' =>
            IsParked(a, c) \/ (Head(todo[a]).do = "send" /\ \E m \in Head(todo[a]).of : m[1] = c)
  BY <1>1, <1>2, PushQueues DEF Asks, Ahead
<1>4. CodeOK(a)'
  <2>1. \A h \in Stands : StandsFor(a, h) => StandsFor(a, h)'
    BY <1>1, <1>2, TailStands
  <2>2. a = "swarm" => SwarmOK'
    <3>. SUFFICES ASSUME a = "swarm" PROVE SwarmOK'
      OBVIOUS
    <3>1. Head(todo["swarm"]) # Lock({Table})
      BY <1>1, StepKinds
    <3>2. SwarmOK
      BY DEF IInv, CodeOK
    <3>3. kind = "worker" => ~IsParked("swarm", "swarm")'
      <4>1. kind = "worker" => Head(todo[a]) \in {Log, Send("runner", "task")}
        BY <1>1, <3>2 DEF SwarmOK
      <4>2. kind = "worker" => \A m \in Head(todo[a]).of : m[1] # "swarm"
        BY <4>1, StepKinds DEF Log
      <4>. QED
        BY <1>1, <1>2, <1>3, <4>2
    <3>. QED
      BY <1>1, <3>1, <3>3, SwarmGoesOn
  <2>3. todo'[a] \in {todo[a], Tail(todo[a])} /\ kind' = kind
    BY <1>1
  <2>. QED
    BY <1>1, <1>3, <2>1, <2>2, <2>3, Roles
<1>5. \A l \in LockName : ~Wants(a, l)
  BY <1>1 DEF Wants
<1>. QED
  BY <1>2, <1>3, <1>4, <1>5 DEF RestOf, HasRest

LEMMA AnswerKept ==
    ASSUME IInv, NEW a \in Actor, Answer(a)
    PROVE  CodeOK(a)' /\ RestOf(a)'
<1>1. /\ todo[a] # <<>> /\ Head(todo[a]).do = "await" /\ Proceed(a) /\ todo'[a] = Tail(todo[a])
      /\ UNCHANGED <<kind, line, parked>>
  BY DEF Answer, At, Proceed, IInv, TypeInv
<1>2. TypeInv /\ HasRest
  BY DEF IInv, LinesOK
<1>3. /\ \A c : IsParked(a, c)' <=> IsParked(a, c)
      /\ \A l \in LockName : (Asks(a, l)' <=> Asks(a, l)) /\ Ahead(a, l)' = Ahead(a, l)
  BY <1>1 DEF IsParked, Asks, Ahead
<1>4. CodeOK(a)'
  <2>1. \A h \in Stands : StandsFor(a, h) => StandsFor(a, h)'
    BY <1>1, <1>2, TailStands
  <2>2. a = "swarm" => SwarmOK'
    <3>. SUFFICES ASSUME a = "swarm" PROVE SwarmOK'
      OBVIOUS
    <3>1. Head(todo["swarm"]) # Lock({Table})
      BY <1>1, StepKinds
    <3>2. SwarmOK
      BY DEF IInv, CodeOK
    <3>3. kind = "worker" => ~IsParked("swarm", "swarm")'
      BY <1>3, <3>2 DEF SwarmOK
    <3>. QED
      BY <1>1, <3>1, <3>3, SwarmGoesOn
  <2>3. todo'[a] \in {todo[a], Tail(todo[a])} /\ kind' = kind
    BY <1>1
  <2>. QED
    BY <1>1, <1>3, <2>1, <2>2, <2>3, Roles
<1>5. \A l \in LockName : ~Wants(a, l)
  BY <1>1 DEF Wants
<1>. QED
  BY <1>2, <1>3, <1>4, <1>5 DEF RestOf, HasRest

------------------------------------------------------------------------------
(* Every step keeps the invariant *)

LEMMA AllKept ==
    ASSUME IInv, kind' = kind, NEW a \in Actor, CodeOK(a)', RestOf(a)',
           \A b \in Actor : b # a => Alone(b)
    PROVE  (\A b \in Actor : CodeOK(b))' /\ HasRest'
<1>1. ASSUME NEW b \in Actor, b # a PROVE CodeOK(b)' /\ RestOf(b)'
  <2>1. CodeOK(b) /\ HasRest
    BY DEF IInv, LinesOK
  <2>. QED
    BY <1>1, <2>1, AloneKeeps DEF RestOf
<1>2. \A b \in Actor : CodeOK(b)' /\ RestOf(b)'
  BY <1>1
<1>. QED
  BY <1>2 DEF HasRest, RestOf

LEMMA StepKept ==
    ASSUME IInv, NEW a \in Actor, Step(a) \/ Answer(a)
    PROVE  IInv'
<1>0. /\ TypeInv /\ RoomOK /\ OnceOK /\ ParkedOnce
      /\ queue \in [Channel -> Seq(Content)] /\ queue["inner"] \in Seq(Contents(kind))
      /\ parked \in [Channel -> Seq(Actor)] /\ line \in [LockName -> Seq(Asked)]
  BY DEF IInv, LinesOK, TypeInv
<1>1. kind' = kind /\ events' = events /\ CodeOK(a)' /\ RestOf(a)'
  BY AskKept, AcquireKept, ReleaseKept, PushKept, AnswerKept
     DEF Step, Ask, Acquire, Release, Push, Answer
<1>2. /\ todo' \in [Actor -> Seq(Steps(kind))]
      /\ \A b \in Actor : b # a => todo'[b] = todo[b]
  <2>1. CASE Ask(a)
    BY <1>0, <2>1 DEF Ask, TypeInv
  <2>2. CASE ~Ask(a)
    <3>1. todo[a] # <<>> /\ Proceed(a)
      BY <2>2 DEF Step, Acquire, Release, Push, Answer, At
    <3>. QED
      BY <1>0, <3>1, ProceedTyped
  <2>. QED
    BY <2>1, <2>2
<1>3. /\ line' \in [LockName -> Seq(Asked)] /\ OnceOK'
      /\ \A l \in LockName :
            /\ \A b : b # a => /\ Asks(b, l)' <=> Asks(b, l)
                               /\ Ahead(b, l)' \subseteq Ahead(b, l)
            /\ \E added \in BOOLEAN : From(a, l, added)
  <2>1. CASE Ask(a)
    <3>1. \A l \in LockName : Takes(a, l) \in BOOLEAN
      BY DEF Takes
    <3>. QED
      BY <1>0, <2>1, <3>1, AskLines
  <2>2. CASE Release(a)
    BY <1>0, <2>2, ReleaseLines
  <2>3. CASE line' = line
    <3>1. \A l, b : (Asks(b, l)' <=> Asks(b, l)) /\ Ahead(b, l)' = Ahead(b, l)
      BY <2>3 DEF Asks, Ahead
    <3>2. \A l : From(a, l, FALSE)
      BY <2>3 DEF From
    <3>. QED
      BY <1>0, <2>3, <3>1, <3>2 DEF OnceOK
  <2>. QED
    BY <2>1, <2>2, <2>3 DEF Step, Acquire, Push, Answer
<1>4. /\ queue' \in [Channel -> Seq(Content)] /\ queue'["inner"] \in Seq(Contents(kind))
      /\ parked' \in [Channel -> Seq(Actor)] /\ RoomOK' /\ ParkedOnce'
      /\ \A b \in Actor, c \in Channel : b # a => (IsParked(b, c)' => IsParked(b, c))
  <2>1. CASE Push(a)
    BY <1>0, <2>1, PushQueues
  <2>2. CASE UNCHANGED <<queue, parked>>
    BY <1>0, <2>2 DEF RoomOK, ParkedOnce, IsParked
  <2>. QED
    BY <2>1, <2>2 DEF Step, Ask, Acquire, Release, Answer
<1>5. ASSUME NEW b \in Actor, b # a PROVE Alone(b)
  <2>1. ASSUME NEW l \in LockName, NEW i \in DOMAIN line'[l], line'[l][i].actor = b
        PROVE  \E j \in DOMAIN line[l] : line'[l][i] = line[l][j]
    BY <1>3, <1>5, <2>1 DEF From
  <2>. QED
    BY <1>2, <1>3, <1>4, <1>5, <2>1 DEF Alone
<1>6. (\A b \in Actor : CodeOK(b))' /\ HasRest'
  BY <1>1, <1>5, AllKept
<1>7. TypeInv'
  BY <1>0, <1>1, <1>2, <1>3, <1>4 DEF TypeInv
<1>. QED
  BY <1>3, <1>4, <1>6, <1>7 DEF IInv, LinesOK

LEMMA PopQueues ==
    ASSUME TypeInv, RoomOK, ParkedOnce, NEW c \in Channel, Pop(c)
    PROVE  /\ queue' \in [Channel -> Seq(Content)] /\ queue'["inner"] \in Seq(Contents(kind))
           /\ parked' \in [Channel -> Seq(Actor)] /\ RoomOK' /\ ParkedOnce'
           /\ \A b \in Actor, d \in Channel : IsParked(b, d)' => IsParked(b, d)
           /\ c = "inner" => Head(queue["inner"]) \in Contents(kind)
<1>1. /\ queue \in [Channel -> Seq(Content)] /\ queue["inner"] \in Seq(Contents(kind))
      /\ parked \in [Channel -> Seq(Actor)] /\ "inner" \in Channel
  BY DEF TypeInv, Channel
<1>2. /\ queue[c] # <<>> /\ queue' = [queue EXCEPT ![c] = Tail(queue[c])]
      /\ parked' = [parked EXCEPT ![c] = IF parked[c] = <<>> THEN parked[c] ELSE Tail(parked[c])]
  BY DEF Pop
<1>3. /\ queue[c] \in Seq(Content) /\ queue[c] # <<>>
      /\ Tail(queue[c]) \in Seq(Content) /\ Len(Tail(queue[c])) = Len(queue[c]) - 1
      /\ parked[c] # <<>> => /\ Tail(parked[c]) \in Seq(Actor) /\ Len(Tail(parked[c])) = Len(parked[c]) - 1
      /\ parked[c] \in Seq(Actor) /\ Len(parked[c]) \in Nat /\ Len(queue[c]) \in Nat
  BY <1>1, <1>2
<1>4. /\ queue' \in [Channel -> Seq(Content)] /\ parked' \in [Channel -> Seq(Actor)]
      /\ queue'[c] = Tail(queue[c]) /\ \A d \in Channel : d # c => queue'[d] = queue[d] /\ parked'[d] = parked[d]
      /\ parked[c] = <<>> => parked'[c] = parked[c]
      /\ parked[c] # <<>> => parked'[c] = Tail(parked[c])
  BY <1>1, <1>2, <1>3
<1>5. /\ queue'["inner"] \in Seq(Contents(kind))
      /\ c = "inner" => Head(queue["inner"]) \in Contents(kind)
  <2>. DEFINE S == Contents(kind)
  <2>1. queue["inner"] \in Seq(S)
    BY <1>1
  <2>. HIDE DEF S
  <2>2. c = "inner" => Tail(queue["inner"]) \in Seq(S) /\ Head(queue["inner"]) \in S
    BY <1>2, <2>1
  <2>. QED
    BY <1>1, <1>4, <2>1, <2>2 DEF S
<1>6. RoomOK'
  <2>. SUFFICES ASSUME NEW d \in Channel PROVE Len(queue'[d]) <= ChannelSize + Len(parked'[d])
    BY DEF RoomOK
  <2>1. CASE d # c
    BY <1>4, <2>1 DEF RoomOK
  <2>2. CASE d = c
    <3>1. Len(queue[c]) <= ChannelSize + Len(parked[c]) /\ ChannelSize \in Nat
      BY LocksAssumption DEF RoomOK
    <3>2. CASE parked[c] = <<>>
      BY <1>3, <1>4, <2>2, <3>1, <3>2
    <3>3. CASE parked[c] # <<>>
      BY <1>3, <1>4, <2>2, <3>1, <3>3
    <3>. QED
      BY <3>2, <3>3
  <2>. QED
    BY <2>1, <2>2
<1>7. ASSUME NEW b \in Actor, NEW d \in Channel, IsParked(b, d)' PROVE IsParked(b, d)
  <2>1. CASE parked'[d] = parked[d]
    BY <1>7, <2>1 DEF IsParked
  <2>2. CASE d = c /\ parked[c] # <<>>
    <3>1. \A i \in DOMAIN Tail(parked[c]) : i + 1 \in DOMAIN parked[c] /\ Tail(parked[c])[i] = parked[c][i + 1]
      BY <1>3, <2>2
    <3>2. PICK i \in DOMAIN Tail(parked[c]) : Tail(parked[c])[i] = b
      BY <1>4, <1>7, <2>2 DEF IsParked
    <3>. QED
      BY <2>2, <3>1, <3>2 DEF IsParked
  <2>. QED
    BY <1>4, <2>1, <2>2
<1>8. ParkedOnce'
  BY <1>7 DEF ParkedOnce
<1>. QED
  BY <1>4, <1>5, <1>6, <1>7, <1>8

(* What a handler may start with *)
Program(a, p) ==
    /\ p \in Seq(Steps(kind))
    /\ a = "tick" => /\ Footprint(p, {Read, Table})
                     /\ p \in Seq({Lock({Read, Table}), Drop({Read, Table}), Propose})
    /\ a = "consumer" => /\ \E h \in Stands : Footprint(p, h)
                         /\ kind # "oracle" => p \in Seq({Command})
                         /\ kind = "worker" => p = <<>>
    /\ a = "swarm" => /\ Nested(p, FALSE, FALSE)
                      /\ kind = "worker" => p \in Seq({Log, Send("runner", "task")})
    /\ a \notin {"tick", "consumer", "swarm"} \/ kind = "worker" => p \in Seq(Sends(kind))

LEMMA BeginKept ==
    ASSUME IInv, NEW a \in Actor, Idle(a), NEW p, Program(a, p),
           todo' = [todo EXCEPT ![a] = p], UNCHANGED <<kind, line>>,
           \A b \in Actor, d \in Channel : IsParked(b, d)' => IsParked(b, d)
    PROVE  /\ todo' \in [Actor -> Seq(Steps(kind))]
           /\ (\A b \in Actor : CodeOK(b))' /\ HasRest'
<1>1. TypeInv /\ HasRest /\ CodeOK(a) /\ todo \in [Actor -> Seq(Steps(kind))]
  BY DEF IInv, LinesOK, TypeInv
<1>2. todo[a] = <<>> /\ \A c \in Channel : ~IsParked(a, c) /\ ~IsParked(a, c)'
  BY DEF Idle
<1>3. /\ todo' \in [Actor -> Seq(Steps(kind))] /\ todo'[a] = p
      /\ \A b \in Actor : b # a => todo'[b] = todo[b]
  <2>. DEFINE S == Seq(Steps(kind))
  <2>1. todo \in [Actor -> S] /\ p \in S
    BY <1>1 DEF Program
  <2>. HIDE DEF S
  <2>. QED
    BY <2>1 DEF S
<1>4. \A l, b : (Asks(b, l)' <=> Asks(b, l)) /\ Ahead(b, l)' = Ahead(b, l)
  BY DEF Asks, Ahead
<1>5. \A b \in Actor : b # a => Alone(b)
  BY <1>3, <1>4 DEF Alone
<1>6. \A l \in LockName : ~Wants(a, l)
  BY <1>2 DEF Wants
<1>7. RestOf(a)'
  BY <1>1, <1>4, <1>6 DEF RestOf, HasRest
<1>8. \A h : StandsFor(a, h) => \A l \in LockName : ~Asks(a, l)
  BY <1>2 DEF StandsFor
<1>9. ASSUME NEW h, NEW g, StandsFor(a, h), Footprint(p, g) PROVE StandsFor(a, g)'
  <2>1. Footprint(todo[a], g)'
    BY <1>3, <1>9 DEF Footprint
  <2>2. \A l \in LockName : ~Asks(a, l)'
    BY <1>4, <1>8, <1>9
  <2>3. \A l \in LockName : \A i \in DOMAIN line'[l] : line'[l][i].actor # a
    BY <2>2 DEF Asks
  <2>. QED
    BY <2>1, <2>2, <2>3 DEF StandsFor
<1>10. ASSUME a = "tick" PROVE TickOK'
  BY <1>1, <1>2, <1>3, <1>9, <1>10 DEF CodeOK, TickOK, Program, Channel
<1>11. ASSUME a = "consumer" PROVE ConsumerOK'
  <2>1. ConsumerOK
    BY <1>1, <1>11 DEF CodeOK
  <2>2. PICK h \in Stands : StandsFor(a, h)
    BY <1>11, <2>1 DEF ConsumerOK, Stands
  <2>3. PICK g \in Stands : Footprint(p, g)
    BY <1>11 DEF Program
  <2>4. StandsFor(a, g)' /\ \A l \in LockName : ~Asks(a, l)'
    BY <1>4, <1>8, <1>9, <2>2, <2>3
  <2>5. /\ kind # "oracle" => todo'["consumer"] \in Seq({Command})
        /\ kind = "worker" => todo'["consumer"] = <<>>
    BY <1>3, <1>11 DEF Program
  <2>6. ~IsParkedSomewhere("consumer")' /\ ~IsParked("consumer", "inner")'
    BY <1>2, <1>11 DEF IsParkedSomewhere, Channel
  <2>7. \E k \in {{Write}, {Table}, {Read, Table}} : StandsFor("consumer", k)'
    BY <1>11, <2>3, <2>4 DEF Stands
  <2>. QED
    BY <1>11, <2>4, <2>5, <2>6, <2>7 DEF ConsumerOK
<1>12. ASSUME a = "swarm" PROVE SwarmOK'
  <2>. DEFINE t == Asks("swarm", "workers")
              r == Asks("swarm", "shared_state")
  <2>1. SwarmOK
    BY <1>1, <1>12 DEF CodeOK
  <2>2. t \in BOOLEAN /\ r = FALSE
    BY <1>2, <1>12, <2>1 DEF SwarmOK, Nested, Asks
  <2>3. Nested(p, t, r)
    <3>1. Nested(p, FALSE, FALSE)
      BY <1>12 DEF Program
    <3>. HIDE DEF t, r
    <3>. QED
      BY <2>2, <3>1, NestedStart
  <2>4. t = Asks("swarm", "workers")' /\ r = Asks("swarm", "shared_state")'
    BY <1>4 DEF Asks
  <2>5. Nested(todo["swarm"], Asks("swarm", "workers"), Asks("swarm", "shared_state"))'
    <3>. HIDE DEF t, r
    <3>1. Nested(p, t, r) = Nested(todo'["swarm"], t, r)
      BY <1>3, <1>12
    <3>2. Nested(todo["swarm"], Asks("swarm", "workers"), Asks("swarm", "shared_state"))'
             <=> Nested(todo'["swarm"], t, r)
      BY <2>4 DEF Nested, Sends
    <3>. QED
      BY <2>3, <3>1, <3>2
  <2>6. kind = "worker" => todo'["swarm"] \in Seq({Log, Send("runner", "task")})
    BY <1>3, <1>12 DEF Program
  <2>7. ~IsParked("swarm", "swarm")'
    BY <1>2, <1>12 DEF Channel
  <2>8. \A i \in DOMAIN line'["shared_state"] :
           line'["shared_state"][i].actor = "swarm" => line'["shared_state"][i].mode = "read"
    BY <2>1 DEF SwarmOK
  <2>. QED
    BY <2>2, <2>4, <2>5, <2>6, <2>7, <2>8 DEF SwarmOK
<1>13. a \notin {"tick", "consumer", "swarm"} \/ kind' = "worker" => OnlySends(a)'
  <2>1. a \notin {"tick", "consumer", "swarm"} \/ kind = "worker" => OnlySends(a) /\ p \in Seq(Sends(kind))
    BY <1>1 DEF CodeOK, Program
  <2>. QED
    BY <1>3, <1>4, <2>1 DEF OnlySends
<1>14. CodeOK(a)'
  BY <1>10, <1>11, <1>12, <1>13 DEF CodeOK
<1>15. (\A b \in Actor : CodeOK(b))' /\ HasRest'
  BY <1>5, <1>7, <1>14, AllKept
<1>. QED
  BY <1>3, <1>15

LEMMA SendsProgram ==
    ASSUME NEW a, a \notin {"tick", "consumer", "swarm"}, NEW p \in Seq(Sends(kind))
    PROVE  Program(a, p)
<1>1. Sends(kind) \subseteq Steps(kind)
  BY DEF Steps
<1>2. p \in Seq(Steps(kind))
  BY <1>1
<1>. QED
  BY <1>2 DEF Program

LEMMA RequestSteps ==
    \A h : h \subseteq Request => Lock(h) \in Steps(kind) /\ Drop(h) \in Steps(kind)
  BY DEF Steps, Moves

LEMMA FootprintSteps ==
    ASSUME NEW h, h \subseteq Request, NEW p, Footprint(p, h)
    PROVE  p \in Seq(Steps(kind))
<1>1. {Lock(h), Drop(h)} \cup Sends(kind) \subseteq Steps(kind)
  BY RequestSteps DEF Steps
<1>2. p \in Seq({Lock(h), Drop(h)} \cup Sends(kind))
  BY DEF Footprint
<1>. QED
  BY <1>1, <1>2

LEMMA SwarmKnows == SwarmSteps(kind) \subseteq Steps(kind)
<1>1. {Table} \subseteq Request /\ {Read} \subseteq Request /\ {Table, Read} \subseteq Request
  BY DEF Request
<1>. QED
  BY <1>1, RequestSteps DEF SwarmSteps, Steps

LEMMA StartsKept ==
    ASSUME IInv, NEW a \in Actor, NEW programs, Starts(a, programs),
           \A p \in programs : Program(a, p)
    PROVE  IInv'
<1>1. /\ Idle(a) /\ events' = events + 1 /\ events < MaxEvents
      /\ UNCHANGED <<kind, line, queue, parked>>
  BY DEF Starts
<1>2. PICK p \in programs : todo' = [todo EXCEPT ![a] = p]
  BY DEF Starts
<1>3. \A b \in Actor, d \in Channel : IsParked(b, d)' <=> IsParked(b, d)
  BY <1>1 DEF IsParked
<1>4. todo' \in [Actor -> Seq(Steps(kind))] /\ (\A b \in Actor : CodeOK(b))' /\ HasRest'
  BY <1>1, <1>2, <1>3, BeginKept
<1>5. events' \in 0..MaxEvents
  BY <1>1, LocksAssumption DEF IInv, TypeInv
<1>6. TypeInv'
  BY <1>1, <1>4, <1>5 DEF IInv, TypeInv
<1>7. RoomOK' /\ OnceOK' /\ ParkedOnce'
  BY <1>1, <1>3 DEF IInv, LinesOK, RoomOK, OnceOK, ParkedOnce
<1>. QED
  BY <1>4, <1>6, <1>7 DEF IInv, LinesOK

LEMMA OutsideKept == IInv /\ Outside => IInv'
<1>. SUFFICES ASSUME IInv, Outside PROVE IInv'
  OBVIOUS
<1>0. kind \in {"oracle", "manager", "worker"} /\ LocksAssumption
  BY LocksAssumption DEF IInv, TypeInv
<1>1. CASE Starts("swarm", handle_swarm_event \cup Gossip)
  <2>1. ASSUME NEW p \in handle_swarm_event \cup Gossip PROVE Program("swarm", p)
    <3>1. Nested(p, FALSE, FALSE) /\ (kind = "worker" => p \in Seq({Log, Send("runner", "task")}))
      BY <1>0, SwarmProgram
    <3>2. p \in Seq(Steps(kind))
      <4>1. p \in Seq(SwarmSteps(kind))
        BY <3>1 DEF Nested, SwarmSteps
      <4>. QED
        BY <4>1, SwarmKnows
    <3>3. kind = "worker" => p \in Seq(Sends(kind))
      <4>1. kind = "worker" => {Log, Send("runner", "task")} \subseteq Sends(kind)
        BY DEF Sends
      <4>. QED
        BY <3>1, <4>1
    <3>. QED
      BY <3>1, <3>2, <3>3 DEF Program
  <2>. QED
    BY <1>1, <2>1, StartsKept DEF Actor
<1>2. CASE Starts("ctrlc", handle_ctrlc)
  <2>1. \A p \in handle_ctrlc : Program("ctrlc", p)
    BY <1>0, OtherPrograms, SendsProgram
  <2>. QED
    BY <1>2, <2>1, StartsKept DEF Actor
<1>3. CASE kind # "worker" /\ Starts("tick", propose_assignements)
  <2>1. ASSUME NEW p \in propose_assignements PROVE Program("tick", p)
    <3>1. /\ Footprint(p, {Read, Table})
          /\ p \in Seq({Lock({Read, Table}), Drop({Read, Table}), Propose})
      BY <1>0, <1>3, TickProgram
    <3>2. {Read, Table} \subseteq Request
      BY DEF Request
    <3>3. p \in Seq(Steps(kind))
      BY <3>1, <3>2, FootprintSteps
    <3>. QED
      BY <1>3, <3>1, <3>3 DEF Program
  <2>. QED
    BY <1>3, <2>1, StartsKept DEF Actor
<1>4. CASE kind # "worker" /\ Starts("chain", handle_chain_event)
  <2>1. \A p \in handle_chain_event : Program("chain", p)
    BY <1>0, <1>4, OtherPrograms, SendsProgram
  <2>. QED
    BY <1>4, <2>1, StartsKept DEF Actor
<1>5. CASE \E a \in Actor : Answer(a)
  BY <1>5, StepKept
<1>. QED
  BY <1>1, <1>2, <1>3, <1>4, <1>5 DEF Outside

LEMMA InsideKept == IInv /\ Inside => IInv'
<1>. SUFFICES ASSUME IInv, Inside PROVE IInv'
  OBVIOUS
<1>0. /\ TypeInv /\ RoomOK /\ ParkedOnce /\ OnceOK /\ LocksAssumption
      /\ kind \in {"oracle", "manager", "worker"}
      /\ "inner" \in Channel /\ "swarm" \in Channel /\ "runner" \in Channel
      /\ "consumer" \in Actor /\ Run \subseteq Actor
  BY LocksAssumption DEF IInv, LinesOK, TypeInv, Channel, Actor
<1>1. ASSUME NEW c \in Channel, Pop(c), UNCHANGED <<kind, line, events>>,
             todo' \in [Actor -> Seq(Steps(kind))],
             (\A b \in Actor : CodeOK(b))', HasRest'
      PROVE  IInv'
  <2>1. /\ queue' \in [Channel -> Seq(Content)] /\ queue'["inner"] \in Seq(Contents(kind))
        /\ parked' \in [Channel -> Seq(Actor)] /\ RoomOK' /\ ParkedOnce'
    BY <1>0, <1>1, PopQueues
  <2>2. TypeInv' /\ OnceOK'
    BY <1>0, <1>1, <2>1 DEF TypeInv, OnceOK
  <2>. QED
    BY <1>1, <2>1, <2>2 DEF IInv, LinesOK
<1>2. \A c \in Channel : Pop(c) => \A b \in Actor, d \in Channel : IsParked(b, d)' => IsParked(b, d)
  BY <1>0, PopQueues
<1>3. CASE Receive
  <2>1. /\ Idle("consumer") /\ Pop("inner") /\ UNCHANGED <<kind, line, events>>
        /\ Head(queue["inner"]) \in Contents(kind)
    BY <1>0, <1>3, PopQueues DEF Receive
  <2>2. PICK p \in handle_event(Head(queue["inner"])) : todo' = [todo EXCEPT !["consumer"] = p]
    BY <1>3 DEF Receive
  <2>3. /\ \E h \in Stands : Footprint(p, h)
        /\ kind # "oracle" => p \in Seq({Command})
        /\ kind = "worker" => p = <<>>
    BY <1>0, <2>1, ConsumerProgram DEF Stands
  <2>4. p \in Seq(Steps(kind))
    <3>1. \A h \in Stands : h \subseteq Request
      BY DEF Stands, Request
    <3>. QED
      BY <2>3, <3>1, FootprintSteps
  <2>5. Program("consumer", p)
    BY <2>3, <2>4 DEF Program
  <2>6. todo' \in [Actor -> Seq(Steps(kind))] /\ (\A b \in Actor : CodeOK(b))' /\ HasRest'
    BY <1>0, <1>2, <2>1, <2>2, <2>5, BeginKept
  <2>. QED
    BY <1>0, <1>1, <2>1, <2>6
<1>4. CASE Poll
  <2>1. Pop("swarm") /\ todo' = todo /\ UNCHANGED <<kind, line, events>>
    BY <1>4 DEF Poll
  <2>2. \A b \in Actor, d \in Channel : IsParked(b, d)' => IsParked(b, d)
    BY <1>0, <1>2, <2>1
  <2>3. \A l, b : (Asks(b, l)' <=> Asks(b, l)) /\ Ahead(b, l)' = Ahead(b, l)
    BY <2>1 DEF Asks, Ahead
  <2>4. \A b \in Actor : Alone(b)
    BY <2>1, <2>2, <2>3 DEF Alone
  <2>5. \A b \in Actor : CodeOK(b)' /\ RestOf(b)'
    <3>1. \A b \in Actor : CodeOK(b) /\ HasRest
      BY DEF IInv, LinesOK
    <3>. QED
      BY <2>1, <2>4, <3>1, AloneKeeps DEF RestOf
  <2>6. (\A b \in Actor : CodeOK(b))' /\ HasRest'
    BY <2>5 DEF HasRest, RestOf
  <2>7. todo' \in [Actor -> Seq(Steps(kind))]
    BY <1>0, <2>1 DEF TypeInv
  <2>. QED
    BY <1>0, <1>1, <2>1, <2>6, <2>7
<1>5. ASSUME NEW r \in Run, Execute(r) PROVE IInv'
  <2>1. Idle(r) /\ Pop("runner") /\ UNCHANGED <<kind, line, events>>
    BY <1>5 DEF Execute
  <2>2. PICK p \in handle_runner : todo' = [todo EXCEPT ![r] = p]
    BY <1>5 DEF Execute
  <2>3. r \notin {"tick", "consumer", "swarm"}
    BY LocksAssumption
  <2>4. Program(r, p)
    BY <1>0, <2>3, OtherPrograms, SendsProgram
  <2>5. todo' \in [Actor -> Seq(Steps(kind))] /\ (\A b \in Actor : CodeOK(b))' /\ HasRest'
    BY <1>0, <1>2, <2>1, <2>2, <2>4, BeginKept
  <2>. QED
    BY <1>0, <1>1, <2>1, <2>5
<1>. QED
  BY <1>3, <1>4, <1>5, StepKept DEF Inside

LEMMA UnchangedKept == IInv /\ UNCHANGED vars => IInv'
<1>. SUFFICES ASSUME IInv, UNCHANGED vars PROVE IInv'
  OBVIOUS
<1>1. UNCHANGED <<kind, todo, line, queue, parked, events>>
  BY DEF vars
<1>2. \A l, b : (Asks(b, l)' <=> Asks(b, l)) /\ Ahead(b, l)' = Ahead(b, l)
  BY <1>1 DEF Asks, Ahead
<1>3. \A b, d : IsParked(b, d)' <=> IsParked(b, d)
  BY <1>1 DEF IsParked
<1>4. \A b \in Actor : Alone(b)
  BY <1>1, <1>2, <1>3 DEF Alone
<1>5. \A b \in Actor : CodeOK(b)' /\ RestOf(b)'
  <2>1. \A b \in Actor : CodeOK(b) /\ HasRest
    BY DEF IInv, LinesOK
  <2>. QED
    BY <1>1, <1>4, <2>1, AloneKeeps DEF RestOf
<1>6. (\A b \in Actor : CodeOK(b))' /\ HasRest'
  BY <1>5 DEF HasRest, RestOf
<1>7. TypeInv' /\ RoomOK' /\ OnceOK' /\ ParkedOnce'
  BY <1>1, <1>3 DEF IInv, LinesOK, TypeInv, RoomOK, OnceOK, ParkedOnce
<1>. QED
  BY <1>6, <1>7 DEF IInv, LinesOK

LEMMA InitKept == Init => IInv
<1>. SUFFICES ASSUME Init PROVE IInv
  OBVIOUS
<1>1. /\ kind \in {"oracle", "manager", "worker"} /\ events = 0
      /\ todo = [a \in Actor |-> <<>>] /\ line = [l \in LockName |-> <<>>]
      /\ queue = [c \in Channel |-> <<>>] /\ parked = [c \in Channel |-> <<>>]
  BY DEF Init, LockName
<1>2. /\ \A S : <<>> \in Seq(S)
      /\ DOMAIN <<>> = {} /\ Len(<<>>) = 0
  OBVIOUS
<1>3. TypeInv /\ RoomOK
  <2>1. "inner" \in Channel
    BY DEF Channel
  <2>2. events \in 0..MaxEvents /\ ChannelSize \in Nat
    BY <1>1, LocksAssumption
  <2>. QED
    BY <1>1, <1>2, <2>1, <2>2 DEF TypeInv, RoomOK
<1>4. (\A a, l : l \in LockName => ~Asks(a, l)) /\ (\A a, c : c \in Channel => ~IsParked(a, c))
  BY <1>1, <1>2 DEF Asks, IsParked
<1>5. LinesOK
  BY <1>1, <1>2, <1>4 DEF LinesOK, OnceOK, HasRest, ParkedOnce
<1>6. /\ "tick" \in Actor /\ "consumer" \in Actor /\ "swarm" \in Actor
      /\ "workers" \in LockName /\ "shared_state" \in LockName /\ "inner" \in Channel /\ "swarm" \in Channel
  BY DEF Actor, LockName, Channel
<1>7. ASSUME NEW a \in Actor, NEW h PROVE StandsFor(a, h)
  BY <1>1, <1>2, <1>4 DEF StandsFor, Footprint
<1>8. TickOK /\ ConsumerOK
  BY <1>1, <1>2, <1>4, <1>6, <1>7 DEF TickOK, ConsumerOK, IsParkedSomewhere
<1>9. SwarmOK
  <2>1. Nested(<<>>, Asks("swarm", "workers"), Asks("swarm", "shared_state"))
    BY <1>2, <1>4, <1>6 DEF Nested
  <2>. QED
    BY <1>1, <1>2, <1>4, <1>6, <2>1 DEF SwarmOK
<1>10. \A a \in Actor : OnlySends(a)
  BY <1>1, <1>2, <1>4 DEF OnlySends
<1>. QED
  BY <1>3, <1>5, <1>8, <1>9, <1>10 DEF IInv, CodeOK

(* The invariant holds in every state. *)
THEOREM Invariance == Spec => []IInv
<1>1. Init => IInv
  BY InitKept
<1>2. IInv /\ [Next]_vars => IInv'
  BY OutsideKept, InsideKept, UnchangedKept DEF Next
<1>. QED
  BY <1>1, <1>2, PTL DEF Spec

(* A channel holds at most one message more than its size for each sender   *)
(* that waits, and a handler stands once in the line of a lock.             *)
THEOREM LocksTyped == Spec => []TypeOK
<1>1. IInv => TypeOK
  BY DEF IInv, TypeInv, LinesOK, RoomOK, OnceOK, TypeOK, LockName
<1>. QED
  BY <1>1, Invariance, PTL

(* Whatever the bounds, the handlers of a node can only wait for each other *)
(* in the four ways the model names.                                        *)
THEOREM DeadlocksForeseen == Spec => []OnlyForeseenDeadlocks
  BY Foreseen, Invariance, PTL
==============================================================================

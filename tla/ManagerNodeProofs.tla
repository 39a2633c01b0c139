--------------------------- MODULE ManagerNodeProofs ---------------------------
(***************************************************************************)
(* Proofs about the node around the oracle engine: that it runs the engine *)
(* and nothing else, the type of its table and of its channel, and how the *)
(* slots of the workers follow the replicas of the engine.                 *)
(***************************************************************************)
EXTENDS ManagerNode, ContractProofs, SumTheorems, SequenceTheorems

------------------------------------------------------------------------------
(* Folds on sequences: a fold is the last value of a run along the sequence *)

LEMMA GreatestIn ==
    ASSUME NEW n \in Nat, NEW s \in SUBSET (1..n), s # {}
    PROVE  Max(s) \in s /\ \A y \in s : y <= Max(s)
<1>. DEFINE Good == {m \in Nat : \A r \in SUBSET (1..m) :
                                    r # {} => \E x \in r : \A y \in r : x >= y}
<1>1. 0 \in Good
  <2>1. 1..0 = {}
    OBVIOUS
  <2>. QED
    BY <2>1
<1>2. ASSUME NEW m \in Good, m \in Nat PROVE m + 1 \in Good
  <2>. SUFFICES ASSUME NEW r \in SUBSET (1..(m + 1)), r # {}
                PROVE  \E x \in r : \A y \in r : x >= y
    BY <1>2
  <2>1. CASE m + 1 \in r
    BY <1>2, <2>1
  <2>2. CASE m + 1 \notin r
    <3>1. r \in SUBSET (1..m)
      BY <1>2, <2>2
    <3>. QED
      BY <1>2, <3>1
  <2>. QED
    BY <2>1, <2>2
<1>3. n \in Good
  <2>. HIDE DEF Good
  <2>. QED
    BY <1>1, <1>2, NumberInduction
<1>. QED
  BY <1>3 DEF Max

LEMMA GreatestOfInterval ==
    ASSUME NEW i \in Nat, i # 0
    PROVE  Max(1..i) = i /\ (1..i) \ {i} = 1..(i - 1)
  BY DEF Max

(* The recursive function behind a fold exists, whatever set its values are *)
(* in and whatever each index does to them.                                 *)
Iterates(it, base, step, n) ==
    \A s \in SUBSET (1..n) :
        it[s] = IF s = {} THEN base ELSE step[Max(s)][it[s \ {Max(s)}]]

LEMMA SomethingIterates ==
    ASSUME NEW n \in Nat, NEW A, NEW base \in A, NEW step \in [1..n -> [A -> A]]
    PROVE  \E it \in [SUBSET (1..n) -> A] : Iterates(it, base, step, n)
<1>. DEFINE D == 1..n
            Step(g, s) == IF s = {} THEN base ELSE step[Max(s)][g[s \ {Max(s)}]]
            UpTo(g, m) == \A s \in SUBSET D : Cardinality(s) <= m => g[s] = Step(g, s)
            Reached == {m \in Nat : \E g \in [SUBSET D -> A] : UpTo(g, m)}
<1>0. \A s \in SUBSET D : IsFiniteSet(s) /\ Cardinality(s) \in Nat /\ Cardinality(s) <= n
  <2>1. IsFiniteSet(D) /\ Cardinality(D) = n
    BY FS_Interval
  <2>. HIDE DEF D
  <2>2. \A s \in SUBSET D : IsFiniteSet(s) /\ Cardinality(s) <= n
    BY <2>1, FS_Subset
  <2>. QED
    BY <2>2, FS_CardinalityType
<1>01. \A s \in SUBSET D : s # {} =>
          /\ Max(s) \in 1..n /\ s \ {Max(s)} \in SUBSET D
          /\ Cardinality(s \ {Max(s)}) = Cardinality(s) - 1
  <2>. SUFFICES ASSUME NEW s \in SUBSET D, s # {}
                PROVE  /\ Max(s) \in 1..n /\ s \ {Max(s)} \in SUBSET D
                       /\ Cardinality(s \ {Max(s)}) = Cardinality(s) - 1
    OBVIOUS
  <2>1. Max(s) \in s
    BY GreatestIn
  <2>. QED
    BY <1>0, <2>1, FS_RemoveElement
<1>1. 0 \in Reached
  <2>1. \A s \in SUBSET D : Cardinality(s) <= 0 => s = {}
    BY <1>0, FS_EmptySet
  <2>2. UpTo([s \in SUBSET D |-> base], 0)
    BY <2>1
  <2>. QED
    BY <2>2
<1>2. ASSUME NEW m \in Reached, m \in Nat PROVE m + 1 \in Reached
  <2>1. PICK g \in [SUBSET D -> A] : UpTo(g, m)
    BY <1>2
  <2>. DEFINE h == [s \in SUBSET D |-> Step(g, s)]
  <2>2. h \in [SUBSET D -> A]
    <3>1. ASSUME NEW s \in SUBSET D, s # {} PROVE step[Max(s)][g[s \ {Max(s)}]] \in A
      <4>1. /\ Max(s) \in 1..n /\ s \ {Max(s)} \in SUBSET D
        BY <1>01, <3>1
      <4>. QED
        BY <4>1
    <3>. QED
      BY <3>1
  <2>3. UpTo(h, m + 1)
    <3>. SUFFICES ASSUME NEW s \in SUBSET D, Cardinality(s) <= m + 1, s # {}
                  PROVE  g[s \ {Max(s)}] = h[s \ {Max(s)}]
      OBVIOUS
    <3>. DEFINE r == s \ {Max(s)}
    <3>1. r \in SUBSET D /\ Cardinality(r) <= m
      <4>1. r \in SUBSET D /\ Cardinality(r) = Cardinality(s) - 1
        BY <1>01
      <4>2. Cardinality(s) \in Nat
        BY <1>0
      <4>. QED
        BY <1>2, <4>1, <4>2
    <3>2. g[r] = Step(g, r)
      BY <2>1, <3>1
    <3>. QED
      BY <3>1, <3>2
  <2>. HIDE DEF UpTo, h
  <2>. QED
    BY <1>2, <2>2, <2>3
<1>3. n \in Reached
  <2>. HIDE DEF Reached
  <2>. QED
    BY <1>1, <1>2, NumberInduction
<1>4. PICK g \in [SUBSET D -> A] : UpTo(g, n)
  BY <1>3
<1>. QED
  BY <1>0, <1>4 DEF Iterates

LEMMA IndexInduction ==
    ASSUME NEW n \in Nat, NEW Good, 0 \in Good, \A i \in 1..n : i - 1 \in Good => i \in Good
    PROVE  0..n \subseteq Good
<1>. DEFINE Fine == {i \in Nat : i <= n => i \in Good}
<1>1. 0 \in Fine
  OBVIOUS
<1>2. ASSUME NEW i \in Fine, i \in Nat PROVE i + 1 \in Fine
  <2>. SUFFICES ASSUME i + 1 <= n PROVE i + 1 \in Good
    BY <1>2
  <2>1. i + 1 \in 1..n /\ (i + 1) - 1 = i /\ i \in Good
    BY <1>2
  <2>. QED
    BY <2>1
<1>3. Nat \subseteq Fine
  <2>. HIDE DEF Fine
  <2>. QED
    BY <1>1, <1>2, NumberInduction
<1>. QED
  BY <1>3

(* What the events of a channel make of a count *)
Left(n, q, w, t) == FoldLeft(LAMBDA m, e : Handled(m, e, w, t), n, q)

EventSteps(it, n, q, w, t) ==
    it = [s \in SUBSET DOMAIN q |->
            IF s = {} THEN n ELSE Handled(it[s \ {Max(s)}], q[Max(s)], w, t)]

LEMMA HandledIs ==
    ASSUME NEW n \in Nat, NEW e, NEW w, NEW t
    PROVE  /\ Handled(n, e, w, t) \in Nat
           /\ e = AssignedE(t, w) => Handled(n, e, w, t) = n + 1
           /\ e = UnassignedE(t, w) => Handled(n, e, w, t) = IF n > 0 THEN n - 1 ELSE 0
           /\ e \notin {AssignedE(t, w), UnassignedE(t, w)} => Handled(n, e, w, t) = n
<1>1. AssignedE(t, w) # UnassignedE(t, w)
  BY DEF AssignedE, UnassignedE
<1>. QED
  BY <1>1 DEF Handled

Runs(h, n, q, w, t) ==
    /\ h \in [0..Len(q) -> Nat] /\ h[0] = n
    /\ \A i \in 1..Len(q) : h[i] = Handled(h[i - 1], q[i], w, t)

LEMMA EventsRun ==
    ASSUME NEW n \in Nat, NEW S, NEW q \in Seq(S), NEW w, NEW t
    PROVE  \E h : Runs(h, n, q, w, t) /\ Left(n, q, w, t) = h[Len(q)]
<1>. DEFINE l == Len(q)
            step == [i \in 1..l |-> [m \in Nat |-> Handled(m, q[i], w, t)]]
            it == CHOOSE it : EventSteps(it, n, q, w, t)
            h == [i \in 0..l |-> it[1..i]]
<1>1. l \in Nat /\ DOMAIN q = 1..l
  OBVIOUS
<1>. HIDE DEF l
<1>2. step \in [1..l -> [Nat -> Nat]]
  BY HandledIs
<1>3. PICK g \in [SUBSET (1..l) -> Nat] : Iterates(g, n, step, l)
  <2>. HIDE DEF step
  <2>. QED
    BY <1>1, <1>2, SomethingIterates
<1>4. \A s \in SUBSET (1..l) :
         g[s] = IF s = {} THEN n ELSE Handled(g[s \ {Max(s)}], q[Max(s)], w, t)
  <2>. SUFFICES ASSUME NEW s \in SUBSET (1..l), s # {}
                PROVE  g[s] = Handled(g[s \ {Max(s)}], q[Max(s)], w, t)
    BY <1>3 DEF Iterates
  <2>1. Max(s) \in 1..l
    BY <1>1, GreatestIn
  <2>2. g[s \ {Max(s)}] \in Nat
    OBVIOUS
  <2>. QED
    BY <1>3, <2>1, <2>2 DEF Iterates
<1>5. EventSteps(g, n, q, w, t)
  BY <1>1, <1>4 DEF EventSteps
<1>6. EventSteps(it, n, q, w, t)
  BY <1>5
<1>. HIDE DEF it
<1>7. h[0] = n
  BY <1>1, <1>6 DEF EventSteps
<1>8. ASSUME NEW i \in 1..l PROVE h[i] = Handled(h[i - 1], q[i], w, t)
  <2>1. Max(1..i) = i /\ (1..i) \ {i} = 1..(i - 1) /\ i - 1 \in 0..l
    BY <1>1, GreatestOfInterval
  <2>2. 1..i \in SUBSET (1..l) /\ 1..i # {}
    BY <1>1
  <2>3. it[1..i] = Handled(it[(1..i) \ {Max(1..i)}], q[Max(1..i)], w, t)
    BY <1>1, <1>6, <2>2 DEF EventSteps
  <2>4. h[i] = it[1..i] /\ h[i - 1] = it[1..(i - 1)]
    BY <1>1, <2>1
  <2>. QED
    BY <2>1, <2>3, <2>4
<1>9. \A i \in 0..l : h[i] \in Nat
  <2>. DEFINE Good == {i \in 0..l : h[i] \in Nat}
  <2>1. 0 \in Good
    BY <1>1, <1>7
  <2>2. ASSUME NEW i \in 1..l, i - 1 \in Good PROVE i \in Good
    <3>. HIDE DEF h
    <3>. QED
      BY <1>1, <1>8, <2>2, HandledIs
  <2>. HIDE DEF Good
  <2>3. 0..l \subseteq Good
    BY <1>1, <2>1, <2>2, IndexInduction
  <2>. QED
    BY <2>3 DEF Good
<1>10. Left(n, q, w, t) = h[l]
  <2>1. Left(n, q, w, t) = it[DOMAIN q]
    BY DEF Left, FoldLeft, MapThenFoldSet, EventSteps, it
  <2>. QED
    BY <1>1, <2>1
<1>11. h \in [0..l -> Nat]
  BY <1>9
<1>. HIDE DEF h
<1>12. Runs(h, n, q, w, t)
  BY <1>7, <1>8, <1>11 DEF Runs, l
<1>. QED
  BY <1>10, <1>12 DEF l

(* Two runs along the same events keep the order they start in. *)
LEMMA RunsOrdered ==
    ASSUME NEW w, NEW t, NEW S, NEW q \in Seq(S), NEW m \in Nat, NEW n \in Nat, m <= n,
           NEW g, Runs(g, m, q, w, t), NEW h, Runs(h, n, q, w, t)
    PROVE  \A i \in 0..Len(q) : g[i] <= h[i]
<1>. DEFINE l == Len(q)
            Good == {i \in 0..l : g[i] <= h[i]}
<1>0. l \in Nat /\ g \in [0..l -> Nat] /\ h \in [0..l -> Nat] /\ g[0] = m /\ h[0] = n
  BY DEF Runs
<1>1. ASSUME NEW i \in 1..l, i - 1 \in Good PROVE i \in Good
  <2>1. /\ g[i - 1] \in Nat /\ h[i - 1] \in Nat /\ g[i - 1] <= h[i - 1]
        /\ g[i] = Handled(g[i - 1], q[i], w, t) /\ h[i] = Handled(h[i - 1], q[i], w, t)
    BY <1>0, <1>1 DEF Runs
  <2>2. Handled(g[i - 1], q[i], w, t) <= Handled(h[i - 1], q[i], w, t)
    <3>. DEFINE a == g[i - 1]
                b == h[i - 1]
                e == q[i]
    <3>1. a \in Nat /\ b \in Nat /\ a <= b
      BY <2>1
    <3>. HIDE DEF a, b, e
    <3>2. Handled(a, e, w, t) <= Handled(b, e, w, t)
      <4>1. CASE e = AssignedE(t, w)
        BY <3>1, <4>1, HandledIs
      <4>2. CASE e = UnassignedE(t, w)
        BY <3>1, <4>2, HandledIs
      <4>3. CASE e \notin {AssignedE(t, w), UnassignedE(t, w)}
        BY <3>1, <4>3, HandledIs
      <4>. QED
        BY <4>1, <4>2, <4>3
    <3>. QED
      BY <3>2 DEF a, b, e
  <2>. QED
    BY <2>1, <2>2
<1>2. 0 \in Good
  BY <1>0
<1>3. 0..l \subseteq Good
  <2>. HIDE DEF Good, l
  <2>. QED
    BY <1>0, <1>1, <1>2, IndexInduction
<1>. QED
  BY <1>3

LEMMA LeftType ==
    ASSUME NEW n \in Nat, NEW S, NEW q \in Seq(S), NEW w, NEW t
    PROVE  Left(n, q, w, t) \in Nat
<1>1. PICK h : Runs(h, n, q, w, t) /\ Left(n, q, w, t) = h[Len(q)]
  BY EventsRun
<1>2. Len(q) \in 0..Len(q)
  OBVIOUS
<1>. QED
  BY <1>1, <1>2 DEF Runs

(* A run along a sequence is one along each of its prefixes. *)
LEMMA LeftPrefix ==
    ASSUME NEW n \in Nat, NEW S, NEW q \in Seq(S), NEW r \in Seq(S), NEW w, NEW t,
           Len(q) <= Len(r), \A i \in 1..Len(q) : q[i] = r[i],
           NEW h, Runs(h, n, r, w, t)
    PROVE  Left(n, q, w, t) = h[Len(q)]
<1>1. PICK g : Runs(g, n, q, w, t) /\ Left(n, q, w, t) = g[Len(q)]
  BY EventsRun
<1>. DEFINE l == Len(q)
            k == [i \in 0..l |-> h[i]]
<1>2. /\ l \in Nat /\ Len(r) \in Nat /\ l <= Len(r)
      /\ h \in [0..Len(r) -> Nat] /\ h[0] = n
      /\ \A i \in 1..Len(r) : h[i] = Handled(h[i - 1], r[i], w, t)
  BY DEF Runs
<1>3. k \in [0..l -> Nat] /\ k[0] = n /\ k[l] = h[l]
  <2>. HIDE DEF l
  <2>1. 0 \in 0..l /\ l \in 0..l /\ \A i \in 0..l : i \in 0..Len(r)
    BY <1>2
  <2>2. \A i \in 0..l : k[i] = h[i] /\ h[i] \in Nat
    BY <1>2, <2>1
  <2>. QED
    BY <1>2, <2>1, <2>2
<1>4. ASSUME NEW i \in 1..l PROVE k[i] = Handled(k[i - 1], q[i], w, t)
  <2>1. i \in 1..Len(r) /\ i - 1 \in 0..l /\ i \in 0..l
    BY <1>2
  <2>2. k[i] = h[i] /\ k[i - 1] = h[i - 1] /\ q[i] = r[i]
    BY <2>1
  <2>. QED
    BY <1>2, <2>1, <2>2
<1>. HIDE DEF k
<1>5. Runs(k, n, q, w, t)
  BY <1>3, <1>4 DEF Runs
<1>6. \A i \in 0..l : g[i] <= k[i] /\ k[i] <= g[i]
  BY <1>1, <1>5, RunsOrdered
<1>7. l \in 0..l /\ g[l] \in Nat /\ k[l] \in Nat
  BY <1>1, <1>2, <1>3 DEF Runs
<1>. HIDE DEF l
<1>8. g[l] = k[l]
  BY <1>6, <1>7
<1>. QED
  BY <1>1, <1>3, <1>8 DEF l

LEMMA LeftOfNothing ==
    ASSUME NEW n \in Nat, NEW w, NEW t
    PROVE  Left(n, <<>>, w, t) = n
<1>1. <<>> \in Seq({}) /\ Len(<<>>) = 0
  OBVIOUS
<1>2. PICK h : Runs(h, n, <<>>, w, t) /\ Left(n, <<>>, w, t) = h[Len(<<>>)]
  BY <1>1, EventsRun
<1>. QED
  BY <1>1, <1>2 DEF Runs

(* The last event is handled last, the first one first. *)
LEMMA LeftAppend ==
    ASSUME NEW n \in Nat, NEW S, NEW q \in Seq(S), NEW e \in S, NEW w, NEW t
    PROVE  Left(n, Append(q, e), w, t) = Handled(Left(n, q, w, t), e, w, t)
<1>. DEFINE r == Append(q, e)
<1>1. /\ r \in Seq(S) /\ Len(r) = Len(q) + 1 /\ r[Len(r)] = e /\ Len(q) \in Nat
      /\ \A i \in 1..Len(q) : q[i] = r[i]
  OBVIOUS
<1>. HIDE DEF r
<1>2. PICK h : Runs(h, n, r, w, t) /\ Left(n, r, w, t) = h[Len(r)]
  BY <1>1, EventsRun
<1>3. Left(n, q, w, t) = h[Len(q)]
  BY <1>1, <1>2, LeftPrefix
<1>4. h[Len(r)] = Handled(h[Len(q)], e, w, t)
  <2>1. Len(r) \in 1..Len(r) /\ Len(r) - 1 = Len(q)
    BY <1>1
  <2>. QED
    BY <1>1, <1>2, <2>1 DEF Runs
<1>. QED
  BY <1>2, <1>3, <1>4 DEF r

LEMMA LeftTail ==
    ASSUME NEW n \in Nat, NEW S, NEW q \in Seq(S), q # <<>>, NEW w, NEW t
    PROVE  Left(n, q, w, t) = Left(Handled(n, Head(q), w, t), Tail(q), w, t)
<1>. DEFINE r == Tail(q)
<1>1. /\ r \in Seq(S) /\ Len(r) + 1 = Len(q) /\ Len(r) \in Nat
      /\ Head(q) = q[1] /\ \A i \in 1..Len(r) : r[i] = q[i + 1]
  OBVIOUS
<1>. HIDE DEF r
<1>2. PICK h : Runs(h, n, q, w, t) /\ Left(n, q, w, t) = h[Len(q)]
  BY EventsRun
<1>. DEFINE k == [i \in 0..Len(r) |-> h[i + 1]]
            m == Handled(n, Head(q), w, t)
<1>3. k \in [0..Len(r) -> Nat] /\ k[Len(r)] = h[Len(q)]
  BY <1>1, <1>2 DEF Runs
<1>4. k[0] = m
  <2>1. 1 \in 1..Len(q) /\ 1 - 1 = 0 /\ k[0] = h[1]
    BY <1>1
  <2>. QED
    BY <1>1, <1>2, <2>1 DEF Runs
<1>5. ASSUME NEW i \in 1..Len(r) PROVE k[i] = Handled(k[i - 1], r[i], w, t)
  <2>1. i + 1 \in 1..Len(q) /\ (i + 1) - 1 = i /\ r[i] = q[i + 1]
    BY <1>1
  <2>2. k[i] = h[i + 1] /\ k[i - 1] = h[i]
    BY <1>1
  <2>. QED
    BY <1>2, <2>1, <2>2 DEF Runs
<1>6. m \in Nat
  BY HandledIs
<1>. HIDE DEF k, m
<1>7. Runs(k, m, r, w, t)
  BY <1>3, <1>4, <1>5 DEF Runs
<1>8. Left(m, r, w, t) = k[Len(r)]
  BY <1>1, <1>6, <1>7, LeftPrefix
<1>. QED
  BY <1>2, <1>3, <1>8 DEF r, m

LEMMA LeftMonotone ==
    ASSUME NEW m \in Nat, NEW n \in Nat, m <= n, NEW S, NEW q \in Seq(S), NEW w, NEW t
    PROVE  Left(m, q, w, t) <= Left(n, q, w, t)
<1>1. PICK g : Runs(g, m, q, w, t) /\ Left(m, q, w, t) = g[Len(q)]
  BY EventsRun
<1>2. PICK h : Runs(h, n, q, w, t) /\ Left(n, q, w, t) = h[Len(q)]
  BY EventsRun
<1>3. Len(q) \in 0..Len(q)
  OBVIOUS
<1>. QED
  BY <1>1, <1>2, <1>3, RunsOrdered

(* Messages that are no events of t and w do not change the count. *)
LEMMA LeftOfOthers ==
    ASSUME NEW n \in Nat, NEW S, NEW q \in Seq(S), NEW r \in Seq(S), NEW w, NEW t,
           \A i \in DOMAIN r : r[i] \notin {AssignedE(t, w), UnassignedE(t, w)}
    PROVE  Left(n, q \o r, w, t) = Left(n, q, w, t)
<1>. DEFINE both == q \o r
            k == Len(q)
            l == Len(r)
<1>1. /\ both \in Seq(S) /\ Len(both) = k + l /\ k \in Nat /\ l \in Nat
      /\ \A i \in 1..k : q[i] = both[i]
      /\ \A i \in 1..l : both[k + i] = r[i] /\ i \in DOMAIN r
  OBVIOUS
<1>. HIDE DEF both
<1>0. both \in Seq(S)
  BY <1>1
<1>2. PICK h : Runs(h, n, both, w, t) /\ Left(n, both, w, t) = h[Len(both)]
  BY <1>0, EventsRun
<1>3. Left(n, q, w, t) = h[k]
  <2>1. Len(q) <= Len(both) /\ \A i \in 1..Len(q) : q[i] = both[i]
    BY <1>1
  <2>2. both \in Seq(S) /\ Runs(h, n, both, w, t)
    BY <1>1, <1>2
  <2>. QED
    BY <2>1, <2>2, LeftPrefix
<1>. DEFINE Good == {i \in 0..l : h[k + i] = h[k]}
<1>4. 0 \in Good
  BY <1>1
<1>5. ASSUME NEW i \in 1..l, i - 1 \in Good PROVE i \in Good
  <2>1. /\ k + i \in 1..Len(both) /\ (k + i) - 1 = k + (i - 1) /\ k \in 0..Len(both)
        /\ both[k + i] = r[i] /\ i \in DOMAIN r
    BY <1>1
  <2>2. h[k + i] = Handled(h[k], r[i], w, t) /\ h[k] \in Nat
    BY <1>2, <1>5, <2>1 DEF Runs
  <2>3. h[k + i] = h[k]
    BY <2>1, <2>2, HandledIs
  <2>. QED
    BY <1>1, <2>3
<1>6. 0..l \subseteq Good
  <2>. HIDE DEF Good
  <2>. QED
    BY <1>1, <1>4, <1>5, IndexInduction
<1>7. h[k + l] = h[k]
  <2>1. l \in 0..l
    BY <1>1
  <2>2. \A i \in Good : h[k + i] = h[k]
    OBVIOUS
  <2>. HIDE DEF Good
  <2>. QED
    BY <1>6, <2>1, <2>2
<1>. QED
  BY <1>1, <1>2, <1>3, <1>7 DEF both

(* The last event of a channel about t and w takes the slot back. *)
TakenBack(q, w, t) ==
    \E i \in DOMAIN q :
        /\ q[i] = UnassignedE(t, w)
        /\ \A j \in DOMAIN q : j > i => q[j] # AssignedE(t, w)

(* A slot that is held is left, unless it is taken back last. *)
LEMMA LeftUnlessTakenBack ==
    ASSUME NEW n \in Nat, n >= 1, NEW S, NEW q \in Seq(S), NEW w, NEW t
    PROVE  Left(n, q, w, t) >= 1 \/ TakenBack(q, w, t)
<1>. DEFINE l == Len(q)
            Back(k) == \E i \in 1..k : /\ q[i] = UnassignedE(t, w)
                                       /\ \A j \in 1..k : j > i => q[j] # AssignedE(t, w)
<1>1. PICK h : Runs(h, n, q, w, t) /\ Left(n, q, w, t) = h[l]
  BY EventsRun
<1>2. /\ l \in Nat /\ DOMAIN q = 1..l /\ h[0] = n /\ \A i \in 0..l : h[i] \in Nat
      /\ \A i \in 1..l : h[i] = Handled(h[i - 1], q[i], w, t)
  BY <1>1 DEF Runs
<1>. HIDE DEF l
<1>. DEFINE Good == {k \in 0..l : h[k] >= 1 \/ Back(k)}
<1>3. 0 \in Good
  BY <1>2
<1>4. ASSUME NEW k \in 1..l, k - 1 \in Good PROVE k \in Good
  <2>1. /\ h[k - 1] \in Nat /\ h[k] = Handled(h[k - 1], q[k], w, t) /\ k \in 0..l
        /\ k \in 1..k /\ k \in Nat /\ 1..k = (1..(k - 1)) \cup {k}
    BY <1>2
  <2>2. CASE q[k] = AssignedE(t, w)
    BY <2>1, <2>2, HandledIs
  <2>3. CASE q[k] = UnassignedE(t, w)
    <3>1. Back(k)
      BY <2>1, <2>3
    <3>. QED
      BY <2>1, <3>1
  <2>4. CASE q[k] \notin {AssignedE(t, w), UnassignedE(t, w)}
    <3>1. h[k] = h[k - 1]
      BY <2>1, <2>4, HandledIs
    <3>2. Back(k - 1) => Back(k)
      BY <2>1, <2>4
    <3>3. h[k - 1] >= 1 \/ Back(k - 1)
      BY <1>4
    <3>. QED
      BY <2>1, <3>1, <3>2, <3>3
  <2>. QED
    BY <2>2, <2>3, <2>4
<1>5. 0..l \subseteq Good
  <2>. HIDE DEF Good
  <2>. QED
    BY <1>2, <1>3, <1>4, IndexInduction
<1>6. l \in Good
  BY <1>2, <1>5
<1>. QED
  BY <1>1, <1>2, <1>6 DEF TakenBack

------------------------------------------------------------------------------
(* The elements Those keeps are the ones wanted, all of them. *)

KeepSteps(it, seq, wanted) ==
    it = [s \in SUBSET DOMAIN seq |->
            IF s = {} THEN <<>>
            ELSE IF seq[Max(s)] \in wanted THEN Append(it[s \ {Max(s)}], seq[Max(s)])
                                           ELSE it[s \ {Max(s)}]]

Wanted(S, seq, wanted) == {x \in S : x \in wanted /\ \E i \in DOMAIN seq : seq[i] = x}

LEMMA ThoseKept ==
    ASSUME NEW S, NEW seq \in Seq(S), NEW wanted
    PROVE  /\ Those(seq, wanted) \in Seq(Wanted(S, seq, wanted))
           /\ \A i \in DOMAIN seq : seq[i] \in wanted =>
                 \E j \in DOMAIN Those(seq, wanted) : Those(seq, wanted)[j] = seq[i]
<1>. DEFINE l == Len(seq)
            W == Wanted(S, seq, wanted)
            step == [i \in 1..l |-> [some \in Seq(W) |->
                       IF seq[i] \in wanted THEN Append(some, seq[i]) ELSE some]]
            it == CHOOSE it : KeepSteps(it, seq, wanted)
            h == [i \in 0..l |-> it[1..i]]
<1>1. l \in Nat /\ DOMAIN seq = 1..l
  OBVIOUS
<1>2. \A i \in 1..l : seq[i] \in wanted => seq[i] \in W
  BY DEF Wanted
<1>. HIDE DEF l, W
<1>3. step \in [1..l -> [Seq(W) -> Seq(W)]] /\ <<>> \in Seq(W)
  BY <1>2
<1>4. PICK g \in [SUBSET (1..l) -> Seq(W)] : Iterates(g, <<>>, step, l)
  <2>. HIDE DEF step
  <2>. QED
    BY <1>1, <1>3, SomethingIterates
<1>5. \A s \in SUBSET (1..l) :
         g[s] = IF s = {} THEN <<>>
                ELSE IF seq[Max(s)] \in wanted THEN Append(g[s \ {Max(s)}], seq[Max(s)])
                                               ELSE g[s \ {Max(s)}]
  <2>. SUFFICES ASSUME NEW s \in SUBSET (1..l), s # {}
                PROVE  g[s] = IF seq[Max(s)] \in wanted
                              THEN Append(g[s \ {Max(s)}], seq[Max(s)])
                              ELSE g[s \ {Max(s)}]
    BY <1>4 DEF Iterates
  <2>1. Max(s) \in 1..l
    BY <1>1, GreatestIn
  <2>2. g[s \ {Max(s)}] \in Seq(W)
    OBVIOUS
  <2>. QED
    BY <1>4, <2>1, <2>2 DEF Iterates
<1>6. KeepSteps(g, seq, wanted)
  BY <1>1, <1>5 DEF KeepSteps
<1>7. KeepSteps(it, seq, wanted)
  BY <1>6
<1>. HIDE DEF it
<1>8. h[0] = <<>>
  BY <1>1, <1>7 DEF KeepSteps
<1>9. ASSUME NEW i \in 1..l
      PROVE  h[i] = IF seq[i] \in wanted THEN Append(h[i - 1], seq[i]) ELSE h[i - 1]
  <2>1. Max(1..i) = i /\ (1..i) \ {i} = 1..(i - 1) /\ i - 1 \in 0..l
    BY <1>1, GreatestOfInterval
  <2>2. 1..i \in SUBSET (1..l) /\ 1..i # {}
    BY <1>1
  <2>3. it[1..i] = IF seq[Max(1..i)] \in wanted
                   THEN Append(it[(1..i) \ {Max(1..i)}], seq[Max(1..i)])
                   ELSE it[(1..i) \ {Max(1..i)}]
    BY <1>1, <1>7, <2>2 DEF KeepSteps
  <2>4. h[i] = it[1..i] /\ h[i - 1] = it[1..(i - 1)]
    BY <1>1, <2>1
  <2>. QED
    BY <2>1, <2>3, <2>4
<1>. HIDE DEF h
<1>. DEFINE Good == {k \in 0..l : /\ h[k] \in Seq(W)
                                  /\ \A i \in 1..k : seq[i] \in wanted =>
                                        \E j \in DOMAIN h[k] : h[k][j] = seq[i]}
<1>10. 0 \in Good
  <2>1. 0 \in 0..l /\ 1..0 = {}
    BY <1>1
  <2>. QED
    BY <1>3, <1>8, <2>1
<1>11. ASSUME NEW k \in 1..l, k - 1 \in Good PROVE k \in Good
  <2>1. k \in 0..l /\ 1..k = (1..(k - 1)) \cup {k}
    BY <1>1
  <2>. DEFINE p == h[k - 1]
  <2>2. p \in Seq(W) /\ \A i \in 1..(k - 1) : seq[i] \in wanted => \E j \in DOMAIN p : p[j] = seq[i]
    BY <1>11
  <2>3. h[k] = IF seq[k] \in wanted THEN Append(p, seq[k]) ELSE p
    BY <1>9
  <2>. HIDE DEF p
  <2>4. CASE seq[k] \in wanted
    <3>1. /\ h[k] = Append(p, seq[k]) /\ h[k] \in Seq(W)
          /\ DOMAIN h[k] = DOMAIN p \cup {Len(p) + 1} /\ h[k][Len(p) + 1] = seq[k]
          /\ \A j \in DOMAIN p : h[k][j] = p[j]
      BY <1>2, <2>2, <2>3, <2>4
    <3>. QED
      BY <2>1, <2>2, <3>1
  <2>5. CASE seq[k] \notin wanted
    BY <2>1, <2>2, <2>3, <2>5
  <2>. QED
    BY <2>4, <2>5
<1>12. 0..l \subseteq Good
  <2>. HIDE DEF Good
  <2>. QED
    BY <1>1, <1>10, <1>11, IndexInduction
<1>13. l \in Good
  BY <1>1, <1>12
<1>14. Those(seq, wanted) = it[DOMAIN seq]
  BY DEF Those, FoldLeft, MapThenFoldSet, KeepSteps, it
<1>15. Those(seq, wanted) = h[l]
  BY <1>1, <1>14 DEF h
<1>. QED
  BY <1>1, <1>13, <1>15 DEF W

------------------------------------------------------------------------------
(* The slots of a worker *)

Assignments == [1..CpuCount -> Slot]

Count(slots, t) == Cardinality({k \in 1..CpuCount : slots[k] = t})

LEMMA LeastIn ==
    ASSUME NEW n \in Nat, NEW s \in SUBSET (1..n), s # {}
    PROVE  Min(s) \in s
<1>. DEFINE Good == {m \in Nat : \A r \in SUBSET (1..m) :
                                    r # {} => \E x \in r : \A y \in r : x <= y}
<1>1. 0 \in Good
  <2>1. 1..0 = {}
    OBVIOUS
  <2>. QED
    BY <2>1
<1>2. ASSUME NEW m \in Good, m \in Nat PROVE m + 1 \in Good
  <2>. SUFFICES ASSUME NEW r \in SUBSET (1..(m + 1)), r # {}
                PROVE  \E x \in r : \A y \in r : x <= y
    BY <1>2
  <2>. DEFINE q == r \ {m + 1}
  <2>1. q \in SUBSET (1..m)
    BY <1>2
  <2>2. CASE q = {}
    BY <1>2, <2>2
  <2>3. CASE q # {}
    <3>1. PICK x \in q : \A y \in q : x <= y
      BY <2>1, <2>3
    <3>2. x \in r /\ x <= m + 1
      BY <1>2, <2>1
    <3>. QED
      BY <3>1, <3>2
  <2>. QED
    BY <2>2, <2>3
<1>3. n \in Good
  <2>. HIDE DEF Good
  <2>. QED
    BY <1>1, <1>2, NumberInduction
<1>. QED
  BY <1>3 DEF Min

LEMMA SlotsAreSequences ==
    ASSUME NEW slots \in Assignments
    PROVE  Len(slots) = CpuCount /\ CpuCount \in Nat /\ DOMAIN slots = 1..CpuCount
<1>1. CpuCount \in Nat /\ CpuCount >= 1
  BY NodeAssumption
<1>2. slots \in Seq(Slot)
  BY <1>1, SeqDef DEF Assignments
<1>3. DOMAIN slots = 1..Len(slots) /\ DOMAIN slots = 1..CpuCount /\ Len(slots) \in Nat
  BY <1>2 DEF Assignments
<1>4. CpuCount \in 1..Len(slots) /\ Len(slots) \in 1..CpuCount
  <2>1. CpuCount \in 1..CpuCount
    BY <1>1
  <2>2. CpuCount \in 1..Len(slots)
    BY <1>3, <2>1
  <2>3. Len(slots) \in 1..Len(slots)
    BY <1>1, <1>3, <2>2
  <2>. QED
    BY <1>3, <2>2, <2>3
<1>5. Len(slots) \in Nat
  BY <1>3
<1>6. Len(slots) = CpuCount
  BY <1>1, <1>4, <1>5
<1>. QED
  BY <1>1, <1>3, <1>6

LEMMA FirstSlot ==
    ASSUME NEW slots \in Assignments, NEW v, NEW u, Has(slots, v)
    PROVE  \E k \in 1..CpuCount : slots[k] = v /\ SetFirst(slots, v, u) = [slots EXCEPT ![k] = u]
<1>. DEFINE I == {k \in 1..CpuCount : slots[k] = v}
<1>1. I # {} /\ CpuCount \in Nat /\ Len(slots) = CpuCount
  BY SlotsAreSequences DEF Has
<1>2. Min(I) \in I
  BY <1>1, LeastIn
<1>3. SetFirst(slots, v, u) = [slots EXCEPT ![Min(I)] = u]
  BY <1>1 DEF SetFirst, SelectInSeq
<1>. QED
  BY <1>2, <1>3

LEMMA CountType ==
    ASSUME NEW slots \in Assignments, NEW t
    PROVE  Count(slots, t) \in Nat /\ (Has(slots, t) <=> Count(slots, t) >= 1)
<1>. DEFINE I == {k \in 1..CpuCount : slots[k] = t}
<1>1. CpuCount \in Nat /\ DOMAIN slots = 1..CpuCount
  BY SlotsAreSequences
<1>2. IsFiniteSet(I)
  BY <1>1, FS_Interval, FS_Subset
<1>3. Cardinality(I) \in Nat /\ (Cardinality(I) = 0 <=> I = {})
  BY <1>2, FS_CardinalityType, FS_EmptySet
<1>4. Has(slots, t) <=> I # {}
  BY <1>1 DEF Has
<1>. QED
  BY <1>3, <1>4 DEF Count

LEMMA CountOfChange ==
    ASSUME NEW slots \in Assignments, NEW k \in 1..CpuCount, NEW u \in Slot, NEW t
    PROVE  LET new == [slots EXCEPT ![k] = u] IN
           /\ new \in Assignments
           /\ slots[k] # t /\ u # t => Count(new, t) = Count(slots, t)
           /\ slots[k] # t /\ u = t => Count(new, t) = Count(slots, t) + 1
           /\ slots[k] = t /\ u # t => Count(new, t) = Count(slots, t) - 1
<1>. DEFINE new == [slots EXCEPT ![k] = u]
            I == {i \in 1..CpuCount : slots[i] = t}
            J == {i \in 1..CpuCount : new[i] = t}
<1>1. CpuCount \in Nat /\ DOMAIN slots = 1..CpuCount
  BY SlotsAreSequences
<1>2. new \in Assignments /\ new[k] = u /\ \A i \in (1..CpuCount) \ {k} : new[i] = slots[i]
  BY DEF Assignments
<1>3. IsFiniteSet(I) /\ Cardinality(I) \in Nat
  <2>1. IsFiniteSet(I)
    BY <1>1, FS_Interval, FS_Subset
  <2>. QED
    BY <2>1, FS_CardinalityType
<1>. HIDE DEF new
<1>4. CASE slots[k] # t /\ u # t
  <2>1. I = J
    BY <1>2, <1>4
  <2>. QED
    BY <1>2, <1>4, <2>1 DEF Count, new
<1>5. CASE slots[k] # t /\ u = t
  <2>1. J = I \cup {k} /\ k \notin I
    BY <1>2, <1>5
  <2>2. Cardinality(J) = Cardinality(I) + 1
    <3>. HIDE DEF I, J
    <3>. QED
      BY <1>3, <2>1, FS_AddElement
  <2>. QED
    BY <1>2, <1>5, <2>2 DEF Count, new
<1>6. CASE slots[k] = t /\ u # t
  <2>1. J = I \ {k} /\ k \in I
    BY <1>2, <1>6
  <2>2. Cardinality(J) = Cardinality(I) - 1
    <3>. HIDE DEF I, J
    <3>. QED
      BY <1>3, <2>1, FS_RemoveElement
  <2>. QED
    BY <1>2, <1>6, <2>2 DEF Count, new
<1>7. CASE slots[k] = t /\ u = t
  BY <1>2, <1>7 DEF new
<1>. QED
  BY <1>4, <1>5, <1>6, <1>7

LEMMA NoTaskIsAState == ASSUME NEW t \in Task PROVE t \notin {"Available", "Pending"}
  BY NodeAssumption

(* A slot is given to a task. *)
LEMMA CountAssigned ==
    ASSUME NEW slots \in Assignments, Has(slots, "Available") \/ Has(slots, "Pending"),
           NEW t \in Task, NEW u \in Task
    PROVE  /\ assign_slot(slots, t) \in Assignments
           /\ Count(assign_slot(slots, t), u) = IF u = t THEN Count(slots, u) + 1
                                                         ELSE Count(slots, u)
<1>1. PICK k \in 1..CpuCount : /\ slots[k] \in {"Available", "Pending"}
                               /\ assign_slot(slots, t) = [slots EXCEPT ![k] = t]
  <2>1. CASE Has(slots, "Pending")
    BY <2>1, FirstSlot DEF assign_slot
  <2>2. CASE ~Has(slots, "Pending")
    BY <2>2, FirstSlot DEF assign_slot
  <2>. QED
    BY <2>1, <2>2
<1>2. slots[k] # u /\ t \in Slot
  BY <1>1, NoTaskIsAState DEF Slot
<1>. DEFINE new == [slots EXCEPT ![k] = t]
<1>3. /\ new \in Assignments
      /\ t # u => Count(new, u) = Count(slots, u)
      /\ t = u => Count(new, u) = Count(slots, u) + 1
  BY <1>2, CountOfChange
<1>. HIDE DEF new
<1>. QED
  BY <1>1, <1>3 DEF new

(* A slot is taken back from a task, if one holds it. *)
LEMMA CountUnassigned ==
    ASSUME NEW slots \in Assignments, NEW t \in Task, NEW u \in Task
    PROVE  /\ unassign_slot(slots, t) \in Assignments
           /\ Count(unassign_slot(slots, t), u) =
                 IF u = t /\ Count(slots, t) > 0 THEN Count(slots, u) - 1 ELSE Count(slots, u)
<1>1. Count(slots, t) \in Nat /\ (Has(slots, t) <=> Count(slots, t) >= 1)
  BY CountType
<1>2. CASE Has(slots, t)
  <2>1. PICK k \in 1..CpuCount :
           slots[k] = t /\ unassign_slot(slots, t) = [slots EXCEPT ![k] = "Available"]
    BY <1>2, FirstSlot DEF unassign_slot
  <2>2. "Available" # u /\ "Available" # t /\ "Available" \in Slot
    BY NoTaskIsAState DEF Slot
  <2>. DEFINE new == [slots EXCEPT ![k] = "Available"]
  <2>3. /\ new \in Assignments
        /\ slots[k] # u => Count(new, u) = Count(slots, u)
        /\ slots[k] = u => Count(new, u) = Count(slots, u) - 1
    BY <2>2, CountOfChange
  <2>. HIDE DEF new
  <2>. QED
    BY <1>1, <1>2, <2>1, <2>3 DEF new
<1>3. CASE ~Has(slots, t)
  BY <1>1, <1>3 DEF unassign_slot
<1>. QED
  BY <1>2, <1>3

(* Reserving slots, or giving reservations back, moves no task. *)
LEMMA CountReserved ==
    ASSUME NEW slots \in Assignments
    PROVE  /\ reserve_slot(slots) \in Assignments /\ unreserve_all(slots) \in Assignments
           /\ \A u \in Task : /\ Count(reserve_slot(slots), u) = Count(slots, u)
                              /\ Count(unreserve_all(slots), u) = Count(slots, u)
<1>0. "Available" \in Slot /\ "Pending" \in Slot
  BY DEF Slot
<1>1. /\ reserve_slot(slots) \in Assignments
      /\ \A u \in Task : Count(reserve_slot(slots), u) = Count(slots, u)
  <2>1. CASE Has(slots, "Available")
    <3>1. PICK k \in 1..CpuCount :
             slots[k] = "Available" /\ reserve_slot(slots) = [slots EXCEPT ![k] = "Pending"]
      BY <2>1, FirstSlot DEF reserve_slot
    <3>. DEFINE new == [slots EXCEPT ![k] = "Pending"]
    <3>2. new \in Assignments
      BY <1>0, CountOfChange
    <3>3. ASSUME NEW u \in Task PROVE Count(new, u) = Count(slots, u)
      <4>1. slots[k] # u /\ "Pending" # u
        BY <3>1, NoTaskIsAState
      <4>. QED
        BY <1>0, <4>1, CountOfChange
    <3>. HIDE DEF new
    <3>. QED
      BY <3>1, <3>2, <3>3 DEF new
  <2>2. CASE ~Has(slots, "Available")
    BY <2>2 DEF reserve_slot
  <2>. QED
    BY <2>1, <2>2
<1>2. unreserve_all(slots) \in Assignments
  BY <1>0 DEF unreserve_all, Assignments
<1>3. ASSUME NEW u \in Task PROVE Count(unreserve_all(slots), u) = Count(slots, u)
  <2>1. {k \in 1..CpuCount : unreserve_all(slots)[k] = u} = {k \in 1..CpuCount : slots[k] = u}
    BY NoTaskIsAState, SlotsAreSequences DEF unreserve_all
  <2>. QED
    BY <2>1 DEF Count
<1>. QED
  BY <1>1, <1>2, <1>3

------------------------------------------------------------------------------
(* The table of the workers *)

Row == [peer_id : Worker, slots : Assignments]

Distinct(table) == \A i, j \in DOMAIN table : table[i].peer_id = table[j].peer_id => i = j

Listed(table, w) == \E i \in DOMAIN table : table[i].peer_id = w

PlaceIn(table, w) == SelectInSeq(table, LAMBDA x : x.peer_id = w)

CountIn(table, w, t) ==
    IF PlaceIn(table, w) # 0
    THEN Cardinality({k \in 1..CpuCount : table[PlaceIn(table, w)].slots[k] = t}) ELSE 0

LEMMA PlaceFound ==
    ASSUME NEW table \in Seq(Row), Distinct(table), NEW w
    PROVE  /\ Listed(table, w) <=> PlaceIn(table, w) # 0
           /\ \A i \in DOMAIN table : table[i].peer_id = w => PlaceIn(table, w) = i
<1>. DEFINE I == {i \in 1..Len(table) : table[i].peer_id = w}
<1>1. DOMAIN table = 1..Len(table) /\ Len(table) \in Nat
  OBVIOUS
<1>2. CASE I = {}
  BY <1>1, <1>2 DEF PlaceIn, SelectInSeq, Listed
<1>3. CASE I # {}
  <2>1. Min(I) \in I /\ PlaceIn(table, w) = Min(I)
    BY <1>1, <1>3, LeastIn DEF PlaceIn, SelectInSeq
  <2>2. /\ PlaceIn(table, w) \in DOMAIN table /\ PlaceIn(table, w) # 0
        /\ table[PlaceIn(table, w)].peer_id = w
    BY <1>1, <2>1
  <2>. QED
    BY <2>2 DEF Listed, Distinct
<1>. QED
  BY <1>2, <1>3

LEMMA CountInRow ==
    ASSUME NEW table \in Seq(Row), Distinct(table), NEW w, NEW t
    PROVE  /\ \A i \in DOMAIN table :
                 table[i].peer_id = w => CountIn(table, w, t) = Count(table[i].slots, t)
           /\ ~Listed(table, w) => CountIn(table, w, t) = 0
           /\ CountIn(table, w, t) \in Nat
<1>1. ASSUME NEW i \in DOMAIN table, table[i].peer_id = w
      PROVE  /\ CountIn(table, w, t) = Count(table[i].slots, t)
             /\ Count(table[i].slots, t) \in Nat
  <2>1. PlaceIn(table, w) = i /\ i # 0
    BY <1>1, PlaceFound
  <2>2. table[i] \in Row
    OBVIOUS
  <2>3. table[i].slots \in Assignments
    BY <2>2 DEF Row
  <2>. QED
    BY <2>1, <2>3, CountType DEF CountIn, Count
<1>2. ~Listed(table, w) => CountIn(table, w, t) = 0
  BY PlaceFound DEF CountIn
<1>. QED
  BY <1>1, <1>2 DEF Listed

(* The row of one worker is changed. *)
LEMMA TableUpdated ==
    ASSUME NEW table \in Seq(Row), Distinct(table), NEW p \in DOMAIN table,
           NEW slots \in Assignments
    PROVE  LET new == [table EXCEPT ![p].slots = slots] IN
           /\ new \in Seq(Row) /\ Distinct(new) /\ DOMAIN new = DOMAIN table
           /\ \A i \in DOMAIN table : new[i].peer_id = table[i].peer_id
           /\ \A w, t : CountIn(new, w, t) = IF w = table[p].peer_id THEN Count(slots, t)
                                                                     ELSE CountIn(table, w, t)
<1>. DEFINE new == [table EXCEPT ![p].slots = slots]
<1>0. \A i \in DOMAIN table : table[i] \in Row
  OBVIOUS
<1>1. new \in Seq(Row) /\ DOMAIN new = DOMAIN table /\ new[p].slots = slots
  <2>. DEFINE row == [table[p] EXCEPT !.slots = slots]
  <2>1. row \in Row /\ row.slots = slots
    BY <1>0 DEF Row
  <2>2. new = [table EXCEPT ![p] = row]
    OBVIOUS
  <2>. HIDE DEF row
  <2>. QED
    BY <2>1, <2>2
<1>2. \A i \in DOMAIN table : new[i].peer_id = table[i].peer_id /\ (i # p => new[i] = table[i])
  BY <1>0 DEF Row
<1>. HIDE DEF new
<1>3. Distinct(new)
  BY <1>1, <1>2 DEF Distinct
<1>4. ASSUME NEW w, NEW t
      PROVE  CountIn(new, w, t) = IF w = table[p].peer_id THEN Count(slots, t)
                                                          ELSE CountIn(table, w, t)
  <2>1. CASE w = table[p].peer_id
    BY <1>1, <1>2, <1>3, <2>1, CountInRow
  <2>2. CASE w # table[p].peer_id /\ Listed(table, w)
    <3>1. PICK i \in DOMAIN table : table[i].peer_id = w
      BY <2>2 DEF Listed
    <3>2. i \in DOMAIN new /\ new[i].peer_id = w /\ new[i] = table[i]
      BY <1>1, <1>2, <2>2, <3>1
    <3>3. CountIn(new, w, t) = Count(new[i].slots, t)
      BY <1>1, <1>3, <3>2, CountInRow
    <3>4. CountIn(table, w, t) = Count(table[i].slots, t)
      BY <3>1, CountInRow
    <3>. QED
      BY <2>2, <3>2, <3>3, <3>4
  <2>3. CASE w # table[p].peer_id /\ ~Listed(table, w)
    <3>1. ~Listed(new, w)
      BY <1>1, <1>2, <2>3 DEF Listed
    <3>. QED
      BY <1>1, <1>3, <2>3, <3>1, CountInRow
  <2>. QED
    BY <2>1, <2>2, <2>3
<1>. QED
  BY <1>1, <1>2, <1>3, <1>4 DEF new

(* Every row is changed in a way that moves no task. *)
LEMMA TableReserved ==
    ASSUME NEW table \in Seq(Row), Distinct(table), NEW new \in Seq(Row),
           DOMAIN new = DOMAIN table,
           \A i \in DOMAIN table : /\ new[i].peer_id = table[i].peer_id
                                   /\ \A t \in Task : Count(new[i].slots, t) = Count(table[i].slots, t)
    PROVE  /\ Distinct(new)
           /\ \A w : \A t \in Task : CountIn(new, w, t) = CountIn(table, w, t)
<1>1. Distinct(new)
  BY DEF Distinct
<1>2. ASSUME NEW w, NEW t \in Task PROVE CountIn(new, w, t) = CountIn(table, w, t)
  <2>1. CASE Listed(table, w)
    <3>1. PICK i \in DOMAIN table : table[i].peer_id = w
      BY <2>1 DEF Listed
    <3>2. i \in DOMAIN new /\ new[i].peer_id = w
      BY <3>1
    <3>3. CountIn(new, w, t) = Count(new[i].slots, t)
      BY <1>1, <3>2, CountInRow
    <3>4. CountIn(table, w, t) = Count(table[i].slots, t)
      BY <3>1, CountInRow
    <3>. QED
      BY <3>3, <3>4
  <2>2. CASE ~Listed(table, w)
    <3>1. ~Listed(new, w)
      BY <2>2 DEF Listed
    <3>. QED
      BY <1>1, <2>2, <3>1, CountInRow
  <2>. QED
    BY <2>1, <2>2
<1>. QED
  BY <1>1, <1>2

(* A worker comes. *)
LEMMA FreshSlots ==
    ASSUME NEW w \in Worker
    PROVE  /\ NewWorker(w) \in Row /\ NewWorker(w).peer_id = w
           /\ \A t \in Task : Count(NewWorker(w).slots, t) = 0
<1>1. NewWorker(w) \in Row /\ NewWorker(w).peer_id = w
  BY DEF NewWorker, Row, Assignments, Slot
<1>2. ASSUME NEW t \in Task PROVE Count(NewWorker(w).slots, t) = 0
  <2>1. {k \in 1..CpuCount : NewWorker(w).slots[k] = t} = {}
    BY NoTaskIsAState DEF NewWorker
  <2>. QED
    BY <2>1, FS_EmptySet DEF Count
<1>. QED
  BY <1>1, <1>2

LEMMA TableExtended ==
    ASSUME NEW table \in Seq(Row), Distinct(table), NEW v \in Worker, ~Listed(table, v)
    PROVE  LET new == Append(table, NewWorker(v)) IN
           /\ new \in Seq(Row) /\ Distinct(new)
           /\ \A w : Listed(new, w) <=> Listed(table, w) \/ w = v
           /\ \A w : \A t \in Task : CountIn(new, w, t) = CountIn(table, w, t)
<1>. DEFINE new == Append(table, NewWorker(v))
            l == Len(table)
<1>1. /\ new \in Seq(Row) /\ l \in Nat /\ DOMAIN table = 1..l
      /\ DOMAIN new = DOMAIN table \cup {l + 1} /\ l + 1 \notin DOMAIN table
      /\ new[l + 1] = NewWorker(v) /\ \A i \in DOMAIN table : new[i] = table[i]
  BY FreshSlots
<1>2. new[l + 1].peer_id = v
  BY <1>1, FreshSlots
<1>. HIDE DEF new, l
<1>3. Distinct(new)
  BY <1>1, <1>2 DEF Distinct, Listed
<1>4. \A w : Listed(new, w) <=> Listed(table, w) \/ w = v
  BY <1>1, <1>2 DEF Listed
<1>5. ASSUME NEW w, NEW t \in Task PROVE CountIn(new, w, t) = CountIn(table, w, t)
  <2>1. CASE w = v
    <3>1. CountIn(new, w, t) = Count(new[l + 1].slots, t)
      BY <1>1, <1>2, <1>3, <2>1, CountInRow
    <3>2. CountIn(new, w, t) = 0
      BY <1>1, <3>1, FreshSlots
    <3>. QED
      BY <2>1, <3>2, CountInRow
  <2>2. CASE Listed(table, w)
    <3>1. PICK i \in DOMAIN table : table[i].peer_id = w
      BY <2>2 DEF Listed
    <3>2. i \in DOMAIN new /\ new[i].peer_id = w /\ new[i] = table[i]
      BY <1>1, <3>1
    <3>3. CountIn(new, w, t) = Count(new[i].slots, t)
      BY <1>1, <1>3, <3>2, CountInRow
    <3>4. CountIn(table, w, t) = Count(table[i].slots, t)
      BY <3>1, CountInRow
    <3>. QED
      BY <3>2, <3>3, <3>4
  <2>3. CASE w # v /\ ~Listed(table, w)
    <3>1. ~Listed(new, w)
      BY <1>4, <2>3
    <3>. QED
      BY <1>1, <1>3, <2>3, <3>1, CountInRow
  <2>. QED
    BY <2>1, <2>2, <2>3
<1>. QED
  BY <1>1, <1>3, <1>4, <1>5 DEF new

(* A worker goes. *)
LEMMA Removed ==
    ASSUME NEW S, NEW seq \in Seq(S), NEW p \in DOMAIN seq
    PROVE  LET new == RemoveAt(seq, p) IN
           /\ new \in Seq(S) /\ DOMAIN new = 1..(Len(seq) - 1)
           /\ \A i \in DOMAIN new : new[i] = IF i < p THEN seq[i] ELSE seq[i + 1]
<1>. DEFINE l == Len(seq)
            a == SubSeq(seq, 1, p - 1)
            b == SubSeq(seq, p + 1, l)
<1>1. l \in Nat /\ p \in 1..l /\ DOMAIN seq = 1..l /\ \A i \in 1..l : seq[i] \in S
  OBVIOUS
<1>2. a \in Seq(S) /\ Len(a) = p - 1 /\ \A i \in 1..(p - 1) : a[i] = seq[i]
  BY <1>1
<1>3. b \in Seq(S) /\ Len(b) = l - p /\ \A i \in 1..(l - p) : b[i] = seq[p + i]
  <2>1. p + 1 \in 1..(l + 1) /\ l \in p..l /\ \A i \in (p + 1)..l : seq[i] \in S
    BY <1>1
  <2>2. b \in Seq(S) /\ Len(b) = l - p
    BY <1>1, <2>1, SubSeqProperties
  <2>3. ASSUME NEW i \in 1..(l - p) PROVE b[i] = seq[p + i]
    <3>1. b[i] = seq[(p + 1) + i - 1] /\ (p + 1) + i - 1 = p + i
      BY <1>1, <2>1, <2>2, SubSeqProperties
    <3>. QED
      BY <3>1
  <2>. QED
    BY <2>2, <2>3
<1>. HIDE DEF a, b, l
<1>4. /\ a \o b \in Seq(S) /\ Len(a \o b) = l - 1
      /\ \A i \in 1..(l - 1) : (a \o b)[i] = IF i < p THEN seq[i] ELSE seq[i + 1]
  <2>1. a \o b \in Seq(S) /\ Len(a \o b) = l - 1
    <3>1. a \o b \in Seq(S) /\ Len(a \o b) = Len(a) + Len(b)
      BY <1>2, <1>3, ConcatProperties
    <3>2. (p - 1) + (l - p) = l - 1
      BY <1>1
    <3>. QED
      BY <1>2, <1>3, <3>1, <3>2
  <2>2. ASSUME NEW i \in 1..(l - 1), i < p PROVE (a \o b)[i] = seq[i]
    BY <1>1, <1>2, <1>3, <2>2
  <2>3. ASSUME NEW i \in 1..(l - 1), ~(i < p) PROVE (a \o b)[i] = seq[i + 1]
    <3>1. /\ i \in 1..(Len(a) + Len(b)) /\ ~(i <= Len(a)) /\ i - Len(a) \in 1..(l - p)
          /\ p + (i - Len(a)) = i + 1
      BY <1>1, <1>2, <1>3, <2>3
    <3>2. (a \o b)[i] = b[i - Len(a)]
      BY <1>2, <1>3, <3>1
    <3>. QED
      BY <1>3, <3>1, <3>2
  <2>. QED
    BY <2>1, <2>2, <2>3
<1>5. RemoveAt(seq, p) = a \o b
  BY DEF RemoveAt, a, b, l
<1>6. DOMAIN (a \o b) = 1..(l - 1)
  BY <1>4
<1>. QED
  BY <1>4, <1>5, <1>6 DEF l

LEMMA TableShortened ==
    ASSUME NEW table \in Seq(Row), Distinct(table), NEW p \in DOMAIN table
    PROVE  LET new == RemoveAt(table, p) IN
           /\ new \in Seq(Row) /\ Distinct(new)
           /\ \A w : Listed(new, w) => Listed(table, w)
           /\ \A w, t : CountIn(new, w, t) = IF w = table[p].peer_id THEN 0
                                                                     ELSE CountIn(table, w, t)
<1>. DEFINE new == RemoveAt(table, p)
            l == Len(table)
            Was(i) == IF i < p THEN i ELSE i + 1
<1>1. /\ l \in Nat /\ p \in 1..l /\ DOMAIN table = 1..l
      /\ new \in Seq(Row) /\ DOMAIN new = 1..(l - 1)
      /\ \A i \in DOMAIN new : new[i] = table[Was(i)]
  BY Removed
<1>. HIDE DEF new, l
<1>2. \A i \in DOMAIN new : /\ Was(i) \in DOMAIN table /\ Was(i) # p
                            /\ \A j \in DOMAIN new : Was(i) = Was(j) => i = j
  BY <1>1
<1>3. \A i \in DOMAIN table : i # p => \E j \in DOMAIN new : Was(j) = i
  <2>. SUFFICES ASSUME NEW i \in DOMAIN table, i # p PROVE \E j \in DOMAIN new : Was(j) = i
    OBVIOUS
  <2>1. CASE i < p
    <3>1. i \in DOMAIN new /\ Was(i) = i
      BY <1>1, <2>1
    <3>. QED
      BY <3>1
  <2>2. CASE ~(i < p)
    <3>1. i - 1 \in DOMAIN new /\ Was(i - 1) = i
      BY <1>1, <2>2
    <3>. QED
      BY <3>1
  <2>. QED
    BY <2>1, <2>2
<1>. HIDE DEF Was
<1>4. Distinct(new)
  BY <1>1, <1>2 DEF Distinct
<1>5. \A w : Listed(new, w) => Listed(table, w) /\ w # table[p].peer_id
  BY <1>1, <1>2 DEF Listed, Distinct
<1>6. ASSUME NEW w, NEW t
      PROVE  CountIn(new, w, t) = IF w = table[p].peer_id THEN 0 ELSE CountIn(table, w, t)
  <2>1. CASE w = table[p].peer_id
    BY <1>1, <1>4, <1>5, <2>1, CountInRow
  <2>2. CASE w # table[p].peer_id /\ Listed(table, w)
    <3>1. PICK i \in DOMAIN table : table[i].peer_id = w
      BY <2>2 DEF Listed
    <3>2. PICK j \in DOMAIN new : Was(j) = i
      BY <1>3, <2>2, <3>1
    <3>3. new[j] = table[i] /\ new[j].peer_id = w
      BY <1>1, <3>1, <3>2
    <3>4. CountIn(new, w, t) = Count(new[j].slots, t)
      BY <1>1, <1>4, <3>3, CountInRow
    <3>5. CountIn(table, w, t) = Count(table[i].slots, t)
      BY <3>1, CountInRow
    <3>. QED
      BY <2>2, <3>3, <3>4, <3>5
  <2>3. CASE w # table[p].peer_id /\ ~Listed(table, w)
    <3>1. ~Listed(new, w)
      BY <1>5, <2>3
    <3>. QED
      BY <1>1, <1>4, <2>3, <3>1, CountInRow
  <2>. QED
    BY <2>1, <2>2, <2>3
<1>. QED
  BY <1>1, <1>4, <1>5, <1>6 DEF new

------------------------------------------------------------------------------
(* What the node needs of the engine: the order of a list of changes leaves *)
(* no choice, a task that fails gives every worker back first, and nobody   *)
(* is paid before the verdict.                                              *)

Placed(changes) == \A c, d \in changes : c.rank = d.rank /\ c.pos = d.pos => c = d

GivesAll(t, changes) ==
    (\E c \in changes : c.kind = "DefinetelyFailed") =>
       /\ \A c \in changes : c.kind # "Assign"
       /\ \A w \in Workers(t) : \E c \in changes : c.kind = "Unassign" /\ c.worker = w

EngineInv ==
    /\ Placed(todo)
    /\ phase = "apply" => GivesAll(cur, todo)
    /\ \A t \in Task : completeness[t] \notin Final => DOMAIN payment_infos[t] = {}

LEMMA ReceiveEngineInv ==
    ASSUME IInv, EngineInv, Receive
    PROVE  EngineInv'
<1>0. /\ TypeOK /\ AddManagerC.kind = "AddManager" /\ AddManagerC.rank = 4
  BY DEF IInv, TypeInv, AddManagerC
<1>1. ASSUME NEW t \in Task, NEW m \in Address, NEW changes, \A c \in changes : c.rank # 4,
             Accept(t, m, changes), Placed(changes), GivesAll(t, changes)
      PROVE  EngineInv'
  <2>1. /\ todo' = changes \cup {AddManagerC} /\ cur' = t
        /\ UNCHANGED <<substates, completeness, payment_infos>>
    BY <1>1 DEF Accept, local
  <2>2. Workers(cur)' = Workers(t)
    BY <2>1 DEF Workers, Filled, Slots
  <2>3. Placed(todo)' /\ GivesAll(cur, todo)'
    BY <1>0, <1>1, <2>1, <2>2 DEF Placed, GivesAll
  <2>. QED
    BY <2>1, <2>3 DEF EngineInv
<1>2. ASSUME NEW t \in Task, NEW m \in Address, ReceiveNewTask(t, m)
      PROVE  EngineInv'
  BY <1>1, <1>2 DEF ReceiveNewTask, CreateC, Placed, GivesAll
<1>3. ASSUME NEW t \in Task, NEW m \in Address, NEW k \in FailureKind,
             NEW w \in Worker, NEW id \in InnerId, NEW n \in 0..MaxNb,
             ReceiveFailure(t, m, k, w, id, n)
      PROVE  EngineInv'
  <2>. DEFINE U == UnassignChanges(t, k, w)
              S == SetNbFailuresC(n)
              D == DefinetelyFailedC(ReasonOf(k))
  <2>1. /\ \A c \in U : c.kind = "Unassign" /\ c.rank = 2
        /\ S.kind = "SetNbFailures" /\ D.kind = "DefinetelyFailed"
        /\ S.rank = 5 /\ D.rank = 7
    BY DEF UnassignChanges, UnassignC, SetNbFailuresC, DefinetelyFailedC
  <2>2. panic' # "reason"
    BY ReceiveIInv DEF IInv, OnlyForeseenPanics
  <2>3. Placed(U)
    BY DEF Placed, UnassignChanges, UnassignC
  <2>4. n > Max_failures(t) => \A v \in Workers(t) : \E c \in U : c.worker = v
    <3>1. /\ Listening /\ n \in Nat /\ nb_failures[t] \in Nat /\ Max_failures(t) \in Nat
          /\ FailureApplies(t, k, w, id, n)
      BY <1>0, <1>3, TaskConstants DEF ReceiveFailure, TypeOK
    <3>2. Incomplete(t)
      BY <3>1 DEF IInv, ListsApplicable, FailureApplies, Workers, ApplicableOK
    <3>3. nb_failures[t] <= Max_failures(t)
      BY <3>1, <3>2, IdleBudget
    <3>4. n > Max_failures(t) => UnassignsAll(t, k)
      BY <3>1, <3>3 DEF FailureApplies, FailureAccepted, UnassignsAll, NamesWorker
    <3>5. UnassignsAll(t, k) => \A v \in Workers(t) : \E c \in U : c.worker = v
      <4>. SUFFICES ASSUME UnassignsAll(t, k), NEW v \in Workers(t)
                    PROVE  \E c \in U : c.worker = v
        OBVIOUS
      <4>1. PICK s \in Filled(t) : substates[t][s] = v
        BY DEF Workers
      <4>2. UnassignC(substates[t][s], s) \in U
        BY DEF UnassignChanges
      <4>3. UnassignC(substates[t][s], s).worker = v
        BY <4>1 DEF UnassignC
      <4>. QED
        BY <4>2, <4>3
    <3>. QED
      BY <3>4, <3>5
  <2>. HIDE DEF U, S, D
  <2>5. Placed({S} \cup U) /\ Placed({S, D} \cup U)
    BY <2>1, <2>3 DEF Placed
  <2>6. GivesAll(t, {S} \cup U)
    BY <2>1 DEF GivesAll
  <2>7. n > Max_failures(t) => GivesAll(t, {S, D} \cup U)
    BY <2>1, <2>4 DEF GivesAll
  <2>8. \/ Accept(t, m, {S} \cup U)
        \/ Accept(t, m, {S, D} \cup U) /\ ~(n <= Max_failures(t))
    BY <1>3, <2>2 DEF ReceiveFailure, U, S, D
  <2>9. n \in Nat /\ Max_failures(t) \in Nat
    BY TaskConstants
  <2>. QED
    BY <1>1, <2>1, <2>5, <2>6, <2>7, <2>8, <2>9
<1>4. ASSUME NEW t \in Task, NEW m \in Address, NEW offers \in Offers,
             ReceiveScheduling(t, m, offers)
      PROVE  EngineInv'
  <2>. DEFINE A == {AssignC(offers[i].worker, i) : i \in Taken(t, offers)}
  <2>1. \A c \in A : c.rank # 4 /\ c.kind = "Assign"
    BY DEF AssignC
  <2>2. Placed(A)
    BY DEF AssignC, Placed
  <2>3. Accept(t, m, A)
    BY <1>4 DEF ReceiveScheduling
  <2>. HIDE DEF A
  <2>4. GivesAll(t, A)
    BY <2>1 DEF GivesAll
  <2>. QED
    BY <1>1, <2>1, <2>2, <2>3, <2>4
<1>5. ASSUME NEW t \in Task, NEW m \in Address, NEW w \in Worker, ReceiveChecked(t, m, w)
      PROVE  EngineInv'
  BY <1>1, <1>5 DEF ReceiveChecked, CheckedC, Placed, GivesAll
<1>6. ASSUME NEW t \in Task, NEW m \in Address, NEW w \in Worker,
             NEW idMan \in InnerId, NEW idStatus \in InnerId,
             NEW r \in {"empty", "data"}, ReceiveCompleted(t, m, w, idMan, idStatus, r)
      PROVE  EngineInv'
  BY <1>1, <1>6 DEF ReceiveCompleted, CompleteC, Placed, GivesAll
<1>. QED
  BY <1>2, <1>3, <1>4, <1>5, <1>6 DEF Receive

(* The workers of a task *)
Paid(t) == {payment_infos[t][s] : s \in DOMAIN payment_infos[t]}
Holders(t) == Workers(t) \cup Paid(t)

(* A change that emits an event does what the event says. *)
LEMMA UnassignEffect ==
    ASSUME IInv, NEW c \in todo, ApplyUnassign(c), Updates(c)
    PROVE  /\ c.worker \in Worker
           /\ \A t \in Task : Workers(t)' = IF t = cur THEN Workers(t) \ {c.worker} ELSE Workers(t)
<1>0. /\ TypeOK /\ ApplicableOK /\ ReplicasOnDistinctWorkers /\ cur \in Task /\ c \in Change
      /\ Incomplete(cur)
  BY ApplyEffect DEF IInv, TypeInv, ListsApplicable, Updates
<1>1. c.worker \in Workers(cur) /\ c.worker \in Worker
  BY <1>0, ChangeShape DEF ApplicableOK, ApplyUnassign, Applying
<1>2. PICK s \in Filled(cur) : /\ substates[cur][s] = c.worker
                               /\ substates' = [substates EXCEPT ![cur][s] = Nobody]
  BY <1>0, <1>1 DEF ApplyUnassign
<1>3. ASSUME NEW t \in Task, t = cur PROVE Workers(t)' = Workers(t) \ {c.worker}
  <2>1. substates'[t] = [substates[t] EXCEPT ![s] = Nobody]
    BY <1>0, <1>2, <1>3 DEF TypeOK
  <2>. QED
    BY <1>0, <1>2, <1>3, <2>1, ReplicaReleased
<1>4. \A t \in Task \ {cur} : Workers(t)' = Workers(t)
  BY <1>0, <1>2, ReplicasKept DEF TypeOK
<1>. QED
  BY <1>1, <1>3, <1>4

LEMMA AssignEffect ==
    ASSUME IInv, NEW c \in todo, ApplyAssign(c), Updates(c), ~Die("assign")
    PROVE  /\ c.worker \in Worker /\ c.worker \notin Workers(cur)
           /\ \A t \in Task : Workers(t)' = IF t = cur THEN Workers(t) \cup {c.worker} ELSE Workers(t)
<1>0. /\ TypeOK /\ cur \in Task /\ c \in Change /\ Incomplete(cur)
  BY ApplyEffect DEF IInv, TypeInv, Updates
<1>1. c.worker \in Worker /\ Assignable(cur, c.worker)
  BY <1>0, ChangeShape DEF ApplyAssign, Applying, Refuse
<1>2. PICK s \in Slots(cur) \ Filled(cur) : substates' = [substates EXCEPT ![cur][s] = c.worker]
  BY <1>0, <1>1 DEF ApplyAssign
<1>3. ASSUME NEW t \in Task, t = cur PROVE Workers(t)' = Workers(t) \cup {c.worker}
  <2>1. substates'[t] = [substates[t] EXCEPT ![s] = c.worker]
    BY <1>0, <1>2, <1>3 DEF TypeOK
  <2>. QED
    BY <1>0, <1>1, <1>2, <1>3, <2>1, ReplicaTaken
<1>4. \A t \in Task \ {cur} : Workers(t)' = Workers(t)
  BY <1>0, <1>2, ReplicasKept DEF TypeOK
<1>. QED
  BY <1>1, <1>3, <1>4 DEF Assignable

(* Any other change keeps the replicas, until the verdict. *)
LEMMA SilentEffect ==
    ASSUME IInv, NEW c \in todo,
           ApplyChecked(c) \/ ApplyAddManager(c) \/ ApplySetNbFailures(c), Updates(c)
    PROVE  \A t \in Task : Workers(t)' = Workers(t)
<1>1. UNCHANGED substates
  BY DEF ApplyChecked, ApplyAddManager, ApplySetNbFailures, Updates, Refuse, Die, local
<1>. QED
  BY <1>1, ReplicasKept

LEMMA CreateEffect ==
    ASSUME IInv, Creates, cur \in Task
    PROVE  \A t \in Task : Workers(t)' = Workers(t)
<1>0. /\ TypeOK /\ ApplicableOK /\ completeness[cur] = "Unknown"
      /\ substates' = [substates EXCEPT ![cur] = Empty(cur)]
  BY DEF IInv, TypeInv, ListsApplicable, Creates
<1>1. ASSUME NEW t \in Task, t = cur PROVE Workers(t)' = Workers(t)
  <2>1. Workers(t)' = {}
    BY <1>0, <1>1, ReplicasEmptied DEF TypeOK
  <2>2. Filled(t) = {}
    BY <1>0, <1>1 DEF ApplicableOK, Incomplete
  <2>. QED
    BY <2>1, <2>2 DEF Workers
<1>2. \A t \in Task \ {cur} : Workers(t)' = Workers(t)
  BY <1>0, ReplicasKept DEF TypeOK
<1>. QED
  BY <1>1, <1>2

(* The verdict: the workers are paid, or were all given back before. *)
LEMMA VerdictEffect ==
    ASSUME IInv, EngineInv, NEW c \in todo, Settles(c), cur \in Task,
           (ApplyComplete(c) \/ ApplyDefinetelyFailed(c))
    PROVE  \A t \in Task : /\ Workers(t)' = IF t = cur THEN {} ELSE Workers(t)
                           /\ Holders(t)' = Holders(t)
<1>0. /\ TypeOK /\ Incomplete(cur) /\ todo = {c} /\ phase = "apply"
      /\ "Incomplete" \notin Final
  BY DEF IInv, TypeInv, Settles, Final, Reason, ApplyComplete, ApplyDefinetelyFailed, Applying
<1>1. /\ substates' = [substates EXCEPT ![cur] = Empty(cur)]
      /\ payment_infos' = [payment_infos EXCEPT ![cur] =
            IF c.kind = "Complete" THEN [s \in Filled(cur) |-> substates[cur][s]] ELSE <<>>]
      /\ DOMAIN payment_infos = Task /\ DOMAIN payment_infos[cur] = {}
  BY <1>0 DEF Settles, EngineInv, TypeOK, Incomplete
<1>2. ASSUME NEW t \in Task, t = cur PROVE Workers(t)' = {} /\ Holders(t)' = Holders(t)
  <2>1. Workers(t)' = {} /\ Paid(t) = {}
    BY <1>0, <1>1, <1>2, ReplicasEmptied DEF TypeOK, Paid
  <2>2. CASE c.kind = "Complete"
    <3>1. payment_infos'[t] = [s \in Filled(t) |-> substates[t][s]]
      BY <1>1, <1>2, <2>2
    <3>2. Paid(t)' = Workers(t)
      BY <3>1 DEF Paid, Workers
    <3>. QED
      BY <2>1, <3>2 DEF Holders
  <2>3. CASE c.kind # "Complete"
    <3>1. payment_infos'[t] = <<>>
      BY <1>1, <1>2, <2>3
    <3>2. Paid(t)' = {}
      BY <3>1 DEF Paid
    <3>3. c.kind = "DefinetelyFailed" /\ ~(c.kind = "Unassign")
      BY <2>3 DEF ApplyComplete, ApplyDefinetelyFailed, Applying
    <3>4. Workers(t) = {}
      BY <1>0, <1>2, <3>3 DEF EngineInv, GivesAll
    <3>. QED
      BY <2>1, <3>2, <3>4 DEF Holders
  <2>. QED
    BY <2>2, <2>3, <2>1
<1>3. ASSUME NEW t \in Task, t # cur PROVE Workers(t)' = Workers(t) /\ Holders(t)' = Holders(t)
  <2>1. Workers(t)' = Workers(t)
    BY <1>0, <1>1, <1>3, ReplicasKept DEF TypeOK
  <2>2. payment_infos'[t] = payment_infos[t]
    BY <1>1, <1>3
  <2>. QED
    BY <2>1, <2>2 DEF Holders, Paid
<1>. QED
  BY <1>2, <1>3

LEMMA NextEngineInv == IInv /\ FreshInv /\ EngineInv /\ [Next]_vars => EngineInv'
<1>. SUFFICES ASSUME IInv, FreshInv, EngineInv, [Next]_vars PROVE EngineInv'
  OBVIOUS
<1>0. TypeOK /\ "Unknown" \notin Final /\ "Incomplete" \notin Final
  BY DEF IInv, TypeInv, Final, Reason
<1>1. ASSUME UNCHANGED <<substates, completeness, payment_infos, cur, todo, phase>>
      PROVE  EngineInv'
  <2>1. Placed(todo)' /\ \A t \in Task : completeness'[t] \notin Final => DOMAIN payment_infos'[t] = {}
    BY <1>1 DEF EngineInv, Placed
  <2>2. \A t : Workers(t)' = Workers(t)
    BY <1>1 DEF Workers, Filled, Slots
  <2>3. phase' = "apply" => GivesAll(cur, todo)'
    BY <1>1, <2>2 DEF EngineInv, GivesAll
  <2>. QED
    BY <2>1, <2>2, <2>3 DEF EngineInv
<1>2. ASSUME NEW j \in Job, LockJob(j) PROVE EngineInv'
  BY <1>1, <1>2 DEF LockJob, local, handler
<1>3. CASE Receive
  BY <1>3, ReceiveEngineInv
<1>4. CASE Apply
  <2>1. PICK c \in todo :
           \/ ApplyCreate(c) \/ ApplyChecked(c) \/ ApplyUnassign(c)
           \/ ApplyAssign(c) \/ ApplyAddManager(c) \/ ApplySetNbFailures(c)
           \/ ApplyComplete(c) \/ ApplyDefinetelyFailed(c)
    BY <1>4 DEF Apply
  <2>2. cur \in Task /\ phase = "apply"
    BY <2>1, ApplyEffect
  <2>3. CASE Die("assign")
    BY <1>1, <2>3 DEF Die, local, handler
  <2>4. CASE Creates /\ UNCHANGED <<cur, phase>>
    <3>1. /\ todo' = {AddManagerC} /\ AddManagerC.kind = "AddManager"
          /\ completeness[cur] = "Unknown" /\ UNCHANGED payment_infos
          /\ completeness' = [completeness EXCEPT ![cur] = "Incomplete"]
      BY <2>4 DEF Creates, AddManagerC
    <3>2. \A t \in Task : completeness'[t] \notin Final => completeness[t] \notin Final
      BY <1>0, <3>1 DEF TypeOK
    <3>3. Placed(todo') /\ GivesAll(cur, todo)'
      BY <3>1 DEF Placed, GivesAll
    <3>. QED
      BY <3>1, <3>2, <3>3 DEF EngineInv, Placed
  <2>5. CASE /\ \/ ApplyChecked(c) \/ ApplyUnassign(c) \/ ApplyAssign(c)
                \/ ApplyAddManager(c) \/ ApplySetNbFailures(c)
             /\ Updates(c) /\ UNCHANGED <<cur, phase>>
    <3>1. todo' = todo \ {c} /\ UNCHANGED <<completeness, payment_infos, cur, phase>>
      BY <2>5 DEF Updates
    <3>2. Placed(todo)'
      BY <3>1 DEF Placed, EngineInv
    <3>3. GivesAll(cur, todo)'
      <4>. SUFFICES ASSUME NEW d \in todo', d.kind = "DefinetelyFailed"
                    PROVE  /\ \A e \in todo' : e.kind # "Assign"
                           /\ \A w \in Workers(cur)' :
                                 \E e \in todo' : e.kind = "Unassign" /\ e.worker = w
        BY DEF GivesAll
      <4>1. /\ \A e \in todo : e.kind # "Assign"
            /\ \A w \in Workers(cur) : \E e \in todo : e.kind = "Unassign" /\ e.worker = w
        BY <2>2, <3>1 DEF EngineInv, GivesAll
      <4>2. \A t \in Task : Workers(t)' = {substates'[t][r] : r \in {r \in Slots(t) : substates'[t][r] # Nobody}}
        BY DEF Workers, Filled, Slots
      <4>3. Workers(cur)' = {substates'[cur][r] : r \in {r \in Slots(cur) : substates'[cur][r] # Nobody}}
        BY <3>1 DEF Workers, Filled, Slots
      <4>4. CASE ApplyUnassign(c)
        <5>1. Workers(cur)' = Workers(cur) \ {c.worker}
          BY <2>2, <2>5, <4>2, <4>3, <4>4, UnassignEffect
        <5>. QED
          BY <3>1, <4>1, <5>1
      <4>5. CASE ApplyChecked(c) \/ ApplyAddManager(c) \/ ApplySetNbFailures(c)
        <5>1. Workers(cur)' = Workers(cur)
          BY <2>2, <2>5, <4>2, <4>3, <4>5, SilentEffect
        <5>2. c.kind # "Unassign"
          BY <4>5 DEF ApplyChecked, ApplyAddManager, ApplySetNbFailures, Applying
        <5>. QED
          BY <3>1, <4>1, <5>1, <5>2
      <4>6. CASE ApplyAssign(c)
        BY <4>1, <4>6 DEF ApplyAssign, Applying
      <4>. QED
        BY <2>5, <4>4, <4>5, <4>6
    <3>. QED
      BY <3>1, <3>2, <3>3 DEF EngineInv
  <2>6. CASE Settles(c)
    <3>1. /\ todo' = todo /\ phase' = "managers" /\ VerdictOf(c) \in Final
          /\ completeness' = [completeness EXCEPT ![cur] = VerdictOf(c)]
          /\ \A t \in Task \ {cur} : payment_infos'[t] = payment_infos[t]
      BY <1>0, <2>6 DEF Settles, TypeOK
    <3>2. \A t \in Task : completeness'[t] \notin Final => t # cur /\ completeness[t] \notin Final
      BY <1>0, <3>1 DEF TypeOK
    <3>. QED
      BY <3>1, <3>2 DEF EngineInv, Placed
  <2>. QED
    BY <2>1, <2>3, <2>4, <2>5, <2>6, ApplyEffect
<1>5. CASE Commit \/ Release
  <2>1. UNCHANGED <<substates, completeness, payment_infos>>
    BY <1>5, CommitEffect DEF local
  <2>2. \/ UNCHANGED <<cur, todo, phase>>
        \/ UNCHANGED <<cur, todo>> /\ phase' # "apply"
        \/ todo' = {}
    BY <1>5, CommitEffect DEF Die, handler
  <2>3. CASE todo' = {}
    BY <2>1, <2>3 DEF EngineInv, GivesAll, Placed
  <2>4. CASE UNCHANGED <<cur, todo>> /\ phase' # "apply"
    BY <2>1, <2>4 DEF EngineInv, Placed
  <2>. QED
    BY <1>1, <2>1, <2>2, <2>3, <2>4
<1>6. CASE UNCHANGED vars \/ \E t \in Task, w \in Worker : Elapse(t, w)
  BY <1>1, <1>6, OtherEffect
<1>7. CASE Restart
  <2>1. todo' = {} /\ phase' = "idle" /\ payment_infos' = [t \in Task |-> <<>>]
    BY <1>7 DEF Restart
  <2>. QED
    BY <2>1 DEF EngineInv, Placed
<1>. QED
  BY <1>2, <1>3, <1>4, <1>5, <1>6, <1>7, StepCases

LEMMA InitEngineInv == Init => EngineInv
  BY DEF Init, EngineInv, Placed, GivesAll

------------------------------------------------------------------------------
(* What a step of the engine does to the replicas and to the channel *)

(* The list still has to take the replica of t back from w. *)
GivenBack(w, t) == cur = t /\ \E c \in todo : c.kind = "Unassign" /\ c.worker = w

(* No event: the replicas stay with their workers, who may be paid. *)
Silent ==
    /\ inner' = inner
    /\ \A t \in Task : Workers(t)' \subseteq Workers(t) /\ Holders(t)' = Holders(t)
    /\ \A w, t : GivenBack(w, t) => GivenBack(w, t)'

(* Assigned *)
Gives(w) ==
    /\ w \in Worker /\ w \notin Holders(cur)
    /\ Send(inner, <<AssignedE(cur, w)>>)
    /\ \A t \in Task : /\ Workers(t)' = IF t = cur THEN Workers(t) \cup {w} ELSE Workers(t)
                       /\ Holders(t)' = IF t = cur THEN Holders(t) \cup {w} ELSE Holders(t)
    /\ \A v, t : GivenBack(v, t) => GivenBack(v, t)'

(* Unassigned *)
TakesBack(w) ==
    /\ w \in Worker
    /\ Send(inner, <<UnassignedE(cur, w)>>)
    /\ \A t \in Task : /\ Workers(t)' = IF t = cur THEN Workers(t) \ {w} ELSE Workers(t)
                       /\ Holders(t)' = IF t = cur THEN Holders(t) \ {w} ELSE Holders(t)
    /\ \A v, t : GivenBack(v, t) => GivenBack(v, t)' \/ (v = w /\ t = cur)

LEMMA FirstIsUnique ==
    ASSUME TypeOK, EngineInv, NEW c, First(c), NEW d, First(d)
    PROVE  c = d
<1>1. c \in todo /\ d \in todo /\ c \in Change /\ d \in Change
  BY DEF First, TypeOK
<1>2. c.rank \in Nat /\ d.rank \in Nat /\ c.pos \in Nat /\ d.pos \in Nat
  <2>1. c.rank \in 0..7 /\ c.pos \in Nat
    BY <1>1, ChangeShape
  <2>2. d.rank \in 0..7 /\ d.pos \in Nat
    BY <1>1, ChangeShape
  <2>. QED
    BY <2>1, <2>2
<1>3. c.rank = d.rank /\ c.pos = d.pos
  BY <1>1, <1>2 DEF First
<1>. QED
  BY <1>1, <1>3 DEF EngineInv, Placed

LEMMA EngineMoves ==
    ASSUME IInv, FreshInv, EngineInv, EngineStep
    PROVE  Silent \/ (cur \in Task /\ Incomplete(cur) /\ \E w : Gives(w) \/ TakesBack(w))
<1>0. TypeOK /\ Alive /\ Handler /\ panic = "none" /\ "Incomplete" \notin Final
  BY DEF IInv, TypeInv, EngineStep, Alive, Final, Reason
<1>1. ASSUME UNCHANGED <<substates, payment_infos, cur, todo>>, inner' = inner PROVE Silent
  BY <1>1 DEF Silent, Holders, Workers, Paid, Filled, Slots, GivenBack
<1>2. CASE Apply
  <2>1. PICK c \in todo :
           \/ ApplyCreate(c) \/ ApplyChecked(c) \/ ApplyUnassign(c)
           \/ ApplyAssign(c) \/ ApplyAddManager(c) \/ ApplySetNbFailures(c)
           \/ ApplyComplete(c) \/ ApplyDefinetelyFailed(c)
    BY <1>2 DEF Apply
  <2>2. cur \in Task /\ phase = "apply" /\ Applying(c, c.kind) /\ First(c)
    BY <2>1, ApplyEffect DEF Applying
  <2>3. \A d \in todo : Emitting(d) <=> d = c /\ c.kind \in {"Assign", "Unassign"}
    BY <1>0, <2>2, FirstIsUnique DEF Emitting
  <2>4. CASE Die("assign")
    <3>1. panic' # "none" /\ inner' = inner /\ UNCHANGED <<substates, payment_infos, cur, todo>>
      BY <2>4 DEF Die, EngineStep, local, handler
    <3>. QED
      BY <1>1, <3>1
  <2>5. ASSUME panic' = "none", c.kind \in {"Assign", "Unassign"}
        PROVE  Send(inner, <<EventOf(c)>>)
    BY <2>3, <2>5 DEF EngineStep
  <2>6. ASSUME c.kind \notin {"Assign", "Unassign"} PROVE inner' = inner
    BY <2>3, <2>6 DEF EngineStep
  <2>7. CASE ApplyCreate(c) /\ Creates /\ UNCHANGED <<cur, panic>>
    <3>1. c.kind = "Create" /\ inner' = inner /\ UNCHANGED payment_infos
      BY <2>6, <2>7 DEF ApplyCreate, Applying, Creates
    <3>2. \A t \in Task : Workers(t)' = Workers(t) /\ Holders(t)' = Holders(t)
      BY <2>2, <2>7, <3>1, CreateEffect DEF Holders, Paid
    <3>3. todo = {CreateC, AddManagerC}
      BY <2>2, <3>1, AppliedToIncomplete
    <3>4. \A w, t : ~GivenBack(w, t)
      BY <3>3 DEF GivenBack, CreateC, AddManagerC
    <3>. QED
      BY <3>1, <3>2, <3>4 DEF Silent
  <2>8. CASE /\ ApplyChecked(c) \/ ApplyAddManager(c) \/ ApplySetNbFailures(c)
             /\ Updates(c) /\ UNCHANGED <<cur, panic>>
    <3>1. c.kind \notin {"Assign", "Unassign"}
      BY <2>8 DEF ApplyChecked, ApplyAddManager, ApplySetNbFailures, Applying
    <3>2. inner' = inner /\ UNCHANGED <<payment_infos, cur>> /\ todo' = todo \ {c}
      BY <2>6, <2>8, <3>1 DEF Updates
    <3>3. \A t \in Task : Workers(t)' = Workers(t) /\ Holders(t)' = Holders(t)
      BY <2>8, <3>2, SilentEffect DEF Holders, Paid
    <3>4. \A w, t : GivenBack(w, t) => GivenBack(w, t)'
      BY <3>1, <3>2 DEF GivenBack
    <3>. QED
      BY <3>2, <3>3, <3>4 DEF Silent
  <2>9. CASE ApplyUnassign(c) /\ Updates(c) /\ UNCHANGED <<cur, panic>>
    <3>1. c.kind = "Unassign" /\ EventOf(c) = UnassignedE(cur, c.worker)
      BY <2>9 DEF ApplyUnassign, Applying, EventOf
    <3>2. /\ Incomplete(cur) /\ UNCHANGED <<payment_infos, cur>> /\ todo' = todo \ {c}
          /\ Send(inner, <<UnassignedE(cur, c.worker)>>)
      BY <1>0, <2>5, <2>9, <3>1 DEF Updates
    <3>3. /\ c.worker \in Worker
          /\ \A t \in Task : Workers(t)' = IF t = cur THEN Workers(t) \ {c.worker} ELSE Workers(t)
      BY <2>9, UnassignEffect
    <3>4. Paid(cur) = {} /\ \A t \in Task : Paid(t)' = Paid(t)
      BY <1>0, <2>2, <3>2 DEF Paid, EngineInv, Incomplete
    <3>5. \A t \in Task : Holders(t)' = IF t = cur THEN Holders(t) \ {c.worker} ELSE Holders(t)
      BY <3>3, <3>4 DEF Holders
    <3>6. \A v, t : GivenBack(v, t) => GivenBack(v, t)' \/ (v = c.worker /\ t = cur)
      BY <3>2 DEF GivenBack
    <3>7. TakesBack(c.worker)
      BY <3>2, <3>3, <3>5, <3>6 DEF TakesBack
    <3>. QED
      BY <2>2, <3>2, <3>7
  <2>10. CASE ApplyAssign(c) /\ Updates(c) /\ UNCHANGED <<cur, panic>>
    <3>1. c.kind = "Assign" /\ EventOf(c) = AssignedE(cur, c.worker) /\ ~Die("assign")
      BY <1>0, <2>10 DEF ApplyAssign, Applying, EventOf, Die
    <3>2. /\ Incomplete(cur) /\ UNCHANGED <<payment_infos, cur>> /\ todo' = todo \ {c}
          /\ Send(inner, <<AssignedE(cur, c.worker)>>)
      BY <1>0, <2>5, <2>10, <3>1 DEF Updates
    <3>3. /\ c.worker \in Worker /\ c.worker \notin Workers(cur)
          /\ \A t \in Task : Workers(t)' = IF t = cur THEN Workers(t) \cup {c.worker} ELSE Workers(t)
      BY <2>10, <3>1, AssignEffect
    <3>4. Paid(cur) = {} /\ \A t \in Task : Paid(t)' = Paid(t)
      BY <1>0, <2>2, <3>2 DEF Paid, EngineInv, Incomplete
    <3>5. /\ \A t \in Task : Holders(t)' = IF t = cur THEN Holders(t) \cup {c.worker} ELSE Holders(t)
          /\ c.worker \notin Holders(cur)
      BY <3>3, <3>4 DEF Holders
    <3>6. \A v, t : GivenBack(v, t) => GivenBack(v, t)'
      BY <3>1, <3>2 DEF GivenBack
    <3>7. Gives(c.worker)
      BY <3>2, <3>3, <3>5, <3>6 DEF Gives
    <3>. QED
      BY <2>2, <3>2, <3>7
  <2>11. CASE (ApplyComplete(c) \/ ApplyDefinetelyFailed(c)) /\ Settles(c) /\ UNCHANGED <<cur, panic>>
    <3>1. c.kind \notin {"Assign", "Unassign"}
      BY <2>11 DEF ApplyComplete, ApplyDefinetelyFailed, Applying
    <3>2. inner' = inner /\ todo' = todo /\ cur' = cur
      BY <2>6, <2>11, <3>1 DEF Settles
    <3>3. \A t \in Task : Workers(t)' \subseteq Workers(t) /\ Holders(t)' = Holders(t)
      BY <2>2, <2>11, VerdictEffect
    <3>. QED
      BY <3>2, <3>3 DEF Silent, GivenBack
  <2>. QED
    BY <2>1, <2>4, <2>7, <2>8, <2>9, <2>10, <2>11, ApplyEffect
<1>3. CASE Commit \/ Release
  <2>1. UNCHANGED <<substates, payment_infos>>
    BY <1>3, CommitEffect DEF local
  <2>2. \/ phase # "apply" /\ UNCHANGED <<cur, todo>>
        \/ phase # "apply" /\ \E c \in todo : todo = {c} /\ IsVerdict(c)
        \/ todo = {}
    BY <1>3, CommitEffect DEF Die, handler
  <2>3. inner' = inner
    BY <2>2 DEF EngineStep, Emitting
  <2>4. CASE UNCHANGED <<cur, todo>>
    BY <1>1, <2>1, <2>3, <2>4
  <2>5. CASE todo = {} \/ \E c \in todo : todo = {c} /\ IsVerdict(c)
    <3>1. \A w, t : ~GivenBack(w, t)
      BY <2>5 DEF GivenBack, IsVerdict
    <3>2. \A t \in Task : Workers(t)' = Workers(t) /\ Holders(t)' = Holders(t)
      BY <2>1 DEF Workers, Filled, Slots, Holders, Paid
    <3>. QED
      BY <2>3, <3>1, <3>2 DEF Silent
  <2>. QED
    BY <2>2, <2>4, <2>5
<1>. QED
  BY <1>0, <1>2, <1>3 DEF Handler

------------------------------------------------------------------------------
(* The messages of the channel *)

NodeFailure == {"Aborted", "Download", "Runtime"}

Message ==
    [kind : {"NewTask"}, task : Task, from : Address]
      \cup [kind : {"Scheduling"}, task : Task, from : Address, offers : Offers]
      \cup [kind : {"Failure"}, task : Task, from : Address, worker : Worker,
            failure : FailureKind, nb : Nat]
      \cup [kind : {"Checked"}, task : Task, from : Address, worker : Worker]
      \cup [kind : {"Completed"}, task : Task, from : Address, worker : Worker, id : InnerId]
      \cup [kind : {"Assigned", "Unassigned"}, task : Task, worker : Worker]

LEMMA MessageShape ==
    ASSUME NEW e \in Message
    PROVE  /\ e.task \in Task
           /\ e.kind \in {"NewTask", "Scheduling", "Failure", "Checked", "Completed", "Assigned",
                          "Unassigned"}
           /\ e.kind \in {"NewTask", "Scheduling", "Failure", "Checked", "Completed"} => e.from \in Address
           /\ e.kind \in {"Failure", "Checked", "Completed", "Assigned", "Unassigned"} => e.worker \in Worker
           /\ e.kind = "Scheduling" => e.offers \in Offers
           /\ e.kind = "Failure" => e.failure \in FailureKind /\ e.nb \in Nat
           /\ e.kind = "Completed" => e.id \in InnerId
           /\ e.kind = "Assigned" => e = AssignedE(e.task, e.worker)
           /\ e.kind = "Unassigned" => e = UnassignedE(e.task, e.worker)
  BY NodeAssumption DEF Message, AssignedE, UnassignedE

LEMMA MessagesSent ==
    ASSUME NEW t \in Task
    PROVE  /\ \A m \in Address : /\ NewTaskP(t, m) \in Message /\ IsProposal(NewTaskP(t, m))
                                 /\ NewTaskP(t, m).kind # "Failure"
           /\ \A m \in Address, offers \in Offers :
                 /\ SchedulingP(t, m, offers) \in Message
                 /\ IsProposal(SchedulingP(t, m, offers))
                 /\ SchedulingP(t, m, offers).kind # "Failure"
           /\ \A m \in Address, w \in Worker, k \in FailureKind, nb \in Nat :
                 /\ FailureP(t, m, w, k, nb) \in Message
                 /\ IsProposal(FailureP(t, m, w, k, nb))
           /\ \A m \in Address, w \in Worker :
                 /\ CheckedP(t, m, w) \in Message
                 /\ IsProposal(CheckedP(t, m, w))
                 /\ CheckedP(t, m, w).kind # "Failure"
           /\ \A m \in Address, w \in Worker, id \in InnerId :
                 /\ CompletedP(t, m, w, id) \in Message
                 /\ IsProposal(CompletedP(t, m, w, id))
                 /\ CompletedP(t, m, w, id).kind # "Failure"
           /\ \A w \in Worker : AssignedE(t, w) \in Message /\ UnassignedE(t, w) \in Message
  BY DEF Message, NewTaskP, SchedulingP, FailureP, CheckedP, CompletedP, AssignedE, UnassignedE,
         IsProposal

(* An event about a task the engine knows; a failure of this node, of such  *)
(* a task, counted before or just now (the number the engine asks for can   *)
(* only have grown since); or a failure another manager proposes.           *)
OwnFailure(e) ==
    /\ e.from = Me /\ e.failure \in NodeFailure /\ Known(e.task)
    /\ IF e.failure = "Aborted" THEN e.nb <= nb_failures[e.task]
                                ELSE e.nb \in 1..(nb_failures[e.task] + 1)

ForeignOne(e) == e.from # Me /\ e.nb \in 0..MaxNb

Fine ==
    {e \in Message :
       /\ e.kind \in {"Assigned", "Unassigned"} => Known(e.task)
       /\ e.kind = "Failure" => OwnFailure(e) \/ ForeignOne(e)}

(* A failure of this node about the worker and the task *)
Reports(e, w, t) == e.kind = "Failure" /\ e.from = Me /\ e.worker = w /\ e.task = t

SentIn(q, w, t) == \E i \in DOMAIN q : Reports(q[i], w, t)

LEMMA AbortedIsFine ==
    ASSUME NEW t \in Task, NEW w \in Worker, Known(t), nb_failures[t] \in Nat
    PROVE  /\ AbortedP(t, w) \in Fine /\ IsProposal(AbortedP(t, w))
           /\ Reports(AbortedP(t, w), w, t)
<1>. DEFINE e == AbortedP(t, w)
<1>1. Me \in Address /\ "Aborted" \in FailureKind /\ "Aborted" \in NodeFailure
  BY NodeAssumption DEF FailureKind, NodeFailure
<1>2. e \in Message /\ IsProposal(e)
  BY <1>1, MessagesSent DEF AbortedP
<1>3. /\ e.kind = "Failure" /\ e.from = Me /\ e.worker = w /\ e.task = t
      /\ e.failure = "Aborted" /\ e.nb = nb_failures[t]
  BY DEF AbortedP, FailureP
<1>. HIDE DEF e
<1>4. OwnFailure(e)
  BY <1>1, <1>3 DEF OwnFailure
<1>. QED
  BY <1>2, <1>3, <1>4 DEF Fine, Reports, e

LEMMA NoEvent ==
    ASSUME NEW e, IsProposal(e), NEW w, NEW t
    PROVE  e \notin {AssignedE(t, w), UnassignedE(t, w)}
  BY DEF IsProposal, AssignedE, UnassignedE

(* Proposals put in the channel *)
LEMMA ChannelExtended ==
    ASSUME NEW S, NEW q \in Seq(S), NEW r \in Seq(S), \A i \in DOMAIN r : IsProposal(r[i]),
           NEW w, NEW t
    PROVE  /\ \A n \in Nat : Left(n, q \o r, w, t) = Left(n, q, w, t)
           /\ TakenBack(q \o r, w, t) => TakenBack(q, w, t)
           /\ SentIn(q, w, t) \/ SentIn(r, w, t) => SentIn(q \o r, w, t)
<1>1. \A i \in DOMAIN r : r[i] \notin {AssignedE(t, w), UnassignedE(t, w)}
  BY NoEvent
<1>2. \A n \in Nat : Left(n, q \o r, w, t) = Left(n, q, w, t)
  BY <1>1, LeftOfOthers
<1>. DEFINE both == q \o r
            k == Len(q)
            l == Len(r)
<1>3. /\ k \in Nat /\ l \in Nat /\ DOMAIN q = 1..k /\ DOMAIN r = 1..l
      /\ DOMAIN both = 1..(k + l)
      /\ \A i \in 1..k : both[i] = q[i]
      /\ \A i \in 1..l : both[k + i] = r[i]
  OBVIOUS
<1>. HIDE DEF both, k, l
<1>4. \A i \in DOMAIN both : i \in DOMAIN q \/ \E j \in DOMAIN r : i = k + j
  <2>. SUFFICES ASSUME NEW i \in DOMAIN both, i \notin DOMAIN q
                PROVE  \E j \in DOMAIN r : i = k + j
    OBVIOUS
  <2>1. i - k \in DOMAIN r /\ i = k + (i - k)
    BY <1>3
  <2>. QED
    BY <2>1
<1>5. ASSUME TakenBack(both, w, t) PROVE TakenBack(q, w, t)
  <2>1. PICK i \in DOMAIN both : /\ both[i] = UnassignedE(t, w)
                                 /\ \A j \in DOMAIN both : j > i => both[j] # AssignedE(t, w)
    BY <1>5 DEF TakenBack
  <2>2. i \in DOMAIN q /\ both[i] = q[i]
    BY <1>1, <1>3, <1>4, <2>1
  <2>3. \A j \in DOMAIN q : j \in DOMAIN both /\ both[j] = q[j]
    BY <1>3
  <2>. QED
    BY <2>1, <2>2, <2>3 DEF TakenBack
<1>6. ASSUME SentIn(q, w, t) PROVE SentIn(both, w, t)
  <2>1. \A i \in DOMAIN q : i \in DOMAIN both /\ both[i] = q[i]
    BY <1>3
  <2>. QED
    BY <1>6, <2>1 DEF SentIn
<1>7. ASSUME SentIn(r, w, t) PROVE SentIn(both, w, t)
  <2>1. \A i \in DOMAIN r : k + i \in DOMAIN both /\ both[k + i] = r[i]
    BY <1>3
  <2>. QED
    BY <1>7, <2>1 DEF SentIn
<1>. QED
  BY <1>2, <1>5, <1>6, <1>7 DEF both

(* A message taken from the channel *)
LEMMA ChannelConsumed ==
    ASSUME NEW S, NEW q \in Seq(S), q # <<>>, NEW w, NEW t
    PROVE  /\ Head(q) \in S /\ Tail(q) \in Seq(S) /\ Len(Tail(q)) = Len(q) - 1
           /\ TakenBack(Tail(q), w, t) => TakenBack(q, w, t)
           /\ SentIn(q, w, t) => SentIn(Tail(q), w, t) \/ Reports(Head(q), w, t)
<1>. DEFINE r == Tail(q)
            l == Len(q)
<1>1. /\ l \in Nat /\ l >= 1 /\ r \in Seq(S) /\ Len(r) = l - 1 /\ Head(q) \in S
      /\ DOMAIN q = 1..l /\ DOMAIN r = 1..(l - 1)
      /\ Head(q) = q[1] /\ \A i \in 1..(l - 1) : r[i] = q[i + 1]
  OBVIOUS
<1>. HIDE DEF r, l
<1>2. \A i \in DOMAIN r : i + 1 \in DOMAIN q /\ r[i] = q[i + 1]
  BY <1>1
<1>3. \A i \in DOMAIN q : i = 1 \/ (i - 1 \in DOMAIN r /\ r[i - 1] = q[i])
  <2>. SUFFICES ASSUME NEW i \in DOMAIN q, i # 1 PROVE i - 1 \in DOMAIN r /\ r[i - 1] = q[i]
    OBVIOUS
  <2>1. i - 1 \in 1..(l - 1) /\ (i - 1) + 1 = i
    BY <1>1
  <2>. QED
    BY <1>1, <2>1
<1>4. ASSUME TakenBack(r, w, t) PROVE TakenBack(q, w, t)
  <2>1. PICK i \in DOMAIN r : /\ r[i] = UnassignedE(t, w)
                              /\ \A j \in DOMAIN r : j > i => r[j] # AssignedE(t, w)
    BY <1>4 DEF TakenBack
  <2>2. i + 1 \in DOMAIN q /\ q[i + 1] = UnassignedE(t, w)
    BY <1>2, <2>1
  <2>3. ASSUME NEW j \in DOMAIN q, j > i + 1 PROVE q[j] # AssignedE(t, w)
    <3>1. j - 1 \in DOMAIN r /\ r[j - 1] = q[j] /\ j - 1 > i
      BY <1>1, <1>3, <2>1, <2>3
    <3>. QED
      BY <2>1, <3>1
  <2>. QED
    BY <2>2, <2>3 DEF TakenBack
<1>5. ASSUME SentIn(q, w, t), ~SentIn(r, w, t)
      PROVE  Reports(Head(q), w, t)
  BY <1>1, <1>3, <1>5 DEF SentIn
<1>. QED
  BY <1>1, <1>4, <1>5 DEF r, l

------------------------------------------------------------------------------
(* The tick: slots are reserved and offered, no task moves. *)

Proposed(table) ==
    {acc \in [table : Seq(Row), msgs : Seq(Fine)] :
       /\ DOMAIN acc.table = DOMAIN table
       /\ \A i \in DOMAIN table :
             /\ acc.table[i].peer_id = table[i].peer_id
             /\ \A t \in Task : Count(acc.table[i].slots, t) = Count(table[i].slots, t)
       /\ \A i \in DOMAIN acc.msgs : IsProposal(acc.msgs[i])}

LEMMA SortedRows ==
    ASSUME NEW table \in Seq(Row)
    PROVE  SortedWorkers(table) \in Seq(Row)
<1>1. ASSUME NEW wanted PROVE Those(table, wanted) \in Seq(Row)
  <2>1. Wanted(Row, table, wanted) \subseteq Row
    BY DEF Wanted
  <2>2. \A T \in SUBSET Row : Seq(T) \subseteq Seq(Row)
    OBVIOUS
  <2>. QED
    BY <2>1, <2>2, ThoseKept
<1>. QED
  BY <1>1 DEF SortedWorkers

LEMMA OfferedWorkers ==
    ASSUME TypeOK, NEW table \in Seq(Row), NEW t \in Task
    PROVE  \E n \in 0..MaxOffers : Offered(table, t) \in [1..n -> Worker]
<1>. DEFINE sorted == SortedWorkers(table)
            n == IF Len(sorted) < nb_unassigned(t) THEN Len(sorted) ELSE nb_unassigned(t)
<1>1. sorted \in Seq(Row)
  BY SortedRows
<1>2. nb_unassigned(t) \in Nat /\ nb_unassigned(t) <= MaxOffers /\ MaxOffers \in Nat
  <2>1. Slots(t) \ Filled(t) \in SUBSET Slots(t)
    OBVIOUS
  <2>2. nb_unassigned(t) <= Redundancy[JobOf[t]] /\ nb_unassigned(t) \in Nat
    BY <2>1, Replicas, FS_Subset DEF nb_unassigned
  <2>3. Redundancy[JobOf[t]] <= MaxOffers /\ Redundancy[JobOf[t]] \in Nat
    BY TaskConstants, NodeAssumption, ParametersAssumption
  <2>4. MaxOffers \in Nat
    BY ParametersAssumption
  <2>. QED
    BY <2>2, <2>3, <2>4
<1>. HIDE DEF sorted
<1>3. Len(sorted) \in Nat /\ \A i \in 1..Len(sorted) : sorted[i].peer_id \in Worker
  <2>1. \A i \in 1..Len(sorted) : sorted[i] \in Row
    BY <1>1
  <2>. QED
    BY <1>1, <2>1 DEF Row
<1>4. n \in 0..MaxOffers /\ n <= Len(sorted) /\ n \in Nat
  BY <1>2, <1>3
<1>5. Offered(table, t) = [i \in 1..n |-> sorted[i].peer_id]
  BY DEF Offered, sorted
<1>. HIDE DEF n
<1>6. \A i \in 1..n : sorted[i].peer_id \in Worker
  BY <1>3, <1>4
<1>. QED
  BY <1>4, <1>5, <1>6

LEMMA ReserveKept ==
    ASSUME NEW table \in Seq(Row), NEW acc \in Proposed(table), NEW ws
    PROVE  LET new == Reserve(acc.table, ws) IN
           /\ new \in Seq(Row) /\ DOMAIN new = DOMAIN table
           /\ \A i \in DOMAIN table :
                 /\ new[i].peer_id = table[i].peer_id
                 /\ \A t \in Task : Count(new[i].slots, t) = Count(table[i].slots, t)
<1>. DEFINE old == acc.table
            new == Reserve(old, ws)
<1>1. /\ old \in Seq(Row) /\ DOMAIN old = DOMAIN table
      /\ \A i \in DOMAIN table :
            /\ old[i].peer_id = table[i].peer_id
            /\ \A t \in Task : Count(old[i].slots, t) = Count(table[i].slots, t)
  BY DEF Proposed
<1>. HIDE DEF old
<1>2. \A i \in DOMAIN old : new[i] = old[i] \/ new[i] = [old[i] EXCEPT !.slots = reserve_slot(old[i].slots)]
  BY DEF Reserve
<1>3. DOMAIN new = DOMAIN old
  BY DEF Reserve
<1>4. ASSUME NEW i \in DOMAIN old
      PROVE  /\ new[i] \in Row /\ new[i].peer_id = old[i].peer_id
             /\ \A t \in Task : Count(new[i].slots, t) = Count(old[i].slots, t)
  <2>1. old[i] \in Row /\ old[i].slots \in Assignments
    <3>1. old[i] \in Row
      BY <1>1
    <3>. QED
      BY <3>1 DEF Row
  <2>2. CASE new[i] = old[i]
    BY <2>1, <2>2
  <2>3. CASE new[i] = [old[i] EXCEPT !.slots = reserve_slot(old[i].slots)]
    <3>1. reserve_slot(old[i].slots) \in Assignments
      BY <2>1, CountReserved DEF reserve_slot
    <3>2. /\ new[i] \in Row /\ new[i].peer_id = old[i].peer_id
          /\ new[i].slots = reserve_slot(old[i].slots)
      BY <2>1, <2>3, <3>1 DEF Row
    <3>. QED
      BY <2>1, <3>2, CountReserved
  <2>. QED
    BY <1>2, <2>2, <2>3
<1>5. new \in Seq(Row)
  <2>1. DOMAIN new = 1..Len(old) /\ Len(old) \in Nat
    BY <1>1, <1>3
  <2>2. new = [i \in DOMAIN old |-> new[i]]
    BY DEF Reserve
  <2>. HIDE DEF new
  <2>3. new \in [1..Len(old) -> Row]
    BY <1>3, <1>4, <2>1, <2>2
  <2>. QED
    BY <2>1, <2>3, SeqDef
<1>. QED
  BY <1>1, <1>3, <1>4, <1>5 DEF old

LEMMA ProposeKept ==
    ASSUME TypeOK, NEW table \in Seq(Row), NEW acc \in Proposed(table), NEW t \in Task
    PROVE  ProposeTask(acc, t) \in Proposed(table)
<1>. DEFINE ws == Offered(acc.table, t)
            msg == SchedulingP(t, Me, [i \in DOMAIN ws |-> [id |-> OwnId(t), worker |-> ws[i]]])
<1>1. acc.table \in Seq(Row) /\ acc.msgs \in Seq(Fine) /\ \A i \in DOMAIN acc.msgs : IsProposal(acc.msgs[i])
  BY DEF Proposed
<1>2. PICK n \in 0..MaxOffers : ws \in [1..n -> Worker]
  BY <1>1, OfferedWorkers
<1>. HIDE DEF ws
<1>3. msg \in Fine /\ IsProposal(msg)
  <2>1. [i \in DOMAIN ws |-> [id |-> OwnId(t), worker |-> ws[i]]] \in Offers
    BY <1>2 DEF Offers, Offer, OwnId, InnerId
  <2>2. Me \in Address
    BY NodeAssumption
  <2>3. msg \in Message /\ IsProposal(msg) /\ msg.kind = "Scheduling"
    BY <2>1, <2>2, MessagesSent DEF SchedulingP
  <2>. QED
    BY <2>3 DEF Fine
<1>. HIDE DEF msg
<1>4. CASE ws = <<>>
  BY <1>4 DEF ProposeTask, ws
<1>5. CASE ws # <<>>
  <2>1. ProposeTask(acc, t) = [table |-> Reserve(acc.table, ws), msgs |-> Append(acc.msgs, msg)]
    BY <1>5 DEF ProposeTask, ws, msg
  <2>2. /\ Append(acc.msgs, msg) \in Seq(Fine)
        /\ \A i \in DOMAIN Append(acc.msgs, msg) : IsProposal(Append(acc.msgs, msg)[i])
    BY <1>1, <1>3
  <2>. DEFINE new == Reserve(acc.table, ws)
              msgs == Append(acc.msgs, msg)
  <2>3. /\ new \in Seq(Row) /\ DOMAIN new = DOMAIN table
        /\ \A i \in DOMAIN table :
              /\ new[i].peer_id = table[i].peer_id
              /\ \A u \in Task : Count(new[i].slots, u) = Count(table[i].slots, u)
    BY ReserveKept
  <2>4. msgs \in Seq(Fine) /\ \A i \in DOMAIN msgs : IsProposal(msgs[i])
    BY <2>2
  <2>. HIDE DEF new, msgs
  <2>5. [table |-> new, msgs |-> msgs] \in Proposed(table)
    BY <2>3, <2>4 DEF Proposed
  <2>. QED
    BY <2>1, <2>5 DEF new, msgs
<1>. QED
  BY <1>4, <1>5

ProposeSteps(it, start, order) ==
    it = [s \in SUBSET DOMAIN order |->
            IF s = {} THEN start ELSE ProposeTask(it[s \ {Max(s)}], order[Max(s)])]

LEMMA TickProposes ==
    ASSUME TypeOK, NEW table \in Seq(Row), NEW start \in Proposed(table), NEW n \in Nat,
           NEW order \in [1..n -> Task]
    PROVE  FoldLeft(ProposeTask, start, order) \in Proposed(table)
<1>. DEFINE P == Proposed(table)
            step == [i \in 1..n |-> [acc \in P |-> ProposeTask(acc, order[i])]]
            it == CHOOSE it : ProposeSteps(it, start, order)
<1>1. step \in [1..n -> [P -> P]]
  BY ProposeKept
<1>. HIDE DEF P
<1>2. PICK g \in [SUBSET (1..n) -> P] : Iterates(g, start, step, n)
  <2>1. start \in P
    BY DEF P
  <2>. HIDE DEF step
  <2>. QED
    BY <1>1, <2>1, SomethingIterates
<1>3. \A s \in SUBSET (1..n) :
         g[s] = IF s = {} THEN start ELSE ProposeTask(g[s \ {Max(s)}], order[Max(s)])
  <2>. SUFFICES ASSUME NEW s \in SUBSET (1..n), s # {}
                PROVE  g[s] = ProposeTask(g[s \ {Max(s)}], order[Max(s)])
    BY <1>2 DEF Iterates
  <2>1. Max(s) \in 1..n
    BY GreatestIn
  <2>2. g[s \ {Max(s)}] \in P
    OBVIOUS
  <2>. QED
    BY <1>2, <2>1, <2>2 DEF Iterates
<1>4. ProposeSteps(g, start, order)
  BY <1>3 DEF ProposeSteps
<1>5. ProposeSteps(it, start, order)
  BY <1>4
<1>. HIDE DEF it
<1>6. FoldLeft(ProposeTask, start, order) = it[1..n]
  BY DEF FoldLeft, MapThenFoldSet, ProposeSteps, it
<1>. DEFINE Good == {i \in 0..n : it[1..i] \in P}
<1>7. 0 \in Good
  BY <1>5 DEF ProposeSteps, P
<1>8. ASSUME NEW i \in 1..n, i - 1 \in Good PROVE i \in Good
  <2>1. Max(1..i) = i /\ (1..i) \ {i} = 1..(i - 1)
    BY GreatestOfInterval
  <2>2. 1..i \in SUBSET (1..n) /\ 1..i # {}
    <3>. HIDE DEF Good, step
    <3>1. i \in 1..i /\ \A k \in 1..i : k \in 1..n
      OBVIOUS
    <3>. QED
      BY <3>1
  <2>3. it[1..i] = ProposeTask(it[1..(i - 1)], order[i])
    BY <1>5, <2>1, <2>2 DEF ProposeSteps
  <2>4. it[1..(i - 1)] \in P
    BY <1>8
  <2>. QED
    BY <2>3, <2>4, ProposeKept DEF P
<1>9. 0..n \subseteq Good
  <2>. HIDE DEF Good
  <2>. QED
    BY <1>7, <1>8, IndexInduction
<1>. QED
  BY <1>6, <1>9 DEF P

------------------------------------------------------------------------------
(* The invariant of the node, but for the replicas and the slots *)

Rows(table) == table \in Seq(Row) /\ Distinct(table)

NodeInv ==
    /\ ChainInv /\ EngineInv
    /\ Rows(workers)
    /\ inner \in Seq(Fine) /\ Len(inner) <= ChannelSize
    /\ \A w \in Worker, t \in Task : CountIn(workers, w, t) >= 1 => Known(t)
    /\ dead \in {"none", "status", "worker"}

LEMMA TableIs ==
    /\ \A w : Position(w) = PlaceIn(workers, w)
    /\ \A w, t : SlotCount(w, t) = CountIn(workers, w, t)
    /\ \A w, t : SlotCount(w, t)' = CountIn(workers', w, t)
<1>1. \A w : Position(w) = PlaceIn(workers, w)
  BY DEF Position, PlaceIn, SelectInSeq
<1>2. \A w, t : SlotCount(w, t) = CountIn(workers, w, t)
  BY <1>1 DEF SlotCount, CountIn, IsKnown, SlotsOf
<1>3. \A w : Position(w)' = PlaceIn(workers', w)
  BY DEF Position, PlaceIn, SelectInSeq
<1>4. \A w, t : SlotCount(w, t)' = CountIn(workers', w, t)
  BY <1>3 DEF SlotCount, CountIn, IsKnown, SlotsOf
<1>. QED
  BY <1>1, <1>2, <1>4

(* What the channel will make of the slots of w for t *)
Ahead(w, t) == Left(CountIn(workers, w, t), inner, w, t)

LEMMA ExpectedIs ==
    /\ \A w, t : Expected(w, t) = Ahead(w, t)
    /\ \A w, t : Expected(w, t)' = Ahead(w, t)'
<1>1. \A w, t : Expected(w, t) = Ahead(w, t)
  BY TableIs DEF Expected, Ahead, Left, FoldLeft, MapThenFoldSet
<1>2. \A w, t : Expected(w, t)' = Ahead(w, t)'
  BY TableIs DEF Expected, Ahead, Left, FoldLeft, MapThenFoldSet
<1>. QED
  BY <1>1, <1>2

LEMMA KnownRow ==
    ASSUME Rows(workers), NEW w
    PROVE  /\ IsKnown(w) <=> Listed(workers, w)
           /\ IsKnown(w) =>
                 /\ Position(w) \in DOMAIN workers /\ workers[Position(w)].peer_id = w
                 /\ SlotsOf(w) \in Assignments /\ w \in Worker
                 /\ \A t : CountIn(workers, w, t) = Count(SlotsOf(w), t)
           /\ ~IsKnown(w) => \A t : CountIn(workers, w, t) = 0
           /\ \A t : CountIn(workers, w, t) \in Nat
<1>1. workers \in Seq(Row) /\ Distinct(workers) /\ Position(w) = PlaceIn(workers, w)
  BY TableIs DEF Rows
<1>2. IsKnown(w) <=> Listed(workers, w)
  BY <1>1, PlaceFound DEF IsKnown
<1>3. ASSUME IsKnown(w)
      PROVE  /\ Position(w) \in DOMAIN workers /\ workers[Position(w)].peer_id = w
             /\ SlotsOf(w) \in Assignments /\ w \in Worker
             /\ \A t : CountIn(workers, w, t) = Count(SlotsOf(w), t)
  <2>1. PICK i \in DOMAIN workers : workers[i].peer_id = w
    BY <1>2, <1>3 DEF Listed
  <2>2. Position(w) = i
    BY <1>1, <2>1, PlaceFound
  <2>3. workers[i] \in Row
    BY <1>1
  <2>4. SlotsOf(w) \in Assignments /\ w \in Worker
    BY <2>1, <2>2, <2>3 DEF SlotsOf, Row
  <2>5. \A t : CountIn(workers, w, t) = Count(SlotsOf(w), t)
    BY <1>1, <2>1, <2>2, CountInRow DEF SlotsOf
  <2>. QED
    BY <2>1, <2>2, <2>4, <2>5
<1>4. \A t : CountIn(workers, w, t) \in Nat /\ (~IsKnown(w) => CountIn(workers, w, t) = 0)
  BY <1>1, <1>2, CountInRow
<1>. QED
  BY <1>2, <1>3, <1>4

(* The slots of a known worker are changed. *)
LEMMA RowUpdated ==
    ASSUME Rows(workers), NEW w, IsKnown(w), NEW slots \in Assignments,
           workers' = Update(w, slots)
    PROVE  /\ Rows(workers')
           /\ \A v, t : CountIn(workers', v, t) = IF v = w THEN Count(slots, t)
                                                           ELSE CountIn(workers, v, t)
<1>1. /\ workers \in Seq(Row) /\ Distinct(workers)
      /\ Position(w) \in DOMAIN workers /\ workers[Position(w)].peer_id = w
  BY KnownRow DEF Rows
<1>. DEFINE p == Position(w)
            new == [workers EXCEPT ![p].slots = slots]
<1>2. workers' = new
  BY DEF Update
<1>. HIDE DEF p
<1>3. /\ new \in Seq(Row) /\ Distinct(new) /\ DOMAIN new = DOMAIN workers
      /\ \A i \in DOMAIN workers : new[i].peer_id = workers[i].peer_id
      /\ \A v, t : CountIn(new, v, t) = IF v = w THEN Count(slots, t)
                                                 ELSE CountIn(workers, v, t)
  <2>1. p \in DOMAIN workers /\ workers[p].peer_id = w
    BY <1>1 DEF p
  <2>2. new \in Seq(Row) /\ Distinct(new) /\ DOMAIN new = DOMAIN workers
    BY <1>1, <2>1, TableUpdated
  <2>3. \A i \in DOMAIN workers : new[i].peer_id = workers[i].peer_id
    BY <1>1, <2>1, TableUpdated
  <2>4. \A v, t : CountIn(new, v, t) = IF v = w THEN Count(slots, t) ELSE CountIn(workers, v, t)
    BY <1>1, <2>1, TableUpdated
  <2>. QED
    BY <2>2, <2>3, <2>4
<1>. HIDE DEF new
<1>. QED
  BY <1>2, <1>3 DEF Rows

(* What a step of the node, which is not one of the engine, does for w and  *)
(* t: slots are only given back, the failure or the completion that goes    *)
(* with it is sent or noted, and the events in the channel keep their order.*)
Follows(w, t) ==
    /\ Ahead(w, t)' <= Ahead(w, t)
    /\ TakenBack(inner', w, t) => TakenBack(inner, w, t)
    /\ Alive' => \/ Ahead(w, t)' = Ahead(w, t)
                 \/ SentIn(inner', w, t)
                 \/ <<w, t>> \in completed'
    /\ <<w, t>> \in completed =>
          \/ <<w, t>> \in completed'
          \/ Ahead(w, t)' >= 1
          \/ TakenBack(inner', w, t)
    /\ SentIn(inner, w, t) =>
          \/ SentIn(inner', w, t)
          \/ ConsumeProposal /\ Reports(Head(inner), w, t)

Follow ==
    /\ Rows(workers')
    /\ inner' \in Seq(Fine) /\ Len(inner') <= ChannelSize
    /\ dead' \in {"none", "status", "worker"}
    /\ \A w \in Worker, t \in Task : /\ CountIn(workers', w, t) >= 1 => Known(t)
                                     /\ Follows(w, t)

LEMMA ProposalsFollow ==
    ASSUME NodeInv, Rows(workers'), dead' \in {"none", "status", "worker"},
           completed \subseteq completed',
           NEW msgs \in Seq(Fine), \A i \in DOMAIN msgs : IsProposal(msgs[i]),
           Send(inner, msgs),
           \A w \in Worker, t \in Task :
              /\ CountIn(workers', w, t) <= CountIn(workers, w, t)
              /\ Alive' => \/ CountIn(workers', w, t) = CountIn(workers, w, t)
                           \/ SentIn(msgs, w, t)
                           \/ <<w, t>> \in completed'
    PROVE  Follow
<1>1. /\ inner \in Seq(Fine) /\ inner' = inner \o msgs /\ Len(inner) + Len(msgs) <= ChannelSize
      /\ Rows(workers)
      /\ \A w \in Worker, t \in Task : CountIn(workers, w, t) >= 1 => Known(t)
  BY DEF NodeInv, Send
<1>2. inner' \in Seq(Fine) /\ Len(inner') <= ChannelSize
  BY <1>1, ConcatProperties
<1>3. ASSUME NEW w \in Worker, NEW t \in Task
      PROVE  (CountIn(workers', w, t) >= 1 => Known(t)) /\ Follows(w, t)
  <2>1. CountIn(workers, w, t) \in Nat /\ CountIn(workers', w, t) \in Nat
    BY <1>1, CountInRow DEF Rows
  <2>2. Ahead(w, t)' = Left(CountIn(workers', w, t), inner, w, t)
    <3>1. Ahead(w, t)' = Left(CountIn(workers', w, t), inner \o msgs, w, t)
      BY <1>1 DEF Ahead
    <3>. DEFINE n == CountIn(workers', w, t)
    <3>2. n \in Nat
      BY <2>1
    <3>. HIDE DEF n
    <3>3. Left(n, inner \o msgs, w, t) = Left(n, inner, w, t)
      <4>1. \A i \in DOMAIN msgs : msgs[i] \notin {AssignedE(t, w), UnassignedE(t, w)}
        BY NoEvent
      <4>. QED
        BY <1>1, <3>2, <4>1, LeftOfOthers
    <3>. QED
      BY <3>1, <3>2, <3>3 DEF n
  <2>3. Ahead(w, t)' <= Ahead(w, t)
    BY <1>1, <2>1, <2>2, LeftMonotone DEF Ahead
  <2>4. CountIn(workers', w, t) = CountIn(workers, w, t) => Ahead(w, t)' = Ahead(w, t)
    BY <2>2 DEF Ahead
  <2>5. /\ TakenBack(inner', w, t) => TakenBack(inner, w, t)
        /\ SentIn(inner, w, t) \/ SentIn(msgs, w, t) => SentIn(inner', w, t)
    BY <1>1, ChannelExtended
  <2>6. Follows(w, t)
    BY <2>3, <2>4, <2>5 DEF Follows
  <2>7. CountIn(workers', w, t) >= 1 => Known(t)
    <3>1. CountIn(workers', w, t) <= CountIn(workers, w, t)
      OBVIOUS
    <3>2. CountIn(workers', w, t) >= 1 => CountIn(workers, w, t) >= 1
      BY <2>1, <3>1
    <3>. QED
      BY <1>1, <3>2
  <2>. QED
    BY <2>6, <2>7
<1>. QED
  BY <1>2, <1>3 DEF Follow

(* Nothing is sent. *)
LEMMA NothingFollows ==
    ASSUME NodeInv, Rows(workers'), dead' \in {"none", "status", "worker"},
           completed \subseteq completed', inner' = inner,
           \A w \in Worker, t \in Task :
              /\ CountIn(workers', w, t) <= CountIn(workers, w, t)
              /\ Alive' => CountIn(workers', w, t) = CountIn(workers, w, t)
    PROVE  Follow
<1>1. Send(inner, <<>>)
  BY DEF NodeInv, Send
<1>2. <<>> \in Seq(Fine) /\ \A i \in DOMAIN <<>> : IsProposal(<<>>[i])
  OBVIOUS
<1>. QED
  BY <1>1, <1>2, ProposalsFollow

(* A count that is what the first event makes of it, once it is handled *)
LEMMA HandledAhead ==
    ASSUME NodeInv, inner # <<>>, inner' = Tail(inner), NEW w, NEW t,
           CountIn(workers', w, t) = Handled(CountIn(workers, w, t), Head(inner), w, t)
    PROVE  Ahead(w, t)' = Ahead(w, t)
<1>1. CountIn(workers, w, t) \in Nat /\ inner \in Seq(Fine)
  BY KnownRow DEF NodeInv
<1>2. Ahead(w, t) = Left(Handled(CountIn(workers, w, t), Head(inner), w, t), Tail(inner), w, t)
  BY <1>1, LeftTail DEF Ahead
<1>3. Ahead(w, t)' = Left(CountIn(workers', w, t), Tail(inner), w, t)
  BY DEF Ahead
<1>. QED
  BY <1>2, <1>3

LEMMA ConsumedProposalFollows ==
    ASSUME NodeInv, ConsumeProposal
    PROVE  Follow
<1>1. /\ Alive /\ inner # <<>> /\ inner' = Tail(inner)
      /\ UNCHANGED <<workers, running, completed, dead, ticks, joins, external>>
      /\ Head(inner).kind \in {"NewTask", "Scheduling", "Failure", "Checked", "Completed"}
  BY DEF ConsumeProposal, Consuming
<1>2. /\ Rows(workers) /\ inner \in Seq(Fine) /\ Len(inner) <= ChannelSize
      /\ dead \in {"none", "status", "worker"}
      /\ \A w \in Worker, t \in Task : CountIn(workers, w, t) >= 1 => Known(t)
  BY DEF NodeInv
<1>3. inner' \in Seq(Fine) /\ Len(inner') <= ChannelSize
  <2>1. Len(Tail(inner)) = Len(inner) - 1 /\ Tail(inner) \in Seq(Fine) /\ Len(inner) \in Nat
    BY <1>1, <1>2, ChannelConsumed
  <2>2. ChannelSize \in Nat
    BY NodeAssumption
  <2>. QED
    BY <1>1, <1>2, <2>1, <2>2
<1>4. IsProposal(Head(inner))
  BY <1>1 DEF IsProposal
<1>5. ASSUME NEW w \in Worker, NEW t \in Task PROVE Follows(w, t)
  <2>1. Ahead(w, t)' = Ahead(w, t)
    <3>1. CountIn(workers, w, t) \in Nat
      BY <1>2, KnownRow
    <3>2. CountIn(workers', w, t) = CountIn(workers, w, t)
      BY <1>1
    <3>3. Handled(CountIn(workers, w, t), Head(inner), w, t) = CountIn(workers, w, t)
      BY <1>4, <3>1, NoEvent, HandledIs
    <3>. QED
      BY <1>1, <3>2, <3>3, HandledAhead
  <2>2. Ahead(w, t) \in Nat
    <3>1. CountIn(workers, w, t) \in Nat
      BY <1>2, KnownRow
    <3>. QED
      BY <1>2, <3>1, LeftType DEF Ahead
  <2>3. /\ TakenBack(inner', w, t) => TakenBack(inner, w, t)
        /\ SentIn(inner, w, t) => SentIn(inner', w, t) \/ Reports(Head(inner), w, t)
    BY <1>1, <1>2, ChannelConsumed
  <2>. QED
    BY <1>1, <2>1, <2>2, <2>3 DEF Follows
<1>6. Rows(workers')
  BY <1>1, <1>2
<1>7. \A w \in Worker, t \in Task : CountIn(workers', w, t) >= 1 => Known(t)
  BY <1>1, <1>2
<1>. QED
  BY <1>1, <1>2, <1>3, <1>5, <1>6, <1>7 DEF Follow

LEMMA ConsumedUnassignedFollows ==
    ASSUME NodeInv, ConsumeUnassigned
    PROVE  Follow
<1>. DEFINE e == Head(inner)
<1>1. /\ Alive /\ inner # <<>> /\ inner' = Tail(inner) /\ e.kind = "Unassigned"
      /\ UNCHANGED <<running, completed, dead, ticks, joins, external>>
      /\ workers' = IF IsKnown(e.worker)
                    THEN Update(e.worker, unassign_slot(SlotsOf(e.worker), e.task)) ELSE workers
  BY DEF ConsumeUnassigned, Consuming
<1>2. /\ Rows(workers) /\ inner \in Seq(Fine) /\ Len(inner) <= ChannelSize
      /\ dead \in {"none", "status", "worker"}
      /\ \A w \in Worker, t \in Task : CountIn(workers, w, t) >= 1 => Known(t)
  BY DEF NodeInv
<1>3. Len(Tail(inner)) = Len(inner) - 1 /\ Tail(inner) \in Seq(Fine) /\ e \in Fine
  BY <1>1, <1>2, ChannelConsumed
<1>4. inner' \in Seq(Fine) /\ Len(inner') <= ChannelSize
  <2>1. Len(inner) \in Nat /\ ChannelSize \in Nat
    BY <1>2, NodeAssumption
  <2>. QED
    BY <1>1, <1>2, <1>3, <2>1
<1>5. e.task \in Task /\ e.worker \in Worker /\ e = UnassignedE(e.task, e.worker)
  <2>1. e \in Message
    BY <1>3 DEF Fine
  <2>. QED
    BY <1>1, <2>1, MessageShape
<1>. HIDE DEF e
<1>6. /\ Rows(workers')
      /\ \A w \in Worker, t \in Task :
            CountIn(workers', w, t) = Handled(CountIn(workers, w, t), e, w, t)
  <2>1. ASSUME NEW w \in Worker, NEW t \in Task
        PROVE  /\ CountIn(workers, w, t) \in Nat
               /\ Handled(CountIn(workers, w, t), e, w, t) =
                     IF w = e.worker /\ t = e.task
                     THEN (IF CountIn(workers, w, t) > 0 THEN CountIn(workers, w, t) - 1 ELSE 0)
                     ELSE CountIn(workers, w, t)
    <3>1. CountIn(workers, w, t) \in Nat
      BY <1>2, KnownRow
    <3>2. e = UnassignedE(t, w) <=> w = e.worker /\ t = e.task
      BY <1>5 DEF UnassignedE
    <3>3. e # AssignedE(t, w)
      BY <1>5 DEF UnassignedE, AssignedE
    <3>. QED
      BY <3>1, <3>2, <3>3, HandledIs
  <2>2. CASE ~IsKnown(e.worker)
    <3>1. workers' = workers /\ \A t : CountIn(workers, e.worker, t) = 0
      BY <1>1, <1>2, <2>2, KnownRow
    <3>2. Rows(workers')
      BY <1>1, <1>2, <3>1
    <3>3. \A w \in Worker, t \in Task :
             CountIn(workers', w, t) = Handled(CountIn(workers, w, t), e, w, t)
      BY <2>1, <3>1
    <3>. QED
      BY <3>2, <3>3
  <2>3. CASE IsKnown(e.worker)
    <3>. DEFINE slots == unassign_slot(SlotsOf(e.worker), e.task)
    <3>1. /\ SlotsOf(e.worker) \in Assignments
          /\ \A t : CountIn(workers, e.worker, t) = Count(SlotsOf(e.worker), t)
      BY <1>2, <2>3, KnownRow
    <3>2. /\ slots \in Assignments
          /\ \A t \in Task : Count(slots, t) =
                IF t = e.task /\ Count(SlotsOf(e.worker), e.task) > 0
                THEN Count(SlotsOf(e.worker), t) - 1 ELSE Count(SlotsOf(e.worker), t)
      BY <1>5, <3>1, CountUnassigned
    <3>3. workers' = Update(e.worker, slots)
      BY <1>1, <2>3
    <3>. HIDE DEF slots
    <3>4. /\ Rows(workers')
          /\ \A v, t : CountIn(workers', v, t) = IF v = e.worker THEN Count(slots, t)
                                                                 ELSE CountIn(workers, v, t)
      BY <1>2, <2>3, <3>2, <3>3, RowUpdated
    <3>5. ASSUME NEW w \in Worker, NEW t \in Task
          PROVE  CountIn(workers', w, t) = Handled(CountIn(workers, w, t), e, w, t)
      <4>1. CASE w = e.worker
        <5>1. /\ CountIn(workers', w, t) = Count(slots, t)
              /\ CountIn(workers, w, t) = Count(SlotsOf(e.worker), t)
          BY <3>1, <3>4, <4>1
        <5>2. Count(slots, t) = IF t = e.task /\ Count(SlotsOf(e.worker), e.task) > 0
                                THEN Count(SlotsOf(e.worker), t) - 1
                                ELSE Count(SlotsOf(e.worker), t)
          BY <3>2
        <5>. QED
          BY <2>1, <4>1, <5>1, <5>2
      <4>2. CASE w # e.worker
        BY <2>1, <3>4, <4>2
      <4>. QED
        BY <4>1, <4>2
    <3>. QED
      BY <1>1, <3>4, <3>5
  <2>. QED
    BY <2>2, <2>3
<1>7. ASSUME NEW w \in Worker, NEW t \in Task
      PROVE  (CountIn(workers', w, t) >= 1 => Known(t)) /\ Follows(w, t)
  <2>1. CountIn(workers, w, t) \in Nat
    BY <1>2, KnownRow
  <2>2. Ahead(w, t)' = Ahead(w, t)
    BY <1>1, <1>6, HandledAhead DEF e
  <2>3. Ahead(w, t) \in Nat
    BY <1>2, <2>1, LeftType DEF Ahead
  <2>4. /\ TakenBack(inner', w, t) => TakenBack(inner, w, t)
        /\ SentIn(inner, w, t) => SentIn(inner', w, t)
    BY <1>1, <1>2, ChannelConsumed DEF e, Reports
  <2>5. Follows(w, t)
    BY <1>1, <2>2, <2>3, <2>4 DEF Follows
  <2>6. CountIn(workers', w, t) <= CountIn(workers, w, t) /\ CountIn(workers', w, t) \in Nat
    <3>. DEFINE n == CountIn(workers, w, t)
    <3>1. CountIn(workers', w, t) = Handled(n, e, w, t) /\ n \in Nat
      BY <1>6, <2>1
    <3>2. e # AssignedE(t, w)
      BY <1>5 DEF UnassignedE, AssignedE
    <3>. HIDE DEF n
    <3>3. Handled(n, e, w, t) \in Nat /\ Handled(n, e, w, t) <= n
      BY <3>1, <3>2, HandledIs
    <3>. QED
      BY <3>1, <3>3 DEF n
  <2>7. CountIn(workers', w, t) >= 1 => CountIn(workers, w, t) >= 1
    BY <2>1, <2>6
  <2>. QED
    BY <1>2, <2>5, <2>7
<1>. QED
  BY <1>1, <1>2, <1>4, <1>6, <1>7 DEF Follow

LEMMA ConsumedAssignedFollows ==
    ASSUME NodeInv, ConsumeAssigned
    PROVE  Follow
<1>. DEFINE e == Head(inner)
            t0 == e.task
            w0 == e.worker
            room == IsKnown(w0) /\ Free(workers[Position(w0)])
<1>2. /\ Rows(workers) /\ inner \in Seq(Fine) /\ Len(inner) <= ChannelSize
      /\ dead \in {"none", "status", "worker"}
      /\ \A w \in Worker, t \in Task : CountIn(workers, w, t) >= 1 => Known(t)
  BY DEF NodeInv
<1>3. inner # <<>> /\ e.kind = "Assigned" /\ Alive
  BY DEF ConsumeAssigned, Consuming
<1>4. Len(Tail(inner)) = Len(inner) - 1 /\ Tail(inner) \in Seq(Fine) /\ e \in Fine
  BY <1>2, <1>3, ChannelConsumed
<1>5. t0 \in Task /\ w0 \in Worker /\ e = AssignedE(t0, w0) /\ Known(t0)
  <2>1. e \in Message /\ Known(t0)
    BY <1>3, <1>4 DEF Fine
  <2>. QED
    BY <1>3, <2>1, MessageShape
<1>1. /\ UNCHANGED <<ticks, joins, external, dead>>
      /\ room => /\ workers' = Update(w0, assign_slot(SlotsOf(w0), t0))
                 /\ completed' = completed \ {<<w0, t0>>}
                 /\ inner' = Tail(inner)
      /\ ~room => /\ Send(Tail(inner), <<AbortedP(t0, w0)>>)
                  /\ UNCHANGED <<workers, completed>>
  BY <1>5 DEF ConsumeAssigned
<1>. HIDE DEF e, t0, w0
<1>6. ASSUME NEW w \in Worker, NEW t \in Task
      PROVE  /\ CountIn(workers, w, t) \in Nat
             /\ Handled(CountIn(workers, w, t), e, w, t) =
                   IF w = w0 /\ t = t0 THEN CountIn(workers, w, t) + 1
                                       ELSE CountIn(workers, w, t)
             /\ Ahead(w, t) = Left(Handled(CountIn(workers, w, t), e, w, t), Tail(inner), w, t)
             /\ Ahead(w, t) \in Nat
  <2>1. CountIn(workers, w, t) \in Nat
    BY <1>2, KnownRow
  <2>2. e = AssignedE(t, w) <=> w = w0 /\ t = t0
    BY <1>5 DEF AssignedE
  <2>3. e # UnassignedE(t, w)
    BY <1>5 DEF UnassignedE, AssignedE
  <2>4. Ahead(w, t) = Left(Handled(CountIn(workers, w, t), e, w, t), Tail(inner), w, t)
    BY <1>2, <1>3, <2>1, LeftTail DEF Ahead, e
  <2>5. Ahead(w, t) \in Nat
    BY <1>2, <2>1, LeftType DEF Ahead
  <2>6. Handled(CountIn(workers, w, t), e, w, t) =
           IF w = w0 /\ t = t0 THEN CountIn(workers, w, t) + 1 ELSE CountIn(workers, w, t)
    BY <2>1, <2>2, <2>3, HandledIs
  <2>. QED
    BY <2>1, <2>4, <2>5, <2>6
<1>7. CASE room
  <2>. DEFINE slots == assign_slot(SlotsOf(w0), t0)
  <2>1. /\ SlotsOf(w0) \in Assignments
        /\ Has(SlotsOf(w0), "Available") \/ Has(SlotsOf(w0), "Pending")
        /\ \A t : CountIn(workers, w0, t) = Count(SlotsOf(w0), t)
    BY <1>2, <1>7, KnownRow DEF Free, SlotsOf
  <2>2. /\ slots \in Assignments
        /\ \A t \in Task : Count(slots, t) = IF t = t0 THEN Count(SlotsOf(w0), t) + 1
                                                       ELSE Count(SlotsOf(w0), t)
    BY <1>5, <2>1, CountAssigned
  <2>3. workers' = Update(w0, slots) /\ completed' = completed \ {<<w0, t0>>} /\ inner' = Tail(inner)
    BY <1>1, <1>7
  <2>. HIDE DEF slots
  <2>4. /\ Rows(workers')
        /\ \A v, t : CountIn(workers', v, t) = IF v = w0 THEN Count(slots, t)
                                                         ELSE CountIn(workers, v, t)
    BY <1>2, <1>7, <2>2, <2>3, RowUpdated
  <2>5. ASSUME NEW w \in Worker, NEW t \in Task
        PROVE  CountIn(workers', w, t) = Handled(CountIn(workers, w, t), e, w, t)
    <3>1. CASE w = w0
      <4>1. CountIn(workers', w, t) = Count(slots, t) /\ CountIn(workers, w, t) = Count(SlotsOf(w0), t)
        BY <2>1, <2>4, <3>1
      <4>2. Count(slots, t) = IF t = t0 THEN Count(SlotsOf(w0), t) + 1 ELSE Count(SlotsOf(w0), t)
        BY <2>2
      <4>. QED
        BY <1>6, <3>1, <4>1, <4>2
    <3>2. CASE w # w0
      BY <1>6, <2>4, <3>2
    <3>. QED
      BY <3>1, <3>2
  <2>6. ASSUME NEW w \in Worker, NEW t \in Task
        PROVE  (CountIn(workers', w, t) >= 1 => Known(t)) /\ Follows(w, t)
    <3>1. Ahead(w, t)' = Ahead(w, t) /\ Ahead(w, t) \in Nat
      BY <1>3, <1>6, <2>3, <2>5, HandledAhead DEF e
    <3>2. TakenBack(inner', w, t) => TakenBack(inner, w, t)
      BY <1>2, <1>3, <2>3, ChannelConsumed
    <3>3. SentIn(inner, w, t) => SentIn(inner', w, t)
      BY <1>2, <1>3, <2>3, ChannelConsumed DEF e, Reports
    <3>4. CountIn(workers', w, t) = IF w = w0 /\ t = t0 THEN CountIn(workers, w, t) + 1
                                                        ELSE CountIn(workers, w, t)
      BY <1>6, <2>5
    <3>5. ASSUME w = w0, t = t0 PROVE Ahead(w, t)' >= 1 \/ TakenBack(inner', w, t)
      <4>1. CountIn(workers', w, t) \in Nat /\ CountIn(workers', w, t) >= 1
        BY <1>6, <3>4, <3>5
      <4>. DEFINE n == CountIn(workers', w, t)
      <4>2. Ahead(w, t)' = Left(n, Tail(inner), w, t)
        BY <2>3 DEF Ahead
      <4>3. n \in Nat /\ n >= 1
        BY <4>1
      <4>. HIDE DEF n
      <4>4. Left(n, Tail(inner), w, t) >= 1 \/ TakenBack(Tail(inner), w, t)
        BY <1>4, <4>3, LeftUnlessTakenBack
      <4>. QED
        BY <2>3, <4>2, <4>4
    <3>6. <<w, t>> \in completed => <<w, t>> \in completed' \/ (w = w0 /\ t = t0)
      BY <2>3
    <3>7. Follows(w, t)
      BY <3>1, <3>2, <3>3, <3>5, <3>6 DEF Follows
    <3>8. CountIn(workers', w, t) >= 1 => Known(t)
      BY <1>2, <1>5, <1>6, <3>4
    <3>. QED
      BY <3>7, <3>8
  <2>7. inner' \in Seq(Fine) /\ Len(inner') <= ChannelSize
    <3>1. Len(inner) \in Nat /\ ChannelSize \in Nat
      BY <1>2, NodeAssumption
    <3>. QED
      BY <1>2, <1>4, <2>3, <3>1
  <2>. QED
    BY <1>1, <1>2, <2>4, <2>6, <2>7 DEF Follow
<1>8. CASE ~room
  <2>. DEFINE msg == AbortedP(t0, w0)
  <2>1. msg \in Fine /\ IsProposal(msg) /\ Reports(msg, w0, t0)
    <3>1. nb_failures[t0] \in Nat
      BY <1>5 DEF NodeInv, ChainInv, IInv, TypeInv, TypeOK
    <3>. QED
      BY <1>5, <3>1, AbortedIsFine
  <2>2. /\ inner' = Tail(inner) \o <<msg>> /\ Len(Tail(inner)) + Len(<<msg>>) <= ChannelSize
        /\ UNCHANGED <<workers, completed>>
    BY <1>1, <1>8 DEF Send
  <2>. HIDE DEF msg
  <2>3. <<msg>> \in Seq(Fine) /\ \A i \in DOMAIN <<msg>> : IsProposal(<<msg>>[i])
    BY <2>1
  <2>4. inner' \in Seq(Fine) /\ Len(inner') <= ChannelSize
    BY <1>4, <2>2, <2>3, ConcatProperties
  <2>5. ASSUME NEW w \in Worker, NEW t \in Task PROVE Follows(w, t)
    <3>1. Ahead(w, t)' = Left(CountIn(workers, w, t), Tail(inner), w, t)
      <4>1. Ahead(w, t)' = Left(CountIn(workers, w, t), Tail(inner) \o <<msg>>, w, t)
        BY <2>2 DEF Ahead
      <4>2. \A i \in DOMAIN <<msg>> : <<msg>>[i] \notin {AssignedE(t, w), UnassignedE(t, w)}
        BY <2>3, NoEvent
      <4>3. CountIn(workers, w, t) \in Nat
        BY <1>6
      <4>. DEFINE n == CountIn(workers, w, t)
                  q == Tail(inner)
                  r == <<msg>>
      <4>4. /\ n \in Nat /\ q \in Seq(Fine) /\ r \in Seq(Fine)
            /\ \A i \in DOMAIN r : r[i] \notin {AssignedE(t, w), UnassignedE(t, w)}
        BY <1>4, <2>3, <4>2, <4>3
      <4>. HIDE DEF n, q, r
      <4>5. Left(n, q \o r, w, t) = Left(n, q, w, t)
        BY <4>4, LeftOfOthers
      <4>. QED
        BY <4>1, <4>5 DEF n, q, r
    <3>. DEFINE n == CountIn(workers, w, t)
                m == Handled(n, e, w, t)
    <3>2. /\ n \in Nat /\ m = (IF w = w0 /\ t = t0 THEN n + 1 ELSE n)
          /\ Ahead(w, t) = Left(m, Tail(inner), w, t) /\ Ahead(w, t) \in Nat
      BY <1>6
    <3>3. Ahead(w, t)' = Left(n, Tail(inner), w, t)
      BY <3>1
    <3>. HIDE DEF n, m
    <3>4. Left(n, Tail(inner), w, t) <= Left(m, Tail(inner), w, t)
      <4>1. n \in Nat /\ m \in Nat /\ n <= m /\ Tail(inner) \in Seq(Fine)
        BY <1>4, <3>2
      <4>. QED
        BY <4>1, LeftMonotone
    <3>5. Ahead(w, t)' <= Ahead(w, t)
      BY <3>2, <3>3, <3>4
    <3>6. Ahead(w, t)' = Ahead(w, t) \/ (w = w0 /\ t = t0)
      BY <3>2, <3>3
    <3>7. SentIn(<<msg>>, w0, t0)
      <4>1. 1 \in DOMAIN <<msg>> /\ <<msg>>[1] = msg
        OBVIOUS
      <4>. QED
        BY <2>1, <4>1 DEF SentIn
    <3>8. /\ TakenBack(inner', w, t) => TakenBack(Tail(inner), w, t)
          /\ SentIn(Tail(inner), w, t) \/ SentIn(<<msg>>, w, t) => SentIn(inner', w, t)
      BY <1>4, <2>2, <2>3, ChannelExtended
    <3>9. /\ TakenBack(Tail(inner), w, t) => TakenBack(inner, w, t)
          /\ SentIn(inner, w, t) => SentIn(Tail(inner), w, t)
      BY <1>2, <1>3, ChannelConsumed DEF e, Reports
    <3>10. (w = w0 /\ t = t0) => SentIn(inner', w, t)
      BY <3>7, <3>8
    <3>. QED
      BY <2>2, <3>5, <3>6, <3>8, <3>9, <3>10 DEF Follows
  <2>6. Rows(workers')
    BY <1>1, <1>2, <2>2
  <2>7. \A w \in Worker, t \in Task : CountIn(workers', w, t) >= 1 => Known(t)
    BY <1>2, <2>2
  <2>. QED
    BY <1>1, <1>2, <2>4, <2>5, <2>6, <2>7 DEF Follow
<1>. QED
  BY <1>7, <1>8

(* The tick reserves slots and offers them. *)
LEMMA TickFollows ==
    ASSUME NodeInv, Tick
    PROVE  Follow
<1>1. /\ UNCHANGED <<vars, running, completed, dead, joins, external>>
      /\ \E order \in SetToSeqs(ToPropose) :
            LET start == [table |-> [i \in DOMAIN workers |->
                                       [workers[i] EXCEPT !.slots = unreserve_all(@)]],
                          msgs |-> <<>>]
                end == FoldLeft(ProposeTask, start, order)
            IN  workers' = end.table /\ Send(inner, end.msgs)
  BY DEF Tick
<1>2. /\ TypeOK /\ Rows(workers) /\ workers \in Seq(Row) /\ Distinct(workers)
      /\ dead \in {"none", "status", "worker"}
  BY DEF NodeInv, ChainInv, IInv, TypeInv, Rows
<1>. DEFINE table == [i \in DOMAIN workers |-> [workers[i] EXCEPT !.slots = unreserve_all(@)]]
            start == [table |-> table, msgs |-> <<>>]
<1>3. PICK order \in SetToSeqs(ToPropose) :
         /\ workers' = FoldLeft(ProposeTask, start, order).table
         /\ Send(inner, FoldLeft(ProposeTask, start, order).msgs)
  BY <1>1
<1>4. start \in Proposed(workers)
  <2>1. ASSUME NEW i \in DOMAIN workers
        PROVE  /\ table[i] \in Row /\ table[i].peer_id = workers[i].peer_id
               /\ \A t \in Task : Count(table[i].slots, t) = Count(workers[i].slots, t)
    <3>1. workers[i] \in Row /\ workers[i].slots \in Assignments
      <4>1. workers[i] \in Row
        BY <1>2
      <4>. QED
        BY <4>1 DEF Row
    <3>2. unreserve_all(workers[i].slots) \in Assignments
      BY <3>1, CountReserved
    <3>. DEFINE slots == unreserve_all(workers[i].slots)
    <3>3. table[i] = [workers[i] EXCEPT !.slots = slots]
      OBVIOUS
    <3>4. \A t \in Task : Count(slots, t) = Count(workers[i].slots, t)
      BY <3>1, CountReserved
    <3>5. slots \in Assignments
      BY <3>2
    <3>. HIDE DEF slots, table
    <3>6. table[i] \in Row /\ table[i].peer_id = workers[i].peer_id /\ table[i].slots = slots
      BY <3>1, <3>3, <3>5 DEF Row
    <3>. QED
      BY <3>4, <3>6
  <2>2. DOMAIN table = DOMAIN workers /\ DOMAIN workers = 1..Len(workers) /\ Len(workers) \in Nat
    BY <1>2
  <2>3. table = [i \in 1..Len(workers) |-> table[i]]
    BY <2>2
  <2>. HIDE DEF table
  <2>4. table \in Seq(Row)
    <3>1. table \in [1..Len(workers) -> Row]
      BY <2>1, <2>2, <2>3
    <3>. QED
      BY <2>2, <3>1, SeqDef
  <2>5. <<>> \in Seq(Fine) /\ \A i \in DOMAIN <<>> : IsProposal(<<>>[i])
    OBVIOUS
  <2>. QED
    BY <2>1, <2>2, <2>4, <2>5 DEF Proposed
<1>5. \E n \in Nat : order \in [1..n -> Task]
  <2>1. ToPropose \in SUBSET Task
    BY DEF ToPropose
  <2>2. Cardinality(ToPropose) \in Nat
    BY <2>1, NodeAssumption, FS_Subset, FS_CardinalityType
  <2>3. order \in [1..Cardinality(ToPropose) -> ToPropose]
    BY DEF SetToSeqs
  <2>. QED
    BY <2>1, <2>2, <2>3
<1>. HIDE DEF start
<1>6. FoldLeft(ProposeTask, start, order) \in Proposed(workers)
  BY <1>2, <1>4, <1>5, TickProposes
<1>. DEFINE end == FoldLeft(ProposeTask, start, order)
<1>7. end \in Proposed(workers) /\ workers' = end.table /\ Send(inner, end.msgs)
  BY <1>3, <1>6
<1>. HIDE DEF end
<1>8. /\ workers' \in Seq(Row) /\ DOMAIN workers' = DOMAIN workers
      /\ \A i \in DOMAIN workers :
            /\ workers'[i].peer_id = workers[i].peer_id
            /\ \A t \in Task : Count(workers'[i].slots, t) = Count(workers[i].slots, t)
  BY <1>7 DEF Proposed
<1>9. /\ Distinct(workers')
      /\ \A w : \A t \in Task : CountIn(workers', w, t) = CountIn(workers, w, t)
  BY <1>2, <1>8, TableReserved
<1>10. Rows(workers')
  BY <1>1, <1>2, <1>8, <1>9 DEF Rows, Listed
<1>. DEFINE msgs == end.msgs
<1>11. msgs \in Seq(Fine) /\ (\A i \in DOMAIN msgs : IsProposal(msgs[i])) /\ Send(inner, msgs)
  BY <1>7 DEF Proposed
<1>. HIDE DEF msgs
<1>12. \A w \in Worker, t \in Task :
          CountIn(workers, w, t) \in Nat /\ CountIn(workers', w, t) <= CountIn(workers, w, t)
  BY <1>2, <1>9, KnownRow
<1>. QED
  BY <1>1, <1>2, <1>9, <1>10, <1>11, <1>12, ProposalsFollow

LEMMA LockFollows ==
    ASSUME NodeInv, UNCHANGED node
    PROVE  Follow
<1>1. /\ UNCHANGED <<workers, inner, completed, dead>>
      /\ Rows(workers) /\ dead \in {"none", "status", "worker"}
  BY DEF node, NodeInv
<1>2. \A w \in Worker, t \in Task :
         /\ CountIn(workers, w, t) \in Nat
         /\ CountIn(workers', w, t) = CountIn(workers, w, t)
  BY <1>1, KnownRow
<1>3. \A w \in Worker, t \in Task : CountIn(workers', w, t) <= CountIn(workers, w, t)
  BY <1>2
<1>. QED
  BY <1>1, <1>2, <1>3, NothingFollows

LEMMA NewFollows ==
    ASSUME NodeInv, NEW v \in Worker, WorkerNew(v)
    PROVE  Follow
<1>1. /\ workers' = IF IsKnown(v) THEN workers ELSE Append(workers, NewWorker(v))
      /\ UNCHANGED <<inner, completed, dead>>
      /\ Rows(workers) /\ dead \in {"none", "status", "worker"}
  BY DEF WorkerNew, NodeInv
<1>2. Rows(workers') /\ \A w : \A t \in Task : CountIn(workers', w, t) = CountIn(workers, w, t)
  <2>1. CASE IsKnown(v)
    BY <1>1, <2>1
  <2>2. CASE ~IsKnown(v)
    <3>. DEFINE new == Append(workers, NewWorker(v))
    <3>1. workers \in Seq(Row) /\ Distinct(workers) /\ ~Listed(workers, v)
      BY <1>1, <2>2, KnownRow DEF Rows
    <3>2. new \in Seq(Row) /\ Distinct(new)
      BY <3>1, TableExtended
    <3>3. \A w : \A t \in Task : CountIn(new, w, t) = CountIn(workers, w, t)
      BY <3>1, TableExtended
    <3>4. workers' = new
      BY <1>1, <2>2
    <3>. HIDE DEF new
    <3>. QED
      BY <3>2, <3>3, <3>4 DEF Rows
  <2>. QED
    BY <2>1, <2>2
<1>3. \A w \in Worker, t \in Task :
         /\ CountIn(workers, w, t) \in Nat
         /\ CountIn(workers', w, t) = CountIn(workers, w, t)
  BY <1>1, <1>2, KnownRow
<1>4. \A w \in Worker, t \in Task : CountIn(workers', w, t) <= CountIn(workers, w, t)
  BY <1>3
<1>. QED
  BY <1>1, <1>2, <1>3, <1>4, NothingFollows

(* The node dies before it does anything. *)
LEMMA DeadFollows ==
    ASSUME NodeInv, dead' \in {"status", "worker"}, UNCHANGED <<workers, inner, completed>>
    PROVE  Follow
<1>1. Rows(workers) /\ Rows(workers') /\ ~Alive'
  BY DEF NodeInv, Alive
<1>2. \A w \in Worker, t \in Task :
         /\ CountIn(workers, w, t) \in Nat
         /\ CountIn(workers', w, t) = CountIn(workers, w, t)
  BY <1>1, KnownRow
<1>3. \A w \in Worker, t \in Task : CountIn(workers', w, t) <= CountIn(workers, w, t)
  BY <1>2
<1>. QED
  BY <1>1, <1>2, <1>3, NothingFollows

(* A worker of the table goes: a failure is sent for every task in its slots. *)
LEMMA KnownGoneFollows ==
    ASSUME NodeInv, NEW v \in Worker, IsKnown(v), WorkerGone(v)
    PROVE  Follow
<1>. DEFINE assigned == Those(SlotsOf(v), Task)
            msgs == [i \in DOMAIN assigned |-> AbortedP(assigned[i], v)]
<1>1. /\ IsKnown(v) /\ UNCHANGED <<vars, completed, joins>>
      /\ IF \A i \in DOMAIN assigned : Known(assigned[i])
         THEN workers' = RemoveAt(workers, Position(v)) /\ Send(inner, msgs) /\ UNCHANGED dead
         ELSE dead' = "task" /\ UNCHANGED <<workers, inner>>
  BY DEF WorkerGone
<1>2. /\ Rows(workers) /\ workers \in Seq(Row) /\ Distinct(workers)
      /\ dead \in {"none", "status", "worker"} /\ nb_failures \in [Task -> Nat]
      /\ \A w \in Worker, t \in Task : CountIn(workers, w, t) >= 1 => Known(t)
  BY DEF NodeInv, Rows, ChainInv, IInv, TypeInv, TypeOK
<1>3. /\ Position(v) \in DOMAIN workers /\ workers[Position(v)].peer_id = v
      /\ SlotsOf(v) \in Assignments
      /\ \A t : CountIn(workers, v, t) = Count(SlotsOf(v), t)
  BY <1>1, <1>2, KnownRow
<1>. DEFINE slots == SlotsOf(v)
<1>4. slots \in Seq(Slot) /\ slots \in Assignments /\ \A t : CountIn(workers, v, t) = Count(slots, t)
  <2>1. slots \in Assignments
    BY <1>3
  <2>2. CpuCount \in Nat
    BY NodeAssumption
  <2>3. slots \in Seq(Slot)
    BY <2>1, <2>2, SeqDef DEF Assignments
  <2>. QED
    BY <1>3, <2>1, <2>3
<1>. HIDE DEF slots
<1>5. /\ assigned \in Seq(Wanted(Slot, slots, Task))
      /\ \A i \in DOMAIN slots : slots[i] \in Task => \E j \in DOMAIN assigned : assigned[j] = slots[i]
  BY <1>4, ThoseKept DEF slots
<1>. HIDE DEF assigned
<1>6. ASSUME NEW i \in DOMAIN assigned
      PROVE  assigned[i] \in Task /\ Known(assigned[i])
  <2>1. assigned[i] \in Wanted(Slot, slots, Task)
    BY <1>5
  <2>2. PICK k \in DOMAIN slots : slots[k] = assigned[i]
    BY <2>1 DEF Wanted
  <2>3. assigned[i] \in Task
    BY <2>1 DEF Wanted
  <2>4. Has(slots, assigned[i])
    BY <2>2 DEF Has
  <2>5. CountIn(workers, v, assigned[i]) >= 1
    BY <1>4, <2>4, CountType
  <2>. QED
    BY <1>2, <2>3, <2>5
<1>7. workers' = RemoveAt(workers, Position(v)) /\ Send(inner, msgs) /\ dead' = dead
  BY <1>1, <1>6
<1>8. ASSUME NEW i \in DOMAIN assigned
      PROVE  /\ msgs[i] \in Fine /\ IsProposal(msgs[i])
             /\ Reports(msgs[i], v, assigned[i])
  <2>. DEFINE t == assigned[i]
              msg == AbortedP(t, v)
  <2>1. t \in Task /\ Known(t) /\ msgs[i] = msg
    BY <1>6
  <2>. HIDE DEF t
  <2>2. nb_failures[t] \in Nat
    BY <1>2, <2>1
  <2>3. msg \in Fine /\ IsProposal(msg) /\ Reports(msg, v, t)
    BY <2>1, <2>2, AbortedIsFine
  <2>. HIDE DEF msg, msgs
  <2>. QED
    BY <2>1, <2>3 DEF t
<1>9. /\ msgs \in Seq(Fine) /\ DOMAIN msgs = DOMAIN assigned
      /\ \A i \in DOMAIN msgs : IsProposal(msgs[i])
  <2>1. DOMAIN assigned = 1..Len(assigned) /\ Len(assigned) \in Nat
    BY <1>5
  <2>2. DOMAIN msgs = DOMAIN assigned /\ msgs = [i \in DOMAIN assigned |-> msgs[i]]
    OBVIOUS
  <2>. HIDE DEF msgs
  <2>3. msgs \in [1..Len(assigned) -> Fine]
    BY <1>8, <2>1, <2>2
  <2>. QED
    BY <1>8, <2>1, <2>2, <2>3, SeqDef
<1>10. \A t \in Task : Has(slots, t) => SentIn(msgs, v, t)
  <2>. SUFFICES ASSUME NEW t \in Task, Has(slots, t) PROVE SentIn(msgs, v, t)
    OBVIOUS
  <2>1. PICK k \in DOMAIN slots : slots[k] = t
    BY DEF Has
  <2>2. PICK j \in DOMAIN assigned : assigned[j] = t
    BY <1>5, <2>1
  <2>. HIDE DEF msgs
  <2>. QED
    BY <1>8, <1>9, <2>2 DEF SentIn
<1>. HIDE DEF msgs
<1>. DEFINE p == Position(v)
            new == RemoveAt(workers, p)
<1>11. p \in DOMAIN workers /\ workers[p].peer_id = v /\ workers' = new
  BY <1>3, <1>7
<1>. HIDE DEF p
<1>12. new \in Seq(Row) /\ Distinct(new) /\ \A w : Listed(new, w) => Listed(workers, w)
  BY <1>2, <1>11, TableShortened
<1>13. \A w, t : CountIn(new, w, t) = IF w = v THEN 0 ELSE CountIn(workers, w, t)
  BY <1>2, <1>11, TableShortened
<1>. HIDE DEF new
<1>14. Rows(workers')
  BY <1>1, <1>2, <1>11, <1>12 DEF Rows
<1>15. ASSUME NEW w \in Worker, NEW t \in Task
       PROVE  /\ CountIn(workers', w, t) <= CountIn(workers, w, t)
              /\ CountIn(workers', w, t) = CountIn(workers, w, t) \/ SentIn(msgs, w, t)
  <2>1. CountIn(workers, w, t) \in Nat
    BY <1>2, KnownRow
  <2>2. CASE w = v
    <3>1. CountIn(workers', w, t) = 0 /\ CountIn(workers, w, t) = Count(slots, t)
      BY <1>4, <1>11, <1>13, <2>2
    <3>2. Count(slots, t) = 0 \/ Has(slots, t)
      BY <1>4, <2>1, <3>1, CountType
    <3>. QED
      BY <1>10, <2>1, <2>2, <3>1, <3>2
  <2>3. CASE w # v
    BY <1>11, <1>13, <2>1, <2>3
  <2>. QED
    BY <2>2, <2>3
<1>16. completed \subseteq completed' /\ dead' \in {"none", "status", "worker"}
  BY <1>1, <1>2, <1>7
<1>. QED
  BY <1>7, <1>9, <1>14, <1>15, <1>16, ProposalsFollow

LEMMA GoneFollows ==
    ASSUME NodeInv, NEW v \in Worker, WorkerGone(v)
    PROVE  Follow
<1>1. CASE IsKnown(v)
  BY <1>1, KnownGoneFollows
<1>2. CASE ~IsKnown(v)
  <2>1. dead' = "worker" /\ UNCHANGED <<workers, inner, completed>>
    BY <1>2 DEF WorkerGone
  <2>. QED
    BY <2>1, DeadFollows
<1>. QED
  BY <1>1, <1>2

(* The slot of a task is given back. *)
LEMMA SlotGivenBack ==
    ASSUME NodeInv, NEW v \in Worker, NEW u \in Task, IsKnown(v), Has(SlotsOf(v), u),
           workers' = Update(v, unassign_slot(SlotsOf(v), u))
    PROVE  /\ Rows(workers') /\ Known(u)
           /\ \A w \in Worker, t \in Task :
                 /\ CountIn(workers', w, t) <= CountIn(workers, w, t)
                 /\ CountIn(workers', w, t) = CountIn(workers, w, t) \/ (w = v /\ t = u)
<1>1. /\ Rows(workers)
      /\ \A w \in Worker, t \in Task : CountIn(workers, w, t) >= 1 => Known(t)
  BY DEF NodeInv
<1>. DEFINE old == SlotsOf(v)
            slots == unassign_slot(old, u)
<1>2. old \in Assignments /\ Has(old, u) /\ \A t : CountIn(workers, v, t) = Count(old, t)
  BY <1>1, KnownRow
<1>3. workers' = Update(v, slots)
  OBVIOUS
<1>. HIDE DEF old
<1>4. /\ slots \in Assignments
      /\ \A t \in Task : Count(slots, t) = IF t = u /\ Count(old, u) > 0 THEN Count(old, t) - 1
                                                                         ELSE Count(old, t)
  BY <1>2, CountUnassigned
<1>. HIDE DEF slots
<1>5. /\ Rows(workers')
      /\ \A w, t : CountIn(workers', w, t) = IF w = v THEN Count(slots, t)
                                                      ELSE CountIn(workers, w, t)
  BY <1>1, <1>3, <1>4, RowUpdated
<1>6. Known(u)
  <2>1. CountIn(workers, v, u) >= 1
    BY <1>2, CountType
  <2>. QED
    BY <1>1, <2>1
<1>7. ASSUME NEW w \in Worker, NEW t \in Task
      PROVE  /\ CountIn(workers', w, t) <= CountIn(workers, w, t)
             /\ CountIn(workers', w, t) = CountIn(workers, w, t) \/ (w = v /\ t = u)
  <2>1. CountIn(workers, w, t) \in Nat
    BY <1>1, KnownRow
  <2>2. CASE w = v
    <3>1. CountIn(workers', w, t) = Count(slots, t) /\ CountIn(workers, w, t) = Count(old, t)
      BY <1>2, <1>5, <2>2
    <3>2. Count(slots, t) = IF t = u /\ Count(old, u) > 0 THEN Count(old, t) - 1 ELSE Count(old, t)
      BY <1>4
    <3>. QED
      BY <2>1, <2>2, <3>1, <3>2
  <2>3. CASE w # v
    BY <1>5, <2>1, <2>3
  <2>. QED
    BY <2>2, <2>3
<1>. QED
  BY <1>5, <1>6, <1>7

(* One proposal is sent. *)
LEMMA OneSent ==
    ASSUME NEW msg \in Fine, IsProposal(msg)
    PROVE  /\ <<msg>> \in Seq(Fine) /\ \A i \in DOMAIN <<msg>> : IsProposal(<<msg>>[i])
           /\ \A w, t : Reports(msg, w, t) => SentIn(<<msg>>, w, t)
<1>1. DOMAIN <<msg>> = {1} /\ <<msg>>[1] = msg
  OBVIOUS
<1>. QED
  BY <1>1 DEF SentIn

LEMMA NoSlotFollows ==
    ASSUME NodeInv, NEW v, NEW u, NoSlot(v, u)
    PROVE  Follow
<1>1. UNCHANGED <<workers, inner, completed>> /\ dead' = "status"
  BY DEF NoSlot
<1>. QED
  BY <1>1, DeadFollows

LEMMA CompletedFollows ==
    ASSUME NodeInv, NEW v \in Worker, NEW u \in Task, StatusCompleted(v, u)
    PROVE  Follow
<1>1. CASE NoSlot(v, u)
  BY <1>1, NoSlotFollows
<1>2. CASE ~NoSlot(v, u)
  <2>. DEFINE msg == CompletedP(u, Me, v, OwnId(u))
  <2>1. /\ IsKnown(v) /\ Has(SlotsOf(v), u)
        /\ workers' = Update(v, unassign_slot(SlotsOf(v), u))
        /\ Send(inner, <<msg>>) /\ completed' = completed \cup {<<v, u>>}
        /\ UNCHANGED dead
    BY <1>2 DEF StatusCompleted, HasSlot
  <2>2. msg \in Fine /\ IsProposal(msg)
    <3>1. Me \in Address /\ OwnId(u) \in InnerId
      BY NodeAssumption DEF OwnId, InnerId
    <3>2. msg \in Message /\ IsProposal(msg) /\ msg.kind = "Completed"
      BY <3>1, MessagesSent DEF CompletedP
    <3>. QED
      BY <3>2 DEF Fine
  <2>. HIDE DEF msg
  <2>. DEFINE msgs == <<msg>>
  <2>3. msgs \in Seq(Fine) /\ (\A i \in DOMAIN msgs : IsProposal(msgs[i])) /\ Send(inner, msgs)
    BY <2>1, <2>2, OneSent
  <2>. HIDE DEF msgs
  <2>4. /\ Rows(workers')
        /\ \A w \in Worker, t \in Task :
              /\ CountIn(workers', w, t) <= CountIn(workers, w, t)
              /\ CountIn(workers', w, t) = CountIn(workers, w, t) \/ (w = v /\ t = u)
    BY <2>1, SlotGivenBack
  <2>5. \A w \in Worker, t \in Task :
           CountIn(workers', w, t) = CountIn(workers, w, t) \/ <<w, t>> \in completed'
    BY <2>1, <2>4
  <2>6. completed \subseteq completed' /\ dead' \in {"none", "status", "worker"}
    BY <2>1 DEF NodeInv
  <2>. QED
    BY <2>3, <2>4, <2>5, <2>6, ProposalsFollow
<1>. QED
  BY <1>1, <1>2

LEMMA ErrorFollows ==
    ASSUME NodeInv, NEW v \in Worker, NEW u \in Task, NEW k \in {"Download", "Runtime"},
           StatusError(v, u, k)
    PROVE  Follow
<1>1. CASE NoSlot(v, u)
  BY <1>1, NoSlotFollows
<1>2. CASE ~NoSlot(v, u)
  <2>. DEFINE msg == FailureP(u, Me, v, k, nb_failures[u] + 1)
  <2>1. /\ IsKnown(v) /\ Has(SlotsOf(v), u)
        /\ workers' = Update(v, unassign_slot(SlotsOf(v), u))
        /\ Known(u) => Send(inner, <<msg>>) /\ UNCHANGED dead
        /\ UNCHANGED completed
    BY <1>2 DEF StatusError, HasSlot
  <2>2. /\ Rows(workers') /\ Known(u)
        /\ \A w \in Worker, t \in Task :
              /\ CountIn(workers', w, t) <= CountIn(workers, w, t)
              /\ CountIn(workers', w, t) = CountIn(workers, w, t) \/ (w = v /\ t = u)
    BY <2>1, SlotGivenBack
  <2>3. msg \in Fine /\ IsProposal(msg) /\ Reports(msg, v, u)
    <3>1. nb_failures[u] \in Nat
      BY DEF NodeInv, ChainInv, IInv, TypeInv, TypeOK
    <3>2. /\ nb_failures[u] + 1 \in Nat /\ k \in NodeFailure /\ k \in FailureKind /\ k # "Aborted"
          /\ Me \in Address
      BY <3>1, NodeAssumption DEF NodeFailure, FailureKind
    <3>3. msg \in Message /\ IsProposal(msg)
      BY <3>2, MessagesSent
    <3>4. /\ msg.kind = "Failure" /\ msg.worker = v /\ msg.task = u /\ msg.from = Me
          /\ msg.failure = k /\ msg.nb = nb_failures[u] + 1
      BY DEF FailureP
    <3>. HIDE DEF msg
    <3>5. msg.failure # "Aborted" /\ msg.nb \in 1..(nb_failures[u] + 1)
      BY <3>1, <3>2, <3>4
    <3>6. OwnFailure(msg)
      BY <2>2, <3>2, <3>4, <3>5 DEF OwnFailure
    <3>. QED
      BY <3>3, <3>4, <3>6 DEF Fine, Reports
  <2>4. Send(inner, <<msg>>) /\ UNCHANGED dead
    BY <2>1, <2>2
  <2>. HIDE DEF msg
  <2>. DEFINE msgs == <<msg>>
  <2>5. /\ msgs \in Seq(Fine) /\ (\A i \in DOMAIN msgs : IsProposal(msgs[i])) /\ Send(inner, msgs)
        /\ SentIn(msgs, v, u)
    BY <2>3, <2>4, OneSent
  <2>. HIDE DEF msgs
  <2>6. \A w \in Worker, t \in Task :
           CountIn(workers', w, t) = CountIn(workers, w, t) \/ SentIn(msgs, w, t)
    BY <2>2, <2>5
  <2>7. completed \subseteq completed' /\ dead' \in {"none", "status", "worker"}
    BY <2>1, <2>4 DEF NodeInv
  <2>. QED
    BY <2>2, <2>5, <2>6, <2>7, ProposalsFollow
<1>. QED
  BY <1>1, <1>2

LEMMA LostFollows ==
    ASSUME NodeInv, NEW v, NEW u, StatusLost(v, u)
    PROVE  Follow
<1>1. UNCHANGED <<workers, inner, completed, dead>> /\ Rows(workers)
      /\ dead \in {"none", "status", "worker"}
  BY DEF StatusLost, NodeInv
<1>2. \A w \in Worker, t \in Task :
         /\ CountIn(workers, w, t) \in Nat
         /\ CountIn(workers', w, t) = CountIn(workers, w, t)
  BY <1>1, KnownRow
<1>3. \A w \in Worker, t \in Task : CountIn(workers', w, t) <= CountIn(workers, w, t)
  BY <1>2
<1>. QED
  BY <1>1, <1>2, <1>3, NothingFollows

LEMMA ExternalFollows ==
    ASSUME NodeInv, NEW p \in Fine, IsProposal(p), External(p)
    PROVE  Follow
<1>1. /\ UNCHANGED <<workers, completed, dead>> /\ Rows(workers)
      /\ dead \in {"none", "status", "worker"} /\ Send(inner, <<p>>)
  BY DEF External, NodeInv
<1>. DEFINE msgs == <<p>>
<1>2. msgs \in Seq(Fine) /\ (\A i \in DOMAIN msgs : IsProposal(msgs[i])) /\ Send(inner, msgs)
  BY <1>1, OneSent
<1>. HIDE DEF msgs
<1>3. \A w \in Worker, t \in Task :
         /\ CountIn(workers, w, t) \in Nat
         /\ CountIn(workers', w, t) = CountIn(workers, w, t)
  BY <1>1, KnownRow
<1>4. \A w \in Worker, t \in Task : CountIn(workers', w, t) <= CountIn(workers, w, t)
  BY <1>3
<1>5. Rows(workers') /\ completed \subseteq completed' /\ dead' \in {"none", "status", "worker"}
  BY <1>1
<1>. QED
  BY <1>2, <1>3, <1>4, <1>5, ProposalsFollow

------------------------------------------------------------------------------
(* The node runs the engine: every step of the node is one of the engine,   *)
(* and what the node sends is what the engine can receive.                  *)

Others ==
    \/ \E j \in Job : Alive /\ LockJob(j) /\ UNCHANGED node
    \/ \E t \in Task, w \in Worker : Alive /\ Elapse(t, w) /\ UNCHANGED node
    \/ ConsumeAssigned \/ ConsumeUnassigned \/ Tick \/ Swarm \/ ExternalStep

LEMMA NodeCases ==
    ASSUME [NodeNext]_nodevars
    PROVE  EngineStep \/ ConsumeProposal \/ Others \/ UNCHANGED nodevars
  BY DEF NodeNext, Others, Consumer

LEMMA OthersFollow ==
    ASSUME NodeInv, Others
    PROVE  Follow
<1>1. ASSUME NEW w \in Worker, WorkerNew(w) PROVE Follow
  BY <1>1, NewFollows
<1>2. ASSUME NEW w \in Worker, WorkerGone(w) PROVE Follow
  BY <1>2, GoneFollows
<1>3. ASSUME NEW w \in Worker, NEW t \in Task, StatusCompleted(w, t) PROVE Follow
  BY <1>3, CompletedFollows
<1>4. ASSUME NEW w \in Worker, NEW t \in Task, StatusLost(w, t) PROVE Follow
  BY <1>4, LostFollows
<1>5. ASSUME NEW w \in Worker, NEW t \in Task, NEW k \in {"Download", "Runtime"},
             StatusError(w, t, k)
      PROVE  Follow
  BY <1>5, ErrorFollows
<1>6. CASE Swarm
  BY <1>1, <1>2, <1>3, <1>4, <1>5, <1>6 DEF Swarm
<1>7. CASE ExternalStep
  <2>1. PICK t \in Task, m \in OtherManager :
           \/ External(NewTaskP(t, m))
           \/ \E n \in 1..MaxOffers : \E ws \in [1..n -> Worker] :
                 External(SchedulingP(t, m, OffersOf(t, ws)))
           \/ \E w \in Worker :
                 \/ External(CheckedP(t, m, w))
                 \/ External(CompletedP(t, m, w, as_bytes(t)))
                 \/ \E k \in ForeignFailure, nb \in 0..MaxNb :
                       External(FailureP(t, m, w, k, nb))
    BY <1>7 DEF ExternalStep
  <2>2. m \in Address /\ m # Me /\ as_bytes(t) \in InnerId
    BY DEF OtherManager, as_bytes, InnerId
  <2>3. ASSUME NEW n \in 1..MaxOffers, NEW ws \in [1..n -> Worker]
        PROVE  OffersOf(t, ws) \in Offers
    <3>1. OffersOf(t, ws) = [i \in 1..n |-> [id |-> as_bytes(t), worker |-> ws[i]]]
      BY DEF OffersOf
    <3>2. OffersOf(t, ws) \in [1..n -> Offer]
      BY <2>2, <3>1 DEF Offer
    <3>3. n \in 0..MaxOffers
      BY ParametersAssumption
    <3>. QED
      BY <3>2, <3>3 DEF Offers
  <2>4. ASSUME NEW p \in Message, IsProposal(p), p.kind # "Failure", External(p) PROVE Follow
    <3>1. p \in Fine
      BY <2>4 DEF Fine, IsProposal
    <3>. QED
      BY <2>4, <3>1, ExternalFollows
  <2>5. CASE External(NewTaskP(t, m))
    BY <2>2, <2>4, <2>5, MessagesSent
  <2>6. ASSUME NEW n \in 1..MaxOffers, NEW ws \in [1..n -> Worker],
               External(SchedulingP(t, m, OffersOf(t, ws)))
        PROVE  Follow
    BY <2>2, <2>3, <2>4, <2>6, MessagesSent
  <2>7. ASSUME NEW w \in Worker, External(CompletedP(t, m, w, as_bytes(t))) PROVE Follow
    BY <2>2, <2>4, <2>7, MessagesSent
  <2>8. ASSUME NEW w \in Worker, External(CheckedP(t, m, w)) PROVE Follow
    BY <2>2, <2>4, <2>8, MessagesSent
  <2>9. ASSUME NEW w \in Worker, NEW k \in ForeignFailure, NEW nb \in 0..MaxNb,
               External(FailureP(t, m, w, k, nb))
        PROVE  Follow
    <3>. DEFINE p == FailureP(t, m, w, k, nb)
    <3>1. k \in FailureKind /\ nb \in Nat
      BY NodeAssumption
    <3>2. p \in Message /\ IsProposal(p)
      BY <2>2, <3>1, MessagesSent
    <3>3. p.kind = "Failure" /\ p.from = m /\ p.nb = nb
      BY DEF FailureP
    <3>. HIDE DEF p
    <3>4. p \in Fine
      BY <2>2, <2>9, <3>2, <3>3 DEF Fine, ForeignOne
    <3>. QED
      BY <2>9, <3>2, <3>4, ExternalFollows DEF p
  <2>. QED
    BY <2>1, <2>5, <2>6, <2>7, <2>8, <2>9
<1>8. CASE \/ \E j \in Job : Alive /\ LockJob(j) /\ UNCHANGED node
           \/ \E t \in Task, w \in Worker : Alive /\ Elapse(t, w) /\ UNCHANGED node
  BY <1>8, LockFollows
<1>. QED
  BY <1>6, <1>7, <1>8, ConsumedAssignedFollows, ConsumedUnassignedFollows, TickFollows DEF Others

LEMMA OthersLeaveEngine ==
    ASSUME Others
    PROVE  \/ \E j \in Job : LockJob(j)
           \/ \E t \in Task, w \in Worker : Elapse(t, w)
           \/ UNCHANGED vars
  BY DEF Others, ConsumeAssigned, ConsumeUnassigned, Tick, Swarm, WorkerNew, WorkerGone,
         StatusCompleted, StatusError, StatusLost, NoSlot, ExternalStep, External

(* A failure the engine accepts carries a number in bounds. *)
LEMMA FailureInBounds ==
    ASSUME NodeInv, Listening, NEW p \in Fine, p.kind = "Failure",
           FailureApplies(p.task, p.failure, p.worker, as_bytes(p.task), p.nb)
    PROVE  /\ p.task \in Task /\ p.from \in Address /\ p.failure \in FailureKind
           /\ p.worker \in Worker /\ as_bytes(p.task) \in InnerId /\ p.nb \in 0..MaxNb
<1>1. /\ p.task \in Task /\ p.from \in Address /\ p.failure \in FailureKind
      /\ p.worker \in Worker /\ p.nb \in Nat
      /\ OwnFailure(p) \/ ForeignOne(p)
  BY MessageShape DEF Fine
<1>. DEFINE t == p.task
<1>2. IInv /\ t \in Task /\ nb_failures[t] \in Nat
  BY <1>1 DEF NodeInv, ChainInv, IInv, TypeInv, TypeOK
<1>3. /\ Max_failures(t) \in Nat /\ Max_failures(t) < MaxNb /\ MaxNb \in Nat
  BY <1>1, TaskConstants, NodeAssumption, ParametersAssumption DEF Max_failures
<1>4. nb_failures[t] <= Max_failures(t)
  <2>1. Incomplete(t) \/ ~(nb_failures[t] >= Max_failures(t))
    BY DEF FailureApplies, UnassignsAll
  <2>2. CASE Incomplete(t)
    BY <1>2, <2>2, IdleBudget
  <2>. QED
    BY <1>2, <1>3, <2>1, <2>2
<1>5. p.nb <= nb_failures[t] + 1 \/ p.nb \in 0..MaxNb
  BY <1>1, <1>2 DEF OwnFailure, ForeignOne
<1>6. p.nb \in 0..MaxNb
  <2>. HIDE DEF t
  <2>. QED
    BY <1>1, <1>2, <1>3, <1>4, <1>5
<1>. QED
  BY <1>1, <1>6 DEF as_bytes, InnerId

LEMMA ProposalIsReceived ==
    ASSUME NodeInv, ConsumeProposal
    PROVE  (Alive /\ phase = "idle" /\ Receive) \/ UNCHANGED vars
<1>. DEFINE p == Head(inner)
<1>1. /\ Alive /\ phase = "idle" /\ inner # <<>>
      /\ p.kind \in {"NewTask", "Scheduling", "Failure", "Checked", "Completed"}
      /\ \/ p.kind = "NewTask" /\ ReceiveNewTask(p.task, p.from)
         \/ p.kind = "Scheduling" /\ ReceiveScheduling(p.task, p.from, p.offers)
         \/ p.kind = "Failure"
              /\ ReceiveFailure(p.task, p.from, p.failure, p.worker, as_bytes(p.task), p.nb)
         \/ p.kind = "Checked" /\ ReceiveChecked(p.task, p.from, p.worker)
         \/ p.kind = "Completed"
              /\ ReceiveCompleted(p.task, p.from, p.worker, p.id, p.id, "data")
         \/ UNCHANGED vars
  BY DEF ConsumeProposal, Consuming
<1>2. p \in Fine /\ p \in Message
  BY <1>1, ChannelConsumed DEF NodeInv, Fine
<1>. HIDE DEF p
<1>3. CASE p.kind = "NewTask" /\ ReceiveNewTask(p.task, p.from)
  BY <1>1, <1>2, <1>3, MessageShape DEF Receive
<1>4. CASE p.kind = "Scheduling" /\ ReceiveScheduling(p.task, p.from, p.offers)
  BY <1>1, <1>2, <1>4, MessageShape DEF Receive
<1>5. CASE p.kind = "Failure"
             /\ ReceiveFailure(p.task, p.from, p.failure, p.worker, as_bytes(p.task), p.nb)
  <2>1. Listening /\ FailureApplies(p.task, p.failure, p.worker, as_bytes(p.task), p.nb)
    BY <1>5 DEF ReceiveFailure
  <2>2. /\ p.task \in Task /\ p.from \in Address /\ p.failure \in FailureKind
        /\ p.worker \in Worker /\ as_bytes(p.task) \in InnerId /\ p.nb \in 0..MaxNb
    BY <1>2, <1>5, <2>1, FailureInBounds
  <2>. QED
    BY <1>1, <1>5, <2>2 DEF Receive
<1>6. CASE p.kind = "Completed"
             /\ ReceiveCompleted(p.task, p.from, p.worker, p.id, p.id, "data")
  BY <1>1, <1>2, <1>6, MessageShape DEF Receive
<1>7. CASE p.kind = "Checked" /\ ReceiveChecked(p.task, p.from, p.worker)
  BY <1>1, <1>2, <1>7, MessageShape DEF Receive
<1>. QED
  BY <1>1, <1>3, <1>4, <1>5, <1>6, <1>7

LEMMA EngineRuns ==
    ASSUME NodeInv, [NodeNext]_nodevars
    PROVE  [Next]_vars /\ restarts' = restarts
<1>0. IInv /\ restarts \in Nat
  <2>1. restarts \in 0..MaxRestarts /\ MaxRestarts \in Nat
    BY ParametersAssumption DEF NodeInv, ChainInv, IInv, TypeInv, TypeOK
  <2>. QED
    BY <2>1 DEF NodeInv, ChainInv
<1>1. CASE EngineStep
  <2>1. Handler
    BY <1>1 DEF EngineStep
  <2>2. CASE Apply
    <3>1. PICK c \in todo :
             \/ ApplyCreate(c) \/ ApplyChecked(c) \/ ApplyUnassign(c)
             \/ ApplyAssign(c) \/ ApplyAddManager(c) \/ ApplySetNbFailures(c)
             \/ ApplyComplete(c) \/ ApplyDefinetelyFailed(c)
      BY <2>2 DEF Apply
    <3>2. restarts' = restarts
      BY <1>0, <3>1, ApplyEffect DEF Die
    <3>. QED
      BY <2>2, <3>2 DEF Next, Handler
  <2>3. CASE Commit \/ Release
    BY <1>0, <2>3, CommitEffect DEF Next, Handler
  <2>. QED
    BY <2>1, <2>2, <2>3 DEF Handler
<1>2. CASE ConsumeProposal
  <2>1. CASE Receive
    <3>1. restarts' = restarts
      BY <1>0, <2>1, ReceiveEffect DEF Takes
    <3>. QED
      BY <2>1, <3>1 DEF Next
  <2>2. CASE UNCHANGED vars
    BY <2>2 DEF vars
  <2>. QED
    BY <1>2, <2>1, <2>2, ProposalIsReceived
<1>3. CASE Others
  <2>1. CASE UNCHANGED vars
    BY <2>1 DEF vars
  <2>2. ASSUME NEW j \in Job, LockJob(j) PROVE [Next]_vars /\ restarts' = restarts
    BY <2>2 DEF Next, LockJob
  <2>3. ASSUME NEW t \in Task, NEW w \in Worker, Elapse(t, w)
        PROVE  [Next]_vars /\ restarts' = restarts
    <3>1. restarts' = restarts
      BY <2>3 DEF Elapse
    <3>. QED
      BY <2>3, <3>1 DEF Next
  <2>. QED
    BY <1>3, <2>1, <2>2, <2>3, OthersLeaveEngine
<1>4. CASE UNCHANGED nodevars
  BY <1>4 DEF nodevars, vars
<1>. QED
  BY <1>1, <1>2, <1>3, <1>4, NodeCases

(* Without a restart a task that is known stays so. *)
LEMMA KnownStays ==
    ASSUME IInv, [Next]_vars, restarts' = restarts, NEW t \in Task, Known(t)
    PROVE  Known(t)'
<1>0. TypeOK /\ restarts \in Nat /\ "Unknown" \notin Final
  <2>1. restarts \in 0..MaxRestarts /\ MaxRestarts \in Nat
    BY ParametersAssumption DEF IInv, TypeInv, TypeOK
  <2>. QED
    BY <2>1 DEF IInv, TypeInv, Final, Reason
<1>1. ASSUME UNCHANGED completeness PROVE Known(t)'
  BY <1>1 DEF Known
<1>2. CASE \E j \in Job : LockJob(j)
  BY <1>1, <1>2 DEF LockJob, local
<1>3. CASE Receive
  BY <1>1, <1>3, ReceiveEffect DEF Takes, local
<1>4. CASE Apply
  <2>1. PICK c \in todo :
           \/ ApplyCreate(c) \/ ApplyChecked(c) \/ ApplyUnassign(c)
           \/ ApplyAssign(c) \/ ApplyAddManager(c) \/ ApplySetNbFailures(c)
           \/ ApplyComplete(c) \/ ApplyDefinetelyFailed(c)
    BY <1>4 DEF Apply
  <2>2. CASE Die("assign")
    BY <1>1, <2>2 DEF Die, local
  <2>3. CASE Creates
    BY <1>0, <2>3 DEF Creates, Known, TypeOK
  <2>4. CASE Updates(c)
    BY <1>1, <2>4 DEF Updates
  <2>5. CASE Settles(c)
    BY <1>0, <2>5 DEF Settles, Known, TypeOK
  <2>. QED
    BY <2>1, <2>2, <2>3, <2>4, <2>5, ApplyEffect
<1>5. CASE Commit \/ Release
  BY <1>1, <1>5, CommitEffect DEF local
<1>6. CASE UNCHANGED vars \/ \E u \in Task, w \in Worker : Elapse(u, w)
  BY <1>1, <1>6, OtherEffect
<1>7. CASE Restart
  BY <1>0, <1>7 DEF Restart
<1>. QED
  BY <1>2, <1>3, <1>4, <1>5, <1>6, <1>7, StepCases

LEMMA FineStays ==
    ASSUME IInv, FreshInv, [Next]_vars, restarts' = restarts
    PROVE  Fine \subseteq Fine'
<1>1. TypeOK /\ TypeOK'
  BY NextIInv DEF IInv, TypeInv
<1>2. SUFFICES ASSUME NEW e \in Fine PROVE e \in Fine'
  OBVIOUS
<1>3. e \in Message /\ e.task \in Task
  BY MessageShape DEF Fine
<1>4. Known(e.task) => Known(e.task)' /\ nb_failures'[e.task] >= nb_failures[e.task]
  BY <1>3, KnownStays, NextIsFinal DEF Known
<1>5. e.kind \in {"Assigned", "Unassigned"} => Known(e.task)'
  BY <1>4 DEF Fine
<1>6. ASSUME e.kind = "Failure", OwnFailure(e)
      PROVE  OwnFailure(e)'
  <2>. DEFINE n == nb_failures[e.task]
              m == nb_failures'[e.task]
  <2>1. n \in Nat /\ m \in Nat /\ n <= m /\ e.nb \in Nat
    BY <1>1, <1>3, <1>4, <1>6, MessageShape DEF TypeOK, OwnFailure
  <2>2. IF e.failure = "Aborted" THEN e.nb <= n ELSE e.nb \in 1..(n + 1)
    BY <1>6 DEF OwnFailure
  <2>. HIDE DEF n, m
  <2>3. IF e.failure = "Aborted" THEN e.nb <= m ELSE e.nb \in 1..(m + 1)
    BY <2>1, <2>2
  <2>. QED
    BY <1>4, <1>6, <2>3 DEF m, OwnFailure
<1>7. e.kind = "Failure" => OwnFailure(e)' \/ ForeignOne(e)
  BY <1>6 DEF Fine
<1>. QED
  BY <1>3, <1>5, <1>7 DEF Fine, ForeignOne, Known

LEMMA NextNodeInv ==
    ASSUME NodeInv, [NodeNext]_nodevars
    PROVE  NodeInv'
<1>1. [Next]_vars /\ restarts' = restarts
  BY EngineRuns
<1>2. ChainInv' /\ EngineInv'
  BY <1>1, NextChainInv, NextEngineInv DEF NodeInv, ChainInv
<1>3. Fine \subseteq Fine' /\ \A t \in Task : Known(t) => Known(t)'
  BY <1>1, FineStays, KnownStays DEF NodeInv, ChainInv
<1>4. Seq(Fine) \subseteq Seq(Fine')
  <2>. DEFINE F == Fine
              G == Fine'
  <2>1. F \subseteq G
    BY <1>3
  <2>. HIDE DEF F, G
  <2>2. Seq(F) \subseteq Seq(G)
    BY <2>1
  <2>. QED
    BY <2>2 DEF F, G
<1>5. ASSUME Follow PROVE NodeInv'
  <2>1. \A w \in Worker, t \in Task : CountIn(workers', w, t) >= 1 => Known(t)'
    BY <1>3, <1>5 DEF Follow
  <2>. QED
    BY <1>2, <1>4, <1>5, <2>1 DEF Follow, NodeInv
<1>6. ASSUME UNCHANGED <<workers, dead>>, inner' \in Seq(Fine'), Len(inner') <= ChannelSize
      PROVE  NodeInv'
  <2>1. Rows(workers') /\ dead' \in {"none", "status", "worker"}
    BY <1>6 DEF NodeInv
  <2>2. \A w \in Worker, t \in Task : CountIn(workers', w, t) >= 1 => Known(t)'
    BY <1>3, <1>6 DEF NodeInv
  <2>. QED
    BY <1>2, <1>6, <2>1, <2>2 DEF NodeInv
<1>7. CASE EngineStep
  <2>1. UNCHANGED <<workers, dead>> /\ inner \in Seq(Fine') /\ Len(inner) <= ChannelSize
    BY <1>4, <1>7 DEF EngineStep, NodeInv
  <2>2. CASE Silent
    BY <1>6, <2>1, <2>2 DEF Silent
  <2>3. ASSUME NEW u \in Task, u = cur, Incomplete(u), NEW w, Gives(w) \/ TakesBack(w)
        PROVE  NodeInv'
    <3>1. Known(u)' /\ w \in Worker
      BY <1>3, <2>3 DEF Incomplete, Known, Gives, TakesBack
    <3>2. ASSUME NEW e \in {AssignedE(u, w), UnassignedE(u, w)}, Send(inner, <<e>>)
          PROVE  NodeInv'
      <4>1. e \in Message /\ e.kind \in {"Assigned", "Unassigned"} /\ e.task = u
        <5>1. AssignedE(u, w) \in Message /\ UnassignedE(u, w) \in Message
          BY <3>1, MessagesSent
        <5>2. e.kind \in {"Assigned", "Unassigned"} /\ e.task = u
          BY <3>2 DEF AssignedE, UnassignedE
        <5>. QED
          BY <3>2, <5>1, <5>2
      <4>2. e \in Fine'
        BY <3>1, <4>1 DEF Fine, Known
      <4>. DEFINE G == Fine'
                  msgs == <<e>>
      <4>3. inner \in Seq(G) /\ msgs \in Seq(G) /\ inner' = inner \o msgs
            /\ Len(inner) + Len(msgs) <= ChannelSize
        BY <2>1, <3>2, <4>2 DEF Send
      <4>. HIDE DEF G, msgs
      <4>4. inner' \in Seq(G) /\ Len(inner') <= ChannelSize
        BY <4>3, ConcatProperties
      <4>. QED
        BY <1>6, <2>1, <4>4 DEF G
    <3>3. CASE Gives(w)
      BY <2>3, <3>2, <3>3 DEF Gives
    <3>4. CASE TakesBack(w)
      BY <2>3, <3>2, <3>4 DEF TakesBack
    <3>. QED
      BY <2>3, <3>3, <3>4
  <2>. QED
    BY <1>7, <2>2, <2>3, EngineMoves DEF NodeInv, ChainInv
<1>8. CASE UNCHANGED nodevars
  BY <1>4, <1>6, <1>8 DEF nodevars, node, NodeInv
<1>. QED
  BY <1>5, <1>7, <1>8, NodeCases, OthersFollow, ConsumedProposalFollows

LEMMA InitNodeInv == NodeInit => NodeInv
<1>. SUFFICES ASSUME NodeInit PROVE NodeInv
  OBVIOUS
<1>1. /\ Init /\ workers = <<>> /\ inner = <<>> /\ dead = "none"
  BY DEF NodeInit
<1>2. ChainInv /\ EngineInv
  BY <1>1, InitChainInv, InitEngineInv
<1>3. workers \in Seq(Row) /\ Distinct(workers) /\ \A w : ~Listed(workers, w)
  BY <1>1 DEF Distinct, Listed
<1>4. Rows(workers)
  BY <1>3 DEF Rows
<1>5. \A w \in Worker, t \in Task : ~(CountIn(workers, w, t) >= 1)
  BY <1>3, CountInRow
<1>6. inner \in Seq(Fine) /\ Len(inner) <= ChannelSize
  BY <1>1, NodeAssumption
<1>. QED
  BY <1>1, <1>2, <1>4, <1>5, <1>6 DEF NodeInv

LEMMA NodeInductive == NodeSpec => []NodeInv
<1>1. NodeInv /\ [NodeNext]_nodevars => NodeInv'
  BY NextNodeInv
<1>. QED
  BY <1>1, InitNodeInv, PTL DEF NodeSpec

(* The node runs the engine: what it sends, consumes and forgets never makes *)
(* the engine do what it could not do for proposals coming one at a time, so *)
(* every property of the engine without a restart is one of the node         *)
(* (handle_event, check_and_apply_proposal).                                 *)
THEOREM NodeRunsTheEngine == NodeSpec => Spec
<1>1. NodeInit => Init
  BY DEF NodeInit
<1>2. NodeInv /\ [NodeNext]_nodevars => [Next]_vars
  BY EngineRuns
<1>. QED
  BY <1>1, <1>2, NodeInductive, PTL DEF NodeSpec, Spec

(* The table has each worker once, with all of its slots, the channel stays *)
(* in its bound, and no failure is ever reported for a task the node does   *)
(* not know (Workers.push, delete_worker, send_abord_proposal).             *)
THEOREM NodeTypeCorrect == NodeSpec => []NodeTypeOK
<1>1. NodeInv => NodeTypeOK
  <2>. SUFFICES ASSUME NodeInv PROVE NodeTypeOK
    OBVIOUS
  <2>1. /\ workers \in Seq(Row) /\ Distinct(workers)
        /\ Len(inner) <= ChannelSize /\ dead \in {"none", "status", "worker"}
    BY DEF NodeInv, Rows
  <2>2. \A i \in DOMAIN workers : workers[i] \in Row
    BY <2>1
  <2>. QED
    BY <2>1, <2>2 DEF NodeTypeOK, Row, Assignments, Distinct
<1>. QED
  BY <1>1, NodeInductive, PTL

------------------------------------------------------------------------------
(* The slots follow the replicas. *)

SlotsInv ==
    \A w \in Worker, t \in Task : /\ Ahead(w, t) <= 1
                                  /\ Ahead(w, t) = 1 => w \in Holders(t)

LEMMA AheadType ==
    ASSUME NodeInv, NEW w, NEW t
    PROVE  Ahead(w, t) \in Nat
<1>1. CountIn(workers, w, t) \in Nat /\ inner \in Seq(Fine)
  BY KnownRow DEF NodeInv
<1>. QED
  BY <1>1, LeftType DEF Ahead

LEMMA AheadTypeAfter ==
    ASSUME NodeInv', NEW w, NEW t
    PROVE  Ahead(w, t)' \in Nat
<1>. DEFINE n == CountIn(workers', w, t)
            q == inner'
            G == Fine'
<1>1. workers' \in Seq(Row) /\ Distinct(workers') /\ q \in Seq(G)
  BY DEF NodeInv, Rows
<1>2. Ahead(w, t)' = Left(n, q, w, t)
  BY DEF Ahead
<1>3. n \in Nat
  BY <1>1, CountInRow
<1>. HIDE DEF n, q, G
<1>. QED
  BY <1>1, <1>2, <1>3, LeftType

(* An event is sent. *)
Grows(u, v, w, t) ==
    Send(inner, <<AssignedE(u, v)>>) =>
       Ahead(w, t)' = IF w = v /\ t = u THEN Ahead(w, t) + 1 ELSE Ahead(w, t)

Shrinks(u, v, w, t) ==
    Send(inner, <<UnassignedE(u, v)>>) =>
       Ahead(w, t)' = IF w = v /\ t = u /\ Ahead(w, t) > 0 THEN Ahead(w, t) - 1 ELSE Ahead(w, t)

LEMMA EventSent ==
    ASSUME NodeInv, workers' = workers, NEW u \in Task, NEW v \in Worker,
           NEW w \in Worker, NEW t \in Task
    PROVE  Grows(u, v, w, t) /\ Shrinks(u, v, w, t)
<1>. SUFFICES ASSUME NEW e \in {AssignedE(u, v), UnassignedE(u, v)}, Send(inner, <<e>>)
              PROVE  /\ e = AssignedE(u, v) =>
                           Ahead(w, t)' = IF w = v /\ t = u THEN Ahead(w, t) + 1 ELSE Ahead(w, t)
                     /\ e = UnassignedE(u, v) =>
                           Ahead(w, t)' = IF w = v /\ t = u /\ Ahead(w, t) > 0
                                          THEN Ahead(w, t) - 1 ELSE Ahead(w, t)
  BY DEF Grows, Shrinks
<1>1. AssignedE(u, v) \in Message /\ UnassignedE(u, v) \in Message
  BY MessagesSent
<1>2. e \in Message
  BY <1>1
<1>3. inner \in Seq(Message)
  <2>1. Fine \subseteq Message /\ inner \in Seq(Fine)
    BY DEF Fine, NodeInv
  <2>2. \A S \in SUBSET Message : Seq(S) \subseteq Seq(Message)
    OBVIOUS
  <2>. QED
    BY <2>1, <2>2
<1>4. inner' = Append(inner, e)
  <2>1. inner' = inner \o <<e>>
    BY DEF Send
  <2>2. inner \o <<e>> = Append(inner, e)
    BY <1>2, <1>3, AppendIsConcat
  <2>. QED
    BY <2>1, <2>2
<1>. DEFINE n == CountIn(workers, w, t)
<1>5. n \in Nat /\ Ahead(w, t) = Left(n, inner, w, t) /\ Ahead(w, t)' = Left(n, Append(inner, e), w, t)
  BY <1>4, KnownRow DEF NodeInv, Ahead
<1>. HIDE DEF n
<1>6. Left(n, Append(inner, e), w, t) = Handled(Left(n, inner, w, t), e, w, t)
  BY <1>2, <1>3, <1>5, LeftAppend
<1>. DEFINE m == Ahead(w, t)
<1>7. Ahead(w, t)' = Handled(m, e, w, t) /\ m \in Nat
  BY <1>5, <1>6, AheadType
<1>. HIDE DEF m
<1>8. AssignedE(u, v) # UnassignedE(t, w) /\ UnassignedE(u, v) # AssignedE(t, w)
  BY DEF AssignedE, UnassignedE
<1>9. /\ AssignedE(u, v) = AssignedE(t, w) <=> w = v /\ t = u
      /\ UnassignedE(u, v) = UnassignedE(t, w) <=> w = v /\ t = u
  BY DEF AssignedE, UnassignedE
<1>10. CASE e = AssignedE(u, v)
  <2>1. e # UnassignedE(u, v)
    BY <1>10 DEF AssignedE, UnassignedE
  <2>2. Handled(m, e, w, t) = IF w = v /\ t = u THEN m + 1 ELSE m
    BY <1>7, <1>8, <1>9, <1>10, HandledIs
  <2>. QED
    BY <1>7, <2>1, <2>2 DEF m
<1>11. CASE e = UnassignedE(u, v)
  <2>1. e # AssignedE(u, v)
    BY <1>11 DEF AssignedE, UnassignedE
  <2>2. Handled(m, e, w, t) = IF w = v /\ t = u /\ m > 0 THEN m - 1 ELSE m
    BY <1>7, <1>8, <1>9, <1>11, HandledIs
  <2>. QED
    BY <1>7, <2>1, <2>2 DEF m
<1>. QED
  BY <1>10, <1>11

(* Every step but one of the engine leaves the replicas alone. *)
LEMMA ReplicasLeft ==
    ASSUME NodeInv, Others \/ ConsumeProposal \/ UNCHANGED nodevars
    PROVE  \A t \in Task : Workers(t)' = Workers(t) /\ Holders(t)' = Holders(t)
<1>1. UNCHANGED <<substates, payment_infos>>
  <2>1. CASE Others
    BY <2>1, OthersLeaveEngine, OtherEffect DEF vars, LockJob, local, NodeInv, ChainInv
  <2>2. CASE ConsumeProposal
    BY <2>2, ProposalIsReceived, ReceiveEffect DEF vars, Takes, local, NodeInv, ChainInv
  <2>3. CASE UNCHANGED nodevars
    BY <2>3 DEF nodevars, vars, local
  <2>. QED
    BY <2>1, <2>2, <2>3
<1>2. \A t \in Task : Workers(t)' = Workers(t)
  BY <1>1 DEF Workers, Filled, Slots
<1>3. \A t \in Task : Holders(t)' = Holders(t)
  BY <1>1, <1>2 DEF Holders, Paid
<1>. QED
  BY <1>2, <1>3

LEMMA NextSlotsInv ==
    ASSUME NodeInv, SlotsInv, [NodeNext]_nodevars
    PROVE  SlotsInv'
<1>1. SUFFICES ASSUME NEW w \in Worker, NEW t \in Task
               PROVE  Ahead(w, t)' <= 1 /\ (Ahead(w, t)' = 1 => w \in Holders(t)')
  BY DEF SlotsInv
<1>2. /\ Ahead(w, t) <= 1
      /\ Ahead(w, t) = 1 => w \in Holders(t)
      /\ Ahead(w, t) \in Nat /\ Ahead(w, t)' \in Nat
  <2>1. NodeInv'
    BY NextNodeInv
  <2>2. Ahead(w, t)' \in Nat
    BY <2>1, AheadTypeAfter
  <2>. QED
    BY <2>2, AheadType DEF SlotsInv
<1>3. CASE Others \/ ConsumeProposal
  <2>1. Ahead(w, t)' <= Ahead(w, t)
    BY <1>3, OthersFollow, ConsumedProposalFollows DEF Follow, Follows
  <2>2. Holders(t)' = Holders(t)
    BY <1>3, ReplicasLeft
  <2>3. Ahead(w, t)' = 1 => Ahead(w, t) = 1
    BY <1>2, <2>1
  <2>. QED
    BY <1>2, <2>1, <2>2, <2>3
<1>4. CASE UNCHANGED nodevars
  <2>1. Ahead(w, t)' = Ahead(w, t)
    BY <1>4 DEF nodevars, node, Ahead
  <2>. QED
    BY <1>2, <1>4, <2>1, ReplicasLeft
<1>5. CASE EngineStep
  <2>1. workers' = workers
    BY <1>5 DEF EngineStep
  <2>2. CASE Silent
    <3>1. Ahead(w, t)' = Ahead(w, t) /\ Holders(t)' = Holders(t)
      BY <2>1, <2>2 DEF Silent, Ahead
    <3>. QED
      BY <1>2, <3>1
  <2>3. ASSUME NEW u \in Task, u = cur, NEW v, Gives(v)
        PROVE  Ahead(w, t)' <= 1 /\ (Ahead(w, t)' = 1 => w \in Holders(t)')
    <3>1. /\ v \in Worker /\ v \notin Holders(u) /\ Send(inner, <<AssignedE(u, v)>>)
          /\ Holders(t)' = IF t = u THEN Holders(t) \cup {v} ELSE Holders(t)
      BY <2>3 DEF Gives
    <3>2. v \in Worker
      BY <3>1
    <3>3. Grows(u, v, w, t)
      BY <2>1, <3>2, EventSent
    <3>. QED
      BY <1>2, <3>1, <3>3 DEF Grows
  <2>4. ASSUME NEW u \in Task, u = cur, NEW v, TakesBack(v)
        PROVE  Ahead(w, t)' <= 1 /\ (Ahead(w, t)' = 1 => w \in Holders(t)')
    <3>1. /\ v \in Worker /\ Send(inner, <<UnassignedE(u, v)>>)
          /\ Holders(t)' = IF t = u THEN Holders(t) \ {v} ELSE Holders(t)
      BY <2>4 DEF TakesBack
    <3>2. v \in Worker
      BY <3>1
    <3>3. Shrinks(u, v, w, t)
      BY <2>1, <3>2, EventSent
    <3>. QED
      BY <1>2, <3>1, <3>3 DEF Shrinks
  <2>. QED
    BY <1>5, <2>2, <2>3, <2>4, EngineMoves DEF NodeInv, ChainInv
<1>. QED
  BY <1>3, <1>4, <1>5, NodeCases

LEMMA InitSlotsInv == NodeInit => SlotsInv
<1>. SUFFICES ASSUME NodeInit PROVE SlotsInv
  OBVIOUS
<1>1. workers = <<>> /\ inner = <<>>
  BY DEF NodeInit
<1>2. workers \in Seq(Row) /\ Distinct(workers) /\ \A w : ~Listed(workers, w)
  BY <1>1 DEF Distinct, Listed
<1>3. \A w, t : CountIn(workers, w, t) = 0
  BY <1>2, CountInRow
<1>4. \A w, t : Ahead(w, t) = 0
  BY <1>1, <1>3, LeftOfNothing DEF Ahead
<1>. QED
  BY <1>4 DEF SlotsInv

(* The table follows the engine: no worker gives two slots to one task, and *)
(* a slot that holds a task, or will once the channel is empty, is a replica *)
(* of the engine or one of a completed task (handle_shared_state_change,     *)
(* handle_task_status, propose_assignements).                               *)
THEOREM SlotsFollow == NodeSpec => []SlotsFollowReplicas
<1>1. SlotsInv => SlotsFollowReplicas
  BY ExpectedIs DEF SlotsInv, SlotsFollowReplicas, Holders, Paid
<1>2. NodeInv /\ SlotsInv /\ [NodeNext]_nodevars => SlotsInv'
  BY NextSlotsInv
<1>. QED
  BY <1>1, <1>2, InitSlotsInv, NodeInductive, PTL DEF NodeSpec

------------------------------------------------------------------------------
(* No replica is forgotten. *)

(* A worker whose slot will be taken back last has no replica any more. *)
GoneInv == \A w \in Worker, t \in Task : TakenBack(inner, w, t) => w \notin Workers(t)

Kept(w, t) ==
    \/ Ahead(w, t) >= 1
    \/ SentIn(inner, w, t)
    \/ <<w, t>> \in completed
    \/ GivenBack(w, t)

HeldInv ==
    Alive => \A w \in Worker, t \in Task :
                w \in Workers(t) /\ nb_failures[t] = 0 => Kept(w, t)

LEMMA ReplicaIs ==
    ASSUME IInv, NEW t \in Task, NEW w \in Workers(t)
    PROVE  w \in Worker /\ Incomplete(t) /\ \E s \in Filled(t) : substates[t][s] = w
<1>1. PICK s \in Filled(t) : substates[t][s] = w
  BY DEF Workers
<1>2. Incomplete(t)
  BY <1>1 DEF IInv, ListsApplicable, ApplicableOK
<1>3. substates[t] \in [Slots(t) -> Worker \cup {Nobody}]
  BY DEF IInv, TypeInv, TypeOK
<1>. QED
  BY <1>1, <1>2, <1>3 DEF Filled

(* An event put in the channel *)
LEMMA EventLast ==
    ASSUME NEW S, NEW q \in Seq(S), NEW e \in S, NEW w, NEW t
    PROVE  /\ TakenBack(q \o <<e>>, w, t) =>
                 \/ e = UnassignedE(t, w)
                 \/ e # AssignedE(t, w) /\ TakenBack(q, w, t)
           /\ SentIn(q, w, t) => SentIn(q \o <<e>>, w, t)
<1>. DEFINE r == q \o <<e>>
            l == Len(q)
<1>1. /\ l \in Nat /\ DOMAIN q = 1..l /\ DOMAIN r = 1..(l + 1) /\ r[l + 1] = e
      /\ \A i \in 1..l : r[i] = q[i]
  OBVIOUS
<1>. HIDE DEF r, l
<1>2. ASSUME TakenBack(r, w, t), e # UnassignedE(t, w)
      PROVE  e # AssignedE(t, w) /\ TakenBack(q, w, t)
  <2>1. PICK i \in DOMAIN r : /\ r[i] = UnassignedE(t, w)
                              /\ \A j \in DOMAIN r : j > i => r[j] # AssignedE(t, w)
    BY <1>2 DEF TakenBack
  <2>2. i \in DOMAIN q /\ q[i] = UnassignedE(t, w) /\ l + 1 > i
    BY <1>1, <1>2, <2>1
  <2>3. \A j \in DOMAIN q : j \in DOMAIN r /\ r[j] = q[j]
    BY <1>1
  <2>4. l + 1 \in DOMAIN r
    BY <1>1
  <2>. QED
    BY <1>1, <2>1, <2>2, <2>3, <2>4 DEF TakenBack
<1>3. ASSUME SentIn(q, w, t) PROVE SentIn(r, w, t)
  <2>1. \A i \in DOMAIN q : i \in DOMAIN r /\ r[i] = q[i]
    BY <1>1
  <2>. QED
    BY <1>3, <2>1 DEF SentIn
<1>. QED
  BY <1>2, <1>3 DEF r

LEMMA EventsLast ==
    ASSUME NodeInv, NEW u \in Task, NEW v \in Worker, NEW w \in Worker, NEW t \in Task
    PROVE  /\ Send(inner, <<AssignedE(u, v)>>) =>
                 /\ TakenBack(inner', w, t) => ~(w = v /\ t = u) /\ TakenBack(inner, w, t)
                 /\ SentIn(inner, w, t) => SentIn(inner', w, t)
           /\ Send(inner, <<UnassignedE(u, v)>>) =>
                 /\ TakenBack(inner', w, t) => (w = v /\ t = u) \/ TakenBack(inner, w, t)
                 /\ SentIn(inner, w, t) => SentIn(inner', w, t)
<1>1. AssignedE(u, v) \in Message /\ UnassignedE(u, v) \in Message
  BY MessagesSent
<1>2. inner \in Seq(Message)
  <2>1. Fine \subseteq Message /\ inner \in Seq(Fine)
    BY DEF Fine, NodeInv
  <2>2. \A S \in SUBSET Message : Seq(S) \subseteq Seq(Message)
    OBVIOUS
  <2>. QED
    BY <2>1, <2>2
<1>3. ASSUME NEW e \in Message, Send(inner, <<e>>)
      PROVE  /\ TakenBack(inner', w, t) =>
                   \/ e = UnassignedE(t, w)
                   \/ e # AssignedE(t, w) /\ TakenBack(inner, w, t)
             /\ SentIn(inner, w, t) => SentIn(inner', w, t)
  <2>1. inner' = inner \o <<e>>
    BY <1>3 DEF Send
  <2>. QED
    BY <1>2, <2>1, EventLast
<1>4. AssignedE(u, v) # UnassignedE(t, w)
  BY DEF AssignedE, UnassignedE
<1>5. /\ AssignedE(u, v) = AssignedE(t, w) <=> w = v /\ t = u
      /\ UnassignedE(u, v) = UnassignedE(t, w) <=> w = v /\ t = u
  BY DEF AssignedE, UnassignedE
<1>. QED
  BY <1>1, <1>3, <1>4, <1>5

LEMMA NextGoneInv ==
    ASSUME NodeInv, GoneInv, [NodeNext]_nodevars
    PROVE  GoneInv'
<1>1. SUFFICES ASSUME NEW w \in Worker, NEW t \in Task, TakenBack(inner', w, t)
               PROVE  w \notin Workers(t)'
  BY DEF GoneInv
<1>2. TakenBack(inner, w, t) => w \notin Workers(t)
  BY DEF GoneInv
<1>3. CASE Others \/ ConsumeProposal
  <2>1. TakenBack(inner, w, t)
    BY <1>1, <1>3, OthersFollow, ConsumedProposalFollows DEF Follow, Follows
  <2>. QED
    BY <1>2, <1>3, <2>1, ReplicasLeft
<1>4. CASE UNCHANGED nodevars
  <2>1. inner' = inner
    BY <1>4 DEF nodevars, node
  <2>. QED
    BY <1>1, <1>2, <1>4, <2>1, ReplicasLeft
<1>5. CASE EngineStep
  <2>2. CASE Silent
    BY <1>1, <1>2, <2>2 DEF Silent
  <2>3. ASSUME NEW u \in Task, u = cur, NEW v, Gives(v)
        PROVE  w \notin Workers(t)'
    <3>1. /\ v \in Worker /\ Send(inner, <<AssignedE(u, v)>>)
          /\ Workers(t)' = IF t = u THEN Workers(t) \cup {v} ELSE Workers(t)
      BY <2>3 DEF Gives
    <3>2. v \in Worker
      BY <3>1
    <3>3. ~(w = v /\ t = u) /\ TakenBack(inner, w, t)
      BY <1>1, <3>1, <3>2, EventsLast
    <3>. QED
      BY <1>2, <3>1, <3>3
  <2>4. ASSUME NEW u \in Task, u = cur, NEW v, TakesBack(v)
        PROVE  w \notin Workers(t)'
    <3>1. /\ v \in Worker /\ Send(inner, <<UnassignedE(u, v)>>)
          /\ Workers(t)' = IF t = u THEN Workers(t) \ {v} ELSE Workers(t)
      BY <2>4 DEF TakesBack
    <3>2. v \in Worker
      BY <3>1
    <3>3. (w = v /\ t = u) \/ TakenBack(inner, w, t)
      BY <1>1, <3>1, <3>2, EventsLast
    <3>. QED
      BY <1>2, <3>1, <3>3
  <2>. QED
    BY <1>5, <2>2, <2>3, <2>4, EngineMoves DEF NodeInv, ChainInv
<1>. QED
  BY <1>3, <1>4, <1>5, NodeCases

(* The failure of a worker that has a replica is accepted where none was    *)
(* counted yet: the replica is about to be given back.                      *)
LEMMA FailureTaken ==
    ASSUME NodeInv, ConsumeProposal, NEW t \in Task, NEW w \in Workers(t), nb_failures[t] = 0,
           Reports(Head(inner), w, t)
    PROVE  GivenBack(w, t)'
<1>. DEFINE p == Head(inner)
            k == p.failure
            n == p.nb
            m == p.from
<1>1. /\ inner # <<>> /\ p \in Fine /\ p.kind = "Failure" /\ p.worker = w /\ p.task = t
      /\ OwnFailure(p)
  <2>1. inner # <<>>
    BY DEF ConsumeProposal, Consuming
  <2>2. p \in Fine
    BY <2>1, ChannelConsumed DEF NodeInv
  <2>3. p.kind = "Failure" /\ p.worker = w /\ p.task = t /\ p.from = Me
    BY DEF Reports
  <2>. QED
    BY <2>1, <2>2, <2>3 DEF Fine, ForeignOne
<1>2. /\ ReceiveFailure(t, m, k, w, as_bytes(t), n)
         \/ ~FailureApplies(t, k, w, as_bytes(t), n)
  <2>1. ReceiveFailure(p.task, p.from, p.failure, p.worker, as_bytes(p.task), p.nb) \/ ~Applies(p)
    BY <1>1 DEF ConsumeProposal
  <2>. HIDE DEF p
  <2>2. Applies(p) <=> FailureApplies(p.task, p.failure, p.worker, as_bytes(p.task), p.nb)
    BY <1>1 DEF Applies
  <2>. QED
    BY <1>1, <2>1, <2>2
<1>3. IInv /\ Max_failures(t) \in Nat
  BY TaskConstants DEF NodeInv, ChainInv
<1>4. w \in Worker /\ Incomplete(t) /\ \E s \in Filled(t) : substates[t][s] = w
  BY <1>3, ReplicaIs
<1>5. k \in NodeFailure /\ n \in Nat
  BY <1>1, MessageShape DEF Fine, OwnFailure
<1>6. IF k = "Aborted" THEN n <= 0 ELSE n \in 1..1
  <2>1. IF k = "Aborted" THEN n <= nb_failures[t] ELSE n \in 1..(nb_failures[t] + 1)
    BY <1>1 DEF OwnFailure
  <2>. HIDE DEF k, n
  <2>. QED
    BY <2>1
<1>. HIDE DEF p, k, n, m
<1>7. FailureAccepted(t, k, w, as_bytes(t), n)
  BY <1>5, <1>6 DEF FailureAccepted, NodeFailure
<1>8. FailureApplies(t, k, w, as_bytes(t), n)
  BY <1>4, <1>7 DEF FailureApplies, Incomplete, Known
<1>9. /\ ReceiveFailure(t, m, k, w, as_bytes(t), n)
      /\ HasReason(k) /\ NamesWorker(k)
  BY <1>2, <1>5, <1>8 DEF NodeFailure, HasReason, NamesWorker
<1>10. \E changes : Accept(t, m, changes) /\ UnassignChanges(t, k, w) \subseteq changes
  <2>1. CASE n <= Max_failures(t)
    BY <1>9, <2>1 DEF ReceiveFailure
  <2>2. CASE ~(n <= Max_failures(t))
    BY <1>9, <2>2 DEF ReceiveFailure
  <2>. QED
    BY <2>1, <2>2
<1>11. cur' = t /\ UnassignChanges(t, k, w) \subseteq todo'
  BY <1>10 DEF Accept
<1>12. \E c \in UnassignChanges(t, k, w) : c.kind = "Unassign" /\ c.worker = w
  <2>1. PICK s \in Filled(t) : substates[t][s] = w
    BY <1>4
  <2>2. CASE UnassignsAll(t, k)
    <3>1. UnassignC(substates[t][s], s) \in UnassignChanges(t, k, w)
      BY <2>2 DEF UnassignChanges
    <3>. QED
      BY <2>1, <3>1 DEF UnassignC
  <2>3. CASE ~UnassignsAll(t, k)
    BY <2>3 DEF UnassignChanges, UnassignC
  <2>. QED
    BY <2>2, <2>3
<1>. QED
  BY <1>11, <1>12 DEF GivenBack

(* A failure that is counted stays so. *)
LEMMA UncountedBefore ==
    ASSUME NodeInv, [NodeNext]_nodevars, NEW t \in Task, Workers(t) # {}, nb_failures'[t] = 0
    PROVE  nb_failures[t] = 0
<1>1. [Next]_vars /\ restarts' = restarts
  BY EngineRuns
<1>2. IInv /\ FreshInv /\ nb_failures[t] \in Nat
  BY DEF NodeInv, ChainInv, IInv, TypeInv, TypeOK
<1>3. Known(t)
  BY <1>2, ReplicaIs DEF Known, Incomplete
<1>4. nb_failures'[t] >= nb_failures[t]
  BY <1>1, <1>2, <1>3, NextIsFinal
<1>. QED
  BY <1>2, <1>4

LEMMA AliveBefore ==
    ASSUME [NodeNext]_nodevars, Alive'
    PROVE  Alive
<1>1. CASE EngineStep
  BY <1>1 DEF EngineStep
<1>2. CASE ConsumeProposal
  BY <1>2 DEF ConsumeProposal, Consuming
<1>3. CASE Others
  BY <1>3 DEF Others, ConsumeAssigned, ConsumeUnassigned, Consuming, Tick, Swarm, WorkerNew,
              WorkerGone, StatusCompleted, StatusError, StatusLost, Ends, ExternalStep, External
<1>4. CASE UNCHANGED nodevars
  BY <1>4 DEF nodevars, vars, node, Alive
<1>. QED
  BY <1>1, <1>2, <1>3, <1>4, NodeCases

(* What is kept stays so in a step of the node that is not one of the engine. *)
LEMMA KeptByFollow ==
    ASSUME NodeInv, NodeInv', GoneInv, Alive', NEW w \in Worker, NEW t \in Task,
           w \in Workers(t), Follows(w, t), Kept(w, t), ~GivenBack(w, t)
    PROVE  \/ Kept(w, t)'
           \/ ConsumeProposal /\ Reports(Head(inner), w, t)
<1>1. Ahead(w, t) \in Nat
  BY AheadType
<1>2. CASE Ahead(w, t) >= 1
  BY <1>1, <1>2 DEF Follows, Kept
<1>3. CASE SentIn(inner, w, t)
  BY <1>3 DEF Follows, Kept
<1>4. CASE <<w, t>> \in completed
  <2>1. ~TakenBack(inner, w, t)
    BY DEF GoneInv
  <2>. QED
    BY <1>4, <2>1 DEF Follows, Kept
<1>. QED
  BY <1>2, <1>3, <1>4 DEF Kept

LEMMA NextHeldInv ==
    ASSUME NodeInv, GoneInv, HeldInv, [NodeNext]_nodevars
    PROVE  HeldInv'
<1>0. IInv /\ NodeInv'
  BY NextNodeInv DEF NodeInv, ChainInv
<1>1. SUFFICES ASSUME Alive', NEW w \in Worker, NEW t \in Task, w \in Workers(t)',
                      nb_failures'[t] = 0
               PROVE  Kept(w, t)'
  BY DEF HeldInv
<1>2. Alive
  BY <1>1, AliveBefore
<1>3. ASSUME w \in Workers(t) PROVE Kept(w, t) /\ nb_failures[t] = 0
  <2>1. nb_failures[t] = 0
    BY <1>1, <1>3, UncountedBefore
  <2>. QED
    BY <1>2, <1>3, <2>1 DEF HeldInv
<1>4. CASE ConsumeProposal
  <2>1. w \in Workers(t)
    BY <1>1, <1>4, ReplicasLeft
  <2>2. Follows(w, t)
    BY <1>4, ConsumedProposalFollows DEF Follow
  <2>3. ~GivenBack(w, t)
    <3>1. phase = "idle" /\ PhaseOK
      BY <1>0, <1>4 DEF ConsumeProposal, Consuming, IInv, TypeInv
    <3>. QED
      BY <3>1 DEF PhaseOK, GivenBack
  <2>4. CASE Reports(Head(inner), w, t)
    <3>1. GivenBack(w, t)'
      BY <1>3, <1>4, <2>1, <2>4, FailureTaken
    <3>. QED
      BY <3>1 DEF Kept
  <2>. QED
    BY <1>0, <1>1, <1>3, <2>1, <2>2, <2>3, <2>4, KeptByFollow
<1>5. CASE Others /\ ~ConsumeProposal
  <2>1. w \in Workers(t)
    BY <1>1, <1>5, ReplicasLeft
  <2>2. Follows(w, t)
    BY <1>5, OthersFollow DEF Follow
  <2>3. CASE GivenBack(w, t)
    <3>1. UNCHANGED <<cur, todo>>
      BY <1>5, OthersLeaveEngine DEF vars, handler, LockJob, Elapse
    <3>2. GivenBack(w, t)'
      BY <2>3, <3>1 DEF GivenBack
    <3>. QED
      BY <3>2 DEF Kept
  <2>4. CASE ~GivenBack(w, t)
    BY <1>0, <1>1, <1>3, <1>5, <2>1, <2>2, <2>4, KeptByFollow
  <2>. QED
    BY <2>3, <2>4
<1>6. CASE UNCHANGED nodevars
  <2>1. Kept(w, t)' <=> Kept(w, t)
    BY <1>6 DEF nodevars, node, vars, handler, Kept, Ahead, SentIn, GivenBack
  <2>2. w \in Workers(t)
    BY <1>1, <1>6, ReplicasLeft
  <2>. QED
    BY <1>3, <2>1, <2>2
<1>7. CASE EngineStep
  <2>1. workers' = workers /\ completed' = completed
    BY <1>7 DEF EngineStep
  <2>2. Ahead(w, t) \in Nat
    BY AheadType
  <2>3. CASE Silent
    <3>1. w \in Workers(t) /\ inner' = inner /\ (GivenBack(w, t) => GivenBack(w, t)')
      BY <1>1, <2>3 DEF Silent
    <3>2. Ahead(w, t)' = Ahead(w, t)
      BY <2>1, <3>1 DEF Ahead
    <3>3. SentIn(inner', w, t) <=> SentIn(inner, w, t)
      BY <3>1
    <3>. QED
      BY <1>3, <2>1, <3>1, <3>2, <3>3 DEF Kept
  <2>4. ASSUME NEW u \in Task, u = cur, NEW v, Gives(v)
        PROVE  Kept(w, t)'
    <3>1. /\ v \in Worker /\ Send(inner, <<AssignedE(u, v)>>)
          /\ Workers(t)' = IF t = u THEN Workers(t) \cup {v} ELSE Workers(t)
          /\ GivenBack(w, t) => GivenBack(w, t)'
      BY <2>4 DEF Gives
    <3>2. v \in Worker
      BY <3>1
    <3>3. Grows(u, v, w, t)
      BY <2>1, <3>2, EventSent
    <3>4. Ahead(w, t)' = IF w = v /\ t = u THEN Ahead(w, t) + 1 ELSE Ahead(w, t)
      BY <3>1, <3>3 DEF Grows
    <3>5. SentIn(inner, w, t) => SentIn(inner', w, t)
      BY <3>1, <3>2, EventsLast
    <3>6. CASE w = v /\ t = u
      BY <2>2, <3>4, <3>6 DEF Kept
    <3>7. CASE ~(w = v /\ t = u)
      <4>1. w \in Workers(t) /\ Ahead(w, t)' = Ahead(w, t)
        BY <1>1, <3>1, <3>4, <3>7
      <4>. QED
        BY <1>3, <2>1, <3>1, <3>5, <4>1 DEF Kept
    <3>. QED
      BY <3>6, <3>7
  <2>5. ASSUME NEW u \in Task, u = cur, NEW v, TakesBack(v)
        PROVE  Kept(w, t)'
    <3>1. /\ v \in Worker /\ Send(inner, <<UnassignedE(u, v)>>)
          /\ Workers(t)' = IF t = u THEN Workers(t) \ {v} ELSE Workers(t)
          /\ GivenBack(w, t) => GivenBack(w, t)' \/ (w = v /\ t = u)
      BY <2>5 DEF TakesBack
    <3>2. v \in Worker
      BY <3>1
    <3>3. Shrinks(u, v, w, t)
      BY <2>1, <3>2, EventSent
    <3>4. w \in Workers(t) /\ ~(w = v /\ t = u)
      BY <1>1, <3>1
    <3>5. Ahead(w, t)' = Ahead(w, t)
      BY <3>1, <3>3, <3>4 DEF Shrinks
    <3>6. SentIn(inner, w, t) => SentIn(inner', w, t)
      BY <3>1, <3>2, EventsLast
    <3>. QED
      BY <1>3, <2>1, <3>1, <3>4, <3>5, <3>6 DEF Kept
  <2>. QED
    BY <1>7, <2>3, <2>4, <2>5, EngineMoves DEF NodeInv, ChainInv
<1>. QED
  BY <1>4, <1>5, <1>6, <1>7, NodeCases

LEMMA InitHeldInv == NodeInit => GoneInv /\ HeldInv
<1>. SUFFICES ASSUME NodeInit PROVE GoneInv /\ HeldInv
  OBVIOUS
<1>1. Init /\ inner = <<>>
  BY DEF NodeInit
<1>2. \A t \in Task : Workers(t) = {}
  BY <1>1 DEF Init, Workers, Filled, Empty
<1>. QED
  BY <1>2 DEF GoneInv, HeldInv

(* Between two proposals every replica of a task that has no failure yet is *)
(* in a slot of its worker, on its way there, completed, or about to be     *)
(* given back (delete_worker, handle_shared_state_change,                   *)
(* send_abord_proposal).                                                    *)
THEOREM NoneForgotten == NodeSpec => []NoReplicaForgotten
<1>1. NodeInv /\ SlotsInv /\ HeldInv => NoReplicaForgotten
  <2>. SUFFICES ASSUME NodeInv, SlotsInv, HeldInv, Alive, phase = "idle",
                       NEW t \in Task, NEW w \in Workers(t), nb_failures[t] = 0
                PROVE  Expected(w, t) = 1 \/ FailureSent(w, t) \/ <<w, t>> \in completed
    BY DEF NoReplicaForgotten, Held
  <2>1. IInv /\ PhaseOK
    BY DEF NodeInv, ChainInv, IInv, TypeInv
  <2>2. w \in Worker
    BY <2>1, ReplicaIs
  <2>3. ~GivenBack(w, t)
    BY <2>1 DEF PhaseOK, GivenBack
  <2>4. Kept(w, t)
    BY <2>2 DEF HeldInv
  <2>5. Ahead(w, t) \in Nat /\ Ahead(w, t) <= 1
    BY <2>2, AheadType DEF SlotsInv
  <2>6. FailureSent(w, t) <=> SentIn(inner, w, t)
    BY DEF FailureSent, SentIn, Reports
  <2>7. Expected(w, t) = Ahead(w, t)
    BY ExpectedIs
  <2>. QED
    BY <2>3, <2>4, <2>5, <2>6, <2>7 DEF Kept
<1>2. NodeInv /\ SlotsInv /\ [NodeNext]_nodevars => SlotsInv'
  BY NextSlotsInv
<1>3. NodeInv /\ GoneInv /\ [NodeNext]_nodevars => GoneInv'
  BY NextGoneInv
<1>4. NodeInv /\ GoneInv /\ HeldInv /\ [NodeNext]_nodevars => HeldInv'
  BY NextHeldInv
<1>. QED
  BY <1>1, <1>2, <1>3, <1>4, InitSlotsInv, InitHeldInv, NodeInductive, PTL DEF NodeSpec
================================================================================

----------------------------- MODULE SumTheorems -----------------------------
(***************************************************************************)
(* Sums over finite sets: what SumFunctionOnSet computes, for every        *)
(* function and every finite set. The fold is a recursive function, and    *)
(* the induction theorems of the library cannot be cited here, because     *)
(* their predicate is an operator: the inductions below are on the set of  *)
(* the sets, or numbers, a fact holds for.                                 *)
(***************************************************************************)
EXTENDS Integers, FiniteSets, FiniteSetsExt, FiniteSetTheorems, TLAPS

------------------------------------------------------------------------------
(* Induction *)

(* What holds for a set as soon as it holds for the set without any one of  *)
(* its elements holds for every finite set.                                 *)
LEMMA SetInduction ==
    ASSUME NEW S, IsFiniteSet(S), NEW Good,
           \A T \in SUBSET S : (\A x \in T : T \ {x} \in Good) => T \in Good
    PROVE  S \in Good
<1>. DEFINE Bad == (SUBSET S) \ Good
            R == StrictSubsetOrdering(S)
<1>. SUFFICES ASSUME S \notin Good PROVE FALSE
  OBVIOUS
<1>1. IsWellFoundedOn(R, SUBSET S)
  <2>1. IsWellFoundedOn(R, FiniteSubsetsOf(S))
    BY FS_StrictSubsetOrderingWellFounded
  <2>2. FiniteSubsetsOf(S) = SUBSET S
    BY FS_FiniteSubsetsOfFinite
  <2>. QED
    BY <2>1, <2>2
<1>2. Bad \subseteq SUBSET S /\ Bad # {}
  OBVIOUS
<1>. HIDE DEF R, Bad
<1>3. PICK T \in Bad : \A U \in Bad : ~(<<U, T>> \in R)
  BY <1>1, <1>2, WFMin
<1>4. PICK x \in T : T \ {x} \notin Good
  BY DEF Bad
<1>5. T \ {x} \in Bad /\ <<T \ {x}, T>> \in R
  BY <1>4 DEF Bad, R, StrictSubsetOrdering
<1>. QED
  BY <1>3, <1>5

LEMMA NumberInduction ==
    ASSUME NEW Good, 0 \in Good, \A n \in Good : n \in Nat => n + 1 \in Good
    PROVE  Nat \subseteq Good
<1>. DEFINE R == {ss \in Nat \X Nat : ss[1] < ss[2]}
<1>. SUFFICES ASSUME NEW k \in Nat \ Good PROVE FALSE
  OBVIOUS
<1>1. IsWellFoundedOn(R, Nat)
  BY NatLessThanWellFounded DEF OpToRel
<1>. HIDE DEF R
<1>2. PICK n \in Nat \ Good : \A m \in Nat \ Good : ~(<<m, n>> \in R)
  BY <1>1, WFMin
<1>3. n # 0 /\ n - 1 \in Nat
  <2>1. ASSUME n = 0 PROVE FALSE
    BY <2>1
  <2>. QED
    BY <2>1
<1>4. <<n - 1, n>> \in R
  <2>1. <<n - 1, n>> \in Nat \X Nat /\ n - 1 < n
    BY <1>3
  <2>. QED
    BY <2>1 DEF R
<1>5. n - 1 \in Good
  BY <1>2, <1>3, <1>4
<1>6. (n - 1) + 1 \in Good
  BY <1>3, <1>5
<1>. QED
  BY <1>6

------------------------------------------------------------------------------
(* The recursion *)

Chosen(s) == CHOOSE x \in s : TRUE

(* g adds up f on every subset of S. *)
Adds(g, f, S) ==
    g = [s \in SUBSET S |-> IF s = {} THEN 0 ELSE f[Chosen(s)] + g[s \ {Chosen(s)}]]

LEMMA SumIsIterated ==
    ASSUME NEW f, NEW S
    PROVE  SumFunctionOnSet(f, S) = (CHOOSE g : Adds(g, f, S))[S]
  BY DEF SumFunctionOnSet, FoldFunctionOnSet, MapThenFoldSet, Adds, Chosen

(* The recursive function exists, and it is the only one. *)
LEMMA SomethingAdds ==
    ASSUME NEW f, NEW S, IsFiniteSet(S)
    PROVE  \E g : Adds(g, f, S)
<1>. DEFINE Step(g, s) == IF s = {} THEN 0 ELSE f[Chosen(s)] + g[s \ {Chosen(s)}]
            UpTo(g, n) == \A s \in SUBSET S : Cardinality(s) <= n => g[s] = Step(g, s)
            Reached == {n \in Nat : \E g : UpTo(g, n)}
<1>1. 0 \in Reached
  <2>1. UpTo([s \in SUBSET S |-> 0], 0)
    <3>. SUFFICES ASSUME NEW s \in SUBSET S, Cardinality(s) <= 0 PROVE s = {}
      OBVIOUS
    <3>. QED
      BY FS_Subset, FS_CardinalityType, FS_EmptySet
  <2>. QED
    BY <2>1
<1>2. ASSUME NEW n \in Reached PROVE n + 1 \in Reached
  <2>1. PICK g : UpTo(g, n)
    BY <1>2
  <2>. DEFINE h == [s \in SUBSET S |-> Step(g, s)]
  <2>2. UpTo(h, n + 1)
    <3>. SUFFICES ASSUME NEW s \in SUBSET S, Cardinality(s) <= n + 1, s # {}
                  PROVE  g[s \ {Chosen(s)}] = h[s \ {Chosen(s)}]
      OBVIOUS
    <3>1. Chosen(s) \in s
      BY DEF Chosen
    <3>2. IsFiniteSet(s) /\ Cardinality(s) \in Nat
      BY FS_Subset, FS_CardinalityType
    <3>3. Cardinality(s \ {Chosen(s)}) = Cardinality(s) - 1
      BY <3>1, <3>2, FS_RemoveElement
    <3>. DEFINE r == s \ {Chosen(s)}
    <3>4. r \in SUBSET S /\ Cardinality(r) <= n
      BY <3>2, <3>3
    <3>5. g[r] = Step(g, r)
      BY <2>1, <3>4
    <3>. QED
      BY <3>4, <3>5
  <2>. HIDE DEF UpTo
  <2>. QED
    BY <2>2
<1>3. Cardinality(S) \in Reached
  <2>. HIDE DEF Reached
  <2>. QED
    BY <1>1, <1>2, NumberInduction, FS_CardinalityType
<1>4. PICK g : UpTo(g, Cardinality(S))
  BY <1>3
<1>5. Adds([s \in SUBSET S |-> g[s]], f, S)
  <2>. SUFFICES ASSUME NEW s \in SUBSET S
                PROVE  g[s] = Step([r \in SUBSET S |-> g[r]], s)
    BY DEF Adds
  <2>1. Cardinality(s) <= Cardinality(S)
    BY FS_Subset
  <2>2. g[s] = Step(g, s)
    BY <1>4, <2>1
  <2>. QED
    BY <2>2
<1>. QED
  BY <1>5

LEMMA AddsRow ==
    ASSUME NEW f, NEW S, NEW g, Adds(g, f, S), NEW s \in SUBSET S
    PROVE  g[s] = IF s = {} THEN 0 ELSE f[Chosen(s)] + g[s \ {Chosen(s)}]
<1>. DEFINE Row(h, r) == IF r = {} THEN 0 ELSE f[Chosen(r)] + h[r \ {Chosen(r)}]
<1>1. g = [r \in SUBSET S |-> Row(g, r)]
  BY DEF Adds
<1>. HIDE DEF Row
<1>2. g[s] = Row(g, s)
  BY <1>1
<1>. QED
  BY <1>2 DEF Row

LEMMA AddsTheSame ==
    ASSUME NEW f, NEW S, NEW T \in SUBSET S, IsFiniteSet(T),
           NEW g, Adds(g, f, S), NEW h, Adds(h, f, T)
    PROVE  g[T] = h[T]
<1>. DEFINE Good == {s \in SUBSET T : g[s] = h[s]}
<1>1. {} \in Good
  BY AddsRow
<1>2. ASSUME NEW s \in SUBSET T, s \ {Chosen(s)} \in Good
      PROVE  s \in Good
  BY <1>2, AddsRow
<1>3. ASSUME NEW s \in SUBSET T, s \notin Good PROVE \E x \in s : s \ {x} \notin Good
  <2>1. s # {}
    BY <1>1, <1>3
  <2>2. Chosen(s) \in s
    BY <2>1 DEF Chosen
  <2>. QED
    BY <1>2, <1>3, <2>2
<1>. HIDE DEF Good
<1>4. T \in Good
  BY <1>3, SetInduction
<1>. QED
  BY <1>4 DEF Good

LEMMA SumByStep ==
    ASSUME NEW f, NEW S, IsFiniteSet(S)
    PROVE  SumFunctionOnSet(f, S) =
             IF S = {} THEN 0
             ELSE f[Chosen(S)] + SumFunctionOnSet(f, S \ {Chosen(S)})
<1>. DEFINE G(T) == CHOOSE g : Adds(g, f, T)
            r == S \ {Chosen(S)}
<1>1. IsFiniteSet(r)
  BY FS_Subset
<1>2. Adds(G(S), f, S) /\ Adds(G(r), f, r)
  BY <1>1, SomethingAdds
<1>3. SumFunctionOnSet(f, S) = G(S)[S] /\ SumFunctionOnSet(f, r) = G(r)[r]
  BY SumIsIterated
<1>. HIDE DEF G
<1>4. G(S)[r] = G(r)[r]
  BY <1>1, <1>2, AddsTheSame
<1>5. G(S)[S] = IF S = {} THEN 0 ELSE f[Chosen(S)] + G(S)[r]
  BY <1>2, AddsRow
<1>. QED
  BY <1>3, <1>4, <1>5

(* The sum of nothing is 0. *)
LEMMA SumOfNothing == ASSUME NEW f PROVE SumFunctionOnSet(f, {}) = 0
  BY SumByStep, FS_EmptySet

(* A sum of integers is an integer. *)
LEMMA SumType ==
    ASSUME NEW f, NEW S, IsFiniteSet(S), \A x \in S : f[x] \in Int
    PROVE  SumFunctionOnSet(f, S) \in Int
<1>. DEFINE Good == {T \in SUBSET S : SumFunctionOnSet(f, T) \in Int}
<1>1. ASSUME NEW T \in SUBSET S, \A x \in T : T \ {x} \in Good PROVE T \in Good
  <2>1. IsFiniteSet(T)
    BY FS_Subset
  <2>2. T # {} => Chosen(T) \in T
    BY DEF Chosen
  <2>3. SumFunctionOnSet(f, T) =
          IF T = {} THEN 0 ELSE f[Chosen(T)] + SumFunctionOnSet(f, T \ {Chosen(T)})
    BY <2>1, SumByStep
  <2>4. CASE T = {}
    BY <2>3, <2>4
  <2>5. CASE T # {}
    <3>1. f[Chosen(T)] \in Int /\ SumFunctionOnSet(f, T \ {Chosen(T)}) \in Int
      BY <1>1, <2>2, <2>5
    <3>. QED
      BY <2>3, <2>5, <3>1
  <2>. QED
    BY <2>4, <2>5
<1>. HIDE DEF Good
<1>2. S \in Good
  BY <1>1, SetInduction
<1>. QED
  BY <1>2 DEF Good

(* Any element can be taken out first. *)
LEMMA SumWithout ==
    ASSUME NEW f, NEW S, IsFiniteSet(S), \A x \in S : f[x] \in Int, NEW y \in S
    PROVE  SumFunctionOnSet(f, S) = f[y] + SumFunctionOnSet(f, S \ {y})
<1>. DEFINE Good == {T \in SUBSET S : \A x \in T :
                       SumFunctionOnSet(f, T) = f[x] + SumFunctionOnSet(f, T \ {x})}
<1>1. ASSUME NEW T \in SUBSET S, \A x \in T : T \ {x} \in Good PROVE T \in Good
  <2>. SUFFICES ASSUME NEW x \in T, x # Chosen(T)
                PROVE  SumFunctionOnSet(f, T) = f[x] + SumFunctionOnSet(f, T \ {x})
    <3>1. IsFiniteSet(T)
      BY FS_Subset
    <3>. QED
      BY <3>1, SumByStep
  <2>. DEFINE c == Chosen(T)
              U == (T \ {x}) \ {c}
  <2>1. c \in T
    BY DEF Chosen
  <2>2. IsFiniteSet(T) /\ IsFiniteSet(U)
    BY FS_Subset
  <2>3. SumFunctionOnSet(f, T) = f[c] + SumFunctionOnSet(f, T \ {c})
    BY <2>1, <2>2, SumByStep
  <2>4. SumFunctionOnSet(f, T \ {c}) = f[x] + SumFunctionOnSet(f, U)
    <3>1. x \in T \ {c} /\ (T \ {c}) \ {x} = U
      OBVIOUS
    <3>. QED
      BY <1>1, <2>1, <3>1
  <2>5. SumFunctionOnSet(f, T \ {x}) = f[c] + SumFunctionOnSet(f, U)
    BY <1>1, <2>1
  <2>6. SumFunctionOnSet(f, U) \in Int /\ f[x] \in Int /\ f[c] \in Int
    BY <2>1, <2>2, SumType
  <2>. QED
    BY <2>3, <2>4, <2>5, <2>6
<1>. HIDE DEF Good
<1>2. S \in Good
  BY <1>1, SetInduction
<1>. QED
  BY <1>2 DEF Good

------------------------------------------------------------------------------
(* How sums change *)

(* An element that is not in the set is added to its sum. *)
LEMMA SumWith ==
    ASSUME NEW f, NEW S, IsFiniteSet(S), \A x \in S : f[x] \in Int,
           NEW y, y \notin S, f[y] \in Int
    PROVE  SumFunctionOnSet(f, S \cup {y}) = f[y] + SumFunctionOnSet(f, S)
<1>. DEFINE T == S \cup {y}
<1>1. IsFiniteSet(T)
  BY FS_AddElement
<1>2. y \in T /\ T \ {y} = S /\ \A x \in T : f[x] \in Int
  OBVIOUS
<1>. HIDE DEF T
<1>3. SumFunctionOnSet(f, T) = f[y] + SumFunctionOnSet(f, T \ {y})
  BY <1>1, <1>2, SumWithout
<1>. QED
  BY <1>2, <1>3 DEF T

(* The sum depends on the values on the set only. *)
LEMMA SumOfEquals ==
    ASSUME NEW f, NEW g, NEW S, IsFiniteSet(S), \A x \in S : f[x] = g[x]
    PROVE  SumFunctionOnSet(f, S) = SumFunctionOnSet(g, S)
<1>. DEFINE Good == {T \in SUBSET S : SumFunctionOnSet(f, T) = SumFunctionOnSet(g, T)}
<1>1. ASSUME NEW T \in SUBSET S, \A x \in T : T \ {x} \in Good PROVE T \in Good
  <2>1. IsFiniteSet(T)
    BY FS_Subset
  <2>2. T # {} => Chosen(T) \in T
    BY DEF Chosen
  <2>3. T # {} => SumFunctionOnSet(f, T \ {Chosen(T)}) = SumFunctionOnSet(g, T \ {Chosen(T)})
    BY <1>1, <2>2
  <2>4. T # {} => f[Chosen(T)] = g[Chosen(T)]
    BY <2>2
  <2>. QED
    BY <2>1, <2>3, <2>4, SumByStep
<1>. HIDE DEF Good
<1>2. S \in Good
  BY <1>1, SetInduction
<1>. QED
  BY <1>2 DEF Good

(* The sum of sums is the sum of the sums. *)
LEMMA SumOfSums ==
    ASSUME NEW f, NEW g, NEW h, NEW S, IsFiniteSet(S),
           \A x \in S : f[x] \in Int /\ g[x] \in Int /\ h[x] = f[x] + g[x]
    PROVE  SumFunctionOnSet(h, S) = SumFunctionOnSet(f, S) + SumFunctionOnSet(g, S)
<1>. DEFINE Adding(T) == SumFunctionOnSet(h, T) = SumFunctionOnSet(f, T) + SumFunctionOnSet(g, T)
            Good == {T \in SUBSET S : Adding(T)}
<1>1. ASSUME NEW T \in SUBSET S, \A x \in T : T \ {x} \in Good PROVE T \in Good
  <2>1. IsFiniteSet(T)
    BY FS_Subset
  <2>2. CASE T = {}
    BY <2>2, SumOfNothing
  <2>3. CASE T # {}
    <3>1. PICK x \in T : TRUE
      BY <2>3
    <3>. DEFINE U == T \ {x}
    <3>2. IsFiniteSet(U) /\ Adding(U)
      BY <1>1, <2>1, FS_Subset
    <3>3. /\ SumFunctionOnSet(h, T) = h[x] + SumFunctionOnSet(h, U)
          /\ SumFunctionOnSet(f, T) = f[x] + SumFunctionOnSet(f, U)
          /\ SumFunctionOnSet(g, T) = g[x] + SumFunctionOnSet(g, U)
      BY <2>1, SumWithout
    <3>4. SumFunctionOnSet(f, U) \in Int /\ SumFunctionOnSet(g, U) \in Int
      BY <3>2, SumType
    <3>5. f[x] \in Int /\ g[x] \in Int /\ h[x] = f[x] + g[x]
      OBVIOUS
    <3>. HIDE DEF U
    <3>. QED
      BY <3>2, <3>3, <3>4, <3>5
  <2>. QED
    BY <2>2, <2>3
<1>. HIDE DEF Good
<1>2. S \in Good
  BY <1>1, SetInduction
<1>. QED
  BY <1>2 DEF Good

(* A sum changes by as much as its only element that changes. *)
LEMMA SumOfUpdate ==
    ASSUME NEW f, NEW g, NEW S, IsFiniteSet(S), \A x \in S : f[x] \in Int,
           NEW y \in S, g[y] \in Int, \A x \in S \ {y} : g[x] = f[x]
    PROVE  SumFunctionOnSet(g, S) = SumFunctionOnSet(f, S) + g[y] - f[y]
<1>1. \A x \in S : g[x] \in Int
  OBVIOUS
<1>2. IsFiniteSet(S \ {y})
  BY FS_Subset
<1>3. SumFunctionOnSet(f, S) = f[y] + SumFunctionOnSet(f, S \ {y})
  BY SumWithout
<1>4. SumFunctionOnSet(g, S) = g[y] + SumFunctionOnSet(g, S \ {y})
  BY <1>1, SumWithout
<1>5. SumFunctionOnSet(g, S \ {y}) = SumFunctionOnSet(f, S \ {y})
  BY <1>2, SumOfEquals
<1>6. SumFunctionOnSet(f, S \ {y}) \in Int
  BY <1>2, SumType
<1>. QED
  BY <1>3, <1>4, <1>5, <1>6

(* A sum of zeroes is 0. *)
LEMMA SumOfZeroes ==
    ASSUME NEW f, NEW S, IsFiniteSet(S), \A x \in S : f[x] = 0
    PROVE  SumFunctionOnSet(f, S) = 0
<1>1. SumFunctionOnSet(f, S) = SumFunctionOnSet(f, S) + SumFunctionOnSet(f, S)
  BY SumOfSums
<1>. DEFINE sum == SumFunctionOnSet(f, S)
<1>2. sum \in Int
  BY SumType
<1>3. sum = sum + sum
  BY <1>1
<1>. HIDE DEF sum
<1>4. sum = 0
  BY <1>2, <1>3
<1>. QED
  BY <1>4 DEF sum

(* A sum whose only element that counts is y *)
LEMMA SumOfOne ==
    ASSUME NEW f, NEW S, IsFiniteSet(S), NEW y \in S, f[y] \in Int,
           \A x \in S \ {y} : f[x] = 0
    PROVE  SumFunctionOnSet(f, S) = f[y]
<1>1. \A x \in S : f[x] \in Int
  OBVIOUS
<1>2. IsFiniteSet(S \ {y})
  BY FS_Subset
<1>3. SumFunctionOnSet(f, S \ {y}) = 0
  BY <1>2, SumOfZeroes
<1>4. SumFunctionOnSet(f, S) = f[y] + SumFunctionOnSet(f, S \ {y})
  BY <1>1, SumWithout
<1>. QED
  BY <1>3, <1>4

(* A sum of naturals is a natural. *)
LEMMA SumOfNaturals ==
    ASSUME NEW f, NEW S, IsFiniteSet(S), \A x \in S : f[x] \in Nat
    PROVE  SumFunctionOnSet(f, S) \in Nat
<1>. DEFINE Good == {T \in SUBSET S : SumFunctionOnSet(f, T) \in Nat}
<1>1. ASSUME NEW T \in SUBSET S, \A x \in T : T \ {x} \in Good PROVE T \in Good
  <2>1. IsFiniteSet(T)
    BY FS_Subset
  <2>2. CASE T = {}
    BY <2>2, SumOfNothing
  <2>3. CASE T # {}
    <3>1. PICK x \in T : TRUE
      BY <2>3
    <3>2. SumFunctionOnSet(f, T) = f[x] + SumFunctionOnSet(f, T \ {x})
      BY <2>1, SumWithout
    <3>3. f[x] \in Nat /\ SumFunctionOnSet(f, T \ {x}) \in Nat
      BY <1>1
    <3>. QED
      BY <3>2, <3>3
  <2>. QED
    BY <2>2, <2>3
<1>. HIDE DEF Good
<1>2. S \in Good
  BY <1>1, SetInduction
<1>. QED
  BY <1>2 DEF Good

LEMMA TimesOneMore == ASSUME NEW c \in Int, NEW n \in Int PROVE c * (n + 1) = c * n + c
  OBVIOUS

(* A sum of one constant *)
LEMMA SumOfConstant ==
    ASSUME NEW f, NEW c \in Int, NEW S, IsFiniteSet(S), \A x \in S : f[x] = c
    PROVE  SumFunctionOnSet(f, S) = c * Cardinality(S)
<1>. DEFINE Good == {T \in SUBSET S : SumFunctionOnSet(f, T) = c * Cardinality(T)}
<1>1. ASSUME NEW T \in SUBSET S, \A x \in T : T \ {x} \in Good PROVE T \in Good
  <2>1. IsFiniteSet(T)
    BY FS_Subset
  <2>2. CASE T = {}
    BY <2>2, SumOfNothing, FS_EmptySet
  <2>3. CASE T # {}
    <3>1. PICK x \in T : TRUE
      BY <2>3
    <3>. DEFINE n == Cardinality(T \ {x})
    <3>2. SumFunctionOnSet(f, T) = f[x] + SumFunctionOnSet(f, T \ {x})
      BY <2>1, SumWithout
    <3>3. f[x] = c /\ SumFunctionOnSet(f, T \ {x}) = c * n
      BY <1>1
    <3>4. n \in Nat /\ Cardinality(T) = n + 1
      <4>1. IsFiniteSet(T \ {x}) /\ n = Cardinality(T) - 1
        BY <2>1, <3>1, FS_RemoveElement
      <4>2. n \in Nat /\ Cardinality(T) \in Nat
        BY <2>1, <4>1, FS_CardinalityType
      <4>. QED
        BY <4>1, <4>2
    <3>. HIDE DEF n
    <3>5. c * (n + 1) = c * n + c /\ c * n \in Int
      BY <3>4, TimesOneMore
    <3>. QED
      BY <3>2, <3>3, <3>4, <3>5
  <2>. QED
    BY <2>2, <2>3
<1>. HIDE DEF Good
<1>2. S \in Good
  BY <1>1, SetInduction
<1>. QED
  BY <1>2 DEF Good

(* The sum of two sets without a common element *)
LEMMA SumOfUnion ==
    ASSUME NEW f, NEW S, IsFiniteSet(S), NEW T, IsFiniteSet(T), S \cap T = {},
           \A x \in S \cup T : f[x] \in Int
    PROVE  SumFunctionOnSet(f, S \cup T) = SumFunctionOnSet(f, S) + SumFunctionOnSet(f, T)
<1>. DEFINE Adding(U) == SumFunctionOnSet(f, S \cup U)
                           = SumFunctionOnSet(f, S) + SumFunctionOnSet(f, U)
            Good == {U \in SUBSET T : Adding(U)}
<1>0. SumFunctionOnSet(f, S) \in Int
  BY SumType
<1>1. ASSUME NEW U \in SUBSET T, \A x \in U : U \ {x} \in Good PROVE U \in Good
  <2>1. CASE U = {}
    <3>1. S \cup U = S /\ SumFunctionOnSet(f, U) = 0
      BY <2>1, SumOfNothing
    <3>2. SumFunctionOnSet(f, S \cup U) = SumFunctionOnSet(f, S)
      BY <3>1
    <3>3. Adding(U)
      BY <1>0, <3>1, <3>2
    <3>. QED
      BY <3>3
  <2>2. CASE U # {}
    <3>1. PICK x \in U : TRUE
      BY <2>2
    <3>. DEFINE R == U \ {x}
    <3>2. IsFiniteSet(U) /\ IsFiniteSet(R) /\ IsFiniteSet(S \cup U)
      BY FS_Subset, FS_Union
    <3>3. Adding(R) /\ (S \cup U) \ {x} = S \cup R /\ x \in S \cup U
      BY <1>1
    <3>4. SumFunctionOnSet(f, S \cup U) = f[x] + SumFunctionOnSet(f, (S \cup U) \ {x})
      BY <3>2, <3>3, SumWithout
    <3>5. SumFunctionOnSet(f, U) = f[x] + SumFunctionOnSet(f, R)
      BY <3>2, SumWithout
    <3>6. f[x] \in Int /\ SumFunctionOnSet(f, R) \in Int
      BY <3>2, SumType
    <3>7. SumFunctionOnSet(f, (S \cup U) \ {x})
            = SumFunctionOnSet(f, S) + SumFunctionOnSet(f, R)
      BY <3>3
    <3>8. Adding(U)
      <4>. HIDE DEF R
      <4>. QED
        BY <1>0, <3>4, <3>5, <3>6, <3>7
    <3>. QED
      BY <3>8
  <2>. QED
    BY <2>1, <2>2
<1>. HIDE DEF Good
<1>2. T \in Good
  BY <1>1, SetInduction
<1>. QED
  BY <1>2 DEF Good

(* Adding up the elements of each kind, then the kinds, adds up them all.   *)
LEMMA SumByKind ==
    ASSUME NEW f, NEW S, IsFiniteSet(S), \A x \in S : f[x] \in Int,
           NEW kind, NEW K, IsFiniteSet(K), \A x \in S : kind[x] \in K
    PROVE  SumFunctionOnSet([k \in K |-> SumFunctionOnSet(f, {x \in S : kind[x] = k})], K)
             = SumFunctionOnSet(f, S)
<1>. DEFINE Of(T, k) == {x \in T : kind[x] = k}
            Parts(T) == [k \in K |-> SumFunctionOnSet(f, Of(T, k))]
            Good == {T \in SUBSET S : SumFunctionOnSet(Parts(T), K) = SumFunctionOnSet(f, T)}
<1>1. ASSUME NEW T \in SUBSET S, \A x \in T : T \ {x} \in Good PROVE T \in Good
  <2>1. IsFiniteSet(T) /\ \A k \in K : IsFiniteSet(Of(T, k))
    BY FS_Subset
  <2>2. \A k \in K : SumFunctionOnSet(f, Of(T, k)) \in Int
    BY <2>1, SumType
  <2>3. CASE T = {}
    <3>1. \A k \in K : Of(T, k) = {}
      BY <2>3
    <3>2. \A k \in K : Parts(T)[k] = 0
      BY <3>1, SumOfNothing
    <3>. HIDE DEF Parts
    <3>. QED
      BY <2>3, <3>2, SumOfZeroes, SumOfNothing
  <2>4. CASE T # {}
    <3>1. PICK x \in T : TRUE
      BY <2>4
    <3>. DEFINE U == T \ {x}
                y == kind[x]
    <3>2. IsFiniteSet(U) /\ y \in K /\ f[x] \in Int
      BY <2>1, FS_Subset
    <3>3. \A k \in K \ {y} : Of(U, k) = Of(T, k)
      OBVIOUS
    <3>4. Of(U, y) = Of(T, y) \ {x} /\ x \in Of(T, y)
      OBVIOUS
    <3>5. SumFunctionOnSet(f, Of(T, y)) = f[x] + SumFunctionOnSet(f, Of(U, y))
      <4>1. IsFiniteSet(Of(T, y)) /\ \A z \in Of(T, y) : f[z] \in Int
        BY <2>1, <3>2
      <4>. DEFINE V == Of(T, y)
      <4>2. V \ {x} = Of(U, y) /\ x \in V /\ IsFiniteSet(V) /\ \A z \in V : f[z] \in Int
        BY <3>4, <4>1
      <4>. HIDE DEF V
      <4>3. SumFunctionOnSet(f, V) = f[x] + SumFunctionOnSet(f, V \ {x})
        BY <4>2, SumWithout
      <4>. QED
        BY <4>2, <4>3 DEF V
    <3>6. \A k \in K : IsFiniteSet(Of(U, k)) /\ SumFunctionOnSet(f, Of(U, k)) \in Int
      <4>1. \A k \in K : IsFiniteSet(Of(U, k))
        BY <3>2, FS_Subset
      <4>. QED
        BY <4>1, SumType
    <3>7. /\ Parts(U)[y] = SumFunctionOnSet(f, Of(U, y))
          /\ Parts(T)[y] = SumFunctionOnSet(f, Of(T, y))
          /\ \A k \in K \ {y} : Parts(T)[k] = Parts(U)[k]
          /\ \A k \in K : Parts(U)[k] \in Int /\ Parts(T)[k] \in Int
      <4>. HIDE DEF Of
      <4>. QED
        BY <2>2, <3>2, <3>3, <3>6
    <3>8. SumFunctionOnSet(Parts(U), K) = SumFunctionOnSet(f, U)
      BY <1>1
    <3>9. SumFunctionOnSet(f, T) = f[x] + SumFunctionOnSet(f, U)
      BY <2>1, SumWithout
    <3>10. SumFunctionOnSet(f, U) \in Int
      BY <3>2, SumType
    <3>. HIDE DEF Of, Parts, U, y
    <3>11. SumFunctionOnSet(Parts(T), K)
             = SumFunctionOnSet(Parts(U), K) + Parts(T)[y] - Parts(U)[y]
      BY <3>2, <3>7, SumOfUpdate
    <3>12. SumFunctionOnSet(Parts(T), K) = SumFunctionOnSet(f, T)
      BY <3>2, <3>5, <3>6, <3>7, <3>8, <3>9, <3>10, <3>11
    <3>. QED
      BY <3>12
  <2>. QED
    BY <2>3, <2>4
<1>. HIDE DEF Good
<1>2. S \in Good
  BY <1>1, SetInduction
<1>. QED
  BY <1>2 DEF Good

------------------------------------------------------------------------------
(* Remainders of a division by w *)

LEMMA Division ==
    ASSUME NEW a \in Int, NEW w \in Nat \ {0}
    PROVE  /\ a % w \in 0..(w - 1)
           /\ a \div w \in Int
           /\ a = w * (a \div w) + (a % w)
  OBVIOUS

LEMMA AtLeastOnce ==
    ASSUME NEW k \in Int, NEW w \in Nat \ {0}, k >= 1
    PROVE  w * k >= w
  OBVIOUS

LEMMA RemainderUnique ==
    ASSUME NEW w \in Nat \ {0}, NEW k \in Int,
           NEW r \in 0..(w - 1), NEW s \in 0..(w - 1), r = s + w * k
    PROVE  r = s
<1>1. CASE k >= 1
  <2>1. w * k >= w /\ w * k \in Int
    BY <1>1, AtLeastOnce
  <2>. QED
    BY <2>1
<1>2. CASE k <= -1
  <2>1. w * (-k) >= w
    BY <1>2, AtLeastOnce
  <2>2. w * (-k) = -(w * k) /\ w * k \in Int
    OBVIOUS
  <2>. QED
    BY <2>1, <2>2
<1>3. CASE k = 0
  BY <1>3
<1>. QED
  BY <1>1, <1>2, <1>3

(* Numbers that differ by a multiple of w have the same remainder. *)
LEMMA SameRemainder ==
    ASSUME NEW w \in Nat \ {0}, NEW a \in Int, NEW b \in Int, NEW k \in Int,
           a = b + w * k
    PROVE  a % w = b % w
<1>. DEFINE q == a \div w
            p == b \div w
            r == a % w
            s == b % w
<1>1. /\ r \in 0..(w - 1) /\ q \in Int /\ a = w * q + r
      /\ s \in 0..(w - 1) /\ p \in Int /\ b = w * p + s
  BY Division
<1>. HIDE DEF q, p, r, s
<1>2. r = s + (w * p + w * k - w * q)
  <2>1. w * q \in Int /\ w * p \in Int /\ w * k \in Int
    BY <1>1
  <2>. QED
    BY <1>1, <2>1
<1>3. w * p + w * k - w * q = w * (p + k - q)
  BY <1>1
<1>4. p + k - q \in Int
  BY <1>1
<1>5. r = s
  BY <1>1, <1>2, <1>3, <1>4, RemainderUnique
<1>. QED
  BY <1>5 DEF r, s

(* What is not above w is its own remainder. *)
LEMMA OwnRemainder ==
    ASSUME NEW w \in Nat \ {0}, NEW a \in 0..(w - 1)
    PROVE  a % w = a
<1>1. a % w \in 0..(w - 1) /\ a \div w \in Int /\ a = w * (a \div w) + (a % w)
  BY Division
<1>. DEFINE r == a % w
            q == a \div w
<1>. HIDE DEF r, q
<1>2. a = r + w * q
  <2>1. w * q \in Int
    BY <1>1 DEF q
  <2>. QED
    BY <1>1, <2>1 DEF q, r
<1>3. a = r
  BY <1>1, <1>2, RemainderUnique DEF q, r
<1>. QED
  BY <1>3 DEF r

(* Taking remainders changes a sum by a multiple of w. *)
LEMMA SumOfRemainders ==
    ASSUME NEW w \in Nat \ {0}, NEW f, NEW g, NEW S, IsFiniteSet(S),
           \A x \in S : f[x] \in Int /\ g[x] = f[x] % w
    PROVE  \E k \in Int : SumFunctionOnSet(g, S) = SumFunctionOnSet(f, S) + w * k
<1>. DEFINE q == [x \in S |-> f[x] \div w]
            m == [x \in S |-> w * q[x]]
            Off(T) == \E k \in Int : SumFunctionOnSet(m, T) = w * k
            Good == {T \in SUBSET S : Off(T)}
<1>1. \A x \in S : q[x] \in Int /\ m[x] = w * q[x] /\ m[x] \in Int
  BY Division
<1>2. \A x \in S : g[x] \in Int /\ f[x] = m[x] + g[x]
  <2>. SUFFICES ASSUME NEW x \in S PROVE g[x] \in Int /\ f[x] = m[x] + g[x]
    OBVIOUS
  <2>1. /\ f[x] % w \in 0..(w - 1) /\ f[x] \div w \in Int
        /\ f[x] = w * (f[x] \div w) + (f[x] % w)
    BY Division
  <2>2. m[x] = w * (f[x] \div w) /\ g[x] = f[x] % w
    OBVIOUS
  <2>. HIDE DEF q, m
  <2>. QED
    BY <2>1, <2>2
<1>. HIDE DEF q, m
<1>3. ASSUME NEW T \in SUBSET S, \A x \in T : T \ {x} \in Good PROVE T \in Good
  <2>1. IsFiniteSet(T)
    BY FS_Subset
  <2>2. CASE T = {}
    <3>1. SumFunctionOnSet(m, T) = w * 0
      BY <2>2, SumOfNothing
    <3>. QED
      BY <3>1
  <2>3. CASE T # {}
    <3>1. PICK x \in T : TRUE
      BY <2>3
    <3>2. PICK k \in Int : SumFunctionOnSet(m, T \ {x}) = w * k
      BY <1>3
    <3>3. SumFunctionOnSet(m, T) = m[x] + SumFunctionOnSet(m, T \ {x})
      BY <1>1, <2>1, SumWithout
    <3>4. m[x] = w * q[x] /\ q[x] \in Int
      BY <1>1
    <3>5. SumFunctionOnSet(m, T) = w * (q[x] + k) /\ q[x] + k \in Int
      BY <3>2, <3>3, <3>4
    <3>. QED
      BY <3>5
  <2>. QED
    BY <2>2, <2>3
<1>4. S \in Good
  <2>. HIDE DEF Good
  <2>. QED
    BY <1>3, SetInduction
<1>5. PICK k \in Int : SumFunctionOnSet(m, S) = w * k
  BY <1>4
<1>6. SumFunctionOnSet(f, S) = SumFunctionOnSet(m, S) + SumFunctionOnSet(g, S)
  BY <1>1, <1>2, SumOfSums
<1>7. SumFunctionOnSet(g, S) \in Int /\ SumFunctionOnSet(f, S) \in Int
  BY <1>2, SumType
<1>8. SumFunctionOnSet(g, S) = SumFunctionOnSet(f, S) + w * (-k) /\ -k \in Int
  <2>1. w * (-k) = -(w * k) /\ w * k \in Int
    BY <1>5
  <2>. QED
    BY <1>5, <1>6, <1>7, <2>1
<1>. QED
  BY <1>8

(* A sum whose elements are at most c *)
LEMMA SumAtMost ==
    ASSUME NEW f, NEW c \in Int, NEW S, IsFiniteSet(S),
           \A x \in S : f[x] \in Int /\ f[x] <= c
    PROVE  SumFunctionOnSet(f, S) <= c * Cardinality(S)
<1>. DEFINE rest == [x \in S |-> c - f[x]]
            all == [x \in S |-> c]
<1>1. /\ \A x \in S : rest[x] \in Nat /\ all[x] = c
      /\ \A x \in S : f[x] \in Int /\ rest[x] \in Int /\ all[x] = f[x] + rest[x]
  OBVIOUS
<1>. HIDE DEF rest, all
<1>2. SumFunctionOnSet(all, S) = SumFunctionOnSet(f, S) + SumFunctionOnSet(rest, S)
  BY <1>1, SumOfSums
<1>3. SumFunctionOnSet(all, S) = c * Cardinality(S)
  BY <1>1, SumOfConstant
<1>4. SumFunctionOnSet(rest, S) \in Nat /\ SumFunctionOnSet(f, S) \in Int
  BY <1>1, SumOfNaturals, SumType
<1>5. c * Cardinality(S) \in Int
  BY FS_CardinalityType
<1>. QED
  BY <1>2, <1>3, <1>4, <1>5

(* No part of a sum of naturals is more than the sum. *)
LEMMA SumOfPart ==
    ASSUME NEW f, NEW S, IsFiniteSet(S), \A x \in S : f[x] \in Nat, NEW y \in S
    PROVE  f[y] <= SumFunctionOnSet(f, S)
<1>1. IsFiniteSet(S \ {y})
  BY FS_Subset
<1>2. SumFunctionOnSet(f, S \ {y}) \in Nat
  BY <1>1, SumOfNaturals
<1>3. SumFunctionOnSet(f, S) = f[y] + SumFunctionOnSet(f, S \ {y})
  BY SumWithout
<1>. QED
  BY <1>2, <1>3
==============================================================================

--------------------------- MODULE InductionLemmas ---------------------------
(***************************************************************************)
(* Induction, and the sums that are proved by it.                          *)
(*                                                                         *)
(* The induction theorems of the library take an operator, which no prover *)
(* here can instantiate.  These take a set, the set of those for which the *)
(* claim holds, and rest on WFMin, which is about sets as well.            *)
(***************************************************************************)
EXTENDS Integers, FiniteSets, Functions, TLAPS, FiniteSetTheorems,
        WellFoundedInduction

\* The order of the naturals, as a set of pairs.
Less == {p \in Nat \X Nat : p[1] < p[2]}

\* A set of naturals has a least one.
LEMMA LeastNatural ==
    ASSUME NEW S, S \subseteq Nat, S # {}
    PROVE  \E n \in S : \A m \in S : n <= m
  <1>1. IsWellFoundedOn(Less, Nat)
    BY NatLessThanWellFounded DEF OpToRel, Less
  <1>2. PICK n \in S : \A m \in S : <<m, n>> \notin Less
    BY <1>1, WFMin
  <1>3. \A m \in S : ~(m < n)
    BY <1>2 DEF Less
  <1> QED
    BY <1>3

\* Induction: a set with 0 and with the successor of each of its naturals.
LEMMA InductOnNat ==
    ASSUME NEW S, 0 \in S, \A n \in Nat : n \in S => n + 1 \in S
    PROVE  Nat \subseteq S
  <1> DEFINE Out == {n \in Nat : n \notin S}
  <1>1. CASE Out = {}
    BY <1>1
  <1>2. CASE Out # {}
    <2>1. PICK n \in Out : \A m \in Out : n <= m
      BY <1>2, LeastNatural
    <2>2. n - 1 \in Nat /\ n - 1 \notin Out
      BY <2>1
    <2> QED
      BY <2>1, <2>2
  <1> QED
    BY <1>1, <1>2

\* Induction from the end of an interval to its beginning.
LEMMA InductBackwards ==
    ASSUME NEW N \in Nat, NEW S, N + 1 \in S,
           \A i \in 1 .. N : (\A j \in i + 1 .. N + 1 : j \in S) => i \in S
    PROVE  1 .. N + 1 \subseteq S
  <1> DEFINE T == {n \in Nat : \A j \in 1 .. N + 1 : N + 1 - j <= n => j \in S}
  <1>1. 0 \in T
    BY SMT
  <1>2. ASSUME NEW n \in Nat, n \in T
        PROVE  n + 1 \in T
    <2>1. ASSUME NEW j \in 1 .. N + 1, N + 1 - j <= n + 1
          PROVE  j \in S
      <3>1. CASE j = N + 1
        BY <3>1
      <3>2. CASE j \in 1 .. N
        <4>1. \A k \in j + 1 .. N + 1 : k \in 1 .. N + 1 /\ N + 1 - k <= n
          BY <2>1
        <4> QED
          BY <1>2, <3>2, <4>1
      <3> QED
        BY <3>1, <3>2
    <2> QED
      BY <2>1
  <1>3. N \in T
    <2> HIDE DEF T
    <2> QED
      BY <1>1, <1>2, InductOnNat
  <1> QED
    BY <1>3

\* A function over an interval whose values are each made from a later one's.
Onward(N, next) ==
    next \in [1 .. N -> 1 .. N + 1] /\ \A i \in 1 .. N : next[i] > i
Recurs(N, z, next, h, g) ==
    g[N + 1] = z /\ \A i \in 1 .. N : g[i] = h[i][g[next[i]]]

\* There is one.
LEMMA RecurBackwards ==
    ASSUME NEW N \in Nat, NEW V, NEW z \in V, NEW next, Onward(N, next),
           NEW h \in [1 .. N -> [V -> V]]
    PROVE  \E g \in [1 .. N + 1 -> V] : Recurs(N, z, next, h, g)
  <1> DEFINE From(n) == {i \in 1 .. N + 1 : i >= n}
             Good(n, g) == /\ g[N + 1] = z
                           /\ \A i \in From(n) : i <= N => g[i] = h[i][g[next[i]]]
             S == {n \in 1 .. N + 1 : \E g \in [From(n) -> V] : Good(n, g)}
  <1>0. next \in [1 .. N -> 1 .. N + 1] /\ \A i \in 1 .. N : next[i] > i
    BY DEF Onward
  <1>1. N + 1 \in S
    <2> DEFINE g == [i \in From(N + 1) |-> z]
    <2>1. N + 1 \in From(N + 1)
      OBVIOUS
    <2>2. g \in [From(N + 1) -> V] /\ Good(N + 1, g)
      BY <2>1
    <2>3. N + 1 \in 1 .. N + 1
      OBVIOUS
    <2> HIDE DEF Good, From
    <2> QED
      BY <2>2, <2>3
  <1>2. ASSUME NEW n \in 1 .. N, n + 1 \in S
        PROVE  n \in S
    <2>1. PICK g \in [From(n + 1) -> V] : Good(n + 1, g)
      BY <1>2
    <2> DEFINE f == [i \in From(n) |-> IF i = n THEN h[n][g[next[n]]] ELSE g[i]]
    <2>2. /\ next[n] \in From(n + 1) /\ N + 1 \in From(n + 1)
          /\ \A i \in From(n) : i # n => i \in From(n + 1)
          /\ \A i \in From(n + 1) : i \in From(n) /\ i # n
      BY <1>0
    <2>3. \A i \in From(n + 1) : i <= N => next[i] \in From(n + 1)
      BY <1>0
    <2> HIDE DEF From
    <2>4. f \in [From(n) -> V]
      BY <2>2
    <2>5. f[n] = h[n][g[next[n]]] /\ \A i \in From(n + 1) : f[i] = g[i]
      <3>1. n \in From(n)
        BY DEF From
      <3> QED
        BY <2>2, <3>1
    <2> HIDE DEF f
    <2>6. Good(n, f)
      <3>1. f[N + 1] = z
        BY <2>1, <2>2, <2>5
      <3>2. ASSUME NEW i \in From(n), i <= N
            PROVE  f[i] = h[i][f[next[i]]]
        <4>1. CASE i = n
          BY <2>2, <2>5, <4>1
        <4>2. CASE i # n
          BY <2>1, <2>2, <2>3, <2>5, <3>2, <4>2
        <4> QED
          BY <4>1, <4>2
      <3> QED
        BY <3>1, <3>2
    <2> HIDE DEF Good
    <2> QED
      BY <2>4, <2>6
  <1>3. ASSUME NEW i \in 1 .. N, \A j \in i + 1 .. N + 1 : j \in S
        PROVE  i \in S
    <2>1. i + 1 \in i + 1 .. N + 1
      OBVIOUS
    <2> HIDE DEF S
    <2> QED
      BY <1>2, <1>3, <2>1
  <1>4. 1 \in S
    <2>1. 1 \in 1 .. N + 1
      OBVIOUS
    <2> HIDE DEF S
    <2>2. 1 .. N + 1 \subseteq S
      BY <1>1, <1>3, InductBackwards
    <2> QED
      BY <2>1, <2>2
  <1>5. From(1) = 1 .. N + 1
    OBVIOUS
  <1>6. PICK g \in [From(1) -> V] : Good(1, g)
    BY <1>4
  <1> HIDE DEF From
  <1> QED
    BY <1>5, <1>6 DEF Recurs

-----------------------------------------------------------------------------
(***************************************************************************)
(* The subsets of a finite set, each from the one without its first.       *)
(***************************************************************************)
\* As MapThenFoldSet of FiniteSetsExt takes a set apart.
First(s) == CHOOSE x \in s : TRUE
Rest(s)  == s \ {First(s)}

\* What is left of a subset without its first is a smaller one.
LEMMA RestIs ==
    ASSUME NEW D, IsFiniteSet(D), NEW s \in SUBSET D, s # {}
    PROVE  /\ First(s) \in s /\ Rest(s) \in SUBSET D
           /\ Cardinality(s) \in Nat /\ Cardinality(Rest(s)) = Cardinality(s) - 1
  <1>1. First(s) \in s
    BY DEF First
  <1>2. IsFiniteSet(s)
    BY FS_Subset
  <1> QED
    BY <1>1, <1>2, FS_RemoveElement, FS_CardinalityType DEF Rest

\* Induction: what holds of {} and is passed from a rest to its whole.
LEMMA InductOnSubsets ==
    ASSUME NEW D, IsFiniteSet(D), NEW P, {} \in P,
           \A s \in SUBSET D : s # {} /\ Rest(s) \in P => s \in P
    PROVE  SUBSET D \subseteq P
  <1> DEFINE S == {n \in Nat : \A s \in SUBSET D : Cardinality(s) = n => s \in P}
  <1>1. 0 \in S
    BY FS_Subset, FS_EmptySet
  <1>2. ASSUME NEW n \in Nat, n \in S
        PROVE  n + 1 \in S
    <2>1. ASSUME NEW s \in SUBSET D, Cardinality(s) = n + 1
          PROVE  s \in P
      <3>1. s # {}
        BY <2>1, FS_EmptySet
      <3>2. Rest(s) \in SUBSET D /\ Cardinality(Rest(s)) = n
        BY <2>1, <3>1, RestIs
      <3> QED
        BY <1>2, <3>1, <3>2
    <2> QED
      BY <2>1
  <1>3. Nat \subseteq S
    BY <1>1, <1>2, InductOnNat
  <1>4. \A s \in SUBSET D : Cardinality(s) \in Nat
    BY FS_Subset, FS_CardinalityType
  <1> QED
    BY <1>3, <1>4

-----------------------------------------------------------------------------
(***************************************************************************)
(* Sums.  First that SumFunctionOnSet obeys the equation it is defined by:  *)
(* the CHOOSE of its definition has something to choose.                   *)
(***************************************************************************)
Step(f, g, s)     == IF s = {} THEN 0 ELSE f[First(s)] + g[Rest(s)]
Obeys(f, g, D)    == g = [s \in SUBSET D |-> Step(f, g, s)]
Partial(f, D)     == CHOOSE g : Obeys(f, g, D)

\* A sum is the last of the partial sums over the subsets of its domain.
LEMMA SumIsPartial ==
    ASSUME NEW f, NEW D
    PROVE  SumFunctionOnSet(f, D) = Partial(f, D)[D]
  BY DEF SumFunctionOnSet, FoldFunctionOnSet, MapThenFoldSet, Partial, Obeys,
         Step, First, Rest

\* There are such partial sums: one up to each size of subset, by induction.
LEMMA PartialObeys ==
    ASSUME NEW f, NEW D, IsFiniteSet(D)
    PROVE  Obeys(f, Partial(f, D), D)
  <1> DEFINE Small(n) == {s \in SUBSET D : Cardinality(s) <= n}
             So(n, g) == g = [s \in Small(n) |-> Step(f, g, s)]
             S        == {n \in Nat : \E g : So(n, g)}
  <1>0. /\ Cardinality(D) \in Nat /\ Small(Cardinality(D)) = SUBSET D
        /\ \A s \in SUBSET D : Cardinality(s) \in Nat
    BY FS_CardinalityType, FS_Subset
  <1>1. 0 \in S
    <2> DEFINE g == [s \in Small(0) |-> 0]
    <2>1. \A s \in Small(0) : s = {}
      BY <1>0, FS_EmptySet, FS_Subset
    <2>2. \A s \in Small(0) : Step(f, g, s) = 0
      BY <2>1 DEF Step
    <2>3. So(0, g)
      BY <2>2
    <2> QED
      BY <2>3
  <1>2. ASSUME NEW n \in Nat, n \in S
        PROVE  n + 1 \in S
    <2>1. PICK g : So(n, g)
      BY <1>2
    <2> DEFINE h == [s \in Small(n + 1) |-> Step(f, g, s)]
    <2>2. ASSUME NEW s \in Small(n + 1), s # {}
          PROVE  g[Rest(s)] = h[Rest(s)]
      <3>1. Rest(s) \in Small(n) /\ Rest(s) \in Small(n + 1)
        BY <1>0, <2>2, RestIs
      <3> HIDE DEF Small
      <3>2. g[Rest(s)] = Step(f, g, Rest(s))
        BY <2>1, <3>1
      <3>3. h[Rest(s)] = Step(f, g, Rest(s))
        BY <3>1
      <3> QED
        BY <3>2, <3>3
    <2> HIDE DEF Small, So
    <2>3. \A s \in Small(n + 1) : Step(f, g, s) = Step(f, h, s)
      BY <2>2 DEF Step
    <2>4. h = [s \in Small(n + 1) |-> Step(f, h, s)]
      BY <2>3
    <2>5. So(n + 1, h)
      BY <2>4 DEF So
    <2> QED
      BY <2>5
  <1>3. Cardinality(D) \in S
    <2> HIDE DEF S
    <2> QED
      BY <1>0, <1>1, <1>2, InductOnNat
  <1>4. \E g : Obeys(f, g, D)
    <2>1. PICK g : So(Cardinality(D), g)
      BY <1>3
    <2> QED
      BY <1>0, <2>1 DEF Obeys
  <1> QED
    BY <1>4 DEF Partial

\* The partial sum over s, from that over the rest of s.
LEMMA PartialIs ==
    ASSUME NEW f, NEW D, IsFiniteSet(D), NEW s \in SUBSET D
    PROVE  Partial(f, D)[s] =
              IF s = {} THEN 0 ELSE f[First(s)] + Partial(f, D)[Rest(s)]
  <1>0. Obeys(f, Partial(f, D), D)
    BY PartialObeys
  <1>1. Partial(f, D) = [t \in SUBSET D |-> Step(f, Partial(f, D), t)]
    BY <1>0 DEF Obeys
  <1>2. Partial(f, D)[s] = Step(f, Partial(f, D), s)
    BY <1>1, Zenon
  <1> QED
    BY <1>2 DEF Step

\* A sum of integers is an integer.
LEMMA PartialType ==
    ASSUME NEW D, IsFiniteSet(D), NEW f \in [D -> Int]
    PROVE  \A s \in SUBSET D : Partial(f, D)[s] \in Int
  <1> DEFINE P == {s \in SUBSET D : Partial(f, D)[s] \in Int}
  <1>1. {} \in P
    BY PartialIs
  <1>2. ASSUME NEW s \in SUBSET D, s # {}, Rest(s) \in P
        PROVE  s \in P
    BY <1>2, PartialIs, RestIs
  <1>3. SUBSET D \subseteq P
    <2> HIDE DEF P
    <2> QED
      BY <1>1, <1>2, InductOnSubsets
  <1> QED
    BY <1>3

\* A sum follows its addends: what one of them gains, it gains.
LEMMA SumUpdate ==
    ASSUME NEW D, IsFiniteSet(D), NEW f \in [D -> Int], NEW c \in D, NEW v \in Int
    PROVE  SumFunction([f EXCEPT ![c] = v]) = SumFunction(f) - f[c] + v
  <1> DEFINE g == [f EXCEPT ![c] = v]
             P == {s \in SUBSET D : Partial(g, D)[s] =
                      Partial(f, D)[s] + (IF c \in s THEN v - f[c] ELSE 0)}
  <1>0. g \in [D -> Int] /\ g[c] = v /\ \A d \in D : d # c => g[d] = f[d]
    OBVIOUS
  <1>1. {} \in P
    BY PartialIs
  <1>2. ASSUME NEW s \in SUBSET D, s # {}, Rest(s) \in P
        PROVE  s \in P
    <2> HIDE DEF g
    <2>1. First(s) \in s /\ Rest(s) \in SUBSET D
      BY <1>2, RestIs
    <2>2. /\ Partial(f, D)[s] = f[First(s)] + Partial(f, D)[Rest(s)]
          /\ Partial(g, D)[s] = g[First(s)] + Partial(g, D)[Rest(s)]
      BY <1>2, PartialIs
    <2>3. /\ Partial(f, D)[Rest(s)] \in Int /\ Partial(g, D)[Rest(s)] \in Int
          /\ f[First(s)] \in Int /\ g[First(s)] \in Int /\ f[c] \in Int
      BY <1>0, <2>1, PartialType
    <2>4. CASE First(s) = c
      <3>1. c \notin Rest(s) /\ c \in s
        BY <2>1, <2>4 DEF Rest
      <3> QED
        BY <1>0, <1>2, <2>2, <2>3, <2>4, <3>1
    <2>5. CASE First(s) # c
      <3>1. c \in Rest(s) <=> c \in s
        BY <2>5 DEF Rest
      <3>2. g[First(s)] = f[First(s)]
        BY <1>0, <2>1, <2>5
      <3> QED
        BY <1>2, <2>2, <2>3, <3>1, <3>2
    <2> QED
      BY <2>4, <2>5
  <1>3. SUBSET D \subseteq P
    <2> HIDE DEF P
    <2> QED
      BY <1>1, <1>2, InductOnSubsets
  <1>4. Partial(g, D)[D] = Partial(f, D)[D] + (v - f[c])
    BY <1>3
  <1>5. Partial(f, D)[D] \in Int /\ f[c] \in Int
    BY PartialType
  <1>6. DOMAIN f = D /\ DOMAIN g = D
    OBVIOUS
  <1> QED
    BY <1>4, <1>5, <1>6, SumIsPartial DEF SumFunction

\* A sum of zeros is zero.
LEMMA SumZero ==
    ASSUME NEW D, IsFiniteSet(D)
    PROVE  SumFunction([d \in D |-> 0]) = 0
  <1> DEFINE f == [d \in D |-> 0]
             P == {s \in SUBSET D : Partial(f, D)[s] = 0}
  <1>1. {} \in P
    BY PartialIs
  <1>2. ASSUME NEW s \in SUBSET D, s # {}, Rest(s) \in P
        PROVE  s \in P
    BY <1>2, PartialIs, RestIs
  <1>3. SUBSET D \subseteq P
    <2> HIDE DEF P
    <2> QED
      BY <1>1, <1>2, InductOnSubsets
  <1>4. DOMAIN f = D
    OBVIOUS
  <1> QED
    BY <1>3, <1>4, SumIsPartial DEF SumFunction

\* A sum whose addends are k at most, and 0 outside of T.
LEMMA SumBound ==
    ASSUME NEW D, IsFiniteSet(D), NEW f \in [D -> Int], NEW k \in Nat,
           NEW T \in SUBSET D,
           \A d \in D : f[d] <= IF d \in T THEN k ELSE 0
    PROVE  SumFunction(f) <= Cardinality(T) * k
  <1> DEFINE P == {s \in SUBSET D :
                      Partial(f, D)[s] <= Cardinality(s \cap T) * k}
  <1>1. {} \in P
    <2>1. Cardinality({} \cap T) = 0
      BY FS_EmptySet
    <2> QED
      BY <2>1, PartialIs
  <1>2. ASSUME NEW s \in SUBSET D, s # {}, Rest(s) \in P
        PROVE  s \in P
    <2> DEFINE x == First(s)
               n == Cardinality(Rest(s) \cap T)
    <2>1. x \in s /\ Rest(s) \in SUBSET D /\ x \notin Rest(s)
      BY <1>2, RestIs DEF Rest
    <2>2. IsFiniteSet(Rest(s) \cap T) /\ n \in Nat
      BY <2>1, FS_Subset, FS_CardinalityType
    <2>3. /\ Partial(f, D)[s] = f[x] + Partial(f, D)[Rest(s)]
          /\ f[x] \in Int /\ Partial(f, D)[Rest(s)] \in Int
      BY <1>2, <2>1, PartialIs, PartialType
    <2>4. Partial(f, D)[Rest(s)] <= n * k
      BY <1>2
    <2>5. CASE x \in T
      <3>1. s \cap T = (Rest(s) \cap T) \cup {x}
        BY <2>1, <2>5 DEF Rest
      <3>2. Cardinality(s \cap T) = n + 1
        BY <2>1, <2>2, <3>1, FS_AddElement
      <3> HIDE DEF n, x
      <3>3. (n + 1) * k = n * k + k /\ n * k \in Int
        BY <2>2
      <3>4. f[x] <= k
        BY <2>1, <2>5
      <3> QED
        BY <2>3, <2>4, <3>2, <3>3, <3>4
    <2>6. CASE x \notin T
      <3>1. Cardinality(s \cap T) = n
        <4>1. s \cap T = Rest(s) \cap T
          BY <2>1, <2>6 DEF Rest
        <4> QED
          BY <4>1
      <3> HIDE DEF n, x
      <3>2. f[x] <= 0 /\ n * k \in Int
        BY <2>1, <2>2, <2>6
      <3> QED
        BY <2>3, <2>4, <3>1, <3>2
    <2> QED
      BY <2>5, <2>6
  <1>3. SUBSET D \subseteq P
    <2> HIDE DEF P
    <2> QED
      BY <1>1, <1>2, InductOnSubsets
  <1>4. DOMAIN f = D /\ D \cap T = T
    OBVIOUS
  <1> QED
    BY <1>3, <1>4, SumIsPartial DEF SumFunction

=============================================================================

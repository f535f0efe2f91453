----------------------------- MODULE FoldFacts ------------------------------
(***************************************************************************)
(* Facts about the operators that the components are built from, stated    *)
(* once and cited by the proofs about them. Each is an induction: over the *)
(* numbers it is the argument that a set of numbers has a least element,   *)
(* over the parts of a finite set it is that argument for their sizes.     *)
(***************************************************************************)
EXTENDS Integers, FiniteSets, Functions, FiniteSetTheorems,
        WellFoundedInduction, TLAPS

-----------------------------------------------------------------------------
(* Induction over the numbers                                              *)

\* A set of numbers that is not empty has a least element: of the intervals
\* that end in it one contains no other.
LEMMA LeastExists ==
    ASSUME NEW S \in SUBSET Nat, S # {}
    PROVE  \E n \in S : \A m \in S : n <= m
<1>1. PICK N \in S : TRUE
  OBVIOUS
<1> DEFINE U == 1 .. N
           T == {1 .. n : n \in {k \in S : k <= N}}
<1>2. IsFiniteSet(U)
  BY FS_Interval
<1>3. IsWellFoundedOn(StrictSubsetOrdering(U), FiniteSubsetsOf(U))
  BY <1>2, FS_StrictSubsetOrderingWellFounded
<1>4. T # {} /\ T \subseteq FiniteSubsetsOf(U)
  <2>1. ASSUME NEW k \in S, k <= N PROVE 1 .. k \in FiniteSubsetsOf(U)
    BY <2>1, <1>2, FS_Interval DEF FiniteSubsetsOf
  <2> QED
    BY <2>1
<1>5. \E x \in T : \A y \in T : ~ (<<y, x>> \in StrictSubsetOrdering(U))
  <2> HIDE DEF T, U
  <2> QED
    BY <1>3, <1>4, WFMin
<1>6. PICK n \in S :
        n <= N /\ \A y \in T : ~ (<<y, 1 .. n>> \in StrictSubsetOrdering(U))
  BY <1>5
<1>7. ASSUME NEW m \in S, m < n PROVE FALSE
  <2>1. 1 .. m \in T
    BY <1>7, <1>6
  <2>2. 1 .. m \subseteq 1 .. n /\ 1 .. m # 1 .. n
    <3>1. n \in 1 .. n /\ n \notin 1 .. m
      BY <1>7
    <3> QED
      BY <3>1, <1>7
  <2>3. <<1 .. m, 1 .. n>> \in StrictSubsetOrdering(U)
    BY <2>2, <1>6, <1>7 DEF StrictSubsetOrdering
  <2> QED
    BY <2>1, <2>3, <1>6
<1> QED
  BY <1>7

\* A set that contains zero and with every number the next contains them all.
LEMMA Climb ==
    ASSUME NEW S \in SUBSET Nat, 0 \in S, \A n \in S : n + 1 \in S
    PROVE  \A n \in Nat : n \in S
<1> SUFFICES ASSUME Nat \ S # {} PROVE FALSE
  OBVIOUS
<1>1. PICK n \in Nat \ S : \A m \in Nat \ S : n <= m
  BY LeastExists
<1>2. n - 1 \in S
  BY <1>1
<1> QED
  BY <1>1, <1>2

\* A function of the numbers up to N whose value at each of them is a step
\* from its value before exists if the steps stay among values of one kind.
Follows(d, N, base, step) ==
    d[0] = base /\ \A n \in 1 .. N : d[n] = step[n][d[n - 1]]

LEMMA RecursionExists ==
    ASSUME NEW N \in Nat, NEW Kind, NEW base \in Kind,
           NEW step \in [1 .. N -> [Kind -> Kind]]
    PROVE  \E d \in [0 .. N -> Kind] : Follows(d, N, base, step)
<1> DEFINE Upto(k, d) ==
             \A n \in 0 .. N :
                n <= k => d[n] = IF n = 0 THEN base ELSE step[n][d[n - 1]]
           S == {k \in Nat : \E d \in [0 .. N -> Kind] : Upto(k, d)}
<1>1. 0 \in S
  <2>1. Upto(0, [n \in 0 .. N |-> base])
    OBVIOUS
  <2> QED
    BY <2>1
<1>2. ASSUME NEW k \in S PROVE k + 1 \in S
  <2>1. PICK d \in [0 .. N -> Kind] : Upto(k, d)
    BY <1>2
  <2> DEFINE e == [n \in 0 .. N |-> IF n = 0 THEN base ELSE step[n][d[n - 1]]]
  <2>2. e \in [0 .. N -> Kind]
    OBVIOUS
  <2>3. \A n \in 0 .. N : n <= k => e[n] = d[n]
    BY <2>1
  <2>4. Upto(k + 1, e)
    <3> SUFFICES ASSUME NEW n \in 0 .. N, n <= k + 1
                 PROVE  e[n] = IF n = 0 THEN base ELSE step[n][e[n - 1]]
      OBVIOUS
    <3>1. CASE n = 0
      BY <3>1
    <3>2. CASE n # 0
      <4>1. n - 1 \in 0 .. N /\ n - 1 <= k
        BY <3>2
      <4>2. e[n - 1] = d[n - 1]
        BY <4>1, <2>3
      <4> QED
        BY <3>2, <4>2
    <3> QED
      BY <3>1, <3>2
  <2> HIDE DEF e, Upto
  <2> QED
    BY <2>2, <2>4
<1>3. N \in S
  <2>1. S \in SUBSET Nat
    OBVIOUS
  <2> HIDE DEF S
  <2> QED
    BY <1>1, <1>2, <2>1, Climb
<1>4. PICK d \in [0 .. N -> Kind] : Upto(N, d)
  BY <1>3
<1>5. Follows(d, N, base, step)
  <2>1. /\ 0 \in 0 .. N /\ 0 <= N
        /\ \A n \in 1 .. N : n \in 0 .. N /\ n <= N /\ n # 0
    OBVIOUS
  <2> QED
    BY <1>4, <2>1 DEF Follows
<1> QED
  BY <1>5

\* What goes by the same steps from the same value is that function.
GoesBy(r, N, Kind, base, step) ==
    r[0] = base /\ \A n \in 1 .. N : r[n - 1] \in Kind => r[n] = step[n][r[n - 1]]

LEMMA RecursionAgrees ==
    ASSUME NEW N \in Nat, NEW Kind, NEW base, NEW step,
           NEW d \in [0 .. N -> Kind], Follows(d, N, base, step),
           NEW r, GoesBy(r, N, Kind, base, step)
    PROVE  \A n \in 0 .. N : r[n] = d[n]
<1> DEFINE S == {n \in Nat : n <= N => r[n] = d[n]}
<1>1. 0 \in S
  BY DEF Follows, GoesBy
<1>2. ASSUME NEW n \in S PROVE n + 1 \in S
  <2> SUFFICES ASSUME n + 1 <= N PROVE r[n + 1] = d[n + 1]
    OBVIOUS
  <2>1. n \in 0 .. N /\ n + 1 \in 1 .. N /\ (n + 1) - 1 = n
    OBVIOUS
  <2>2. r[n] = d[n]
    BY <2>1
  <2> QED
    BY <2>1, <2>2 DEF Follows, GoesBy
<1>3. \A n \in Nat : n \in S
  <2>1. S \in SUBSET Nat
    OBVIOUS
  <2> HIDE DEF S
  <2> QED
    BY <1>1, <1>2, <2>1, Climb
<1> QED
  BY <1>3

\* Of the parts of a finite set that have a property one is smallest: no part
\* with fewer elements has it.
LEMMA SmallestExists ==
    ASSUME NEW D, IsFiniteSet(D), NEW T \in SUBSET SUBSET D, T # {}
    PROVE  \E s \in T : /\ IsFiniteSet(s) /\ Cardinality(s) \in Nat
                        /\ \A x \in s : s \ {x} \notin T
<1>1. \A s \in T : IsFiniteSet(s) /\ Cardinality(s) \in Nat
  BY FS_Subset, FS_CardinalityType
<1> DEFINE Sizes == {Cardinality(s) : s \in T}
<1>2. PICK n \in Sizes : \A m \in Sizes : n <= m
  <2>1. Sizes \in SUBSET Nat /\ Sizes # {}
    BY <1>1
  <2> HIDE DEF Sizes
  <2> QED
    BY <2>1, LeastExists
<1>3. PICK s \in T : Cardinality(s) = n
  BY <1>2
<1>4. ASSUME NEW x \in s, s \ {x} \in T PROVE FALSE
  <2>1. Cardinality(s \ {x}) = Cardinality(s) - 1
    BY <1>1, <1>3, FS_RemoveElement
  <2>2. Cardinality(s \ {x}) \in Sizes
    BY <1>4
  <2> HIDE DEF Sizes
  <2>3. n <= Cardinality(s) - 1
    BY <2>1, <2>2, <1>2
  <2> QED
    BY <2>3, <1>1, <1>3
<1> QED
  BY <1>1, <1>3, <1>4

-----------------------------------------------------------------------------
(* Sums                                                                    *)

\* What SumFunctionOnSet takes from a set, and its recursion.
Pick(s) == CHOOSE x \in s : TRUE
Adds(g, f, D) ==
    g = [s \in SUBSET D |->
            IF s = {} THEN 0 ELSE f[Pick(s)] + g[s \ {Pick(s)}]]

LEMMA PickIn == \A s : s # {} => Pick(s) \in s
BY DEF Pick

\* The sums of the parts with at most n elements, for every n, and so of all.
LEMMA SumsExist ==
    ASSUME NEW D, IsFiniteSet(D), NEW f \in [D -> Nat]
    PROVE  \E g \in [SUBSET D -> Nat] : Adds(g, f, D)
<1> DEFINE Upto(n, g) ==
             \A s \in SUBSET D :
                Cardinality(s) <= n =>
                   g[s] = IF s = {} THEN 0 ELSE f[Pick(s)] + g[s \ {Pick(s)}]
           Good == {n \in Nat : \E g \in [SUBSET D -> Nat] : Upto(n, g)}
<1>1. \A s \in SUBSET D : IsFiniteSet(s) /\ Cardinality(s) \in Nat
  BY FS_Subset, FS_CardinalityType
<1>2. 0 \in Good
  <2>1. \A s \in SUBSET D : Cardinality(s) <= 0 => s = {}
    BY <1>1, FS_EmptySet
  <2>2. Upto(0, [s \in SUBSET D |-> 0])
    BY <2>1
  <2> QED
    BY <2>2
<1>3. ASSUME NEW n \in Good PROVE n + 1 \in Good
  <2>1. PICK g \in [SUBSET D -> Nat] : Upto(n, g)
    BY <1>3
  <2> DEFINE h == [s \in SUBSET D |->
                     IF s = {} THEN 0 ELSE f[Pick(s)] + g[s \ {Pick(s)}]]
  <2>2. \A s \in SUBSET D : s # {} => /\ Pick(s) \in D
                                      /\ s \ {Pick(s)} \in SUBSET D
                                      /\ Cardinality(s \ {Pick(s)}) = Cardinality(s) - 1
    BY <1>1, PickIn, FS_RemoveElement
  <2>3. h \in [SUBSET D -> Nat]
    <3>1. \A s \in SUBSET D : s # {} => f[Pick(s)] \in Nat /\ g[s \ {Pick(s)}] \in Nat
      BY <2>2, <2>1
    <3> QED
      BY <3>1
  <2>4. \A s \in SUBSET D : Cardinality(s) <= n => h[s] = g[s]
    BY <2>1
  <2>5. Upto(n + 1, h)
    <3> SUFFICES ASSUME NEW s \in SUBSET D, Cardinality(s) <= n + 1
                 PROVE  h[s] = IF s = {} THEN 0 ELSE f[Pick(s)] + h[s \ {Pick(s)}]
      OBVIOUS
    <3>1. CASE s = {}
      BY <3>1
    <3>2. CASE s # {}
      <4>1. /\ s \ {Pick(s)} \in SUBSET D
            /\ Cardinality(s \ {Pick(s)}) <= n
        BY <3>2, <2>2, <1>1
      <4>2. h[s \ {Pick(s)}] = g[s \ {Pick(s)}]
        BY <4>1, <2>4
      <4>3. h[s] = f[Pick(s)] + g[s \ {Pick(s)}]
        BY <3>2
      <4> QED
        BY <4>2, <4>3, <3>2
    <3> QED
      BY <3>1, <3>2
  <2>6. n + 1 \in Nat
    OBVIOUS
  <2> QED
    BY <2>3, <2>5, <2>6
<1>4. Cardinality(D) \in Good
  <2> HIDE DEF Good
  <2>1. Good \in SUBSET Nat
    BY DEF Good
  <2> QED
    BY <1>1, <1>2, <1>3, <2>1, Climb
<1>5. PICK g \in [SUBSET D -> Nat] : Upto(Cardinality(D), g)
  BY <1>4
<1>6. \A s \in SUBSET D : Cardinality(s) <= Cardinality(D)
  BY FS_Subset
<1>7. Adds(g, f, D)
  BY <1>5, <1>6 DEF Adds
<1> QED
  BY <1>7

\* One function at most satisfies the recursion, on the parts of any two sets
\* that both contain them.
LEMMA SumsAgree ==
    ASSUME NEW D, IsFiniteSet(D), NEW f \in [D -> Nat], NEW E \in SUBSET D,
           NEW g, Adds(g, f, D), NEW h, Adds(h, f, E)
    PROVE  \A s \in SUBSET E : h[s] = g[s]
<1> DEFINE T == {s \in SUBSET E : h[s] # g[s]}
<1> SUFFICES ASSUME T # {} PROVE FALSE
  OBVIOUS
<1>1. PICK s \in T : \A x \in s : s \ {x} \notin T
  <2>1. IsFiniteSet(E) /\ T \in SUBSET SUBSET E
    BY FS_Subset
  <2> HIDE DEF T
  <2> QED
    BY <2>1, SmallestExists
<1>2. s # {}
  BY <1>1 DEF Adds
<1>3. /\ g[s] = f[Pick(s)] + g[s \ {Pick(s)}]
      /\ h[s] = f[Pick(s)] + h[s \ {Pick(s)}]
  BY <1>1, <1>2 DEF Adds
<1>4. g[s \ {Pick(s)}] = h[s \ {Pick(s)}]
  <2>1. Pick(s) \in s
    BY <1>2, PickIn
  <2> QED
    BY <2>1, <1>1
<1> QED
  BY <1>1, <1>3, <1>4

\* The sum of the library over a part of a set is what such a function gives.
LEMMA SumIs ==
    ASSUME NEW D, IsFiniteSet(D), NEW f \in [D -> Nat],
           NEW g \in [SUBSET D -> Nat], Adds(g, f, D), NEW E \in SUBSET D
    PROVE  SumFunctionOnSet(f, E) = g[E]
<1> DEFINE R(h) == h = [s \in SUBSET E |->
                          IF s = {} THEN 0
                          ELSE f[Pick(s)] + h[s \ {Pick(s)}]]
           iter == CHOOSE h : R(h)
<1>1. SumFunctionOnSet(f, E) = iter[E]
  BY DEF SumFunctionOnSet, FoldFunctionOnSet, MapThenFoldSet, Pick
<1>2. \E h : R(h)
  <2>1. f = [x \in D |-> f[x]]
    OBVIOUS
  <2> DEFINE k == [x \in E |-> f[x]]
  <2>2. PICK h \in [SUBSET E -> Nat] : Adds(h, k, E)
    BY SumsExist, FS_Subset
  <2>3. \A s \in SUBSET E : s # {} => k[Pick(s)] = f[Pick(s)]
    BY PickIn
  <2>4. R(h)
    BY <2>2, <2>3 DEF Adds
  <2> QED
    BY <2>4
<1>3. R(iter)
  <2> HIDE DEF R
  <2> QED
    BY <1>2
<1>4. Adds(iter, f, E)
  BY <1>3 DEF Adds
<1> QED
  BY <1>1, <1>4, SumsAgree

\* A sum of natural numbers is one; the empty sum is zero; and an element of
\* the set, whichever, can be added last.
LEMMA SumStep ==
    ASSUME NEW D, IsFiniteSet(D), NEW f \in [D -> Nat], NEW E \in SUBSET D
    PROVE  /\ SumFunctionOnSet(f, E) \in Nat
           /\ SumFunctionOnSet(f, {}) = 0
           /\ \A x \in E : SumFunctionOnSet(f, E) =
                             f[x] + SumFunctionOnSet(f, E \ {x})
<1>1. PICK g \in [SUBSET D -> Nat] : Adds(g, f, D)
  BY SumsExist
<1>2. \A s \in SUBSET D : SumFunctionOnSet(f, s) = g[s]
  BY <1>1, SumIs
<1> DEFINE T == {s \in SUBSET D : \E x \in s : g[s] # f[x] + g[s \ {x}]}
<1>3. T = {}
  <2> SUFFICES ASSUME T # {} PROVE FALSE
    OBVIOUS
  <2>1. PICK s \in T : \A x \in s : s \ {x} \notin T
    <3>1. T \in SUBSET SUBSET D
      OBVIOUS
    <3> HIDE DEF T
    <3> QED
      BY <3>1, SmallestExists
  <2>2. PICK x \in s : g[s] # f[x] + g[s \ {x}]
    BY <2>1
  <2> DEFINE c == Pick(s)
  <2>3. c \in s /\ g[s] = f[c] + g[s \ {c}]
    BY <1>1, <2>1, <2>2, PickIn DEF Adds
  <2>4. x # c
    BY <2>2, <2>3
  <2>5. g[s \ {c}] = f[x] + g[(s \ {c}) \ {x}]
    <3>1. s \ {c} \in SUBSET D /\ s \ {c} \notin T /\ x \in s \ {c}
      BY <2>1, <2>2, <2>3, <2>4
    <3> QED
      BY <3>1
  <2>6. g[s \ {x}] = f[c] + g[(s \ {x}) \ {c}]
    <3>1. s \ {x} \in SUBSET D /\ s \ {x} \notin T /\ c \in s \ {x}
      BY <2>1, <2>2, <2>3, <2>4
    <3> QED
      BY <3>1
  <2>7. (s \ {x}) \ {c} = (s \ {c}) \ {x}
    OBVIOUS
  <2>8. /\ f[x] \in Nat /\ f[c] \in Nat /\ g[s] \in Nat
        /\ g[s \ {x}] \in Nat /\ g[s \ {c}] \in Nat
        /\ g[(s \ {c}) \ {x}] \in Nat
    BY <2>1, <2>2, <2>3
  <2>9. g[s \ {x}] = f[c] + g[(s \ {c}) \ {x}]
    BY <2>6, <2>7
  <2> HIDE DEF c, T
  <2>10. f[x] + g[s \ {x}] = f[c] + g[s \ {c}]
    BY <2>5, <2>8, <2>9
  <2> QED
    BY <2>2, <2>3, <2>10
<1>4. \A x \in E : g[E] = f[x] + g[E \ {x}] /\ E \ {x} \in SUBSET D
  BY <1>3
<1>5. g[{}] = 0 /\ g[E] \in Nat
  BY <1>1 DEF Adds
<1> HIDE DEF T
<1> QED
  BY <1>2, <1>4, <1>5

\* The same, for one element.
LEMMA SumTake ==
    ASSUME NEW D, IsFiniteSet(D), NEW f, f \in [D -> Nat],
           NEW E, E \subseteq D, NEW x \in E
    PROVE  /\ SumFunctionOnSet(f, E) = f[x] + SumFunctionOnSet(f, E \ {x})
           /\ f[x] \in Nat /\ SumFunctionOnSet(f, E \ {x}) \in Nat
<1>1. E \in SUBSET D /\ E \ {x} \in SUBSET D
  OBVIOUS
<1>2. SumFunctionOnSet(f, E) = f[x] + SumFunctionOnSet(f, E \ {x})
  BY SumStep
<1>3. SumFunctionOnSet(f, E \ {x}) \in Nat
  BY <1>1, SumStep
<1> QED
  BY <1>2, <1>3

\* The sum over an interval that starts at zero grows by its last element.
LEMMA SumUpto ==
    ASSUME NEW N \in Nat, NEW f, f \in [0 .. N - 1 -> Nat], NEW n \in 0 .. N - 1
    PROVE  /\ SumFunctionOnSet(f, 0 .. n - 1) \in Nat
           /\ SumFunctionOnSet(f, 0 .. n) = SumFunctionOnSet(f, 0 .. n - 1) + f[n]
<1>1. IsFiniteSet(0 .. N - 1)
  BY FS_Interval
<1>2. 0 .. n \subseteq 0 .. N - 1 /\ n \in 0 .. n /\ (0 .. n) \ {n} = 0 .. n - 1
  OBVIOUS
<1>3. /\ SumFunctionOnSet(f, 0 .. n) = f[n] + SumFunctionOnSet(f, (0 .. n) \ {n})
      /\ f[n] \in Nat /\ SumFunctionOnSet(f, (0 .. n) \ {n}) \in Nat
  <2> DEFINE D == 0 .. N - 1
             E == 0 .. n
  <2>1. IsFiniteSet(D) /\ f \in [D -> Nat] /\ E \subseteq D /\ n \in E
    BY <1>1, <1>2
  <2> HIDE DEF D, E
  <2>2. /\ SumFunctionOnSet(f, E) = f[n] + SumFunctionOnSet(f, E \ {n})
        /\ f[n] \in Nat /\ SumFunctionOnSet(f, E \ {n}) \in Nat
    BY ONLY <2>1, SumTake
  <2> QED
    BY <2>2 DEF E
<1>4. /\ SumFunctionOnSet(f, 0 .. n) = f[n] + SumFunctionOnSet(f, 0 .. n - 1)
      /\ f[n] \in Nat /\ SumFunctionOnSet(f, 0 .. n - 1) \in Nat
  BY <1>2, <1>3, Zenon
<1> QED
  BY ONLY <1>4
=============================================================================

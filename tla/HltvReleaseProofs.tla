-------------------------- MODULE HltvReleaseProofs --------------------------
(***************************************************************************)
(* Proofs about HltvRelease for any environment: any delays of POSTs and   *)
(* samples, any maps, reloads, calibrations and failures of the proxy. The *)
(* path keeps its types, and no event is lost or doubled on it.            *)
(***************************************************************************)
EXTENDS HltvRelease, SequenceTheorems, FoldFacts

Event == [tick : Int, map : Map, board : BOOLEAN, level : Nat, made : Nat]
Queued == [event : Event, enqueuedAt : Nat]
InDrain == [event : Event, enqueuedAt : Nat, releaseAt : Int]

-----------------------------------------------------------------------------
(* How often an event is in a sequence.                                    *)

Places(e, s) == {i \in DOMAIN s : s[i].event = e}

LEMMA PlacesFinite ==
    ASSUME NEW X, NEW s \in Seq(X), NEW e
    PROVE  IsFiniteSet(Places(e, s)) /\ Copies(e, s) \in Nat
<1>1. IsFiniteSet(1 .. Len(s)) /\ DOMAIN s = 1 .. Len(s)
  BY LenProperties, FS_Interval
<1>2. Places(e, s) \in SUBSET (1 .. Len(s))
  BY <1>1 DEF Places
<1> QED
  BY <1>1, <1>2, FS_Subset, FS_CardinalityType DEF Copies, Places

LEMMA CopiesInNone == \A e : Copies(e, <<>>) = 0
<1>1. \A e : {i \in DOMAIN <<>> : <<>>[i].event = e} = {}
  OBVIOUS
<1> QED
  BY <1>1, FS_EmptySet DEF Copies

LEMMA CopiesInOne ==
    ASSUME NEW x, NEW e
    PROVE  Copies(e, <<x>>) = IF x.event = e THEN 1 ELSE 0
<1>1. {i \in DOMAIN <<x>> : <<x>>[i].event = e} = IF x.event = e THEN {1} ELSE {}
  OBVIOUS
<1> QED
  BY <1>1, FS_EmptySet, FS_Singleton DEF Copies

\* The places in the second part of a sequence are as many as in it alone.
LEMMA CopiesInBoth ==
    ASSUME NEW X, NEW s \in Seq(X), NEW t \in Seq(X), NEW e
    PROVE  Copies(e, s \o t) = Copies(e, s) + Copies(e, t)
<1> DEFINE n == Len(s)
           there == {i \in DOMAIN (s \o t) : (s \o t)[i].event = e}
           later == {i \in there : i > n}
           shift == [i \in later |-> i - n]
<1>1. /\ n \in Nat /\ Len(t) \in Nat /\ s \o t \in Seq(X)
      /\ DOMAIN s = 1 .. n /\ DOMAIN t = 1 .. Len(t)
      /\ DOMAIN (s \o t) = 1 .. n + Len(t)
      /\ \A i \in 1 .. n + Len(t) : (s \o t)[i] = IF i <= n THEN s[i] ELSE t[i - n]
  BY LenProperties, ConcatProperties
<1> HIDE DEF n
<1>2. there = Places(e, s) \cup later /\ Places(e, s) \cap later = {}
  BY <1>1 DEF Places
<1>3. IsFiniteSet(Places(e, s)) /\ IsFiniteSet(Places(e, t)) /\ IsFiniteSet(later)
  <2>1. IsFiniteSet(Places(e, s \o t)) /\ IsFiniteSet(Places(e, s)) /\ IsFiniteSet(Places(e, t))
    BY <1>1, PlacesFinite
  <2>2. later \in SUBSET Places(e, s \o t)
    BY DEF Places
  <2> QED
    BY <2>1, <2>2, FS_Subset
<1>4. Cardinality(later) = Cardinality(Places(e, t))
  <2>1. \A i \in later : i \in Int /\ i - n \in Places(e, t)
    BY <1>1 DEF Places
  <2>2. \A j \in Places(e, t) : j \in Int /\ j + n \in later /\ (j + n) - n = j
    BY <1>1 DEF Places
  <2> HIDE DEF later
  <2>3. shift \in [later -> Places(e, t)]
    BY <2>1
  <2>4. \A i, j \in later : shift[i] = shift[j] => i = j
    BY <1>1, <2>1
  <2>5. \A j \in Places(e, t) : \E i \in later : shift[i] = j
    BY <2>2
  <2> HIDE DEF shift
  <2>6. shift \in Bijection(later, Places(e, t))
    BY <2>3, <2>4, <2>5 DEF Bijection, Injection, Surjection, IsInjective
  <2> QED
    BY <2>6, <1>3, FS_Bijection DEF ExistsBijection
<1>5. Cardinality(there) = Cardinality(Places(e, s)) + Cardinality(later)
  <2> HIDE DEF there, later
  <2>1. /\ Cardinality(Places(e, s)) \in Nat /\ Cardinality(later) \in Nat
        /\ Cardinality({}) = 0
    BY <1>3, FS_CardinalityType, FS_EmptySet
  <2>2. Cardinality(Places(e, s) \cup later) =
          Cardinality(Places(e, s)) + Cardinality(later)
            - Cardinality(Places(e, s) \cap later)
    BY <1>3, FS_Union, Zenon
  <2>3. Cardinality(Places(e, s) \cap later) = 0
    BY <1>2, <2>1
  <2>4. Cardinality(there) = Cardinality(Places(e, s) \cup later)
    BY <1>2
  <2> QED
    BY <2>1, <2>2, <2>3, <2>4
<1> QED
  BY <1>4, <1>5 DEF Copies, Places

\* A sequence is what comes up to a place, and the rest.
LEMMA Halves ==
    ASSUME NEW X, NEW s \in Seq(X), NEW k \in 0 .. Len(s)
    PROVE  /\ SubSeq(s, 1, k) \in Seq(X) /\ SubSeq(s, k + 1, Len(s)) \in Seq(X)
           /\ Len(SubSeq(s, 1, k)) = k
           /\ Len(SubSeq(s, k + 1, Len(s))) = Len(s) - k
           /\ \A i \in 1 .. k : SubSeq(s, 1, k)[i] = s[i]
           /\ \A i \in 1 .. Len(s) - k : SubSeq(s, k + 1, Len(s))[i] = s[k + i]
           /\ SubSeq(s, 1, k) \o SubSeq(s, k + 1, Len(s)) = s
<1>1. Len(s) \in Nat /\ \A i \in 1 .. Len(s) : s[i] \in X
  BY LenProperties, ElementOfSeq
<1>2. /\ SubSeq(s, 1, k) \in Seq(X) /\ Len(SubSeq(s, 1, k)) = k
      /\ \A i \in 1 .. k : SubSeq(s, 1, k)[i] = s[i]
  <2>1. k \in Int /\ \A i \in 1 .. k : s[i] \in X
    BY <1>1
  <2>2. /\ SubSeq(s, 1, k) \in Seq(X)
        /\ Len(SubSeq(s, 1, k)) = IF 1 <= k THEN k - 1 + 1 ELSE 0
        /\ \A i \in 1 .. k - 1 + 1 : SubSeq(s, 1, k)[i] = s[1 + i - 1]
    BY <2>1, SubSeqProperties
  <2> QED
    BY <2>1, <2>2, <1>1
<1>3. /\ SubSeq(s, k + 1, Len(s)) \in Seq(X)
      /\ Len(SubSeq(s, k + 1, Len(s))) = Len(s) - k
      /\ \A i \in 1 .. Len(s) - k : SubSeq(s, k + 1, Len(s))[i] = s[k + i]
  <2>1. k + 1 \in Int /\ Len(s) \in Int /\ \A i \in k + 1 .. Len(s) : s[i] \in X
    BY <1>1
  <2>2. /\ SubSeq(s, k + 1, Len(s)) \in Seq(X)
        /\ Len(SubSeq(s, k + 1, Len(s))) =
              IF k + 1 <= Len(s) THEN Len(s) - (k + 1) + 1 ELSE 0
        /\ \A i \in 1 .. Len(s) - (k + 1) + 1 :
              SubSeq(s, k + 1, Len(s))[i] = s[(k + 1) + i - 1]
    BY <2>1, SubSeqProperties
  <2> QED
    BY <2>1, <2>2, <1>1
<1>4. SubSeq(s, 1, k) \o SubSeq(s, k + 1, Len(s)) = s
  <2>1. 1 \in 1 .. Len(s) + 1 /\ k \in 1 - 1 .. Len(s) /\ Len(s) \in k .. Len(s)
    BY <1>1
  <2> QED
    BY <2>1, ConcatAdjacentSubSeq, SubSeqFull
<1> QED
  BY <1>2, <1>3, <1>4

LEMMA CopiesInHalves ==
    ASSUME NEW X, NEW s \in Seq(X), NEW k \in 0 .. Len(s), NEW e
    PROVE  Copies(e, s) =
             Copies(e, SubSeq(s, 1, k)) + Copies(e, SubSeq(s, k + 1, Len(s)))
<1> DEFINE before == SubSeq(s, 1, k)
           after == SubSeq(s, k + 1, Len(s))
<1>1. before \in Seq(X) /\ after \in Seq(X) /\ before \o after = s
  BY Halves
<1> HIDE DEF before, after
<1>2. Copies(e, before \o after) = Copies(e, before) + Copies(e, after)
  BY <1>1, CopiesInBoth
<1>3. Copies(e, s) = Copies(e, before) + Copies(e, after)
  BY <1>1, <1>2
<1> QED
  BY <1>3 DEF before, after

-----------------------------------------------------------------------------
(* What an insertion, a drained tail and a selection hold.                 *)

LEMMA MaxExists ==
    ASSUME NEW N \in Nat, NEW P, P \subseteq 0 .. N, P # {}
    PROVE  Max(P) \in P /\ \A p \in P : p <= Max(P)
<1> DEFINE Below == {N - p : p \in P}
<1>1. Below \in SUBSET Nat /\ Below # {}
  <2>1. \A p \in P : N - p \in Nat
    OBVIOUS
  <2> QED
    BY <2>1
<1>2. PICK b \in Below : \A m \in Below : b <= m
  <2> HIDE DEF Below
  <2> QED
    BY <1>1, LeastExists
<1>3. PICK p \in P : b = N - p
  BY <1>2
<1>4. \A q \in P : p >= q
  BY <1>2, <1>3
<1>5. Max(P) \in P /\ \A q \in P : Max(P) >= q
  BY <1>4 DEF Max
<1> QED
  BY <1>5

\* r is s with x behind its first k elements.
Behind(r, s, x, k) ==
    \A i \in 1 .. Len(s) + 1 :
        r[i] = IF i <= k THEN s[i] ELSE IF i = k + 1 THEN x ELSE s[i - 1]

LEMMA Insertion ==
    ASSUME NEW X, NEW s \in Seq(X), NEW x \in X, NEW P, P \subseteq DOMAIN s
    PROVE  /\ Inserted(s, x, P) \in Seq(X)
           /\ Len(Inserted(s, x, P)) = Len(s) + 1
           /\ \E k \in 0 .. Len(s) :
                 /\ k \in P \cup {0} /\ \A i \in P : i <= k
                 /\ Behind(Inserted(s, x, P), s, x, k)
           /\ \A e : Copies(e, Inserted(s, x, P)) =
                      Copies(e, s) + IF x.event = e THEN 1 ELSE 0
<1> DEFINE k == Max(P \cup {0})
           before == SubSeq(s, 1, k)
           after == SubSeq(s, k + 1, Len(s))
           front == before \o <<x>>
<1>1. Len(s) \in Nat /\ DOMAIN s = 1 .. Len(s)
  BY LenProperties
<1>2. k \in P \cup {0} /\ \A i \in P : i <= k
  <2>1. P \cup {0} \subseteq 0 .. Len(s) /\ P \cup {0} # {}
    BY <1>1
  <2> QED
    BY <2>1, <1>1, MaxExists
<1>3. k \in 0 .. Len(s)
  BY <1>1, <1>2
<1>4. Inserted(s, x, P) = front \o after
  <2>1. (k + 1) - 1 = k
    BY <1>3
  <2> QED
    BY <2>1 DEF Inserted, InsertAt
<1> HIDE DEF k
<1>5. /\ before \in Seq(X) /\ after \in Seq(X)
      /\ Len(before) = k /\ Len(after) = Len(s) - k
      /\ \A i \in 1 .. k : before[i] = s[i]
      /\ \A i \in 1 .. Len(s) - k : after[i] = s[k + i]
      /\ before \o after = s
  BY <1>3, Halves
<1> HIDE DEF before, after
<1>6. /\ <<x>> \in Seq(X) /\ Len(<<x>>) = 1 /\ <<x>>[1] = x
  OBVIOUS
<1>7. /\ front \in Seq(X) /\ Len(front) = k + 1
      /\ \A i \in 1 .. k + 1 : front[i] = IF i <= k THEN s[i] ELSE x
  <2>1. /\ front \in Seq(X) /\ Len(front) = k + 1
        /\ \A i \in 1 .. k + 1 : front[i] = IF i <= k THEN before[i] ELSE <<x>>[i - k]
    BY <1>5, <1>6, ConcatProperties
  <2>2. \A i \in 1 .. k + 1 : i <= k \/ i - k = 1
    BY <1>3
  <2> QED
    BY <2>1, <2>2, <1>3, <1>5, <1>6
<1>8. \A e : Copies(e, front \o after) = Copies(e, s) + IF x.event = e THEN 1 ELSE 0
  <2> TAKE e
  <2>1. /\ Copies(e, before) \in Nat /\ Copies(e, after) \in Nat
        /\ Copies(e, before \o after) = Copies(e, before) + Copies(e, after)
        /\ Copies(e, front) = Copies(e, before) + Copies(e, <<x>>)
    <3>1. before \in Seq(X) /\ after \in Seq(X) /\ <<x>> \in Seq(X)
      BY <1>5, <1>6
    <3>2. Copies(e, before) \in Nat /\ Copies(e, after) \in Nat
      BY <3>1, PlacesFinite
    <3>3. Copies(e, before \o after) = Copies(e, before) + Copies(e, after)
      BY <3>1, CopiesInBoth
    <3>4. Copies(e, before \o <<x>>) = Copies(e, before) + Copies(e, <<x>>)
      BY <3>1, CopiesInBoth
    <3> QED
      BY <3>2, <3>3, <3>4
  <2> HIDE DEF front
  <2>2. Copies(e, front \o after) = Copies(e, front) + Copies(e, after)
    BY <1>5, <1>7, CopiesInBoth
  <2>3. Copies(e, <<x>>) = IF x.event = e THEN 1 ELSE 0
    BY CopiesInOne
  <2>4. Copies(e, s) = Copies(e, before) + Copies(e, after)
    BY <1>5, <2>1
  <2> QED
    BY <2>1, <2>2, <2>3, <2>4
<1> HIDE DEF front
<1>9. /\ front \o after \in Seq(X) /\ Len(front \o after) = Len(s) + 1
      /\ \A i \in 1 .. Len(s) + 1 :
            (front \o after)[i] = IF i <= k THEN s[i]
                                  ELSE IF i = k + 1 THEN x ELSE s[i - 1]
  <2>1. /\ front \o after \in Seq(X)
        /\ Len(front \o after) = (k + 1) + (Len(s) - k)
        /\ \A i \in 1 .. (k + 1) + (Len(s) - k) :
              (front \o after)[i] = IF i <= k + 1 THEN front[i] ELSE after[i - (k + 1)]
    <3>1. /\ front \o after \in Seq(X)
          /\ Len(front \o after) = Len(front) + Len(after)
          /\ \A i \in 1 .. Len(front) + Len(after) : (front \o after)[i] =
                IF i <= Len(front) THEN front[i] ELSE after[i - Len(front)]
      <4>1. front \in Seq(X) /\ after \in Seq(X)
        BY <1>5, <1>7
      <4> QED
        BY <4>1, ConcatProperties
    <3> QED
      BY <3>1, <1>5, <1>7
  <2>2. (k + 1) + (Len(s) - k) = Len(s) + 1
    BY <1>1, <1>3
  <2>3. ASSUME NEW i \in 1 .. Len(s) + 1
        PROVE  (front \o after)[i] = IF i <= k THEN s[i]
                                     ELSE IF i = k + 1 THEN x ELSE s[i - 1]
    <3> DEFINE r == front \o after
    <3>1. i \in 1 .. (k + 1) + (Len(s) - k) /\ i \in Int /\ k \in Int
      BY <2>2, <1>1, <1>3
    <3>2. r[i] = IF i <= k + 1 THEN front[i] ELSE after[i - (k + 1)]
      BY <2>1, <3>1
    <3> HIDE DEF r
    <3>3. CASE i <= k + 1
      <4>1. i \in 1 .. k + 1
        BY <3>3, <3>1
      <4>2. r[i] = IF i <= k THEN s[i] ELSE x
        BY <3>3, <3>2, <4>1, <1>7
      <4> QED
        BY <3>3, <3>1, <4>2 DEF r
    <3>4. CASE i > k + 1
      <4>1. i - (k + 1) \in 1 .. Len(s) - k /\ k + (i - (k + 1)) = i - 1
        BY <3>4, <1>1, <1>3
      <4>2. r[i] = after[i - (k + 1)]
        BY <3>4, <3>1, <3>2
      <4>3. after[i - (k + 1)] = s[i - 1]
        BY <4>1, <1>5
      <4> QED
        BY <3>4, <3>1, <4>2, <4>3 DEF r
    <3>5. i <= k + 1 \/ i > k + 1
      BY <3>1
    <3> QED
      BY <3>3, <3>4, <3>5, Zenon
  <2> QED
    BY <2>1, <2>2, <2>3
<1> QED
  BY <1>2, <1>3, <1>4, <1>8, <1>9 DEF Behind

Basis == ClockBasis \cup {Null}

LEMMA DrainedType ==
    ASSUME NEW item \in Queued, NEW basis \in Basis
    PROVE  Drained(item, basis) \in InDrain /\ Drained(item, basis).event = item.event
<1>1. basis # Null => /\ basis.activeTime \in Int /\ basis.sampledAt \in Int
                      /\ basis.delay \in Int /\ basis.calibration \in Int
  BY DEF Basis, ClockBasis
<1>2. Projection(item, basis) \in Int
  BY <1>1, SyncAssumption, BufferAssumption
     DEF Projection, ReachesAt, TickOf, Queued, Event
<1> QED
  BY <1>2 DEF Drained, InDrain, Queued

SortedBy(key, s) == \A i, j \in DOMAIN s : i < j => key[s[i]] <= key[s[j]]

\* An insertion behind what is not above it keeps an order.
LEMMA InsertionSorts ==
    ASSUME NEW X, NEW key \in [X -> Int], NEW s \in Seq(X), NEW x \in X, SortedBy(key, s)
    PROVE  SortedBy(key, Inserted(s, x, {i \in DOMAIN s : key[s[i]] <= key[x]}))
<1> DEFINE P == {i \in DOMAIN s : key[s[i]] <= key[x]}
           r == Inserted(s, x, P)
<1>1. /\ r \in Seq(X) /\ Len(r) = Len(s) + 1
      /\ \E k \in 0 .. Len(s) :
            k \in P \cup {0} /\ (\A i \in P : i <= k) /\ Behind(r, s, x, k)
  <2>1. P \subseteq DOMAIN s
    OBVIOUS
  <2> HIDE DEF P
  <2> QED
    BY <2>1, Insertion
<1> HIDE DEF r
<1>2. PICK k \in 0 .. Len(s) :
         k \in P \cup {0} /\ (\A i \in P : i <= k) /\ Behind(r, s, x, k)
  BY <1>1
<1>3. /\ Len(s) \in Nat /\ DOMAIN s = 1 .. Len(s) /\ DOMAIN r = 1 .. Len(s) + 1
      /\ \A i \in 1 .. Len(s) : key[s[i]] \in Int
      /\ key[x] \in Int
  BY <1>1, LenProperties, ElementOfSeq
<1>4. \A i, j \in 1 .. Len(s) : i < j => key[s[i]] <= key[s[j]]
  BY <1>3 DEF SortedBy
<1>5. \A i \in 1 .. Len(s) : i <= k => key[s[i]] <= key[x]
  <2>1. k = 0 \/ (k \in 1 .. Len(s) /\ key[s[k]] <= key[x])
    BY <1>2, <1>3
  <2> QED
    BY <2>1, <1>2, <1>3, <1>4
<1>6. \A i \in 1 .. Len(s) : i > k => key[x] <= key[s[i]]
  <2> TAKE i \in 1 .. Len(s)
  <2>1. i \in DOMAIN s /\ key[s[i]] \in Int /\ key[x] \in Int /\ i \in Int /\ k \in Int
    BY <1>2, <1>3
  <2>2. i > k => i \notin P
    <3> HIDE DEF P
    <3> QED
      BY <1>2, <2>1
  <2>3. i \notin P => ~ (key[s[i]] <= key[x])
    BY <2>1
  <2> QED
    BY <2>1, <2>2, <2>3
<1>7. ASSUME NEW i \in 1 .. Len(s) + 1, NEW j \in 1 .. Len(s) + 1, i < j
      PROVE  key[r[i]] <= key[r[j]]
  <2>1. /\ i \in Int /\ j \in Int /\ k \in Int
        /\ r[i] = IF i <= k THEN s[i] ELSE IF i = k + 1 THEN x ELSE s[i - 1]
        /\ r[j] = IF j <= k THEN s[j] ELSE IF j = k + 1 THEN x ELSE s[j - 1]
    BY <1>2 DEF Behind
  <2>2. CASE j <= k
    <3>1. i \in 1 .. Len(s) /\ j \in 1 .. Len(s) /\ i <= k
      BY <1>3, <1>7, <2>2
    <3> QED
      BY <3>1, <2>1, <2>2, <1>4, <1>7
  <2>3. CASE j = k + 1
    <3>1. i \in 1 .. Len(s) /\ i <= k
      BY <1>3, <1>7, <2>3
    <3> QED
      BY <3>1, <2>1, <2>3, <1>5
  <2>4. CASE j > k + 1
    <3>1. j - 1 \in 1 .. Len(s) /\ j - 1 > k /\ j > k /\ j # k + 1
      BY <1>3, <1>7, <2>4
    <3>2. r[j] = s[j - 1]
      BY <3>1, <2>1
    <3>3. CASE i <= k
      <4>1. i \in 1 .. Len(s) /\ i < j - 1
        BY <1>3, <3>3, <3>1
      <4> QED
        BY <4>1, <3>1, <3>2, <3>3, <2>1, <1>4
    <3>4. CASE i = k + 1
      BY <3>1, <3>2, <3>4, <2>1, <1>6
    <3>5. CASE i > k + 1
      <4>1. i - 1 \in 1 .. Len(s) /\ i - 1 < j - 1 /\ i > k /\ i # k + 1
        BY <1>3, <1>7, <3>5
      <4> QED
        BY SMTT(30), <4>1, <3>1, <3>2, <2>1, <1>4
    <3> QED
      BY <3>3, <3>4, <3>5, <2>1
  <2> QED
    BY <2>1, <2>2, <2>3, <2>4
<1> QED
  BY <1>3, <1>7 DEF SortedBy, r

ByRelease(drain) ==
    \A i, j \in DOMAIN drain : i < j => drain[i].releaseAt <= drain[j].releaseAt

LEMMA InsertedByReleaseType ==
    ASSUME NEW B, B \subseteq InDrain, NEW s \in Seq(B), NEW x \in B
    PROVE  /\ InsertedByRelease(s, x) \in Seq(B)
           /\ ByRelease(s) => ByRelease(InsertedByRelease(s, x))
           /\ \A e : Copies(e, InsertedByRelease(s, x)) =
                      Copies(e, s) + IF x.event = e THEN 1 ELSE 0
<1> DEFINE P == {i \in DOMAIN s : s[i].releaseAt <= x.releaseAt}
           r == InsertedByRelease(s, x)
           key == [b \in B |-> b.releaseAt]
<1>1. P \subseteq DOMAIN s
  OBVIOUS
<1>2. r = Inserted(s, x, P)
  BY DEF InsertedByRelease
<1> HIDE DEF r
<1>3. /\ r \in Seq(B)
      /\ \A e : Copies(e, r) = Copies(e, s) + IF x.event = e THEN 1 ELSE 0
  <2> HIDE DEF P
  <2> QED
    BY <1>1, <1>2, Insertion
<1>4. \A i \in DOMAIN s : s[i] \in B
  BY LenProperties, ElementOfSeq
<1>5. \A i \in DOMAIN r : r[i] \in B
  BY <1>3, LenProperties, ElementOfSeq
<1>6. ASSUME ByRelease(s) PROVE ByRelease(r)
  <2>1. key \in [B -> Int]
    BY DEF InDrain
  <2>2. SortedBy(key, s)
    BY <1>4, <1>6 DEF SortedBy, ByRelease
  <2>3. P = {i \in DOMAIN s : key[s[i]] <= key[x]}
    BY <1>4
  <2>4. SortedBy(key, r)
    <3> HIDE DEF P, key
    <3> QED
      BY <1>2, <2>1, <2>2, <2>3, InsertionSorts
  <2> QED
    BY <1>5, <2>4 DEF SortedBy, ByRelease
<1> QED
  BY <1>3, <1>6 DEF r

\* With this basis, a queue of elements of A can be drained into one of B.
Drains(A, B, basis) ==
    /\ A \subseteq Queued /\ B \subseteq InDrain /\ basis \in Basis
    /\ \A x \in A : Drained(x, basis) \in B

\* The drain as one item after the other comes into it.
Grows(d, drain, items, basis) ==
    /\ d[0] = drain
    /\ \A n \in 1 .. Len(items) :
          d[n] = InsertedByRelease(d[n - 1], Drained(items[n], basis))

LEMMA TailGrows ==
    ASSUME NEW A, NEW B, NEW basis, Drains(A, B, basis),
           NEW drain \in Seq(B), NEW items \in Seq(A)
    PROVE  \E d \in [0 .. Len(items) -> Seq(B)] :
              /\ Grows(d, drain, items, basis)
              /\ WithTail(drain, items, basis) = d[Len(items)]
<1> DEFINE N == Len(items)
           Kind == Seq(B)
           R(d) == d = [n \in 0 .. N |->
                          IF n = 0 THEN drain
                          ELSE InsertedByRelease(d[n - 1], Drained(items[n], basis))]
           step == [n \in 1 .. N |->
                      [k \in Kind |-> InsertedByRelease(k, Drained(items[n], basis))]]
<1>1. N \in Nat /\ \A n \in 1 .. N : items[n] \in A
  BY LenProperties, ElementOfSeq
<1>2. ASSUME NEW k \in Seq(B), NEW n \in 1 .. N
      PROVE  InsertedByRelease(k, Drained(items[n], basis)) \in Seq(B)
  <2> DEFINE x == Drained(items[n], basis)
  <2>1. x \in B /\ B \subseteq InDrain
    BY <1>1 DEF Drains
  <2> HIDE DEF x
  <2>2. InsertedByRelease(k, x) \in Seq(B)
    BY <2>1, InsertedByReleaseType
  <2> QED
    BY <2>2 DEF x
<1>3. step \in [1 .. N -> [Kind -> Kind]]
  BY <1>2
<1>4. PICK d \in [0 .. N -> Kind] : Follows(d, N, drain, step)
  <2> HIDE DEF N, Kind, step
  <2>1. drain \in Kind
    BY DEF Kind
  <2> QED
    BY <1>1, <1>3, <2>1, RecursionExists
<1>5. R(d)
  <2>1. \A n \in 1 .. N : n - 1 \in 0 .. N /\ d[n - 1] \in Kind
    <3> HIDE DEF Kind, N, step
    <3> QED
      BY <1>1, <1>4
  <2>2. /\ d[0] = drain
        /\ \A n \in 1 .. N :
              d[n] = InsertedByRelease(d[n - 1], Drained(items[n], basis))
    BY <1>4, <2>1 DEF Follows, Kind
  <2> HIDE DEF step, Kind
  <2>3. \A n \in 0 .. N : n = 0 \/ n \in 1 .. N
    BY <1>1
  <2> QED
    BY <1>4, <2>2, <2>3
<1> DEFINE c == CHOOSE f : R(f)
<1>6. R(c)
  <2> HIDE DEF R
  <2> QED
    BY <1>5
<1>7. WithTail(drain, items, basis) = c[N]
  BY DEF WithTail
<1> HIDE DEF c
<1>8. /\ c[0] = drain
      /\ \A n \in 1 .. N : c[n] = InsertedByRelease(c[n - 1], Drained(items[n], basis))
      /\ c = [n \in 0 .. N |-> c[n]]
  BY <1>1, <1>6
<1> DEFINE S == {n \in Nat : n \in 0 .. N => c[n] \in Kind}
<1>9. \A n \in Nat : n \in S
  <2>1. 0 \in S
    BY <1>8
  <2>2. ASSUME NEW n \in S PROVE n + 1 \in S
    <3> SUFFICES ASSUME n + 1 \in 0 .. N PROVE c[n + 1] \in Kind
      OBVIOUS
    <3>1. /\ n \in 0 .. N /\ c[n] \in Seq(B)
          /\ n + 1 \in 1 .. N /\ (n + 1) - 1 = n
      BY <1>1
    <3>2. c[n + 1] = InsertedByRelease(c[n], Drained(items[n + 1], basis))
      BY <1>8, <3>1
    <3> QED
      BY <3>1, <3>2, <1>2
  <2>3. S \in SUBSET Nat
    OBVIOUS
  <2> HIDE DEF S
  <2> QED
    BY <2>1, <2>2, <2>3, Climb
<1>10. \A n \in 0 .. N : c[n] \in Kind
  BY <1>9
<1> HIDE DEF S, R, Kind
<1>11. c \in [0 .. N -> Kind]
  BY <1>8, <1>10
<1> QED
  BY <1>7, <1>8, <1>11 DEF Kind, Grows

\* A sequence as it grows from its first element to its last.
LEMMA PrefixTypes ==
    ASSUME NEW X, NEW s \in Seq(X)
    PROVE  /\ SubSeq(s, 1, 0) = <<>> /\ SubSeq(s, 1, Len(s)) = s
           /\ \A n \in 0 .. Len(s) : SubSeq(s, 1, n) \in Seq(X)
BY SubSeqEmpty, SubSeqFull, Halves

LEMMA PrefixGrows ==
    ASSUME NEW X, NEW s \in Seq(X), NEW e, NEW n \in 0 .. Len(s), n + 1 \in 0 .. Len(s)
    PROVE  /\ s[n + 1] \in X
           /\ Copies(e, SubSeq(s, 1, n + 1)) =
                 Copies(e, SubSeq(s, 1, n)) + IF s[n + 1].event = e THEN 1 ELSE 0
<1> DEFINE before == SubSeq(s, 1, n)
           x == s[n + 1]
           upto == SubSeq(s, 1, n + 1)
<1>1. Len(s) \in Nat
  BY LenProperties
<1>2. n + 1 \in 1 .. Len(s) /\ 1 \in 1 .. Len(s) /\ (n + 1) - 1 = n
  BY <1>1
<1>3. x \in X /\ before \in Seq(X) /\ <<x>> \in Seq(X)
  BY <1>2, PrefixTypes, ElementOfSeq
<1>4. upto = before \o <<x>>
  BY <1>2, SubSeqRecursiveSecond
<1> HIDE DEF before, x, upto
<1>5. Copies(e, upto) = Copies(e, before) + Copies(e, <<x>>)
  BY <1>3, <1>4, CopiesInBoth
<1>6. Copies(e, upto) = Copies(e, before) + IF x.event = e THEN 1 ELSE 0
  BY <1>5, CopiesInOne
<1> QED
  BY <1>3, <1>6 DEF before, x, upto

\* Every item comes into the drain once, whatever is there already.
LEMMA TailHoldsAll ==
    ASSUME NEW A, NEW B, NEW basis, Drains(A, B, basis),
           NEW drain \in Seq(B), NEW items \in Seq(A)
    PROVE  /\ WithTail(drain, items, basis) \in Seq(B)
           /\ ByRelease(drain) => ByRelease(WithTail(drain, items, basis))
           /\ \A e : Copies(e, WithTail(drain, items, basis)) =
                      Copies(e, drain) + Copies(e, items)
<1> DEFINE N == Len(items)
<1>1. PICK d \in [0 .. N -> Seq(B)] :
         Grows(d, drain, items, basis) /\ WithTail(drain, items, basis) = d[N]
  BY TailGrows
<1>2. A \subseteq Queued /\ B \subseteq InDrain /\ basis \in Basis
  BY DEF Drains
<1>3. N \in Nat /\ \A n \in 1 .. N : items[n] \in A
  BY LenProperties, ElementOfSeq
<1>4. ASSUME NEW e
      PROVE  Copies(e, d[N]) = Copies(e, drain) + Copies(e, items)
  <2> DEFINE pre(n) == SubSeq(items, 1, n)
             S == {n \in Nat : n \in 0 .. N =>
                     Copies(e, d[n]) = Copies(e, drain) + Copies(e, pre(n))}
  <2>1. /\ pre(0) = <<>> /\ pre(N) = items
        /\ \A n \in 0 .. N : n + 1 \in 0 .. N =>
              /\ items[n + 1] \in A
              /\ Copies(e, pre(n + 1)) =
                    Copies(e, pre(n)) + IF items[n + 1].event = e THEN 1 ELSE 0
        /\ \A n \in 0 .. N : Copies(e, pre(n)) \in Nat
    <3>1. \A n \in 0 .. N : n + 1 \in 0 .. N =>
             /\ items[n + 1] \in A
             /\ Copies(e, pre(n + 1)) =
                   Copies(e, pre(n)) + IF items[n + 1].event = e THEN 1 ELSE 0
      BY <1>2, PrefixGrows
    <3>2. pre(0) = <<>> /\ pre(N) = items /\ \A n \in 0 .. N : pre(n) \in Seq(A)
      BY PrefixTypes
    <3>3. \A n \in 0 .. N : Copies(e, pre(n)) \in Nat
      BY <1>2, <3>2, PlacesFinite
    <3> QED
      BY <3>1, <3>2, <3>3
  <2> HIDE DEF pre
  <2>2. Copies(e, drain) \in Nat /\ Copies(e, <<>>) = 0
    BY <1>2, PlacesFinite, CopiesInNone
  <2>3. 0 \in S
    BY <1>1, <2>1, <2>2 DEF Grows
  <2>4. ASSUME NEW n \in S PROVE n + 1 \in S
    <3> SUFFICES ASSUME n + 1 \in 0 .. N
                 PROVE  Copies(e, d[n + 1]) = Copies(e, drain) + Copies(e, pre(n + 1))
      OBVIOUS
    <3> DEFINE item == items[n + 1]
    <3>1. /\ n \in 0 .. N /\ n + 1 \in 1 .. N /\ (n + 1) - 1 = n
          /\ d[n] \in Seq(B) /\ item \in A
          /\ Copies(e, d[n]) = Copies(e, drain) + Copies(e, pre(n))
      BY <1>1, <1>3
    <3>2. d[n + 1] = InsertedByRelease(d[n], Drained(item, basis))
      BY <1>1, <3>1 DEF Grows
    <3>3. Copies(e, d[n + 1]) = Copies(e, d[n]) + IF item.event = e THEN 1 ELSE 0
      <4> DEFINE x == Drained(item, basis)
                 k == d[n]
      <4>1. x \in B /\ x.event = item.event /\ k \in Seq(B)
        BY <1>2, <3>1, DrainedType DEF Drains
      <4>2. d[n + 1] = InsertedByRelease(k, x)
        BY <3>2
      <4> HIDE DEF item, x, k
      <4>3. Copies(e, InsertedByRelease(k, x)) =
              Copies(e, k) + IF x.event = e THEN 1 ELSE 0
        BY <1>2, <4>1, InsertedByReleaseType
      <4> QED
        BY <4>1, <4>2, <4>3 DEF k
    <3>4. Copies(e, pre(n + 1)) = Copies(e, pre(n)) + IF item.event = e THEN 1 ELSE 0
      BY <2>1, <3>1
    <3>5. Copies(e, pre(n)) \in Nat
      BY <2>1, <3>1
    <3> QED
      BY <2>2, <3>1, <3>3, <3>4, <3>5
  <2>5. S \in SUBSET Nat
    OBVIOUS
  <2> HIDE DEF S
  <2>6. N \in S
    BY <1>3, <2>3, <2>4, <2>5, Climb
  <2> QED
    BY <1>3, <2>1, <2>6 DEF S
<1>5. ASSUME ByRelease(drain) PROVE ByRelease(d[N])
  <2> DEFINE S == {n \in Nat : n \in 0 .. N => ByRelease(d[n])}
  <2>1. 0 \in S
    BY <1>1, <1>5 DEF Grows
  <2>2. ASSUME NEW n \in S PROVE n + 1 \in S
    <3> SUFFICES ASSUME n + 1 \in 0 .. N PROVE ByRelease(d[n + 1])
      OBVIOUS
    <3>1. /\ n \in 0 .. N /\ n + 1 \in 1 .. N /\ (n + 1) - 1 = n
          /\ d[n] \in Seq(B) /\ items[n + 1] \in A /\ ByRelease(d[n])
      BY <1>1, <1>3
    <3>2. d[n + 1] = InsertedByRelease(d[n], Drained(items[n + 1], basis))
      BY <1>1, <3>1 DEF Grows
    <3> DEFINE x == Drained(items[n + 1], basis)
               k == d[n]
    <3>3. x \in B /\ k \in Seq(B) /\ ByRelease(k) /\ d[n + 1] = InsertedByRelease(k, x)
      BY <3>1, <3>2 DEF Drains
    <3> HIDE DEF x, k
    <3> QED
      BY <1>2, <3>3, InsertedByReleaseType
  <2>3. S \in SUBSET Nat
    OBVIOUS
  <2> HIDE DEF S
  <2>4. N \in S
    BY <1>3, <2>1, <2>2, <2>3, Climb
  <2> QED
    BY <1>3, <2>4 DEF S
<1>6. d[N] \in Seq(B)
  BY <1>1, <1>3
<1> QED
  BY <1>1, <1>4, <1>5, <1>6

\* A selection as one place after the other is looked at.
Selects(a, seq, places) ==
    /\ a[0] = <<>>
    /\ \A n \in 1 .. Len(seq) :
          a[n] = IF n \in places THEN Append(a[n - 1], seq[n]) ELSE a[n - 1]

LEMMA SelectionGrows ==
    ASSUME NEW X, NEW seq \in Seq(X), NEW places
    PROVE  \E a \in [0 .. Len(seq) -> Seq(X)] :
              Selects(a, seq, places) /\ At(seq, places) = a[Len(seq)]
<1> DEFINE N == Len(seq)
           Kind == Seq(X)
           none == <<>>
           after(k, n) == IF n \in places THEN Append(k, seq[n]) ELSE k
           R(a) == a = [n \in 0 .. N |-> IF n = 0 THEN none ELSE after(a[n - 1], n)]
           step == [n \in 1 .. N |-> [k \in Kind |-> after(k, n)]]
<1>1. N \in Nat
  BY LenProperties
<1>2. \A n \in 1 .. N : seq[n] \in X
  BY ElementOfSeq
<1>3. step \in [1 .. N -> [Kind -> Kind]]
  BY <1>1, <1>2, AppendProperties
<1> DEFINE c == CHOOSE f : R(f)
<1>4. At(seq, places) = c[N]
  BY DEF At
<1> HIDE DEF after, none, N, Kind
<1>5. PICK a \in [0 .. N -> Kind] : Follows(a, N, none, step)
  <2>1. none \in Kind
    BY EmptySeq DEF none, Kind
  <2> HIDE DEF step
  <2> QED
    BY <1>1, <1>3, <2>1, RecursionExists
<1>6. R(a)
  <2>1. \A n \in 1 .. N : n - 1 \in 0 .. N /\ a[n - 1] \in Kind
    BY <1>1, <1>5
  <2>2. /\ a[0] = none
        /\ \A n \in 1 .. N : a[n] = after(a[n - 1], n)
    BY <1>5, <2>1 DEF Follows
  <2> HIDE DEF step
  <2>3. \A n \in 0 .. N : n = 0 \/ n \in 1 .. N
    BY <1>1
  <2> QED
    BY <1>5, <2>2, <2>3
<1>7. R(c)
  <2> HIDE DEF R
  <2> QED
    BY <1>6
<1> HIDE DEF c
<1>8. /\ c[0] = none
      /\ \A n \in 1 .. N : c[n] = after(c[n - 1], n)
      /\ c = [n \in 0 .. N |-> c[n]]
  <2>1. 0 \in 0 .. N /\ \A n \in 1 .. N : n \in 0 .. N /\ n # 0
    BY <1>1
  <2>2. c = [n \in 0 .. N |-> c[n]]
    BY <1>7
  <2>3. \A n \in 0 .. N : c[n] = IF n = 0 THEN none ELSE after(c[n - 1], n)
    BY <1>7, Zenon
  <2> QED
    BY <2>1, <2>2, <2>3
<1> DEFINE S == {n \in Nat : n \in 0 .. N => c[n] \in Kind}
<1>9. \A n \in Nat : n \in S
  <2>1. 0 \in S
    BY <1>8, EmptySeq DEF none, Kind
  <2>2. ASSUME NEW n \in S PROVE n + 1 \in S
    <3> SUFFICES ASSUME n + 1 \in 0 .. N PROVE c[n + 1] \in Kind
      OBVIOUS
    <3>1. /\ n \in 0 .. N /\ c[n] \in Kind
          /\ n + 1 \in 1 .. N /\ (n + 1) - 1 = n
      BY <1>1
    <3>2. c[n + 1] = after(c[n], n + 1)
      BY <1>8, <3>1
    <3>3. after(c[n], n + 1) \in Kind
      BY <1>2, <3>1, AppendProperties DEF after, Kind
    <3> QED
      BY <3>1, <3>2, <3>3
  <2>3. S \in SUBSET Nat
    OBVIOUS
  <2> HIDE DEF S
  <2> QED
    BY <2>1, <2>2, <2>3, Climb
<1>10. \A n \in 0 .. N : c[n] \in Kind
  BY <1>9
<1> HIDE DEF S, R
<1>11. c \in [0 .. N -> Kind]
  BY <1>8, <1>10
<1> QED
  BY <1>4, <1>8, <1>11 DEF Kind, N, Selects, after, none

\* What is selected and what is left hold together what was there.
LEMMA SelectionSplits ==
    ASSUME NEW X, NEW seq \in Seq(X), NEW places, places \subseteq DOMAIN seq
    PROVE  /\ At(seq, places) \in Seq(X)
           /\ At(seq, DOMAIN seq \ places) \in Seq(X)
           /\ \A e : Copies(e, At(seq, places)) + Copies(e, At(seq, DOMAIN seq \ places))
                       = Copies(e, seq)
<1> DEFINE N == Len(seq)
           others == DOMAIN seq \ places
<1>1. PICK a \in [0 .. N -> Seq(X)] : Selects(a, seq, places) /\ At(seq, places) = a[N]
  BY SelectionGrows
<1>2. PICK b \in [0 .. N -> Seq(X)] : Selects(b, seq, others) /\ At(seq, others) = b[N]
  BY SelectionGrows
<1>3. /\ N \in Nat /\ \A n \in 1 .. N : seq[n] \in X
      /\ \A n \in 1 .. N : n \in others <=> n \notin places
  BY LenProperties, ElementOfSeq
<1> HIDE DEF others
<1>4. ASSUME NEW e
      PROVE  Copies(e, a[N]) + Copies(e, b[N]) = Copies(e, seq)
  <2> DEFINE pre(n) == SubSeq(seq, 1, n)
             S == {n \in Nat : n \in 0 .. N =>
                     Copies(e, a[n]) + Copies(e, b[n]) = Copies(e, pre(n))}
  <2>1. \A n \in 0 .. N : n + 1 \in 0 .. N =>
           Copies(e, pre(n + 1)) =
              Copies(e, pre(n)) + IF seq[n + 1].event = e THEN 1 ELSE 0
    BY PrefixGrows
  <2>2. pre(0) = <<>> /\ pre(N) = seq
    BY PrefixTypes
  <2> HIDE DEF pre
  <2>3. Copies(e, <<>>) = 0
    BY CopiesInNone
  <2>4. 0 \in S
    BY <1>1, <1>2, <2>2, <2>3 DEF Selects
  <2>5. ASSUME NEW n \in S PROVE n + 1 \in S
    <3> SUFFICES ASSUME n + 1 \in 0 .. N
                 PROVE  Copies(e, a[n + 1]) + Copies(e, b[n + 1]) = Copies(e, pre(n + 1))
      OBVIOUS
    <3> DEFINE x == seq[n + 1]
               one == IF x.event = e THEN 1 ELSE 0
    <3>1. /\ n \in 0 .. N /\ n + 1 \in 1 .. N /\ (n + 1) - 1 = n
          /\ a[n] \in Seq(X) /\ b[n] \in Seq(X) /\ x \in X
          /\ Copies(e, a[n]) + Copies(e, b[n]) = Copies(e, pre(n))
      BY <1>1, <1>2, <1>3
    <3>2. /\ a[n + 1] = IF n + 1 \in places THEN Append(a[n], x) ELSE a[n]
          /\ b[n + 1] = IF n + 1 \in places THEN b[n] ELSE Append(b[n], x)
      BY <1>1, <1>2, <1>3, <3>1 DEF Selects
    <3>3. ASSUME NEW s \in Seq(X)
          PROVE  Copies(e, Append(s, x)) = Copies(e, s) + one
      <4> HIDE DEF x
      <4>1. Append(s, x) = s \o <<x>> /\ <<x>> \in Seq(X)
        BY <3>1, AppendIsConcat
      <4>2. Copies(e, s \o <<x>>) = Copies(e, s) + Copies(e, <<x>>)
        BY <4>1, CopiesInBoth
      <4>3. Copies(e, <<x>>) = one
        BY CopiesInOne
      <4> QED
        BY <4>1, <4>2, <4>3
    <3>4. /\ Copies(e, a[n]) \in Nat /\ Copies(e, b[n]) \in Nat /\ one \in Nat
          /\ Copies(e, Append(a[n], x)) = Copies(e, a[n]) + one
          /\ Copies(e, Append(b[n], x)) = Copies(e, b[n]) + one
      BY <3>1, <3>3, PlacesFinite
    <3>5. Copies(e, pre(n + 1)) = Copies(e, pre(n)) + one
      BY <2>1, <3>1
    <3> HIDE DEF x, one
    <3> QED
      BY <3>1, <3>2, <3>4, <3>5
  <2>6. S \in SUBSET Nat
    OBVIOUS
  <2> HIDE DEF S
  <2>7. N \in S
    BY <1>3, <2>4, <2>5, <2>6, Climb
  <2> QED
    BY <1>3, <2>2, <2>7 DEF S
<1>5. a[N] \in Seq(X) /\ b[N] \in Seq(X)
  BY <1>1, <1>2, <1>3
<1> QED
  BY <1>1, <1>2, <1>4, <1>5 DEF others

\* What comes before the first that is not good is good, and no more.
LEMMA LeadingStops ==
    ASSUME NEW X, NEW s \in Seq(X), NEW good
    PROVE  /\ Leading(s, good) \in 0 .. Len(s)
           /\ \A i \in 1 .. Leading(s, good) : i \in good
           /\ Leading(s, good) < Len(s) => Leading(s, good) + 1 \notin good
<1> DEFINE P == {n \in 0 .. Len(s) : 1 .. n \subseteq good}
           k == Max(P)
<1>1. Len(s) \in Nat
  BY LenProperties
<1>2. 0 \in P /\ P \subseteq 0 .. Len(s)
  BY <1>1
<1>3. k \in P /\ \A n \in P : n <= k
  <2> HIDE DEF P
  <2> QED
    BY <1>1, <1>2, MaxExists
<1>4. Leading(s, good) = k
  BY DEF Leading
<1> HIDE DEF k
<1>5. ASSUME k < Len(s), k + 1 \in good PROVE FALSE
  <2>1. 1 .. k + 1 \subseteq good
    BY <1>3, <1>5
  <2>2. k + 1 \in P
    BY <1>1, <1>3, <1>5, <2>1
  <2> QED
    BY <1>3, <2>2
<1> QED
  BY <1>3, <1>4, <1>5

-----------------------------------------------------------------------------
(* The types of the path.                                                  *)

QueuedBy(t) == {x \in Queued : x.enqueuedAt <= t}
DrainedBy(t) == {x \in InDrain : x.enqueuedAt <= t}

BufferTypes == queue \in Seq(QueuedBy(now)) /\ draining \in Seq(DrainedBy(now))

EnvironmentTypes ==
    /\ transit \subseteq Event
    /\ level \in [number : Nat, map : Map, since : Int]
    /\ {sent, lastBeat} \subseteq Nat

Types == now \in Nat /\ SyncTypeOK /\ BufferTypes /\ EnvironmentTypes

LEMMA BasisType == SyncTypeOK => TailBasis \in Basis
BY DEF SyncTypeOK, TailBasis, Basis

LEMMA DrainsByNow ==
    ASSUME NEW t \in Nat, NEW basis \in Basis
    PROVE  Drains(QueuedBy(t), DrainedBy(t), basis)
<1>1. ASSUME NEW x \in QueuedBy(t) PROVE Drained(x, basis) \in DrainedBy(t)
  <2>1. x \in Queued /\ x.enqueuedAt <= t
    BY DEF QueuedBy
  <2>2. Drained(x, basis) \in InDrain
    BY <2>1, DrainedType
  <2>3. Drained(x, basis).enqueuedAt = x.enqueuedAt
    BY DEF Drained
  <2> QED
    BY <2>1, <2>2, <2>3 DEF DrainedBy
<1> QED
  BY <1>1 DEF Drains, QueuedBy, DrainedBy

\* The service keeps its types whatever event it is told of.
LEMMA EventKeepsTypes ==
    ASSUME SyncTypeOK, now \in Nat, UNCHANGED now, NEW e \in Event, OnIngestEvent(e)
    PROVE  SyncTypeOK'
<1>1. e.tick \in Int
  BY DEF Event
<1>2. ASSUME NEW reason \in {"map_change", "other"}, BeginSample(reason)
      PROVE  inflight' \in Sample \cup {Null}
  BY <1>2 DEF BeginSample, SyncTypeOK, Sample
<1>3. ASSUME PairWithClock PROVE lastEventClock' \in ClockBasis \cup {Null}
  <2>1. Online => BasisOf(clock) \in ClockBasis
    BY DEF Online, SyncTypeOK, HltvClock, BasisOf, ClockBasis
  <2> QED
    BY <1>3, <2>1 DEF PairWithClock, SyncTypeOK
<1>4. ASSUME highestEventTick # Null, Boundary(highestEventTick)
      PROVE  /\ lastBoundary' \in [at : Nat, preResetHighWater : Int]
             /\ resetBasis' \in ClockBasis \cup {Null}
  BY <1>4 DEF Boundary, SyncTypeOK
<1>5. CASE FirstEvent(e)
  <2>1. inflight' \in Sample \cup {Null}
    BY <1>2, <1>5 DEF FirstEvent
  <2> QED
    BY <1>1, <1>5, <2>1 DEF FirstEvent, SyncTypeOK
<1>6. CASE MapChange(e)
  <2>1. inflight' \in Sample \cup {Null} /\ lastEventClock' \in ClockBasis \cup {Null}
    BY <1>2, <1>3, <1>6 DEF MapChange
  <2>2. /\ lastBoundary' \in [at : Nat, preResetHighWater : Int] \cup {Null}
        /\ resetBasis' \in ClockBasis \cup {Null}
    <3>1. CASE highestEventTick # Null
      BY <1>4, <1>6, <3>1 DEF MapChange
    <3>2. CASE highestEventTick = Null
      BY <1>6, <3>2 DEF MapChange, SyncTypeOK
    <3> QED
      BY <3>1, <3>2
  <2> QED
    BY <1>6, <2>1, <2>2 DEF MapChange, SyncTypeOK
<1>7. CASE Straggler(e)
  BY <1>7 DEF Straggler, SyncTypeOK, syncVars
<1>8. CASE TickReset(e)
  <2>1. inflight' \in Sample \cup {Null}
    BY <1>2, <1>8 DEF TickReset
  <2>2. /\ lastBoundary' \in [at : Nat, preResetHighWater : Int]
        /\ resetBasis' \in ClockBasis \cup {Null}
    BY <1>4, <1>8 DEF TickReset, IsTickReset
  <2>3. clock' \in HltvClock \cup {Null}
    <3>1. clock' = IF clock = Null THEN Null ELSE [clock EXCEPT !.online = FALSE]
      BY <1>8 DEF TickReset
    <3> QED
      BY <3>1 DEF SyncTypeOK, HltvClock
  <2> QED
    BY <1>1, <1>8, <2>1, <2>2, <2>3 DEF TickReset, SyncTypeOK
<1>9. CASE OrdinaryEvent(e)
  <2>1. lastEventClock' \in ClockBasis \cup {Null}
    BY <1>3, <1>9 DEF OrdinaryEvent
  <2> QED
    BY <1>1, <1>9, <2>1 DEF OrdinaryEvent, SyncTypeOK
<1> QED
  BY <1>5, <1>6, <1>7, <1>8, <1>9 DEF OnIngestEvent

\* And whatever is asked of it otherwise.
LEMMA RequestKeepsTypes ==
    ASSUME SyncTypeOK, now \in Nat, UNCHANGED now, RequestSample
    PROVE  SyncTypeOK'
BY DEF RequestSample, BeginSample, SyncTypeOK, Sample

LEMMA AnswerKeepsTypes ==
    ASSUME SyncTypeOK, NEW status \in Status, StatusRead(status)
    PROVE  SyncTypeOK'
<1>1. inflight' \in Sample
  BY DEF StatusRead, SyncTypeOK, Sample
<1> QED
  BY <1>1 DEF StatusRead, SyncTypeOK

LEMMA SampleKeepsTypes ==
    ASSUME SyncTypeOK, SampleSucceeds \/ SampleFails
    PROVE  SyncTypeOK'
<1>1. inflight \in Sample /\ inflight.sampledAt \in Nat /\ inflight.status \in Status \cup {Null}
  BY DEF SyncTypeOK, SampleSucceeds, SampleFails, Sample
<1>2. CASE SampleSucceeds
  <2>1. clock' \in HltvClock
    BY <1>1, <1>2 DEF SampleSucceeds, SyncTypeOK, HltvClock, Status
  <2> QED
    BY <1>2, <2>1 DEF SampleSucceeds, SyncTypeOK
<1>3. CASE SampleFails
  <2>1. CanCoast \in BOOLEAN
    BY <1>1 DEF CanCoast, Online, SyncTypeOK, HltvClock
  <2>2. clock' \in HltvClock
    <3>1. CASE clock = Null
      <4>1. FallbackDelay \in Nat /\ 0 \in Int
        BY SyncAssumption
      <4> QED
        BY <1>1, <1>3, <3>1, <4>1 DEF SampleFails, HltvClock
    <3>2. CASE clock # Null
      <4>1. clock \in HltvClock /\ clock' = [clock EXCEPT !.online = CanCoast, !.lastError = TRUE]
        BY <1>3, <3>2 DEF SampleFails, SyncTypeOK
      <4> QED
        BY <2>1, <4>1 DEF HltvClock
    <3> QED
      BY <3>1, <3>2
  <2> QED
    BY <1>3, <2>2 DEF SampleFails, SyncTypeOK
<1> QED
  BY <1>2, <1>3

LEMMA OffsetKeepsTypes ==
    ASSUME SyncTypeOK, NEW offset \in Offset, SetCalibrationOffset(offset)
    PROVE  SyncTypeOK'
<1>1. clock' \in HltvClock
  BY ReleaseAssumption DEF SetCalibrationOffset, SyncTypeOK, HltvClock
<1> QED
  BY <1>1 DEF SetCalibrationOffset, SyncTypeOK

-----------------------------------------------------------------------------
(* What the two queues hold between them, through each of their operations. *)

Both(e) == Copies(e, draining) + Copies(e, queue)

LEMMA WaitingTypes ==
    ASSUME BufferTypes
    PROVE  /\ queue \in Seq(Queued) /\ draining \in Seq(InDrain)
           /\ queue \in Seq(Queued \cup InDrain) /\ draining \in Seq(Queued \cup InDrain)
BY SeqMonotonic DEF BufferTypes, QueuedBy, DrainedBy

LEMMA WaitingIsBoth ==
    ASSUME BufferTypes, NEW e
    PROVE  /\ Copies(e, Waiting) = Both(e)
           /\ Copies(e, draining) \in Nat /\ Copies(e, queue) \in Nat
<1>1. queue \in Seq(Queued \cup InDrain) /\ draining \in Seq(Queued \cup InDrain)
  BY WaitingTypes
<1> QED
  BY <1>1, CopiesInBoth, PlacesFinite DEF Waiting, Both

\* What is drained with a basis is in the drain, in addition.
LEMMA TailTypes ==
    ASSUME NEW t \in Nat, NEW basis \in Basis, NEW drain, drain \in Seq(DrainedBy(t)),
           NEW items, items \in Seq(QueuedBy(t))
    PROVE  /\ WithTail(drain, items, basis) \in Seq(DrainedBy(t))
           /\ \A e : Copies(e, WithTail(drain, items, basis)) =
                      Copies(e, drain) + Copies(e, items)
<1>1. Drains(QueuedBy(t), DrainedBy(t), basis)
  BY DrainsByNow
<1> DEFINE A == QueuedBy(t)
           B == DrainedBy(t)
<1>2. Drains(A, B, basis) /\ drain \in Seq(B) /\ items \in Seq(A)
  BY <1>1
<1> HIDE DEF A, B
<1>3. /\ WithTail(drain, items, basis) \in Seq(B)
      /\ \A e : Copies(e, WithTail(drain, items, basis)) =
                 Copies(e, drain) + Copies(e, items)
  BY <1>2, TailHoldsAll
<1> QED
  BY <1>3 DEF B

LEMMA EnqueueKeeps ==
    ASSUME Types, UNCHANGED now, SyncTypeOK', NEW item \in QueuedBy(now), Enqueue(item)
    PROVE  /\ BufferTypes'
           /\ \A e : Both(e)' = Both(e) + IF item.event = e THEN 1 ELSE 0
<1> DEFINE A == QueuedBy(now)
           B == DrainedBy(now)
           basis == TailBasis'
           reset == /\ queue # <<>>
                    /\ TickOf(Last(queue)) - TickOf(item) > ResetThreshold
           old == OldEpochTick(TickOf(item))'
           kept == IF reset THEN <<>> ELSE queue
           P == {i \in DOMAIN kept : TickOf(kept[i]) <= TickOf(item)}
<1>1. now \in Nat /\ queue \in Seq(A) /\ draining \in Seq(B) /\ item \in A
  BY DEF Types, BufferTypes
<1>2. basis \in Basis
  BY BasisType DEF SyncTypeOK, TailBasis, Basis
<1>3. (now \in Nat)' /\ QueuedBy(now)' = A /\ DrainedBy(now)' = B
  BY <1>1 DEF QueuedBy, DrainedBy
<1>4. kept \in Seq(A) /\ <<item>> \in Seq(A) /\ <<>> \in Seq(A)
  BY <1>1
<1>5. ASSUME NEW items \in Seq(A)
      PROVE  /\ WithTail(draining, items, basis) \in Seq(B)
             /\ \A e : Copies(e, WithTail(draining, items, basis)) =
                        Copies(e, draining) + Copies(e, items)
  <2> HIDE DEF basis
  <2> QED
    BY <1>1, <1>2, TailTypes
<1>6. \A e : /\ Copies(e, draining) \in Nat /\ Copies(e, queue) \in Nat
             /\ Copies(e, <<>>) = 0
             /\ Copies(e, <<item>>) = IF item.event = e THEN 1 ELSE 0
  <2>1. BufferTypes
    BY DEF Types
  <2> QED
    BY <2>1, WaitingIsBoth, CopiesInNone, CopiesInOne
<1>7. CASE old
  <2>1. draining' = WithTail(draining, <<item>>, basis) /\ queue' = queue
    BY <1>7 DEF Enqueue
  <2>2. BufferTypes'
    BY <1>1, <1>3, <1>4, <1>5, <2>1 DEF BufferTypes
  <2>3. ASSUME NEW e PROVE Both(e)' = Both(e) + IF item.event = e THEN 1 ELSE 0
    <3> DEFINE one == IF item.event = e THEN 1 ELSE 0
    <3>1. Copies(e, draining)' = Copies(e, draining) + Copies(e, <<item>>)
      BY <1>4, <1>5, <2>1
    <3>2. Copies(e, queue)' = Copies(e, queue)
      BY <2>1
    <3>3. Copies(e, <<item>>) = one /\ one \in Nat
      BY <1>6
    <3> HIDE DEF one
    <3>4. Both(e)' = Both(e) + one
      BY <1>6, <3>1, <3>2, <3>3 DEF Both
    <3> QED
      BY <3>4 DEF one
  <2> QED
    BY <2>2, <2>3
<1>8. CASE ~old
  <2>1. /\ draining' = IF reset THEN WithTail(draining, queue, basis) ELSE draining
        /\ queue' = Inserted(kept, item, P)
    BY <1>8 DEF Enqueue, InsertedByTick
  <2>2. P \subseteq DOMAIN kept
    OBVIOUS
  <2>3. /\ queue' \in Seq(A)
        /\ \A e : Copies(e, queue)' = Copies(e, kept) + IF item.event = e THEN 1 ELSE 0
    <3> HIDE DEF kept, P
    <3>1. /\ Inserted(kept, item, P) \in Seq(A)
          /\ \A e : Copies(e, Inserted(kept, item, P)) =
                     Copies(e, kept) + IF item.event = e THEN 1 ELSE 0
      <4> HIDE DEF A
      <4> QED
        BY <1>1, <1>4, <2>2, Insertion
    <3> QED
      BY <2>1, <3>1
  <2>4. BufferTypes'
    BY <1>1, <1>3, <1>5, <2>1, <2>3 DEF BufferTypes
  <2>5. ASSUME NEW e PROVE Both(e)' = Both(e) + IF item.event = e THEN 1 ELSE 0
    <3> DEFINE one == IF item.event = e THEN 1 ELSE 0
    <3>1. one \in Nat /\ Copies(e, queue)' = Copies(e, kept) + one
      BY <2>3
    <3>2. CASE reset
      <4>1. Copies(e, draining)' = Copies(e, draining) + Copies(e, queue)
        BY <1>1, <1>5, <2>1, <3>2
      <4>2. Copies(e, kept) = 0
        BY <1>6, <3>2
      <4> HIDE DEF one, kept
      <4>3. Both(e)' = Both(e) + one
        BY <1>6, <3>1, <4>1, <4>2 DEF Both
      <4> QED
        BY <4>3 DEF one
    <3>3. CASE ~reset
      <4>1. draining' = draining /\ kept = queue
        BY <2>1, <3>3
      <4> HIDE DEF one, kept
      <4>2. Both(e)' = Both(e) + one
        BY <1>6, <3>1, <4>1 DEF Both
      <4> QED
        BY <4>2 DEF one
    <3> QED
      BY <3>2, <3>3
  <2> QED
    BY <2>4, <2>5
<1> QED
  BY <1>7, <1>8

LEMMA RescueKeeps ==
    ASSUME Types, UNCHANGED now, SyncTypeOK', ReleaseStranded
    PROVE  BufferTypes' /\ \A e : Both(e)' = Both(e)
<1> DEFINE A == QueuedBy(now)
           B == DrainedBy(now)
           basis == TailBasis'
           old == At(queue, Stranded)
           kept == At(queue, DOMAIN queue \ Stranded)
<1>1. now \in Nat /\ queue \in Seq(A) /\ draining \in Seq(B) /\ BufferTypes
  BY DEF Types, BufferTypes
<1>2. basis \in Basis
  BY BasisType DEF SyncTypeOK, TailBasis, Basis
<1>3. QueuedBy(now)' = A /\ DrainedBy(now)' = B
  BY DEF QueuedBy, DrainedBy
<1>4. Stranded \subseteq DOMAIN queue
  BY DEF Stranded
<1>5. /\ old \in Seq(A) /\ kept \in Seq(A)
      /\ \A e : Copies(e, old) + Copies(e, kept) = Copies(e, queue)
  <2> HIDE DEF A
  <2> QED
    BY <1>1, <1>4, SelectionSplits
<1> HIDE DEF old, kept
<1>6. /\ WithTail(draining, old, basis) \in Seq(B)
      /\ \A e : Copies(e, WithTail(draining, old, basis)) =
                 Copies(e, draining) + Copies(e, old)
  <2> HIDE DEF basis
  <2> QED
    BY <1>1, <1>2, <1>5, TailTypes
<1>7. CASE clock'.online /\ ~clock'.lastError
  <2>1. draining' = WithTail(draining, old, basis) /\ queue' = kept
    BY <1>7 DEF ReleaseStranded, old, kept
  <2>2. BufferTypes'
    BY <1>3, <1>5, <1>6, <2>1 DEF BufferTypes
  <2>3. ASSUME NEW e PROVE Both(e)' = Both(e)
    <3>1. Copies(e, draining) \in Nat /\ Copies(e, old) \in Nat /\ Copies(e, kept) \in Nat
      BY <1>1, <1>5, PlacesFinite
    <3>2. Copies(e, draining)' = Copies(e, draining) + Copies(e, old)
      BY <1>6, <2>1
    <3>3. Copies(e, queue)' = Copies(e, kept)
      BY <2>1
    <3> QED
      BY <1>5, <3>1, <3>2, <3>3 DEF Both
  <2> QED
    BY <2>2, <2>3
<1>8. CASE ~(clock'.online /\ ~clock'.lastError)
  <2>1. queue' = queue /\ draining' = draining
    BY <1>8 DEF ReleaseStranded, bufferVars
  <2> QED
    BY <1>1, <1>3, <2>1 DEF BufferTypes, Both
<1> QED
  BY <1>7, <1>8

LEMMA DueFits ==
    ASSUME BufferTypes
    PROVE  DrainDue \in 0 .. Len(draining) /\ QueueDue \in 0 .. Len(queue)
<1>1. queue \in Seq(Queued) /\ draining \in Seq(InDrain)
  BY WaitingTypes
<1>2. DrainDue \in 0 .. Len(draining)
  BY <1>1, LeadingStops DEF DrainDue
<1>3. Leading(queue, {i \in DOMAIN queue : Reached(queue[i])}) \in 0 .. Len(queue)
  BY <1>1, LeadingStops
<1>4. Len(queue) \in Nat
  BY <1>1, LenProperties
<1> QED
  BY <1>2, <1>3, <1>4 DEF QueueDue

LEMMA TickKeeps ==
    ASSUME Types, UNCHANGED now, DriverTick
    PROVE  /\ BufferTypes'
           /\ \A e : Both(e)' = Both(e) - Copies(e, Due)
<1> DEFINE A == QueuedBy(now)
           B == DrainedBy(now)
           k == DrainDue
           n == QueueDue
           fired == SubSeq(draining, 1, k)
           reached == SubSeq(queue, 1, n)
           rest == SubSeq(draining, k + 1, Len(draining))
           later == SubSeq(queue, n + 1, Len(queue))
<1>1. /\ queue \in Seq(A) /\ draining \in Seq(B) /\ BufferTypes
      /\ QueuedBy(now)' = A /\ DrainedBy(now)' = B
  BY DEF Types, BufferTypes, QueuedBy, DrainedBy
<1>2. k \in 0 .. Len(draining) /\ n \in 0 .. Len(queue)
  BY <1>1, DueFits
<1>3. draining' = rest /\ queue' = later /\ Due = fired \o reached
  BY DEF DriverTick, Due
<1> HIDE DEF k, n
<1>4. /\ fired \in Seq(B) /\ rest \in Seq(B) /\ reached \in Seq(A) /\ later \in Seq(A)
  BY <1>1, <1>2, Halves
<1>5. BufferTypes'
  BY <1>1, <1>3, <1>4 DEF BufferTypes
<1>6. ASSUME NEW e PROVE Both(e)' = Both(e) - Copies(e, Due)
  <2>1. Copies(e, draining) = Copies(e, fired) + Copies(e, rest)
    BY <1>1, <1>2, CopiesInHalves
  <2>2. Copies(e, queue) = Copies(e, reached) + Copies(e, later)
    BY <1>1, <1>2, CopiesInHalves
  <2> HIDE DEF fired, rest, reached, later
  <2>3. fired \in Seq(A \cup B) /\ reached \in Seq(A \cup B)
    BY <1>4, SeqMonotonic
  <2>4. Copies(e, fired \o reached) = Copies(e, fired) + Copies(e, reached)
    BY <2>3, CopiesInBoth
  <2>5. /\ Copies(e, fired) \in Nat /\ Copies(e, rest) \in Nat
        /\ Copies(e, reached) \in Nat /\ Copies(e, later) \in Nat
    BY <1>4, PlacesFinite
  <2>6. Copies(e, draining)' = Copies(e, rest) /\ Copies(e, queue)' = Copies(e, later)
    BY <1>3
  <2>7. Copies(e, Due) = Copies(e, fired) + Copies(e, reached)
    BY <1>3, <2>4
  <2> QED
    BY <2>1, <2>2, <2>5, <2>6, <2>7 DEF Both
<1> QED
  BY <1>5, <1>6

-----------------------------------------------------------------------------
(* Each step of the path.                                                  *)

\* A step takes in what leaves the network, or fires what is due.
TakesOrFires ==
    \/ \A e : Both(e)' = Both(e) + IF e \in transit \ transit' THEN 1 ELSE 0
    \/ /\ UNCHANGED transit
       /\ \A e : Both(e)' = Both(e) - Copies(e, Due)

\* A step that touches neither the queues nor what is under way to them.
LEMMA QuietStep ==
    ASSUME Types, UNCHANGED bufferVars, now <= now', transit \subseteq transit',
           now' \in Nat, SyncTypeOK', EnvironmentTypes'
    PROVE  Types' /\ TakesOrFires
<1>1. queue \in Seq(QueuedBy(now)) /\ draining \in Seq(DrainedBy(now)) /\ now \in Nat
  BY DEF Types, BufferTypes
<1>2. QueuedBy(now) \subseteq QueuedBy(now)' /\ DrainedBy(now) \subseteq DrainedBy(now)'
  BY <1>1 DEF QueuedBy, DrainedBy, Queued, InDrain
<1>3. BufferTypes'
  BY <1>1, <1>2, SeqMonotonic DEF BufferTypes, bufferVars
<1>4. BufferTypes
  BY DEF Types
<1>5. ASSUME NEW e PROVE Both(e)' = Both(e) + IF e \in transit \ transit' THEN 1 ELSE 0
  <2>1. e \notin transit \ transit'
    OBVIOUS
  <2>2. Both(e)' = Both(e)
    BY DEF Both, bufferVars
  <2>3. Both(e) \in Int
    BY <1>4, WaitingIsBoth DEF Both
  <2> QED
    BY <2>1, <2>2, <2>3
<1> QED
  BY <1>3, <1>5 DEF Types, TakesOrFires

LEMMA RescueStep ==
    ASSUME Types, UNCHANGED now, UNCHANGED envVars, SyncTypeOK', ReleaseStranded
    PROVE  Types' /\ TakesOrFires
<1>1. BufferTypes' /\ \A e : Both(e)' = Both(e)
  BY RescueKeeps
<1>2. BufferTypes
  BY DEF Types
<1>3. ASSUME NEW e PROVE Both(e)' = Both(e) + IF e \in transit \ transit' THEN 1 ELSE 0
  <2>1. e \notin transit \ transit'
    BY DEF envVars
  <2>2. Both(e) \in Int
    BY <1>2, WaitingIsBoth DEF Both
  <2> QED
    BY <1>1, <2>1, <2>2
<1> QED
  BY <1>1, <1>3 DEF Types, EnvironmentTypes, envVars, TakesOrFires

LEMMA InitTypes == Init => Types
<1> SUFFICES ASSUME Init PROVE Types
  OBVIOUS
<1>1. SyncTypeOK
  BY DEF Init, SyncInit, SyncTypeOK
<1>2. BufferTypes
  BY EmptySeq DEF Init, BufferInit, BufferTypes
<1>3. EnvironmentTypes
  BY ReleaseAssumption DEF Init, EnvironmentTypes
<1> QED
  BY <1>1, <1>2, <1>3 DEF Init, Types

LEMMA StepKeeps ==
    ASSUME Types, Next
    PROVE  Types' /\ TakesOrFires
<1>1. /\ now \in Nat /\ SyncTypeOK /\ BufferTypes /\ EnvironmentTypes
      /\ level.number \in Nat /\ level.map \in Map /\ level.since \in Int
      /\ sent \in Nat /\ lastBeat \in Nat /\ transit \subseteq Event
  BY DEF Types, EnvironmentTypes
<1>2. ASSUME UNCHANGED syncVars PROVE SyncTypeOK'
  BY <1>1, <1>2 DEF SyncTypeOK, syncVars
<1>3. ASSUME UNCHANGED envVars PROVE EnvironmentTypes'
  BY <1>1, <1>3 DEF EnvironmentTypes, envVars
<1>4. ASSUME NEW board \in BoardFlag, Produce(board) PROVE Types' /\ TakesOrFires
  <2>1. board \in BOOLEAN /\ GameTime \in Int
    BY <1>1, ReleaseAssumption DEF GameTime
  <2> DEFINE new == [tick |-> GameTime, map |-> level.map, board |-> board,
                     level |-> level.number, made |-> now]
  <2>2. new \in Event
    BY <1>1, <2>1 DEF Event
  <2>3. /\ transit' = transit \cup {new} /\ sent' = sent + 1
        /\ UNCHANGED <<now, syncVars, bufferVars, level, lastBeat>>
    BY <1>4 DEF Produce
  <2> HIDE DEF new
  <2>4. EnvironmentTypes'
    BY <1>1, <2>2, <2>3 DEF EnvironmentTypes
  <2>5. SyncTypeOK' /\ UNCHANGED bufferVars /\ now' = now
    BY <1>2, <2>3
  <2> QED
    BY <1>1, <2>3, <2>4, <2>5, QuietStep
<1>5. ASSUME NEW map \in Map, Reload(map) PROVE Types' /\ TakesOrFires
  <2>1. /\ level' = [number |-> level.number + 1, map |-> map, since |-> now]
        /\ UNCHANGED <<now, syncVars, bufferVars, transit, sent, lastBeat>>
    BY <1>5 DEF Reload
  <2>2. EnvironmentTypes'
    BY <1>1, <2>1 DEF EnvironmentTypes
  <2>3. SyncTypeOK' /\ UNCHANGED bufferVars /\ now' = now
    BY <1>2, <2>1
  <2> QED
    BY <1>1, <2>1, <2>2, <2>3, QuietStep
<1>6. ASSUME Answer PROVE Types' /\ TakesOrFires
  <2> DEFINE status == [activeTime |-> GameTime, delay |-> Delay, map |-> level.map]
  <2>1. status \in Status
    BY <1>1, ReleaseAssumption DEF GameTime, Status
  <2>2. StatusRead(status) /\ UNCHANGED <<now, bufferVars, envVars>>
    BY <1>6 DEF Answer
  <2> HIDE DEF status
  <2>3. SyncTypeOK'
    BY <1>1, <2>1, <2>2, AnswerKeepsTypes
  <2>4. UNCHANGED bufferVars /\ now' = now /\ transit' = transit /\ EnvironmentTypes'
    BY <1>3, <2>2 DEF envVars
  <2> QED
    BY <1>1, <2>3, <2>4, QuietStep
<1>7. ASSUME NEW e \in transit, Ingest(e) PROVE Types' /\ TakesOrFires
  <2> DEFINE item == [event |-> e, enqueuedAt |-> now]
  <2>1. /\ e \in Event /\ transit' = transit \ {e} /\ OnIngestEvent(e) /\ now' = now
        /\ Enqueue(item) /\ UNCHANGED <<level, sent, lastBeat>>
    BY <1>1, <1>7 DEF Ingest
  <2>2. SyncTypeOK'
    BY <1>1, <2>1, EventKeepsTypes
  <2>3. item \in QueuedBy(now) /\ item.event = e
    BY <1>1, <2>1 DEF QueuedBy, Queued
  <2> HIDE DEF item
  <2>4. BufferTypes' /\ \A f : Both(f)' = Both(f) + IF item.event = f THEN 1 ELSE 0
    BY <2>1, <2>2, <2>3, EnqueueKeeps
  <2>5. EnvironmentTypes'
    BY <1>1, <2>1 DEF EnvironmentTypes
  <2>6. \A f : item.event = f <=> f \in transit \ transit'
    BY <1>7, <2>1, <2>3
  <2>7. \A f : Both(f)' = Both(f) + IF f \in transit \ transit' THEN 1 ELSE 0
    BY <2>4, <2>6
  <2> QED
    BY <1>1, <2>1, <2>2, <2>4, <2>5, <2>7 DEF Types, TakesOrFires
<1>8. ASSUME Beat PROVE Types' /\ TakesOrFires
  <2>1. /\ lastBeat' = now /\ Heartbeat
        /\ UNCHANGED <<now, bufferVars, level, transit, sent>>
    BY <1>8 DEF Beat
  <2>2. SyncTypeOK'
    BY <1>1, <1>2, <2>1, RequestKeepsTypes DEF Heartbeat
  <2>3. EnvironmentTypes'
    BY <1>1, <2>1 DEF EnvironmentTypes
  <2>4. UNCHANGED bufferVars /\ now' = now /\ transit' = transit
    BY <2>1
  <2> QED
    BY <1>1, <2>2, <2>3, <2>4, QuietStep
<1>9. ASSUME Resample PROVE Types' /\ TakesOrFires
  <2>1. RequestSample /\ UNCHANGED <<now, bufferVars, envVars>>
    BY <1>9 DEF Resample
  <2>2. UNCHANGED bufferVars /\ now' = now /\ transit' = transit /\ EnvironmentTypes'
    BY <1>3, <2>1 DEF envVars
  <2>3. SyncTypeOK'
    BY <1>1, <2>1, RequestKeepsTypes
  <2> QED
    BY <1>1, <2>2, <2>3, QuietStep
<1>10. ASSUME Sampled \/ SampleFailed PROVE Types' /\ TakesOrFires
  <2>1. /\ SampleSucceeds \/ SampleFails
        /\ UNCHANGED now /\ ReleaseStranded /\ UNCHANGED envVars
    BY <1>10 DEF Sampled, SampleFailed
  <2>2. SyncTypeOK'
    BY <1>1, <2>1, SampleKeepsTypes
  <2> QED
    BY <2>1, <2>2, RescueStep
<1>11. ASSUME NEW offset \in Offset, Calibrate(offset) PROVE Types' /\ TakesOrFires
  <2>1. /\ SetCalibrationOffset(offset)
        /\ UNCHANGED now /\ ReleaseStranded /\ UNCHANGED envVars
    BY <1>11 DEF Calibrate
  <2>2. SyncTypeOK'
    BY <1>1, <2>1, OffsetKeepsTypes
  <2> QED
    BY <2>1, <2>2, RescueStep
<1>12. ASSUME Drive PROVE Types' /\ TakesOrFires
  <2>1. DriverTick /\ UNCHANGED syncVars /\ UNCHANGED now /\ UNCHANGED envVars
    BY <1>12 DEF Drive, DriverTick
  <2>2. BufferTypes' /\ \A e : Both(e)' = Both(e) - Copies(e, Due)
    BY <2>1, TickKeeps
  <2>3. SyncTypeOK' /\ EnvironmentTypes' /\ transit' = transit
    BY <1>2, <1>3, <2>1 DEF envVars
  <2> QED
    BY <1>1, <2>1, <2>2, <2>3 DEF Types, TakesOrFires
<1>13. ASSUME Tick PROVE Types' /\ TakesOrFires
  <2>1. now' = now + 1 /\ UNCHANGED <<syncVars, bufferVars, envVars>>
    BY <1>13 DEF Tick
  <2>2. now' \in Nat /\ now <= now' /\ transit' = transit /\ UNCHANGED bufferVars
    BY <1>1, <2>1 DEF envVars
  <2>3. SyncTypeOK' /\ EnvironmentTypes'
    BY <1>2, <1>3, <2>1
  <2> QED
    BY <1>1, <2>2, <2>3, QuietStep
<1> QED
  BY <1>4, <1>5, <1>6, <1>7, <1>8, <1>9, <1>10, <1>11, <1>12, <1>13 DEF Next

LEMMA StutterKeepsTypes == Types /\ UNCHANGED vars => Types'
BY DEF Types, SyncTypeOK, BufferTypes, EnvironmentTypes, QueuedBy, DrainedBy,
       vars, syncVars, bufferVars, envVars

LEMMA TypesInv == Spec => []Types
<1>1. Types /\ [Next]_vars => Types'
  BY StepKeeps, StutterKeepsTypes
<1> QED
  BY InitTypes, <1>1, PTL DEF Spec

\* Whatever the network, the proxy and the casters do, the service and the
\* buffer keep their types: no clock, boundary or basis is half filled, and
\* what waits was enqueued in the past and, in the drain, has its time.
THEOREM TypeCorrect == Spec => []TypeOK
<1>1. Types => TypeOK
  <2> SUFFICES ASSUME Types PROVE TypeOK
    OBVIOUS
  <2> DEFINE X == QueuedBy(now) \cup DrainedBy(now)
  <2>1. /\ now \in Nat /\ SyncTypeOK
        /\ queue \in Seq(QueuedBy(now)) /\ draining \in Seq(DrainedBy(now))
    BY DEF Types, BufferTypes
  <2>2. \A x \in X : x.enqueuedAt \in 0 .. now
    BY <2>1 DEF QueuedBy, DrainedBy, Queued, InDrain
  <2>3. Waiting \in Seq(X)
    <3> HIDE DEF X
    <3>1. queue \in Seq(X) /\ draining \in Seq(X)
      BY <2>1, SeqMonotonic DEF X
    <3> QED
      BY <3>1, ConcatProperties DEF Waiting
  <2> HIDE DEF X
  <2>4. \A i \in DOMAIN Waiting : Waiting[i].enqueuedAt \in 0 .. now
    BY <2>2, <2>3, LenProperties, ElementOfSeq
  <2>5. \A i \in DOMAIN draining : draining[i].releaseAt \in Int
    <3>1. \A x \in DrainedBy(now) : x.releaseAt \in Int
      BY DEF DrainedBy, InDrain
    <3> QED
      BY <2>1, <3>1, LenProperties, ElementOfSeq
  <2> QED
    BY <2>1, <2>4, <2>5 DEF TypeOK
<1> QED
  BY TypesInv, <1>1, PTL

\* An event waits once from when the ingest route took it in until it is
\* fired, through resets, rescues, stragglers and the order of the queues:
\* nothing is lost and nothing is doubled, whatever the environment does.
THEOREM NothingIsLost == Spec => NothingLost
<1> DEFINE Fair == \/ \A e \in Events \cup Events' : Copies(e, Waiting') =
                        Copies(e, Waiting) + IF e \in transit \ transit' THEN 1 ELSE 0
                   \/ /\ UNCHANGED transit
                      /\ \A e \in Events : Copies(e, Waiting') =
                                             Copies(e, Waiting) - Copies(e, Due)
<1>1. ASSUME Types, Next PROVE Fair
  <2>1. Types' /\ TakesOrFires
    BY <1>1, StepKeeps
  <2>2. BufferTypes /\ BufferTypes'
    BY <1>1, <2>1 DEF Types
  <2>3. \A e : Copies(e, Waiting) = Both(e)
    BY <2>2, WaitingIsBoth
  <2>4. \A e : Copies(e, Waiting') = Both(e)'
    <3>1. /\ queue' \in Seq(Queued \cup InDrain)
          /\ draining' \in Seq(Queued \cup InDrain)
      BY <2>2, SeqMonotonic DEF BufferTypes, QueuedBy, DrainedBy
    <3>2. \A e : Copies(e, draining' \o queue') = Copies(e, draining') + Copies(e, queue')
      BY <3>1, CopiesInBoth
    <3>3. \A e : Both(e)' = Copies(e, draining') + Copies(e, queue')
      BY DEF Both, Copies
    <3> QED
      BY <3>2, <3>3 DEF Waiting
  <2> QED
    BY <2>1, <2>3, <2>4 DEF TakesOrFires
<1>2. Types /\ [Next]_vars => [Fair]_vars
  BY <1>1
<1> QED
  BY TypesInv, <1>2, PTL DEF Spec, NothingLost
=============================================================================

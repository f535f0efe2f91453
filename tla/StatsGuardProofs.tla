-------------------------- MODULE StatsGuardProofs ---------------------------
(***************************************************************************)
(* Proofs about StatsGuard for any number of requests, addresses and keys  *)
(* and any thresholds, windows and caps: what a half-open breaker and the  *)
(* concurrency cap keep from the database, and how much of an address the  *)
(* rate limit lets through.                                                *)
(***************************************************************************)
EXTENDS StatsGuard, FoldFacts

-----------------------------------------------------------------------------
(* The cap bounds a counter, and a probe is let through without asking the *)
(* cap or looking for other queries. Both are safe because the breaker     *)
(* outlasts every query that was under way when it tripped, which is what  *)
(* StragglersAge says, and because the flag knows of every probe.          *)

InTime == \A c \in Running : call[c].age <= MaxCall
StragglersAge == state = "open" => \A c \in Running : call[c].age >= openAge
ProbeAlone ==
    state = "half-open" => \A c, d \in Running : c = d /\ call[c].probe
FlagKnows == \A c \in Running : call[c].probe => state = "half-open" /\ probeInFlight
Counter == inFlight = Cardinality(Running) /\ inFlight <= MaxConcurrent

Inv == TypeOK /\ InTime /\ StragglersAge /\ ProbeAlone /\ FlagKnows /\ Counter

-----------------------------------------------------------------------------
(* The set of running queries, as it grows and shrinks.                    *)

LEMMA RunningFinite == IsFiniteSet(Running) /\ Cardinality(Running) \in Nat
BY GuardAssumption, FS_Subset, FS_CardinalityType DEF Running

\* A query that begins is one more.
LEMMA OneMore ==
    ASSUME TypeOK, NEW c \in Caller, call[c] = Null,
           NEW q \in Call, call' = [call EXCEPT ![c] = q]
    PROVE  /\ Running' = Running \cup {c}
           /\ Cardinality(Running') = Cardinality(Running) + 1
<1>1. Running' = Running \cup {c}
  BY SentinelAssumption DEF TypeOK, Running
<1>2. c \notin Running
  BY DEF Running
<1> QED
  BY <1>1, <1>2, RunningFinite, FS_AddElement

\* A query that ends is one less.
LEMMA OneLess ==
    ASSUME TypeOK, NEW c \in Caller, call[c] # Null,
           call' = [call EXCEPT ![c] = Null]
    PROVE  /\ Running' = Running \ {c}
           /\ Cardinality(Running') = Cardinality(Running) - 1
<1>1. Running' = Running \ {c}
  BY DEF TypeOK, Running
<1>2. c \in Running
  BY DEF Running
<1> QED
  BY <1>1, <1>2, RunningFinite, FS_RemoveElement

\* Nobody is left behind a breaker that is about to half-open, and nobody
\* runs in a half-open one whose flag is down.
LEMMA NobodyBeforeProbe ==
    ASSUME Inv, StateSeen = "half-open", ~ProbeSeen
    PROVE  Running = {}
<1>1. CASE Ripe
  <2> SUFFICES ASSUME NEW c \in Running PROVE FALSE
    OBVIOUS
  <2>1. /\ call[c].age >= openAge /\ call[c].age <= MaxCall
        /\ openAge >= OpenFor /\ call[c].age \in Nat
    BY <1>1 DEF Inv, InTime, StragglersAge, Ripe, Running, TypeOK, Call
  <2> QED
    BY <2>1, GuardAssumption DEF Inv, TypeOK
<1>2. CASE ~Ripe
  BY <1>2 DEF StateSeen, ProbeSeen, Inv, ProbeAlone, FlagKnows
<1> QED
  BY <1>1, <1>2

-----------------------------------------------------------------------------
(* Types, helper by helper.                                                *)

LEMMA CountHitType ==
    ASSUME TypeOK, NEW i \in Ip, Allowed(i), CountHit(i)
    PROVE  (hits \in [Ip -> [count : 0 .. RateLimit, left : 0 .. RateWindow]])'
           /\ (admitted \in [Ip -> [Age -> Nat]])'
<1> USE GuardAssumption
<1>1. hits[i].count \in 0 .. RateLimit /\ hits[i].left \in 0 .. RateWindow
  BY DEF TypeOK
<1> DEFINE entry == IF hits[i].left = 0 THEN [count |-> 1, left |-> RateWindow]
                    ELSE [hits[i] EXCEPT !.count = @ + 1]
           Entry == [count : 0 .. RateLimit, left : 0 .. RateWindow]
<1>2. entry \in Entry
  <2>1. CASE hits[i].left = 0
    BY <2>1
  <2>2. CASE hits[i].left # 0
    BY <1>1, <2>2 DEF TypeOK, Allowed
  <2> QED
    BY <2>1, <2>2
<1>3. hits' = [hits EXCEPT ![i] = entry] /\ hits \in [Ip -> Entry]
  BY DEF TypeOK, CountHit
<1>4. hits' \in [Ip -> Entry]
  <2> HIDE DEF entry, Entry
  <2> QED BY <1>2, <1>3
<1>5. 0 \in Age
  BY DEF Age
<1>6. (admitted \in [Ip -> [Age -> Nat]])'
  BY <1>5 DEF TypeOK, CountHit
<1> QED
  BY <1>4, <1>6

LEMMA RecordType ==
    ASSUME TypeOK, RecordSuccess \/ RecordFailure
    PROVE  /\ state' \in {"closed", "open", "half-open"}
           /\ failures' \in 0 .. FailureThreshold - 1
           /\ openAge' \in 0 .. OpenFor
BY GuardAssumption DEF TypeOK, RecordSuccess, RecordFailure

LEMMA SetCachedType ==
    ASSUME TypeOK, NEW k \in Key, SetCached(k)
    PROVE  (cache \in [Key -> 0 .. Ttl + 1 \cup {Null}])'
<1>1. 0 \in 0 .. Ttl + 1
  BY GuardAssumption
<1> QED
  BY <1>1 DEF TypeOK, SetCached, Entries


-----------------------------------------------------------------------------
(* Every step keeps the invariant.                                         *)

LEMMA InitInv == Init => Inv
<1> SUFFICES ASSUME Init PROVE Inv
  OBVIOUS
<1> USE GuardAssumption
<1>1. TypeOK
  <2>1. failures \in 0 .. FailureThreshold - 1 /\ openAge \in 0 .. OpenFor /\ inFlight \in Nat
    BY DEF Init
  <2>2. hits \in [Ip -> [count : 0 .. RateLimit, left : 0 .. RateWindow]]
    <3>1. [count |-> 0, left |-> 0] \in [count : 0 .. RateLimit, left : 0 .. RateWindow]
      OBVIOUS
    <3> QED
      BY <3>1 DEF Init
  <2>3. admitted \in [Ip -> [Age -> Nat]]
    BY DEF Init
  <2> QED
    BY <2>1, <2>2, <2>3 DEF Init, TypeOK
<1>2. Running = {}
  BY DEF Init, Running
<1>3. Cardinality(Running) = 0
  BY <1>2, FS_EmptySet
<1> QED
  BY <1>1, <1>2, <1>3
     DEF Init, Inv, InTime, StragglersAge, ProbeAlone, FlagKnows, Counter

\* Steps that leave the breaker and the queries alone.
LEMMA StillInv ==
    ASSUME Inv, TypeOK', UNCHANGED <<breaker, inFlight, call>>
    PROVE  Inv'
<1>1. UNCHANGED Running
  BY DEF Running
<1> QED
  BY <1>1 DEF Inv, InTime, StragglersAge, ProbeAlone, FlagKnows, Counter, breaker

LEMMA CacheHitInv ==
    ASSUME Inv, NEW i \in Ip, NEW k \in Key, CacheHit(i, k)
    PROVE  Inv'
<1>1. TypeOK'
  BY CountHitType DEF Inv, TypeOK, CacheHit, breaker
<1> QED
  BY <1>1, StillInv DEF CacheHit

\* getState alone: the queries that are left, if any, are no stragglers.
LEMMA SeeInv ==
    ASSUME Inv, TypeOK', See, UNCHANGED <<inFlight, call>>
    PROVE  Inv'
<1>1. CASE Ripe
  <2>1. StateSeen = "half-open" /\ ~ProbeSeen
    BY <1>1 DEF StateSeen, ProbeSeen
  <2>2. Running = {} /\ Running' = {}
    BY <2>1, NobodyBeforeProbe DEF Running
  <2> QED
    BY <2>2 DEF Inv, InTime, StragglersAge, ProbeAlone, FlagKnows, Counter
<1>2. CASE ~Ripe
  <2>1. UNCHANGED <<breaker, inFlight, call>>
    BY <1>2 DEF See, StateSeen, ProbeSeen, breaker, Inv, TypeOK
  <2> QED
    BY <2>1, StillInv
<1> QED
  BY <1>1, <1>2

LEMMA SeeType ==
    ASSUME TypeOK
    PROVE  StateSeen \in {"closed", "open", "half-open"} /\ ProbeSeen \in BOOLEAN
BY DEF TypeOK, StateSeen, ProbeSeen

LEMMA CacheMissType ==
    ASSUME TypeOK, NEW i \in Ip, NEW k \in Key, CacheMiss(i, k)
    PROVE  /\ (hits \in [Ip -> [count : 0 .. RateLimit, left : 0 .. RateWindow]])'
           /\ (admitted \in [Ip -> [Age -> Nat]])'
           /\ (cache \in [Key -> 0 .. Ttl + 1 \cup {Null}])'
<1>1. (cache \in [Key -> 0 .. Ttl + 1 \cup {Null}])'
  BY DEF TypeOK, CacheMiss
<1> QED
  BY <1>1, CountHitType DEF CacheMiss

LEMMA RefuseInv ==
    ASSUME Inv, NEW i \in Ip, NEW k \in Key, Refuse(i, k)
    PROVE  Inv'
<1>1. TypeOK'
  BY CacheMissType, SeeType DEF Inv, TypeOK, Refuse, See
<1> QED
  BY <1>1, SeeInv DEF Refuse

LEMMA SnapshotInv ==
    ASSUME Inv, Snapshot
    PROVE  Inv'
<1>1. TypeOK'
  BY SeeType DEF Inv, TypeOK, Snapshot, See
<1> QED
  BY <1>1, SeeInv DEF Snapshot

LEMMA BeginInv ==
    ASSUME Inv, NEW c \in Caller, NEW i \in Ip, NEW k \in Key, Begin(c, i, k)
    PROVE  Inv'
<1> USE GuardAssumption
<1> DEFINE q == [key |-> k, age |-> 0, probe |-> StateSeen = "half-open"]
<1>1. q \in Call
  BY DEF Call
<1>2. call' = [call EXCEPT ![c] = q] /\ call[c] = Null
  BY DEF Begin
<1>3. Running' = Running \cup {c} /\ Cardinality(Running') = Cardinality(Running) + 1
  BY <1>1, <1>2, OneMore DEF Inv
<1>4. TypeOK'
  <2>1. call' \in [Caller -> Call \cup {Null}]
    BY <1>1, <1>2 DEF Inv, TypeOK
  <2> QED
    BY <2>1, CacheMissType, SeeType DEF Inv, TypeOK, Begin
<1>5. call'[c] = q /\ \A d \in Running : d # c /\ call'[d] = call[d]
  BY <1>2 DEF Running, Inv, TypeOK
<1>6. q.age = 0 /\ (q.probe <=> StateSeen = "half-open")
  OBVIOUS
<1> HIDE DEF q
<1>7. /\ state' = StateSeen /\ probeInFlight' = (ProbeSeen \/ StateSeen = "half-open")
      /\ inFlight' = inFlight + 1 /\ openAge' = openAge /\ ~Shed
  BY DEF Begin
<1>8. CASE StateSeen = "half-open"
  <2>1. Running = {}
    BY <1>7, <1>8, NobodyBeforeProbe DEF Shed
  <2>2. Running' = {c} /\ Cardinality(Running) = 0
    BY <1>3, <2>1, FS_EmptySet
  <2>3. call'[c].age = 0 /\ call'[c].probe
    BY <1>5, <1>8, <1>6
  <2>4. Counter'
    BY <1>3, <1>7, <2>2 DEF Inv, Counter, TypeOK
  <2>5. InTime' /\ StragglersAge'
    BY <1>7, <1>8, <2>2, <2>3 DEF InTime, StragglersAge
  <2>6. ProbeAlone' /\ FlagKnows'
    BY <1>7, <1>8, <2>2, <2>3 DEF ProbeAlone, FlagKnows
  <2> QED
    BY <1>4, <2>4, <2>5, <2>6 DEF Inv
<1>9. CASE StateSeen # "half-open"
  <2>1. StateSeen = "closed" /\ state = "closed" /\ inFlight < MaxConcurrent
    BY <1>7, <1>9, SeeType DEF Shed, StateSeen, Inv, Counter, TypeOK
  <2>2. call'[c].age = 0 /\ ~call'[c].probe
    BY <1>5, <1>9, <1>6
  <2>3. \A d \in Running : ~call[d].probe
    BY <2>1 DEF Inv, FlagKnows
  <2>4. Counter'
    BY <1>3, <1>7, <2>1 DEF Inv, Counter, TypeOK
  <2> QED
    BY <1>3, <1>4, <1>5, <1>7, <2>1, <2>2, <2>3, <2>4
       DEF Inv, InTime, StragglersAge, ProbeAlone, FlagKnows
<1> QED
  BY <1>8, <1>9

-----------------------------------------------------------------------------
\* However a query ends, of a half-open breaker it was the probe, so nobody
\* is left; of any other, there was no probe.
LEMMA FinishInv ==
    ASSUME Inv, TypeOK', NEW c \in Caller, call[c] # Null,
           RecordSuccess \/ RecordFailure, Finish(c)
    PROVE  Inv'
<1>1. /\ Running' = Running \ {c} /\ c \in Running
      /\ Cardinality(Running') = Cardinality(Running) - 1
  BY OneLess DEF Inv, Finish, Running
<1>2. \A d \in Running' : d \in Running /\ call'[d] = call[d]
  BY <1>1 DEF Finish, Inv, TypeOK, Running
<1>3. InTime'
  BY <1>2 DEF Inv, InTime
<1>4. Counter'
  <2>1. inFlight' = inFlight - 1 /\ inFlight = Cardinality(Running)
    BY DEF Inv, Counter, Finish
  <2> QED
    BY <1>1, <2>1, GuardAssumption DEF Inv, Counter, TypeOK
<1>5. CASE state = "half-open"
  <2>1. Running' = {}
    BY <1>1, <1>5 DEF Inv, ProbeAlone
  <2> QED
    BY <1>3, <1>4, <2>1 DEF Inv, StragglersAge, ProbeAlone, FlagKnows
<1>6. CASE state # "half-open"
  <2>1. state' \in {"closed", "open"} /\ state' # "half-open"
    BY <1>6 DEF RecordSuccess, RecordFailure, Inv, TypeOK
  <2>2. \A d \in Running : ~call[d].probe
    BY <1>6 DEF Inv, FlagKnows
  <2>3. state' = "open" => openAge' = 0 \/ (state = "open" /\ openAge' = openAge)
    BY <1>6 DEF RecordSuccess, RecordFailure
  <2>4. \A d \in Running : call[d].age \in Nat
    BY DEF Inv, TypeOK, Running, Call
  <2>5. StragglersAge'
    BY <1>2, <2>3, <2>4 DEF Inv, StragglersAge
  <2> QED
    BY <1>2, <1>3, <1>4, <2>1, <2>2, <2>5 DEF Inv, ProbeAlone, FlagKnows
<1> QED
  BY <1>5, <1>6

LEMMA FinishType ==
    ASSUME Inv, NEW c \in Caller, call[c] # Null, Finish(c)
    PROVE  /\ probeInFlight' \in BOOLEAN /\ inFlight' \in Nat
           /\ call' \in [Caller -> Call \cup {Null}]
<1>1. call[c].probe \in BOOLEAN
  BY DEF Inv, TypeOK, Call
<1>2. Cardinality(Running') = Cardinality(Running) - 1
  BY OneLess DEF Inv, Finish
<1>3. Cardinality(Running') \in Nat
  <2>1. Running' \subseteq Caller
    BY DEF Running
  <2> QED
    BY <2>1, GuardAssumption, FS_Subset, FS_CardinalityType
<1> QED
  BY <1>1, <1>2, <1>3 DEF Inv, Counter, TypeOK, Finish

LEMMA AnswerInv ==
    ASSUME Inv, NEW c \in Caller, NEW found \in BOOLEAN, Answer(c, found)
    PROVE  Inv'
<1>1. RecordSuccess \/ RecordFailure
  BY DEF Answer
<1>2. call[c] # Null /\ Finish(c)
  BY DEF Answer
<1>3. call[c].key \in Key
  BY <1>2 DEF Inv, TypeOK, Call
<1>4. (cache \in [Key -> 0 .. Ttl + 1 \cup {Null}])'
  BY <1>3, SetCachedType DEF Answer, Inv, TypeOK
<1>5. TypeOK'
  BY <1>1, <1>2, <1>4, RecordType, FinishType DEF Answer, Inv, TypeOK
<1> QED
  BY <1>1, <1>2, <1>5, FinishInv

LEMMA FailInv ==
    ASSUME Inv, NEW c \in Caller, Fail(c)
    PROVE  Inv'
<1>1. TypeOK'
  BY RecordType, FinishType DEF Fail, Inv, TypeOK
<1> QED
  BY <1>1, FinishInv DEF Fail

-----------------------------------------------------------------------------
LEMMA HealInv ==
    ASSUME Inv, Heal
    PROVE  Inv'
<1>1. TypeOK'
  BY DEF Inv, TypeOK, Heal, breaker
<1> QED
  BY <1>1, StillInv DEF Heal

LEMMA TickType ==
    ASSUME Inv, Tick
    PROVE  TypeOK'
<1> USE GuardAssumption
<1>1. openAge' \in 0 .. OpenFor
  BY DEF Inv, TypeOK, Tick
<1>2. (hits \in [Ip -> [count : 0 .. RateLimit, left : 0 .. RateWindow]])'
  <2> DEFINE Entry == [count : 0 .. RateLimit, left : 0 .. RateWindow]
             Aged(i) == [hits[i] EXCEPT !.left = IF @ > 0 THEN @ - 1 ELSE 0]
  <2>1. \A i \in Ip : Aged(i) \in Entry
    BY DEF Inv, TypeOK
  <2>2. hits' = [i \in Ip |-> Aged(i)]
    BY DEF Tick
  <2> HIDE DEF Entry, Aged
  <2>3. hits' \in [Ip -> Entry]
    BY <2>1, <2>2
  <2> QED
    BY <2>3 DEF Entry
<1>3. (cache \in [Key -> 0 .. Ttl + 1 \cup {Null}])'
  BY DEF Inv, TypeOK, Tick
<1>4. (call \in [Caller -> Call \cup {Null}])'
  BY SMTT(30) DEF Inv, TypeOK, Tick, Call
<1>5. (admitted \in [Ip -> [Age -> Nat]])'
  <2>1. \A a \in Age : a # 0 => a - 1 \in Age
    BY DEF Age
  <2>2. \A i \in Ip, a \in Age : (IF a = 0 THEN 0 ELSE admitted[i][a - 1]) \in Nat
    BY <2>1 DEF Inv, TypeOK
  <2> QED
    BY <2>2 DEF Tick
<1> QED
  BY <1>1, <1>2, <1>3, <1>4, <1>5 DEF Inv, TypeOK, Tick

LEMMA TickInv ==
    ASSUME Inv, Tick
    PROVE  Inv'
<1> USE GuardAssumption
<1>1. Running' = Running
  <2>1. \A c \in Caller : call[c] # Null => call'[c] # Null
    <3> SUFFICES ASSUME NEW c \in Caller, call[c] # Null PROVE call'[c] # Null
      OBVIOUS
    <3>1. call'[c] = [call[c] EXCEPT !.age = @ + 1] /\ call[c] \in Call
      BY DEF Tick, Inv, TypeOK
    <3>2. call'[c] \in Call
      BY <3>1 DEF Call
    <3> QED
      BY <3>2, SentinelAssumption
  <2> QED
    BY <2>1 DEF Running, Tick
<1>2. \A c \in Running : /\ call'[c].age = call[c].age + 1
                         /\ call'[c].probe = call[c].probe
                         /\ call[c].age \in Nat /\ call[c].age < MaxCall
  BY DEF Running, Tick, Inv, TypeOK, Call
<1>3. openAge' \in {openAge, openAge + 1} /\ openAge \in Nat
  BY DEF Tick, Inv, TypeOK
<1>4. UNCHANGED <<state, probeInFlight, inFlight>>
  BY DEF Tick
<1>5. InTime'
  BY <1>1, <1>2 DEF InTime
<1>6. StragglersAge'
  BY <1>1, <1>2, <1>3, <1>4 DEF Inv, StragglersAge
<1>7. ProbeAlone' /\ FlagKnows'
  BY <1>1, <1>2, <1>4 DEF Inv, ProbeAlone, FlagKnows
<1>8. Counter'
  BY <1>1, <1>4 DEF Inv, Counter
<1> QED
  BY <1>5, <1>6, <1>7, <1>8, TickType DEF Inv

LEMMA NextInv == Inv /\ [Next]_vars => Inv'
<1> SUFFICES ASSUME Inv, [Next]_vars PROVE Inv'
  OBVIOUS
<1>1. CASE UNCHANGED vars
  <2>1. TypeOK'
    BY <1>1 DEF Inv, TypeOK, vars, breaker
  <2> QED
    BY <1>1, <2>1, StillInv DEF vars
<1>2. CASE Request
  BY <1>1, <1>2, CacheHitInv, RefuseInv, BeginInv DEF Request, RateLimited
<1>3. CASE \E c \in Caller : Answered(c)
  BY <1>3, AnswerInv, FailInv DEF Answered
<1> QED
  BY <1>1, <1>2, <1>3, SnapshotInv, HealInv, TickInv DEF Next

THEOREM Invariance == Spec => []Inv
BY InitInv, NextInv, PTL DEF Spec

-----------------------------------------------------------------------------
\* The state of the guard has its types; the consecutive failures it has
\* counted never reach the threshold.
THEOREM TypeCorrect == Spec => []TypeOK
BY Invariance, PTL DEF Inv

\* guard.ts:134-136: a half-open breaker lets one query at a time through to
\* the database, and there is no other left from before.
THEOREM OneProbeAtATime == Spec => []OneProbe
<1>1. Inv => OneProbe
  <2> SUFFICES ASSUME Inv, state = "half-open" PROVE Cardinality(Running) <= 1
    BY DEF OneProbe
  <2>1. CASE Running = {}
    BY <2>1, FS_EmptySet
  <2>2. CASE Running # {}
    <3>1. PICK c \in Running : TRUE
      BY <2>2
    <3>2. Running = {c}
      BY <3>1 DEF Inv, ProbeAlone
    <3> QED
      BY <3>2, FS_Singleton
  <2> QED
    BY <2>1, <2>2
<1> QED
  BY <1>1, Invariance, PTL

\* The cap holds whatever the breaker does, probes included.
THEOREM NeverOverTheCap == Spec => []Capped
<1>1. Inv => Capped
  BY DEF Inv, Counter, Capped
<1> QED
  BY <1>1, Invariance, PTL

-----------------------------------------------------------------------------
(* The rate limit. The code keeps one count and one deadline for an        *)
(* address; what it let through at each age is the history's. Of the last  *)
(* RateWindow instants, those since the window opened hold what the count  *)
(* says, and those before it lie in a single earlier window.               *)

\* What was admitted at the n youngest ages.
Recent(f, n) == SumFunctionOnSet(f, 0 .. n - 1)

Width(i) == RateWindow - hits[i].left + 1

WindowOver(i) == admitted[i][0] = 0 /\ Recent(admitted[i], RateWindow) <= RateLimit
WindowOpen(i) ==
    /\ Recent(admitted[i], Width(i)) = hits[i].count
    /\ Recent(admitted[i], RateWindow) - Recent(admitted[i], Width(i)) <= RateLimit

Windows == \A i \in Ip : IF hits[i].left = 0 THEN WindowOver(i) ELSE WindowOpen(i)

LEMMA RecentStep ==
    ASSUME NEW f, f \in [Age -> Nat]
    PROVE  /\ Recent(f, 0) = 0
           /\ \A n \in 0 .. RateWindow : Recent(f, n) \in Nat
           /\ \A n \in Age : f[n] \in Nat /\ Recent(f, n + 1) = Recent(f, n) + f[n]
<1>1. RateWindow \in Nat /\ f \in [0 .. RateWindow - 1 -> Nat]
  BY GuardAssumption DEF Age
<1>2. Recent(f, 0) = 0
  <2>1. 0 .. 0 - 1 = {} /\ IsFiniteSet(0 .. RateWindow - 1)
    BY <1>1, FS_Interval
  <2>2. {} \in SUBSET (0 .. RateWindow - 1)
    OBVIOUS
  <2>3. SumFunctionOnSet(f, {}) = 0
    BY <1>1, <2>1, <2>2, SumStep
  <2> QED
    BY <2>1, <2>3 DEF Recent
<1>3. \A n \in Age : f[n] \in Nat /\ (n + 1) - 1 = n
  BY DEF Age
<1>4. \A n \in Age : Recent(f, n) \in Nat /\ Recent(f, n + 1) = Recent(f, n) + f[n]
  <2> SUFFICES ASSUME NEW n \in Age
               PROVE  Recent(f, n) \in Nat /\ Recent(f, n + 1) = Recent(f, n) + f[n]
    OBVIOUS
  <2>1. /\ SumFunctionOnSet(f, 0 .. n - 1) \in Nat
        /\ SumFunctionOnSet(f, 0 .. n) = SumFunctionOnSet(f, 0 .. n - 1) + f[n]
    BY <1>1, SumUpto DEF Age
  <2>2. (n + 1) - 1 = n
    BY <1>3
  <2>3. SumFunctionOnSet(f, 0 .. (n + 1) - 1) = SumFunctionOnSet(f, 0 .. n)
    BY <2>2, Zenon
  <2>4. Recent(f, n + 1) = SumFunctionOnSet(f, 0 .. n)
    BY <2>3 DEF Recent
  <2>5. Recent(f, n) = SumFunctionOnSet(f, 0 .. n - 1)
    BY DEF Recent
  <2> QED
    BY <2>1, <2>4, <2>5
<1>5. \A n \in 0 .. RateWindow : Recent(f, n) \in Nat
  <2> SUFFICES ASSUME NEW n \in 0 .. RateWindow PROVE Recent(f, n) \in Nat
    OBVIOUS
  <2>1. CASE n \in Age
    BY <2>1, <1>4
  <2>2. CASE n # 0 /\ n \notin Age
    <3>1. n - 1 \in Age /\ n = (n - 1) + 1
      BY <2>2, <1>1 DEF Age
    <3>2. Recent(f, (n - 1) + 1) = Recent(f, n - 1) + f[n - 1]
      BY <3>1, <1>4
    <3>3. Recent(f, n - 1) \in Nat /\ f[n - 1] \in Nat
      BY <3>1, <1>3, <1>4
    <3> QED
      BY <3>1, <3>2, <3>3
  <2>3. 0 \in Age
    BY GuardAssumption DEF Age
  <2> QED
    BY <2>1, <2>2, <2>3
<1> QED
  BY <1>2, <1>3, <1>4, <1>5

\* A tick moves what was admitted one age up.
LEMMA RecentAges ==
    ASSUME NEW f, f \in [Age -> Nat], NEW g, g \in [Age -> Nat],
           \A a \in Age : g[a] = IF a = 0 THEN 0 ELSE f[a - 1]
    PROVE  \A n \in Age : Recent(g, n + 1) = Recent(f, n)
<1> DEFINE S == {n \in Nat : n \in Age => Recent(g, n + 1) = Recent(f, n)}
<1>1. 0 \in S
  <2>1. 0 \in Age /\ g[0] = 0
    BY GuardAssumption DEF Age
  <2>2. Recent(g, 0) = 0 /\ Recent(f, 0) = 0 /\ Recent(g, 0 + 1) = Recent(g, 0) + g[0]
    BY <2>1, RecentStep
  <2> QED
    BY <2>1, <2>2
<1>2. ASSUME NEW n \in S PROVE n + 1 \in S
  <2> SUFFICES ASSUME n + 1 \in Age PROVE Recent(g, (n + 1) + 1) = Recent(f, n + 1)
    OBVIOUS
  <2>1. n \in Age /\ n \in Nat /\ g[n + 1] = f[n]
    BY GuardAssumption DEF Age
  <2>2. /\ Recent(g, (n + 1) + 1) = Recent(g, n + 1) + g[n + 1]
        /\ Recent(f, n + 1) = Recent(f, n) + f[n]
    BY <2>1, RecentStep
  <2> QED
    BY <2>1, <2>2
<1>3. S \in SUBSET Nat /\ Age \subseteq Nat
  BY DEF Age
<1> HIDE DEF S
<1>4. \A n \in Nat : n \in S
  BY <1>1, <1>2, <1>3, Climb
<1> QED
  BY <1>3, <1>4 DEF S

\* A request that is let through is one more at every width.
LEMMA RecentGrows ==
    ASSUME NEW f, f \in [Age -> Nat], NEW g, g = [f EXCEPT ![0] = @ + 1]
    PROVE  /\ g \in [Age -> Nat]
           /\ \A n \in 1 .. RateWindow : Recent(g, n) = Recent(f, n) + 1
<1>1. RateWindow \in Nat /\ RateWindow > 0 /\ 0 \in Age
  BY GuardAssumption DEF Age
<1>2. g \in [Age -> Nat] /\ g[0] = f[0] + 1 /\ \A a \in Age : a # 0 => g[a] = f[a]
  BY <1>1
<1> DEFINE S == {n \in Nat : n \in Age => Recent(g, n + 1) = Recent(f, n + 1) + 1}
<1>3. 0 \in S
  <2>1. /\ Recent(g, 0) = 0 /\ Recent(g, 0 + 1) = Recent(g, 0) + g[0]
        /\ Recent(f, 0) = 0 /\ Recent(f, 0 + 1) = Recent(f, 0) + f[0]
        /\ f[0] \in Nat
    BY <1>1, <1>2, RecentStep
  <2> QED
    BY <2>1, <1>2
<1>4. ASSUME NEW n \in S PROVE n + 1 \in S
  <2> SUFFICES ASSUME n + 1 \in Age
               PROVE  Recent(g, (n + 1) + 1) = Recent(f, (n + 1) + 1) + 1
    OBVIOUS
  <2>1. n \in Age /\ n \in Nat /\ g[n + 1] = f[n + 1]
    BY <1>1, <1>2 DEF Age
  <2>2. /\ Recent(g, (n + 1) + 1) = Recent(g, n + 1) + g[n + 1]
        /\ Recent(f, (n + 1) + 1) = Recent(f, n + 1) + f[n + 1]
        /\ f[n + 1] \in Nat
    BY <1>2, RecentStep
  <2>3. Recent(f, n + 1) \in Nat
    <3>1. n + 1 \in 0 .. RateWindow
      BY <1>1 DEF Age
    <3> QED
      BY <3>1, RecentStep
  <2> QED
    BY <2>1, <2>2, <2>3
<1>5. S \in SUBSET Nat
  OBVIOUS
<1> HIDE DEF S
<1>6. \A n \in Nat : n \in S
  BY <1>3, <1>4, <1>5, Climb
<1>7. ASSUME NEW n \in 1 .. RateWindow PROVE Recent(g, n) = Recent(f, n) + 1
  <2>1. n - 1 \in Age /\ n - 1 \in Nat /\ (n - 1) + 1 = n
    BY <1>1 DEF Age
  <2> QED
    BY <2>1, <1>6 DEF S
<1> QED
  BY <1>2, <1>7

\* Of one address, whether its window has closed, is open or opens.
LEMMA HitWindow ==
    ASSUME TypeOK, Windows, NEW i \in Ip, Allowed(i), CountHit(i)
    PROVE  Windows'
<1> USE GuardAssumption
<1> SUFFICES ASSUME NEW j \in Ip
             PROVE  IF hits'[j].left = 0 THEN WindowOver(j)' ELSE WindowOpen(j)'
  BY DEF Windows
<1>1. /\ hits[j] \in [count : 0 .. RateLimit, left : 0 .. RateWindow]
      /\ admitted[j] \in [Age -> Nat] /\ 0 \in Age
  BY SMTT(30) DEF TypeOK, Age
<1>2. IF hits[j].left = 0 THEN WindowOver(j) ELSE WindowOpen(j)
  BY DEF Windows
<1>3. CASE j # i
  <2>1. hits'[j] = hits[j] /\ admitted'[j] = admitted[j]
    BY <1>3 DEF CountHit, TypeOK
  <2> QED
    BY <2>1, <1>2 DEF WindowOver, WindowOpen, Width
<1>4. CASE j = i
  <2>1. admitted'[i] = [admitted[i] EXCEPT ![0] = @ + 1]
    BY DEF CountHit, TypeOK
  <2>2. \A n \in 1 .. RateWindow :
           /\ Recent(admitted'[i], n) = Recent(admitted[i], n) + 1
           /\ Recent(admitted[i], n) \in Nat
    <3>1. \A n \in 1 .. RateWindow : n \in 0 .. RateWindow
      OBVIOUS
    <3> QED
      BY <2>1, <3>1, <1>1, <1>4, RecentGrows, RecentStep
  <2>3. CASE hits[i].left = 0
    <3>1. hits'[i] = [count |-> 1, left |-> RateWindow]
      BY <2>3 DEF CountHit, TypeOK
    <3>2. Width(i)' = 1
      BY <3>1 DEF Width
    <3>3. Recent(admitted[i], 1) = 0
      <4>1. Recent(admitted[i], 0 + 1) = Recent(admitted[i], 0) + admitted[i][0]
        BY <1>1, <1>4, RecentStep
      <4>2. Recent(admitted[i], 0) = 0 /\ admitted[i][0] = 0
        BY <1>1, <1>2, <1>4, <2>3, RecentStep DEF WindowOver
      <4> QED
        BY <4>1, <4>2
    <3>4. Recent(admitted[i], RateWindow) <= RateLimit
      BY <1>2, <1>4, <2>3 DEF WindowOver
    <3>5. 1 \in 1 .. RateWindow /\ RateWindow \in 1 .. RateWindow
      OBVIOUS
    <3>6. /\ Recent(admitted'[i], 1) = 1
          /\ Recent(admitted'[i], RateWindow) = Recent(admitted[i], RateWindow) + 1
          /\ Recent(admitted[i], RateWindow) \in Nat
      BY <2>2, <3>3, <3>5
    <3>7. WindowOpen(i)'
      BY <3>1, <3>2, <3>4, <3>6 DEF WindowOpen
    <3>8. hits'[i].left # 0
      BY <3>1
    <3> QED
      BY <1>4, <3>7, <3>8
  <2>4. CASE hits[i].left # 0
    <3>1. hits'[i] = [hits[i] EXCEPT !.count = @ + 1]
      BY <2>4 DEF CountHit, TypeOK
    <3>2. hits'[i].left = hits[i].left /\ hits'[i].count = hits[i].count + 1
      BY <3>1, <1>1, <1>4
    <3>3. Width(i)' = Width(i) /\ Width(i) \in 1 .. RateWindow
      BY <3>2, <1>1, <1>4, <2>4 DEF Width
    <3>4. /\ Recent(admitted'[i], Width(i)) = Recent(admitted[i], Width(i)) + 1
          /\ Recent(admitted'[i], RateWindow) = Recent(admitted[i], RateWindow) + 1
          /\ Recent(admitted[i], RateWindow) \in Nat
          /\ Recent(admitted[i], Width(i)) \in Nat
      <4>1. RateWindow \in 1 .. RateWindow
        OBVIOUS
      <4> QED
        BY <2>2, <3>3, <4>1
    <3>5. WindowOpen(i)
      BY <1>2, <1>4, <2>4
    <3>6. WindowOpen(i)'
      BY <3>2, <3>3, <3>4, <3>5 DEF WindowOpen
    <3> QED
      BY <1>4, <2>4, <3>2, <3>6
  <2> QED
    BY <2>3, <2>4
<1> QED
  BY <1>3, <1>4

\* As time passes, an admission leaves the window or the memory, and a window
\* that closes leaves no more than its own count behind.
LEMMA TickWindow ==
    ASSUME TypeOK, Windows, TypeOK', Tick
    PROVE  Windows'
<1> USE GuardAssumption
<1> SUFFICES ASSUME NEW i \in Ip
             PROVE  IF hits'[i].left = 0 THEN WindowOver(i)' ELSE WindowOpen(i)'
  BY DEF Windows
<1>1. /\ hits[i] \in [count : 0 .. RateLimit, left : 0 .. RateWindow]
      /\ admitted[i] \in [Age -> Nat] /\ admitted'[i] \in [Age -> Nat] /\ 0 \in Age
  <2>1. admitted \in [Ip -> [Age -> Nat]] /\ admitted' \in [Ip -> [Age -> Nat]]
    BY DEF TypeOK
  <2> QED
    BY SMTT(30), <2>1 DEF TypeOK, Age
<1>2. IF hits[i].left = 0 THEN WindowOver(i) ELSE WindowOpen(i)
  BY DEF Windows
<1>3. \A a \in Age : admitted'[i][a] = IF a = 0 THEN 0 ELSE admitted[i][a - 1]
  BY DEF Tick
<1>4. \A n \in Age : Recent(admitted'[i], n + 1) = Recent(admitted[i], n)
  BY <1>1, <1>3, RecentAges
<1>5. /\ hits'[i].count = hits[i].count
      /\ hits'[i].left = IF hits[i].left > 0 THEN hits[i].left - 1 ELSE 0
  BY <1>1 DEF Tick
<1>6. /\ RateWindow - 1 \in Age
      /\ Recent(admitted[i], RateWindow - 1) \in Nat
      /\ Recent(admitted[i], RateWindow) \in Nat
      /\ Recent(admitted'[i], RateWindow) = Recent(admitted[i], RateWindow - 1)
      /\ Recent(admitted'[i], RateWindow) <= Recent(admitted[i], RateWindow)
  <2>1. /\ RateWindow - 1 \in Age /\ (RateWindow - 1) + 1 = RateWindow
        /\ RateWindow - 1 \in 0 .. RateWindow /\ RateWindow \in 0 .. RateWindow
    BY DEF Age
  <2>2. /\ Recent(admitted[i], (RateWindow - 1) + 1) =
              Recent(admitted[i], RateWindow - 1) + admitted[i][RateWindow - 1]
        /\ admitted[i][RateWindow - 1] \in Nat
    BY <2>1, <1>1, RecentStep
  <2>3. /\ Recent(admitted[i], RateWindow - 1) \in Nat
        /\ Recent(admitted[i], RateWindow) \in Nat
    BY <2>1, <1>1, RecentStep
  <2>4. Recent(admitted'[i], (RateWindow - 1) + 1) = Recent(admitted[i], RateWindow - 1)
    BY <2>1, <1>4
  <2> QED
    BY <2>1, <2>2, <2>3, <2>4
<1>7. CASE hits[i].left = 0
  BY <1>1, <1>2, <1>3, <1>5, <1>6, <1>7 DEF WindowOver
<1>8. CASE hits[i].left = 1
  <2>1. Width(i) = RateWindow
    BY <1>8 DEF Width
  <2>2. Recent(admitted[i], RateWindow) = hits[i].count
    BY <1>2, <1>8, <2>1 DEF WindowOpen
  <2> QED
    BY <1>1, <1>3, <1>5, <1>6, <1>8, <2>2 DEF WindowOver
<1>9. CASE hits[i].left > 1
  <2>1. Width(i) \in Age /\ Width(i)' = Width(i) + 1 /\ Width(i) \in 0 .. RateWindow
    <3>1. /\ hits[i].left \in Int /\ hits[i].left <= RateWindow
          /\ hits'[i].left = hits[i].left - 1
      BY <1>1, <1>5, <1>9
    <3> QED
      BY <3>1, <1>9 DEF Width, Age
  <2>2. Recent(admitted'[i], Width(i)') = Recent(admitted[i], Width(i))
    BY <2>1, <1>4
  <2>3. Recent(admitted[i], Width(i)) \in Nat
    BY <2>1, <1>1, RecentStep
  <2>4. WindowOpen(i)
    BY <1>2, <1>9
  <2>5. WindowOpen(i)'
    BY <1>1, <1>5, <1>6, <2>2, <2>3, <2>4 DEF WindowOpen
  <2> QED
    BY <1>1, <1>5, <1>9, <2>5
<1> QED
  BY <1>1, <1>7, <1>8, <1>9

LEMMA WindowsInv == TypeOK /\ Windows /\ TypeOK' /\ [Next]_vars => Windows'
<1> SUFFICES ASSUME TypeOK, Windows, TypeOK', [Next]_vars PROVE Windows'
  OBVIOUS
<1>1. CASE UNCHANGED <<hits, admitted>>
  BY <1>1 DEF Windows, WindowOver, WindowOpen, Width
<1>2. CASE Request
  BY <1>1, <1>2, HitWindow
     DEF Request, RateLimited, CacheHit, Refuse, Begin, CacheMiss, vars
<1> QED
  BY <1>1, <1>2, TickWindow
     DEF Next, vars, Snapshot, Heal, Answered, Fail, Answer

\* guard.ts:82-86: a client that keeps to the end of one window and to the
\* start of the next gets twice the limit through, and none gets more.
THEOREM RateHolds == Spec => []AtMostTwiceTheLimit
<1>1. Init => Windows
  <2> SUFFICES ASSUME Init, NEW i \in Ip PROVE hits[i].left = 0 /\ WindowOver(i)
    BY DEF Windows
  <2>1. hits[i].left = 0 /\ admitted[i] = [a \in Age |-> 0]
    BY DEF Init
  <2> DEFINE f == [a \in Age |-> 0]
             S == {n \in Nat : n \in 0 .. RateWindow => Recent(f, n) = 0}
  <2>2. f \in [Age -> Nat] /\ S \in SUBSET Nat
    OBVIOUS
  <2>3. 0 \in S
    BY <2>2, RecentStep
  <2>4. ASSUME NEW n \in S PROVE n + 1 \in S
    <3> SUFFICES ASSUME n + 1 \in 0 .. RateWindow PROVE Recent(f, n + 1) = 0
      OBVIOUS
    <3>1. n \in Age /\ n \in 0 .. RateWindow
      BY GuardAssumption DEF Age
    <3>2. Recent(f, n + 1) = Recent(f, n) + f[n] /\ f[n] = 0 /\ Recent(f, n) = 0
      BY <2>2, <3>1, RecentStep
    <3> QED
      BY <3>2
  <2> HIDE DEF f, S
  <2>5. \A n \in Nat : n \in S
    BY <2>2, <2>3, <2>4, Climb
  <2>6. Recent(f, RateWindow) = 0
    BY <2>5, GuardAssumption DEF S
  <2>7. admitted[i][0] = 0
    BY <2>1, GuardAssumption DEF Age
  <2> QED
    BY <2>1, <2>6, <2>7, GuardAssumption DEF WindowOver, f
<1>2. TypeOK /\ Windows => AtMostTwiceTheLimit
  <2> SUFFICES ASSUME TypeOK, Windows, NEW i \in Ip
               PROVE  SumFunction(admitted[i]) <= 2 * RateLimit
    BY DEF AtMostTwiceTheLimit
  <2>1. SumFunction(admitted[i]) = Recent(admitted[i], RateWindow)
    <3>1. DOMAIN admitted[i] = 0 .. RateWindow - 1
      BY DEF TypeOK, Age
    <3> QED
      BY <3>1 DEF SumFunction, Recent
  <2>2. /\ Recent(admitted[i], RateWindow) \in Nat
        /\ hits[i] \in [count : 0 .. RateLimit, left : 0 .. RateWindow]
    <3>1. admitted[i] \in [Age -> Nat] /\ RateWindow \in 0 .. RateWindow
      BY GuardAssumption DEF TypeOK
    <3> QED
      BY <3>1, RecentStep DEF TypeOK
  <2>3. CASE hits[i].left = 0
    BY <2>1, <2>2, <2>3, GuardAssumption DEF Windows, WindowOver
  <2>4. CASE hits[i].left # 0
    <3>1. /\ Recent(admitted[i], Width(i)) = hits[i].count
          /\ Recent(admitted[i], RateWindow) - Recent(admitted[i], Width(i)) <= RateLimit
      BY <2>4 DEF Windows, WindowOpen
    <3> QED
      BY <2>1, <2>2, <3>1, GuardAssumption
  <2> QED
    BY <2>3, <2>4
<1> QED
  BY <1>1, <1>2, WindowsInv, TypeCorrect, PTL DEF Spec
=============================================================================

-------------------------- MODULE HltvReleaseTiming --------------------------
(***************************************************************************)
(* Proofs about HltvRelease when the network and the proxy answer at once: *)
(* the overlay is never ahead of the broadcast, never far behind it, shows *)
(* the levels and their ticks in their order, and drains old levels only.  *)
(***************************************************************************)
EXTENDS HltvReleaseProofs

\* What the environment has to keep to. The first level is old enough that no
\* tick of the second can be taken for one of it, a failed clock costs at
\* most a heartbeat, and what a drained board event holds up is not later
\* than that either.
Prompt ==
    /\ MaxStall = 0 /\ MaxLatency = 0 /\ ~EarlyRequests /\ Offset = {}
    /\ \A m, n \in Map : m = n
    /\ MaxLevels <= 2
    /\ Delay <= FallbackDelay /\ FallbackDelay <= Delay + HeartbeatEvery
    /\ BoardLag + FallbackDelay <= ReloadTime + Delay + HeartbeatEvery
    /\ LastEvent + StragglerTick + ResetThreshold < FirstAge
    /\ FallbackDelay + ResetThreshold < FirstAge

-----------------------------------------------------------------------------
(* The inductive invariant. Before the backend has heard of the second     *)
(* level all that waits is of the first; once it has, the queue is of the  *)
(* second, and the drain, which only shrinks, is of the first.             *)

Lag(e) == IF e.board THEN BoardLag ELSE 0

\* An item whose event came at once and was made when the level that was
\* loaded at this time had this tick.
IsOf(x, number, since) ==
    /\ x.event.level = number
    /\ x.event.tick = x.event.made - since
    /\ x.enqueuedAt = x.event.made
    /\ x.event.made <= now

FirstItems ==
    {x \in Queued :
        /\ IsOf(x, 1, 0 - FirstAge)
        /\ level.number = 2 => x.event.made <= level.since
        /\ now <= x.event.made + FallbackDelay}

SecondItems ==
    {x \in Queued :
        /\ IsOf(x, 2, level.since)
        /\ level.since + ReloadTime <= x.event.made
        /\ now <= MaxOf(x.event.made, level.since + BoardLag) + FallbackDelay}

DrainItems(delay) ==
    {x \in InDrain :
        /\ IsOf(x, 1, 0 - FirstAge)
        /\ x.event.made <= level.since
        /\ x.releaseAt = x.event.made + delay + Lag(x.event)
        /\ now <= x.event.made + FallbackDelay + Lag(x.event)}

ByTick(items) ==
    \A i, j \in DOMAIN items : i < j => TickOf(items[i]) <= TickOf(items[j])

\* c is right about a level that was loaded at this time.
Tracks(c, since) ==
    c.activeTime = c.sampledAt - since /\ c.delay = Delay /\ c.calibration = 0

LevelOK ==
    \/ level.number = 1 /\ level.since = 0 - FirstAge
    \/ level.number = 2 /\ level.since \in 0 .. now

TransitOK ==
    \A e \in transit :
        /\ e.made = now /\ now <= LastEvent
        /\ e.level = level.number /\ e.tick = GameTime
        /\ level.number = 2 => level.since + ReloadTime <= now

SampleOK ==
    inflight # Null =>
        /\ inflight.sampledAt = now
        /\ inflight.status # Null =>
              inflight.status.activeTime = GameTime /\ inflight.status.delay = Delay

DrainOK ==
    /\ ByRelease(draining)
    /\ draining # <<>> => level.number = 2
    /\ \E delay \in {Delay, FallbackDelay} : draining \in Seq(DrainItems(delay))

Unheard ==
    /\ queue \in Seq(FirstItems)
    /\ draining # <<>> => queue = <<>>
    /\ resetBasis = Null /\ lastBoundary = Null
    /\ lastEventClock # Null => Tracks(lastEventClock, 0 - FirstAge)
    /\ Online => \/ Tracks(clock, 0 - FirstAge)
                 \/ level.number = 2 /\ Tracks(clock, level.since) /\ queue = <<>>
    /\ IF lazyInited THEN highestEventTick \in FirstAge .. now + FirstAge
       ELSE clock = Null /\ inflight = Null /\ queue = <<>> /\ draining = <<>>

Heard ==
    /\ level.number = 2 /\ lazyInited
    /\ queue \in Seq(SecondItems)
    /\ highestEventTick \in Int /\ highestEventTick <= GameTime
    /\ lastBoundary # Null => lastBoundary.preResetHighWater >= FirstAge
    /\ Online => Tracks(clock, level.since)

Punctual ==
    /\ LevelOK /\ TransitOK /\ SampleOK /\ DrainOK
    /\ clock # Null => clock.calibration = 0
    /\ ByTick(queue)
    /\ Unheard \/ Heard

-----------------------------------------------------------------------------
(* What the operators of the buffer do where nothing is out of order.      *)

LEMMA EmptyTail ==
    ASSUME NEW B, NEW basis, Drains({}, B, basis), NEW drain \in Seq(B)
    PROVE  WithTail(drain, <<>>, basis) = drain
<1> DEFINE none == <<>>
           A == {}
<1>1. none \in Seq(A) /\ Drains(A, B, basis)
  BY EmptySeq
<1>2. Len(none) = 0
  OBVIOUS
<1> HIDE DEF none, A
<1>3. PICK d \in [0 .. Len(none) -> Seq(B)] :
         Grows(d, drain, none, basis) /\ WithTail(drain, none, basis) = d[Len(none)]
  BY <1>1, TailGrows
<1>4. WithTail(drain, none, basis) = drain
  BY <1>2, <1>3 DEF Grows
<1> QED
  BY <1>4 DEF none

LEMMA SelectAll ==
    ASSUME NEW X, NEW seq \in Seq(X)
    PROVE  At(seq, DOMAIN seq) = seq
<1> DEFINE N == Len(seq)
           P == DOMAIN seq
           pre(n) == SubSeq(seq, 1, n)
<1>1. PICK a \in [0 .. N -> Seq(X)] : Selects(a, seq, P) /\ At(seq, P) = a[N]
  <2> HIDE DEF P
  <2> QED
    BY SelectionGrows
<1>2. /\ N \in Nat /\ P = 1 .. N /\ \A n \in 1 .. N : seq[n] \in X
      /\ pre(0) = <<>> /\ pre(N) = seq
      /\ \A n \in 0 .. N : pre(n) \in Seq(X)
  BY LenProperties, ElementOfSeq, PrefixTypes
<1>3. \A n \in 1 .. N : pre(n) = pre(n - 1) \o <<seq[n]>>
  <2> TAKE n \in 1 .. N
  <2>1. 1 \in 1 .. N /\ n \in 1 .. N
    BY <1>2
  <2> QED
    BY <2>1, SubSeqRecursiveSecond
<1> HIDE DEF pre, P
<1> DEFINE S == {n \in Nat : n \in 0 .. N => a[n] = pre(n)}
<1>4. 0 \in S
  BY <1>1, <1>2 DEF Selects
<1>5. ASSUME NEW n \in S PROVE n + 1 \in S
  <2> SUFFICES ASSUME n + 1 \in 0 .. N PROVE a[n + 1] = pre(n + 1)
    OBVIOUS
  <2>1. /\ n \in 0 .. N /\ n + 1 \in 1 .. N /\ (n + 1) - 1 = n /\ a[n] = pre(n)
    BY <1>2
  <2>2. a[n + 1] = Append(pre(n), seq[n + 1])
    BY <1>1, <1>2, <2>1 DEF Selects
  <2>3. Append(pre(n), seq[n + 1]) = pre(n) \o <<seq[n + 1]>>
    BY <1>2, <2>1, AppendIsConcat
  <2> QED
    BY <1>3, <2>1, <2>2, <2>3
<1>6. S \in SUBSET Nat
  OBVIOUS
<1> HIDE DEF S
<1>7. N \in S
  BY <1>2, <1>4, <1>5, <1>6, Climb
<1> QED
  BY <1>1, <1>2, <1>7 DEF S, P

LEMMA SelectNone ==
    ASSUME NEW X, NEW seq \in Seq(X)
    PROVE  At(seq, {}) = <<>>
<1> DEFINE N == Len(seq)
           P == {}
           none == <<>>
<1>1. P = {}
  OBVIOUS
<1> HIDE DEF P, none
<1>2. PICK a \in [0 .. N -> Seq(X)] : Selects(a, seq, P) /\ At(seq, P) = a[N]
  BY SelectionGrows
<1>3. N \in Nat
  BY LenProperties
<1> DEFINE S == {n \in Nat : n \in 0 .. N => a[n] = none}
<1>4. 0 \in S
  BY <1>2 DEF Selects, none
<1>5. ASSUME NEW n \in S PROVE n + 1 \in S
  <2> SUFFICES ASSUME n + 1 \in 0 .. N PROVE a[n + 1] = none
    OBVIOUS
  <2>1. n \in 0 .. N /\ n + 1 \in 1 .. N /\ (n + 1) - 1 = n /\ a[n] = none
    BY <1>3
  <2>2. n + 1 \notin P
    BY <1>1
  <2> QED
    BY <1>2, <2>1, <2>2 DEF Selects
<1>6. S \in SUBSET Nat
  OBVIOUS
<1> HIDE DEF S
<1>7. N \in S
  BY <1>3, <1>4, <1>5, <1>6, Climb
<1> QED
  BY <1>1, <1>2, <1>3, <1>7 DEF S, none

LEMMA InsertedByTickType ==
    ASSUME NEW A, A \subseteq Queued, NEW s \in Seq(A), NEW x \in A, ByTick(s)
    PROVE  InsertedByTick(s, x) \in Seq(A) /\ ByTick(InsertedByTick(s, x))
<1> DEFINE P == {i \in DOMAIN s : TickOf(s[i]) <= TickOf(x)}
           r == InsertedByTick(s, x)
           key == [a \in A |-> TickOf(a)]
<1>1. P \subseteq DOMAIN s
  OBVIOUS
<1>2. r = Inserted(s, x, P)
  BY DEF InsertedByTick
<1> HIDE DEF r
<1>3. r \in Seq(A)
  <2> HIDE DEF P
  <2> QED
    BY <1>1, <1>2, Insertion
<1>4. \A i \in DOMAIN s : s[i] \in A
  BY LenProperties, ElementOfSeq
<1>5. \A i \in DOMAIN r : r[i] \in A
  BY <1>3, LenProperties, ElementOfSeq
<1>6. key \in [A -> Int]
  BY DEF TickOf, Queued, Event
<1>7. SortedBy(key, s)
  BY <1>4 DEF SortedBy, ByTick
<1>8. P = {i \in DOMAIN s : key[s[i]] <= key[x]}
  BY <1>4
<1>9. SortedBy(key, r)
  <2> HIDE DEF P, key
  <2> QED
    BY <1>2, <1>6, <1>7, <1>8, InsertionSorts
<1> QED
  BY <1>3, <1>5, <1>9 DEF SortedBy, ByTick, r

\* What is left of an ordered sequence is ordered.
LEMMA RestSorted ==
    ASSUME NEW X, NEW s \in Seq(X), NEW k \in 0 .. Len(s)
    PROVE  /\ SubSeq(s, k + 1, Len(s)) \in Seq(X)
           /\ ByTick(s) => ByTick(SubSeq(s, k + 1, Len(s)))
           /\ ByRelease(s) => ByRelease(SubSeq(s, k + 1, Len(s)))
           /\ s = <<>> => SubSeq(s, k + 1, Len(s)) = <<>>
<1> DEFINE r == SubSeq(s, k + 1, Len(s))
<1>1. /\ r \in Seq(X) /\ Len(r) = Len(s) - k
      /\ \A i \in 1 .. Len(s) - k : r[i] = s[k + i]
  BY Halves
<1> HIDE DEF r
<1>2. Len(s) \in Nat /\ DOMAIN s = 1 .. Len(s) /\ DOMAIN r = 1 .. Len(s) - k
  BY <1>1, LenProperties
<1>3. \A i, j \in DOMAIN r : /\ r[i] = s[k + i] /\ r[j] = s[k + j]
                             /\ k + i \in DOMAIN s /\ k + j \in DOMAIN s
                             /\ i < j => k + i < k + j
  BY <1>1, <1>2
<1>4. s = <<>> => r = <<>>
  <2>1. s = <<>> => Len(r) = 0
    BY <1>1, <1>2
  <2> QED
    BY <2>1, <1>1, EmptySeq
<1>5. ByTick(s) => ByTick(r)
  BY <1>3 DEF ByTick
<1>6. ByRelease(s) => ByRelease(r)
  BY <1>3 DEF ByRelease
<1> QED
  BY <1>1, <1>4, <1>5, <1>6 DEF r

-----------------------------------------------------------------------------
(* Steps that leave the queues and the service's beliefs alone.            *)

LEMMA Bounds ==
    /\ ResetThreshold \in Nat /\ StragglerTick \in Nat /\ FallbackDelay \in Nat
    /\ BoardLag \in Nat /\ Delay \in Nat /\ HeartbeatEvery \in Nat /\ ReloadTime \in Nat
    /\ FirstAge \in Nat /\ MaxLevels \in Nat /\ LastEvent \in Nat
BY SyncAssumption, BufferAssumption, ReleaseAssumption

LEMMA SameItems ==
    ASSUME UNCHANGED <<now, level>>
    PROVE  /\ FirstItems' = FirstItems /\ SecondItems' = SecondItems
           /\ \A delay : DrainItems(delay)' = DrainItems(delay)
BY DEF FirstItems, SecondItems, DrainItems, IsOf

LEMMA SameDrain ==
    ASSUME UNCHANGED <<now, level, draining>>, DrainOK PROVE DrainOK'
BY SameItems DEF DrainOK, ByRelease

LEMMA SameQueue ==
    ASSUME UNCHANGED queue, ByTick(queue) PROVE ByTick(queue)'
BY DEF ByTick, TickOf

beliefs == <<clock, lazyInited, highestEventTick, lastEventClock, resetBasis, lastBoundary>>

LEMMA QuietPunctual ==
    ASSUME Punctual, UNCHANGED <<now, bufferVars, level, beliefs>>,
           TransitOK', SampleOK', UNCHANGED inflight \/ lazyInited
    PROVE  Punctual'
<1>1. /\ FirstItems' = FirstItems /\ SecondItems' = SecondItems
      /\ queue' = queue /\ draining' = draining
      /\ UNCHANGED <<now, level, draining>>
  BY SameItems DEF bufferVars
<1>2. DrainOK' /\ ByTick(queue)' /\ LevelOK' /\ (clock # Null => clock.calibration = 0)'
  BY <1>1, SameDrain, SameQueue DEF Punctual, LevelOK, beliefs
<1>3. Unheard => Unheard'
  BY <1>1 DEF Unheard, Online, Tracks, beliefs
<1>4. Heard => Heard'
  BY <1>1 DEF Heard, Online, Tracks, beliefs, GameTime
<1> QED
  BY <1>2, <1>3, <1>4 DEF Punctual

LEMMA ProducePunctual ==
    ASSUME Types, Punctual, NEW board \in BoardFlag, Produce(board)
    PROVE  Punctual'
<1> DEFINE new == [tick |-> GameTime, map |-> level.map, board |-> board,
                   level |-> level.number, made |-> now]
<1>1. /\ now <= LastEvent
      /\ level.number > 1 => GameTime >= ReloadTime
      /\ transit' = transit \cup {new}
      /\ UNCHANGED <<now, syncVars, bufferVars, level, lastBeat>>
  BY DEF Produce
<1>2. TransitOK'
  <2>1. /\ new.made = now /\ new.level = level.number /\ new.tick = GameTime
        /\ now <= LastEvent
        /\ level.number = 2 => level.since + ReloadTime <= now
    <3>1. now \in Int /\ level.since \in Int /\ ReloadTime \in Int
      BY Bounds DEF Types, EnvironmentTypes
    <3> QED
      BY <1>1, <3>1 DEF GameTime
  <2> HIDE DEF new
  <2> QED
    BY <1>1, <2>1 DEF Punctual, TransitOK, GameTime
<1>3. SampleOK'
  BY <1>1 DEF Punctual, SampleOK, GameTime, syncVars
<1> QED
  BY <1>1, <1>2, <1>3, QuietPunctual DEF syncVars, beliefs

LEMMA AnswerPunctual ==
    ASSUME Types, Punctual, Answer
    PROVE  Punctual'
<1> DEFINE status == [activeTime |-> GameTime, delay |-> Delay, map |-> level.map]
<1>1. /\ inflight # Null /\ inflight' = [inflight EXCEPT !.status = status]
      /\ UNCHANGED beliefs /\ UNCHANGED <<now, bufferVars, envVars>>
  BY DEF Answer, StatusRead, beliefs
<1>2. inflight \in Sample
  BY <1>1 DEF Types, SyncTypeOK
<1>3. inflight'.sampledAt = inflight.sampledAt /\ inflight'.status = status
  BY <1>1, <1>2 DEF Sample
<1>4. SampleOK'
  BY <1>1, <1>3 DEF Punctual, SampleOK, GameTime, envVars
<1>5. TransitOK'
  BY <1>1 DEF Punctual, TransitOK, GameTime, envVars
<1>6. lazyInited
  BY <1>1 DEF Punctual, Unheard, Heard
<1> QED
  BY <1>1, <1>4, <1>5, <1>6, QuietPunctual DEF envVars

LEMMA BeginsNow ==
    ASSUME SampleOK, UNCHANGED <<now, level>>, NEW reason, BeginSample(reason)
    PROVE  SampleOK'
<1>1. CASE inflight # Null
  BY <1>1 DEF BeginSample, SampleOK, GameTime
<1>2. CASE inflight = Null
  BY <1>2 DEF BeginSample, SampleOK
<1> QED
  BY <1>1, <1>2

LEMMA RequestPunctual ==
    ASSUME Prompt, Types, Punctual, Beat \/ Resample
    PROVE  Punctual'
<1>1. UNCHANGED <<now, bufferVars, level, transit>>
  BY DEF Beat, Resample, envVars
<1>2. TransitOK'
  BY <1>1 DEF Punctual, TransitOK, GameTime
<1>3. CASE RequestSample /\ lazyInited
  <2>1. BeginSample("other") /\ UNCHANGED beliefs
    BY <1>3 DEF RequestSample, beliefs
  <2>2. SampleOK'
    BY <1>1, <2>1, BeginsNow DEF Punctual
  <2> QED
    BY <1>1, <1>2, <1>3, <2>1, <2>2, QuietPunctual
<1>4. CASE UNCHANGED syncVars
  <2>1. SampleOK' /\ UNCHANGED beliefs /\ UNCHANGED inflight
    BY <1>1, <1>4 DEF Punctual, SampleOK, GameTime, syncVars, beliefs
  <2> QED
    BY <1>1, <1>2, <2>1, QuietPunctual
<1>5. (RequestSample /\ lazyInited) \/ UNCHANGED syncVars
  BY DEF Beat, Heartbeat, Resample, Prompt
<1> QED
  BY <1>3, <1>4, <1>5

LEMMA ReloadPunctual ==
    ASSUME Prompt, Types, Punctual, NEW map \in Map, Reload(map)
    PROVE  Punctual'
<1>1. /\ level.number < MaxLevels /\ InTime
      /\ level' = [number |-> level.number + 1, map |-> map, since |-> now]
      /\ UNCHANGED <<now, syncVars, bufferVars, transit, sent, lastBeat>>
  BY DEF Reload
<1>2. /\ level.number = 1 /\ level.since = 0 - FirstAge /\ now \in Nat
      /\ level'.number = 2 /\ level'.since = now
  <2>1. MaxLevels <= 2 /\ MaxLevels \in Nat /\ now \in Nat
    BY Bounds DEF Prompt, Types
  <2> QED
    BY <1>1, <2>1 DEF Punctual, LevelOK
<1>3. transit = {} /\ inflight = Null
  <2>1. \A e \in transit : e.made = now
    BY DEF Punctual, TransitOK
  <2>2. inflight # Null => inflight.sampledAt = now
    BY DEF Punctual, SampleOK
  <2> QED
    BY <1>1, <1>2, <2>1, <2>2 DEF InTime, Prompt
<1>4. draining = <<>> /\ Unheard
  BY <1>2 DEF Punctual, DrainOK, Heard
<1>5. LevelOK' /\ TransitOK' /\ SampleOK'
  BY <1>1, <1>2, <1>3 DEF LevelOK, TransitOK, SampleOK, syncVars
<1>6. DrainOK'
  <2>1. draining' = <<>> /\ \A S : <<>> \in Seq(S)
    BY <1>1, <1>4, EmptySeq DEF bufferVars
  <2> QED
    BY <2>1 DEF DrainOK, ByRelease
<1>7. queue' \in Seq(FirstItems')
  <2>1. FirstItems \subseteq FirstItems'
    BY <1>1, <1>2 DEF FirstItems, IsOf
  <2> QED
    BY <1>1, <1>4, <2>1, SeqMonotonic DEF Unheard, bufferVars
<1>8. Unheard'
  BY <1>1, <1>2, <1>4, <1>7 DEF Unheard, Online, Tracks, syncVars, bufferVars
<1>9. ByTick(queue)' /\ (clock # Null => clock.calibration = 0)'
  BY <1>1, SameQueue DEF Punctual, syncVars, bufferVars
<1> QED
  BY <1>5, <1>6, <1>8, <1>9 DEF Punctual

-----------------------------------------------------------------------------
(* A sample ends: the rescue drains what is of the first level when the    *)
(* clock is the second's, and otherwise nothing.                           *)

\* A basis that knows the first level, or none, in which case the drain
\* counts from when an item was enqueued.
FirstBasis(basis) ==
    basis \in Basis /\ (basis # Null => Tracks(basis, 0 - FirstAge))

LEMMA FirstDrains ==
    ASSUME now \in Nat, level.number = 2, NEW basis, FirstBasis(basis),
           NEW delay, delay = IF basis = Null THEN FallbackDelay ELSE Delay
    PROVE  Drains(FirstItems, DrainItems(delay), basis)
<1>1. ASSUME NEW x \in FirstItems PROVE Drained(x, basis) \in DrainItems(delay)
  <2> DEFINE y == Drained(x, basis)
  <2>1. /\ x \in Queued /\ IsOf(x, 1, 0 - FirstAge)
        /\ x.event.made <= level.since /\ now <= x.event.made + FallbackDelay
    BY DEF FirstItems
  <2>2. /\ x.event.made \in Nat /\ x.event.tick \in Int /\ x.event.board \in BOOLEAN
        /\ x.event.tick = x.event.made + FirstAge /\ x.enqueuedAt = x.event.made
        /\ x.event.made <= now
    BY <2>1, Bounds DEF IsOf, Queued, Event
  <2>3. basis \in Basis
    BY DEF FirstBasis
  <2>4. y \in InDrain /\ y.event = x.event
    BY <2>1, <2>3, DrainedType
  <2>5. y.enqueuedAt = x.enqueuedAt /\ y.releaseAt = Projection(x, basis)
    BY DEF Drained
  <2>6. Lag(x.event) \in Nat
    BY Bounds DEF Lag
  <2>7. Projection(x, basis) = x.event.made + delay + Lag(x.event)
    <3>1. CASE basis = Null
      BY <2>2, <2>6, <3>1, Bounds DEF Projection, Lag
    <3>2. CASE basis # Null
      <4>1. /\ basis.activeTime = basis.sampledAt - (0 - FirstAge)
            /\ basis.delay = Delay /\ basis.calibration = 0 /\ basis.sampledAt \in Nat
        BY <3>2 DEF FirstBasis, Tracks, Basis, ClockBasis
      <4>2. ReachesAt(basis, x.event.tick) = x.event.made + Delay
        BY <2>2, <4>1, Bounds DEF ReachesAt
      <4>3. Projection(x, basis) = Lag(x.event) + ReachesAt(basis, x.event.tick)
        BY <3>2 DEF Projection, Lag, TickOf
      <4> QED
        BY <2>2, <2>6, <3>2, <4>2, <4>3, Bounds
    <3> QED
      BY <3>1, <3>2
  <2> HIDE DEF y
  <2>8. IsOf(y, 1, 0 - FirstAge)
    BY <2>1, <2>4, <2>5 DEF IsOf
  <2>9. now <= y.event.made + FallbackDelay + Lag(y.event)
    BY <2>1, <2>2, <2>4, <2>6, Bounds
  <2>10. y.releaseAt = y.event.made + delay + Lag(y.event) /\ y.event.made <= level.since
    BY <2>1, <2>4, <2>5, <2>7
  <2>11. y \in DrainItems(delay)
    BY <2>4, <2>8, <2>9, <2>10 DEF DrainItems
  <2> QED
    BY <2>11 DEF y
<1>2. FirstItems \subseteq Queued /\ DrainItems(delay) \subseteq InDrain
  BY DEF FirstItems, DrainItems
<1> QED
  BY <1>1, <1>2 DEF Drains, FirstBasis

\* What waits of the first level comes into an empty drain in its order.
LEMMA FirstFlushed ==
    ASSUME now \in Nat, level.number = 2, queue \in Seq(FirstItems), draining = <<>>,
           NEW basis, FirstBasis(basis)
    PROVE  LET tail == WithTail(draining, queue, basis) IN
           /\ ByRelease(tail)
           /\ \E delay \in {Delay, FallbackDelay} : tail \in Seq(DrainItems(delay))
<1> DEFINE delay == IF basis = Null THEN FallbackDelay ELSE Delay
           A == FirstItems
           B == DrainItems(delay)
           tail == WithTail(draining, queue, basis)
<1>1. Drains(A, B, basis)
  BY FirstDrains
<1>2. draining \in Seq(B) /\ ByRelease(draining)
  BY EmptySeq DEF ByRelease
<1>3. queue \in Seq(A) /\ basis \in Basis
  BY DEF FirstBasis
<1> HIDE DEF A, B
<1>4. tail \in Seq(B) /\ ByRelease(tail)
  BY <1>1, <1>2, <1>3, TailHoldsAll
<1>5. delay \in {Delay, FallbackDelay}
  OBVIOUS
<1> HIDE DEF delay, tail
<1>6. \E d \in {Delay, FallbackDelay} : tail \in Seq(DrainItems(d))
  BY <1>4, <1>5 DEF B
<1> QED
  BY <1>4, <1>6 DEF tail

LEMMA NothingStranded ==
    ASSUME Types, SyncTypeOK', Stranded = {}, ReleaseStranded
    PROVE  UNCHANGED bufferVars
<1> DEFINE basis == TailBasis'
           kept == At(queue, DOMAIN queue \ Stranded)
           old == At(queue, Stranded)
<1>1. /\ queue \in Seq(Queued) /\ draining \in Seq(InDrain)
  BY WaitingTypes DEF Types
<1>2. basis \in Basis
  BY DEF SyncTypeOK, TailBasis, Basis
<1>3. kept = queue
  <2>1. DOMAIN queue \ Stranded = DOMAIN queue
    OBVIOUS
  <2> QED
    BY <1>1, <2>1, SelectAll
<1>4. old = <<>>
  BY <1>1, SelectNone
<1>5. WithTail(draining, <<>>, basis) = draining
  <2>1. Drains({}, InDrain, basis)
    BY <1>2 DEF Drains
  <2> HIDE DEF basis
  <2> QED
    BY <1>1, <2>1, EmptyTail
<1> HIDE DEF kept, old
<1>6. \/ draining' = WithTail(draining, old, basis) /\ queue' = kept
      \/ UNCHANGED bufferVars
  BY DEF ReleaseStranded, kept, old
<1> QED
  BY <1>3, <1>4, <1>5, <1>6 DEF bufferVars

LEMMA FailedPunctual ==
    ASSUME Types, Types', Punctual, SampleFailed
    PROVE  Punctual'
<1>1. /\ SampleFails /\ ReleaseStranded /\ UNCHANGED <<now, envVars>>
      /\ inflight # Null /\ inflight' = Null
      /\ UNCHANGED <<lazyInited, highestEventTick, lastEventClock, resetBasis, lastBoundary>>
  BY DEF SampleFailed, SampleFails
<1>2. clock \in HltvClock \cup {Null}
  BY DEF Types, SyncTypeOK
<1>3. /\ clock'.lastError
      /\ clock'.calibration = IF clock = Null THEN 0 ELSE clock.calibration
      /\ clock'.online => Online /\ clock'.activeTime = clock.activeTime
                          /\ clock'.sampledAt = clock.sampledAt
                          /\ clock'.delay = clock.delay
  <2>1. CASE clock = Null
    BY <1>1, <2>1 DEF SampleFails
  <2>2. CASE clock # Null
    <3>1. clock' = [clock EXCEPT !.online = CanCoast, !.lastError = TRUE] /\ clock \in HltvClock
      BY <1>1, <1>2, <2>2 DEF SampleFails
    <3>2. /\ clock'.online = CanCoast /\ clock'.lastError
          /\ clock'.activeTime = clock.activeTime /\ clock'.sampledAt = clock.sampledAt
          /\ clock'.delay = clock.delay /\ clock'.calibration = clock.calibration
      BY <3>1 DEF HltvClock
    <3> QED
      BY <2>2, <3>2 DEF CanCoast
  <2> QED
    BY <2>1, <2>2
<1>4. UNCHANGED bufferVars
  BY <1>1, <1>3 DEF ReleaseStranded
<1>5. lazyInited
  BY <1>1 DEF Punctual, Unheard, Heard
<1>6. /\ UNCHANGED <<now, level, transit, queue, draining>>
      /\ FirstItems' = FirstItems /\ SecondItems' = SecondItems
  BY <1>1, <1>4, SameItems DEF envVars, bufferVars
<1>7. /\ LevelOK' /\ TransitOK' /\ SampleOK' /\ DrainOK' /\ ByTick(queue)'
      /\ (clock # Null => clock.calibration = 0)'
  <2>1. (clock # Null => clock.calibration = 0)'
    BY <1>3 DEF Punctual
  <2> QED
    BY <1>1, <1>6, <2>1, SameDrain, SameQueue
       DEF Punctual, LevelOK, TransitOK, SampleOK, GameTime
<1>8. \A since : Online' /\ (Online => Tracks(clock, since)) => Tracks(clock', since)
  BY <1>3 DEF Online, Tracks, Punctual
<1>9. Online' => Online
  BY <1>3 DEF Online
<1>10. \A since : Tracks(clock, since) /\ Online' => Tracks(clock', since)
  BY <1>8
<1>11. Unheard => Unheard'
  <2> SUFFICES ASSUME Unheard PROVE Unheard'
    OBVIOUS
  <2>1. Online' => \/ Tracks(clock', 0 - FirstAge)
                   \/ level'.number = 2 /\ Tracks(clock', level'.since) /\ queue' = <<>>
    BY <1>6, <1>9, <1>10 DEF Unheard
  <2>2. lastEventClock' # Null => Tracks(lastEventClock', 0 - FirstAge)
    BY <1>1 DEF Unheard
  <2> QED
    BY <1>1, <1>5, <1>6, <2>1, <2>2 DEF Unheard, Online, Tracks
<1>12. Heard => Heard'
  BY <1>1, <1>6, <1>9, <1>10 DEF Heard, Online, Tracks, GameTime
<1> QED
  BY <1>7, <1>11, <1>12 DEF Punctual

LEMMA SampledPunctual ==
    ASSUME Prompt, Types, Types', Punctual, Sampled
    PROVE  Punctual'
<1>1. /\ SampleSucceeds /\ ReleaseStranded /\ UNCHANGED <<now, envVars>>
      /\ inflight # Null /\ inflight.status # Null /\ inflight' = Null
      /\ UNCHANGED <<lazyInited, highestEventTick, lastEventClock, resetBasis, lastBoundary>>
  BY DEF Sampled, SampleSucceeds
<1>2. /\ now \in Nat /\ level.since \in Int /\ UNCHANGED <<now, level, transit>>
      /\ SyncTypeOK'
  BY <1>1 DEF Types, EnvironmentTypes, envVars
<1>3. /\ clock'.activeTime = GameTime /\ clock'.sampledAt = now /\ clock'.delay = Delay
      /\ clock'.calibration = 0 /\ clock'.online /\ ~clock'.lastError
  BY <1>1 DEF SampleSucceeds, Punctual, SampleOK
<1>4. Tracks(clock', level.since)
  BY <1>3 DEF Tracks, GameTime
<1>5. lazyInited
  BY <1>1 DEF Punctual, Unheard, Heard
<1>6. FirstItems' = FirstItems /\ SecondItems' = SecondItems
  BY <1>2, SameItems
<1>7. /\ LevelOK' /\ TransitOK' /\ SampleOK'
      /\ (clock # Null => clock.calibration = 0)'
  BY <1>1, <1>2, <1>3 DEF Punctual, LevelOK, TransitOK, SampleOK, GameTime
<1>8. Stranded = {i \in DOMAIN queue : TickOf(queue[i]) > GameTime + ResetThreshold}
  BY <1>3 DEF Stranded
<1>9. CASE UNCHANGED bufferVars /\ (Unheard => level.number = 1 \/ queue = <<>>)
  <2>1. DrainOK' /\ ByTick(queue)' /\ queue' = queue /\ draining' = draining
    BY <1>2, <1>9, SameDrain, SameQueue DEF Punctual, bufferVars
  <2>2. Unheard => Unheard'
    <3> SUFFICES ASSUME Unheard PROVE Unheard'
      OBVIOUS
    <3>1. \/ Tracks(clock', 0 - FirstAge)
          \/ level'.number = 2 /\ Tracks(clock', level'.since) /\ queue' = <<>>
      BY <1>2, <1>4, <1>9, <2>1 DEF Punctual, LevelOK
    <3>2. lastEventClock' # Null => Tracks(lastEventClock', 0 - FirstAge)
      BY <1>1 DEF Unheard
    <3> QED
      BY <1>1, <1>2, <1>5, <1>6, <2>1, <3>1, <3>2 DEF Unheard, Online, Tracks
  <2>3. Heard => Heard'
    <3> SUFFICES ASSUME Heard PROVE Heard'
      OBVIOUS
    <3>1. Tracks(clock', level'.since)
      BY <1>2, <1>4
    <3> QED
      BY <1>1, <1>2, <1>5, <1>6, <2>1, <3>1 DEF Heard, Online, Tracks, GameTime
  <2> QED
    BY <1>7, <2>1, <2>2, <2>3 DEF Punctual
<1>10. CASE Unheard /\ level.number = 2 /\ queue # <<>>
  <2> DEFINE basis == TailBasis'
  <2>1. queue \in Seq(FirstItems) /\ draining = <<>> /\ now \in Nat
    BY <1>2, <1>10 DEF Unheard
  <2>2. FirstBasis(basis)
    <3>1. basis = lastEventClock
      BY <1>1, <1>10 DEF TailBasis, Unheard
    <3>2. lastEventClock \in Basis
      BY DEF Types, SyncTypeOK, Basis
    <3> QED
      BY <1>10, <3>1, <3>2 DEF FirstBasis, Unheard
  <2>3. Len(queue) \in Nat /\ DOMAIN queue = 1 .. Len(queue) /\ Len(queue) >= 1
    BY <1>10, <2>1, LenProperties, EmptySeq
  <2>4. \A i \in DOMAIN queue :
           /\ TickOf(queue[i]) = queue[i].event.made + FirstAge
           /\ queue[i].event.made \in Nat /\ now <= queue[i].event.made + FallbackDelay
    <3>1. \A x \in FirstItems : /\ TickOf(x) = x.event.made + FirstAge
                                /\ x.event.made \in Nat
                                /\ now <= x.event.made + FallbackDelay
      BY Bounds DEF FirstItems, IsOf, TickOf, Queued, Event
    <3> QED
      BY <2>1, <2>3, <3>1, ElementOfSeq
  <2>5. level.since \in 0 .. now
    BY <1>10 DEF Punctual, LevelOK
  <2>6. queue[1].event.made <= level.since
    <3>1. \A x \in FirstItems : x.event.made <= level.since
      BY <1>10 DEF FirstItems
    <3> QED
      BY <2>1, <2>3, <3>1, ElementOfSeq
  <2>7. GameTime + ResetThreshold < FirstAge
    BY <1>2, <2>3, <2>4, <2>5, <2>6, Bounds DEF GameTime, Prompt
  <2>8. Stranded = DOMAIN queue
    <3>1. \A i \in DOMAIN queue : TickOf(queue[i]) > GameTime + ResetThreshold
      <4>1. GameTime \in Int
        BY <1>2 DEF GameTime
      <4> QED
        BY <4>1, <2>4, <2>7, Bounds
    <3> QED
      BY <3>1, <1>8
  <2>9. draining' = WithTail(draining, queue, basis) /\ queue' = <<>>
    <3>1. At(queue, Stranded) = queue
      BY <2>1, <2>8, SelectAll
    <3>2. DOMAIN queue \ Stranded = {}
      BY <2>8
    <3>3. At(queue, DOMAIN queue \ Stranded) = <<>>
      BY <2>1, <3>2, SelectNone
    <3> QED
      BY <1>1, <1>3, <3>1, <3>3 DEF ReleaseStranded
  <2> HIDE DEF basis
  <2>10. /\ ByRelease(draining')
         /\ \E delay \in {Delay, FallbackDelay} : draining' \in Seq(DrainItems(delay))
    BY <1>10, <2>1, <2>2, <2>9, FirstFlushed
  <2>11. DrainOK'
    <3>1. \A delay : DrainItems(delay)' = DrainItems(delay)
      BY <1>2, SameItems
    <3> QED
      BY <1>2, <1>10, <2>10, <3>1 DEF DrainOK, ByRelease
  <2>12. ByTick(queue)' /\ queue' \in Seq(FirstItems')
    BY <2>9, EmptySeq DEF ByTick
  <2>13. Unheard'
    <3>1. level'.number = 2 /\ Tracks(clock', level'.since) /\ queue' = <<>>
      BY <1>2, <1>4, <1>10, <2>9
    <3>2. lastEventClock' # Null => Tracks(lastEventClock', 0 - FirstAge)
      BY <1>1, <1>10 DEF Unheard
    <3> QED
      BY <1>1, <1>2, <1>5, <1>10, <2>12, <3>1, <3>2 DEF Unheard, Online, Tracks
  <2> QED
    BY <1>7, <2>11, <2>12, <2>13 DEF Punctual
<1>11. CASE ~(Unheard /\ level.number = 2 /\ queue # <<>>)
  <2>1. queue \in Seq(FirstItems) \/ queue \in Seq(SecondItems)
    BY DEF Punctual, Unheard, Heard
  <2>2. \A i \in DOMAIN queue : TickOf(queue[i]) <= GameTime
    <3>1. CASE Unheard /\ queue = <<>>
      BY <3>1
    <3>2. CASE Unheard /\ level.number = 1
      <4>1. \A x \in FirstItems : TickOf(x) <= GameTime
        <5>1. level.since = 0 - FirstAge
          BY <3>2 DEF Punctual, LevelOK
        <5> QED
          BY <1>2, <5>1, Bounds DEF FirstItems, IsOf, TickOf, GameTime, Queued, Event
      <4> QED
        BY <3>2, <4>1, LenProperties, ElementOfSeq DEF Unheard
    <3>3. CASE Heard
      <4>1. \A x \in SecondItems : TickOf(x) <= GameTime
        BY <1>2, Bounds DEF SecondItems, IsOf, TickOf, GameTime, Queued, Event
      <4> QED
        BY <3>3, <4>1, LenProperties, ElementOfSeq DEF Heard
    <3> QED
      BY <1>11, <3>1, <3>2, <3>3 DEF Punctual, LevelOK
  <2>3. \A i \in DOMAIN queue : TickOf(queue[i]) \in Int
    <3>1. queue \in Seq(Queued)
      BY WaitingTypes DEF Types
    <3>2. \A x \in Queued : TickOf(x) \in Int
      BY DEF TickOf, Queued, Event
    <3> QED
      BY <3>1, <3>2, LenProperties, ElementOfSeq
  <2>4. Stranded = {}
    <3>1. GameTime \in Int
      BY <1>2 DEF GameTime
    <3>2. \A i \in DOMAIN queue : ~(TickOf(queue[i]) > GameTime + ResetThreshold)
      BY <2>2, <2>3, <3>1, Bounds
    <3> QED
      BY <1>8, <3>2
  <2>5. UNCHANGED bufferVars
    BY <1>1, <1>2, <2>4, NothingStranded
  <2> QED
    BY <1>9, <1>11, <2>5 DEF Punctual, LevelOK
<1> QED
  BY <1>10, <1>11

-----------------------------------------------------------------------------
(* An event is taken in.                                                   *)

\* No tick of the second level is near the last of the first.
LEMMA FarApart ==
    ASSUME Prompt, NEW tick \in Int, tick <= LastEvent, NEW high \in Int, high >= FirstAge
    PROVE  /\ ~(Distance(tick, high) <= StragglerTick)
           /\ high - tick > ResetThreshold
BY Bounds DEF Prompt, Distance

LEMMA EnqueueInOrder ==
    ASSUME NEW item \in Queued, Enqueue(item), ~OldEpochTick(TickOf(item))',
           queue \in Seq(Queued), \A i \in DOMAIN queue : TickOf(queue[i]) <= TickOf(item)
    PROVE  UNCHANGED draining /\ queue' = InsertedByTick(queue, item)
<1> DEFINE reset == /\ queue # <<>>
                    /\ TickOf(Last(queue)) - TickOf(item) > ResetThreshold
           tail == WithTail(draining, queue, TailBasis')
<1>1. ~reset
  <2> SUFFICES ASSUME queue # <<>>
               PROVE  ~(TickOf(queue[Len(queue)]) - TickOf(item) > ResetThreshold)
    BY DEF Last
  <2>1. Len(queue) \in DOMAIN queue
    BY EmptySeq, LenProperties
  <2>2. queue[Len(queue)] \in Queued
    BY <2>1, LenProperties, ElementOfSeq
  <2>3. \A x \in Queued : TickOf(x) \in Int
    BY DEF TickOf, Queued, Event
  <2> QED
    BY <2>1, <2>2, <2>3, Bounds
<1>2. /\ draining' = IF reset THEN tail ELSE draining
      /\ queue' = InsertedByTick(IF reset THEN <<>> ELSE queue, item)
  BY DEF Enqueue
<1> HIDE DEF reset, tail
<1> QED
  BY <1>1, <1>2

LEMMA EnqueueAfterReset ==
    ASSUME NEW item \in Queued, Enqueue(item), ~OldEpochTick(TickOf(item))',
           queue \in Seq(Queued), queue # <<>>,
           \A i \in DOMAIN queue : TickOf(queue[i]) - TickOf(item) > ResetThreshold
    PROVE  /\ draining' = WithTail(draining, queue, TailBasis')
           /\ queue' = InsertedByTick(<<>>, item)
<1> DEFINE reset == /\ queue # <<>>
                    /\ TickOf(Last(queue)) - TickOf(item) > ResetThreshold
           tail == WithTail(draining, queue, TailBasis')
<1>1. reset
  <2>1. Len(queue) \in DOMAIN queue
    BY EmptySeq, LenProperties
  <2> QED
    BY <2>1 DEF Last
<1>2. /\ draining' = IF reset THEN tail ELSE draining
      /\ queue' = InsertedByTick(IF reset THEN <<>> ELSE queue, item)
  BY DEF Enqueue
<1> HIDE DEF reset
<1> QED
  BY <1>1, <1>2

\* A first item of an ordered queue.
LEMMA AloneSorted ==
    ASSUME NEW A, A \subseteq Queued, NEW x \in A
    PROVE  InsertedByTick(<<>>, x) \in Seq(A) /\ ByTick(InsertedByTick(<<>>, x))
<1>1. <<>> \in Seq(A) /\ ByTick(<<>>)
  BY EmptySeq DEF ByTick
<1> QED
  BY <1>1, InsertedByTickType

\* What every event that comes in has in common.
LEMMA Arrives ==
    ASSUME Prompt, Types, Types', Punctual, NEW e \in transit, Ingest(e),
           NEW item, item = [event |-> e, enqueuedAt |-> now]
    PROVE  /\ OnIngestEvent(e) /\ Enqueue(item) /\ UNCHANGED <<now, level>>
           /\ e \in Event /\ item \in Queued
           /\ e.tick = GameTime /\ TickOf(item) = GameTime /\ GameTime \in Int
           /\ now \in Nat /\ now <= LastEvent
           /\ level.number = 1 => item \in FirstItems /\ GameTime = now + FirstAge
           /\ level.number = 2 => item \in SecondItems /\ GameTime <= LastEvent
           /\ LevelOK' /\ TransitOK' /\ ~OtherMap(e)
           /\ queue \in Seq(Queued)
<1>1. /\ OnIngestEvent(e) /\ Enqueue(item) /\ UNCHANGED <<now, level>>
      /\ transit' = transit \ {e}
  BY DEF Ingest
<1>2. /\ now \in Nat /\ level.since \in Int /\ e \in Event
  BY DEF Types, EnvironmentTypes
<1>3. /\ e.made = now /\ now <= LastEvent /\ e.level = level.number /\ e.tick = GameTime
      /\ level.number = 2 => level.since + ReloadTime <= now
  BY DEF Punctual, TransitOK
<1>4. item \in Queued /\ TickOf(item) = GameTime /\ GameTime \in Int
  BY <1>2, <1>3 DEF Queued, TickOf, GameTime
<1>5. LevelOK' /\ TransitOK'
  BY <1>1 DEF Punctual, LevelOK, TransitOK, GameTime
<1>6. level.number = 1 => item \in FirstItems /\ GameTime = now + FirstAge
  <2> SUFFICES ASSUME level.number = 1
               PROVE  item \in FirstItems /\ GameTime = now + FirstAge
    OBVIOUS
  <2>1. level.since = 0 - FirstAge /\ level.number # 2
    BY DEF Punctual, LevelOK
  <2>2. GameTime = now - (0 - FirstAge) /\ GameTime = now + FirstAge
    BY <1>2, <2>1, Bounds DEF GameTime
  <2>3. IsOf(item, 1, 0 - FirstAge)
    BY <1>2, <1>3, <2>2 DEF IsOf
  <2>4. now <= item.event.made + FallbackDelay
    BY <1>2, <1>3, Bounds
  <2> QED
    BY <1>4, <2>1, <2>2, <2>3, <2>4 DEF FirstItems
<1>7. level.number = 2 => item \in SecondItems /\ GameTime <= LastEvent
  <2> SUFFICES ASSUME level.number = 2
               PROVE  item \in SecondItems /\ GameTime <= LastEvent
    OBVIOUS
  <2>1. level.since \in 0 .. now
    BY DEF Punctual, LevelOK
  <2>2. IsOf(item, 2, level.since)
    BY <1>2, <1>3 DEF IsOf, GameTime
  <2>3. now <= MaxOf(item.event.made, level.since + BoardLag) + FallbackDelay
    BY <1>2, <1>3, Bounds DEF MaxOf
  <2>4. GameTime <= LastEvent
    BY <1>2, <1>3, <2>1, Bounds DEF GameTime
  <2>5. level.since + ReloadTime <= item.event.made
    BY <1>3
  <2> QED
    BY <1>4, <2>2, <2>3, <2>4, <2>5 DEF SecondItems
<1>8. ~OtherMap(e)
  <2> SUFFICES ASSUME OtherMap(e) PROVE FALSE
    OBVIOUS
  <2>1. e.map \in Map /\ clock \in HltvClock
    BY <1>2 DEF OtherMap, Types, SyncTypeOK, Event
  <2>2. clock.map \in Map
    BY <2>1 DEF OtherMap, HltvClock
  <2> QED
    BY <2>1, <2>2 DEF OtherMap, Prompt
<1>9. queue \in Seq(Queued)
  BY WaitingTypes DEF Types
<1> QED
  BY <1>1, <1>2, <1>3, <1>4, <1>5, <1>6, <1>7, <1>8, <1>9

LEMMA FirstEventPunctual ==
    ASSUME Prompt, Types, Types', Punctual, NEW e \in transit, Ingest(e), FirstEvent(e)
    PROVE  Punctual'
<1>1. PICK item : item = [event |-> e, enqueuedAt |-> now]
  OBVIOUS
<1>2. /\ Enqueue(item) /\ UNCHANGED <<now, level>> /\ item \in Queued
      /\ e.tick = GameTime /\ TickOf(item) = GameTime /\ GameTime \in Int /\ now \in Nat
      /\ level.number = 1 => item \in FirstItems /\ GameTime = now + FirstAge
      /\ level.number = 2 => item \in SecondItems
      /\ LevelOK' /\ TransitOK' /\ queue \in Seq(Queued)
  BY <1>1, Arrives
<1>3. /\ ~lazyInited /\ lazyInited' /\ highestEventTick' = e.tick /\ BeginSample("other")
      /\ UNCHANGED <<clock, lastEventClock, resetBasis, lastBoundary>>
  BY DEF FirstEvent
<1>4. /\ Unheard /\ clock = Null /\ queue = <<>> /\ draining = <<>>
      /\ lastBoundary = Null /\ resetBasis = Null
      /\ lastEventClock # Null => Tracks(lastEventClock, 0 - FirstAge)
  BY <1>3 DEF Punctual, Unheard, Heard
<1>5. SampleOK'
  BY <1>2, <1>3, BeginsNow DEF Punctual
<1>6. draining' = <<>> /\ queue' = InsertedByTick(<<>>, item)
  <2>1. ~OldEpochTick(TickOf(item))'
    BY <1>3, <1>4 DEF OldEpochTick
  <2>2. \A i \in DOMAIN queue : TickOf(queue[i]) <= TickOf(item)
    BY <1>4
  <2> QED
    BY <1>2, <1>4, <2>1, <2>2, EnqueueInOrder
<1>7. DrainOK'
  <2>1. \A S : <<>> \in Seq(S)
    BY EmptySeq
  <2> QED
    BY <1>6, <2>1 DEF DrainOK, ByRelease
<1>8. FirstItems' = FirstItems /\ SecondItems' = SecondItems
  BY <1>2, SameItems
<1>9. ASSUME NEW A, A \subseteq Queued, item \in A
      PROVE  queue' \in Seq(A) /\ ByTick(queue')
  BY <1>6, <1>9, AloneSorted
<1>10. (clock # Null => clock.calibration = 0)' /\ ~Online'
  BY <1>3, <1>4 DEF Online
<1>11. CASE level.number = 1
  <2>1. queue' \in Seq(FirstItems) /\ ByTick(queue')
    BY <1>2, <1>9, <1>11 DEF FirstItems
  <2>2. highestEventTick' \in FirstAge .. now' + FirstAge
    BY <1>2, <1>3, <1>11, Bounds
  <2>3. lastEventClock' # Null => Tracks(lastEventClock', 0 - FirstAge)
    BY <1>3, <1>4
  <2>4. Unheard'
    BY <1>3, <1>4, <1>6, <1>8, <1>10, <2>1, <2>2, <2>3 DEF Unheard, Tracks
  <2> QED
    BY <1>2, <1>5, <1>7, <1>10, <2>1, <2>4 DEF Punctual, ByTick, TickOf
<1>12. CASE level.number = 2
  <2>1. queue' \in Seq(SecondItems) /\ ByTick(queue')
    BY <1>2, <1>9, <1>12 DEF SecondItems
  <2>2. highestEventTick' \in Int /\ highestEventTick' <= GameTime'
    BY <1>2, <1>3 DEF GameTime
  <2>3. Heard'
    BY <1>2, <1>3, <1>4, <1>8, <1>10, <1>12, <2>1, <2>2 DEF Heard
  <2> QED
    BY <1>2, <1>5, <1>7, <1>10, <2>1, <2>3 DEF Punctual, ByTick, TickOf
<1> QED
  BY <1>11, <1>12 DEF Punctual, LevelOK

\* The first event of the second level: what waits of the first is drained.
LEMMA TickResetPunctual ==
    ASSUME Prompt, Types, Types', Punctual, NEW e \in transit, Ingest(e), TickReset(e)
    PROVE  Punctual'
<1> DEFINE basis == TailBasis'
<1>1. PICK item : item = [event |-> e, enqueuedAt |-> now]
  OBVIOUS
<1>2. /\ Enqueue(item) /\ UNCHANGED <<now, level>> /\ item \in Queued
      /\ e.tick = GameTime /\ TickOf(item) = GameTime /\ GameTime \in Int /\ now \in Nat
      /\ level.number = 1 => GameTime = now + FirstAge
      /\ level.number = 2 => item \in SecondItems /\ GameTime <= LastEvent
      /\ LevelOK' /\ TransitOK' /\ queue \in Seq(Queued)
  BY <1>1, Arrives
<1>3. /\ lazyInited /\ highestEventTick # Null
      /\ highestEventTick - e.tick > ResetThreshold
      /\ Boundary(highestEventTick) /\ BeginSample("other")
      /\ clock' = IF clock = Null THEN Null ELSE [clock EXCEPT !.online = FALSE]
      /\ highestEventTick' = e.tick
      /\ UNCHANGED <<lazyInited, lastEventClock>>
  BY DEF TickReset, IsTickReset
<1>4. Unheard /\ level.number = 2
  <2>1. Heard => highestEventTick \in Int /\ highestEventTick <= GameTime
    BY DEF Heard
  <2>2. Unheard => highestEventTick \in FirstAge .. now + FirstAge
    BY <1>3 DEF Unheard
  <2>3. ~Heard
    BY <1>2, <1>3, <2>1, Bounds
  <2>4. level.number # 1
    BY <1>2, <1>3, <2>2, <2>3, Bounds DEF Punctual
  <2> QED
    BY <2>3, <2>4 DEF Punctual, LevelOK
<1>5. highestEventTick \in Int /\ highestEventTick >= FirstAge
  BY <1>2, <1>3, <1>4, Bounds DEF Unheard
<1>6. SampleOK'
  BY <1>2, <1>3, BeginsNow DEF Punctual
<1>7. /\ lastBoundary' = [at |-> now, preResetHighWater |-> highestEventTick]
      /\ resetBasis' = IF lastEventClock # Null THEN lastEventClock ELSE Null
  BY <1>3, <1>4 DEF Boundary, Unheard
<1>8. (clock # Null => clock.calibration = 0)' /\ ~Online'
  <2>1. clock \in HltvClock \cup {Null}
    BY DEF Types, SyncTypeOK
  <2>2. CASE clock = Null
    BY <1>3, <2>2 DEF Online
  <2>3. CASE clock # Null
    <3>1. clock' = [clock EXCEPT !.online = FALSE] /\ clock \in HltvClock
      BY <1>3, <2>1, <2>3
    <3>2. ~clock'.online /\ clock'.calibration = clock.calibration
      BY <3>1 DEF HltvClock
    <3> QED
      BY <2>3, <3>2 DEF Online, Punctual
  <2> QED
    BY <2>2, <2>3
<1>9. FirstBasis(basis)
  <2>1. basis = lastEventClock
    BY <1>3, <1>7 DEF TailBasis
  <2>2. lastEventClock \in Basis
    BY DEF Types, SyncTypeOK, Basis
  <2> QED
    BY <1>4, <2>1, <2>2 DEF FirstBasis, Unheard
<1> HIDE DEF basis
<1>10. ~OldEpochTick(TickOf(item))'
  <2>1. GameTime <= LastEvent /\ TickOf(item) = GameTime
    BY <1>2, <1>4
  <2>2. ~(Distance(GameTime, highestEventTick) <= StragglerTick)
    BY <1>2, <1>5, <2>1, FarApart
  <2>3. lastBoundary'.preResetHighWater = highestEventTick
    BY <1>7
  <2> QED
    BY <1>2, <2>2, <2>3 DEF OldEpochTick
<1>11. /\ queue' = InsertedByTick(<<>>, item)
       /\ ByRelease(draining')
       /\ \E delay \in {Delay, FallbackDelay} : draining' \in Seq(DrainItems(delay))
  <2>1. CASE queue = <<>>
    <3>1. \A i \in DOMAIN queue : TickOf(queue[i]) <= TickOf(item)
      BY <2>1
    <3>2. UNCHANGED draining /\ queue' = InsertedByTick(queue, item)
      BY <1>2, <1>10, <3>1, EnqueueInOrder
    <3> QED
      BY <2>1, <3>2 DEF Punctual, DrainOK
  <2>2. CASE queue # <<>>
    <3>1. queue \in Seq(FirstItems) /\ draining = <<>>
      BY <1>4, <2>2 DEF Unheard
    <3>2. \A x \in FirstItems : TickOf(x) \in Int /\ TickOf(x) >= FirstAge
      BY Bounds DEF FirstItems, IsOf, TickOf, Queued, Event
    <3>3. \A i \in DOMAIN queue : TickOf(queue[i]) - TickOf(item) > ResetThreshold
      <4> TAKE i \in DOMAIN queue
      <4>1. TickOf(queue[i]) \in Int /\ TickOf(queue[i]) >= FirstAge
        BY <3>1, <3>2, LenProperties, ElementOfSeq
      <4>2. GameTime <= LastEvent
        BY <1>2, <1>4
      <4> QED
        BY <1>2, <4>1, <4>2, FarApart
    <3>4. draining' = WithTail(draining, queue, basis) /\ queue' = InsertedByTick(<<>>, item)
      BY <1>2, <1>10, <2>2, <3>3, EnqueueAfterReset DEF basis
    <3>5. /\ ByRelease(WithTail(draining, queue, basis))
          /\ \E delay \in {Delay, FallbackDelay} :
                WithTail(draining, queue, basis) \in Seq(DrainItems(delay))
      BY <1>2, <1>4, <1>9, <3>1, FirstFlushed
    <3> QED
      BY <3>4, <3>5
  <2> QED
    BY <2>1, <2>2
<1>12. /\ SecondItems' = SecondItems
       /\ \A delay : DrainItems(delay)' = DrainItems(delay)
  BY <1>2, SameItems
<1>13. DrainOK'
  BY <1>2, <1>4, <1>11, <1>12 DEF DrainOK, ByRelease
<1>14. queue' \in Seq(SecondItems) /\ ByTick(queue')
  <2>1. SecondItems \subseteq Queued /\ item \in SecondItems
    BY <1>2, <1>4 DEF SecondItems
  <2> QED
    BY <1>11, <2>1, AloneSorted
<1>15. highestEventTick' \in Int /\ highestEventTick' <= GameTime'
  BY <1>2, <1>3 DEF GameTime
<1>16. lastBoundary'.preResetHighWater >= FirstAge
  BY <1>5, <1>7
<1>17. Heard'
  BY <1>2, <1>3, <1>4, <1>8, <1>12, <1>14, <1>15, <1>16 DEF Heard
<1> QED
  BY <1>2, <1>6, <1>8, <1>13, <1>14, <1>17 DEF Punctual, ByTick, TickOf

LEMMA OrdinaryPunctual ==
    ASSUME Prompt, Types, Types', Punctual, NEW e \in transit, Ingest(e), OrdinaryEvent(e)
    PROVE  Punctual'
<1>1. PICK item : item = [event |-> e, enqueuedAt |-> now]
  OBVIOUS
<1>2. /\ Enqueue(item) /\ UNCHANGED <<now, level>> /\ item \in Queued
      /\ e.tick = GameTime /\ TickOf(item) = GameTime /\ GameTime \in Int /\ now \in Nat
      /\ level.number = 1 => item \in FirstItems /\ GameTime = now + FirstAge
      /\ level.number = 2 => item \in SecondItems /\ GameTime <= LastEvent
      /\ LevelOK' /\ TransitOK' /\ ~OtherMap(e) /\ queue \in Seq(Queued)
  BY <1>1, Arrives
<1>3. /\ lazyInited /\ ~OldEpochTick(e.tick) /\ ~IsTickReset(e)
      /\ highestEventTick' = IF highestEventTick = Null \/ e.tick > highestEventTick
                             THEN e.tick ELSE highestEventTick
      /\ PairWithClock
      /\ UNCHANGED <<clock, lazyInited, inflight, resetBasis, lastBoundary>>
  BY DEF OrdinaryEvent
<1>4. SampleOK' /\ (clock # Null => clock.calibration = 0)'
  BY <1>2, <1>3 DEF Punctual, SampleOK, GameTime
<1>5. /\ FirstItems' = FirstItems /\ SecondItems' = SecondItems
      /\ FirstItems \subseteq Queued /\ SecondItems \subseteq Queued
  BY <1>2, SameItems DEF FirstItems, SecondItems
<1>6. ASSUME ~OldEpochTick(GameTime)', NEW A, A \subseteq Queued, item \in A,
             queue \in Seq(A), \A x \in A : TickOf(x) <= GameTime
      PROVE  DrainOK' /\ ByTick(queue)' /\ queue' \in Seq(A) /\ draining' = draining
  <2>1. \A i \in DOMAIN queue : TickOf(queue[i]) <= TickOf(item)
    BY <1>2, <1>6, LenProperties, ElementOfSeq
  <2>2. ~OldEpochTick(TickOf(item))'
    <3>1. GameTime' = GameTime /\ TickOf(item) = GameTime
      BY <1>2 DEF GameTime
    <3> QED
      BY <1>6, <3>1 DEF OldEpochTick
  <2>3. UNCHANGED draining /\ queue' = InsertedByTick(queue, item)
    BY <1>2, <2>1, <2>2, EnqueueInOrder
  <2>4. queue' \in Seq(A) /\ ByTick(queue')
    BY <1>6, <2>3, InsertedByTickType DEF Punctual
  <2>5. DrainOK'
    BY <1>2, <2>3, SameDrain DEF Punctual
  <2> QED
    BY <2>3, <2>4, <2>5 DEF ByTick, TickOf
<1>7. CASE Unheard
  <2>1. highestEventTick \in Int /\ highestEventTick \in FirstAge .. now + FirstAge
    BY <1>3, <1>7, Bounds DEF Unheard
  <2>2. level.number = 1
    <3> SUFFICES ASSUME level.number = 2 PROVE FALSE
      BY DEF Punctual, LevelOK
    <3>1. highestEventTick - e.tick > ResetThreshold
      BY <1>2, <2>1, FarApart, Bounds
    <3>2. highestEventTick # Null
      BY <2>1, SyncAssumption
    <3> QED
      BY <1>2, <1>3, <3>1, <3>2 DEF IsTickReset
  <2>3. level.since = 0 - FirstAge /\ level.number # 2
    BY <2>2 DEF Punctual, LevelOK
  <2>4. ~OldEpochTick(GameTime)'
    BY <1>3, <1>7 DEF OldEpochTick, Unheard
  <2>5. \A x \in FirstItems : TickOf(x) <= GameTime
    BY <1>2, <2>2, Bounds DEF FirstItems, IsOf, TickOf, Queued, Event
  <2>6. DrainOK' /\ ByTick(queue)' /\ queue' \in Seq(FirstItems) /\ draining' = draining
    BY <1>2, <1>5, <1>6, <1>7, <2>2, <2>4, <2>5 DEF Unheard
  <2>7. draining' = <<>>
    BY <2>2, <2>6 DEF Punctual, DrainOK
  <2>8. highestEventTick' \in FirstAge .. now' + FirstAge
    BY <1>2, <1>3, <2>1, <2>2, Bounds
  <2>9. Online => Tracks(clock, 0 - FirstAge)
    BY <1>7, <2>3 DEF Unheard
  <2>10. lastEventClock' # Null => Tracks(lastEventClock', 0 - FirstAge)
    <3>1. CASE Online
      <4>1. lastEventClock' = BasisOf(clock)
        BY <1>3, <3>1 DEF PairWithClock
      <4> QED
        BY <2>9, <3>1, <4>1 DEF Tracks, BasisOf
    <3>2. CASE ~Online
      <4>1. lastEventClock' = lastEventClock
        BY <1>3, <3>2 DEF PairWithClock
      <4> QED
        BY <1>7, <4>1 DEF Unheard
    <3> QED
      BY <3>1, <3>2
  <2>11. Online' => Tracks(clock', 0 - FirstAge)
    BY <1>3, <2>9 DEF Online
  <2>12. Unheard'
    BY <1>3, <1>5, <1>7, <2>6, <2>7, <2>8, <2>10, <2>11 DEF Unheard, Online, Tracks
  <2> QED
    BY <1>2, <1>4, <2>6, <2>12 DEF Punctual
<1>8. CASE Heard
  <2>1. level.number = 2 /\ highestEventTick \in Int /\ highestEventTick <= GameTime
    BY <1>8 DEF Heard
  <2>2. ~OldEpochTick(GameTime)'
    <3> SUFFICES ASSUME lastBoundary # Null
                 PROVE  ~(Distance(GameTime, lastBoundary.preResetHighWater) <= StragglerTick)
      <4>1. GameTime' = GameTime /\ lastBoundary' = lastBoundary
        BY <1>2, <1>3 DEF GameTime
      <4> QED
        BY <4>1 DEF OldEpochTick
    <3>1. /\ lastBoundary.preResetHighWater \in Int
          /\ lastBoundary.preResetHighWater >= FirstAge
      BY <1>8 DEF Heard, Types, SyncTypeOK
    <3> QED
      BY <1>2, <2>1, <3>1, FarApart
  <2>3. \A x \in SecondItems : TickOf(x) <= GameTime
    <3>1. level.since \in Int
      BY DEF Types, EnvironmentTypes
    <3> QED
      BY <1>2, <3>1 DEF SecondItems, IsOf, TickOf, Queued, Event, GameTime
  <2>4. DrainOK' /\ ByTick(queue)' /\ queue' \in Seq(SecondItems) /\ draining' = draining
    BY <1>2, <1>5, <1>6, <1>8, <2>1, <2>2, <2>3 DEF Heard
  <2>5. highestEventTick' \in Int /\ highestEventTick' <= GameTime'
    BY <1>2, <1>3, <2>1 DEF GameTime
  <2>6. Heard'
    BY <1>2, <1>3, <1>5, <1>8, <2>4, <2>5 DEF Heard, Online, Tracks
  <2> QED
    BY <1>2, <1>4, <2>4, <2>6 DEF Punctual
<1> QED
  BY <1>7, <1>8 DEF Punctual

\* No event is taken for one of the level that ended, and no map changes.
LEMMA IngestPunctual ==
    ASSUME Prompt, Types, Types', Punctual, NEW e \in transit, Ingest(e)
    PROVE  Punctual'
<1>1. PICK item : item = [event |-> e, enqueuedAt |-> now]
  OBVIOUS
<1>2. /\ OnIngestEvent(e) /\ ~OtherMap(e) /\ e.tick = GameTime /\ GameTime \in Int
      /\ level.number = 2 => GameTime <= LastEvent
  BY <1>1, Arrives
<1>3. ~MapChange(e)
  BY <1>2 DEF MapChange
<1>4. ~OldEpochTick(e.tick)
  <2>1. CASE Unheard
    BY <2>1 DEF Unheard, OldEpochTick
  <2>2. CASE Heard
    <3> SUFFICES ASSUME lastBoundary # Null
                 PROVE  ~(Distance(GameTime, lastBoundary.preResetHighWater) <= StragglerTick)
      BY <1>2 DEF OldEpochTick
    <3>1. /\ lastBoundary.preResetHighWater \in Int
          /\ lastBoundary.preResetHighWater >= FirstAge
      BY <2>2 DEF Heard, Types, SyncTypeOK
    <3> QED
      BY <1>2, <2>2, <3>1, FarApart DEF Heard
  <2> QED
    BY <2>1, <2>2 DEF Punctual
<1>5. ~Straggler(e)
  BY <1>4 DEF Straggler
<1> QED
  BY <1>2, <1>3, <1>5, FirstEventPunctual, TickResetPunctual, OrdinaryPunctual
     DEF OnIngestEvent

-----------------------------------------------------------------------------
(* The driver, and time.                                                   *)

LEMMA DrivePunctual ==
    ASSUME Types, Punctual, Drive
    PROVE  Punctual'
<1>1. /\ draining' = SubSeq(draining, DrainDue + 1, Len(draining))
      /\ queue' = SubSeq(queue, QueueDue + 1, Len(queue))
      /\ UNCHANGED syncVars /\ UNCHANGED <<now, envVars>>
  BY DEF Drive, DriverTick
<1>2. /\ DrainDue \in 0 .. Len(draining) /\ QueueDue \in 0 .. Len(queue)
      /\ UNCHANGED <<now, level, transit>>
  BY <1>1, DueFits DEF Types, envVars
<1>3. /\ FirstItems' = FirstItems /\ SecondItems' = SecondItems
      /\ \A delay : DrainItems(delay)' = DrainItems(delay)
  BY <1>2, SameItems
<1>4. /\ draining = <<>> => draining' = <<>>
      /\ queue = <<>> => queue' = <<>>
      /\ ByRelease(draining') /\ ByTick(queue')
  <2>1. queue \in Seq(Queued) /\ draining \in Seq(InDrain)
    BY WaitingTypes DEF Types
  <2>2. ByRelease(draining) /\ ByTick(queue)
    BY DEF Punctual, DrainOK
  <2> QED
    BY <1>1, <1>2, <2>1, <2>2, RestSorted
<1>5. DrainOK'
  <2>1. PICK delay \in {Delay, FallbackDelay} : draining \in Seq(DrainItems(delay))
    BY DEF Punctual, DrainOK
  <2>2. draining' \in Seq(DrainItems(delay))
    BY <1>1, <1>2, <2>1, RestSorted
  <2>3. draining' # <<>> => level'.number = 2
    BY <1>2, <1>4 DEF Punctual, DrainOK
  <2> QED
    BY <1>3, <1>4, <2>2, <2>3 DEF DrainOK, ByRelease
<1>6. LevelOK' /\ TransitOK' /\ SampleOK' /\ (clock # Null => clock.calibration = 0)'
  BY <1>1, <1>2 DEF Punctual, LevelOK, TransitOK, SampleOK, GameTime, syncVars
<1>7. Unheard => Unheard'
  <2> SUFFICES ASSUME Unheard PROVE Unheard'
    OBVIOUS
  <2>1. queue' \in Seq(FirstItems)
    BY <1>1, <1>2, RestSorted DEF Unheard
  <2>2. draining' # <<>> => queue' = <<>>
    BY <1>4 DEF Unheard
  <2> QED
    BY <1>1, <1>2, <1>3, <1>4, <2>1, <2>2 DEF Unheard, Online, Tracks, syncVars
<1>8. Heard => Heard'
  <2> SUFFICES ASSUME Heard PROVE Heard'
    OBVIOUS
  <2>1. queue' \in Seq(SecondItems)
    BY <1>1, <1>2, RestSorted DEF Heard
  <2> QED
    BY <1>1, <1>2, <1>3, <2>1 DEF Heard, Online, Tracks, GameTime, syncVars
<1>9. ByTick(queue)'
  BY <1>4 DEF ByTick, TickOf
<1> QED
  BY <1>5, <1>6, <1>7, <1>8, <1>9 DEF Punctual

\* Of an item of the main queue the clock knows the level: it is released when
\* the broadcast reaches it or, without a clock, after the fallback delay.
LEMMA ReachedWhen ==
    ASSUME Types, Punctual, NEW i \in DOMAIN queue
    PROVE  /\ queue[i].event.made \in Nat /\ TickOf(queue[i]) \in Int
           /\ Reached(queue[i]) <=>
                 now >= queue[i].event.made + IF Online THEN Delay ELSE FallbackDelay
<1> DEFINE x == queue[i]
           since == IF Unheard THEN 0 - FirstAge ELSE level.since
<1>1. now \in Nat /\ level.since \in Int /\ i \in 1 .. Len(queue) /\ queue # <<>>
  <2>1. queue \in Seq(Queued)
    BY WaitingTypes DEF Types
  <2> QED
    BY <2>1, LenProperties, EmptySeq DEF Types, EnvironmentTypes
<1>2. x \in FirstItems \/ x \in SecondItems
  BY <1>1, ElementOfSeq DEF Punctual, Unheard, Heard
<1>3. x \in Queued /\ since \in Int
  BY <1>1, <1>2, Bounds DEF FirstItems, SecondItems
<1>4. x.event.made \in Nat /\ x.enqueuedAt = x.event.made /\ x.event.tick = x.event.made - since
  <2>1. CASE Unheard
    <3>1. x \in FirstItems
      BY <1>1, <2>1, ElementOfSeq DEF Unheard
    <3> QED
      BY <1>3, <2>1, <3>1 DEF FirstItems, IsOf, Queued, Event
  <2>2. CASE ~Unheard
    <3>1. x \in SecondItems
      BY <1>1, <2>2, ElementOfSeq DEF Punctual, Heard
    <3> QED
      BY <1>3, <2>2, <3>1 DEF SecondItems, IsOf, Queued, Event
  <2> QED
    BY <2>1, <2>2
<1>5. Online => Tracks(clock, since)
  BY <1>1 DEF Punctual, Unheard, Heard
<1> HIDE DEF x, since
<1>6. CASE Online
  <2>1. /\ clock.activeTime = clock.sampledAt - since /\ clock.delay = Delay
        /\ clock.calibration = 0 /\ clock.sampledAt \in Nat
    BY <1>5, <1>6 DEF Tracks, Online, Types, SyncTypeOK, HltvClock
  <2>2. BroadcastNow(clock, now) = now - since - Delay
    BY <1>1, <1>3, <2>1, Bounds DEF BroadcastNow
  <2>3. Reached(x) <=> x.event.tick <= now - since - Delay
    BY <1>6, <2>2 DEF Reached, TickOf
  <2>4. Reached(x) <=> now >= x.event.made + Delay
    BY <1>1, <1>3, <1>4, <2>3, Bounds
  <2> QED
    BY <1>3, <1>4, <1>6, <2>4 DEF x, TickOf
<1>7. CASE ~Online
  <2>1. Reached(x) <=> now - x.event.made >= FallbackDelay
    BY <1>4, <1>7 DEF Reached
  <2>2. Reached(x) <=> now >= x.event.made + FallbackDelay
    BY <1>1, <1>4, <2>1, Bounds
  <2> QED
    BY <1>3, <1>4, <1>7, <2>2 DEF x, TickOf
<1> QED
  BY <1>6, <1>7

\* When the driver has nothing to do, what is in front waits.
LEMMA NothingDue ==
    ASSUME Types, Due = <<>>
    PROVE  /\ draining # <<>> => draining[1].releaseAt > now
           /\ draining = <<>> /\ queue # <<>> => ~Reached(queue[1])
<1>1. queue \in Seq(Queued) /\ draining \in Seq(InDrain) /\ now \in Nat
  BY WaitingTypes DEF Types
<1>2. /\ DrainDue \in 0 .. Len(draining) /\ QueueDue \in 0 .. Len(queue)
      /\ Len(draining) \in Nat /\ Len(queue) \in Nat
      /\ DOMAIN draining = 1 .. Len(draining) /\ DOMAIN queue = 1 .. Len(queue)
  BY <1>1, DueFits, LenProperties DEF Types
<1>3. DrainDue = 0 /\ QueueDue = 0
  <2> DEFINE fired == SubSeq(draining, 1, DrainDue)
             reached == SubSeq(queue, 1, QueueDue)
  <2>1. /\ fired \in Seq(InDrain) /\ reached \in Seq(Queued)
        /\ Len(fired) = DrainDue /\ Len(reached) = QueueDue
    BY <1>1, <1>2, Halves
  <2>2. fired \o reached = <<>>
    BY DEF Due
  <2> HIDE DEF fired, reached
  <2>3. fired \in Seq(Queued \cup InDrain) /\ reached \in Seq(Queued \cup InDrain)
    BY <2>1, SeqMonotonic
  <2>4. fired = <<>> /\ reached = <<>>
    BY <2>2, <2>3, ConcatEqualIffEmpty
  <2> QED
    BY <2>1, <2>4, EmptySeq
<1>4. ASSUME draining # <<>> PROVE draining[1].releaseAt > now
  <2>1. Len(draining) > 0
    BY <1>1, <1>2, <1>4, EmptySeq
  <2>2. 1 \notin {i \in DOMAIN draining : draining[i].releaseAt <= now}
    <3> DEFINE good == {i \in DOMAIN draining : draining[i].releaseAt <= now}
    <3>1. Leading(draining, good) = 0
      BY <1>3 DEF DrainDue
    <3> HIDE DEF good
    <3>2. Leading(draining, good) < Len(draining) => Leading(draining, good) + 1 \notin good
      BY <1>1, LeadingStops
    <3>3. 0 + 1 \notin good
      BY <2>1, <3>1, <3>2
    <3> QED
      BY <3>3 DEF good
  <2>3. 1 \in DOMAIN draining /\ draining[1].releaseAt \in Int
    <3>1. 1 \in DOMAIN draining
      BY <1>2, <2>1
    <3>2. draining[1] \in InDrain
      BY <1>1, <1>2, <3>1, ElementOfSeq
    <3> QED
      BY <3>1, <3>2 DEF InDrain
  <2> QED
    BY <1>1, <2>2, <2>3
<1>5. ASSUME draining = <<>>, queue # <<>> PROVE ~Reached(queue[1])
  <2>1. Len(queue) > 0 /\ 1 \in DOMAIN queue
    BY <1>1, <1>2, <1>5, EmptySeq
  <2>2. ~(DrainDue < Len(draining))
    BY <1>3, <1>5
  <2>3. 1 \notin {i \in DOMAIN queue : Reached(queue[i])}
    <3> DEFINE good == {i \in DOMAIN queue : Reached(queue[i])}
    <3>1. Leading(queue, good) = 0
      BY <1>3, <2>2 DEF QueueDue
    <3> HIDE DEF good
    <3>2. Leading(queue, good) < Len(queue) => Leading(queue, good) + 1 \notin good
      BY <1>1, LeadingStops
    <3>3. 0 + 1 \notin good
      BY <2>1, <3>1, <3>2
    <3> QED
      BY <3>3 DEF good
  <2> QED
    BY <2>1, <2>3
<1> QED
  BY <1>4, <1>5

\* A sequence whose elements are all of a kind is one of that kind.
LEMMA AllOf ==
    ASSUME NEW X, NEW s \in Seq(X), NEW Y, \A i \in DOMAIN s : s[i] \in Y
    PROVE  s \in Seq(Y)
<1>1. Len(s) \in Nat /\ DOMAIN s = 1 .. Len(s) /\ s \in [1 .. Len(s) -> X]
  BY LenProperties
<1>2. s = [i \in 1 .. Len(s) |-> s[i]]
  BY <1>1
<1>3. s \in [1 .. Len(s) -> Y]
  BY <1>1, <1>2
<1> QED
  BY <1>1, <1>3

\* Time passes only while nothing is due, and so nothing waits too long.
LEMMA TickPunctual ==
    ASSUME Prompt, Types, Punctual, Tick
    PROVE  Punctual'
<1>1. /\ Due = <<>> /\ InTime /\ now' = now + 1
      /\ UNCHANGED <<syncVars, bufferVars, envVars>>
  BY DEF Tick
<1>2. /\ now \in Nat /\ level.since \in Int /\ UNCHANGED <<level, transit, queue, draining>>
      /\ queue \in Seq(Queued) /\ draining \in Seq(InDrain)
      /\ DOMAIN queue = 1 .. Len(queue) /\ DOMAIN draining = 1 .. Len(draining)
      /\ Len(queue) \in Nat /\ Len(draining) \in Nat
  <2>1. queue \in Seq(Queued) /\ draining \in Seq(InDrain)
    BY WaitingTypes DEF Types
  <2> QED
    BY <1>1, <2>1, LenProperties DEF Types, EnvironmentTypes, envVars, bufferVars
<1>3. transit = {} /\ inflight = Null
  <2>1. \A e \in transit : e.made = now
    BY DEF Punctual, TransitOK
  <2>2. inflight # Null => inflight.sampledAt = now
    BY DEF Punctual, SampleOK
  <2> QED
    BY <1>1, <1>2, <2>1, <2>2 DEF InTime, Prompt
<1>4. LevelOK' /\ TransitOK' /\ SampleOK' /\ (clock # Null => clock.calibration = 0)'
  <2>1. LevelOK'
    BY <1>1, <1>2 DEF Punctual, LevelOK
  <2> QED
    BY <1>1, <1>2, <1>3, <2>1 DEF Punctual, TransitOK, SampleOK, syncVars
<1>5. /\ draining # <<>> => draining[1].releaseAt > now
      /\ draining = <<>> /\ queue # <<>> => ~Reached(queue[1])
  BY <1>1, NothingDue
<1>6. PICK delay \in {Delay, FallbackDelay} : draining \in Seq(DrainItems(delay))
  BY DEF Punctual, DrainOK
<1>7. ASSUME NEW i \in DOMAIN draining
      PROVE  /\ draining[i] \in DrainItems(delay) /\ draining # <<>>
             /\ draining[i].releaseAt \in Int /\ draining[i].releaseAt > now
  <2>1. /\ 1 \in DOMAIN draining /\ i \in 1 .. Len(draining) /\ draining # <<>>
        /\ i = 1 \/ 1 < i
    BY <1>2, EmptySeq
  <2>2. draining[i] \in InDrain /\ draining[1] \in InDrain
    BY <1>2, <2>1, ElementOfSeq
  <2>3. draining[1].releaseAt <= draining[i].releaseAt
    BY <2>1, <2>2 DEF Punctual, DrainOK, ByRelease, InDrain
  <2>4. draining[i] \in DrainItems(delay)
    BY <1>6, <2>1, ElementOfSeq
  <2> QED
    BY <1>2, <1>5, <2>1, <2>2, <2>3, <2>4 DEF InDrain
<1>8. DrainOK'
  <2>1. ASSUME NEW i \in DOMAIN draining PROVE draining[i] \in DrainItems(delay)'
    <3>1. PICK x : x = draining[i]
      OBVIOUS
    <3>2. x \in DrainItems(delay) /\ x.releaseAt > now
      BY <1>7, <3>1
    <3>3. /\ x \in InDrain /\ IsOf(x, 1, 0 - FirstAge) /\ x.event.made <= level.since
          /\ x.releaseAt = x.event.made + delay + Lag(x.event)
          /\ x.event.made \in Nat /\ Lag(x.event) \in Nat
      BY <3>2, Bounds DEF DrainItems, InDrain, Event, Lag
    <3>4. now' <= x.event.made + FallbackDelay + Lag(x.event)
      <4>1. delay <= FallbackDelay /\ delay \in Nat /\ now' = now + 1 /\ now \in Nat
        BY <1>1, <1>2, <1>6, Bounds DEF Prompt
      <4>2. x.releaseAt > now
        BY <3>2
      <4> QED
        BY <3>3, <4>1, <4>2, Bounds
    <3>5. IsOf(x, 1, 0 - FirstAge)'
      BY <1>1, <1>2, <3>3 DEF IsOf
    <3>6. x \in DrainItems(delay)'
      BY <1>2, <3>3, <3>4, <3>5 DEF DrainItems
    <3> QED
      BY <1>2, <3>1, <3>6
  <2>2. draining \in Seq(DrainItems(delay)')
    BY <1>2, <2>1, AllOf
  <2> QED
    BY <1>2, <2>2 DEF Punctual, DrainOK, ByRelease
<1>9. ByTick(queue)'
  BY <1>2, SameQueue DEF Punctual
<1>10. \A i \in DOMAIN queue : /\ queue[i].event.made \in Nat
                               /\ queue[i] \in Queued
  BY <1>2, ReachedWhen, ElementOfSeq
<1>11. ASSUME draining = <<>>, NEW i \in DOMAIN queue,
              NEW since \in Int, \A j \in DOMAIN queue :
                 queue[j].event.tick = queue[j].event.made - since
       PROVE  now < queue[i].event.made + FallbackDelay
  <2>1. 1 \in DOMAIN queue /\ queue # <<>> /\ (i = 1 \/ 1 < i)
    BY <1>2, EmptySeq
  <2>2. now < queue[1].event.made + FallbackDelay
    <3>1. /\ queue[1].event.made \in Nat
          /\ Reached(queue[1]) <=>
                now >= queue[1].event.made + IF Online THEN Delay ELSE FallbackDelay
      BY <2>1, ReachedWhen
    <3>2. ~Reached(queue[1])
      BY <1>5, <1>11, <2>1
    <3> QED
      BY <1>2, <3>1, <3>2, Bounds DEF Prompt
  <2>3. queue[1].event.tick <= queue[i].event.tick
    <3>1. TickOf(queue[1]) \in Int
      BY <2>1, ReachedWhen
    <3> QED
      BY <2>1, <3>1 DEF Punctual, ByTick, TickOf
  <2>4. queue[1].event.made \in Nat /\ queue[i].event.made \in Nat
    BY <1>10, <2>1
  <2>5. queue[1].event.made <= queue[i].event.made
    <3>1. /\ queue[1].event.tick = queue[1].event.made - since
          /\ queue[i].event.tick = queue[i].event.made - since
      BY <1>11, <2>1
    <3> QED
      BY <2>3, <2>4, <3>1
  <2> QED
    BY <1>2, <2>2, <2>4, <2>5, Bounds
<1>12. Unheard => Unheard'
  <2> SUFFICES ASSUME Unheard PROVE Unheard'
    OBVIOUS
  <2>1. \A j \in DOMAIN queue : queue[j] \in FirstItems
    BY <1>2, ElementOfSeq DEF Unheard
  <2>2. ASSUME NEW i \in DOMAIN queue PROVE queue[i] \in FirstItems'
    <3>1. PICK x : x = queue[i]
      OBVIOUS
    <3>2. draining = <<>>
      <4>1. queue # <<>>
        BY <1>2, EmptySeq
      <4> QED
        BY <4>1 DEF Unheard
    <3>3. \A j \in DOMAIN queue : queue[j].event.tick = queue[j].event.made - (0 - FirstAge)
      BY <2>1 DEF FirstItems, IsOf
    <3>4. 0 - FirstAge \in Int
      BY Bounds
    <3>5. now < x.event.made + FallbackDelay
      <4> DEFINE since == 0 - FirstAge
      <4> HIDE DEF since
      <4>1. since \in Int /\ \A j \in DOMAIN queue :
               queue[j].event.tick = queue[j].event.made - since
        BY <3>3, <3>4 DEF since
      <4> QED
        BY <1>11, <3>1, <3>2, <4>1
    <3>6. x \in FirstItems /\ x.event.made \in Nat
      BY <1>10, <2>1, <3>1
    <3>7. now' <= x.event.made + FallbackDelay
      BY <1>1, <1>2, <3>5, <3>6, Bounds
    <3>8. IsOf(x, 1, 0 - FirstAge)'
      BY <1>1, <1>2, <3>6 DEF FirstItems, IsOf
    <3>9. x \in FirstItems'
      BY <1>2, <3>6, <3>7, <3>8 DEF FirstItems
    <3> QED
      BY <1>2, <3>1, <3>9
  <2>3. queue \in Seq(FirstItems')
    BY <1>2, <2>2, AllOf
  <2>4. lazyInited => highestEventTick' \in FirstAge .. now' + FirstAge
    BY <1>1, <1>2, Bounds DEF Unheard, syncVars
  <2> QED
    BY <1>1, <1>2, <2>3, <2>4 DEF Unheard, Online, Tracks, syncVars
<1>13. Heard => Heard'
  <2> SUFFICES ASSUME Heard PROVE Heard'
    OBVIOUS
  <2>1. \A j \in DOMAIN queue : queue[j] \in SecondItems
    BY <1>2, ElementOfSeq DEF Heard
  <2>2. level.since \in 0 .. now
    BY DEF Heard, Punctual, LevelOK
  <2>3. ASSUME NEW i \in DOMAIN queue PROVE queue[i] \in SecondItems'
    <3>1. PICK x : x = queue[i]
      OBVIOUS
    <3>2. x \in SecondItems /\ x.event.made \in Nat
      BY <1>10, <2>1, <3>1
    <3>3. now' <= MaxOf(x.event.made, level.since + BoardLag) + FallbackDelay
      <4>1. CASE draining = <<>>
        <5>1. now < x.event.made + FallbackDelay
          <6> DEFINE since == level.since
          <6>1. since \in Int /\ \A j \in DOMAIN queue :
                   queue[j].event.tick = queue[j].event.made - since
            BY <1>2, <2>1 DEF SecondItems, IsOf
          <6> HIDE DEF since
          <6> QED
            BY <1>11, <3>1, <4>1, <6>1
        <5> QED
          <6>1. /\ now' = now + 1 /\ now \in Nat /\ level.since \in Nat
                /\ x.event.made \in Nat
            BY <1>1, <1>2, <2>2, <3>2
          <6> QED
            BY <5>1, <6>1, Bounds DEF MaxOf
      <4>2. CASE draining # <<>>
        <5> DEFINE y == draining[1]
        <5>1. 1 \in DOMAIN draining
          BY <1>2, <4>2, EmptySeq
        <5>2. y \in DrainItems(delay) /\ y.releaseAt > now /\ y.releaseAt \in Int
          BY <1>7, <5>1
        <5> HIDE DEF y
        <5>3. /\ y.event.made <= level.since /\ y.event.made \in Nat
              /\ y.releaseAt = y.event.made + delay + Lag(y.event)
              /\ Lag(y.event) \in 0 .. BoardLag
          BY <5>2, Bounds DEF DrainItems, InDrain, Event, Lag
        <5>4. now < level.since + BoardLag + FallbackDelay
          <6>1. delay <= FallbackDelay /\ delay \in Nat
            BY Bounds DEF Prompt
          <6>2. level.since \in Nat /\ now \in Nat
            BY <1>2, <2>2
          <6> QED
            BY <5>2, <5>3, <6>1, <6>2, Bounds
        <5> QED
          <6>1. /\ now' = now + 1 /\ now \in Nat /\ level.since \in Nat
                /\ x.event.made \in Nat
            BY <1>1, <1>2, <2>2, <3>2
          <6> QED
            BY <5>4, <6>1, Bounds DEF MaxOf
      <4> QED
        BY <4>1, <4>2
    <3>4. IsOf(x, 2, level.since)'
      BY <1>1, <1>2, <3>2 DEF SecondItems, IsOf, Queued, Event
    <3>5. x \in SecondItems'
      BY <1>2, <3>2, <3>3, <3>4 DEF SecondItems
    <3> QED
      BY <1>2, <3>1, <3>5
  <2>4. queue \in Seq(SecondItems')
    BY <1>2, <2>3, AllOf
  <2>5. highestEventTick' \in Int /\ highestEventTick' <= GameTime'
    BY <1>1, <1>2 DEF Heard, GameTime, syncVars
  <2> QED
    BY <1>1, <1>2, <2>4, <2>5 DEF Heard, Online, Tracks, syncVars
<1> QED
  BY <1>4, <1>8, <1>9, <1>12, <1>13 DEF Punctual

-----------------------------------------------------------------------------
(* The invariant holds all along.                                          *)

LEMMA InitPunctual == Init => Punctual
<1> SUFFICES ASSUME Init PROVE Punctual
  OBVIOUS
<1>1. /\ now = 0 /\ level.number = 1 /\ level.since = 0 - FirstAge /\ transit = {}
      /\ queue = <<>> /\ draining = <<>>
      /\ clock = Null /\ ~lazyInited /\ inflight = Null /\ resetBasis = Null
      /\ lastBoundary = Null /\ lastEventClock = Null
  BY DEF Init, SyncInit, BufferInit
<1>2. LevelOK /\ TransitOK /\ SampleOK
  BY <1>1 DEF LevelOK, TransitOK, SampleOK
<1>3. \A S : <<>> \in Seq(S)
  OBVIOUS
<1>4. DrainOK
  BY <1>1, <1>3 DEF DrainOK, ByRelease
<1>5. ByTick(queue)
  BY <1>1 DEF ByTick
<1>6. Unheard
  BY <1>1, <1>3 DEF Unheard, Online
<1> QED
  BY <1>1, <1>2, <1>4, <1>5, <1>6 DEF Punctual

LEMMA StutterPunctual ==
    ASSUME Punctual, UNCHANGED vars
    PROVE  Punctual'
<1>1. /\ UNCHANGED <<now, bufferVars, level, beliefs>> /\ UNCHANGED inflight
      /\ UNCHANGED transit
  BY DEF vars, syncVars, envVars, beliefs
<1>2. TransitOK' /\ SampleOK'
  BY <1>1 DEF Punctual, TransitOK, SampleOK, GameTime
<1> QED
  BY <1>1, <1>2, QuietPunctual

LEMMA StepPunctual ==
    ASSUME Prompt, Types, Punctual, Next
    PROVE  Punctual'
<1>1. Types'
  BY StepKeeps
<1>2. \A offset \in Offset : ~Calibrate(offset)
  BY DEF Prompt
<1>3. CASE \E board \in BoardFlag : Produce(board)
  BY <1>3, ProducePunctual
<1>4. CASE \E map \in Map : Reload(map)
  BY <1>4, ReloadPunctual
<1>5. CASE Answer
  BY <1>5, AnswerPunctual
<1>6. CASE \E e \in transit : Ingest(e)
  BY <1>1, <1>6, IngestPunctual
<1>7. CASE Beat \/ Resample
  BY <1>7, RequestPunctual
<1>8. CASE Sampled
  BY <1>1, <1>8, SampledPunctual
<1>9. CASE SampleFailed
  BY <1>1, <1>9, FailedPunctual
<1>10. CASE Drive
  BY <1>10, DrivePunctual
<1>11. CASE Tick
  BY <1>11, TickPunctual
<1> QED
  BY <1>2, <1>3, <1>4, <1>5, <1>6, <1>7, <1>8, <1>9, <1>10, <1>11 DEF Next

LEMMA PunctualInv ==
    ASSUME Prompt
    PROVE  Spec => [](Types /\ Punctual)
<1>1. Types /\ Punctual /\ [Next]_vars => Types' /\ Punctual'
  BY StepKeeps, StutterKeepsTypes, StepPunctual, StutterPunctual
<1> QED
  BY InitTypes, InitPunctual, <1>1, PTL DEF Spec

-----------------------------------------------------------------------------
(* What it says of the events that wait and of those that are due.         *)

\* What waits is in the order of the levels and, board events apart, of the
\* ticks in them, and what is due comes first in it.
Earlier(item, other) ==
    /\ item.event.level <= other.event.level
    /\ /\ item.event.level = other.event.level
       /\ ~item.event.board /\ ~other.event.board
       => item.event.tick <= other.event.tick

LEMMA WaitingParts ==
    ASSUME BufferTypes
    PROVE  /\ Len(draining) \in Nat /\ Len(queue) \in Nat
           /\ DOMAIN draining = 1 .. Len(draining) /\ DOMAIN queue = 1 .. Len(queue)
           /\ \A i \in DOMAIN draining : draining[i] \in InDrain
           /\ \A i \in DOMAIN queue : queue[i] \in Queued
           /\ DOMAIN Waiting = 1 .. Len(draining) + Len(queue)
           /\ \A j \in 1 .. Len(draining) + Len(queue) :
                 Waiting[j] = IF j <= Len(draining) THEN draining[j]
                              ELSE queue[j - Len(draining)]
<1>1. /\ queue \in Seq(Queued) /\ draining \in Seq(InDrain)
      /\ queue \in Seq(Queued \cup InDrain) /\ draining \in Seq(Queued \cup InDrain)
  BY WaitingTypes
<1>2. /\ Len(draining) \in Nat /\ Len(queue) \in Nat
      /\ DOMAIN draining = 1 .. Len(draining) /\ DOMAIN queue = 1 .. Len(queue)
  BY <1>1, LenProperties
<1>3. /\ \A i \in DOMAIN draining : draining[i] \in InDrain
      /\ \A i \in DOMAIN queue : queue[i] \in Queued
  BY <1>1, <1>2, ElementOfSeq
<1>4. /\ DOMAIN Waiting = 1 .. Len(draining) + Len(queue)
      /\ \A j \in 1 .. Len(draining) + Len(queue) :
            Waiting[j] = IF j <= Len(draining) THEN draining[j]
                         ELSE queue[j - Len(draining)]
  BY <1>1, <1>2, ConcatProperties, LenProperties DEF Waiting
<1> QED
  BY <1>2, <1>3, <1>4

LEMMA DueParts ==
    ASSUME BufferTypes
    PROVE  /\ DOMAIN Due = 1 .. DrainDue + QueueDue
           /\ DrainDue \in 0 .. Len(draining) /\ QueueDue \in 0 .. Len(queue)
           /\ QueueDue > 0 => DrainDue = Len(draining)
           /\ \A i \in DOMAIN Due : Due[i] = Waiting[i]
           /\ \A i \in 1 .. DrainDue : draining[i].releaseAt <= now
           /\ \A i \in 1 .. QueueDue : Reached(queue[i])
<1> DEFINE fired == SubSeq(draining, 1, DrainDue)
           reached == SubSeq(queue, 1, QueueDue)
<1>1. /\ queue \in Seq(Queued) /\ draining \in Seq(InDrain)
      /\ Len(draining) \in Nat /\ Len(queue) \in Nat
      /\ DrainDue \in 0 .. Len(draining) /\ QueueDue \in 0 .. Len(queue)
      /\ \A j \in 1 .. Len(draining) + Len(queue) :
            Waiting[j] = IF j <= Len(draining) THEN draining[j]
                         ELSE queue[j - Len(draining)]
  BY WaitingTypes, WaitingParts, DueFits
<1>2. QueueDue > 0 => DrainDue = Len(draining)
  BY <1>1 DEF QueueDue
<1>3. \A i \in 1 .. DrainDue : draining[i].releaseAt <= now
  BY <1>1, LeadingStops DEF DrainDue
<1>4. \A i \in 1 .. QueueDue : Reached(queue[i])
  BY <1>1, LeadingStops DEF QueueDue
<1>5. /\ fired \in Seq(InDrain) /\ Len(fired) = DrainDue
      /\ \A i \in 1 .. DrainDue : fired[i] = draining[i]
  BY <1>1, Halves
<1>6. /\ reached \in Seq(Queued) /\ Len(reached) = QueueDue
      /\ \A i \in 1 .. QueueDue : reached[i] = queue[i]
  BY <1>1, Halves
<1>7. Due = fired \o reached
  BY DEF Due
<1> HIDE DEF fired, reached
<1>8. fired \in Seq(Queued \cup InDrain) /\ reached \in Seq(Queued \cup InDrain)
  BY <1>5, <1>6, SeqMonotonic
<1>9. /\ DOMAIN Due = 1 .. DrainDue + QueueDue
      /\ \A i \in 1 .. DrainDue + QueueDue :
            Due[i] = IF i <= DrainDue THEN fired[i] ELSE reached[i - DrainDue]
  BY <1>5, <1>6, <1>7, <1>8, ConcatProperties, LenProperties
<1>10. ASSUME NEW i \in DOMAIN Due PROVE Due[i] = Waiting[i]
  <2>1. i \in 1 .. DrainDue + QueueDue /\ i \in 1 .. Len(draining) + Len(queue)
    BY <1>1, <1>9
  <2>2. CASE i <= DrainDue
    BY <1>1, <1>5, <1>9, <2>1, <2>2
  <2>3. CASE i > DrainDue
    <3>1. i - DrainDue \in 1 .. QueueDue /\ DrainDue = Len(draining)
      BY <1>1, <1>2, <2>1, <2>3
    <3> QED
      BY <1>1, <1>6, <1>9, <2>1, <2>3, <3>1
  <2> QED
    BY <1>1, <2>1, <2>2, <2>3
<1> QED
  BY <1>1, <1>2, <1>3, <1>4, <1>9, <1>10

LEMMA DueIsWaiting ==
    ASSUME BufferTypes, NEW i \in DOMAIN Due
    PROVE  i \in DOMAIN Waiting /\ Due[i] = Waiting[i]
<1> DEFINE n == Len(draining)
           m == Len(queue)
<1>1. n \in Nat /\ m \in Nat /\ DOMAIN Waiting = 1 .. n + m
  BY WaitingParts
<1>2. /\ DrainDue \in 0 .. n /\ QueueDue \in 0 .. m
      /\ i \in 1 .. DrainDue + QueueDue /\ Due[i] = Waiting[i]
  BY DueParts
<1> HIDE DEF n, m
<1> QED
  BY <1>1, <1>2

LEMMA WaitsTyped ==
    ASSUME BufferTypes, NEW j \in DOMAIN Waiting
    PROVE  Waiting[j].event.level \in Nat /\ Waiting[j].event.tick \in Int
<1> DEFINE n == Len(draining)
           m == Len(queue)
<1>1. /\ n \in Nat /\ m \in Nat
      /\ DOMAIN draining = 1 .. n /\ DOMAIN queue = 1 .. m
      /\ \A k \in DOMAIN draining : draining[k] \in InDrain
      /\ \A k \in DOMAIN queue : queue[k] \in Queued
      /\ DOMAIN Waiting = 1 .. n + m
      /\ \A k \in 1 .. n + m : Waiting[k] = IF k <= n THEN draining[k] ELSE queue[k - n]
  BY WaitingParts
<1> HIDE DEF n, m
<1>2. Waiting[j] \in Queued \/ Waiting[j] \in InDrain
  BY <1>1
<1> QED
  BY <1>2 DEF Queued, InDrain, Event

LEMMA WaitsInOrder ==
    ASSUME Prompt, Types, Punctual,
           NEW i \in DOMAIN Waiting, NEW j \in DOMAIN Waiting, i < j
    PROVE  Earlier(Waiting[i], Waiting[j])
<1> DEFINE n == Len(draining)
           m == Len(queue)
<1>1. /\ n \in Nat /\ m \in Nat
      /\ DOMAIN draining = 1 .. n /\ DOMAIN queue = 1 .. m
      /\ draining \in Seq(InDrain) /\ queue \in Seq(Queued)
      /\ \A k \in DOMAIN draining : draining[k] \in InDrain
      /\ \A k \in DOMAIN queue : queue[k] \in Queued
      /\ DOMAIN Waiting = 1 .. n + m
      /\ \A k \in 1 .. n + m : Waiting[k] = IF k <= n THEN draining[k] ELSE queue[k - n]
  BY WaitingTypes, WaitingParts DEF Types
<1> HIDE DEF n, m
<1>2. i \in 1 .. n + m /\ j \in 1 .. n + m
  BY <1>1
<1>3. PICK delay \in {Delay, FallbackDelay} : draining \in Seq(DrainItems(delay))
  BY DEF Punctual, DrainOK
<1>4. \A k \in DOMAIN draining : draining[k] \in DrainItems(delay)
  BY <1>1, <1>3, ElementOfSeq DEF n
<1>5. CASE j <= n
  <2> DEFINE x == draining[i]
             y == draining[j]
  <2>1. i \in DOMAIN draining /\ j \in DOMAIN draining /\ Waiting[i] = x /\ Waiting[j] = y
    BY <1>1, <1>2, <1>5
  <2>2. /\ x \in DrainItems(delay) /\ y \in DrainItems(delay)
        /\ x.releaseAt <= y.releaseAt
    BY <1>4, <2>1 DEF Punctual, DrainOK, ByRelease
  <2> HIDE DEF x, y
  <2>3. /\ x.event.level = 1 /\ y.event.level = 1
        /\ x.event.made \in Nat /\ y.event.made \in Nat
        /\ x.event.tick = x.event.made + FirstAge /\ y.event.tick = y.event.made + FirstAge
        /\ x.releaseAt = x.event.made + delay + Lag(x.event)
        /\ y.releaseAt = y.event.made + delay + Lag(y.event)
    BY <2>2, Bounds DEF DrainItems, IsOf, InDrain, Event
  <2>4. ~x.event.board /\ ~y.event.board => x.event.tick <= y.event.tick
    <3>1. delay \in Nat /\ x.releaseAt <= y.releaseAt
      BY <2>2, Bounds
    <3> QED
      BY <2>3, <3>1, Bounds DEF Lag
  <2> QED
    BY <2>1, <2>3, <2>4 DEF Earlier
<1>6. CASE i <= n /\ n < j
  <2> DEFINE x == draining[i]
             y == queue[j - n]
  <2>1. /\ i \in DOMAIN draining /\ j - n \in DOMAIN queue
        /\ Waiting[i] = x /\ Waiting[j] = y
    BY <1>1, <1>2, <1>6
  <2>2. Heard
    <3>1. draining # <<>> /\ queue # <<>>
      BY <2>1
    <3> QED
      BY <3>1 DEF Punctual, Unheard
  <2>3. x \in DrainItems(delay) /\ y \in SecondItems
    <3>1. queue \in Seq(SecondItems)
      BY <2>2 DEF Heard
    <3> QED
      BY <1>1, <1>4, <2>1, <3>1, ElementOfSeq DEF m
  <2> HIDE DEF x, y
  <2>4. x.event.level = 1 /\ y.event.level = 2
    BY <2>3 DEF DrainItems, SecondItems, IsOf
  <2> QED
    BY <2>1, <2>4 DEF Earlier
<1>7. CASE n < i
  <2> DEFINE x == queue[i - n]
             y == queue[j - n]
  <2>1. /\ i - n \in DOMAIN queue /\ j - n \in DOMAIN queue /\ i - n < j - n
        /\ Waiting[i] = x /\ Waiting[j] = y
    BY <1>1, <1>2, <1>7
  <2>2. x.event.tick <= y.event.tick
    BY <2>1 DEF Punctual, ByTick, TickOf
  <2>3. x.event.level = y.event.level /\ x.event.level \in {1, 2}
    <3>1. CASE Unheard
      <4>1. \A k \in DOMAIN queue : queue[k] \in FirstItems
        BY <1>1, <3>1, ElementOfSeq DEF Unheard, m
      <4> QED
        BY <2>1, <4>1 DEF FirstItems, IsOf
    <3>2. CASE Heard
      <4>1. \A k \in DOMAIN queue : queue[k] \in SecondItems
        BY <1>1, <3>2, ElementOfSeq DEF Heard, m
      <4> QED
        BY <2>1, <4>1 DEF SecondItems, IsOf
    <3> QED
      BY <3>1, <3>2 DEF Punctual
  <2> HIDE DEF x, y
  <2> QED
    BY <2>1, <2>2, <2>3 DEF Earlier
<1> QED
  BY <1>1, <1>2, <1>5, <1>6, <1>7

\* An event that waits came at once, and was made this long ago at most.
LEMMA WaitsBriefly ==
    ASSUME Prompt, Types, Punctual, NEW j \in DOMAIN Waiting
    PROVE  /\ Waiting[j].event.made \in Nat
           /\ Waiting[j].enqueuedAt = Waiting[j].event.made
           /\ now <= Waiting[j].event.made + Delay + Lag(Waiting[j].event) + HeartbeatEvery
<1> DEFINE n == Len(draining)
           m == Len(queue)
<1>1. /\ n \in Nat /\ m \in Nat /\ now \in Nat
      /\ DOMAIN draining = 1 .. n /\ DOMAIN queue = 1 .. m
      /\ draining \in Seq(InDrain) /\ queue \in Seq(Queued)
      /\ DOMAIN Waiting = 1 .. n + m
      /\ \A k \in 1 .. n + m : Waiting[k] = IF k <= n THEN draining[k] ELSE queue[k - n]
  BY WaitingTypes, WaitingParts DEF Types
<1> HIDE DEF n, m
<1>2. PICK x : x = Waiting[j]
  OBVIOUS
<1>3. j \in 1 .. n + m
  BY <1>1
<1>4. now \in Nat /\ FallbackDelay <= Delay + HeartbeatEvery
  BY <1>1 DEF Prompt
<1> DEFINE Briefly == /\ x.event.made \in Nat /\ x.enqueuedAt = x.event.made
                      /\ now <= x.event.made + Delay + Lag(x.event) + HeartbeatEvery
<1>5. CASE j <= n
  <2>1. PICK delay \in {Delay, FallbackDelay} : draining \in Seq(DrainItems(delay))
    BY DEF Punctual, DrainOK
  <2>2. x \in DrainItems(delay)
    BY <1>1, <1>2, <1>3, <1>5, <2>1, ElementOfSeq DEF n
  <2>3. /\ x.event.made \in Nat /\ Lag(x.event) \in Nat /\ x.enqueuedAt = x.event.made
        /\ now <= x.event.made + FallbackDelay + Lag(x.event)
    BY <2>2, Bounds DEF DrainItems, IsOf, InDrain, Event, Lag
  <2> QED
    <3>1. Briefly
      BY <1>4, <2>3, Bounds
    <3> QED
      BY <1>2, <3>1
<1>6. CASE n < j
  <2>1. j - n \in 1 .. m /\ x = queue[j - n]
    BY <1>1, <1>2, <1>3, <1>6
  <2>2. CASE Unheard
    <3>1. x \in FirstItems
      BY <2>1, <2>2, ElementOfSeq DEF Unheard, m
    <3>2. /\ x.event.made \in Nat /\ Lag(x.event) \in Nat /\ x.enqueuedAt = x.event.made
          /\ now <= x.event.made + FallbackDelay
      BY <3>1, Bounds DEF FirstItems, IsOf, Queued, Event, Lag
    <3> QED
      <4>1. Briefly
        BY <1>4, <3>2, Bounds
      <4> QED
        BY <1>2, <4>1
  <2>3. CASE Heard
    <3>1. x \in SecondItems
      BY <2>1, <2>3, ElementOfSeq DEF Heard, m
    <3>2. /\ x.event.made \in Nat /\ Lag(x.event) \in Nat /\ x.enqueuedAt = x.event.made
          /\ level.since + ReloadTime <= x.event.made
          /\ now <= MaxOf(x.event.made, level.since + BoardLag) + FallbackDelay
      BY <3>1, Bounds DEF SecondItems, IsOf, Queued, Event, Lag
    <3>3. level.since \in 0 .. now
      BY <2>3 DEF Heard, Punctual, LevelOK
    <3>4. now <= x.event.made + FallbackDelay \/ now <= level.since + BoardLag + FallbackDelay
      BY <3>2 DEF MaxOf
    <3>5. now <= x.event.made + Delay + HeartbeatEvery
      <4>1. /\ FallbackDelay <= Delay + HeartbeatEvery
            /\ BoardLag + FallbackDelay <= ReloadTime + Delay + HeartbeatEvery
        BY DEF Prompt
      <4>2. /\ now \in Int /\ level.since \in Int /\ x.event.made \in Int
            /\ level.since + ReloadTime <= x.event.made
        BY <1>1, <3>2, <3>3
      <4> QED
        BY <3>4, <4>1, <4>2, Bounds
    <3>6. Briefly
      BY <1>4, <3>2, <3>5, Bounds
    <3> QED
      BY <1>2, <3>6
  <2> QED
    BY <2>2, <2>3 DEF Punctual
<1> QED
  BY <1>1, <1>3, <1>5, <1>6

-----------------------------------------------------------------------------
(* What a viewer of the overlay may rely on.                               *)

\* The overlay is never ahead of the broadcast: when the driver fires an
\* event, from the drain or from the queue, with a clock or without one, the
\* viewers already see the frame it is about.
THEOREM NotEarly ==
    ASSUME Prompt
    PROVE  Spec => []NeverEarly
<1>1. ASSUME Types, Punctual PROVE NeverEarly
  <2> SUFFICES ASSUME NEW i \in DOMAIN Due
               PROVE  now + MaxLatency >= Shown(Due[i].event)
    BY DEF NeverEarly
  <2>1. BufferTypes /\ now \in Nat /\ MaxLatency = 0
    BY <1>1 DEF Types, Prompt
  <2>2. /\ i \in 1 .. DrainDue + QueueDue
        /\ DrainDue \in 0 .. Len(draining) /\ QueueDue \in 0 .. Len(queue)
        /\ QueueDue > 0 => DrainDue = Len(draining)
        /\ Due[i] = Waiting[i]
        /\ \A k \in 1 .. DrainDue : draining[k].releaseAt <= now
        /\ \A k \in 1 .. QueueDue : Reached(queue[k])
    BY <2>1, DueParts
  <2>3. /\ DrainDue \in Nat /\ QueueDue \in Nat /\ i \in Nat
        /\ i <= DrainDue => i \in DOMAIN draining /\ Due[i] = draining[i]
        /\ DrainDue < i => /\ i - DrainDue \in 1 .. QueueDue
                          /\ i - DrainDue \in DOMAIN queue
                          /\ Due[i] = queue[i - DrainDue]
    <3> DEFINE n == Len(draining)
               m == Len(queue)
    <3>1. /\ n \in Nat /\ m \in Nat
          /\ DOMAIN draining = 1 .. n /\ DOMAIN queue = 1 .. m
          /\ \A k \in 1 .. n + m : Waiting[k] = IF k <= n THEN draining[k] ELSE queue[k - n]
          /\ DrainDue \in 0 .. n /\ QueueDue \in 0 .. m
          /\ QueueDue > 0 => DrainDue = n
      BY <2>1, <2>2, WaitingParts
    <3> HIDE DEF n, m
    <3>2. PICK d \in 0 .. n, q \in 0 .. m : d = DrainDue /\ q = QueueDue
      BY <3>1
    <3>3. i \in 1 .. d + q /\ (q > 0 => d = n)
      BY <2>2, <3>1, <3>2
    <3>4. /\ d \in Nat /\ q \in Nat /\ i \in Nat /\ i \in 1 .. n + m
          /\ i <= d => i \in 1 .. n
          /\ d < i => d = n /\ n < i /\ i - n \in 1 .. q /\ i - n \in 1 .. m
      BY <3>1, <3>2, <3>3
    <3> QED
      BY <2>2, <3>1, <3>2, <3>3, <3>4
  <2>4. CASE i <= DrainDue
    <3>1. PICK delay \in {Delay, FallbackDelay} : draining \in Seq(DrainItems(delay))
      BY <1>1 DEF Punctual, DrainOK
    <3>2. PICK x : x = Due[i]
      OBVIOUS
    <3>3. x = draining[i] /\ i \in DOMAIN draining /\ x.releaseAt <= now
      BY <2>2, <2>3, <2>4, <3>2
    <3>4. x \in DrainItems(delay)
      BY <3>1, <3>3, ElementOfSeq, LenProperties
    <3>5. /\ x.event.made \in Nat /\ Lag(x.event) \in Nat
          /\ x.releaseAt = x.event.made + delay + Lag(x.event)
      BY <3>4, Bounds DEF DrainItems, InDrain, Event, Lag
    <3> QED
      BY <2>1, <3>2, <3>3, <3>5, Bounds DEF Shown, Prompt
  <2>5. CASE DrainDue < i
    <3>1. PICK k \in 1 .. QueueDue : Due[i] = queue[k] /\ k \in DOMAIN queue
      BY <2>3, <2>5
    <3>2. /\ queue[k].event.made \in Nat
          /\ Reached(queue[k]) <=>
                now >= queue[k].event.made + IF Online THEN Delay ELSE FallbackDelay
      BY <1>1, <3>1, ReachedWhen
    <3>3. Reached(queue[k]) /\ Delay <= FallbackDelay
      BY <2>2, <3>1 DEF Prompt
    <3>4. now >= queue[k].event.made + Delay
      BY <2>1, <3>2, <3>3, Bounds
    <3> QED
      BY <2>1, <3>1, <3>4 DEF Shown
  <2> QED
    BY <2>3, <2>4, <2>5
<1> QED
  BY <1>1, PunctualInv, PTL

\* Nor far behind it: while an event waits, its frame was shown at most a
\* heartbeat ago, and the lag of the board events on top of that for these,
\* though the proxy may fail at any time.
THEOREM NotLate ==
    ASSUME Prompt
    PROVE  Spec => []BoundedLateness
<1>1. ASSUME Types, Punctual PROVE BoundedLateness
  <2> SUFFICES ASSUME NEW i \in DOMAIN Waiting
               PROVE  LET item == Waiting[i] IN
                      now <= MaxOf(Shown(item.event)
                                     + IF item.event.board THEN BoardLag ELSE 0,
                                   item.enqueuedAt) + HeartbeatEvery
    BY DEF BoundedLateness
  <2>1. PICK x : x = Waiting[i]
    OBVIOUS
  <2>2. /\ x.event.made \in Nat /\ x.enqueuedAt = x.event.made /\ now \in Nat
        /\ now <= x.event.made + Delay + Lag(x.event) + HeartbeatEvery
    BY <1>1, <2>1, WaitsBriefly DEF Types
  <2> QED
    BY <2>1, <2>2, Bounds DEF MaxOf, Shown, Lag
<1> QED
  BY <1>1, PunctualInv, PTL

\* What the rescue of stranded events and the reset of the ticks move to the
\* drain is of the level that ended: no event of the one that runs is ever
\* timed with an old clock.
THEOREM OldDrained ==
    ASSUME Prompt
    PROVE  Spec => []OnlyOldIsDrained
<1>1. ASSUME Types, Punctual PROVE OnlyOldIsDrained
  <2> SUFFICES ASSUME NEW i \in DOMAIN draining
               PROVE  draining[i].event.level < level.number
    BY DEF OnlyOldIsDrained
  <2>1. /\ DOMAIN draining = 1 .. Len(draining) /\ draining # <<>>
    BY <1>1, WaitingParts DEF Types
  <2>2. PICK delay \in {Delay, FallbackDelay} : draining \in Seq(DrainItems(delay))
    BY <1>1 DEF Punctual, DrainOK
  <2>3. draining[i] \in DrainItems(delay)
    BY <2>1, <2>2, ElementOfSeq
  <2>4. draining[i].event.level = 1 /\ level.number = 2
    BY <1>1, <2>1, <2>3 DEF Punctual, DrainOK, DrainItems, IsOf
  <2> QED
    BY <2>4
<1> QED
  BY <1>1, PunctualInv, PTL

\* The overlay shows the end of the old level before the beginning of the new
\* one, and in each of them the events by tick: nothing is fired while what
\* belongs before it waits behind it.
THEOREM InOrder ==
    ASSUME Prompt
    PROVE  Spec => []FiredInOrder
<1>1. ASSUME Types, Punctual PROVE FiredInOrder
  <2>1. BufferTypes
    BY <1>1 DEF Types
  <2>2. ASSUME NEW i \in DOMAIN Due, NEW j \in DOMAIN Waiting
        PROVE  \/ \E k \in 1 .. i - 1 : Due[k] = Waiting[j]
               \/ Earlier(Due[i], Waiting[j])
    <3>1. /\ DOMAIN Due = 1 .. DrainDue + QueueDue
          /\ DrainDue \in Nat /\ QueueDue \in Nat
          /\ DrainDue \in 0 .. Len(draining) /\ QueueDue \in 0 .. Len(queue)
          /\ \A k \in DOMAIN Due : Due[k] = Waiting[k]
          /\ DOMAIN Waiting = 1 .. Len(draining) + Len(queue)
          /\ Len(draining) \in Nat /\ Len(queue) \in Nat
      BY <2>1, DueParts, WaitingParts
    <3>2. i \in Nat /\ j \in Nat /\ i \in DOMAIN Waiting /\ j >= 1
      BY <3>1
    <3>3. CASE j < i
      <4>1. j \in 1 .. i - 1 /\ j \in DOMAIN Due
        BY <3>1, <3>2, <3>3
      <4> QED
        BY <3>1, <4>1
    <3>4. CASE i < j
      BY <1>1, <3>1, <3>2, <3>4, WaitsInOrder
    <3>5. CASE i = j
      <4>1. Due[i] = Waiting[j]
        BY <3>1, <3>5
      <4>2. Due[i].event.level \in Nat /\ Due[i].event.tick \in Int
        BY <2>1, <4>1, WaitsTyped
      <4> QED
        BY <4>1, <4>2 DEF Earlier
    <3> QED
      BY <3>2, <3>3, <3>4, <3>5
  <2>3. ASSUME NEW i \in DOMAIN Due
        PROVE  Due[i].event.level \in Nat /\ Due[i].event.tick \in Int
    BY <2>1, DueIsWaiting, WaitsTyped
  <2>4. EpochOrder
    <3> SUFFICES ASSUME NEW i \in DOMAIN Due, NEW j \in DOMAIN Waiting,
                        Waiting[j].event.level < Due[i].event.level
                 PROVE  \E k \in 1 .. i - 1 : Due[k] = Waiting[j]
      BY DEF EpochOrder
    <3>1. ~Earlier(Due[i], Waiting[j])
      BY <2>1, <2>3, WaitsTyped DEF Earlier
    <3> QED
      BY <2>2, <3>1
  <2>5. TickOrder
    <3> SUFFICES ASSUME NEW i \in DOMAIN Due, NEW j \in DOMAIN Waiting,
                        ~Due[i].event.board, ~Waiting[j].event.board,
                        Waiting[j].event.level = Due[i].event.level,
                        Waiting[j].event.tick < Due[i].event.tick
                 PROVE  \E k \in 1 .. i - 1 : Due[k] = Waiting[j]
      BY DEF TickOrder
    <3>1. ~Earlier(Due[i], Waiting[j])
      BY <2>1, <2>3, WaitsTyped DEF Earlier
    <3> QED
      BY <2>2, <3>1
  <2> QED
    BY <2>4, <2>5 DEF FiredInOrder
<1> QED
  BY <1>1, PunctualInv, PTL
=============================================================================

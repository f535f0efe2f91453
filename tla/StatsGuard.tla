----------------------------- MODULE StatsGuard ------------------------------
(***************************************************************************)
(* statsdb/guard.ts behind serveStats of app.ts: the rate limit, the cache,*)
(* the concurrency cap and the circuit breaker that a request for career   *)
(* numbers has to pass before it may query the database that the rest of   *)
(* the data server lives on.                                               *)
(*                                                                         *)
(* A request is handled in one go up to its query, and the answer of the   *)
(* query in one go after it; in between, others are handled. Instants are  *)
(* kept as ages, in whole units and no further than the code tells them    *)
(* apart, so that time has no end here.                                    *)
(***************************************************************************)
EXTENDS Integers, FiniteSets, Functions

CONSTANTS
    Caller,             \* requests that may be under way at a time
    Ip,                 \* client addresses
    Key,                \* cache keys
    Null,
    FailureThreshold,   \* failureThreshold
    OpenFor,            \* openMs
    SlowAfter,          \* slowCallMs
    MaxConcurrent,      \* maxConcurrent
    RateLimit,          \* rateLimit
    RateWindow,         \* rateWindowMs
    Ttl,                \* the TTL_ constants of app.ts
    CacheLimit,         \* the 500 of setCached
    MaxCall             \* environment: connectTimeout and the timeout of a query

\* A call is over long before the breaker half-opens: the driver gives up
\* after connectTimeout and then MAX_EXECUTION_TIME_MS + 1000.
ASSUME GuardAssumption ==
    /\ {FailureThreshold, MaxConcurrent, RateLimit, RateWindow} \subseteq Nat \ {0}
    /\ {OpenFor, SlowAfter, Ttl, CacheLimit, MaxCall} \subseteq Nat
    /\ MaxCall < OpenFor
    /\ Null \notin Nat
    /\ IsFiniteSet(Caller)

VARIABLES
    state,           \* state
    failures,        \* failures
    openAge,         \* time since openedAt, no further than OpenFor
    probeInFlight,   \* probeInFlight
    inFlight,        \* inFlight
    hits,            \* hits: the count of each address, and what is left of its window
    cache,           \* cache: the age of each entry, no further than Ttl + 1
    call,            \* queries under way: key, age, and whether run saw half-open
    admitted,        \* history: requests let through, by address and by age
    sick             \* environment: may queries fail or stall? The database is
                     \* in trouble, or the pool has no connection to give.

breaker == <<state, failures, openAge, probeInFlight>>
vars == <<breaker, inFlight, hits, cache, call, admitted, sick>>

Call == [key : Key, age : Nat, probe : BOOLEAN]
ASSUME SentinelAssumption == Null \notin Call
Running == {c \in Caller : call[c] # Null}
Age == 0 .. RateWindow - 1

TypeOK ==
    /\ state \in {"closed", "open", "half-open"}
    /\ failures \in 0 .. FailureThreshold - 1
    /\ openAge \in 0 .. OpenFor
    /\ probeInFlight \in BOOLEAN /\ sick \in BOOLEAN
    /\ inFlight \in Nat
    /\ hits \in [Ip -> [count : 0 .. RateLimit, left : 0 .. RateWindow]]
    /\ cache \in [Key -> 0 .. Ttl + 1 \cup {Null}]
    /\ call \in [Caller -> Call \cup {Null}]
    /\ admitted \in [Ip -> [Age -> Nat]]

Init ==
    /\ state = "closed" /\ failures = 0 /\ openAge = 0 /\ probeInFlight = FALSE
    /\ inFlight = 0
    /\ hits = [i \in Ip |-> [count |-> 0, left |-> 0]]
    /\ cache = [k \in Key |-> Null]
    /\ call = [c \in Caller |-> Null]
    /\ admitted = [i \in Ip |-> [a \in Age |-> 0]]
    /\ sick = TRUE

-----------------------------------------------------------------------------
(* allowRate: a fixed window for each address. An entry whose window is    *)
(* over is as good as none, so pruning such entries changes nothing.       *)

\* Mutant: one more than the limit gets through.
Allowed_OneMore(i) == hits[i].left = 0 \/ hits[i].count <= RateLimit

Allowed(i) == hits[i].left = 0 \/ hits[i].count < RateLimit

CountHit(i) ==
    /\ hits' = [hits EXCEPT ![i] =
                  IF hits[i].left = 0 THEN [count |-> 1, left |-> RateWindow]
                  ELSE [hits[i] EXCEPT !.count = @ + 1]]
    /\ admitted' = [admitted EXCEPT ![i][0] = @ + 1]

-----------------------------------------------------------------------------
(* getCached and setCached                                                 *)

Fresh(k) == cache[k] # Null /\ cache[k] <= Ttl

Entries == {k \in Key : cache[k] # Null}
Oldest(k) == \A other \in Entries : cache[other] <= cache[k]

\* A full cache gives up its oldest entry first.
SetCached(k) ==
    IF Cardinality(Entries) > CacheLimit
    THEN \E old \in {e \in Entries : Oldest(e)} :
            cache' = [[cache EXCEPT ![old] = Null] EXCEPT ![k] = 0]
    ELSE cache' = [cache EXCEPT ![k] = 0]

-----------------------------------------------------------------------------
(* getState: the breaker half-opens when somebody looks.                   *)

\* Mutant: it half-opens at once.
Ripe_AtOnce == state = "open"

Ripe == state = "open" /\ openAge >= OpenFor
StateSeen == IF Ripe THEN "half-open" ELSE state
ProbeSeen == probeInFlight /\ ~Ripe

See ==
    /\ state' = StateSeen
    /\ probeInFlight' = ProbeSeen
    /\ UNCHANGED <<failures, openAge>>

\* Mutant: the concurrency cap is not asked when the breaker is closed.
Shed_NoCap == StateSeen = "open" \/ (StateSeen = "half-open" /\ ProbeSeen)

\* run refuses
Shed ==
    \/ StateSeen = "open"
    \/ StateSeen = "half-open" /\ ProbeSeen
    \/ StateSeen = "closed" /\ inFlight >= MaxConcurrent

-----------------------------------------------------------------------------
(* serveStats, up to the query                                             *)

RateLimited(i) == ~Allowed(i) /\ UNCHANGED vars

CacheHit(i, k) ==
    /\ Allowed(i) /\ CountHit(i)
    /\ Fresh(k)
    /\ UNCHANGED <<breaker, inFlight, cache, call, sick>>

\* getCached has dropped an entry that is no longer fresh.
CacheMiss(i, k) ==
    /\ Allowed(i) /\ CountHit(i)
    /\ ~Fresh(k)
    /\ cache' = [cache EXCEPT ![k] = Null]

Refuse(i, k) ==
    /\ CacheMiss(i, k)
    /\ Shed
    /\ See
    /\ UNCHANGED <<inFlight, call, sick>>

Begin(c, i, k) ==
    /\ call[c] = Null
    /\ CacheMiss(i, k)
    /\ ~Shed
    /\ state' = StateSeen
    /\ probeInFlight' = (ProbeSeen \/ StateSeen = "half-open")
    /\ inFlight' = inFlight + 1
    /\ call' = [call EXCEPT ![c] =
                  [key |-> k, age |-> 0, probe |-> StateSeen = "half-open"]]
    /\ UNCHANGED <<failures, openAge, sick>>

-----------------------------------------------------------------------------
(* run and serveStats, from the answer of the query                        *)

\* Mutant: a success only clears the count of failures.
RecordSuccess_CountOnly == failures' = 0 /\ UNCHANGED <<state, openAge>>

RecordSuccess ==
    /\ failures' = 0
    /\ state' = "closed"
    /\ UNCHANGED openAge

RecordFailure ==
    IF state = "half-open" \/ failures + 1 >= FailureThreshold
    THEN state' = "open" /\ openAge' = 0 /\ failures' = 0
    ELSE failures' = failures + 1 /\ UNCHANGED <<state, openAge>>

Finish(c) ==
    /\ inFlight' = inFlight - 1
    /\ call' = [call EXCEPT ![c] = Null]
    /\ probeInFlight' = (probeInFlight /\ ~call[c].probe)

Slow(c) == call[c].age >= SlowAfter

\* A slow answer is served and cached like any other, but counts as a
\* failure; an answer that nothing was found is not cached.
Answer(c, found) ==
    /\ call[c] # Null
    /\ IF Slow(c) THEN RecordFailure ELSE RecordSuccess
    /\ Finish(c)
    /\ IF found THEN SetCached(call[c].key) ELSE UNCHANGED cache
    /\ UNCHANGED <<hits, admitted, sick>>

\* An error of the database, a timeout, or a pool without a free connection.
Fail(c) ==
    /\ call[c] # Null /\ sick
    /\ RecordFailure
    /\ Finish(c)
    /\ UNCHANGED <<hits, cache, admitted, sick>>

\* The guard's diagnostics are asked for.
Snapshot == See /\ UNCHANGED <<inFlight, hits, cache, call, admitted, sick>>

-----------------------------------------------------------------------------
(* The environment                                                         *)

Heal ==
    /\ sick /\ sick' = FALSE
    /\ UNCHANGED <<breaker, inFlight, hits, cache, call, admitted>>

\* No call outlives its timeouts, and without trouble no call is slow.
Tick ==
    /\ \A c \in Running :
          /\ call[c].age < MaxCall
          /\ ~sick => call[c].age + 1 # SlowAfter
    /\ openAge' = IF openAge < OpenFor THEN openAge + 1 ELSE openAge
    /\ hits' = [i \in Ip |-> [hits[i] EXCEPT !.left = IF @ > 0 THEN @ - 1 ELSE 0]]
    /\ cache' = [k \in Key |-> IF cache[k] \in 0 .. Ttl THEN cache[k] + 1 ELSE cache[k]]
    /\ call' = [c \in Caller |->
                  IF call[c] = Null THEN Null ELSE [call[c] EXCEPT !.age = @ + 1]]
    /\ admitted' = [i \in Ip |-> [a \in Age |-> IF a = 0 THEN 0 ELSE admitted[i][a - 1]]]
    /\ UNCHANGED <<state, failures, probeInFlight, inFlight, sick>>

Request ==
    \E i \in Ip, k \in Key :
        \/ RateLimited(i) \/ CacheHit(i, k) \/ Refuse(i, k)
        \/ \E c \in Caller : Begin(c, i, k)

Answered(c) == Fail(c) \/ \E found \in BOOLEAN : Answer(c, found)

Next == Request \/ Snapshot \/ Heal \/ Tick \/ \E c \in Caller : Answered(c)

Spec == Init /\ [][Next]_vars

\* Queries come back, time passes, and clients that were refused ask again
\* (app.ts:207-208, "A client must back off and retry"): whenever a query is
\* possible again and again, one is begun.
FairSpec ==
    /\ Spec
    /\ WF_vars(Tick)
    /\ \A c \in Caller : WF_vars(Answered(c))
    /\ SF_vars(\E c \in Caller, i \in Ip, k \in Key : Begin(c, i, k))

-----------------------------------------------------------------------------
\* guard.ts:134-136: while the breaker is half-open exactly one query is let
\* through; also of those begun before the breaker tripped none is left, so
\* the probe is the only load on a database that was unwell.
OneProbe == state = "half-open" => Cardinality(Running) <= 1

\* No more queries are under way than the cap allows, although a probe is let
\* through without asking it.
Capped == Cardinality(Running) <= MaxConcurrent

\* guard.ts:82-86: the worst case of the fixed window is twice the limit.
AtMostTwiceTheLimit ==
    \A i \in Ip : SumFunction(admitted[i]) <= 2 * RateLimit

\* Once queries neither fail nor stall any more the breaker closes: no probe that
\* failed, was slow or was overtaken leaves it half-open or open for good.
Recovers == ~sick ~> state = "closed"
=============================================================================

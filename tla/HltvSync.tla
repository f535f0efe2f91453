------------------------------ MODULE HltvSync -------------------------------
(***************************************************************************)
(* handler/hltvSync.ts: what the backend believes about the broadcast      *)
(* clock of one game server's HLTV proxy. The service keeps nothing that   *)
(* two servers share, so one server is the whole of it.                    *)
(*                                                                         *)
(* Times are whole units and not milliseconds. A sample takes time: it is  *)
(* stamped when it begins, answered by the proxy somewhere in between, and *)
(* adopted when it ends; only one is under way at a time. Everything else  *)
(* in the service is synchronous.                                          *)
(***************************************************************************)
EXTENDS Integers

CONSTANTS
    Map,              \* map names
    Null,             \* null, undefined, no entry
    ResetThreshold,   \* TICK_RESET_THRESHOLD_S
    StragglerWall,    \* STRAGGLER_WALL_WINDOW_MS
    StragglerTick,    \* STRAGGLER_TICK_WINDOW_S
    CoastGrace,       \* coast_grace_seconds
    FallbackDelay     \* fallback_delay_seconds

ASSUME SyncAssumption ==
    /\ {ResetThreshold, StragglerWall, StragglerTick, CoastGrace, FallbackDelay}
         \subseteq Nat
    /\ Null \notin Int \cup Map

VARIABLES
    now,               \* Date.now()
    clock,             \* clocks: the last HltvClock, Null before the first sample ended
    lazyInited,        \* lazyInited: has an event of the server been seen?
    inflight,          \* inflight: the sample under way, and the status it has read
    highestEventTick,  \* highestEventTick
    lastEventClock,    \* lastEventClock
    resetBasis,        \* resetBasis
    lastBoundary       \* lastBoundary

syncVars == <<clock, lazyInited, inflight, highestEventTick, lastEventClock,
              resetBasis, lastBoundary>>

ClockBasis == [activeTime : Int, sampledAt : Nat, delay : Nat, calibration : Int]
HltvClock ==
    [activeTime : Int, sampledAt : Nat, delay : Nat, calibration : Int,
     map : Map \cup {Null}, online : BOOLEAN, lastError : BOOLEAN]
Status == [activeTime : Int, delay : Nat, map : Map]
Sample == [sampledAt : Nat, reason : {"map_change", "other"}, status : Status \cup {Null}]

SyncTypeOK ==
    /\ clock \in HltvClock \cup {Null}
    /\ lazyInited \in BOOLEAN
    /\ inflight \in Sample \cup {Null}
    /\ highestEventTick \in Int \cup {Null}
    /\ {lastEventClock, resetBasis} \subseteq ClockBasis \cup {Null}
    /\ lastBoundary \in [at : Nat, preResetHighWater : Int] \cup {Null}

SyncInit ==
    /\ clock = Null
    /\ lazyInited = FALSE
    /\ inflight = Null
    /\ highestEventTick = Null
    /\ lastEventClock = Null
    /\ resetBasis = Null
    /\ lastBoundary = Null

-----------------------------------------------------------------------------
Online == clock # Null /\ clock.online

\* The tick the broadcast's viewers see at time t, if c is right.
BroadcastNow(c, t) == c.activeTime + (t - c.sampledAt) - c.delay + c.calibration

\* The same solved for t: when they see a tick.
ReachesAt(c, tick) == c.sampledAt + (tick - c.activeTime + c.delay) - c.calibration

BasisOf(c) ==
    [activeTime |-> c.activeTime, sampledAt |-> c.sampledAt,
     delay |-> c.delay, calibration |-> c.calibration]

TailBasis == IF resetBasis # Null THEN resetBasis ELSE lastEventClock

Distance(a, b) == IF a > b THEN a - b ELSE b - a

\* Mutant: a forward jump is enough to take a tick for the ended level's.
OldEpochTick_AnyJump(tick) ==
    /\ lastBoundary # Null
    /\ highestEventTick # Null => tick - highestEventTick > ResetThreshold

\* Does a tick belong to the level that ended at the last boundary?
OldEpochTick(tick) ==
    /\ lastBoundary # Null
    /\ now - lastBoundary.at <= StragglerWall
    /\ highestEventTick # Null => tick - highestEventTick > ResetThreshold
    /\ Online => tick > clock.activeTime + (now - clock.sampledAt) + ResetThreshold
    /\ Distance(tick, lastBoundary.preResetHighWater) <= StragglerTick

-----------------------------------------------------------------------------
\* A sample begins, unless one is under way: then that one has to do. Of the
\* reasons for one only "map_change" is ever asked for.
BeginSample(reason) ==
    inflight' = IF inflight # Null THEN inflight
                ELSE [sampledAt |-> now, reason |-> reason, status |-> Null]

Boundary(highWater) ==
    /\ lastBoundary' = [at |-> now, preResetHighWater |-> highWater]
    /\ resetBasis' = IF lastEventClock # Null THEN lastEventClock ELSE resetBasis

PairWithClock ==
    lastEventClock' = IF Online THEN BasisOf(clock) ELSE lastEventClock

(* onIngestEvent, which is told of every event before it is enqueued.      *)

FirstEvent(e) ==
    /\ ~lazyInited
    /\ lazyInited' = TRUE
    /\ highestEventTick' = e.tick
    /\ BeginSample("other")
    /\ UNCHANGED <<clock, lastEventClock, resetBasis, lastBoundary>>

OtherMap(e) == clock # Null /\ Null \notin {e.map, clock.map} /\ e.map # clock.map

\* Mutant: the boundary is noted though no tick was seen since the last.
MapChange_NoTick(e) ==
    /\ lazyInited /\ OtherMap(e)
    /\ Boundary(highestEventTick)
    /\ highestEventTick' = Null
    /\ BeginSample("map_change")
    /\ PairWithClock
    /\ UNCHANGED <<clock, lazyInited>>

MapChange(e) ==
    /\ lazyInited /\ OtherMap(e)
    /\ IF highestEventTick # Null
       THEN Boundary(highestEventTick)
       ELSE /\ resetBasis' = IF lastEventClock # Null THEN lastEventClock ELSE resetBasis
            /\ UNCHANGED lastBoundary
    /\ highestEventTick' = Null
    /\ BeginSample("map_change")
    /\ PairWithClock
    /\ UNCHANGED <<clock, lazyInited>>

Straggler(e) ==
    /\ lazyInited /\ ~OtherMap(e) /\ OldEpochTick(e.tick)
    /\ UNCHANGED syncVars

IsTickReset(e) ==
    /\ lazyInited /\ ~OtherMap(e) /\ ~OldEpochTick(e.tick)
    /\ highestEventTick # Null /\ highestEventTick - e.tick > ResetThreshold

\* Mutant: the clock of the ended level stays online.
TickReset_StaysOnline(e) ==
    /\ IsTickReset(e)
    /\ Boundary(highestEventTick)
    /\ highestEventTick' = e.tick
    /\ BeginSample("other")
    /\ UNCHANGED <<clock, lazyInited, lastEventClock>>

TickReset(e) ==
    /\ IsTickReset(e)
    /\ Boundary(highestEventTick)
    /\ clock' = IF clock = Null THEN Null ELSE [clock EXCEPT !.online = FALSE]
    /\ highestEventTick' = e.tick
    /\ BeginSample("other")
    /\ UNCHANGED <<lazyInited, lastEventClock>>

OrdinaryEvent(e) ==
    /\ lazyInited /\ ~OtherMap(e) /\ ~OldEpochTick(e.tick) /\ ~IsTickReset(e)
    /\ highestEventTick' = IF highestEventTick = Null \/ e.tick > highestEventTick
                           THEN e.tick ELSE highestEventTick
    /\ PairWithClock
    /\ UNCHANGED <<clock, lazyInited, inflight, resetBasis, lastBoundary>>

OnIngestEvent(e) ==
    \/ FirstEvent(e) \/ MapChange(e) \/ Straggler(e) \/ TickReset(e) \/ OrdinaryEvent(e)

-----------------------------------------------------------------------------
(* sample                                                                  *)

\* The start of a match, a drift report and a manual request ask for a sample.
RequestSample ==
    /\ BeginSample("other")
    /\ UNCHANGED <<clock, lazyInited, highestEventTick, lastEventClock, resetBasis,
                   lastBoundary>>

\* The timer asks for the servers that have sent an event.
Heartbeat == IF lazyInited THEN RequestSample ELSE UNCHANGED syncVars

\* The proxy's answer; the recording state is fetched after it.
StatusRead(status) ==
    /\ inflight # Null /\ inflight.status = Null
    /\ inflight' = [inflight EXCEPT !.status = status]
    /\ UNCHANGED <<clock, lazyInited, highestEventTick, lastEventClock, resetBasis,
                   lastBoundary>>

SampleSucceeds ==
    /\ inflight # Null /\ inflight.status # Null
    /\ clock' = [activeTime  |-> inflight.status.activeTime,
                 sampledAt   |-> inflight.sampledAt,
                 delay       |-> inflight.status.delay,
                 calibration |-> IF clock = Null THEN 0 ELSE clock.calibration,
                 map         |-> inflight.status.map,
                 online      |-> TRUE,
                 lastError   |-> FALSE]
    /\ inflight' = Null
    /\ UNCHANGED <<lazyInited, highestEventTick, lastEventClock, resetBasis, lastBoundary>>

CanCoast ==
    /\ Online /\ inflight.reason # "map_change"
    /\ inflight.sampledAt - clock.sampledAt <= CoastGrace

SampleFails ==
    /\ inflight # Null /\ inflight.status = Null
    /\ clock' = IF clock = Null
                THEN [activeTime |-> 0, sampledAt |-> inflight.sampledAt,
                      delay |-> FallbackDelay, calibration |-> 0, map |-> Null,
                      online |-> FALSE, lastError |-> TRUE]
                ELSE [clock EXCEPT !.online = CanCoast, !.lastError = TRUE]
    /\ inflight' = Null
    /\ UNCHANGED <<lazyInited, highestEventTick, lastEventClock, resetBasis, lastBoundary>>

\* A caster's correction of the clock.
SetCalibrationOffset(offset) ==
    /\ clock # Null
    /\ clock' = [clock EXCEPT !.calibration = offset]
    /\ UNCHANGED <<lazyInited, inflight, highestEventTick, lastEventClock, resetBasis,
                   lastBoundary>>
=============================================================================

----------------------------- MODULE HltvRelease -----------------------------
(***************************************************************************)
(* The broadcast-synchronised release of one server's events: the game     *)
(* server that produces them, the network that delays them, the HLTV proxy *)
(* that shows each frame "Delay" later, and between them the ingest route, *)
(* HltvSync, HltvDelayBuffer and the rescue that app.ts wires from the one *)
(* to the other.                                                           *)
(*                                                                         *)
(* The level the server runs is reloaded at half time, in overtime and     *)
(* between matches: ticks, seconds since the level was loaded, then begin  *)
(* again at 0, and the broadcast is still at the end of the old level. The *)
(* five properties at the end are the contract that the repository's own   *)
(* tests state for this subsystem (__tests__/helpers/hltvHarness.ts,       *)
(* checkInvariants); a test drives one timeline, TLC all those of a size.  *)
(***************************************************************************)
EXTENDS HltvDelayBuffer, FiniteSets

CONSTANTS
    Delay,           \* how far the broadcast is behind the game
    BoardFlag,       \* can events be board events? a subset of BOOLEAN
    Offset,          \* calibration offsets a caster may set
    HeartbeatEvery,  \* heartbeat_seconds
    Failing,         \* can the proxy fail to answer?
    EarlyRequests,   \* environment: is a sample requested before the first event?
    MaxLatency,      \* environment: the longest a sample takes
    MaxStall,        \* environment: the longest a POST takes
    ReloadTime,      \* environment: no event is produced this long after a reload
    FirstAge,        \* environment: the age of the first level at the start
    MinAge,          \* environment: how long a level is played at least
    MaxLevels,       \* bound: levels
    MaxEvents,       \* bound: events
    LastEvent,       \* bound: no event or reload after this time
    Horizon          \* bound: the clock stops here

ASSUME ReleaseAssumption ==
    /\ {Delay, HeartbeatEvery, MaxLatency, MaxStall, ReloadTime, FirstAge, MinAge,
        MaxLevels, MaxEvents, LastEvent, Horizon} \subseteq Nat
    /\ {Failing, EarlyRequests} \cup BoardFlag \subseteq BOOLEAN
    /\ Offset \subseteq Int

VARIABLES
    level,     \* the level the server runs: its number, its map, when it was loaded
    transit,   \* events on their way to the backend
    sent,      \* how many events were produced
    lastBeat   \* when the heartbeat timer last fired

envVars == <<level, transit, sent, lastBeat>>
vars == <<now, syncVars, bufferVars, envVars>>

GameTime == now - level.since

Init ==
    /\ now = 0
    /\ SyncInit /\ BufferInit
    /\ \E map \in Map : level = [number |-> 1, map |-> map, since |-> 0 - FirstAge]
    /\ transit = {}
    /\ sent = 0
    /\ lastBeat = 0

-----------------------------------------------------------------------------
(* The game server and the proxy, as the backend gets to see them.         *)

Produce(board) ==
    /\ now <= LastEvent /\ sent < MaxEvents
    /\ level.number > 1 => GameTime >= ReloadTime
    /\ sent' = sent + 1
    /\ transit' = transit \cup
         {[tick |-> GameTime, map |-> level.map, board |-> board,
           level |-> level.number, made |-> now]}
    /\ UNCHANGED <<now, syncVars, bufferVars, level, lastBeat>>

\* A POST or a sample still has time to spare.
InTime ==
    /\ \A e \in transit : now - e.made < MaxStall
    /\ inflight # Null => now - inflight.sampledAt < MaxLatency

\* A reload takes a while: only what is slow is still under way then.
Reload(map) ==
    /\ now <= LastEvent /\ level.number < MaxLevels /\ GameTime >= MinAge
    /\ InTime
    /\ level' = [number |-> level.number + 1, map |-> map, since |-> now]
    /\ UNCHANGED <<now, syncVars, bufferVars, transit, sent, lastBeat>>

Answer ==
    /\ StatusRead([activeTime |-> GameTime, delay |-> Delay, map |-> level.map])
    /\ UNCHANGED <<now, bufferVars, envVars>>

-----------------------------------------------------------------------------
(* The backend.                                                            *)

\* The ingest route tells the service of the event and then enqueues it.
Ingest(e) ==
    /\ e \in transit
    /\ transit' = transit \ {e}
    /\ OnIngestEvent(e)
    /\ UNCHANGED now
    /\ Enqueue([event |-> e, enqueuedAt |-> now])
    /\ UNCHANGED <<level, sent, lastBeat>>

HeartbeatDue == now - lastBeat >= HeartbeatEvery

\* The timer fires.
Beat ==
    /\ HeartbeatDue
    /\ lastBeat' = now
    /\ Heartbeat
    /\ UNCHANGED <<now, bufferVars, level, transit, sent>>

\* A match start (an event itself), a manual resample or a drift report.
Resample ==
    /\ lazyInited \/ EarlyRequests
    /\ RequestSample
    /\ UNCHANGED <<now, bufferVars, envVars>>

Sampled ==
    /\ UNCHANGED now
    /\ SampleSucceeds /\ ReleaseStranded
    /\ UNCHANGED envVars

SampleFailed ==
    /\ Failing
    /\ UNCHANGED now
    /\ SampleFails /\ ReleaseStranded
    /\ UNCHANGED envVars

Calibrate(offset) ==
    /\ UNCHANGED now
    /\ SetCalibrationOffset(offset) /\ ReleaseStranded
    /\ UNCHANGED envVars

Drive == DriverTick /\ UNCHANGED <<now, envVars>>

\* The driver runs many times in a unit, a sample has its timeout, the
\* heartbeat its timer and a POST its time: none of them is overtaken by time.
Tick ==
    /\ now < Horizon
    /\ Due = <<>>
    /\ InTime
    /\ ~HeartbeatDue
    /\ now' = now + 1
    /\ UNCHANGED <<syncVars, bufferVars, envVars>>

Next ==
    \/ \E board \in BoardFlag : Produce(board)
    \/ \E map \in Map : Reload(map)
    \/ Answer
    \/ \E e \in transit : Ingest(e)
    \/ Beat \/ Resample \/ Sampled \/ SampleFailed
    \/ \E offset \in Offset : Calibrate(offset)
    \/ Drive \/ Tick

Spec == Init /\ [][Next]_vars

-----------------------------------------------------------------------------
Waiting == draining \o queue

TypeOK ==
    /\ now \in Nat /\ SyncTypeOK
    /\ \A i \in DOMAIN Waiting : Waiting[i].enqueuedAt \in 0 .. now
    /\ \A i \in DOMAIN draining : draining[i].releaseAt \in Int

\* When the broadcast's viewers see an event, and whether its POST was quick.
Shown(e) == e.made + Delay
OnTime(item) == item.enqueuedAt = item.event.made

\* 1. Nothing lost: an event that came in waits, once, until it is fired.
Copies(e, items) == Cardinality({i \in DOMAIN items : items[i].event = e})
Events == transit \cup {Waiting[i].event : i \in DOMAIN Waiting}
NothingLost ==
    [][\/ \A e \in Events \cup Events' : Copies(e, Waiting') =
              Copies(e, Waiting) + IF e \in transit \ transit' THEN 1 ELSE 0
       \/ /\ UNCHANGED transit
          /\ \A e \in Events : Copies(e, Waiting') = Copies(e, Waiting) - Copies(e, Due)]_vars

\* 2. Never early: the overlay is not ahead of the broadcast.
NeverEarly == \A i \in DOMAIN Due : now + MaxLatency >= Shown(Due[i].event)

\* Only events of a level that has ended are drained, never a fresh one.
OnlyOldIsDrained ==
    \A i \in DOMAIN draining : draining[i].event.level < level.number

\* 3. Bounded lateness: nothing waits much longer than for the broadcast, or
\* for its POST.
MaxOf(a, b) == IF a > b THEN a ELSE b
BoundedLateness ==
    \A i \in DOMAIN Waiting : LET item == Waiting[i] IN
        now <= MaxOf(Shown(item.event) + IF item.event.board THEN BoardLag ELSE 0,
                     item.enqueuedAt) + HeartbeatEvery

\* 4. and 5.: of the events whose POST was quick, none is fired while one of
\* an earlier level waits behind it, nor one of an earlier tick (board
\* events, which may lag, apart).
EpochOrder ==
    \A i \in DOMAIN Due, j \in DOMAIN Waiting :
        LET item == Due[i]  other == Waiting[j] IN
        /\ OnTime(item) /\ OnTime(other)
        /\ other.event.level < item.event.level
        => \E k \in 1 .. i - 1 : Due[k] = other

TickOrder ==
    \A i \in DOMAIN Due, j \in DOMAIN Waiting :
        LET item == Due[i]  other == Waiting[j] IN
        /\ OnTime(item) /\ OnTime(other)
        /\ ~item.event.board /\ ~other.event.board
        /\ other.event.level = item.event.level /\ other.event.tick < item.event.tick
        => \E k \in 1 .. i - 1 : Due[k] = other

\* Both: the overlay sees the levels, and each level's ticks, in their order.
FiredInOrder == EpochOrder /\ TickOrder
=============================================================================

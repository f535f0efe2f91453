--------------------------- MODULE HltvDelayBuffer ---------------------------
(***************************************************************************)
(* handler/hltvDelayBuffer.ts: the events of one server that wait for the  *)
(* broadcast to reach the game frame they are about, in the main queue by  *)
(* tick and, when their level has ended, in the drain by time of release.  *)
(***************************************************************************)
EXTENDS HltvSync, SequencesExt

CONSTANT BoardLag      \* board_release_lag_seconds

ASSUME BufferAssumption == BoardLag \in Nat

VARIABLES
    queue,      \* queues: buffered events, by tick
    draining    \* draining: buffered events with their releaseAt, by releaseAt

bufferVars == <<queue, draining>>

BufferInit == queue = <<>> /\ draining = <<>>

-----------------------------------------------------------------------------
TickOf(item) == item.event.tick

\* A new element goes behind the last one that is not above it.
Inserted(seq, x, notAbove) == InsertAt(seq, Max(notAbove \cup {0}) + 1, x)

\* Mutant: the newest goes first, as if nothing else could be waiting.
InsertedByTick_Front(seq, item) == InsertAt(seq, 1, item)

InsertedByTick(seq, item) ==
    Inserted(seq, item, {i \in DOMAIN seq : TickOf(seq[i]) <= TickOf(item)})

InsertedByRelease(seq, item) ==
    Inserted(seq, item, {i \in DOMAIN seq : seq[i].releaseAt <= item.releaseAt})

\* When the broadcast reaches an event of the level that basis is a clock of.
Projection(item, basis) ==
    LET extra == IF item.event.board THEN BoardLag ELSE 0
    IN extra + IF basis = Null THEN item.enqueuedAt + FallbackDelay
                               ELSE ReachesAt(basis, TickOf(item))

Drained(item, basis) ==
    [event |-> item.event, enqueuedAt |-> item.enqueuedAt,
     releaseAt |-> Projection(item, basis)]

\* drainTail, one item after the other
WithTail(drain, items, basis) ==
    LET d[n \in 0 .. Len(items)] ==
          IF n = 0 THEN drain
          ELSE InsertedByRelease(d[n - 1], Drained(items[n], basis))
    IN  d[Len(items)]

\* What a sequence has at these places.
At(seq, places) ==
    LET a[n \in 0 .. Len(seq)] ==
          IF n = 0 THEN <<>>
          ELSE IF n \in places THEN Append(a[n - 1], seq[n]) ELSE a[n - 1]
    IN  a[Len(seq)]

\* How many elements of a sequence come before the first that is not in good.
Leading(seq, good) == Max({n \in 0 .. Len(seq) : 1 .. n \subseteq good})

-----------------------------------------------------------------------------
\* Mutant: the queue is emptied at a reset and nothing is made of what was in it.
Enqueue_Flushes(item) ==
    IF OldEpochTick(TickOf(item))'
    THEN /\ draining' = WithTail(draining, <<item>>, TailBasis')
         /\ UNCHANGED queue
    ELSE LET reset == /\ queue # <<>>
                      /\ TickOf(Last(queue)) - TickOf(item) > ResetThreshold
         IN /\ queue' = InsertedByTick(IF reset THEN <<>> ELSE queue, item)
            /\ UNCHANGED draining

\* enqueue, after the service was told of the event: what the service says
\* of it is what it says in the next state.
Enqueue(item) ==
    IF OldEpochTick(TickOf(item))'
    THEN /\ draining' = WithTail(draining, <<item>>, TailBasis')
         /\ UNCHANGED queue
    ELSE LET reset == /\ queue # <<>>
                      /\ TickOf(Last(queue)) - TickOf(item) > ResetThreshold
         IN /\ draining' = IF reset THEN WithTail(draining, queue, TailBasis') ELSE draining
            /\ queue' = InsertedByTick(IF reset THEN <<>> ELSE queue, item)

\* releaseStrandedEvents, on every clock the service emits that is online and
\* has no error.
Stranded ==
    {i \in DOMAIN queue : TickOf(queue[i]) > clock'.activeTime + ResetThreshold}

\* Mutant: nothing listens to the service.
ReleaseStranded_Unwired == UNCHANGED bufferVars

ReleaseStranded ==
    IF clock'.online /\ ~clock'.lastError
    THEN /\ draining' = WithTail(draining, At(queue, Stranded), TailBasis')
         /\ queue' = At(queue, DOMAIN queue \ Stranded)
    ELSE UNCHANGED bufferVars

\* tick: the drain first, and the main queue only behind an empty drain.
DrainDue == Leading(draining, {i \in DOMAIN draining : draining[i].releaseAt <= now})

Reached(item) ==
    IF Online THEN TickOf(item) <= BroadcastNow(clock, now)
              ELSE now - item.enqueuedAt >= FallbackDelay

\* Mutant: the main queue does not wait for the drain.
QueueDue_BesideDrain == Leading(queue, {i \in DOMAIN queue : Reached(queue[i])})

QueueDue ==
    IF DrainDue < Len(draining) THEN 0
    ELSE Leading(queue, {i \in DOMAIN queue : Reached(queue[i])})

\* What onFire is called with when the driver ticks now, in this order.
Due == SubSeq(draining, 1, DrainDue) \o SubSeq(queue, 1, QueueDue)

DriverTick ==
    /\ Due # <<>>
    /\ draining' = SubSeq(draining, DrainDue + 1, Len(draining))
    /\ queue' = SubSeq(queue, QueueDue + 1, Len(queue))
    /\ UNCHANGED syncVars
=============================================================================

# A verification of the DoD HUD observer

TLA+ modules, model-checking runs and machine-checked proofs about the programs
in this repository: the plugin that reports what happens on a Day of Defeat
server, the backend that records it and holds it back until the HLTV broadcast
has caught up, and the overlay that shows it. Paths are relative to the root of
the repository; `matchRecorder.ts` and the other handlers are under
`src/backend/src/handler/`.

## 1. The system

    game server ──POST per event──▶ ingest route ──▶ MatchRecorder ──▶ disk
    (KTPHudObserver.sma)                │
                                        ├──▶ HltvSync ◀──rcon status── HLTV proxy
                                        ▼        │ clock
                                   HltvDelayBuffer
                                        │ released events
                                        ▼
                             state cache, Socket.IO rooms ──▶ overlay (React)
                             HQ board, /api/stats ──▶ StatsGuard ──▶ MySQL

Node runs one handler at a time, so what interleaves in the backend is: the
independent HTTP requests of one server (the plugin sends every event in a curl
request of its own and does not wait for the answer, `src/KTPHudObserver.sma:951-1027`), timers, awaited
calls to the HLTV proxy and to MySQL, and the death of the process between two
file writes. The plugin is single-threaded as well, but is a set of forwards,
natives and timers that the engine and other plugins call in orders of their own.

| component | state | operations | hard | what makes it correct |
|---|---|---|---|---|
| Match recorder (`matchRecorder.ts`) | `activeMatches`, `metadata`, `lastEventAt` in memory; metadata.json and events.jsonl on disk | startMatch, recordEvent, endMatch, reapStaleMatches, canForwardTransientEvent, rehydration | death between two writes; events in any order, under another server's name, after the end | memory and disk agree, a match has one owner, a completed match stays so, no row is lost, a silent match ends |
| HLTV clock (`hltvSync.ts`) | per server: clock, sample in flight, high-water tick, boundary, two bases | onIngestEvent, sample, heartbeat, calibration | the level is reloaded while events and samples are under way | the clock that releases an event is the clock of its level |
| Delay buffer (`hltvDelayBuffer.ts`) | per server: main queue by tick, drain by release time | enqueue, drainTail, releaseStrandedEvents, driver tick | stragglers, boundary in one queue and not in the other | nothing lost, early, much too late, or out of order |
| Ingest route (`ingest.ts`) | none of its own | dispatch of a POST to the above | the order of the calls | each event goes through all that its kind needs |
| State cache and rooms (`ingest.ts`, `socket/socket.ts`) | half, roster with statistics, halftime summary, flags, score, phase per server; socket rooms | updateServerState, getServerSnapshot, join, fire | resets that arrive after what they precede; a page that joins at any moment | a page loaded late is as good as one that stayed |
| Stats guard (`statsdb/guard.ts`, `app.ts`) | breaker, counters, rate windows, cache | allowRate, getCached, run, setCached | queries that end after the breaker changed | the database is protected, and used again when well |
| Pseudonyms, caster tokens, HQ board, metrics | maps, counters | mint, verify, derive | little | pure functions of their inputs |
| Plugin: flags and captures (`KTPHudObserver.sma:3973-4386`) | owners, capture batch, deferred tasks | capture, reset, snapshot | deferred emission among resets and half ends | a capture is announced once with its captors, the snapshot has the last word |
| Plugin: phase and go-live (`:1791-1892`, `:2150-2495`) | phase inputs, latches, live flags | forwards of KTPMatchHandler, timers, change of level | three sources of one edge; a mode another plugin leaves behind | the phase is that of the match, the statistics are wiped once |
| Plugin: official score (`:1966-2147`) | side map, binding, sequence | side-map and score forwards | stale and repeated forwards | the score is labelled right or not shown |
| Plugin: roster and statistics (`:2700-2775`, `:3212-3312`) | per-slot statistics, rows of who left | leave, spawn, summaries | a slot is emptied while its numbers are still wanted | every player is in a summary once, with the fuller row |
| Plugin: zones, cap breaks, score tick | zone counts, queues, samples | polls, deaths | bounded queues, one count moved by several causes | every credited break is one |
| Overlay (`src/web/src/components/`) | reducer state, archive of halves, boards | socket events | snapshot against increments; a boundary told twice or once | the boards add up whatever was lost or came late |
| Legacy stack, mocker, deployment | | | | not part of the running system |

`PROJECT.json` lists all components with what is and is not modelled, and the
places where each hazard bites.

## 2. The modules

| module | models | composed of |
|---|---|---|
| `MatchLog` | the promise of a stored match (abstract specification) | |
| `MatchRecorder` | match recorder, its dispatch in the ingest route, its timer, the disk and the death of the process | implements `MatchLog` |
| `MatchRecorderProofs` | types, inductive invariant, safety theorems, and that `MatchRecorder` implements `MatchLog` | `MatchRecorder`, `MatchLog` |
| `HltvSync` | the clock service for one server | |
| `HltvDelayBuffer` | the two queues of one server and the rescue | extends `HltvSync` |
| `HltvRelease` | the whole release path with game server, network, proxy and operator | extends `HltvDelayBuffer` |
| `HltvReleaseProofs` | facts about the queues; types and nothing lost, for any environment | `HltvRelease`, `FoldFacts` |
| `HltvReleaseTiming` | theorems about when and in which order events are fired, for the environment of the run | `HltvReleaseProofs` |
| `StatsGuard` | rate limit, cache, cap and breaker around a query | |
| `StatsGuardProofs` | theorems | `StatsGuard`, `FoldFacts` |
| `FlagCapture` | ownership of flags in the plugin, captures, restarts, snapshots, and the overlay's flag bar | |
| `MCFlagCapture` | `FlagCapture` on three flags, and its mirror symmetry | `FlagCapture` |
| `FlagCaptureProofs` | types and neutral flags, for any environment; captures, for the environment of the run | `FlagCapture` |
| `MatchLifecycle` | phase, go-live wipe and official score of the plugin, behind KTPMatchHandler and changes of level | |
| `MatchLifecycleProofs` | types, and theorems about the official score, the phase and the wipe | `MatchLifecycle` |
| `StatsBoard` | statistics of a match from the plugin's accumulators over the network and the state cache to the boards of one page | plugin, network, cache and page |
| `StatsBoardProofs` | types, and theorems about the numbers on the boards, from above and from below, and when boards stand | `StatsBoard`, `FoldFacts` |
| `FoldFacts` | least numbers, recursion over the naturals, sums over finite sets: what the proofs need in place of induction | |

Operators called `X_Y` right before `X`, with a comment that begins with
"Mutant:", are deliberately wrong variants of `X`. Nothing uses them; a
property of a run is worth having because it fails when one of them replaces
the original, and `PROJECT.json` names the pair.

### MatchRecorder

`active`, `meta` and `lastEventAt` are the three maps of the class; `file`,
`log` and `mtime` are metadata.json, the lines of events.jsonl and its
modification time. A handler is synchronous, so it is cut only where the death of the
process makes a difference, that is between two file operations: `call` holds
the step at which the handler is and the step to which it goes after the
metadata write it is doing. `call.at` corresponds to the code like this:

| `call.at` | code |
|---|---|
| `start`, `create` | `startMatch` before and after its first `writeMetadata` (`matchRecorder.ts:106-168`) |
| `record` | `recordEvent` (`:177-223`), which calls startMatch for an unknown match and is entered again afterwards |
| `forward` | `canForwardTransientEvent` (`:278-290`) |
| `accepted`, `deactivate` | back in the route (`ingest.ts:740-751`), `endMatch` before and after its write |
| `write`, `fill` | `writeMetadata` (`:388-391`) |
| `reap` | between two matches of `reapStaleMatches` (`:255-264`) |

With `TornWrites` a write is two steps, truncating and filling, as
`fs.writeFileSync` is. Without, it is one: the difference between the two shows
which promises rest on a write being atomic. Appending a row is one step. A row
cut short by a death inside `appendFileSync` is left out: the recorder itself only
counts lines, but `getEvents` (`matchRecorder.ts:356`) parses each without a `try` and
would throw for that match. Events are told apart as far as the
recorder does: start, end, official final or match-end board, other play,
socket-only. Maps carry one distinguished value for "unknown"; the half is what
makes a start a start and not a placeholder.

### HltvSync, HltvDelayBuffer, HltvRelease

One unit of time is about 30 s: the reset threshold (30 s) is 1, the straggler
windows (120 s) 4, the coast grace 4, delay and fallback delay 2 or 3 (the
ratios matter, and that delay and age of a level exceed the threshold). Ticks
are seconds since the level was loaded, so a reload sends them back to 0.
One server is the whole system: every map of both classes is keyed by server.
An event always has a tick, for the plugin puts one into every payload
(`src/KTPHudObserver.sma:996-1027`).

Handlers are single actions, except that `sample` awaits: `BeginSample` (or
nothing, if one is under way), `StatusRead` when the proxy answers, and
`SampleSucceeds` or `SampleFails` when the promise settles. `Enqueue` reads the
primed state of the service because the route tells the service of the event
before it enqueues it, in one handler. The rescue is part of every action that
emits a clock. `Due` is the argument list of `onFire` when the driver ticks;
the properties speak of it as "fired".

The environment is: a server that produces events, with their frame's tick; a
network that delays and so reorders POSTs by at most `MaxStall`; reloads of
the same or another map with no event for `ReloadTime`; a proxy that answers
truthfully or fails; requests for samples; an operator. The game server's
`level` and the event's `made` and `level` are known to nobody in the backend
and exist for the properties.

### StatsGuard

Instants are kept as ages (`openAge` for `Date.now() - openedAt`, and so on),
capped where the code no longer distinguishes them, so the state space is finite
without a last moment and liveness needs no horizon. `sick` says that queries may fail or be
slow, for the database or because the pool refuses a connection (it does not queue,
`statsDb.ts:71-77`); `Heal` is the last time that either happens. `call[c]` is a `run` that awaits
its query; `probe` is its local `state === 'half-open'`. `getState` moves the
breaker when somebody looks, which is `StateSeen`, `ProbeSeen` and `See`.
Expired rate windows are as good as none, so `pruneRate` does nothing here.

### FlagCapture

One unit is a quarter of a second of `get_gametime`: DEFER_DELAY is 2, the reset
window 3, the delay of dodx before a score event 1. The engine's side is what dodx
makes of it (`src/KTPHudObserver.sma:4193-4261` says what): a capture is reported
at once and credited later; a restart gives every flag to its home team or to
nobody by the same report, in an order and over a time of its own (`cascade`).
`emit[f]` is the armed task with what it will say, `snapAt` and `initAt` the two
tasks that send a snapshot, `until` and `latch` the reset window. `bar` is what the
overlay shows. `won` is history: the real capture of a flag that was not announced yet.

A restart may come at any moment, after a capout or by a command (`.restarthalf`,
`sv_restartround`, `sma:4229-4230`), so also while a capture waits to be announced or
credited. `Overrun(f)` names the capture of `f` that this can do harm to: one that does not win
the round and that a restart came after. Its announcement may be replaced by "gone home",
without captors, or dropped, and its captor may get no credit (section 3). The properties
make no other exception, and none for a capout.

Two assumptions on the environment are constants. `Gap = 6`: no flag is captured sooner
than a second and a half after the last change of it or a restart, because a
capture takes time. This says when a capture may follow a restart, not when a restart may
follow a capture. `HomeFirst = FALSE`: a restart reports a neutral flag before
any home flag. The code's comment (`:4248-4249`) says that the engine may do
otherwise; `flag_capout_lost` is what happens then.

### MatchLifecycle

One unit is about 2 s. `stage` is what the match really does, and with `tuple`,
`mode` and `over` belongs to KTPMatchHandler, of which the plugin sees four
forwards, one native (`MatchActive`) and a localinfo key. `TruePhase` is the phase
read off `stage`; `Phase` is `compute_phase`, read off the plugin's variables. The
official score is `pending` (the side map that is expected), `bound` (what it was
bound to) and `row` (the last row that was posted).

A change of level keeps the plugin's globals or not (`Globals`): AMX X keeps none,
KTPAMXX keeps them, and the code has to be right under both. `here` says whether
`_ktp_map` names the map of the level, and `ChangeLevel` may go to that map or to another
with whatever mode is set. So the mode of a match that is over can be left on its own map
under a plugin that lost `g_phase_match_ended_at`. `Forgotten` is that state, in which
halftime or an overtime break is said of an idle server: an exception of `PhaseIsTrue`, and
a disagreement with the comments (section 3). The 2 s poll is part of `Tick`. Assumed: the halves of a match are 1, 2 and one overtime; fewer than
`GOLIVE_SPAWN_BURST` players respawn in the window before the countdown ends, and
it ends `mp_clan_timer` after its start; every match ends by `ktp_match_end`. The 30 s
heartbeat of the phase and lost POSTs are left out.

### StatsBoard

Four parts in a row. The plugin: `live` and `gone` are the accumulators of connected
players and the rows kept of those who left; `StatRows` is what a summary says. The
network: `wire` is what the plugin posted in its last step, delivered in any order,
and up to `MaxLost` never. The cache: `cache` with `updateServerState` and
`getServerSnapshot`. The page: `page` holds the players of the store, the board, and
the module globals `halfRows` (`rows`), `halfSource` (`src`), `lastRoundEndByHalf`
(`last`), `boundaryHandledForHalf` (`handled`) and `boundaryBoardShown` (`shown`); the
handlers have the names of the events. A page disconnects, connects again (the
snapshot then falls on what it still holds) or is loaded afresh. `Beside` and `Known` are the
two ways in which the handlers merge rows: with everybody new added, or only for those who are
there already. `Reduced` and `Updated` apply a list of messages to the page and to the cache.

`steady` names the players whose fuller row no emptied slot takes the place of: one who comes
back during a half or after it has a live slot with nothing in it, which `emit_stats_summary`
prefers to the row kept when he left. Who comes back after a later half and leaves again before
the end has his row overwritten by the new, empty one, and is not steady either.

A row is one number, which stands for every field that `addStatRows` adds. What was
posted in one step has landed before the next step of the game: half a second or more
lies between the moments that matter here, and `player_disconnect` at a change of
level is a step of its own. The five seconds in which a marker leaves a halftime board
alone are a free choice (`recent`). Assumed: no page is away at the moment a match
starts, and no connection breaks while a POST of a first half is under way; and a player stays on
his side until he leaves. One who moves to spectator is skipped by `emit_stats_summary`
(`sma:3257-3260`) and has no kept row, so `BoardIsExact` and `NothingSeenIsLost` say nothing of him.
Left out besides: the zeros (`player_score`) that the roster dump of a start sends
(`:2555-2557`) and those of the wipe when the half goes live (`:1261`), which repeat
what the boundary did to the page, and globals lost when the level changes after a tie.
Initial states are a fresh page and one that has shown an earlier match.

## 3. The runs

All cfg files give constants values and replace nothing. "Violation" runs are
confirmed disagreements between the code and what its comments or tests say.

| run | question | shows |
|---|---|---|
| `recorder_crashes` | every order of starts, events, ends, transients and reaper passes of one match id, from two servers, with two deaths between any two writes | memory agrees with disk; counts exact; no log without an owner; one owner per log; `MatchLog` implemented; completed is final; transients gated |
| `recorder_ends` | two matches, torn writes, fairness | logs only grow; every silent match ends on disk, or was left with a metadata.json that a death tore (`LeftTorn`), which nothing repairs |
| `recorder_reopens` (violation) | a death inside the overwrite of a completed match's metadata | the match is opened again (`NeverReopened`) |
| `release_on_time` | prompt POSTs, failing samples, board events, one reload | never early, bounded lateness, levels and ticks in order, only old events drained |
| `release_stalled_posts` | POSTs out of order and across a reload of the same or another map, calibrations, failing samples, samples before the first event | types, nothing lost |
| `release_other_map_clock` (violation) | changelevel to another map | the old clock stays online and fires the new map's events |
| `guard_protects` | queries that fail, are slow and end in any order | one probe, cap, rate bound, recovery |
| `flag_captures` | captures, spurious and repeated reports, restarts at any moment, a lost task, a change of level | what the overlay shows wrongly is about to be put right; a capture that wins the round, or that no restart overran, is announced once with its captors and credited; none is invented |
| `flag_capout_lost` (violation) | a restart that reports a home flag first | the winning capture is never announced (`CapoutStaysDue`) |
| `lifecycle` | two matches with overtime, abandoned ones, side maps late, missing and again, levels and globals | the phase is that of the match, but for `Unseen`, `UnseenTie` and `Forgotten`; the scoreboard agrees; official rows are labelled, filed, in order and ended |
| `boards` | a match behind an earlier one, POSTs in any order and one lost, players who leave, one new connection or page load | no half counted twice, none seen is missing, boards come down, a reload at halftime loses nothing |
| `boards_forfeit` (violation) | matches that end in their first half | the next final board has numbers of the match before |

The HLTV properties are the five points of the contract in
`src/backend/src/__tests__/helpers/hltvHarness.ts:219-235`, which its tests
check along single timelines, and `OnlyOldIsDrained`, which says what the drain
is for. They are split over runs because some of them hold only in part of the
environment; what breaks them elsewhere is in the violation run or here (each with
the constants of a cfg that shows it):

* If a sample may take long (`MaxLatency = 1`), one that was answered before a reload
  can still be in flight when the reset is detected; the sample for the reset
  coalesces with it (`hltvSync.ts:510`), the old level's clock is back online, and
  `NeverEarly` fails until the next heartbeat.
* With three levels of one map the basis of the second tail may be the first level's
  clock (`hltvSync.ts:363`): `NeverEarly` and `BoundedLateness` fail
  (`MaxLevels = 3`, `FirstAge = 16`, `LastEvent = 8`), and with failing samples
  `OnlyOldIsDrained` too.
* If a caster sets the calibration while the last sample is old, the rescue
  drains fresh events (`OnlyOldIsDrained`, with `Offset = {0}` and
  `HeartbeatEvery = 3`): `setCalibrationOffsetMs` emits the old `activeTime`
  (`hltvSync.ts:435`), though `hltvDelayBuffer.ts:242-243` calls it
  "sample-fresh at emit time".
* If a sample is asked for before the first event of a server
  (`EarlyRequests = TRUE`, a drift report or a manual resample), the first event
  can be of a new level while the clock is of the old; `onIngestEvent` returns
  for a first event before it compares (`hltvSync.ts:442`), and the event fires early.
* With stalled POSTs `FiredInOrder` and `BoundedLateness` are not checked: a
  straggler that arrives before any event of the new level pairs its basis with the
  wrong level (`hltvSync.ts:495`), and the tail and what waits behind it are held up
  for minutes. `NeverEarly` does hold with them as long as the level keeps its map.

Other observations, made while modelling and not listed as findings:

* `recordSuccess` closes the breaker in any state (`guard.ts:166`): a query begun before
  the trip that succeeds after it closes the breaker without a cooldown or probe,
  though `guard.ts:27` says how long it stays open.
* A commanded restart within DEFER_DELAY (0.5 s) of a capture that does not win the round
  meets the armed emission. Where no neutral flag is reported before the flag itself, the report
  overwrites emission and `g_flag_last_capped_by` (`sma:4263-4314`): the capture is not
  announced, its captors are not credited if the score event is still to come, and the flag
  is announced as gone home, without captors (the batch is filtered by team; as it is not
  empty, no snapshot is armed at `sma:4354-4357`). Otherwise the capture is dropped as
  overtaken. The owner shown is right in the end.
* In `FlagCapture` with `HomeFirst = TRUE` a restart can also announce a capout that
  nobody made. A genuine capture within three quarters of a second after a window
  was opened is dropped unless it is a capout; the comment at `sma:4329` argues that there
  is none, which `Gap` assumes.
* A second half that ends level has no forward. The phase stays `live` until the next
  level is loaded (`UnseenTie`); nothing in the code can know better.
* An idle server can be said to be at halftime: a match ends and the handler leaves
  `_ktp_mode` set, the next level is on the same map and does not keep the globals, and
  `g_phase_match_ended_at` is 0 again (`sma:1813`). The comment at `sma:1801-1809` says the
  stamp is there so that the badge does not claim "HALFTIME on an idle server forever" and
  "is cleared only by the next ktp_match_start"; the one at `sma:841-844`, that clearing both latches
  makes the answer to whether globals survive "irrelevant". With `~Forgotten` as an invariant
  of `lifecycle` TLC shows the trace in eleven states: half end, mode saved, match end,
  level change, `task_init_config`. Where levels keep the globals it does not happen.
* `ktp_half_end` no longer returns for a stale callback, though the comment above
  it (`sma:2417-2420`) says that one must not consume the guard.
* A match forfeited at halftime counts its first half twice: the archive has half 1
  already, and `match_end` carries the same rows once more, while `Socket.jsx:1190-1191`
  says "recorded prior halves (carrySoFar) + this (final) half's contribution".
  `boards` therefore plays two halves, and `boards_forfeit` starts where this is one
  of the ways to the same wrong sum.
* If the halftime summary is lost, the marker's numbers are archived first and then
  replaced by those of the last capout, which are older (`Socket.jsx:264-267`).
  `NothingSeenIsLost` promises only what a summary said.
* After a match the live overlay is sent the phase `idle` as posted, while a page that joins
  and the HQ board are told `postmatch` for a while, though `ingest.ts:336-337` says
  that they never disagree.
* `ktp_match_start` clears the cached score for every half; the comment at
  `ingest.ts:296-298` keeps it for a late joiner at `half_start`, right behind it.

### Bounds

| run | bound | why it is enough |
|---|---|---|
| recorder | 1 match and 2 servers; 3 rows; 2 deaths; posts until 3, clock until 6 | matches share nothing but the reaper's pass, which `recorder_ends` has with two; three rows pass the flush interval of 2 and leave an unflushed row; the second death hits what the first restart left; the settlement window (1) and staleness (2) both open and close before the last post |
| recorder liveness | 2 matches, 1 server, 2 rows, 1 death that may tear a file, posts at 0, deaths until 1, clock until 2 with staleness 0 | a reaper pass over two matches with a death in it, and a restart from every remainder |
| release | 1 or 2 maps, 2 levels, 3 or 4 events, clock until 9 or 10 | a boundary with a tail, events in the new level and two samples on either side; a third level only matters for the basis at a second boundary |
| guard | 3 requests, cap 2, threshold 2, cooldown 3, longest call 2, rate 4 in 3 | more callers than the cap, a straggler that outlives the trip but not the cooldown, a full rate window and the next |
| flags | 3 flags (home, nobody's, home), one player a side, 12 quarters of a second, a second level of 8 | a capture, a restart behind it with its window and snapshot, and the next capture falling before all of that is over; a capout needs one flag of each kind |
| lifecycle | 2 matches of up to 3 halves, rosters of 2 and 3 around a burst of 3, clock until 4, a score and a kill | every transition of a match takes no time or one unit, so that four units hold an end, a hold, a level and the next start; a third match repeats the second |
| boards | 2 players, a kill a half, 2 moves, 1 loss, 1 connection, one match behind an earlier one | one player who leaves and one who stays in each half; a loss or a reload at every point of every boundary; kills count, so one tells whose half it is |

Every constant with "bound" in its comment exists only for TLC; the theorems hold
for any value of them, but for `MaxLevels` and `LastEvent` in `Prompt` (section 4). Runs that stop at a last moment have `CHECK_DEADLOCK FALSE`;
the guard and the lifecycle can always go on and are checked for deadlock. `boards`
uses the symmetry of the two players and `flag_captures` the mirror symmetry of the two
sides (`MCFlagCapture`). Both are sound: no definition or property tells one player, or
one side with its flag and its player, from the other, and there is no liveness in
either run.

### Fairness

Recorder: a handler that began ends (`WF(Handle)`: synchronous code), the
supervisor restarts the process (`WF(Restart)`), and the clock and the reaper's timer are
strongly fair, because they are enabled only between POSTs, of which there may
always be another: node runs a due timer before it takes the next request.
Nothing obliges the game server to send. Guard: queries end (timeouts), time
passes, and a client that was refused asks again (`app.ts:207-208`), so that a
query that is possible again and again is begun; the database gets well or does
not, and `Recovers` speaks of what follows if it does. Elsewhere what must
happen eventually is stated with a bound: lateness of a release, a snapshot that is
set, a phase that is right at the next poll. A task due is run before the clock goes
on, so these are invariants and need no fairness.

## 4. The proofs

`MatchRecorderProofs` proves `TypeCorrect`: `Spec => []TypeOK` for every value
of the constants, with and without torn writes. `TypeOK` is not inductive. A
row's kind, and that the metadata a step changes is there at all, depend on
where the handler is; `CallOK` says what each step may rely on (the
event is a recorded one, the match has metadata once it is created, every active match
has metadata), and `TypeInv == TypeOK /\ CallOK` is inductive. One lemma per
action; those that write go through three lemmas on `GoTo`, `WriteThen` and
`Respond`. Assumed: the constants' assumptions in `MatchRecorder` only.

`StatsGuardProofs` proves `TypeCorrect`, `OneProbeAtATime`,
`NeverOverTheCap` and `RateHolds`. The argument is in `Inv`: while the breaker is open every
query still under way is at least as old as the opening (`StragglersAge`), no query is
older than `MaxCall` (`InTime`), and `MaxCall < OpenFor`; so when the breaker
half-opens nobody is left (`NobodyBeforeProbe`), and from then on the flag knows
of the only query there is (`ProbeAlone`, `FlagKnows`). `Counter` ties the
integer `inFlight` to the set of running queries. The assumption
`MaxCall < OpenFor` is what the configuration gives: 5 s to connect and 3 s per
query against 30 s; with a `timeout_ms` near 30 s the property is lost.
`RateHolds` is about the requests of an address that were let through within the last
window length, a sum over their ages. `Windows` splits it where the present window began: those
after are what the counter says (`WindowOpen`), those before it were let through in earlier
windows and are no more than the limit, because a window begins only when the one before is over
and all that is remembered then fits into the limit (`WindowOver`). `FoldFacts` has what is said of sums.

`MatchRecorderProofs` also proves what the runs check of
the recorder's safety, under one more assumption, `~TornWrites`: a
metadata.json is written whole or not at all. `recorder_reopens` shows what is
lost without it: a match that was over runs again. `OnlyTornWritesReopen` proves
the converse, and `LogsOnlyGrow` alone does not need the assumption. The invariant `SafeInv` adds to
`TypeInv`, per match, what memory, disk and handler have to do with each other:

* memory and disk agree on a match, but for its count, unless the handler in
  progress is between changing the one and writing the other; there are three
  such handlers: `Creating`, where there is no file yet (or no entry in
  `activeMatches` yet), `Relabelling`, where the file still has half 0 and a
  map that fits, and `Closing`, where the file is not ended yet;
* an active match has a file that is not ended, until its `Deactivate`;
  a known match that is not active is ended or being created; and a file that is not
  ended is of an active match, if the process runs (`RunningOK`, which is what
  rehydration restores and what makes the one-sided lookup of
  `getCompletedMetadata` sound);
* a log with rows has a file, and the rows of the file's owner.

None of `OneOwner`, `CompletedIsFinal` and `ActiveIsWhatDiskSays` is inductive,
because what is written to a file comes from memory: that `meta` of an ended
match still equals its file is `KnownOK`, and that a new file is written
only where there is no log of another owner is `RunningOK` with `DiskOK`. Each
action has a lemma, and `OtherMatches` and `QuietSteps` take care of the
matches and steps that are not concerned. `CountInv` is a second layer: the
count of a match in memory is the length of its log at every step, with
`LogTime` (a log that was never created is empty) for the creation of the log.
The refinement maps the metadata on disk to `MatchLog`'s book; the one
interesting step is the write, which is `Open`, `Label`, `Close` or a stutter
according to which of the disjuncts of `KnownOK` holds before it.

`FlagCaptureProofs` proves `TypeCorrect` and `NeutralAlwaysTold`, for restarts in any
order (`HomeFirst` either way), any `Gap` and any delays with `ResetWindow > DeferDelay`.
The danger is an announcement older than the restart that comes after the snapshot
and shows the flag as held once more. `NeutralBlocks` says that as long as one waits for a
flag that went to nobody the window is open beyond it, `InTime` that none waits longer
than `DeferDelay`, and `WindowOwes` that while the window is open a snapshot is set
(or was lost), which puts itself off until it is over. `Tracked` ties the plugin's owners
to the engine's. One lemma per action, with `ReportKeeps` and `ReportEmits` for the four cases of a
report.

`FlagCaptureProofs` also proves the run's other five properties, for any number of flags and
players and any delays that satisfy `Timing`: `Gap > DeferDelay + ResetWindow`,
`ScoreDelay < DeferDelay`, `ResetWindow > 1`, `HomeFirst = FALSE`, at least one flag whose
home is nobody's, and no more players than a batch has room for. These are the assumptions
on the environment that section 2 names, made exact; `flag_capout_lost` shows what is lost
without `HomeFirst = FALSE`. The argument:

* `Timeline`: a restart takes one unit, nothing falls until `Gap` after it, and a window
  ends before that. So a capture is never made inside a window: every capture is taken for
  one, and what is taken for one without players (`Noise`) is a flag that a restart
  sent home (`Stray`), never a capout;
* `Shielded`: a restart that meets a capout still due finds every flag captured, so a neutral
  flag is reported, and opens the window, before any home flag. No report of it takes the
  place of the due capout, and the window lasts beyond its announcement. This does not
  hold of a commanded restart that meets another capture;
* `Captures`: the emission of a capture stays what it was when it was made (`Winning`) or, for
  one that a restart overran, may have become the report that the flag went home
  (`Replaced`). `Made` is what both keep: when, by whom and for which team it was;
* `Scores`: what dodx still owes and what is noted are together the captors and the spurious
  events. All are noted when the announcement is due, for `ScoreDelay < DeferDelay`, and
  there is room for each (`RoomFor`);
* `Standing` and `OvertakenTold`: an announcement that will be made is of an owner that
  still stands, unless a snapshot follows it, and one that will be dropped is of a flag that
  is shown as it is, or will be by a snapshot.

`HltvReleaseProofs` proves `TypeCorrect` and `NothingIsLost` of the release path for every
environment the model has: any maps and number of levels, POSTs and samples as late as
they like, calibrations, failures. The first half of the module is about the buffer's operators:
where `InsertAt` puts an element and that the order by release time survives it
(`Insertion`, `InsertionSorts`), that draining a list adds its elements to the drain, each
once (`TailGrows`, `TailHoldsAll`), that what the rescue takes and what it leaves are
together the queue (`SelectionSplits`), and where `Leading` stops. `Types` is inductive
without more. Of each step `TakesOrFires` says how often an event is in the two
queues together: one more for the event that was ingested, less by what was fired, else as before.

`HltvReleaseTiming` proves the four properties of `release_on_time`, under `Prompt`:

* POSTs and samples arrive in the moment they are sent, nobody calibrates or asks for a sample
  before the first event, and all levels are of one map. Section 3 has, for each of these,
  what is lost without it;
* `MaxLevels <= 2`. With a third level of the same map the basis of the second
  tail may be the first level's clock (section 3), and `OnlyOldIsDrained` and `NeverEarly` are not
  invariants any more: this is a limit of the code and not of the proof;
* the first level was older when it ended than the second one becomes, by the two
  windows of the straggler test (`LastEvent + StragglerTick + ResetThreshold < FirstAge`).
  A level that is reloaded young cannot be told from its successor by ticks, which are all the code
  has. `LastEvent` is part of an assumption here and not only a bound;
* three relations among the delays: the fallback delay is not below the broadcast's and at
  most a heartbeat more, and what a board event in the drain holds up is not later than a
  heartbeat. The defaults (60 s for fallback and heartbeat, no board lag, `config.ts:163-165`)
  satisfy them for the broadcast delay of 60 s that the tests use; where a proxy is delayed by
  more than the fallback, an event that is released without a clock is early.

Everything else is arbitrary: the number of events and their times, board events, when the proxy
fails and when samples are taken, all other constants. `MCHltvOnTime.cfg` satisfies
`Prompt`, and TLC found `Punctual`, the inductive invariant, to hold with its constants. `Punctual`
has two cases. Until the backend has heard of the second level (`Unheard`) all that waits
is of the first, and an online clock tracks the first level, or is already of the second with
an empty queue behind it, because the rescue moved everything to the drain when that clock
came. Once it has (`Heard`), the queue is of the second level and an online clock too.
In both the drain is of the first level, timed with one clock (`DrainItems`), and `FirstItems` and
`SecondItems` carry the bound on the wait: time passes only when nothing is due
(`TickPunctual`), and then the head of the queue has to wait either for the broadcast or
behind a drain whose last item is at most `BoardLag` later than the reload. `ReachedWhen` turns ticks into
times, so that due means shown; `WaitsInOrder` is the order of firing.

`MatchLifecycleProofs` proves `TypeCorrect` and what the run checks of the official
score: `NeverMislabelled`, `ScoreAlwaysFiled`, `EveryHalfHasFinal`, `RowsStayInOrder`
and `HalfEndsOnlyOnce`, for any number of matches, rosters and times, whether levels keep
globals or not. The invariant follows the sides from side map to binding to row
(`Sides`), ties the binding to the last row (`Binds`) and to the match (`Where`: a
binding is of the half being played, or its match is over and it can emit no more), and
says when it is open, closed or done (`Open`, `Closed`, `Final`). `Past` (no row is of
a half to come) and `StartableIsNew` are why a new binding cannot be taken for an old one.
A tie is the exception of `Final`: a drawn second half is closed by the change of level only.

`MatchLifecycleProofs` also proves `ScoreboardAlwaysAgrees`, `PhaseAlwaysTrue` and
`AlwaysOnAirAtOnce` under `QuietCountdown`: respawns are counted within one unit only, fewer
than a burst of them fall into a countdown, and the fallback is due after it. This is
assumed of the game (a burst before the end of the countdown would wipe
too early), and it is the environment of the run. `Course` says what the plugin's latches
remember of the match, `ModeFits` that while a match waits for its next half the mode is that
half's, and believed on its map only; of an idle server nothing is said of the mode, and
`PhaseTold` ends in `Forgotten` where one is believed there.
`Waiting` that nothing ends the wait for play before play, and `Board` what is counted from then on.
Everything else (matches, rosters, times, levels that keep globals or not) is arbitrary.

`StatsBoardProofs` proves `TypeCorrect` without conditions, and the run's other five
properties under `Regular`, which says two things of the environment:

* matches are played to the end (`~ Forfeits`); `boards_forfeit` shows what is lost without it;
* at most one POST gets lost (`MaxLost <= 1`). Two POSTs tell the page and the cache of a half,
  `match_start` and `half_start`. If neither comes the page files the new half's numbers under the
  old one and keeps the old board, and nothing in the code could tell.

Everything else is arbitrary: players, matches, kills, overtimes, who leaves and comes back when,
how the POSTs of a moment overtake each other, how often the page is away or is loaded again. The
invariant, `CountInv`, bounds every number there is by what was done in the half it is filed under:
in the plugin (`Counts`), in each POST (`Underway`), in the cache (`CacheFits`) and on the page
(`PageFits`). What makes this inductive is agreement on the half. `Course` has it: the half has
reached the cache and the page (`Begun`), or more POSTs that tell of it are under way than can
still be lost (`Pending`); and what speaks of numbers (`Late`) is only under way when it has. A page or
a cache that has not heard of the new match (`Stale`) may hold anything of an old one, and
owes nothing until then. `Held` adds that no half is filed before it is over: that is why
`carrySoFar` and the last summary together have each half once. `Shown` is why boards come
down: what is neither a capout nor a fallback has set `boundaryBoardShown`, which the next boundary heeds.
`JoinedIs` reduces the replay of a snapshot to two steps (`Greeted`, then `Filled`),
so that a page that joins is treated like one that stayed.

`CountInv` gives `NeverOvercounts` and `BoardsComeDown`. What may not be missing from a board
(`NothingSeenIsLost`, `BoardIsExact`, `ReloadKeepsHalftime`) is a second layer, `SeenInv`, over it:

* `SteadyRows`: what a summary would say of a steady player is what he did in the half. After a
  later half that ended level either the kept row or the slot says so, and the plugin does not
  know which: this is what `steady` is about;
* `SummariesExact`: so a summary under way is exact for the steady players, and while the one
  of the first half is under way neither the page nor the cache has it;
* `Archive`: what the page got of a half is its last capout until the half is filed (`last`
  equals `seen`), covered by the filed rows then, and a summary in the archive is exact. Only the first
  half is ever filed from a summary;
* `Sums`: a final board covers what was seen of every half, and all of a match of two halves for
  those whose first half was seen whole;
* `Agree`: at halftime the cache has the very rows that the page archived. The same POST brought them to
  both, and a page that was away gets them on joining.

The page that joins is the hard case again: `Recalls` states what either kind of page brings along
(one that was there, or none), and `SeenJoined` is proved once for both. `BoardIsExact` takes its
upper bound from `CountInv` and its lower bound from `Sums`. TLC looked for a violation of `SeenInv`
on a small instance, and found none, before it was proved.

Recursion and sums in these proofs are recursive functions and the folds of the
community modules. `FoldFacts` proves what the library offers only for an operator as
parameter: that a set of numbers with 0 and every successor is all of them (`Climb`), that the
recursive definitions used here have the functions they describe, and sums over finite sets,
each from the fact that a set of numbers has a least element.

Only model-checked: liveness (`EveryMatchEnds`, `Recovers`),
which with `ENABLED` is out of the prover's reach. Every other property of a passing
run is proved. No module that is proved about reaches a RECURSIVE operator.

The type invariants of the recorder, the guard, the flags and the lifecycle are proved and
not checked by a run as well; those of the release path and of the boards are both.

## 5. Not modelled

* Zones, the cap state machine and cap breaks, damage correction, streaks, the scoring
  tick and the half clock of the plugin: geometry and arithmetic on samples, and for cap
  breaks a bounded queue that would be the next module.
* Failing writes (a full disk) in the recorder: a write happens or the process dies.
* Of the state cache flags, team score, clock, phase and the expiry of players; match
  and caster rooms; pseudonyms, caster tokens, the HQ board, metrics: fields that are
  overwritten and read, or pure functions.
* Of the overlay feeds, waves, positions, the clock, derived statistics, and all display.
* Text parsing, SQL, authentication and logging; the recording-state observation of
  `sample`, which no clock depends on; the analysers and the backfill script, which
  run on recorded logs; the legacy stack and the mocker.

The definitions of `PROJECT.json` name lines of the TypeScript, JSX and Pawn
sources. The C and C++ files of the repository are the Metamod SDK and its example
plugin, vendored under `src/dod-server/` with empty hook tables; they hold no logic of this
system and nothing here is about them.

The component notes in `PROJECT.json` say more, part by part.

## 6. The plan

Done: `MatchRecorder` with `MatchLog`, `HltvSync`, `HltvDelayBuffer` and
`HltvRelease`, `StatsGuard`, `FlagCapture`, `MatchLifecycle`, `StatsBoard`, and the proofs of
section 4. What would come next, in this order:

1. `CapBreak`: the candidate queue and the zone counts; every credited break is one.
2. Failing writes in `MatchRecorder`.
3. The rest of the state cache behind `StatsBoard`: flags and score, as seen by a page
   that joins late.

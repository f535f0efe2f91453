--------------------------- MODULE MatchLifecycle ----------------------------
(***************************************************************************)
(* The course of a match in KTPHudObserver.sma: the phase that it posts,   *)
(* the official team score, and the statistics it wipes when a half goes   *)
(* live. Another plugin, KTPMatchHandler, runs the match. It calls the     *)
(* forwards ktp_match_side_map, ktp_match_start, ktp_half_end and          *)
(* ktp_match_end, and keeps the mode of the coming half in a localinfo     *)
(* that outlives a level, writing it AFTER the forward. No forward tells   *)
(* of ready-up, of a tie that leads to overtime, or of the moment at which *)
(* play begins: the engine restarts the round, zeroes the frags and        *)
(* respawns everybody when the countdown is over.                          *)
(*                                                                         *)
(* now is get_systime; game time begins anew with every level. A task is   *)
(* due at its time and runs before the clock goes on.                      *)
(***************************************************************************)
EXTENDS Integers

CONSTANTS
    Null,
    MaxMatch,           \* bound
    Rosters,            \* environment: how many players there may be
    MaxWave,            \* environment: players that respawn during a countdown
    Globals,            \* environment: do a plugin's globals outlive a level?
    Burst,              \* GOLIVE_SPAWN_BURST
    BurstWindow,        \* GOLIVE_BURST_WINDOW
    ClanTimer,          \* mp_clan_timer
    RewipeSlack,        \* the 2.0 of ktp_match_start
    LiveWindow,         \* the 20.0 of ktp_match_start
    HalfEndGuard,       \* the 2.0 of ktp_half_end
    Hold,               \* POSTMATCH_HOLD_SEC
    InitDelay,          \* the 1.0 of plugin_cfg
    MaxTime, MaxScore, MaxKills \* bounds

\* One round of overtime at most (bound): others differ in their number only.
Half == {1, 2, 101}
NextHalf == [h \in Half |-> IF h = 1 THEN 2 ELSE 101]
Match == 1..MaxMatch
\* What the forwards name a half by; map and type go with the match.
Tuple == [match : Match, half : Half]

ASSUME LifecycleAssumption ==
    /\ {MaxWave, Burst, BurstWindow, ClanTimer, RewipeSlack, LiveWindow} \subseteq Nat
    /\ {HalfEndGuard, Hold, InitDelay, MaxMatch, MaxTime, MaxScore, MaxKills} \subseteq Nat
    /\ Rosters \subseteq Nat /\ Globals \subseteq BOOLEAN
    /\ Null \notin Nat

VARIABLES
    now,        \* get_systime
    born,       \* when this level began
    stage,      \* environment: what the match is doing
    tuple,      \* environment: the half that is or was played, Null at first
    mode,       \* _ktp_mode
    here,       \* does _ktp_map name the map of this level?
    over,       \* history: when a match ended, Null once the next has begun
    score,      \* environment: the team score of the engine
    edgeAt,     \* environment: when the engine restarts the round
    waveAt,     \* environment: when players last respawned
    roster,     \* environment: how many players there are
    frags,      \* environment: kills on the scoreboard of the engine
    url,        \* was g_cvar_url read?
    initAt,     \* when task_init_config is due, Null if it ran
    live,       \* g_phase_live_this_level
    latch,      \* g_phase_halftime_latch
    endedAt,    \* g_phase_match_ended_at, Null for 0
    said,       \* g_phase_last
    awaiting,   \* g_awaiting_stat_rewipe
    spawns,     \* g_golive_spawn_count
    burstAt,    \* g_golive_spawn_t0
    wipeAt,     \* when task_golive_rewipe is due, Null if not set
    roundLive,  \* g_awaiting_round_live: its deadline, Null if it is false
    kills,      \* g_player_kills, of all players
    halfEndAt,  \* g_lastHalfEndFwdAt
    ends,       \* history: half_end events of this half
    cur,        \* g_matchId and g_matchHalf, Null unless g_matchActive
    pending,    \* g_score_pending_*, Null if none
    bound,      \* g_score_bound_*, the slots and what was emitted under them
    row         \* history: the last official row

clocks == <<now, born>>
handler == <<stage, tuple, mode, here, over>>
engine == <<score, edgeAt, waveAt, roster, frags>>
config == <<url, initAt>>
phase == <<live, latch, endedAt>>
golive == <<awaiting, spawns, burstAt, wipeAt, roundLive, kills>>
halfEnd == <<halfEndAt, ends>>
official == <<cur, pending, bound, row>>
vars == <<clocks, handler, engine, config, phase, said, golive, halfEnd, official>>

Stage == {"idle", "ready", "countdown", "play", "ended", "break", "away"}
Mode == {"none", "h2", "ot"}
Phases == {"none", "postmatch", "golive", "live", "halftime", "ot_break", "pregame", "idle"}
SideMap == [for : Tuple, sides : Tuple]
Bound == [for : Tuple, sides : Tuple, seq : Nat, last : Nat \cup {Null}, final : BOOLEAN]
Row == [for : Tuple, sides : Tuple, kind : {"baseline", "change", "final"},
        seq : Nat, score : Nat]

ASSUME SentinelAssumption == Null \notin Tuple \cup SideMap \cup Bound \cup Row

GameTime == now - born + 1

TypeOK ==
    /\ now \in Nat /\ born \in Nat /\ born <= now
    /\ stage \in Stage /\ mode \in Mode /\ said \in Phases
    /\ tuple \in Tuple \cup {Null} /\ cur \in Tuple \cup {Null}
    /\ over \in Nat \cup {Null} /\ endedAt \in Nat \cup {Null}
    /\ score \in Nat /\ roster \in Nat /\ frags \in Nat /\ kills \in Nat /\ ends \in Nat
    /\ edgeAt \in Nat /\ waveAt \in Nat \cup {Null}
    /\ initAt \in Nat \cup {Null} /\ wipeAt \in Nat \cup {Null}
    /\ roundLive \in Nat \cup {Null} /\ halfEndAt \in Nat \cup {Null}
    /\ here \in BOOLEAN /\ url \in BOOLEAN /\ live \in BOOLEAN /\ latch \in BOOLEAN /\ awaiting \in BOOLEAN
    /\ spawns \in Nat /\ burstAt \in Nat
    /\ pending \in SideMap \cup {Null}
    /\ bound \in Bound \cup {Null}
    /\ row \in Row \cup {Null}

-----------------------------------------------------------------------------
(* The phase.                                                              *)

\* ktp_is_match_active: pending, prestart or live
MatchActive == stage \in {"ready", "countdown", "play"}

\* A mode is believed on the map it was saved for, unless a match ended since.
BreakHere(m) == mode = m /\ endedAt = Null /\ here

Held == endedAt # Null /\ now - endedAt < Hold

\* Mutant: the mode is asked before what is live.
Phase_ModeFirst ==
    IF Held THEN "postmatch"
    ELSE IF latch \/ BreakHere("h2") THEN "halftime"
    ELSE IF live THEN IF awaiting THEN "golive" ELSE "live"
    ELSE IF BreakHere("ot") THEN "ot_break"
    ELSE IF MatchActive THEN "pregame"
    ELSE "idle"

\* compute_phase
Phase ==
    IF Held THEN "postmatch"
    ELSE IF live THEN IF awaiting THEN "golive" ELSE "live"
    ELSE IF latch \/ BreakHere("h2") THEN "halftime"
    ELSE IF BreakHere("ot") THEN "ot_break"
    ELSE IF MatchActive THEN "pregame"
    ELSE "idle"

\* phase_tick: what is said again for a heartbeat is the same.
PhaseTick == said' = IF url' THEN Phase' ELSE said

\* task_init_config
InitConfig ==
    /\ initAt # Null /\ GameTime >= initAt
    /\ initAt' = Null /\ url' = TRUE
    /\ UNCHANGED <<clocks, handler, engine, phase, golive, halfEnd, official>>
    /\ PhaseTick

-----------------------------------------------------------------------------
(* The statistics.                                                         *)

\* do_golive_stat_rewipe
Rewipe ==
    IF awaiting
      THEN /\ awaiting' = FALSE /\ wipeAt' = Null
           /\ spawns' = 0 /\ burstAt' = 0
           /\ kills' = 0
           /\ PhaseTick
      ELSE UNCHANGED <<awaiting, wipeAt, spawns, burstAt, kills, said>>

InBurst == GameTime - burstAt <= BurstWindow

\* dod_client_spawn, for n players in one frame
Spawned(n) ==
    LET count == IF InBurst THEN spawns + n ELSE n
    IN  IF awaiting /\ count < Burst
          THEN /\ spawns' = count
               /\ burstAt' = IF InBurst THEN burstAt ELSE GameTime
               /\ UNCHANGED <<awaiting, wipeAt, kills, said>>
          ELSE Rewipe

\* task_golive_rewipe
FallbackRewipe ==
    /\ wipeAt # Null /\ GameTime >= wipeAt
    /\ UNCHANGED <<clocks, handler, engine, config, phase, roundLive, halfEnd, official>>
    /\ Rewipe

\* Mutant: every round that goes live wipes, not the first only.
RoundState_Every ==
    /\ stage = "play"
    /\ roundLive' = Null
    /\ kills' = 0
    /\ UNCHANGED <<clocks, handler, engine, config, phase, awaiting, wipeAt, spawns, burstAt,
                   said, halfEnd, official>>

\* msg_round_state, from an engine that sends it
RoundState ==
    /\ stage = "play" /\ roundLive # Null
    /\ roundLive' = Null
    /\ UNCHANGED <<clocks, handler, engine, config, phase, halfEnd, official>>
    /\ IF GameTime > roundLive
         THEN UNCHANGED <<awaiting, wipeAt, spawns, burstAt, kills, said>>
         ELSE Rewipe

\* client_death
Kill ==
    /\ stage \in {"countdown", "play"} /\ kills < MaxKills /\ frags < MaxKills
    /\ kills' = kills + 1 /\ frags' = frags + 1
    /\ UNCHANGED <<clocks, handler, score, edgeAt, waveAt, roster, config, phase, said,
                   awaiting, spawns, burstAt, wipeAt, roundLive, halfEnd, official>>

\* Some players respawn during the countdown: few at a time.
Wave(n) ==
    /\ stage = "countdown" /\ now < edgeAt /\ waveAt # now
    /\ waveAt' = now
    /\ UNCHANGED <<clocks, handler, score, edgeAt, roster, frags, config, phase, roundLive,
                   halfEnd, official>>
    /\ Spawned(n)

\* The countdown is over: the engine zeroes the frags and respawns everybody.
Edge ==
    /\ stage = "countdown" /\ now >= edgeAt
    /\ stage' = "play" /\ edgeAt' = 0 /\ waveAt' = Null
    /\ frags' = 0
    /\ UNCHANGED <<clocks, tuple, mode, here, over, score, roster, config, phase,
                   roundLive, halfEnd, official>>
    /\ Spawned(roster)

-----------------------------------------------------------------------------
(* The official score.                                                     *)

\* The halves that the handler may start next.
Startable ==
    IF stage = "break" THEN {[tuple EXCEPT !.half = NextHalf[@]]}
    ELSE {t \in Tuple : t.half = 1 /\ t.match = 1 + IF tuple = Null THEN 0 ELSE tuple.match}

Current(b, c) == b # Null /\ c # Null /\ b.for = c

\* A side map of the half to come, or late or again of the last; or an invalid one.
ktp_match_side_map(t, valid) ==
    /\ t \in Startable \cup {tuple}
    /\ pending' = IF valid THEN [for |-> t, sides |-> t] ELSE Null
    /\ UNCHANGED <<clocks, handler, engine, config, phase, said, golive, halfEnd,
                   cur, bound, row>>

\* Mutant: the match is compared and the half is not.
Exact_AnyHalf(t) == pending # Null /\ pending.for.match = t.match

Exact(t) == pending # Null /\ pending.for = t

\* score_mapping_bind: what the slots are comes from the side map.
Binding(t) ==
    IF Exact(t) THEN [for |-> t, sides |-> pending.sides, seq |-> 0, last |-> Null, final |-> FALSE]
    ELSE Null

\* emit_official_team_score under the binding b for the half c. The
\* end of a half closes it; after the end of the match nothing asks (cur is Null).
Emit(b, c, kind) ==
    /\ row' = [for |-> c, sides |-> b.sides, kind |-> kind, seq |-> b.seq + 1, score |-> score']
    /\ bound' = [b EXCEPT !.seq = @ + 1, !.last = score',
                          !.final = @ \/ (kind = "final" /\ cur' # Null)]

\* Mutant: whatever is broadcast after the end of the half goes out.
Changed_AfterFinal == bound.last # score'

\* Mutant: a value that was sent before counts as sent, whatever it was.
Changed_Once == ~bound.final /\ bound.last = Null

Changed == ~bound.final /\ bound.last # score'

\* ev_team_score
TeamScore(new) ==
    /\ new <= MaxScore
    /\ score' = new
    /\ IF Current(bound, cur) /\ Changed THEN Emit(bound, cur, "change")
       ELSE UNCHANGED <<bound, row>>
    /\ UNCHANGED <<clocks, handler, edgeAt, waveAt, roster, frags, config, phase, said,
                   golive, halfEnd, cur, pending>>

\* Play adds to the score; what is broadcast after the half may repeat or add.
Scored == stage \in {"play", "ended"} /\ \E new \in {score, score + 1} : TeamScore(new)

-----------------------------------------------------------------------------
(* The handler and its forwards.                                           *)

\* Players ready up for a match, or think better of it.
ReadyUp ==
    /\ \/ stage = "idle" /\ Startable # {} /\ stage' = "ready"
       \/ stage = "ready" /\ stage' = "idle"
    /\ UNCHANGED <<said, clocks, tuple, mode, here, over, engine, config, phase, golive, halfEnd, official>>

\* Mutant: the guard of ktp_half_end is kept from the last match.
FreshHalfEnd_Kept == UNCHANGED halfEndAt

FreshHalfEnd == halfEndAt' = Null

\* ktp_match_start, at the beginning of the countdown
ktp_match_start(t, restored) ==
    /\ stage \in {"ready", "break"} /\ t \in Startable
    /\ stage' = "countdown" /\ tuple' = t /\ over' = Null
    /\ score' = restored /\ edgeAt' = now + ClanTimer /\ waveAt' = Null
    /\ live' = TRUE /\ latch' = FALSE /\ endedAt' = Null
    /\ awaiting' = TRUE /\ spawns' = 0 /\ burstAt' = 0 /\ kills' = 0
    /\ roundLive' = GameTime + LiveWindow
    /\ FreshHalfEnd /\ ends' = 0
    /\ cur' = t /\ pending' = Null
    /\ UNCHANGED <<clocks, mode, here, roster, frags, config>>
    /\ IF Binding(t) = Null THEN bound' = Null /\ UNCHANGED row
       ELSE Emit(Binding(t), t, "baseline")
    /\ wipeAt' = GameTime + ClanTimer + RewipeSlack
    /\ PhaseTick

\* Within the guard of a first ktp_half_end.
Repeated == halfEndAt # Null /\ GameTime - halfEndAt < HalfEndGuard

\* ktp_half_end of the handler's half, which calls it again if it hears twice
\* of the level change.
ktp_half_end ==
    /\ stage \in {"play", "ended"} /\ tuple.half = 1
    /\ stage = "ended" => Repeated
    /\ stage' = "ended"
    /\ UNCHANGED <<clocks, tuple, mode, here, over, engine, config, endedAt, golive, cur, pending>>
    /\ IF Repeated THEN UNCHANGED <<halfEnd, live, latch, bound, row, said>>
       ELSE /\ halfEndAt' = GameTime /\ ends' = ends + 1
            /\ IF Current(bound, cur) /\ cur = tuple THEN Emit(bound, cur, "final")
               ELSE UNCHANGED <<bound, row>>
            /\ live' = FALSE /\ latch' = TRUE
            /\ PhaseTick

\* The second half is a tie: no forward, overtime follows on the next level.
Tie ==
    /\ stage = "play" /\ tuple.half = 2
    /\ stage' = "ended"
    /\ UNCHANGED <<said, clocks, tuple, mode, here, over, engine, config, phase, golive, halfEnd, official>>

\* The handler saves the mode and the map after the forward, before it changes the
\* level.
SaveMode ==
    /\ stage = "ended"
    /\ mode' = (IF tuple.half = 1 THEN "h2" ELSE "ot") /\ here' = TRUE
    /\ mode' # mode \/ ~here
    /\ UNCHANGED <<said, clocks, stage, tuple, over, engine, config, phase, golive, halfEnd, official>>

\* Mutant: the end of the match is not stamped.
EndedNow_Unstamped == UNCHANGED endedAt

EndedNow == endedAt' = now

\* ktp_match_end, for every way in which a match can end
ktp_match_end ==
    /\ stage \in {"countdown", "play", "ended", "break"}
    /\ stage' = "idle" /\ over' = now
    /\ cur' = Null
    /\ UNCHANGED <<clocks, tuple, mode, here, engine, config, golive, halfEnd, pending>>
    /\ IF Current(bound, cur) THEN Emit(bound, cur, "final") ELSE UNCHANGED <<bound, row>>
    /\ live' = FALSE /\ latch' = FALSE /\ EndedNow
    /\ PhaseTick

\* The handler clears the mode, sooner or later or never.
ClearMode ==
    /\ stage \in {"idle", "away"} /\ mode # "none"
    /\ mode' = "none"
    /\ stage' = "idle"
    /\ UNCHANGED <<said, clocks, tuple, here, over, engine, config, phase, golive, halfEnd, official>>

-----------------------------------------------------------------------------
(* Levels and time.                                                        *)

\* Mutant: the level change tells nobody of the score.
LastFinals_None(times) == UNCHANGED row

\* server_changelevel, which may not be called, and plugin_end
LastFinals(times) ==
    IF Current(bound, cur)
      THEN row' = [for |-> cur, sides |-> bound.sides, kind |-> "final",
                   seq |-> bound.seq + times, score |-> score]
      ELSE UNCHANGED row

PhaseReset == live' = FALSE /\ latch' = FALSE

\* plugin_cfg when the globals are still there
KeepGlobals ==
    /\ PhaseReset
    /\ wipeAt' \in {wipeAt, Null}
    /\ UNCHANGED <<over, url, endedAt, awaiting, spawns, burstAt, roundLive, kills, halfEnd, cur>>

\* plugin_cfg of a plugin loaded afresh; the backend holds the end of a match
LoseGlobals ==
    /\ over' = Null
    /\ url' = FALSE
    /\ live' = FALSE /\ latch' = FALSE /\ endedAt' = Null
    /\ awaiting' = FALSE /\ wipeAt' = Null /\ spawns' = 0 /\ burstAt' = 0
    /\ roundLive' = Null /\ kills' = 0
    /\ halfEndAt' = Null /\ UNCHANGED ends
    /\ cur' = Null

\* What the handler is doing on the map that _ktp_map names, and on another one.
StageAfter(same) ==
    IF stage \notin {"ended", "break", "away"} THEN "idle"
    ELSE IF same THEN "break" ELSE "away"

\* Another level, on the map that _ktp_map names or not. A changelevel while a half is played is an end of the half or
\* of the match to the handler, and comes after its forward.
ChangeLevel(same, times, kept) ==
    /\ stage \notin {"countdown", "play"}
    /\ stage = "ended" => here /\ mode = IF tuple.half = 1 THEN "h2" ELSE "ot"
    /\ stage' = StageAfter(same) /\ here' = same
    /\ LastFinals(times)
    /\ IF kept THEN KeepGlobals ELSE LoseGlobals
    /\ pending' = Null /\ bound' = Null
    /\ said' = "none"
    /\ born' = now /\ initAt' = 1 + InitDelay
    /\ score' = 0 /\ frags' = 0
    /\ UNCHANGED <<now, tuple, mode, edgeAt, waveAt, roster>>

\* The clock goes on when nothing is due any more, and task_phase_poll runs.
Tick ==
    /\ now < MaxTime
    /\ initAt # Null => GameTime < initAt
    /\ wipeAt # Null => GameTime < wipeAt
    /\ stage = "countdown" => now < edgeAt
    /\ now' = now + 1
    /\ UNCHANGED <<born, handler, engine, config, phase, golive, halfEnd, official>>
    /\ PhaseTick

Init ==
    /\ now = 0 /\ born = 0
    /\ stage = "idle" /\ tuple = Null /\ mode = "none" /\ here = TRUE /\ over = Null
    /\ score = 0 /\ edgeAt = 0 /\ waveAt = Null /\ roster \in Rosters /\ frags = 0
    /\ url = FALSE /\ initAt = 1 + InitDelay
    /\ live = FALSE /\ latch = FALSE /\ endedAt = Null
    /\ said = "none"
    /\ awaiting = FALSE /\ spawns = 0 /\ burstAt = 0 /\ wipeAt = Null
    /\ roundLive = Null /\ kills = 0
    /\ halfEndAt = Null /\ ends = 0
    /\ cur = Null /\ pending = Null /\ bound = Null /\ row = Null

Next ==
    \/ InitConfig
    \/ FallbackRewipe \/ RoundState \/ Kill \/ Edge
    \/ \E n \in 1..MaxWave : Wave(n)
    \/ \E t \in Tuple, valid \in BOOLEAN : ktp_match_side_map(t, valid)
    \/ Scored
    \/ ReadyUp \/ Tie \/ SaveMode \/ ClearMode
    \/ \E t \in Tuple, restored \in 0..MaxScore : ktp_match_start(t, restored)
    \/ ktp_half_end \/ ktp_match_end
    \/ \E same \in BOOLEAN, times \in {1, 2}, kept \in Globals : ChangeLevel(same, times, kept)
    \/ Tick

Spec == Init /\ [][Next]_vars

-----------------------------------------------------------------------------
(* Properties.                                                             *)

\* What the match is doing, for all to see.
TruePhase ==
    IF over # Null /\ now - over < Hold THEN "postmatch"
    ELSE CASE stage = "countdown" -> "golive"
           [] stage = "play" -> "live"
           [] stage \in {"ended", "break"} -> IF tuple.half = 1 THEN "halftime" ELSE "ot_break"
           [] stage = "ready" -> "pregame"
           [] OTHER -> "idle"

\* Play is on, and nothing has shown that yet.
Unseen == stage = "play" /\ awaiting /\ said = "golive"

\* A tie has no forward: it looks live until the next level is loaded.
UnseenTie == stage = "ended" /\ tuple.half # 1 /\ said \in {"golive", "live"}

\* A mode that a match left behind, on its own map, is believed by a plugin that
\* lost its globals with a level and so does not know any more that the match ended.
\* sma:1801-1809 and 841-844 say that this cannot be.
Forgotten ==
    /\ stage \in {"idle", "ready"} /\ here /\ endedAt = Null
    /\ \/ mode = "h2" /\ said = "halftime"
       \/ mode = "ot" /\ said = "ot_break"

\* What a poll posts is what the match is doing, whatever mode the handler left
\* behind, on this map or another. The exceptions: the plugin has yet to see that
\* play began, a tie has no forward, and the end of a match can be forgotten.
PhaseIsTrue ==
    [][now' # now /\ url => said' = TruePhase' \/ Unseen' \/ UnseenTie' \/ Forgotten']_vars

\* What goes on air - the countdown, play, the end of a first half or of a match -
\* needs no poll: it is said in the step in which it happens.
OnAirAtOnce ==
    [][url /\ stage' # stage /\
       (\/ stage' \in {"countdown", "play"}
        \/ stage' = "ended" /\ tuple.half = 1
        \/ stage' = "idle" /\ over' # over /\ over' # Null)
         => said' = TruePhase' \/ Unseen']_vars

\* Once a half is said to be live, the overlay counts no kill that the engine
\* took back at the restart, and with enough players it misses none after it.
ScoreboardAgrees ==
    stage \in {"play", "ended"} /\ ~awaiting /\ cur # Null =>
        kills <= frags /\ (roster >= Burst => kills = frags)

\* An official row carries the sides of the half that was played, whichever
\* side maps came late, twice, invalid or not at all.
RowsAreLabelled == row # Null => row.sides = row.for

\* While a half is played under a side map, the last official row has the
\* score of the engine and belongs to that half.
ScoreIsFiled ==
    stage \in {"countdown", "play"} /\ bound # Null => row.for = tuple /\ row.score = score

\* A half with official rows ends with a final one, by its end, the end of the
\* match or the change of the level.
HalfHasFinal ==
    row # Null /\ stage \notin {"countdown", "play"} /\ ~(stage = "ended" /\ tuple.half # 1) =>
        row.kind = "final"

\* The rows of a half are numbered upwards, and after a final row there are
\* only final ones.
RowsInOrder ==
    [][row # Null /\ row' # row /\ row'.for = row.for =>
         row'.seq > row.seq /\ (row.kind = "final" => row'.kind = "final")]_vars

\* The end of a first half is told once, however often the handler calls within the
\* guard, and whatever half ended at that game time of an earlier level.
HalfEndsOnce == stage \in {"ended", "break"} /\ tuple.half = 1 => ends = 1
=============================================================================

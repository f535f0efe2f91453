---------------------------- MODULE FlagCapture ------------------------------
(***************************************************************************)
(* Ownership of the flags in KTPHudObserver.sma, and what the overlay is   *)
(* told of it. The engine reports a capture at once, but the players who   *)
(* get the credit only ScoreDelay later, so a capture is announced by a    *)
(* task DeferDelay after it. A round restart gives every flag back to its  *)
(* home team, or to nobody, through the SAME report, one flag at a time;   *)
(* only a flag that goes to nobody gives it away. The plugin then opens a  *)
(* window and announces no capture of it, but owes the overlay one         *)
(* snapshot when the window is over.                                       *)
(*                                                                         *)
(* Time is get_gametime in quarters of a second. A task is due at its time *)
(* and runs before the clock goes on, in any order with the others.        *)
(***************************************************************************)
EXTENDS Integers, FiniteSets

CONSTANTS
    Flag,
    AlliesHome, AxisHome,               \* flags with a default owner
    AlliesPlayer, AxisPlayer,
    Allies, Axis, Neutral, Spectator,   \* what an owner can be
    Null,
    DeferDelay,         \* DEFER_DELAY
    ResetWindow,        \* CP_RESET_WINDOW
    HealAfter,          \* the 1.0 of arm_cp_reset_window
    MaxCaptors,         \* MAX_CAPTORS
    ScoreDelay,         \* environment: sendScore of dodx
    InitDelay,          \* the 1.0 of plugin_cfg
    Gap,                \* environment: no flag falls sooner after the last change
    HomeFirst,          \* environment: a restart may report home flags first
    MaxTime, LaterTime, \* bounds: time in the first level and in later ones
    MaxLevel            \* bound

Team == {Allies, Axis}
Owner == Team \cup {Neutral, Spectator}
Player == AlliesPlayer \cup AxisPlayer
TeamOf == [p \in Player |-> IF p \in AlliesPlayer THEN Allies ELSE Axis]

\* g_flag_default_owner
Home == [f \in Flag |-> CASE f \in AlliesHome -> Allies
                          [] f \in AxisHome -> Axis
                          [] OTHER -> Neutral]

ASSUME FlagAssumption ==
    /\ {DeferDelay, HealAfter, ScoreDelay, InitDelay, Gap, MaxCaptors} \subseteq Nat
    /\ {MaxTime, LaterTime, MaxLevel} \subseteq Nat
    /\ ResetWindow \in Nat /\ ResetWindow > DeferDelay
    /\ AlliesHome \cap AxisHome = {} /\ AlliesPlayer \cap AxisPlayer = {}
    /\ Allies # Axis /\ Neutral # Spectator /\ {Neutral, Spectator} \cap Team = {}
    /\ Null \notin Nat

VARIABLES
    now,        \* get_gametime
    level,      \* environment: how often the level was loaded
    held,       \* environment: who holds each flag since the last restart
    changed,    \* environment: when a flag last fell, or the round restarted
    cascade,    \* environment: flags of a restart that are not reported yet
    restarted,  \* environment: when the last restart began
    score,      \* environment: score events that dodx still owes
    owner,      \* g_flag_owner
    lastBy,     \* g_flag_last_capped_by
    batch,      \* g_flag_pending_captor_ids
    emit,       \* the emission armed for a flag: g_flag_emit_*, Null if none
    until,      \* g_cp_reset_until
    latch,      \* g_cp_reset_task_pending
    snapAt,     \* when task_reset_snapshot is due, Null if not set
    lost,       \* environment: was that task lost?
    initAt,     \* when task_init_config is due, Null if it ran
    bar,        \* the owners the overlay shows
    post,       \* what this step said of a capture or a credit
    won         \* history: a real capture that was not announced yet

engine == <<held, changed, cascade, restarted, score>>
window == <<until, latch, snapAt, lost>>
vars == <<now, level, engine, owner, lastBy, batch, emit, window, initAt, bar, post, won>>

Emission == [owner : Team, capout : BOOLEAN, at : Nat]
Feat == [team : Team, by : SUBSET Player, capout : BOOLEAN, at : Nat]
ScoreEvent == [flag : Flag, by : Player, real : BOOLEAN, at : Nat]
NoPost == [kind |-> "none"]
ASSUME SentinelAssumption == Null \notin Emission \cup Feat

TypeOK ==
    /\ now \in Nat /\ level \in Nat
    /\ held \in [Flag -> Team \cup {Neutral}]
    /\ changed \in [Flag -> Nat]
    /\ cascade \subseteq Flag
    /\ restarted \in Nat
    /\ score \subseteq ScoreEvent
    /\ owner \in [Flag -> Owner]
    /\ lastBy \in [Flag -> Team \cup {Neutral}]
    /\ batch \in [Flag -> SUBSET Player]
    /\ emit \in [Flag -> Emission \cup {Null}]
    /\ until \in Nat
    /\ latch \in BOOLEAN /\ lost \in BOOLEAN
    /\ snapAt \in Nat \cup {Null}
    /\ initAt \in Nat \cup {Null}
    /\ bar \in [Flag -> Team \cup {Neutral}]
    /\ won \in [Flag -> Feat \cup {Null}]

-----------------------------------------------------------------------------
(* What the engine holds, and how the plugin and the overlay read it.      *)

\* CP_owner reads 0 for a flag nobody took since the restart: it is its home's.
Truth == [f \in Flag |-> IF held[f] = Neutral THEN Home[f] ELSE held[f]]

\* do_flags_init of an authoritative reason reads the owners from dodx.
Read == Truth

Shown(o) == IF o \in Team THEN o ELSE Neutral

\* What g_flag_emit_pending keeps from being wiped.
InFlight(f) == emit[f] # Null

IsCapout(t, own) == \A f \in Flag : own[f] = t

\* do_flags_init wipes the batch and the capper of flags without an emission.
Forgotten(data, nothing) == [f \in Flag |-> IF InFlight(f) THEN data[f] ELSE nothing]

-----------------------------------------------------------------------------
(* The plugin.                                                             *)

\* Open or extend the window; one task per cascade, unless it got lost.
ArmWindow ==
    /\ until' = now + ResetWindow
    /\ latch' = TRUE
    /\ IF latch /\ now < until + DeferDelay + HealAfter
         THEN UNCHANGED <<snapAt, lost>>
         ELSE snapAt' = now + ResetWindow + DeferDelay /\ lost' = FALSE

\* A batch with no emission to wait for is stale.
DropStaleBatch(f) == batch' = [batch EXCEPT ![f] = IF InFlight(f) THEN @ ELSE {}]

SameOwner(f, new) ==
    /\ owner[f] = new
    /\ DropStaleBatch(f)
    /\ UNCHANGED <<owner, lastBy, emit, window>>

\* Mutant: a flag that goes to nobody is noted and nothing else.
GoneNeutral_Silently(f, new) ==
    /\ owner[f] # new /\ new \notin Team
    /\ owner' = [owner EXCEPT ![f] = new]
    /\ DropStaleBatch(f)
    /\ UNCHANGED <<lastBy, emit, window>>

\* Only a restart takes a flag from everybody.
GoneNeutral(f, new) ==
    /\ owner[f] # new /\ new \notin Team
    /\ ArmWindow
    /\ owner' = [owner EXCEPT ![f] = new]
    /\ DropStaleBatch(f)
    /\ UNCHANGED <<lastBy, emit>>

\* Mutant: a flag that goes home is always taken for captured.
Restored_Never(f, new) == FALSE

\* Its mirror image: within the window, a flag that goes home.
Restored(f, new) == until > now /\ Home[f] = new

GoneHome(f, new) ==
    /\ owner[f] # new /\ new \in Team /\ Restored(f, new)
    /\ owner' = [owner EXCEPT ![f] = new]
    /\ DropStaleBatch(f)
    /\ UNCHANGED <<lastBy, emit, window>>

\* A capture: noted now, announced by the task it arms in place of an older one.
Taken(f, new) ==
    /\ owner[f] # new /\ new \in Team /\ ~Restored(f, new)
    /\ owner' = [owner EXCEPT ![f] = new]
    /\ lastBy' = [lastBy EXCEPT ![f] = new]
    /\ emit' = [emit EXCEPT ![f] =
                  [owner |-> new, capout |-> IsCapout(new, owner'), at |-> now]]
    /\ UNCHANGED <<batch, window>>

\* dod_control_point_captured
ControlPointCaptured(f, new) ==
    \/ SameOwner(f, new)
    \/ GoneNeutral(f, new)
    \/ GoneHome(f, new)
    \/ Taken(f, new)

\* Mutant: the event of any player is credited.
Credited_Anyone(e) == TRUE

\* Credit goes to the team that made the last capture, whoever owns it now.
Credited(e) == TeamOf[e.by] = lastBy[e.flag]

\* dod_score_event, dispatched by dodx ScoreDelay after the capture.
PlayerScored(e) ==
    /\ e \in score /\ now >= e.at
    /\ score' = score \ {e}
    /\ IF e.by \in batch[e.flag] \/ Cardinality(batch[e.flag]) >= MaxCaptors
         THEN UNCHANGED batch /\ post' = NoPost
         ELSE /\ batch' = [batch EXCEPT ![e.flag] = @ \cup {e.by}]
              /\ post' = IF Credited(e) THEN [kind |-> "credit", by |-> e.by] ELSE NoPost
    /\ UNCHANGED <<now, level, held, changed, cascade, restarted, owner, lastBy,
                   emit, window, initAt, bar, won>>

\* build_pending_captor_list and build_captor_names
Captors(f, t) == {p \in batch[f] : TeamOf[p] = t}

\* A cascade that came in since the capture shows that it was none.
Overtaken(f) == ~emit[f].capout /\ until > emit[f].at

\* Mutant: a lone flag that went home is announced, and no snapshot follows.
LooksRestored_Never(f) == FALSE

\* Weaker evidence: it went home and nobody was credited.
LooksRestored(f) == Home[f] = emit[f].owner /\ batch[f] = {}

\* deferred_emit_cap
DeferredEmitCap(f) ==
    /\ InFlight(f) /\ now >= emit[f].at + DeferDelay
    /\ emit' = [emit EXCEPT ![f] = Null]
    /\ batch' = [batch EXCEPT ![f] = {}]
    /\ \/ /\ Overtaken(f)
          /\ post' = [kind |-> "drop", flag |-> f]
          /\ UNCHANGED <<window, bar>>
       \/ /\ ~Overtaken(f)
          /\ IF LooksRestored(f) THEN ArmWindow ELSE UNCHANGED window
          /\ post' = [kind |-> "cap", flag |-> f, owner |-> emit[f].owner,
                      captors |-> Captors(f, emit[f].owner), capout |-> emit[f].capout]
          /\ bar' = [bar EXCEPT ![f] = emit[f].owner]
    /\ won' = [won EXCEPT ![f] = Null]
    /\ UNCHANGED <<now, level, engine, owner, lastBy, initAt>>

\* do_flags_init for map_load, match_start and reset: owners read from dodx.
AuthoritativeInit ==
    /\ owner' = Read
    /\ bar' = Read
    /\ batch' = Forgotten(batch, {})
    /\ lastBy' = Forgotten(lastBy, Neutral)

\* ktp_match_start, and ev_round_start
StartOfPlay ==
    /\ initAt = Null
    /\ AuthoritativeInit
    /\ post' = NoPost
    /\ UNCHANGED <<now, level, engine, emit, window, initAt, won>>

\* task_reset_snapshot
ResetSnapshot ==
    /\ snapAt # Null /\ now >= snapAt
    /\ \/ /\ until > now
          /\ snapAt' = until + DeferDelay
          /\ UNCHANGED <<latch, owner, bar, batch, lastBy>>
       \/ /\ until <= now
          /\ latch' = FALSE /\ snapAt' = Null
          /\ AuthoritativeInit
    /\ post' = NoPost
    /\ UNCHANGED <<now, level, engine, emit, until, lost, initAt, won>>

\* task_emit_flags, and what Socket.jsx makes of it: the owners the plugin
\* keeps, of which the overlay refuses a neutral for a flag it shows as held.
Heartbeat ==
    /\ initAt = Null
    /\ bar' = [f \in Flag |-> IF owner[f] \in Team THEN owner[f] ELSE bar[f]]
    /\ batch' = Forgotten(batch, {})
    /\ lastBy' = Forgotten(lastBy, Neutral)
    /\ post' = NoPost
    /\ UNCHANGED <<now, level, engine, owner, emit, window, initAt, won>>

\* Mutant: the new level is not announced once the URL is known.
InitConfig_NoSnapshot ==
    /\ initAt # Null /\ now >= initAt
    /\ initAt' = Null
    /\ post' = NoPost
    /\ UNCHANGED <<now, level, engine, owner, lastBy, batch, emit, window, bar, won>>

\* task_init_config: now that the URL is known, the snapshot of the level.
InitConfig ==
    /\ initAt # Null /\ now >= initAt
    /\ initAt' = Null
    /\ AuthoritativeInit
    /\ post' = NoPost
    /\ UNCHANGED <<now, level, engine, emit, window, won>>

-----------------------------------------------------------------------------
(* The engine, dodx and the network.                                       *)

Settled(f) == now >= changed[f] + Gap

\* The players by take f for t; dodx owes them a score event, and may add
\* spurious ones (drift) for players of the other team.
Capture(f, t, by, drift) ==
    /\ initAt = Null /\ Settled(f)
    /\ ~\E w \in Team : IsCapout(w, Truth)
    /\ Truth[f] # t
    /\ held' = [held EXCEPT ![f] = t]
    /\ changed' = [changed EXCEPT ![f] = now]
    /\ score' = score \cup
         {[flag |-> f, by |-> p, real |-> TRUE, at |-> now + ScoreDelay] : p \in by} \cup
         {[flag |-> f, by |-> p, real |-> FALSE, at |-> now + ScoreDelay] : p \in drift}
    /\ won' = [won EXCEPT ![f] =
                 [team |-> t, by |-> by, capout |-> IsCapout(t, Truth'), at |-> now]]
    /\ ControlPointCaptured(f, t)
    /\ post' = NoPost
    /\ UNCHANGED <<now, level, cascade, restarted, initAt, bar>>

Away == {f \in Flag : Truth[f] # Home[f]}

\* The round restarts, after a capout or by a command (.restarthalf,
\* sv_restartround) at any moment: flags that are home are so without a report.
Restart ==
    /\ initAt = Null /\ cascade = {} /\ Away # {}
    /\ cascade' = Away
    /\ restarted' = now
    /\ held' = [f \in Flag |-> IF f \in Away THEN held[f] ELSE Neutral]
    /\ changed' = [f \in Flag |-> now]
    /\ post' = NoPost
    /\ UNCHANGED <<now, level, score, owner, lastBy, batch, emit, window, initAt, bar, won>>

\* The restart reports a flag, in any order, the last one a unit later.
Reset(f) ==
    /\ f \in cascade
    /\ HomeFirst \/ Home[f] = Neutral \/ \A g \in cascade : Home[g] # Neutral
    /\ cascade' = cascade \ {f}
    /\ held' = [held EXCEPT ![f] = Neutral]
    /\ ControlPointCaptured(f, IF Home[f] = Neutral THEN Spectator ELSE Home[f])
    /\ post' = NoPost
    /\ UNCHANGED <<now, level, changed, restarted, score, initAt, bar, won>>

\* dodx reports a capture a second time.
Repeat(f) ==
    /\ initAt = Null /\ f \notin cascade /\ Truth[f] \in Team
    /\ ControlPointCaptured(f, Truth[f])
    /\ post' = NoPost
    /\ UNCHANGED <<now, level, engine, initAt, bar, won>>

\* The one-shot is lost: a task set from within a forward may be.
LoseTask ==
    /\ snapAt # Null /\ ~lost
    /\ snapAt' = Null /\ lost' = TRUE
    /\ post' = NoPost
    /\ UNCHANGED <<now, level, engine, owner, lastBy, batch, emit, until, latch,
                   initAt, bar, won>>

\* Mutant: the window of the old map, in its game time, is left open.
LevelChange_WindowStays ==
    /\ level < MaxLevel
    /\ level' = level + 1
    /\ now' = 0
    /\ held' = [f \in Flag |-> Neutral] /\ changed' = [f \in Flag |-> 0]
    /\ cascade' = {} /\ restarted' = 0 /\ score' = {}
    /\ owner' = Home
    /\ lastBy' = [f \in Flag |-> Neutral] /\ batch' = [f \in Flag |-> {}]
    /\ emit' = [f \in Flag |-> Null]
    /\ latch' = FALSE /\ snapAt' = Null /\ lost' = FALSE
    /\ initAt' = InitDelay
    /\ post' = NoPost
    /\ won' = [f \in Flag |-> Null]
    /\ UNCHANGED <<until, bar>>

\* Another level: plugin_cfg, and then controlpoints_init reads the owners.
LevelChange ==
    /\ level < MaxLevel
    /\ level' = level + 1
    /\ now' = 0
    /\ held' = [f \in Flag |-> Neutral] /\ changed' = [f \in Flag |-> 0]
    /\ cascade' = {} /\ restarted' = 0 /\ score' = {}
    /\ owner' = Home
    /\ lastBy' = [f \in Flag |-> Neutral] /\ batch' = [f \in Flag |-> {}]
    /\ emit' = [f \in Flag |-> Null]
    /\ until' = 0 /\ latch' = FALSE /\ snapAt' = Null /\ lost' = FALSE
    /\ initAt' = InitDelay
    /\ post' = NoPost
    /\ won' = [f \in Flag |-> Null]
    /\ UNCHANGED bar

\* The clock goes on when nothing is due any more.
Tick ==
    /\ now < IF level = 1 THEN MaxTime ELSE LaterTime
    /\ \A e \in score : now < e.at
    /\ \A f \in Flag : InFlight(f) => now < emit[f].at + DeferDelay
    /\ snapAt # Null => now < snapAt
    /\ initAt # Null => now < initAt
    /\ cascade # {} => now = restarted
    /\ now' = now + 1
    /\ post' = NoPost
    /\ UNCHANGED <<level, engine, owner, lastBy, batch, emit, window, initAt, bar, won>>

Init ==
    /\ now = 0 /\ level = 1
    /\ held = [f \in Flag |-> Neutral] /\ changed = [f \in Flag |-> 0]
    /\ cascade = {} /\ restarted = 0 /\ score = {}
    /\ owner = Home
    /\ lastBy = [f \in Flag |-> Neutral] /\ batch = [f \in Flag |-> {}]
    /\ emit = [f \in Flag |-> Null]
    /\ until = 0 /\ latch = FALSE /\ snapAt = Null /\ lost = FALSE
    /\ initAt = InitDelay
    /\ bar = [f \in Flag |-> Neutral]
    /\ post = NoPost
    /\ won = [f \in Flag |-> Null]

Side(t) == {p \in Player : TeamOf[p] = t}

Next ==
    \/ \E f \in Flag, t \in Team : \E by \in SUBSET Side(t), drift \in SUBSET (Player \ Side(t)) :
         by # {} /\ Capture(f, t, by, drift)
    \/ \E e \in score : PlayerScored(e)
    \/ \E f \in Flag : DeferredEmitCap(f)
    \/ StartOfPlay
    \/ ResetSnapshot
    \/ Heartbeat
    \/ InitConfig
    \/ Restart
    \/ \E f \in Flag : Reset(f)
    \/ \E f \in Flag : Repeat(f)
    \/ LoseTask
    \/ LevelChange
    \/ Tick

Spec == Init /\ [][Next]_vars

-----------------------------------------------------------------------------
(* Properties.                                                             *)

\* A flag that nobody holds and that the overlay still shows as held will be
\* put right by a snapshot that is set, unless that task got lost: nothing
\* else tells the overlay of a flag that went to nobody.
NeutralIsTold ==
    \A f \in Flag : Truth[f] = Neutral /\ bar[f] # Neutral =>
        snapAt # Null \/ initAt # Null \/ lost

\* Any owner the overlay shows wrongly is about to be put right, by the
\* announcement of the capture or by a snapshot that is set.
BarWrongIsTemporary ==
    \A f \in Flag : bar[f] # Truth[f] =>
        InFlight(f) \/ snapAt # Null \/ initAt # Null \/ lost

Due(f) == InFlight(f) /\ emit[f].owner = won[f].team /\ emit[f].capout = won[f].capout

\* A capture that does not win the round, and that a restart has come after.
Overrun(f) == won[f] # Null /\ ~won[f].capout /\ won[f].at <= restarted

\* A capture that players made stays due, with its team and its verdict, until
\* its task has run: no snapshot, report or later capture takes its place, and
\* a restart does only if the capture did not win the round.
CapturesStayDue == \A f \in Flag : won[f] # Null => Due(f) \/ Overrun(f)

\* The same of the capture that wins the round.
CapoutStaysDue == \A f \in Flag : won[f] # Null /\ won[f].capout => Due(f)

\* The task drops a capture that players made only if it did not win the round
\* and the round restarted between the capture and its announcement.
DropsNoCapture ==
    [][\A f \in Flag : post' = [kind |-> "drop", flag |-> f] /\ won[f] # Null =>
         Overrun(f)]_vars

\* What is announced of a flag is the capture players made of it, with exactly
\* its captors and verdict; or names nobody, is no capout, and a snapshot
\* follows it; or is, of a flag that a restart took from its captors, that it
\* has gone home, and no capout.
NothingInvented ==
    [][\A f \in Flag : post'.kind = "cap" /\ post'.flag = f /\ InFlight(f) /\ emit'[f] = Null =>
         \/ /\ won[f] # Null
            /\ post'.owner = won[f].team /\ post'.capout = won[f].capout
            /\ post'.captors = won[f].by
         \/ /\ post'.captors = {} /\ ~post'.capout
            /\ snapAt' # Null \/ lost'
         \/ Overrun(f) /\ post'.owner = Home[f] /\ ~post'.capout]_vars

\* Those who made a capture are credited for it, and nobody else is, unless the
\* round restarts between the capture and the score event.
CreditIsEarned ==
    [][\A e \in score : e \notin score' /\ level' = level =>
         ((post'.kind = "credit") <=> e.real) \/ Overrun(e.flag)]_vars
=============================================================================

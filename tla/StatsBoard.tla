----------------------------- MODULE StatsBoard -----------------------------
(***************************************************************************)
(* The cumulative stats boards of one overlay page, from the plugin's       *)
(* per-half accumulators to the board that sums a match, through POSTs that *)
(* are lost or overtake each other, the backend's late-joiner cache, and a  *)
(* page that reconnects or is reloaded at any moment.                       *)
(*                                                                         *)
(* A row is one number per player: the kills stand for every additive stat. *)
(* The POSTs of one moment of the plugin overtake each other freely; what   *)
(* happens next in the game is later than their arrival. A player stays on  *)
(* his side until he leaves (assumption): no summary has a spectator.       *)
(***************************************************************************)
EXTENDS Naturals, Sequences, SequencesExt, TLC

CONSTANTS
    Player,
    Null,
    MaxMatch,       \* bound: matches
    MaxKills,       \* bound: kills of a half
    MaxLost,        \* bound: POSTs that never arrive
    MaxLinks,       \* bound: connections and page loads
    MaxMoves,       \* bound: players leaving and coming back
    Overtime,       \* the second half may be a tie
    Forfeits        \* a match may end before its second half is played

ASSUME BoardAssumption ==
    /\ {MaxMatch, MaxKills, MaxLost, MaxLinks, MaxMoves} \subseteq Nat
    /\ {Overtime, Forfeits} \subseteq BOOLEAN
    /\ Null \notin Nat /\ \A S \in SUBSET Player : Null \notin [S -> Nat]

VARIABLES
    match,      \* environment: matches started
    stage,      \* environment: "idle", "play" or "break"
    half,       \* g_matchHalf, 0 before the first match
    on,         \* the players on a side
    moves,      \* history: how often one left or came back
    live,       \* g_player_kills of the connected players
    gone,       \* g_departed_row
    kills,      \* history: what each player did in each half of this match
    steady,     \* history: whose fuller row no emptied slot took the place of
    wire,       \* the POSTs of the last moment, still under way
    lost,       \* history: how many never arrived
    cache,      \* serverStates of the server
    page,       \* the page's store and module globals
    linked,     \* the page's socket is connected
    links,      \* history: connections and page loads so far
    seen        \* history: the last summary of each half this page got

plugin == <<match, stage, half, on, moves, live, gone, kills, steady>>
viewer == <<page, linked, links, seen>>
vars == <<plugin, wire, lost, cache, viewer>>

Half == {1, 2, 101}
NextHalf == [h \in Half |-> IF h = 1 THEN 2 ELSE 101]

IsRows(r) == DOMAIN r \subseteq Player /\ \A p \in DOMAIN r : r[p] \in Nat
NoRows == [p \in {} |-> 0]
NoHalves == [h \in Half |-> NoRows]
NoKills == [p \in Player |-> 0]

Of(rows, p) == IF p \in DOMAIN rows THEN rows[p] ELSE 0
Sum(a, b) == [p \in DOMAIN a \cup DOMAIN b |-> Of(a, p) + Of(b, p)]
Without(rows, p) == [q \in DOMAIN rows \ {p} |-> rows[q]]
Zeros(S) == [p \in S |-> 0]
\* Rows, and beside them those of others who have none.
Beside(rows, more) ==
    [p \in DOMAIN rows \cup DOMAIN more |-> IF p \in DOMAIN rows THEN rows[p] ELSE more[p]]
\* The rows of those who are there already.
Known(rows, there) == [p \in DOMAIN there |-> IF p \in DOMAIN rows THEN rows[p] ELSE there[p]]

-----------------------------------------------------------------------------
(* The page's half archive.                                                *)

Fresh ==
    [half |-> 1, store |-> NoRows, board |-> Null, rows |-> NoHalves,
     src |-> [h \in Half |-> "none"], last |-> NoHalves, handled |-> Null, shown |-> FALSE]

Board(reason, fallback, rows) == [reason |-> reason, fallback |-> fallback, rows |-> rows]

\* Mutant: whoever comes last.
Record_Last(pg, rows, src) == [pg EXCEPT !.rows[pg.half] = rows, !.src[pg.half] = src]

\* recordHalf, for the half the page is on: a summary is never overridden.
Record(pg, rows, src) ==
    IF pg.src[pg.half] = "summary" /\ src # "summary" THEN pg
    ELSE [pg EXCEPT !.rows[pg.half] = rows, !.src[pg.half] = src]

\* Mutant: what the page shows now comes first.
Carried_StoreFirst(pg) == IF pg.store # NoRows THEN pg.store ELSE pg.last[pg.half]

\* What a boundary carries: the last capout of the half, or what the page shows.
Carried(pg) == IF pg.last[pg.half] # NoRows THEN pg.last[pg.half] ELSE pg.store

carrySoFar(pg) == Sum(Sum(pg.rows[1], pg.rows[2]), pg.rows[101])

\* Mutant: the halves of the last match survive.
FreshMatch_KeepsRows(pg) ==
    [pg EXCEPT !.src = [h \in Half |-> "none"], !.last = NoHalves, !.board = Null]

\* Mutant: the capouts of the last match survive.
FreshMatch_KeepsLast(pg) ==
    [pg EXCEPT !.rows = NoHalves, !.src = [h \in Half |-> "none"], !.board = Null]

\* A first half drops what an earlier match left.
FreshMatch(pg) ==
    [pg EXCEPT !.rows = NoHalves, !.src = [h \in Half |-> "none"], !.last = NoHalves, !.board = Null]

LaterHalf(pg) ==
    LET rows == Carried(pg)
        kept == Record(pg, rows, "snapshot")
    IN  IF pg.shown THEN [kept EXCEPT !.board = Null]
        ELSE IF \E p \in DOMAIN rows : rows[p] > 0
             THEN [kept EXCEPT !.board = Board("half_end", TRUE, rows)]
             ELSE kept

\* handleHalfBoundary: once for each half, from whichever event is first.
handleHalfBoundary(pg, h) ==
    IF pg.handled = h THEN pg
    ELSE [(IF h = 1 THEN FreshMatch(pg) ELSE LaterHalf(pg)) EXCEPT !.handled = h, !.shown = FALSE]

-----------------------------------------------------------------------------
(* The page's handlers.                                                    *)

on_match_start(pg, h) ==
    [handleHalfBoundary(pg, h) EXCEPT !.store = NoRows, !.half = h]

on_half_start(pg, h) ==
    [handleHalfBoundary(pg, h) EXCEPT !.store = Zeros(DOMAIN @), !.half = h]

\* The marker. "recent": a halftime board is younger than five seconds.
on_half_end(pg, recent) ==
    LET rows == IF pg.store # NoRows THEN pg.store ELSE pg.last[pg.half]
        kept == Record(pg, rows, "snapshot")
    IN  IF rows = NoRows THEN pg
        ELSE IF recent THEN kept
        ELSE [kept EXCEPT !.shown = TRUE, !.board = Board("half_end", FALSE, rows)]

\* Every summary goes into the store; the reason decides what else it does.
on_summary(pg, reason, rows) ==
    LET merged == [pg EXCEPT !.store = Known(rows, @)]
    IN  CASE reason = "half_end" ->
                [Record(merged, rows, "summary") EXCEPT
                    !.shown = TRUE, !.board = Board("half_end", FALSE, rows)]
          [] reason = "match_end" ->
                [merged EXCEPT
                    !.shown = TRUE,
                    !.board = Board("match_end", FALSE,
                                    Sum(carrySoFar(pg), Beside(rows, pg.last[pg.half])))]
          [] reason = "round_end" ->
                [merged EXCEPT !.last[pg.half] = rows, !.board = Board("round_end", FALSE, rows)]

Reduce(pg, m, recent) ==
    CASE m.kind = "match_start" -> on_match_start(pg, m.half)
      [] m.kind = "half_start"  -> on_half_start(pg, m.half)
      [] m.kind = "roster"      -> [pg EXCEPT !.store = Beside(@, Zeros(m.who))]
      [] m.kind = "score"       -> [pg EXCEPT !.store = Known(m.rows, @)]
      [] m.kind = "left"        -> [pg EXCEPT !.store = Without(@, m.who)]
      [] m.kind = "half_end"    -> on_half_end(pg, recent)
      [] m.kind = "summary"     -> on_summary(pg, m.reason, m.rows)
      [] m.kind = "match_end"   -> pg

\* The page after some messages.
Reduced(pg, msgs) ==
    LET r[n \in 0 .. Len(msgs)] == IF n = 0 THEN pg ELSE Reduce(r[n - 1], msgs[n], FALSE)
    IN  r[Len(msgs)]

-----------------------------------------------------------------------------
(* The late-joiner cache.                                                  *)

NoCache == [half |-> Null, players |-> NoRows, summary |-> Null]

Cleared(c) == [c EXCEPT !.players = NoRows, !.summary = Null]

\* Mutant: only a match boundary evicts the halftime board.
HalfStarted_KeepsSummary(c, h) == [c EXCEPT !.half = h, !.players = Zeros(DOMAIN @)]

HalfStarted(c, h) == [c EXCEPT !.half = h, !.players = Zeros(DOMAIN @), !.summary = Null]

\* updateServerState
updateServerState(c, m) ==
    CASE m.kind = "match_start" -> [Cleared(c) EXCEPT !.half = m.half]
      [] m.kind = "match_end"   -> Cleared(c)
      [] m.kind = "half_start"  -> HalfStarted(c, m.half)
      [] m.kind = "roster"      -> [c EXCEPT !.players = Beside(@, Zeros(m.who))]
      [] m.kind = "score"       -> [c EXCEPT !.players = Known(m.rows, @)]
      [] m.kind = "left"        -> [c EXCEPT !.players = Without(@, m.who)]
      [] m.kind = "summary"     ->
            [c EXCEPT !.players = Known(m.rows, @),
                      !.summary = IF m.reason = "half_end" THEN m.rows ELSE @]
      [] m.kind = "half_end"    -> c

\* The cache after some messages.
Updated(c, msgs) ==
    LET u[n \in 0 .. Len(msgs)] == IF n = 0 THEN c ELSE updateServerState(u[n - 1], msgs[n])
    IN  u[Len(msgs)]

match_start(h) == [kind |-> "match_start", half |-> h]
half_start(h) == [kind |-> "half_start", half |-> h]
roster(S) == [kind |-> "roster", who |-> S]
score(rows) == [kind |-> "score", rows |-> rows]
left(p) == [kind |-> "left", who |-> p]
summary(reason, rows) == [kind |-> "summary", reason |-> reason, rows |-> rows]
half_end == [kind |-> "half_end"]
match_end == [kind |-> "match_end"]

HalftimeBoard(c) == IF c.summary = Null THEN <<>> ELSE <<summary("half_end", c.summary)>>

\* Mutant: the halftime board is replayed before the half.
getServerSnapshot_BoardFirst(c) ==
    HalftimeBoard(c) \o (IF c.half = Null THEN <<>> ELSE <<half_start(c.half)>>)
    \o <<roster(DOMAIN c.players), score(c.players)>>

\* getServerSnapshot: the half first, its halftime board last.
getServerSnapshot(c) ==
    (IF c.half = Null THEN <<>> ELSE <<half_start(c.half)>>)
    \o <<roster(DOMAIN c.players), score(c.players)>>
    \o HalftimeBoard(c)

\* join_server: the snapshot, reduced by the page like any other event.
Joined(pg, c) == Reduced(pg, getServerSnapshot(c))

-----------------------------------------------------------------------------
(* The plugin.                                                             *)

\* What has gone out before has landed.
Quiet == wire = <<>>

\* emit_stats_summary: the connected, and who left while the match was on.
StatRows == [p \in on \cup DOMAIN gone |-> IF p \in on THEN live[p] ELSE gone[p]]

Elsewhere == UNCHANGED <<lost, cache, viewer>>

MatchStart(h) ==
    /\ Quiet
    /\ \/ stage = "idle" /\ h = 1 /\ match < MaxMatch /\ match' = match + 1
          /\ linked                    \* bound: no page is away when a match starts
          /\ kills' = [x \in Half |-> NoKills] /\ steady' = Player
       \/ stage = "break" /\ h = NextHalf[half] /\ UNCHANGED <<match, kills, steady>>
    /\ stage' = "play" /\ half' = h
    /\ live' = NoKills /\ gone' = NoRows
    /\ wire' = <<match_start(h), half_start(h), roster(on)>>
    /\ UNCHANGED <<on, moves, lost, cache, page, linked, links>>
    /\ seen' = IF h = 1 THEN NoHalves ELSE seen

Kill(p) ==
    /\ Quiet /\ stage = "play" /\ p \in on
    /\ SumFunction(kills[half]) < MaxKills
    /\ live' = [live EXCEPT ![p] = @ + 1]
    /\ kills' = [kills EXCEPT ![half][p] = @ + 1]
    /\ wire' = <<score([q \in {p} |-> live'[p]])>>
    /\ UNCHANGED <<match, stage, half, on, moves, gone, steady>> /\ Elsewhere

\* The last flag of the map falls: the capout board.
Capout ==
    /\ Quiet /\ stage = "play"
    /\ wire' = <<summary("round_end", StatRows)>>
    /\ UNCHANGED plugin /\ Elsewhere

\* client_disconnected: the row is kept while a match is on.
Leave(p) ==
    /\ Quiet /\ p \in on
    /\ on' = on \ {p}
    /\ moves < MaxMoves /\ moves' = moves + 1
    /\ gone' = IF stage = "idle" THEN gone ELSE Beside([q \in {p} |-> live[p]], gone)
    /\ live' = [live EXCEPT ![p] = 0]
    /\ wire' = <<left(p)>>
    /\ steady' = IF stage = "break" /\ half # 1 /\ Of(gone, p) > live[p]
                 THEN steady \ {p} ELSE steady
    /\ UNCHANGED <<match, stage, half, kills>> /\ Elsewhere

\* A player is on a side (again), with an empty slot.
Join(p) ==
    /\ Quiet /\ p \in Player \ on
    /\ on' = on \cup {p}
    /\ moves < MaxMoves /\ moves' = moves + 1
    /\ steady' = IF stage = "play" /\ Of(gone, p) > 0 THEN steady \ {p} ELSE steady
    /\ wire' = <<roster({p})>>
    /\ UNCHANGED <<match, stage, half, live, gone, kills>> /\ Elsewhere

ktp_half_end ==
    /\ Quiet /\ stage = "play" /\ half = 1
    /\ stage' = "break"
    /\ wire' = <<half_end, summary("half_end", StatRows)>>
    /\ UNCHANGED <<match, half, on, moves, live, gone, kills, steady>> /\ Elsewhere

\* A later half that ends level has no signal of its own.
Tie ==
    /\ Quiet /\ Overtime /\ stage = "play" /\ half = 2
    /\ stage' = "break"
    /\ UNCHANGED <<match, half, on, moves, live, gone, kills, steady, wire>> /\ Elsewhere

ktp_match_end ==
    /\ Quiet
    /\ \/ stage = "play" /\ (half # 1 \/ Forfeits)
       \/ stage = "break" /\ (half # 1 \/ Forfeits)
    /\ stage' = "idle"
    /\ wire' = <<summary("match_end", StatRows), match_end>>
    /\ steady' = {p \in steady : p \in on => Of(gone, p) <= live[p]}
    /\ UNCHANGED <<match, half, on, moves, live, gone, kills>> /\ Elsewhere

-----------------------------------------------------------------------------
(* The POSTs and the page.                                                 *)

\* makeFireToSockets: the cache first, then the rooms.
Deliver(i, recent) ==
    /\ cache' = updateServerState(cache, wire[i])
    /\ page' = IF linked THEN Reduce(page, wire[i], recent) ELSE page
    /\ seen' = IF linked /\ wire[i].kind = "summary" /\ wire[i].reason \in {"half_end", "round_end"}
               THEN [seen EXCEPT ![half] = wire[i].rows] ELSE seen
    /\ wire' = RemoveAt(wire, i)
    /\ UNCHANGED <<plugin, lost, linked, links>>

Lose(i) ==
    /\ lost < MaxLost /\ lost' = lost + 1
    /\ wire' = RemoveAt(wire, i)
    /\ UNCHANGED <<plugin, cache, viewer>>

Disconnect ==
    /\ linked /\ links < MaxLinks
    /\ stage = "play" /\ half = 1 => Quiet
    /\ linked' = FALSE
    /\ UNCHANGED <<plugin, wire, lost, cache, page, links, seen>>

\* What a page that joins at halftime gets to see of the first half.
Replayed(then) ==
    IF stage = "break" /\ half = 1 /\ cache.summary # Null
    THEN [then EXCEPT ![1] = cache.summary] ELSE then

\* The socket is back: the snapshot falls on what the page still holds.
Reconnect ==
    /\ ~linked
    /\ linked' = TRUE /\ links' = links + 1
    /\ page' = Joined(page, cache)
    /\ seen' = Replayed(seen)
    /\ UNCHANGED <<plugin, wire, lost, cache>>

Reload ==
    /\ links < MaxLinks /\ links' = links + 1
    /\ linked' = TRUE
    /\ page' = Joined(Fresh, cache)
    /\ seen' = Replayed(NoHalves)
    /\ UNCHANGED <<plugin, wire, lost, cache>>

\* An earlier match of this page, won by capouts, to its second half or forfeited.
Earlier ==
    LET ones == [p \in Player |-> 1]
        first == <<match_start(1), half_start(1), roster(Player), summary("round_end", ones)>>
        second == <<half_end, summary("half_end", ones), match_start(2), half_start(2),
                    roster(Player), summary("round_end", ones)>>
        final == <<summary("match_end", ones), match_end>>
    IN  {<<>>, first \o second \o final} \cup (IF Forfeits THEN {first \o final} ELSE {})

Init ==
    /\ match = 0 /\ stage = "idle" /\ half = 0
    /\ on = Player /\ moves = 0 /\ live = NoKills /\ gone = NoRows
    /\ kills = [h \in Half |-> NoKills] /\ steady = Player
    /\ wire = <<>> /\ lost = 0
    /\ \E earlier \in Earlier :
          /\ cache = Updated(NoCache, earlier)
          /\ page = Reduced(Fresh, earlier)
    /\ linked = TRUE /\ links = 0
    /\ seen = NoHalves

Next ==
    \/ \E h \in Half : MatchStart(h)
    \/ \E p \in Player : Kill(p) \/ Leave(p) \/ Join(p)
    \/ Capout \/ ktp_half_end \/ Tie \/ ktp_match_end
    \/ \E i \in DOMAIN wire, recent \in BOOLEAN :
          /\ recent => page.board # Null /\ page.board.reason = "half_end"
          /\ Deliver(i, recent)
    \/ \E i \in DOMAIN wire : Lose(i)
    \/ Disconnect \/ Reconnect \/ Reload

Spec == Init /\ [][Next]_vars

-----------------------------------------------------------------------------
(* What is true of the boards.                                             *)

TypeOK ==
    /\ match \in 0..MaxMatch /\ stage \in {"idle", "play", "break"} /\ half \in Half \cup {0}
    /\ on \subseteq Player /\ moves \in 0..MaxMoves /\ steady \subseteq Player
    /\ live \in [Player -> Nat] /\ kills \in [Half -> [Player -> Nat]] /\ IsRows(gone)
    /\ page.half \in Half /\ IsRows(page.store) /\ page.handled \in Half \cup {Null}
    /\ \A h \in Half : IsRows(page.rows[h]) /\ IsRows(page.last[h]) /\ IsRows(seen[h])
    /\ page.src \in [Half -> {"none", "snapshot", "summary"}]
    /\ \A h \in Half : page.src[h] = "none" => page.rows[h] = NoRows
    /\ cache.half \in Half \cup {Null} /\ IsRows(cache.players)
    /\ cache.summary # Null => IsRows(cache.summary)
    /\ lost \in 0..MaxLost /\ links \in 0..MaxLinks /\ linked \in BOOLEAN

Total(p) == kills[1][p] + kills[2][p] + kills[101][p]

\* The match is over and its final board is up.
FinalUp ==
    /\ Quiet /\ stage = "idle" /\ match > 0
    /\ page.board # Null /\ page.board.reason = "match_end"

\* No final board credits a player with more than the match saw of him: no half
\* is counted twice, whatever was lost, overtaken, replayed or reloaded.
NeverOvercounts ==
    FinalUp => \A p \in DOMAIN page.board.rows : page.board.rows[p] <= Total(p)

\* A player of whose first half the page has seen all in a summary has his exact
\* numbers on the final board of two halves, also if he left, whatever else of
\* the end of the half came before, after or not at all.
BoardIsExact ==
    FinalUp /\ half = 2
      => \A p \in steady : Of(seen[1], p) = kills[1][p] => Of(page.board.rows, p) = Total(p)

\* What the page once saw of a half in a summary is on the final board, even if
\* the end of the half was lost and everybody left in between.
NothingSeenIsLost ==
    FinalUp => \A p \in steady :
        Of(page.board.rows, p) >= Of(seen[1], p) + Of(seen[2], p) + Of(seen[101], p)

\* Neither the halftime board nor a final board stands over live play, on a page
\* that stayed and on one that was loaded then.
BoardsComeDown ==
    Quiet /\ linked /\ stage = "play"
      => \/ page.board = Null
         \/ page.board.reason = "round_end"
         \/ half # 1 /\ page.board.fallback

\* A page loaded at halftime has the board and the archive of the page it was.
ReloadKeepsHalftime ==
    [][Reload /\ linked /\ stage = "break" /\ half = 1 /\ page.src[1] = "summary"
         => /\ page'.src[1] = "summary" /\ page'.rows[1] = page.rows[1]
            /\ page'.board = Board("half_end", FALSE, page.rows[1])]_vars

Symmetry == Permutations(Player)
=============================================================================

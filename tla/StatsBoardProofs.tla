-------------------------- MODULE StatsBoardProofs ---------------------------
(***************************************************************************)
(* Proofs about StatsBoard for any number of players, matches, kills,      *)
(* connections and moves.                                                  *)
(***************************************************************************)
EXTENDS StatsBoard, FoldFacts, SequenceTheorems

-----------------------------------------------------------------------------
(* Type correctness                                                        *)

Rows == UNION {[S -> Nat] : S \in SUBSET Player}
Halves == [Half -> Rows]
Reason == {"half_end", "match_end", "round_end"}
Boards == [reason : Reason, fallback : BOOLEAN, rows : Rows]

Page ==
    [half : Half, store : Rows, board : Boards \cup {Null}, rows : Halves,
     src : [Half -> {"none", "snapshot", "summary"}], last : Halves,
     handled : Half \cup {Null}, shown : BOOLEAN]

Cache == [half : Half \cup {Null}, players : Rows, summary : Rows \cup {Null}]

Start == [kind : {"match_start", "half_start"}, half : Half]
Summary == [kind : {"summary"}, reason : Reason, rows : Rows]
Message ==
    Start \cup Summary \cup [kind : {"roster"}, who : SUBSET Player]
    \cup [kind : {"score"}, rows : Rows] \cup [kind : {"left"}, who : Player]
    \cup [kind : {"half_end", "match_end"}]

\* A half that nothing was recorded for has no rows.
Unrecorded(pg) == \A h \in Half : pg.src[h] = "none" => pg.rows[h] = NoRows

TypeInv ==
    /\ match \in 0..MaxMatch /\ stage \in {"idle", "play", "break"} /\ half \in Half \cup {0}
    /\ on \subseteq Player /\ moves \in 0..MaxMoves /\ steady \subseteq Player
    /\ live \in [Player -> Nat] /\ kills \in [Half -> [Player -> Nat]] /\ gone \in Rows
    /\ wire \in Seq(Message) /\ lost \in 0..MaxLost
    /\ cache \in Cache
    /\ page \in Page /\ Unrecorded(page)
    /\ linked \in BOOLEAN /\ links \in 0..MaxLinks
    /\ ~ linked => links < MaxLinks
    /\ seen \in Halves

-----------------------------------------------------------------------------
(* The operators on rows.                                                  *)

LEMMA RowsAre ==
    \A r : r \in Rows <=> \E S \in SUBSET Player : r \in [S -> Nat]
BY DEF Rows

\* Rows are functions of players.
LEMMA RowsShape ==
    ASSUME NEW r \in Rows
    PROVE  /\ DOMAIN r \subseteq Player /\ r \in [DOMAIN r -> Nat]
           /\ \A p \in DOMAIN r : r[p] \in Nat
BY RowsAre

LEMMA NoRowsType == NoRows \in Rows /\ NoHalves \in Halves
BY RowsAre DEF NoRows, NoHalves, Halves

LEMMA NoKillsType == NoKills \in Rows /\ NoKills \in [Player -> Nat]
BY RowsAre DEF NoKills

LEMMA OfType == ASSUME NEW r \in Rows, NEW p PROVE Of(r, p) \in Nat
BY RowsShape DEF Of

LEMMA SumType == ASSUME NEW a \in Rows, NEW b \in Rows PROVE Sum(a, b) \in Rows
<1>1. Sum(a, b) \in [DOMAIN a \cup DOMAIN b -> Nat]
  BY OfType DEF Sum
<1> QED
  BY <1>1, RowsShape, RowsAre

LEMMA WithoutType == ASSUME NEW r \in Rows, NEW p PROVE Without(r, p) \in Rows
<1>1. Without(r, p) \in [DOMAIN r \ {p} -> Nat]
  BY RowsShape DEF Without
<1> QED
  BY <1>1, RowsShape, RowsAre

LEMMA ZerosType == ASSUME NEW S \in SUBSET Player PROVE Zeros(S) \in Rows
BY RowsAre DEF Zeros

LEMMA BesideType ==
    ASSUME NEW a \in Rows, NEW b \in Rows PROVE Beside(a, b) \in Rows
<1>1. Beside(a, b) \in [DOMAIN a \cup DOMAIN b -> Nat]
  BY RowsShape DEF Beside
<1> QED
  BY <1>1, RowsShape, RowsAre

LEMMA KnownType ==
    ASSUME NEW a \in Rows, NEW b \in Rows PROVE Known(a, b) \in Rows
<1>1. Known(a, b) \in [DOMAIN b -> Nat]
  BY RowsShape DEF Known
<1> QED
  BY <1>1, RowsShape, RowsAre

-----------------------------------------------------------------------------
(* The types of the page.                                                  *)

FineP == {pg \in Page : Unrecorded(pg)}

LEMMA HalfFacts ==
    /\ Half \subseteq Nat /\ Null \notin Half
    /\ NextHalf \in [Half -> Half] /\ NextHalf[1] = 2 /\ NextHalf[2] = 101
BY BoardAssumption DEF Half, NextHalf

LEMMA BoardType ==
    ASSUME NEW reason \in Reason, NEW f \in BOOLEAN, NEW r \in Rows
    PROVE  Board(reason, f, r) \in Boards
BY DEF Board, Boards

LEMMA RecordType ==
    ASSUME NEW pg \in FineP, NEW r \in Rows, NEW src \in {"snapshot", "summary"}
    PROVE  /\ Record(pg, r, src) \in FineP
           /\ \A f \in {"half", "store", "board", "last", "handled", "shown"} :
                 Record(pg, r, src)[f] = pg[f]
BY DEF FineP, Page, Unrecorded, Record, Halves

LEMMA CarriedType ==
    ASSUME NEW pg \in FineP
    PROVE  Carried(pg) \in Rows /\ carrySoFar(pg) \in Rows
<1>1. /\ pg.store \in Rows /\ pg.half \in Half
      /\ \A h \in Half : pg.rows[h] \in Rows /\ pg.last[h] \in Rows
  BY DEF FineP, Page, Halves
<1>2. carrySoFar(pg) \in Rows
  BY <1>1, SumType DEF carrySoFar, Half
<1> QED
  BY <1>1, <1>2 DEF Carried

LEMMA FreshType == Fresh \in FineP
BY NoRowsType DEF Fresh, FineP, Page, Unrecorded, Half, NoHalves

LEMMA FreshMatchType ==
    ASSUME NEW pg \in FineP PROVE FreshMatch(pg) \in FineP
BY NoRowsType DEF FreshMatch, FineP, Page, Unrecorded, NoHalves

LEMMA LaterHalfType ==
    ASSUME NEW pg \in FineP PROVE LaterHalf(pg) \in FineP
<1> DEFINE rows == Carried(pg)
           kept == Record(pg, rows, "snapshot")
<1>1. rows \in Rows
  BY CarriedType
<1>2. kept \in FineP
  BY <1>1, RecordType
<1>3. Board("half_end", TRUE, rows) \in Boards
  BY <1>1, BoardType DEF Reason
<1> HIDE DEF rows, kept
<1>4. \A b \in Boards \cup {Null} : [kept EXCEPT !.board = b] \in FineP
  BY <1>2 DEF FineP, Page, Unrecorded
<1> QED
  BY <1>2, <1>3, <1>4 DEF LaterHalf, rows, kept

LEMMA BoundaryType ==
    ASSUME NEW pg \in FineP, NEW h \in Half
    PROVE  handleHalfBoundary(pg, h) \in FineP
<1>1. \A q \in FineP : [q EXCEPT !.handled = h, !.shown = FALSE] \in FineP
  BY DEF FineP, Page, Unrecorded
<1> QED
  BY <1>1, FreshMatchType, LaterHalfType DEF handleHalfBoundary

\* What the store shows is changed without more.
LEMMA StoreType ==
    ASSUME NEW pg \in FineP, NEW r \in Rows
    PROVE  [pg EXCEPT !.store = r] \in FineP
BY DEF FineP, Page, Unrecorded

LEMMA StartType ==
    ASSUME NEW pg \in FineP, NEW h \in Half
    PROVE  on_match_start(pg, h) \in FineP /\ on_half_start(pg, h) \in FineP
<1> DEFINE q == handleHalfBoundary(pg, h)
<1>1. q \in FineP
  BY BoundaryType
<1>2. q.store \in Rows
  BY <1>1 DEF FineP, Page
<1>3. Zeros(DOMAIN q.store) \in Rows
  BY <1>2, RowsShape, ZerosType
<1> HIDE DEF q
<1>4. \A r \in Rows : [q EXCEPT !.store = r, !.half = h] \in FineP
  BY <1>1 DEF FineP, Page, Unrecorded
<1>5. on_match_start(pg, h) = [q EXCEPT !.store = NoRows, !.half = h]
  BY DEF on_match_start, q
<1>6. on_half_start(pg, h) = [q EXCEPT !.store = Zeros(DOMAIN @), !.half = h]
  BY DEF on_half_start, q
<1>7. on_half_start(pg, h) = [q EXCEPT !.store = Zeros(DOMAIN q.store), !.half = h]
  BY <1>6
<1> QED
  BY <1>3, <1>4, <1>5, <1>7, NoRowsType

LEMMA HalfEndType ==
    ASSUME NEW pg \in FineP, NEW recent \in BOOLEAN
    PROVE  on_half_end(pg, recent) \in FineP
<1> DEFINE rows == IF pg.store # NoRows THEN pg.store ELSE pg.last[pg.half]
           kept == Record(pg, rows, "snapshot")
<1>1. rows \in Rows
  BY DEF FineP, Page, Halves
<1>2. kept \in FineP
  BY <1>1, RecordType
<1>3. Board("half_end", FALSE, rows) \in Boards
  BY <1>1, BoardType DEF Reason
<1> HIDE DEF rows, kept
<1>4. \A b \in Boards : [kept EXCEPT !.shown = TRUE, !.board = b] \in FineP
  BY <1>2 DEF FineP, Page, Unrecorded
<1> QED
  BY <1>2, <1>3, <1>4 DEF on_half_end, rows, kept

LEMMA SummaryType ==
    ASSUME NEW pg \in FineP, NEW reason \in Reason, NEW r \in Rows
    PROVE  on_summary(pg, reason, r) \in FineP
<1> DEFINE merged == [pg EXCEPT !.store = Known(r, @)]
           total == Sum(carrySoFar(pg), Beside(r, pg.last[pg.half]))
<1>1. merged \in FineP
  BY StoreType, KnownType DEF FineP, Page
<1>2. merged.half = pg.half /\ merged.last = pg.last
  BY DEF FineP, Page
<1>3. total \in Rows
  BY CarriedType, BesideType, SumType DEF FineP, Page, Halves
<1>4. Record(merged, r, "summary") \in FineP
  BY <1>1, RecordType
<1>5. /\ Board("half_end", FALSE, r) \in Boards
      /\ Board("match_end", FALSE, total) \in Boards
      /\ Board("round_end", FALSE, r) \in Boards
  BY <1>3, BoardType DEF Reason
<1> HIDE DEF merged, total
<1>6. \A q \in FineP, b \in Boards :
        /\ [q EXCEPT !.shown = TRUE, !.board = b] \in FineP
        /\ [q EXCEPT !.last[pg.half] = r, !.board = b] \in FineP
  BY DEF FineP, Page, Unrecorded, Halves
<1>7. CASE reason = "half_end"
  BY <1>4, <1>5, <1>6, <1>7 DEF on_summary, merged
<1>8. CASE reason = "match_end"
  BY <1>1, <1>5, <1>6, <1>8 DEF on_summary, merged, total
<1>9. CASE reason = "round_end"
  BY <1>1, <1>5, <1>6, <1>9 DEF on_summary, merged
<1> QED
  BY <1>7, <1>8, <1>9 DEF Reason

\* The reducer keeps the types of the page.
LEMMA ReduceType ==
    ASSUME NEW pg \in FineP, NEW m \in Message, NEW recent \in BOOLEAN
    PROVE  Reduce(pg, m, recent) \in FineP
<1>1. pg.store \in Rows
  BY DEF FineP, Page
<1>2. CASE m \in Start
  BY <1>2, StartType DEF Start, Reduce
<1>3. CASE m \in Summary
  BY <1>3, SummaryType DEF Summary, Reduce
<1>4. CASE m \in [kind : {"roster"}, who : SUBSET Player]
  BY <1>1, <1>4, ZerosType, BesideType, StoreType DEF Reduce
<1>5. CASE m \in [kind : {"score"}, rows : Rows]
  BY <1>1, <1>5, KnownType, StoreType DEF Reduce
<1>6. CASE m \in [kind : {"left"}, who : Player]
  BY <1>1, <1>6, WithoutType, StoreType DEF Reduce
<1>7. CASE m \in [kind : {"half_end", "match_end"}]
  BY <1>7, HalfEndType DEF Reduce
<1> QED
  BY <1>2, <1>3, <1>4, <1>5, <1>6, <1>7 DEF Message

-----------------------------------------------------------------------------
(* The types of the cache.                                                 *)

LEMMA CacheStepType ==
    ASSUME NEW c \in Cache, NEW m \in Message
    PROVE  updateServerState(c, m) \in Cache
<1>1. /\ c.players \in Rows /\ Zeros(DOMAIN c.players) \in Rows
  BY RowsShape, ZerosType DEF Cache
<1>2. CASE m \in Start
  BY <1>1, <1>2, NoRowsType DEF Start, updateServerState, Cleared, HalfStarted, Cache
<1>3. CASE m \in Summary
  <2>1. Known(m.rows, c.players) \in Rows
    BY <1>1, <1>3, KnownType DEF Summary
  <2> QED
    BY <1>3, <2>1 DEF Summary, updateServerState, Cache
<1>4. CASE m \in [kind : {"roster"}, who : SUBSET Player]
  BY <1>1, <1>4, ZerosType, BesideType DEF updateServerState, Cache
<1>5. CASE m \in [kind : {"score"}, rows : Rows]
  BY <1>1, <1>5, KnownType DEF updateServerState, Cache
<1>6. CASE m \in [kind : {"left"}, who : Player]
  BY <1>1, <1>6, WithoutType DEF updateServerState, Cache
<1>7. CASE m \in [kind : {"half_end", "match_end"}]
  BY <1>7, NoRowsType DEF updateServerState, Cleared, Cache
<1> QED
  BY <1>2, <1>3, <1>4, <1>5, <1>6, <1>7 DEF Message

-----------------------------------------------------------------------------
(* Messages one after the other.                                           *)

\* The page goes through one page a message, all of a kind that messages keep.
Take(pg, m) == Reduce(pg, m, FALSE)

Reducible(Kind, msgs) == \A q \in Kind, i \in 1 .. Len(msgs) : Take(q, msgs[i]) \in Kind
ReducesTo(d, pg, msgs) ==
    /\ d[0] = pg
    /\ \A n \in 1 .. Len(msgs) : d[n] = Take(d[n - 1], msgs[n])
    /\ Reduced(pg, msgs) = d[Len(msgs)]

LEMMA ReducedSteps ==
    ASSUME NEW Kind, NEW pg \in Kind, NEW M, NEW msgs \in Seq(M), Reducible(Kind, msgs)
    PROVE  \E d \in [0 .. Len(msgs) -> Kind] : ReducesTo(d, pg, msgs)
<1> DEFINE N == Len(msgs)
           R(r) == r = [n \in 0 .. N |->
                          IF n = 0 THEN pg ELSE Take(r[n - 1], msgs[n])]
           it == CHOOSE r : R(r)
           step == [n \in 1 .. N |-> [q \in Kind |-> Take(q, msgs[n])]]
<1>1. N \in Nat
  BY LenProperties
<1>2. step \in [1 .. N -> [Kind -> Kind]]
  BY DEF Reducible
<1>3. PICK d \in [0 .. N -> Kind] : Follows(d, N, pg, step)
  <2> HIDE DEF step, N
  <2> QED
    BY <1>1, <1>2, RecursionExists
<1>4. /\ d[0] = pg
      /\ \A n \in 1 .. N : d[n] = Take(d[n - 1], msgs[n])
  <2>1. \A n \in 1 .. N : n - 1 \in 0 .. N
    BY <1>1
  <2> QED
    BY <1>3, <2>1 DEF Follows
<1>5. R(d)
  <2>1. \A n \in 0 .. N : n # 0 => n \in 1 .. N
    BY <1>1
  <2> QED
    BY <1>4, <2>1
<1>6. R(it)
  <2> HIDE DEF R
  <2> QED
    BY <1>5
<1>7. \A n \in 0 .. N : it[n] = d[n]
  <2>1. /\ 0 \in 0 .. N
        /\ \A n \in 1 .. N : n \in 0 .. N /\ n # 0
    BY <1>1
  <2>2. GoesBy(it, N, Kind, pg, step)
    BY <1>6, <2>1 DEF GoesBy
  <2> HIDE DEF it, step, N
  <2> QED
    BY <1>1, <1>3, <2>2, RecursionAgrees
<1>8. Reduced(pg, msgs) = it[N]
  BY DEF Reduced, Take
<1> QED
  BY <1>1, <1>4, <1>7, <1>8 DEF ReducesTo

\* The cache likewise.
Updatable(Kind, msgs) == \A q \in Kind, i \in 1 .. Len(msgs) : updateServerState(q, msgs[i]) \in Kind
UpdatesTo(d, c, msgs) ==
    /\ d[0] = c
    /\ \A n \in 1 .. Len(msgs) : d[n] = updateServerState(d[n - 1], msgs[n])
    /\ Updated(c, msgs) = d[Len(msgs)]

LEMMA UpdatedSteps ==
    ASSUME NEW Kind, NEW c \in Kind, NEW M, NEW msgs \in Seq(M), Updatable(Kind, msgs)
    PROVE  \E d \in [0 .. Len(msgs) -> Kind] : UpdatesTo(d, c, msgs)
<1> DEFINE N == Len(msgs)
           R(u) == u = [n \in 0 .. N |->
                          IF n = 0 THEN c ELSE updateServerState(u[n - 1], msgs[n])]
           it == CHOOSE u : R(u)
           step == [n \in 1 .. N |-> [q \in Kind |-> updateServerState(q, msgs[n])]]
<1>1. N \in Nat
  BY LenProperties
<1>2. step \in [1 .. N -> [Kind -> Kind]]
  BY DEF Updatable
<1>3. PICK d \in [0 .. N -> Kind] : Follows(d, N, c, step)
  <2> HIDE DEF step, N
  <2> QED
    BY <1>1, <1>2, RecursionExists
<1>4. /\ d[0] = c
      /\ \A n \in 1 .. N : d[n] = updateServerState(d[n - 1], msgs[n])
  <2>1. \A n \in 1 .. N : n - 1 \in 0 .. N
    BY <1>1
  <2> QED
    BY <1>3, <2>1 DEF Follows
<1>5. R(d)
  <2>1. \A n \in 0 .. N : n # 0 => n \in 1 .. N
    BY <1>1
  <2> QED
    BY <1>4, <2>1
<1>6. R(it)
  <2> HIDE DEF R
  <2> QED
    BY <1>5
<1>7. \A n \in 0 .. N : it[n] = d[n]
  <2>1. /\ 0 \in 0 .. N
        /\ \A n \in 1 .. N : n \in 0 .. N /\ n # 0
    BY <1>1
  <2>2. GoesBy(it, N, Kind, c, step)
    BY <1>6, <2>1 DEF GoesBy
  <2> HIDE DEF it, step, N
  <2> QED
    BY <1>1, <1>3, <2>2, RecursionAgrees
<1>8. Updated(c, msgs) = it[N]
  BY DEF Updated
<1> QED
  BY <1>1, <1>4, <1>7, <1>8 DEF UpdatesTo

\* Tuples that are put together.
LEMMA TuplesJoin ==
    ASSUME NEW h, NEW r, NEW s, NEW b
    PROVE  /\ <<>> \o <<r, s>> = <<r, s>> /\ <<r, s>> \o <<>> = <<r, s>>
           /\ <<h>> \o <<r, s>> = <<h, r, s>> /\ <<h, r, s>> \o <<>> = <<h, r, s>>
           /\ <<r, s>> \o <<b>> = <<r, s, b>> /\ <<h, r, s>> \o <<b>> = <<h, r, s, b>>
<1> DEFINE X == {h, r, s, b}
<1>1. /\ <<h>> \in Seq(X) /\ <<b>> \in Seq(X) /\ <<r, s>> \in Seq(X)
      /\ <<h, r, s>> \in Seq(X) /\ <<r, s, b>> \in Seq(X) /\ <<h, r, s, b>> \in Seq(X)
  OBVIOUS
<1>2. <<>> \o <<r, s>> = <<r, s>> /\ <<r, s>> \o <<>> = <<r, s>> /\ <<h, r, s>> \o <<>> = <<h, r, s>>
  BY <1>1, ConcatEmptySeq
<1>3. <<h>> \o <<r, s>> = <<h, r, s>>
  <2>1. /\ <<h>> \o <<r, s>> \in Seq(X) /\ Len(<<h>> \o <<r, s>>) = 3
        /\ \A i \in 1 .. 3 :
              (<<h>> \o <<r, s>>)[i] = IF i <= 1 THEN <<h>>[i] ELSE <<r, s>>[i - 1]
    BY <1>1, ConcatProperties
  <2>2. \A i \in 1 .. 3 : (<<h>> \o <<r, s>>)[i] = <<h, r, s>>[i]
    BY <2>1
  <2> QED
    BY <1>1, <2>1, <2>2, SeqEqual
<1>4. <<r, s>> \o <<b>> = <<r, s, b>>
  <2>1. /\ <<r, s>> \o <<b>> \in Seq(X) /\ Len(<<r, s>> \o <<b>>) = 3
        /\ \A i \in 1 .. 3 :
              (<<r, s>> \o <<b>>)[i] = IF i <= 2 THEN <<r, s>>[i] ELSE <<b>>[i - 2]
    BY <1>1, ConcatProperties
  <2>2. \A i \in 1 .. 3 : (<<r, s>> \o <<b>>)[i] = <<r, s, b>>[i]
    BY <2>1
  <2> QED
    BY <1>1, <2>1, <2>2, SeqEqual
<1>5. <<h, r, s>> \o <<b>> = <<h, r, s, b>>
  <2>1. /\ <<h, r, s>> \o <<b>> \in Seq(X) /\ Len(<<h, r, s>> \o <<b>>) = 4
        /\ \A i \in 1 .. 4 :
              (<<h, r, s>> \o <<b>>)[i] = IF i <= 3 THEN <<h, r, s>>[i] ELSE <<b>>[i - 3]
    BY <1>1, ConcatProperties
  <2>2. \A i \in 1 .. 4 : (<<h, r, s>> \o <<b>>)[i] = <<h, r, s, b>>[i]
    BY <2>1
  <2> QED
    BY <1>1, <2>1, <2>2, SeqEqual
<1> QED
  BY <1>2, <1>3, <1>4, <1>5

\* A snapshot is two to four messages.
LEMMA SnapshotIs ==
    ASSUME NEW c \in Cache, NEW r, NEW s, NEW h, NEW b,
           r = roster(DOMAIN c.players), s = score(c.players),
           h = half_start(c.half), b = summary("half_end", c.summary)
    PROVE  getServerSnapshot(c) =
             IF c.half = Null
             THEN IF c.summary = Null THEN <<r, s>> ELSE <<r, s, b>>
             ELSE IF c.summary = Null THEN <<h, r, s>> ELSE <<h, r, s, b>>
<1> DEFINE start == IF c.half = Null THEN <<>> ELSE <<h>>
           board == IF c.summary = Null THEN <<>> ELSE <<b>>
<1>1. getServerSnapshot(c) = start \o <<r, s>> \o board
  BY DEF getServerSnapshot, HalftimeBoard
<1>2. /\ <<>> \o <<r, s>> = <<r, s>> /\ <<r, s>> \o <<>> = <<r, s>>
      /\ <<h>> \o <<r, s>> = <<h, r, s>> /\ <<h, r, s>> \o <<>> = <<h, r, s>>
      /\ <<r, s>> \o <<b>> = <<r, s, b>> /\ <<h, r, s>> \o <<b>> = <<h, r, s, b>>
  BY TuplesJoin
<1>3. start \o <<r, s>> = IF c.half = Null THEN <<r, s>> ELSE <<h, r, s>>
  <2>1. CASE c.half = Null
    <3>1. start = <<>>
      BY <2>1
    <3> HIDE DEF start
    <3> QED
      BY <2>1, <3>1, <1>2
  <2>2. CASE c.half # Null
    <3>1. start = <<h>>
      BY <2>2
    <3> HIDE DEF start
    <3> QED
      BY <2>2, <3>1, <1>2
  <2> QED
    BY <2>1, <2>2
<1>4. CASE c.summary = Null
  <2>1. board = <<>>
    BY <1>4
  <2> HIDE DEF start, board
  <2> QED
    BY <1>1, <1>3, <1>4, <1>2, <2>1
<1>5. CASE c.summary # Null
  <2>1. board = <<b>>
    BY <1>5
  <2> HIDE DEF start, board
  <2> QED
    BY <1>1, <1>3, <1>5, <1>2, <2>1
<1> QED
  BY <1>4, <1>5

LEMMA SnapshotType ==
    ASSUME NEW c \in Cache PROVE getServerSnapshot(c) \in Seq(Message)
<1> DEFINE r == roster(DOMAIN c.players)
           s == score(c.players)
           h == half_start(c.half)
           b == summary("half_end", c.summary)
<1>1. r \in Message /\ s \in Message
  BY RowsShape DEF Cache, Message, roster, score
<1>2. c.half # Null => h \in Message
  BY DEF Cache, Message, Start, half_start
<1>3. c.summary # Null => b \in Message
  BY DEF Cache, Message, Summary, Reason, summary
<1>4. getServerSnapshot(c) =
         IF c.half = Null
         THEN IF c.summary = Null THEN <<r, s>> ELSE <<r, s, b>>
         ELSE IF c.summary = Null THEN <<h, r, s>> ELSE <<h, r, s, b>>
  <2> HIDE DEF r, s, h, b
  <2> QED
    BY SnapshotIs DEF r, s, h, b
<1> HIDE DEF r, s, h, b
<1>5. CASE c.half = Null
  BY <1>1, <1>3, <1>4, <1>5
<1>6. CASE c.half # Null
  BY <1>1, <1>2, <1>3, <1>4, <1>6
<1> QED
  BY <1>5, <1>6

\* What joining does, one event after the other.
Greeted(pg, c) == IF c.half = Null THEN pg ELSE on_half_start(pg, c.half)
Filled(pg, c) ==
    [Greeted(pg, c) EXCEPT
        !.store = Known(c.players, Beside(Greeted(pg, c).store, Zeros(DOMAIN c.players)))]

LEMMA JoinedIs ==
    ASSUME NEW pg \in FineP, NEW c \in Cache
    PROVE  /\ Greeted(pg, c) \in FineP /\ Filled(pg, c) \in FineP
           /\ Joined(pg, c) = IF c.summary = Null THEN Filled(pg, c)
                              ELSE on_summary(Filled(pg, c), "half_end", c.summary)
           /\ Joined(pg, c) \in FineP
<1> DEFINE msgs == getServerSnapshot(c)
           roll == roster(DOMAIN c.players)
           rest == score(c.players)
           head == half_start(c.half)
           tail == summary("half_end", c.summary)
<1>1. msgs \in Seq(Message)
  BY SnapshotType
<1>2. Reducible(FineP, msgs)
  <2> SUFFICES ASSUME NEW q \in FineP, NEW i \in 1 .. Len(msgs)
               PROVE  Take(q, msgs[i]) \in FineP
    BY DEF Reducible
  <2>1. msgs[i] \in Message
    BY <1>1
  <2> QED
    BY <2>1, ReduceType DEF Take
<1>3. PICK d \in [0 .. Len(msgs) -> FineP] : ReducesTo(d, pg, msgs)
  <2> HIDE DEF msgs
  <2> QED
    BY <1>1, <1>2, ReducedSteps
<1>4. Joined(pg, c) = d[Len(msgs)]
  BY <1>3 DEF Joined, ReducesTo
<1>5. \A q \in FineP :
        Take(Take(q, roll), rest) =
          [q EXCEPT !.store = Known(c.players, Beside(q.store, Zeros(DOMAIN c.players)))]
  <2>1. \A q : Take(q, roll) = [q EXCEPT !.store = Beside(@, Zeros(DOMAIN c.players))]
    BY DEF Take, Reduce, roster
  <2>2. \A q : Take(q, rest) = [q EXCEPT !.store = Known(c.players, @)]
    BY DEF Take, Reduce, score
  <2> HIDE DEF roll, rest
  <2>3. ASSUME NEW q \in FineP, NEW r, NEW s
        PROVE  /\ [q EXCEPT !.store = r].store = r
               /\ [[q EXCEPT !.store = r] EXCEPT !.store = s] = [q EXCEPT !.store = s]
    BY DEF FineP, Page
  <2>4. ASSUME NEW q \in FineP
        PROVE  Take(Take(q, roll), rest) =
                 [q EXCEPT !.store = Known(c.players, Beside(q.store, Zeros(DOMAIN c.players)))]
    <3> DEFINE b == Beside(q.store, Zeros(DOMAIN c.players))
    <3>1. Take(q, roll) = [q EXCEPT !.store = b]
      BY <2>1
    <3>2. [q EXCEPT !.store = b].store = b
      BY <2>3
    <3> HIDE DEF b
    <3>3. Take([q EXCEPT !.store = b], rest)
            = [[q EXCEPT !.store = b] EXCEPT !.store = Known(c.players, b)]
      BY <2>2, <3>2
    <3> QED
      BY <2>3, <3>1, <3>3 DEF b
  <2> QED
    BY <2>4
<1>6. Greeted(pg, c) \in FineP
  BY StartType DEF Greeted, Cache
<1>7. /\ Take(Take(Greeted(pg, c), roll), rest) = Filled(pg, c)
      /\ Filled(pg, c) \in FineP
  <2>1. Greeted(pg, c).store \in Rows /\ Zeros(DOMAIN c.players) \in Rows /\ c.players \in Rows
    BY <1>6, RowsShape, ZerosType DEF FineP, Page, Cache
  <2>2. Known(c.players, Beside(Greeted(pg, c).store, Zeros(DOMAIN c.players))) \in Rows
    BY <2>1, BesideType, KnownType
  <2> QED
    BY <1>5, <1>6, <2>2, StoreType DEF Filled
<1>8. \A q : Take(q, tail) = on_summary(q, "half_end", c.summary)
  BY DEF Take, Reduce, summary
<1>9. c.half # Null => Take(pg, head) = Greeted(pg, c)
  BY DEF Take, Reduce, half_start, Greeted
<1>10. /\ d[0] = pg /\ d[Len(msgs)] \in FineP
       /\ \A n \in 1 .. Len(msgs) : d[n] = Take(d[n - 1], msgs[n])
  BY <1>1, <1>3, LenProperties DEF ReducesTo
<1> HIDE DEF roll, rest, head, tail
<1>11. msgs = IF c.half = Null
              THEN IF c.summary = Null THEN <<roll, rest>> ELSE <<roll, rest, tail>>
              ELSE IF c.summary = Null THEN <<head, roll, rest>> ELSE <<head, roll, rest, tail>>
  BY SnapshotIs DEF roll, rest, head, tail
<1> HIDE DEF msgs
<1>12. CASE c.half = Null /\ c.summary = Null
  <2>1. Len(msgs) = 2 /\ msgs[1] = roll /\ msgs[2] = rest
    BY <1>11, <1>12
  <2>2. d[1] = Take(d[0], roll)
    BY <2>1, <1>10
  <2>3. d[2] = Take(d[1], rest)
    BY <2>1, <1>10
  <2>4. d[0] = Greeted(pg, c)
    BY <1>12, <1>9, <1>10, <2>2 DEF Greeted
  <2>5. d[2] = Filled(pg, c)
    BY <2>4, <2>2, <2>3, <1>7
  <2> QED
    BY <2>1, <2>5, <1>12, <1>4, <1>6, <1>7, <1>10
<1>13. CASE c.half = Null /\ c.summary # Null
  <2>1. Len(msgs) = 3 /\ msgs[1] = roll /\ msgs[2] = rest /\ msgs[3] = tail
    BY <1>11, <1>13
  <2>2. d[1] = Take(d[0], roll)
    BY <2>1, <1>10
  <2>3. d[2] = Take(d[1], rest)
    BY <2>1, <1>10
  <2>4. d[3] = Take(d[2], tail)
    BY <2>1, <1>10
  <2>5. d[0] = Greeted(pg, c)
    BY <1>13, <1>9, <1>10, <2>2 DEF Greeted
  <2>6. d[2] = Filled(pg, c)
    BY <2>5, <2>2, <2>3, <1>7
  <2> QED
    BY <2>1, <2>4, <2>6, <1>13, <1>4, <1>6, <1>7, <1>8, <1>10
<1>14. CASE c.half # Null /\ c.summary = Null
  <2>1. Len(msgs) = 3 /\ msgs[1] = head /\ msgs[2] = roll /\ msgs[3] = rest
    BY <1>11, <1>14
  <2>2. d[1] = Take(d[0], head)
    BY <2>1, <1>10
  <2>3. d[2] = Take(d[1], roll)
    BY <2>1, <1>10
  <2>4. d[3] = Take(d[2], rest)
    BY <2>1, <1>10
  <2>5. d[1] = Greeted(pg, c)
    BY <1>14, <1>9, <1>10, <2>2 DEF Greeted
  <2>6. d[3] = Filled(pg, c)
    BY <2>5, <2>3, <2>4, <1>7
  <2> QED
    BY <2>1, <2>6, <1>14, <1>4, <1>6, <1>7, <1>10
<1>15. CASE c.half # Null /\ c.summary # Null
  <2>1. Len(msgs) = 4 /\ msgs[1] = head /\ msgs[2] = roll /\ msgs[3] = rest /\ msgs[4] = tail
    BY <1>11, <1>15
  <2>2. d[1] = Take(d[0], head)
    BY <2>1, <1>10
  <2>3. d[2] = Take(d[1], roll)
    BY <2>1, <1>10
  <2>4. d[3] = Take(d[2], rest)
    BY <2>1, <1>10
  <2>5. d[4] = Take(d[3], tail)
    BY <2>1, <1>10
  <2>6. d[1] = Greeted(pg, c)
    BY <1>15, <1>9, <1>10, <2>2 DEF Greeted
  <2>7. d[3] = Filled(pg, c)
    BY <2>6, <2>3, <2>4, <1>7
  <2> QED
    BY <2>1, <2>5, <2>7, <1>15, <1>4, <1>6, <1>7, <1>8, <1>10
<1> QED
  BY <1>4, <1>6, <1>7, <1>10, <1>12, <1>13, <1>14, <1>15

\* What stays when one message is taken out.
LEMMA RemoveFacts ==
    ASSUME NEW X, NEW s \in Seq(X), NEW i \in DOMAIN s
    PROVE  /\ RemoveAt(s, i) \in Seq(X)
           /\ Len(RemoveAt(s, i)) = Len(s) - 1
           /\ DOMAIN RemoveAt(s, i) = 1 .. Len(s) - 1 /\ DOMAIN s = 1 .. Len(s)
           /\ \A k \in 1 .. Len(s) - 1 :
                 RemoveAt(s, i)[k] = IF k < i THEN s[k] ELSE s[k + 1]
<1>1. Len(s) \in Nat /\ DOMAIN s = 1 .. Len(s) /\ i \in 1 .. Len(s)
  BY LenProperties
<1> DEFINE a == SubSeq(s, 1, i - 1)
           b == SubSeq(s, i + 1, Len(s))
<1>2. a \in Seq(X) /\ Len(a) = i - 1 /\ \A k \in 1 .. i - 1 : a[k] = s[k]
  BY <1>1
<1>3. b \in Seq(X) /\ Len(b) = Len(s) - i /\ \A k \in 1 .. Len(s) - i : b[k] = s[i + k]
  BY <1>1
<1> HIDE DEF a, b
<1>4. /\ a \o b \in Seq(X) /\ Len(a \o b) = Len(s) - 1
      /\ \A k \in 1 .. Len(s) - 1 :
            (a \o b)[k] = IF k <= i - 1 THEN a[k] ELSE b[k - (i - 1)]
  <2>1. /\ a \o b \in Seq(X) /\ Len(a \o b) = Len(a) + Len(b)
        /\ \A k \in 1 .. Len(a) + Len(b) :
              (a \o b)[k] = IF k <= Len(a) THEN a[k] ELSE b[k - Len(a)]
    BY <1>2, <1>3, ConcatProperties
  <2>2. Len(a) + Len(b) = Len(s) - 1
    BY <1>1, <1>2, <1>3
  <2> QED
    BY <2>1, <2>2, <1>2
<1>5. RemoveAt(s, i) = a \o b
  BY DEF RemoveAt, a, b
<1>6. ASSUME NEW k \in 1 .. Len(s) - 1, k >= i PROVE b[k - (i - 1)] = s[k + 1]
  <2>1. k - (i - 1) \in 1 .. Len(s) - i /\ i + (k - (i - 1)) = k + 1
    BY <1>1, <1>6
  <2> QED
    BY <2>1, <1>3
<1>7. ASSUME NEW k \in 1 .. Len(s) - 1, k < i PROVE a[k] = s[k] /\ k <= i - 1
  BY <1>1, <1>2, <1>7
<1>8. DOMAIN (a \o b) = 1 .. Len(s) - 1
  BY <1>4, LenProperties
<1>9. ASSUME NEW k \in 1 .. Len(s) - 1
      PROVE  (a \o b)[k] = IF k < i THEN s[k] ELSE s[k + 1]
  <2>1. CASE k < i
    BY <2>1, <1>4, <1>7
  <2>2. CASE k >= i
    <3>1. ~ (k <= i - 1) /\ ~ (k < i)
      BY <2>2, <1>1
    <3> QED
      BY <2>2, <3>1, <1>4, <1>6
  <2>3. k < i \/ k >= i
    BY <1>1
  <2> QED
    BY <2>1, <2>2, <2>3
<1> QED
  BY <1>1, <1>4, <1>5, <1>8, <1>9

LEMMA ReducedType ==
    ASSUME NEW pg \in FineP, NEW msgs \in Seq(Message) PROVE Reduced(pg, msgs) \in FineP
<1>1. Reducible(FineP, msgs)
  <2>1. \A i \in 1 .. Len(msgs) : msgs[i] \in Message
    OBVIOUS
  <2> QED
    BY <2>1, ReduceType DEF Reducible, Take
<1>2. PICK d \in [0 .. Len(msgs) -> FineP] : ReducesTo(d, pg, msgs)
  BY <1>1, ReducedSteps
<1> QED
  BY <1>2, LenProperties DEF ReducesTo

LEMMA UpdatedType ==
    ASSUME NEW c \in Cache, NEW msgs \in Seq(Message) PROVE Updated(c, msgs) \in Cache
<1>1. Updatable(Cache, msgs)
  <2>1. \A i \in 1 .. Len(msgs) : msgs[i] \in Message
    OBVIOUS
  <2> QED
    BY <2>1, CacheStepType DEF Updatable
<1>2. PICK d \in [0 .. Len(msgs) -> Cache] : UpdatesTo(d, c, msgs)
  BY <1>1, UpdatedSteps
<1> QED
  BY <1>2, LenProperties DEF UpdatesTo

-----------------------------------------------------------------------------
(* The types of the system.                                                *)

LEMMA MessageTypes ==
    /\ \A h \in Half : match_start(h) \in Message /\ half_start(h) \in Message
    /\ \A S \in SUBSET Player : roster(S) \in Message
    /\ \A r \in Rows : score(r) \in Message
    /\ \A p \in Player : left(p) \in Message
    /\ \A reason \in Reason, r \in Rows : summary(reason, r) \in Message
    /\ half_end \in Message /\ match_end \in Message
BY DEF Message, Start, Summary, match_start, half_start, roster, score, left, summary,
       half_end, match_end

LEMMA EarlierType == \A e \in Earlier : e \in Seq(Message)
<1> DEFINE ones == [p \in Player |-> 1]
           first == <<match_start(1), half_start(1), roster(Player), summary("round_end", ones)>>
           second == <<half_end, summary("half_end", ones), match_start(2), half_start(2),
                       roster(Player), summary("round_end", ones)>>
           final == <<summary("match_end", ones), match_end>>
<1>1. ones \in Rows
  BY RowsAre
<1>2. /\ match_start(1) \in Message /\ half_start(1) \in Message
      /\ match_start(2) \in Message /\ half_start(2) \in Message
      /\ roster(Player) \in Message /\ half_end \in Message /\ match_end \in Message
      /\ \A reason \in Reason : summary(reason, ones) \in Message
  BY <1>1, MessageTypes DEF Half
<1> HIDE DEF ones
<1>3. first \in Seq(Message) /\ second \in Seq(Message) /\ final \in Seq(Message)
  BY <1>2 DEF Reason
<1> HIDE DEF first, second, final
<1>4. first \o second \o final \in Seq(Message) /\ first \o final \in Seq(Message)
  BY <1>3, ConcatProperties
<1>5. \A e \in Earlier : e = <<>> \/ e = first \o second \o final \/ e = first \o final
  BY DEF Earlier, ones, first, second, final
<1>6. <<>> \in Seq(Message)
  OBVIOUS
<1> QED
  BY <1>4, <1>5, <1>6

LEMMA NoCacheType == NoCache \in Cache
BY NoRowsType DEF NoCache, Cache

LEMMA TypeInit == Init => TypeInv
<1> SUFFICES ASSUME Init PROVE TypeInv
  OBVIOUS
<1>1. PICK e \in Earlier : cache = Updated(NoCache, e) /\ page = Reduced(Fresh, e)
  BY DEF Init
<1>2. cache \in Cache /\ page \in FineP
  BY <1>1, EarlierType, NoCacheType, FreshType, ReducedType, UpdatedType
<1>3. page \in Page /\ Unrecorded(page)
  BY <1>2 DEF FineP
<1>4. kills \in [Half -> [Player -> Nat]]
  BY NoKillsType DEF Init
<1>5. 0 \in 0 .. MaxMatch /\ 0 \in 0 .. MaxMoves /\ 0 \in 0 .. MaxLost /\ 0 \in 0 .. MaxLinks
  BY BoardAssumption
<1> QED
  BY <1>2, <1>3, <1>4, <1>5, NoRowsType, NoKillsType DEF Init, TypeInv

LEMMA StatRowsType == TypeInv => StatRows \in Rows
<1> SUFFICES ASSUME TypeInv PROVE StatRows \in Rows
  OBVIOUS
<1>1. StatRows \in [on \cup DOMAIN gone -> Nat]
  BY RowsShape DEF StatRows, TypeInv
<1>2. on \cup DOMAIN gone \in SUBSET Player
  BY RowsShape DEF TypeInv
<1> QED
  BY <1>1, <1>2, RowsAre

LEMMA TypeStep == TypeInv /\ [Next]_vars => TypeInv'
<1> SUFFICES ASSUME TypeInv, [Next]_vars PROVE TypeInv'
  OBVIOUS
<1> USE DEF TypeInv
<1>1. ASSUME NEW h \in Half, MatchStart(h) PROVE TypeInv'
  <2>1. wire' \in Seq(Message)
    <3>1. match_start(h) \in Message /\ half_start(h) \in Message /\ roster(on) \in Message
      BY MessageTypes
    <3> QED
      BY <1>1, <3>1 DEF MatchStart
  <2>2. match' \in 0 .. MaxMatch
    BY <1>1, BoardAssumption DEF MatchStart
  <2>3. kills' \in [Half -> [Player -> Nat]] /\ steady' \subseteq Player
    BY <1>1, NoKillsType DEF MatchStart
  <2>4. seen' \in Halves /\ live' \in [Player -> Nat] /\ gone' \in Rows
    BY <1>1, NoRowsType, NoKillsType DEF MatchStart
  <2>5. Unrecorded(page)'
    BY <1>1 DEF MatchStart, Unrecorded
  <2> QED
    BY <1>1, <2>1, <2>2, <2>3, <2>4, <2>5 DEF MatchStart
<1>2. ASSUME NEW p \in Player, Kill(p) PROVE TypeInv'
  <2>1. live' \in [Player -> Nat]
    BY <1>2 DEF Kill
  <2>2. kills' \in [Half -> [Player -> Nat]]
    <3>1. kills' = [kills EXCEPT ![half][p] = @ + 1]
      BY <1>2 DEF Kill
    <3>2. CASE half \in Half
      <4>1. [kills[half] EXCEPT ![p] = @ + 1] \in [Player -> Nat]
        BY <3>2
      <4>2. kills' = [kills EXCEPT ![half] = [kills[half] EXCEPT ![p] = @ + 1]]
        BY <3>1
      <4> HIDE DEF TypeInv
      <4>3. kills \in [Half -> [Player -> Nat]]
        BY DEF TypeInv
      <4> QED
        BY <4>1, <4>2, <4>3
    <3>3. CASE half \notin Half
      BY <3>1, <3>3
    <3> QED
      BY <3>2, <3>3
  <2>3. wire' \in Seq(Message)
    <3>1. [q \in {p} |-> live'[p]] \in Rows
      BY <2>1, RowsAre
    <3>2. score([q \in {p} |-> live'[p]]) \in Message
      BY <3>1, MessageTypes
    <3> QED
      BY <1>2, <3>2 DEF Kill
  <2>4. Unrecorded(page)'
    BY <1>2 DEF Kill, Elsewhere, viewer, Unrecorded
  <2> QED
    BY <1>2, <2>1, <2>2, <2>3, <2>4 DEF Kill, Elsewhere, viewer
<1>3. ASSUME NEW p \in Player, Leave(p) PROVE TypeInv'
  <2>1. [q \in {p} |-> live[p]] \in Rows
    BY RowsAre
  <2>2. gone' \in Rows
    BY <1>3, <2>1, BesideType DEF Leave
  <2>3. live' \in [Player -> Nat] /\ steady' \subseteq Player
    BY <1>3 DEF Leave
  <2>4. wire' \in Seq(Message)
    BY <1>3, MessageTypes DEF Leave
  <2>5. Unrecorded(page)'
    BY <1>3 DEF Leave, Elsewhere, viewer, Unrecorded
  <2>6. moves' \in 0 .. MaxMoves
    BY <1>3, BoardAssumption DEF Leave
  <2> QED
    BY <1>3, <2>2, <2>3, <2>4, <2>5, <2>6 DEF Leave, Elsewhere, viewer
<1>4. ASSUME NEW p \in Player, Join(p) PROVE TypeInv'
  <2>1. wire' \in Seq(Message) /\ steady' \subseteq Player
    BY <1>4, MessageTypes DEF Join
  <2>2. Unrecorded(page)'
    BY <1>4 DEF Join, Elsewhere, viewer, Unrecorded
  <2>3. moves' \in 0 .. MaxMoves
    BY <1>4, BoardAssumption DEF Join
  <2> QED
    BY <1>4, <2>1, <2>2, <2>3 DEF Join, Elsewhere, viewer
<1>5. ASSUME Capout PROVE TypeInv'
  <2>1. wire' \in Seq(Message)
    BY <1>5, StatRowsType, MessageTypes DEF Capout, Reason
  <2>2. Unrecorded(page)'
    BY <1>5 DEF Capout, Elsewhere, viewer, Unrecorded
  <2> QED
    BY <1>5, <2>1, <2>2 DEF Capout, plugin, Elsewhere, viewer
<1>6. ASSUME ktp_half_end PROVE TypeInv'
  <2>1. half_end \in Message /\ summary("half_end", StatRows) \in Message
    BY StatRowsType, MessageTypes DEF Reason
  <2>2. wire' \in Seq(Message)
    BY <1>6, <2>1 DEF ktp_half_end
  <2>3. Unrecorded(page)'
    BY <1>6 DEF ktp_half_end, Elsewhere, viewer, Unrecorded
  <2> QED
    BY <1>6, <2>2, <2>3 DEF ktp_half_end, Elsewhere, viewer
<1>7. ASSUME Tie PROVE TypeInv'
  BY <1>7 DEF Tie, Elsewhere, viewer, Unrecorded
<1>8. ASSUME ktp_match_end PROVE TypeInv'
  <2>1. match_end \in Message /\ summary("match_end", StatRows) \in Message
    BY StatRowsType, MessageTypes DEF Reason
  <2>2. wire' \in Seq(Message)
    BY <1>8, <2>1 DEF ktp_match_end
  <2>3. Unrecorded(page)' /\ steady' \subseteq Player
    BY <1>8 DEF ktp_match_end, Elsewhere, viewer, Unrecorded
  <2> QED
    BY <1>8, <2>2, <2>3 DEF ktp_match_end, Elsewhere, viewer
<1>9. ASSUME NEW i \in DOMAIN wire, NEW recent \in BOOLEAN, Deliver(i, recent) PROVE TypeInv'
  <2>1. wire' \in Seq(Message) /\ wire[i] \in Message
    BY <1>9, RemoveFacts DEF Deliver
  <2>2. cache' \in Cache
    BY <1>9, <2>1, CacheStepType DEF Deliver
  <2>3. page' \in FineP
    <3>1. page \in FineP
      BY DEF FineP
    <3> QED
      BY <1>9, <2>1, <3>1, ReduceType DEF Deliver
  <2>4. seen' \in Halves
    <3>1. wire[i].kind = "summary" => wire[i].rows \in Rows
      BY <2>1 DEF Message, Start, Summary
    <3> QED
      BY <1>9, <3>1 DEF Deliver, Halves
  <2> QED
    BY <1>9, <2>1, <2>2, <2>3, <2>4 DEF Deliver, plugin, FineP
<1>10. ASSUME NEW i \in DOMAIN wire, Lose(i) PROVE TypeInv'
  <2>1. wire' \in Seq(Message)
    BY <1>10, RemoveFacts DEF Lose
  <2>2. Unrecorded(page)' /\ lost' \in 0 .. MaxLost
    BY <1>10, BoardAssumption DEF Lose, viewer, Unrecorded
  <2> QED
    BY <1>10, <2>1, <2>2 DEF Lose, plugin, viewer
<1>11. ASSUME Disconnect PROVE TypeInv'
  BY <1>11 DEF Disconnect, plugin, Unrecorded
<1>12. ASSUME NEW then \in Halves PROVE Replayed(then) \in Halves
  BY DEF Replayed, Halves, Cache
<1>13. ASSUME Reconnect PROVE TypeInv'
  <2>1. page' \in FineP
    BY <1>13, JoinedIs DEF Reconnect, FineP
  <2>2. links' \in 0 .. MaxLinks
    <3>1. links' = links + 1 /\ links < MaxLinks
      BY <1>13 DEF Reconnect
    <3>2. MaxLinks \in Nat
      BY BoardAssumption
    <3> QED
      BY <3>1, <3>2
  <2> QED
    BY <1>12, <1>13, <2>1, <2>2 DEF Reconnect, plugin, FineP
<1>14. ASSUME Reload PROVE TypeInv'
  <2>1. page' \in FineP
    BY <1>14, JoinedIs, FreshType DEF Reload
  <2>2. links' \in 0 .. MaxLinks
    <3>1. links' = links + 1 /\ links < MaxLinks
      BY <1>14 DEF Reload
    <3>2. MaxLinks \in Nat
      BY BoardAssumption
    <3> QED
      BY <3>1, <3>2
  <2>3. seen' \in Halves
    BY <1>12, <1>14, NoRowsType DEF Reload
  <2> QED
    BY <1>14, <2>1, <2>2, <2>3 DEF Reload, plugin, FineP
<1>15. CASE UNCHANGED vars
  BY <1>15 DEF vars, plugin, viewer, Unrecorded
<1> QED
  BY <1>1, <1>2, <1>3, <1>4, <1>5, <1>6, <1>7, <1>8, <1>9, <1>10, <1>11, <1>13, <1>14, <1>15
     DEF Next

LEMMA TypeInvImplies == TypeInv => TypeOK
<1> SUFFICES ASSUME TypeInv PROVE TypeOK
  OBVIOUS
<1>1. \A r \in Rows : IsRows(r)
  BY RowsShape DEF IsRows
<1>2. /\ page.half \in Half /\ page.store \in Rows /\ page.handled \in Half \cup {Null}
      /\ \A h \in Half : page.rows[h] \in Rows /\ page.last[h] \in Rows /\ seen[h] \in Rows
      /\ page.src \in [Half -> {"none", "snapshot", "summary"}]
      /\ \A h \in Half : page.src[h] = "none" => page.rows[h] = NoRows
  BY DEF TypeInv, Page, Halves, Unrecorded
<1>3. /\ cache.half \in Half \cup {Null} /\ cache.players \in Rows
      /\ cache.summary # Null => cache.summary \in Rows
  BY DEF TypeInv, Cache
<1> QED
  BY <1>1, <1>2, <1>3 DEF TypeInv, TypeOK

LEMMA TypeHolds == Spec => []TypeInv
BY TypeInit, TypeStep, PTL DEF Spec

\* The boards, the archive of a page, the cache and the plugin's rows keep their
\* types: no message is for a half that is none, no half without a source has rows.
THEOREM TypeCorrect == Spec => []TypeOK
BY TypeHolds, TypeInvImplies, PTL

-----------------------------------------------------------------------------
(* The invariant of the counts                                             *)

AtMost(r, k) == \A p \in DOMAIN r : r[p] <= k[p]

\* No page counts a half before it is over, or what was not done in it.
Held(pg, k) ==
    /\ AtMost(pg.store, k[pg.half])
    /\ \A h \in Half :
          /\ AtMost(pg.rows[h], k[h]) /\ AtMost(pg.last[h], k[h])
          /\ h # 1 /\ pg.half <= h => pg.rows[h] = NoRows

\* A board that nobody showed as that of an end comes down at the next boundary.
Shown(pg) ==
    pg.board = Null \/ pg.board.reason = "round_end" \/ pg.board.fallback \/ pg.shown

Allowed(pg, h) ==
    pg.board = Null \/ pg.board.reason = "round_end" \/ (h # 1 /\ pg.board.fallback)

\* A final board is of the match that is over, and adds no more than its halves.
Final(pg, st, k) ==
    pg.board # Null /\ pg.board.reason = "match_end"
      => /\ st = "idle"
         /\ \A p \in DOMAIN pg.board.rows :
               pg.board.rows[p] <= k[1][p] + k[2][p] + k[101][p]

\* The cache has what was done in its half.
Kept(c, h, st, k) ==
    /\ c.half \in Half /\ c.half <= h
    /\ AtMost(c.players, k[c.half])
    /\ c.summary # Null => AtMost(c.summary, k[1]) /\ (h = 1 => st = "break")

\* A page, or the cache, that is on half x has not been told of the match yet.
Stale(m, st, h, x) == m = 0 \/ (st = "play" /\ h = 1 /\ x # 1)
StalePage == Stale(match, stage, half, page.handled)
StaleCache == Stale(match, stage, half, cache.half)

\* The half has reached the cache, and the page if it is there.
Begun == cache.half = half /\ (linked => page.handled = half)

Starts == {"match_start", "half_start"}

\* One more POST than can still be lost tells of the half.
Pending(w, l) ==
    \/ \E i, j \in DOMAIN w : i # j /\ w[i].kind \in Starts /\ w[j].kind \in Starts
    \/ l = MaxLost /\ \E i \in DOMAIN w : w[i].kind \in Starts

Course ==
    /\ match = 0 => half = 0 /\ stage = "idle" /\ page.handled # 1 /\ cache.half # 1
    /\ match # 0 => half # 0
    /\ stage = "break" => half \in {1, 2}
    /\ stage = "idle" => half # 1
    /\ half # 0 => Begun \/ (Pending(wire, lost) /\ stage = "play")

Counts ==
    /\ half = 0 => live = NoKills /\ gone = NoRows
    /\ half # 0 => AtMost(live, kills[half]) /\ AtMost(gone, kills[half])

\* What is under way is of the moment.
Fits(m, st, h, k) ==
    /\ m.kind \in Starts => st = "play" /\ m.half = h
    /\ m.kind = "score" => st = "play" /\ AtMost(m.rows, k[h])
    /\ m.kind = "half_end" => st = "break" /\ h = 1
    /\ m.kind = "match_end" => st = "idle"
    /\ m.kind = "summary" =>
          /\ AtMost(m.rows, k[h])
          /\ m.reason = "half_end" => st = "break" /\ h = 1
          /\ m.reason = "round_end" => st = "play"
          /\ m.reason = "match_end" => st = "idle"

Late == {"score", "half_end", "match_end", "summary"}

Underway ==
    \A i \in DOMAIN wire :
       /\ Fits(wire[i], stage, half, kills)
       /\ wire[i].kind \in Late => Begun /\ half # 0

CacheFits ==
    /\ cache.summary # Null => cache.half = 1 /\ ~ StaleCache
    /\ ~ StaleCache => Kept(cache, half, stage, kills)

PageFits ==
    /\ ~ linked => match = 0 \/ ~ StalePage
    /\ Shown(page)
    /\ stage = "play" /\ page.handled = half => Allowed(page, half)
    /\ ~ StalePage =>
          /\ ~ StaleCache /\ page.handled = page.half /\ page.half <= cache.half
          /\ Held(page, kills) /\ Final(page, stage, kills)

CountInv == TypeInv /\ Course /\ Counts /\ Underway /\ CacheFits /\ PageFits

-----------------------------------------------------------------------------
(* Rows that are at most what was done.                                    *)

LEMMA AtMostRows ==
    ASSUME NEW k \in [Player -> Nat], NEW a \in Rows, NEW b \in Rows,
           AtMost(a, k), AtMost(b, k)
    PROVE  /\ AtMost(Beside(a, b), k) /\ AtMost(Known(a, b), k)
           /\ \A p : AtMost(Without(a, p), k)
           /\ \A p \in Player : Of(a, p) <= k[p]
<1>1. /\ DOMAIN Beside(a, b) = DOMAIN a \cup DOMAIN b
      /\ \A p \in DOMAIN Beside(a, b) :
            Beside(a, b)[p] = IF p \in DOMAIN a THEN a[p] ELSE b[p]
  BY DEF Beside
<1>2. /\ DOMAIN Known(a, b) = DOMAIN b
      /\ \A p \in DOMAIN b : Known(a, b)[p] = IF p \in DOMAIN a THEN a[p] ELSE b[p]
  BY DEF Known
<1>3. \A p : /\ DOMAIN Without(a, p) = DOMAIN a \ {p}
             /\ \A q \in DOMAIN a \ {p} : Without(a, p)[q] = a[q]
  BY DEF Without
<1>4. \A p \in Player : 0 <= k[p]
  OBVIOUS
<1> QED
  BY <1>1, <1>2, <1>3, <1>4 DEF AtMost, Of

LEMMA AtMostNothing ==
    ASSUME NEW k \in [Player -> Nat]
    PROVE  /\ AtMost(NoRows, k) /\ AtMost(NoKills, k)
           /\ \A r \in Rows : (\A p \in DOMAIN r : r[p] = 0) => AtMost(r, k)
           /\ \A S \in SUBSET Player : AtMost(Zeros(S), k)
<1>1. \A p \in Player : 0 <= k[p]
  OBVIOUS
<1> QED
  BY <1>1, RowsShape DEF AtMost, NoRows, NoKills, Zeros

LEMMA AtMostMore ==
    ASSUME NEW r \in Rows, NEW k \in [Player -> Nat], NEW l \in [Player -> Nat],
           AtMost(r, k), \A p \in Player : k[p] <= l[p]
    PROVE  AtMost(r, l)
<1> SUFFICES ASSUME NEW p \in DOMAIN r PROVE r[p] <= l[p]
  BY DEF AtMost
<1>1. p \in Player /\ r[p] \in Nat
  BY RowsShape
<1> QED
  BY <1>1 DEF AtMost

-----------------------------------------------------------------------------
(* What the handlers of the page do, field by field.                       *)

\* The fields of a page other than its store and its half.
Same(q, pg) ==
    /\ q.rows = pg.rows /\ q.src = pg.src /\ q.last = pg.last
    /\ q.board = pg.board /\ q.shown = pg.shown

Afresh(q) ==
    /\ q.rows = NoHalves /\ q.last = NoHalves /\ q.board = Null /\ q.shown = FALSE
    /\ q.src = [x \in Half |-> "none"]

\* Rows are archived for the half the page is on, unless a summary was.
Files(q, pg, r) ==
    /\ pg.src[pg.half] = "summary" => q.rows = pg.rows /\ q.src = pg.src
    /\ pg.src[pg.half] # "summary" =>
          /\ q.rows = [pg.rows EXCEPT ![pg.half] = r]
          /\ q.src = [pg.src EXCEPT ![pg.half] = "snapshot"]

Later(q, pg) ==
    /\ q.last = pg.last /\ q.shown = FALSE
    /\ Files(q, pg, Carried(pg))
    /\ \/ q.board = Null
       \/ q.board # Null /\ q.board.reason = "half_end" /\ q.board.fallback
       \/ ~ pg.shown /\ q.board = pg.board

LEMMA RecordIs ==
    ASSUME NEW pg \in FineP, NEW r \in Rows
    PROVE  /\ Files(Record(pg, r, "snapshot"), pg, r)
           /\ Record(pg, r, "summary").rows = [pg.rows EXCEPT ![pg.half] = r]
           /\ Record(pg, r, "summary").src = [pg.src EXCEPT ![pg.half] = "summary"]
           /\ \A src \in {"snapshot", "summary"} :
                 LET q == Record(pg, r, src)
                 IN  /\ q.half = pg.half /\ q.store = pg.store /\ q.board = pg.board
                     /\ q.last = pg.last /\ q.handled = pg.handled /\ q.shown = pg.shown
BY DEF FineP, Page, Record, Files

LEMMA LaterHalfIs ==
    ASSUME NEW pg \in FineP, NEW h \in Half
    PROVE  LET q == [LaterHalf(pg) EXCEPT !.handled = h, !.shown = FALSE]
           IN  /\ Later(q, pg) /\ q.half = pg.half /\ q.store = pg.store /\ q.handled = h
<1> DEFINE rows == Carried(pg)
           kept == Record(pg, rows, "snapshot")
           q == [LaterHalf(pg) EXCEPT !.handled = h, !.shown = FALSE]
<1>1. rows \in Rows
  BY CarriedType
<1>2. /\ kept \in FineP /\ Files(kept, pg, rows)
      /\ kept.half = pg.half /\ kept.store = pg.store /\ kept.board = pg.board
      /\ kept.last = pg.last /\ kept.shown = pg.shown
  BY <1>1, RecordIs, RecordType
<1> HIDE DEF rows, kept
<1>3. LaterHalf(pg) \in FineP
  BY LaterHalfType
<1>4. /\ LaterHalf(pg).rows = kept.rows /\ LaterHalf(pg).src = kept.src
      /\ LaterHalf(pg).half = kept.half /\ LaterHalf(pg).store = kept.store
      /\ LaterHalf(pg).last = kept.last
      /\ \/ LaterHalf(pg).board = Null
         \/ LaterHalf(pg).board = Board("half_end", TRUE, rows)
         \/ ~ pg.shown /\ LaterHalf(pg).board = kept.board
  BY <1>2 DEF LaterHalf, rows, kept, FineP, Page
<1>5. /\ q.rows = LaterHalf(pg).rows /\ q.src = LaterHalf(pg).src
      /\ q.half = LaterHalf(pg).half /\ q.store = LaterHalf(pg).store
      /\ q.last = LaterHalf(pg).last /\ q.board = LaterHalf(pg).board
      /\ q.handled = h /\ q.shown = FALSE
  BY <1>3 DEF FineP, Page
<1> HIDE DEF q
<1>6. Files(q, pg, rows)
  BY <1>2, <1>4, <1>5 DEF Files
<1>7. \/ q.board = Null
      \/ q.board # Null /\ q.board.reason = "half_end" /\ q.board.fallback
      \/ ~ pg.shown /\ q.board = pg.board
  BY <1>2, <1>4, <1>5 DEF Board
<1> QED
  BY <1>2, <1>4, <1>5, <1>6, <1>7 DEF Later, q, rows

\* Both events that tell of a half do the same, but for the players of the store.
LEMMA StartIs ==
    ASSUME NEW pg \in FineP, NEW h \in Half, NEW q,
           q = on_match_start(pg, h) \/ q = on_half_start(pg, h)
    PROVE  /\ q \in FineP /\ q.half = h /\ q.handled = h
           /\ \A p \in DOMAIN q.store : q.store[p] = 0
           /\ pg.handled = h => Same(q, pg)
           /\ pg.handled # h /\ h = 1 => Afresh(q)
           /\ pg.handled # h /\ h # 1 => Later(q, pg)
<1> DEFINE b == handleHalfBoundary(pg, h)
<1>1. b \in FineP /\ q \in FineP
  BY BoundaryType, StartType
<1>2. /\ b.handled = h
      /\ pg.handled = h => Same(b, pg)
      /\ pg.handled # h /\ h = 1 => Afresh(b)
      /\ pg.handled # h /\ h # 1 => Later(b, pg)
  <2>1. CASE pg.handled = h
    BY <2>1 DEF handleHalfBoundary, Same
  <2>2. CASE pg.handled # h /\ h = 1
    BY <2>2, FreshMatchType DEF handleHalfBoundary, Afresh, FreshMatch, FineP, Page
  <2>3. CASE pg.handled # h /\ h # 1
    BY <2>3, LaterHalfIs DEF handleHalfBoundary
  <2> QED
    BY <2>1, <2>2, <2>3
<1> HIDE DEF b
<1>3. /\ q.half = h /\ q.handled = b.handled /\ Same(q, b)
      /\ \A p \in DOMAIN q.store : q.store[p] = 0
  <2>1. CASE q = on_match_start(pg, h)
    <3>1. q = [b EXCEPT !.store = NoRows, !.half = h]
      BY <2>1 DEF on_match_start, b
    <3> QED
      BY <3>1, <1>1 DEF FineP, Page, Same, NoRows
  <2>2. CASE q = on_half_start(pg, h)
    <3>1. q = [b EXCEPT !.store = Zeros(DOMAIN @), !.half = h]
      BY <2>2 DEF on_half_start, b
    <3>2. q.store = Zeros(DOMAIN b.store)
      BY <3>1, <1>1 DEF FineP, Page
    <3> QED
      BY <3>1, <3>2, <1>1 DEF FineP, Page, Same, Zeros
  <2> QED
    BY <2>1, <2>2
<1>4. pg.handled # h /\ h = 1 => Afresh(q)
  BY <1>2, <1>3 DEF Afresh, Same
<1>5. pg.handled # h /\ h # 1 => Later(q, pg)
  BY <1>2, <1>3 DEF Later, Same, Files
<1> QED
  BY <1>1, <1>2, <1>3, <1>4, <1>5 DEF Same

\* The marker archives, and puts up, what the page shows or the last capout.
LEMMA HalfEndIs ==
    ASSUME NEW pg \in FineP, NEW recent \in BOOLEAN, NEW q, q = on_half_end(pg, recent)
    PROVE  /\ q \in FineP
           /\ q.half = pg.half /\ q.store = pg.store /\ q.last = pg.last /\ q.handled = pg.handled
           /\ \/ q = pg
              \/ /\ \E r \in {pg.store, pg.last[pg.half]} : Files(q, pg, r)
                 /\ \/ q.board = pg.board /\ q.shown = pg.shown
                    \/ q.board.reason = "half_end" /\ q.shown
<1> DEFINE rows == IF pg.store # NoRows THEN pg.store ELSE pg.last[pg.half]
           kept == Record(pg, rows, "snapshot")
<1>1. rows \in Rows /\ rows \in {pg.store, pg.last[pg.half]}
  BY DEF FineP, Page, Halves
<1>2. /\ kept \in FineP /\ Files(kept, pg, rows)
      /\ kept.half = pg.half /\ kept.store = pg.store /\ kept.board = pg.board
      /\ kept.last = pg.last /\ kept.shown = pg.shown /\ kept.handled = pg.handled
  BY <1>1, RecordIs, RecordType
<1> HIDE DEF rows, kept
<1>3. q \in FineP
  BY HalfEndType
<1>4. \/ q = pg
      \/ q = kept
      \/ q = [kept EXCEPT !.shown = TRUE, !.board = Board("half_end", FALSE, rows)]
  BY DEF on_half_end, rows, kept
<1>5. CASE q = pg
  BY <1>3, <1>5
<1>6. CASE q = kept
  BY <1>1, <1>2, <1>3, <1>6
<1>7. CASE q = [kept EXCEPT !.shown = TRUE, !.board = Board("half_end", FALSE, rows)]
  <2>1. /\ q.half = kept.half /\ q.store = kept.store /\ q.last = kept.last
        /\ q.handled = kept.handled /\ q.rows = kept.rows /\ q.src = kept.src
        /\ q.shown = TRUE /\ q.board = Board("half_end", FALSE, rows)
    BY <1>2, <1>7 DEF FineP, Page
  <2>2. Files(q, pg, rows)
    BY <2>1, <1>2 DEF Files
  <2>3. q.board.reason = "half_end"
    BY <2>1 DEF Board
  <2> QED
    BY <1>1, <1>2, <1>3, <2>1, <2>2, <2>3
<1> QED
  BY <1>4, <1>5, <1>6, <1>7

\* A board that a summary puts up.
Told(reason, r) == Board(reason, FALSE, r)

LEMMA ToldIs ==
    \A reason, r : Told(reason, r).reason = reason /\ Told(reason, r).rows = r
BY DEF Told, Board

\* What a summary does to a page.
Summarised(q, pg, reason, r) ==
    /\ q.half = pg.half /\ q.store = Known(r, pg.store) /\ q.handled = pg.handled
    /\ reason = "half_end" =>
          /\ q.rows = [pg.rows EXCEPT ![pg.half] = r]
          /\ q.src = [pg.src EXCEPT ![pg.half] = "summary"]
          /\ q.last = pg.last /\ q.shown = TRUE
          /\ q.board = Told("half_end", r)
    /\ reason = "match_end" =>
          /\ q.rows = pg.rows /\ q.src = pg.src /\ q.last = pg.last /\ q.shown = TRUE
          /\ q.board = Told("match_end", Sum(carrySoFar(pg), Beside(r, pg.last[pg.half])))
    /\ reason = "round_end" =>
          /\ q.rows = pg.rows /\ q.src = pg.src /\ q.shown = pg.shown
          /\ q.last = [pg.last EXCEPT ![pg.half] = r]
          /\ q.board = Told("round_end", r)

LEMMA SummaryIs ==
    ASSUME NEW pg \in FineP, NEW reason \in Reason, NEW r \in Rows
    PROVE  /\ on_summary(pg, reason, r) \in FineP
           /\ Summarised(on_summary(pg, reason, r), pg, reason, r)
<1> DEFINE q == on_summary(pg, reason, r)
<1> DEFINE merged == [pg EXCEPT !.store = Known(r, @)]
           total == Told("match_end", Sum(carrySoFar(pg), Beside(r, pg.last[pg.half])))
           halftime == Told("half_end", r)
           round == Told("round_end", r)
<1>1. merged \in FineP /\ q \in FineP
  BY StoreType, KnownType, SummaryType DEF FineP, Page
<1>2. /\ merged.half = pg.half /\ merged.last = pg.last /\ merged.store = Known(r, pg.store)
      /\ merged.rows = pg.rows /\ merged.src = pg.src /\ merged.handled = pg.handled
      /\ merged.shown = pg.shown
  BY DEF FineP, Page
<1> HIDE DEF merged, total, halftime, round, q
<1>3. ASSUME reason = "half_end" PROVE Summarised(q, pg, reason, r)
  <2>1. q = [Record(merged, r, "summary") EXCEPT !.shown = TRUE, !.board = halftime]
    BY <1>3 DEF on_summary, Told, merged, halftime, q
  <2>2. Record(merged, r, "summary") \in FineP
    BY <1>1, RecordType
  <2>3. /\ Record(merged, r, "summary").rows = [merged.rows EXCEPT ![merged.half] = r]
        /\ Record(merged, r, "summary").src = [merged.src EXCEPT ![merged.half] = "summary"]
        /\ Record(merged, r, "summary").half = merged.half
        /\ Record(merged, r, "summary").store = merged.store
        /\ Record(merged, r, "summary").last = merged.last
        /\ Record(merged, r, "summary").handled = merged.handled
    BY <1>1, RecordIs
  <2> QED
    BY <1>1, <1>2, <1>3, <2>1, <2>2, <2>3 DEF FineP, Page, halftime, Summarised
<1>4. ASSUME reason = "match_end" PROVE Summarised(q, pg, reason, r)
  <2>1. q = [merged EXCEPT !.shown = TRUE, !.board = total]
    BY <1>4 DEF on_summary, Told, merged, total, q
  <2> QED
    BY <1>1, <1>2, <1>4, <2>1 DEF FineP, Page, total, Summarised
<1>5. ASSUME reason = "round_end" PROVE Summarised(q, pg, reason, r)
  <2>1. q = [merged EXCEPT !.last[pg.half] = r, !.board = round]
    BY <1>5 DEF on_summary, Told, merged, round, q
  <2> QED
    BY <1>1, <1>2, <1>5, <2>1 DEF FineP, Page, round, Summarised
<1>6. Summarised(q, pg, reason, r)
  BY <1>3, <1>4, <1>5 DEF Reason
<1> QED
  BY <1>1, <1>6 DEF q


-----------------------------------------------------------------------------
(* What the handlers keep of the counts.                                   *)

LEMMA SameCounts ==
    ASSUME NEW k \in [Half -> [Player -> Nat]], NEW pg, NEW q, NEW st,
           Same(q, pg), q.half = pg.half
    PROVE  /\ Held(pg, k) /\ AtMost(q.store, k[q.half]) => Held(q, k)
           /\ Shown(pg) => Shown(q)
           /\ \A h : Allowed(pg, h) => Allowed(q, h)
           /\ Final(pg, st, k) => Final(q, st, k)
BY DEF Same, Held, Shown, Allowed, Final

LEMMA CarriedHeld ==
    ASSUME NEW k \in [Half -> [Player -> Nat]], NEW pg \in FineP, Held(pg, k)
    PROVE  AtMost(Carried(pg), k[pg.half])
BY DEF Held, Carried, FineP, Page

\* A half is archived when the page leaves it, or when the first is over.
LEMMA FilesHeld ==
    ASSUME NEW k \in [Half -> [Player -> Nat]], NEW pg \in FineP, NEW q \in FineP,
           Held(pg, k), NEW r, Files(q, pg, r), AtMost(r, k[pg.half]),
           q.last = pg.last, AtMost(q.store, k[q.half]),
           pg.half < q.half \/ (pg.half = q.half /\ q.half = 1)
    PROVE  Held(q, k)
<1>1. pg.half \in Half /\ q.half \in Half /\ Half \subseteq Nat
  BY HalfFacts DEF FineP, Page
<1>2. pg.rows \in Halves
  BY DEF FineP, Page
<1>3. \A h \in Half : q.rows[h] = pg.rows[h] \/ (h = pg.half /\ q.rows[h] = r)
  BY <1>1, <1>2 DEF Files, Halves
<1>4. ASSUME NEW h \in Half
      PROVE  /\ AtMost(q.rows[h], k[h]) /\ AtMost(q.last[h], k[h])
             /\ h # 1 /\ q.half <= h => q.rows[h] = NoRows
  <2>1. AtMost(q.rows[h], k[h]) /\ AtMost(q.last[h], k[h])
    BY <1>3 DEF Held
  <2>2. ASSUME h # 1, q.half <= h PROVE q.rows[h] = NoRows
    <3>1. h \in Nat /\ pg.half \in Nat /\ q.half \in Nat
      BY <1>1
    <3>2. h # pg.half /\ pg.half <= h
      BY <2>2, <3>1
    <3> QED
      BY <1>3, <2>2, <3>2 DEF Held
  <2> QED
    BY <2>1, <2>2
<1> QED
  BY <1>4 DEF Held

\* A page can be told of half x: it has not been, or it is on an earlier half.
Ready(pg, x, st, k) ==
    /\ pg.handled = x => Held(pg, k) /\ pg.half = x
    /\ pg.handled # x /\ x # 1 => Held(pg, k) /\ pg.half < x
    /\ (pg.handled # x /\ x = 1) \/ Final(pg, st, k)

\* What a page is when it has been told of half x.
Begins(q, pg, x, st, k) ==
    /\ q \in FineP /\ q.half = x /\ q.handled = x
    /\ Shown(q) /\ Held(q, k) /\ Final(q, st, k)
    /\ (pg.handled = x => Allowed(pg, x)) => Allowed(q, x)

LEMMA StartCounts ==
    ASSUME NEW k \in [Half -> [Player -> Nat]], NEW st, NEW pg \in FineP, NEW x \in Half,
           Shown(pg), Ready(pg, x, st, k)
    PROVE  /\ Begins(on_match_start(pg, x), pg, x, st, k)
           /\ Begins(on_half_start(pg, x), pg, x, st, k)
<1> SUFFICES ASSUME NEW q, q = on_match_start(pg, x) \/ q = on_half_start(pg, x)
             PROVE  Begins(q, pg, x, st, k)
  OBVIOUS
<1> USE DEF Begins
<1>1. /\ q \in FineP /\ q.half = x /\ q.handled = x
      /\ \A p \in DOMAIN q.store : q.store[p] = 0
      /\ pg.handled = x => Same(q, pg)
      /\ pg.handled # x /\ x = 1 => Afresh(q)
      /\ pg.handled # x /\ x # 1 => Later(q, pg)
  BY StartIs
<1>2. AtMost(q.store, k[x])
  <2>1. q.store \in Rows
    BY <1>1 DEF FineP, Page
  <2> QED
    BY <1>1, <2>1, AtMostNothing
<1>3. CASE pg.handled = x
  BY <1>1, <1>2, <1>3, SameCounts DEF Ready
<1>4. CASE pg.handled # x /\ x = 1
  <2>1. Afresh(q)
    BY <1>1, <1>4
  <2>2. \A h \in Half : q.rows[h] = NoRows /\ q.last[h] = NoRows /\ AtMost(NoRows, k[h])
    BY <2>1, AtMostNothing DEF Afresh, NoHalves
  <2>3. Held(q, k)
    BY <1>1, <1>2, <2>2 DEF Held
  <2>4. q.board = Null
    BY <2>1 DEF Afresh
  <2> QED
    BY <1>1, <2>3, <2>4 DEF Shown, Final, Allowed
<1>5. CASE pg.handled # x /\ x # 1
  <2>1. Later(q, pg) /\ Held(pg, k) /\ pg.half < x
    BY <1>1, <1>5 DEF Ready
  <2>2. Held(q, k)
    BY <1>1, <1>2, <2>1, CarriedHeld, FilesHeld DEF Later
  <2>3. Final(q, st, k)
    BY <1>5, <2>1 DEF Later, Final, Ready
  <2>4. q.board = Null \/ q.board.fallback \/ q.board.reason = "round_end"
    BY <2>1 DEF Later, Shown
  <2> QED
    BY <1>1, <1>5, <2>2, <2>3, <2>4 DEF Shown, Allowed
<1> QED
  BY <1>3, <1>4, <1>5

\* What a page is after a message that tells of no half.
Stays(q, pg, st, k) ==
    /\ q \in FineP /\ q.half = pg.half /\ q.handled = pg.handled
    /\ Shown(q) /\ Held(q, k) /\ Final(q, st, k)

Unfinished == {"half_end", "round_end"}

\* The end of a first half, and the board of a half that is played.
LEMMA SummaryCounts ==
    ASSUME NEW k \in [Half -> [Player -> Nat]], NEW st, NEW pg \in FineP,
           NEW reason \in Unfinished, NEW r \in Rows,
           AtMost(r, k[pg.half]), Held(pg, k), reason = "half_end" => pg.half = 1
    PROVE  /\ Stays(on_summary(pg, reason, r), pg, st, k)
           /\ reason = "round_end" => \A h : Allowed(on_summary(pg, reason, r), h)
<1> DEFINE q == on_summary(pg, reason, r)
<1> HIDE DEF q
<1> USE DEF Stays
<1>1. reason \in Reason
  BY DEF Reason, Unfinished
<1>2. q \in FineP /\ Summarised(q, pg, reason, r)
  BY <1>1, SummaryIs DEF q
<1>3. /\ q \in FineP /\ q.half = pg.half /\ q.handled = pg.handled
      /\ q.store = Known(r, pg.store)
  BY <1>2 DEF Summarised
<1>4. AtMost(q.store, k[q.half])
  <2>1. pg.store \in Rows /\ k[pg.half] \in [Player -> Nat] /\ AtMost(pg.store, k[pg.half])
    BY DEF FineP, Page, Held
  <2> QED
    BY <1>3, <2>1, AtMostRows
<1>5. pg.rows \in Halves /\ pg.last \in Halves /\ pg.half \in Half
  BY DEF FineP, Page
<1>6. ASSUME reason = "half_end" PROVE Stays(q, pg, st, k)
  <2>1. /\ q.rows = [pg.rows EXCEPT ![pg.half] = r] /\ q.last = pg.last /\ q.shown = TRUE
        /\ q.board = Told("half_end", r)
    BY <1>2, <1>6 DEF Summarised
  <2>2. Held(q, k)
    BY <1>3, <1>4, <1>5, <1>6, <2>1 DEF Held, Halves
  <2>3. q.board.reason = "half_end"
    BY <2>1, ToldIs
  <2> QED
    BY <1>3, <1>6, <2>1, <2>2, <2>3 DEF Shown, Final
<1>7. ASSUME reason = "round_end" PROVE Stays(q, pg, st, k) /\ \A h : Allowed(q, h)
  <2>1. /\ q.rows = pg.rows /\ q.last = [pg.last EXCEPT ![pg.half] = r]
        /\ q.board = Told("round_end", r)
    BY <1>2, <1>7 DEF Summarised
  <2>2. Held(q, k)
    BY <1>3, <1>4, <1>5, <2>1 DEF Held, Halves
  <2>3. q.board.reason = "round_end"
    BY <2>1, ToldIs
  <2> QED
    BY <1>3, <2>2, <2>3 DEF Shown, Final, Allowed
<1> HIDE DEF Stays
<1> QED
  BY <1>6, <1>7 DEF q, Unfinished

\* The final board adds what is archived of the halves before and the last half.
LEMMA FinalCounts ==
    ASSUME NEW k \in [Half -> [Player -> Nat]], NEW pg \in FineP, NEW r \in Rows,
           AtMost(r, k[pg.half]), Held(pg, k), pg.half # 1
    PROVE  Stays(on_summary(pg, "match_end", r), pg, "idle", k)
<1> DEFINE q == on_summary(pg, "match_end", r)
<1> HIDE DEF q
<1>1. "match_end" \in Reason
  BY DEF Reason
<1> DEFINE rest == Beside(r, pg.last[pg.half])
<1>2. q \in FineP /\ Summarised(q, pg, "match_end", r)
  BY <1>1, SummaryIs DEF q
<1>3. /\ q \in FineP /\ q.half = pg.half /\ q.handled = pg.handled
      /\ q.store = Known(r, pg.store) /\ q.rows = pg.rows /\ q.last = pg.last /\ q.shown = TRUE
      /\ q.board = Told("match_end", Sum(carrySoFar(pg), rest))
  BY <1>2 DEF Summarised
<1>4. /\ pg.half \in Half /\ pg.store \in Rows
      /\ \A h \in Half : pg.rows[h] \in Rows /\ pg.last[h] \in Rows /\ k[h] \in [Player -> Nat]
  BY DEF FineP, Page, Halves
<1> DEFINE last == pg.last[pg.half]
<1>5. /\ AtMost(pg.store, k[pg.half]) /\ AtMost(last, k[pg.half])
       /\ last \in Rows /\ k[pg.half] \in [Player -> Nat]
  BY <1>4 DEF Held
<1> HIDE DEF last
<1>6. AtMost(Known(r, pg.store), k[pg.half])
  BY <1>4, <1>5, AtMostRows
<1>7. AtMost(Beside(r, last), k[pg.half]) /\ Beside(r, last) \in Rows
  BY <1>5, AtMostRows, BesideType
<1>8. AtMost(q.store, k[q.half]) /\ AtMost(rest, k[pg.half]) /\ rest \in Rows
  BY <1>3, <1>6, <1>7 DEF last
<1>9. Held(q, k)
  BY <1>3, <1>8 DEF Held
<1>10. q.board.rows = Sum(carrySoFar(pg), rest)
  BY <1>3, ToldIs
<1> HIDE DEF rest
<1>11. ASSUME NEW p \in DOMAIN q.board.rows
      PROVE  q.board.rows[p] <= k[1][p] + k[2][p] + k[101][p]
  <2>1. q.board.rows[p] = Of(carrySoFar(pg), p) + Of(rest, p)
    BY <1>10, <1>11 DEF Sum
  <2>2. p \in Player
    <3>1. carrySoFar(pg) \in Rows
      BY CarriedType
    <3>2. Sum(carrySoFar(pg), rest) \in Rows
      BY <1>8, <3>1, SumType
    <3> QED
      BY <1>10, <3>2, RowsShape
  <2>3. Of(carrySoFar(pg), p) = Of(pg.rows[1], p) + Of(pg.rows[2], p) + Of(pg.rows[101], p)
    BY <1>4, OfType DEF carrySoFar, Sum, Of, Half
  <2>4. /\ \A h \in Half : /\ Of(pg.rows[h], p) <= k[h][p]
                           /\ Of(pg.rows[h], p) \in Nat /\ k[h][p] \in Nat
        /\ Of(rest, p) <= k[pg.half][p] /\ Of(rest, p) \in Nat
    BY <1>4, <1>8, <2>2, AtMostRows, OfType DEF Held
  <2>5. pg.half \in {2, 101}
    BY <1>4 DEF Half
  <2>6. \A h \in Half : pg.half <= h /\ h # 1 => Of(pg.rows[h], p) = 0
    BY DEF Held, Of, NoRows
  <2>7. 1 \in Half /\ 2 \in Half /\ 101 \in Half
    BY DEF Half
  <2>8. CASE pg.half = 2
    <3>1. Of(pg.rows[2], p) = 0 /\ Of(pg.rows[101], p) = 0
      BY <2>6, <2>7, <2>8
    <3> QED
      BY <2>1, <2>3, <2>4, <2>7, <2>8, <3>1
  <2>9. CASE pg.half = 101
    <3>1. Of(pg.rows[101], p) = 0
      BY <2>6, <2>7, <2>9
    <3> QED
      BY <2>1, <2>3, <2>4, <2>7, <2>9, <3>1
  <2> QED
    BY <2>5, <2>8, <2>9
<1>12. Stays(q, pg, "idle", k)
  BY <1>3, <1>9, <1>11 DEF Shown, Final, Stays
<1> QED
  BY <1>12 DEF q

\* The marker of the end of a first half.
LEMMA HalfEndCounts ==
    ASSUME NEW k \in [Half -> [Player -> Nat]], NEW st, NEW pg \in FineP, NEW recent \in BOOLEAN,
           Held(pg, k), Shown(pg), Final(pg, st, k), pg.half = 1
    PROVE  Stays(on_half_end(pg, recent), pg, st, k)
<1> SUFFICES ASSUME NEW q, q = on_half_end(pg, recent) PROVE Stays(q, pg, st, k)
  OBVIOUS
<1> USE DEF Stays
<1>1. /\ q \in FineP
      /\ q.half = pg.half /\ q.store = pg.store /\ q.last = pg.last /\ q.handled = pg.handled
      /\ \/ q = pg
         \/ /\ \E r \in {pg.store, pg.last[pg.half]} : Files(q, pg, r)
            /\ \/ q.board = pg.board /\ q.shown = pg.shown
               \/ q.board.reason = "half_end" /\ q.shown
  BY HalfEndIs
<1>2. CASE q = pg
  BY <1>1, <1>2
<1>3. CASE /\ \E r \in {pg.store, pg.last[pg.half]} : Files(q, pg, r)
           /\ \/ q.board = pg.board /\ q.shown = pg.shown
              \/ q.board.reason = "half_end" /\ q.shown
  <2>1. PICK r \in {pg.store, pg.last[pg.half]} : Files(q, pg, r)
    BY <1>3
  <2>2. AtMost(r, k[pg.half]) /\ AtMost(q.store, k[q.half])
    BY <1>1, <2>1 DEF Held, FineP, Page
  <2>3. Held(q, k)
    BY <1>1, <2>1, <2>2, FilesHeld
  <2>4. Shown(q) /\ Final(q, st, k)
    BY <1>3 DEF Shown, Final
  <2> QED
    BY <1>1, <2>3, <2>4
<1> QED
  BY <1>1, <1>2, <1>3

-----------------------------------------------------------------------------
(* The counts hold at first.                                               *)

\* No message leaves a board that would stay.
LEMMA ShownKept ==
    ASSUME NEW pg \in FineP, Shown(pg), NEW m \in Message, NEW recent \in BOOLEAN
    PROVE  Shown(Reduce(pg, m, recent))
<1>1. CASE m.kind \in Starts
  <2>1. m \in Start
    BY <1>1 DEF Message, Start, Summary, Starts
  <2>2. m.half \in Half
    BY <2>1 DEF Start
  <2> DEFINE q == Reduce(pg, m, recent)
  <2>3. q = on_match_start(pg, m.half) \/ q = on_half_start(pg, m.half)
    BY <1>1 DEF Reduce, Starts
  <2> HIDE DEF q
  <2>4. Same(q, pg) \/ Afresh(q) \/ Later(q, pg)
    BY <2>2, <2>3, StartIs
  <2>5. Shown(q)
    BY <2>4 DEF Same, Afresh, Later, Shown
  <2> QED
    BY <2>5 DEF q
<1>2. CASE m.kind = "summary"
  <2>1. m.reason \in Reason /\ m.rows \in Rows
    BY <1>2 DEF Message, Start, Summary
  <2> DEFINE q == on_summary(pg, m.reason, m.rows)
  <2>2. Summarised(q, pg, m.reason, m.rows)
    BY <2>1, SummaryIs
  <2>3. Reduce(pg, m, recent) = q
    BY <1>2 DEF Reduce
  <2> HIDE DEF q
  <2>4. q.shown = TRUE \/ q.board = Told("round_end", m.rows)
    BY <2>1, <2>2 DEF Summarised, Reason
  <2>5. Shown(q)
    BY <2>4, ToldIs DEF Shown
  <2> QED
    BY <2>3, <2>5
<1>3. CASE m.kind = "half_end"
  <2> DEFINE q == on_half_end(pg, recent)
  <2>1. q = pg \/ (q.board = pg.board /\ q.shown = pg.shown) \/ q.shown
    BY HalfEndIs
  <2>2. Reduce(pg, m, recent) = q
    BY <1>3 DEF Reduce
  <2> HIDE DEF q
  <2>3. Shown(q)
    BY <2>1 DEF Shown
  <2> QED
    BY <2>2, <2>3
<1>4. CASE m.kind \in {"roster", "score", "left", "match_end"}
  <2>1. \/ Reduce(pg, m, recent) = pg
        \/ \E r : Reduce(pg, m, recent) = [pg EXCEPT !.store = r]
    BY <1>4 DEF Reduce
  <2> QED
    BY <2>1 DEF Shown, FineP, Page
<1> QED
  BY <1>1, <1>2, <1>3, <1>4 DEF Message, Start, Summary, Starts

\* A message of a second half that is played to the end.
Second(m) ==
    /\ m.kind \in Starts => m.half = 2
    /\ m.kind = "summary" => m.reason # "half_end"

LEMMA SecondKeeps ==
    ASSUME NEW m \in Message, Second(m)
    PROVE  /\ \A pg \in FineP :
                 pg.handled = 2 \/ m.kind \in Starts => Take(pg, m).handled = 2
           /\ \A c \in Cache :
                 (c.half = 2 /\ c.summary = Null) \/ m.kind \in Starts
                   => /\ updateServerState(c, m).half = 2
                      /\ updateServerState(c, m).summary = Null
<1>1. ASSUME NEW pg \in FineP, pg.handled = 2 \/ m.kind \in Starts
      PROVE  Take(pg, m).handled = 2
  <2>1. CASE m.kind \in Starts
    <3> DEFINE q == Take(pg, m)
    <3>1. q = on_match_start(pg, 2) \/ q = on_half_start(pg, 2)
      BY <2>1 DEF Take, Reduce, Starts, Second
    <3> HIDE DEF q
    <3>2. q.handled = 2
      BY <3>1, StartIs DEF Half
    <3> QED
      BY <3>2 DEF q
  <2>2. CASE m.kind = "summary"
    <3> DEFINE q == on_summary(pg, m.reason, m.rows)
    <3>1. Summarised(q, pg, m.reason, m.rows)
      BY <2>2, SummaryIs DEF Message, Start, Summary
    <3>2. Take(pg, m) = q
      BY <2>2 DEF Take, Reduce
    <3> HIDE DEF q
    <3> QED
      BY <1>1, <2>2, <3>1, <3>2 DEF Summarised, Starts
  <2>3. CASE m.kind = "half_end"
    <3> DEFINE q == Take(pg, m)
    <3>1. \E recent \in BOOLEAN : q = on_half_end(pg, recent)
      BY <2>3 DEF Take, Reduce
    <3> HIDE DEF q
    <3>2. q.handled = pg.handled
      BY <3>1, HalfEndIs
    <3> QED
      BY <1>1, <2>3, <3>2 DEF q, Starts
  <2>4. CASE m.kind \in {"roster", "score", "left", "match_end"}
    <3>1. Take(pg, m) = pg \/ \E r : Take(pg, m) = [pg EXCEPT !.store = r]
      BY <2>4 DEF Take, Reduce
    <3> QED
      BY <1>1, <2>4, <3>1 DEF FineP, Page, Starts
  <2> QED
    BY <2>1, <2>2, <2>3, <2>4 DEF Message, Start, Summary, Starts
<1>2. ASSUME NEW c \in Cache, (c.half = 2 /\ c.summary = Null) \/ m.kind \in Starts
      PROVE  /\ updateServerState(c, m).half = 2
             /\ updateServerState(c, m).summary = Null
  <2>1. CASE m.kind \in Starts
    BY <2>1 DEF Second, Starts, updateServerState, Cleared, HalfStarted, Cache
  <2>2. CASE m.kind \notin Starts
    BY <1>2, <2>2 DEF Second, Starts, Message, Start, Summary, updateServerState, Cleared, Cache
  <2> QED
    BY <2>1, <2>2
<1> QED
  BY <1>1, <1>2

\* How the earlier match ends, without forfeits.
LEMMA EarlierIs ==
    ASSUME NEW e \in Earlier, ~ Forfeits
    PROVE  \/ e = <<>>
           \/ Len(e) = 12 /\ e[7].kind \in Starts /\ \A i \in 7 .. 12 : Second(e[i])
<1> DEFINE ones == [p \in Player |-> 1]
           first == <<match_start(1), half_start(1), roster(Player), summary("round_end", ones)>>
           second == <<half_end, summary("half_end", ones), match_start(2), half_start(2),
                       roster(Player), summary("round_end", ones)>>
           final == <<summary("match_end", ones), match_end>>
<1>1. e = <<>> \/ e = first \o second \o final
  BY DEF Earlier, ones, first, second, final
<1>2. /\ match_start(1) \in Message /\ half_start(1) \in Message
      /\ match_start(2) \in Message /\ half_start(2) \in Message
      /\ roster(Player) \in Message /\ half_end \in Message /\ match_end \in Message
      /\ \A reason \in Reason : summary(reason, ones) \in Message
  BY MessageTypes, RowsAre DEF Half
<1>3. /\ match_start(2).kind \in Starts /\ Second(match_start(2)) /\ Second(half_start(2))
      /\ Second(roster(Player)) /\ Second(summary("round_end", ones))
      /\ Second(summary("match_end", ones)) /\ Second(match_end)
  BY DEF Second, Starts, match_start, half_start, roster, summary, match_end
<1> HIDE DEF ones
<1>4. first \in Seq(Message) /\ second \in Seq(Message) /\ final \in Seq(Message)
  BY <1>2 DEF Reason
<1>5. /\ Len(first) = 4 /\ Len(second) = 6 /\ Len(final) = 2
      /\ second[3].kind \in Starts /\ Second(second[3]) /\ Second(second[4])
      /\ Second(second[5]) /\ Second(second[6]) /\ Second(final[1]) /\ Second(final[2])
  BY <1>3
<1> HIDE DEF first, second, final
<1> DEFINE both == first \o second
<1>6. /\ both \in Seq(Message) /\ Len(both) = 10
      /\ \A i \in 1 .. 10 : both[i] = IF i <= 4 THEN first[i] ELSE second[i - 4]
  <2>1. /\ both \in Seq(Message) /\ Len(both) = Len(first) + Len(second)
        /\ \A i \in 1 .. Len(first) + Len(second) :
              both[i] = IF i <= Len(first) THEN first[i] ELSE second[i - Len(first)]
    BY <1>4, ConcatProperties
  <2> QED
    BY <1>5, <2>1
<1> HIDE DEF both
<1>7. /\ Len(both \o final) = 12
      /\ \A i \in 1 .. 12 : (both \o final)[i] = IF i <= 10 THEN both[i] ELSE final[i - 10]
  <2>1. /\ Len(both \o final) = Len(both) + Len(final)
        /\ \A i \in 1 .. Len(both) + Len(final) :
              (both \o final)[i] = IF i <= Len(both) THEN both[i] ELSE final[i - Len(both)]
    BY <1>4, <1>6, ConcatProperties
  <2> QED
    BY <1>5, <1>6, <2>1
<1> DEFINE whole == both \o final
<1> HIDE DEF whole
<1>8. \A i \in 1 .. 12 : whole[i] = IF i <= 10 THEN both[i] ELSE final[i - 10]
  BY <1>7 DEF whole
<1>9. /\ whole[7] = second[3] /\ whole[8] = second[4] /\ whole[9] = second[5]
      /\ whole[10] = second[6] /\ whole[11] = final[1] /\ whole[12] = final[2]
  BY <1>6, <1>8
<1>10. ASSUME NEW i \in 7 .. 12 PROVE Second(whole[i])
  <2>1. i \in {7, 8, 9, 10, 11, 12}
    OBVIOUS
  <2> QED
    BY <1>5, <1>9, <2>1
<1>11. whole[7].kind \in Starts
  BY <1>5, <1>9
<1> QED
  BY <1>1, <1>7, <1>10, <1>11 DEF both, whole

LEMMA CountInit == ASSUME ~ Forfeits PROVE Init => CountInv
<1> SUFFICES ASSUME Init PROVE CountInv
  OBVIOUS
<1>1. PICK e \in Earlier : cache = Updated(NoCache, e) /\ page = Reduced(Fresh, e)
  BY DEF Init
<1>2. e \in Seq(Message)
  BY EarlierType
<1> DEFINE Up == {q \in FineP : Shown(q)}
<1>3. Reducible(Up, e) /\ Fresh \in Up
  <2>1. \A i \in 1 .. Len(e) : e[i] \in Message
    BY <1>2
  <2>2. Shown(Fresh)
    BY DEF Shown, Fresh
  <2> QED
    BY <2>1, <2>2, ReduceType, ShownKept, FreshType DEF Reducible, Take
<1>4. PICK d \in [0 .. Len(e) -> Up] : ReducesTo(d, Fresh, e)
  <2> HIDE DEF Up
  <2> QED
    BY <1>2, <1>3, ReducedSteps
<1>5. Updatable(Cache, e)
  <2>1. \A i \in 1 .. Len(e) : e[i] \in Message
    BY <1>2
  <2> QED
    BY <2>1, CacheStepType DEF Updatable
<1>6. PICK u \in [0 .. Len(e) -> Cache] : UpdatesTo(u, NoCache, e)
  BY <1>2, <1>5, NoCacheType, UpdatedSteps
<1>7. /\ page = d[Len(e)] /\ cache = u[Len(e)] /\ d[0] = Fresh /\ u[0] = NoCache
      /\ \A n \in 0 .. Len(e) : d[n] \in FineP /\ u[n] \in Cache /\ Shown(d[n])
      /\ \A n \in 1 .. Len(e) : d[n] = Take(d[n - 1], e[n])
      /\ \A n \in 1 .. Len(e) : u[n] = updateServerState(u[n - 1], e[n])
  BY <1>1, <1>4, <1>6 DEF ReducesTo, UpdatesTo
<1>8. page.handled # 1 /\ cache.half # 1 /\ cache.summary = Null
  <2>1. CASE e = <<>>
    <3>1. Len(e) = 0
      BY <2>1
    <3>2. page = Fresh /\ cache = NoCache
      BY <1>7, <3>1
    <3> QED
      BY <3>2, BoardAssumption DEF Fresh, NoCache
  <2>2. CASE Len(e) = 12 /\ e[7].kind \in Starts /\ \A i \in 7 .. 12 : Second(e[i])
    <3> DEFINE On(n) == d[n].handled = 2 /\ u[n].half = 2 /\ u[n].summary = Null
    <3>1. ASSUME NEW n \in 7 .. 12, n = 7 \/ On(n - 1) PROVE On(n)
      <4>1. n \in 1 .. 12 /\ n - 1 \in 0 .. 12
        OBVIOUS
      <4>2. n \in 1 .. Len(e) /\ n - 1 \in 0 .. Len(e)
        BY <2>2, <4>1
      <4>3. e[n] \in Message
        BY <1>2, <4>2
      <4>4. /\ n \in 1 .. Len(e) /\ n - 1 \in 0 .. Len(e)
            /\ e[n] \in Message /\ Second(e[n])
        BY <2>2, <4>2, <4>3
      <4>5. /\ d[n - 1] \in FineP /\ u[n - 1] \in Cache
            /\ d[n] = Take(d[n - 1], e[n]) /\ u[n] = updateServerState(u[n - 1], e[n])
        BY <1>7, <4>4
      <4>6. n = 7 => e[n].kind \in Starts
        BY <2>2
      <4> QED
        BY <3>1, <4>4, <4>5, <4>6, SecondKeeps
    <3> HIDE DEF On
    <3>2. On(7)
      BY <3>1
    <3>3. On(8)
      BY <3>1, <3>2
    <3>4. On(9)
      BY <3>1, <3>3
    <3>5. On(10)
      BY <3>1, <3>4
    <3>6. On(11)
      BY <3>1, <3>5
    <3>7. On(12)
      BY <3>1, <3>6
    <3> QED
      BY <1>7, <2>2, <3>7 DEF On
  <2> QED
    BY <2>1, <2>2, EarlierIs
<1>9. Shown(page)
  BY <1>2, <1>7, LenProperties
<1>10. Underway
  BY DEF Init, Underway
<1>11. StalePage /\ StaleCache
  BY DEF Init, StalePage, StaleCache, Stale
<1>12. Course /\ Counts
  BY <1>8 DEF Init, Course, Counts
<1>13. CacheFits /\ PageFits
  BY <1>8, <1>9, <1>11 DEF Init, CacheFits, PageFits
<1> QED
  BY <1>10, <1>12, <1>13, TypeInit DEF CountInv

-----------------------------------------------------------------------------
(* A page that joins, on what the cache has of a half.                     *)

LEMMA JoinedHalf ==
    ASSUME NEW pg \in FineP, NEW c \in Cache, Shown(pg),
           c.summary # Null => c.half # Null
    PROVE  /\ Joined(pg, c) \in FineP /\ Shown(Joined(pg, c))
           /\ c.half # Null => Joined(pg, c).half = c.half /\ Joined(pg, c).handled = c.half
           /\ c.half = Null => Joined(pg, c).handled = pg.handled
<1> DEFINE g == Greeted(pg, c)
           f == Filled(pg, c)
           q == Joined(pg, c)
<1>1. /\ g \in FineP /\ f \in FineP /\ q \in FineP
      /\ q = IF c.summary = Null THEN f ELSE on_summary(f, "half_end", c.summary)
  BY JoinedIs
<1>2. /\ Same(f, g) /\ f.half = g.half /\ f.handled = g.handled
  BY <1>1 DEF Filled, FineP, Page, Same
<1>3. c.half # Null => c.half \in Half
  BY DEF Cache
<1>4. g = IF c.half = Null THEN pg ELSE on_half_start(pg, c.half)
  BY DEF Greeted
<1> HIDE DEF g, f, q
<1>5. /\ c.half # Null => g.half = c.half /\ g.handled = c.half
      /\ c.half = Null => g = pg
      /\ Shown(g)
  <2>1. CASE c.half = Null
    BY <1>4, <2>1
  <2>2. CASE c.half # Null
    <3>1. /\ g.half = c.half /\ g.handled = c.half
          /\ Same(g, pg) \/ Afresh(g) \/ Later(g, pg)
      BY <1>3, <1>4, <2>2, StartIs
    <3>2. Shown(g)
      BY <3>1 DEF Same, Afresh, Later, Shown
    <3> QED
      BY <2>2, <3>1, <3>2
  <2> QED
    BY <2>1, <2>2
<1>6. Shown(f)
  BY <1>2, <1>5 DEF Same, Shown
<1>7. CASE c.summary = Null
  BY <1>1, <1>2, <1>5, <1>6, <1>7 DEF q
<1>8. CASE c.summary # Null
  <2>1. c.summary \in Rows /\ "half_end" \in Reason
    BY <1>8 DEF Cache, Reason
  <2>2. Summarised(q, f, "half_end", c.summary)
    BY <1>1, <1>8, <2>1, SummaryIs
  <2>3. q.half = f.half /\ q.handled = f.handled /\ q.shown
    BY <2>2 DEF Summarised
  <2>4. Shown(q)
    BY <2>3 DEF Shown
  <2> QED
    BY <1>1, <1>2, <1>5, <1>8, <2>3, <2>4 DEF q
<1> QED
  BY <1>7, <1>8

LEMMA JoinedCounts ==
    ASSUME NEW k \in [Half -> [Player -> Nat]], NEW st, NEW pg \in FineP, NEW c \in Cache,
           NEW h, Kept(c, h, st, k), c.summary # Null => c.half = 1, Shown(pg),
           Ready(pg, c.half, st, k)
    PROVE  /\ Held(Joined(pg, c), k) /\ Final(Joined(pg, c), st, k)
           /\ c.summary = Null /\ (pg.handled = c.half => Allowed(pg, c.half))
                => Allowed(Joined(pg, c), c.half)
<1> DEFINE g == Greeted(pg, c)
           f == Filled(pg, c)
           q == Joined(pg, c)
           x == c.half
<1>1. /\ g \in FineP /\ f \in FineP /\ q \in FineP
      /\ q = IF c.summary = Null THEN f ELSE on_summary(f, "half_end", c.summary)
  BY JoinedIs
<1>2. /\ Same(f, g) /\ f.half = g.half /\ f.handled = g.handled
      /\ f.store = Known(c.players, Beside(g.store, Zeros(DOMAIN c.players)))
  BY <1>1 DEF Filled, FineP, Page, Same
<1>3. x \in Half /\ x # Null
  BY BoardAssumption, HalfFacts DEF Kept
<1>4. g = on_half_start(pg, x) /\ Ready(pg, x, st, k)
  BY <1>3 DEF Greeted
<1> HIDE DEF g, f, q, x
<1>5. /\ g.half = x /\ Held(g, k) /\ Final(g, st, k)
      /\ (pg.handled = x => Allowed(pg, x)) => Allowed(g, x)
  BY <1>3, <1>4, StartCounts DEF Begins
<1>6. AtMost(f.store, k[f.half])
  <2>1. k[x] \in [Player -> Nat] /\ AtMost(c.players, k[x]) /\ AtMost(g.store, k[x])
    BY <1>3, <1>5 DEF Kept, Held, x
  <2>2. g.store \in Rows /\ c.players \in Rows /\ Zeros(DOMAIN c.players) \in Rows
    BY <1>1, RowsShape, ZerosType DEF FineP, Page, Cache
  <2>3. AtMost(Zeros(DOMAIN c.players), k[x])
    BY <2>1, <2>2, AtMostNothing, RowsShape
  <2>4. /\ AtMost(Beside(g.store, Zeros(DOMAIN c.players)), k[x])
        /\ Beside(g.store, Zeros(DOMAIN c.players)) \in Rows
    BY <2>1, <2>2, <2>3, AtMostRows, BesideType
  <2>5. AtMost(Known(c.players, Beside(g.store, Zeros(DOMAIN c.players))), k[x])
    BY <2>1, <2>2, <2>4, AtMostRows
  <2> QED
    BY <1>2, <1>5, <2>5
<1>7. /\ f.half = x /\ Held(f, k) /\ Final(f, st, k)
      /\ (pg.handled = x => Allowed(pg, x)) => Allowed(f, x)
  BY <1>2, <1>5, <1>6, SameCounts
<1>8. CASE c.summary = Null
  BY <1>1, <1>7, <1>8 DEF q, x
<1>9. CASE c.summary # Null
  <2>1. c.summary \in Rows /\ "half_end" \in Unfinished
    BY <1>9 DEF Cache, Unfinished
  <2>2. x = 1 /\ AtMost(c.summary, k[f.half])
    BY <1>7, <1>9 DEF Kept, x
  <2>3. q = on_summary(f, "half_end", c.summary)
    BY <1>1, <1>9
  <2>4. f.half = 1 /\ f \in FineP /\ Held(f, k)
    BY <1>1, <1>7, <2>2
  <2>5. Stays(on_summary(f, "half_end", c.summary), f, st, k)
    BY <2>1, <2>2, <2>4, SummaryCounts
  <2>6. Held(q, k) /\ Final(q, st, k)
    BY <2>3, <2>5 DEF Stays
  <2> QED
    BY <1>9, <2>6 DEF q
<1> QED
  BY <1>8, <1>9

-----------------------------------------------------------------------------
(* The steps of the plugin.                                                *)

More(k, l) == \A h \in Half, p \in Player : k[h][p] <= l[h][p]

\* What was counted stays counted when more is done.
LEMMA CountsGrow ==
    ASSUME NEW k \in [Half -> [Player -> Nat]], NEW l \in [Half -> [Player -> Nat]], More(k, l)
    PROVE  /\ \A pg \in FineP : Held(pg, k) => Held(pg, l)
           /\ \A c \in Cache : \A h, st : Kept(c, h, st, k) => Kept(c, h, st, l)
<1>1. ASSUME NEW h \in Half, NEW r \in Rows, AtMost(r, k[h]) PROVE AtMost(r, l[h])
  <2>1. k[h] \in [Player -> Nat] /\ l[h] \in [Player -> Nat]
    OBVIOUS
  <2>2. \A p \in Player : k[h][p] <= l[h][p]
    BY DEF More
  <2> HIDE DEF More
  <2> QED
    BY <1>1, <2>1, <2>2, AtMostMore
<1>2. ASSUME NEW pg \in FineP, Held(pg, k) PROVE Held(pg, l)
  <2>1. /\ pg.half \in Half /\ pg.store \in Rows
        /\ \A h \in Half : pg.rows[h] \in Rows /\ pg.last[h] \in Rows
    BY DEF FineP, Page, Halves
  <2> QED
    BY <1>1, <1>2, <2>1 DEF Held
<1>3. ASSUME NEW c \in Cache, NEW h, NEW st, Kept(c, h, st, k) PROVE Kept(c, h, st, l)
  <2>1. c.players \in Rows /\ (c.summary # Null => c.summary \in Rows) /\ 1 \in Half
    BY DEF Cache, Half
  <2> QED
    BY <1>1, <1>3, <2>1 DEF Kept
<1> QED
  BY <1>2, <1>3

\* When nothing is under way the half has been told of.
LEMMA QuietBegun ==
    ASSUME CountInv, Quiet, half # 0 PROVE Begun
<1>1. ~ Pending(wire, lost)
  BY DEF Quiet, Pending
<1> QED
  BY <1>1 DEF CountInv, Course

\* Where half is not 0 a match has been started.
LEMMA HalfOfMatch ==
    ASSUME CountInv
    PROVE  /\ match # 0 <=> half # 0
           /\ stage # "idle" => half # 0
           /\ half # 0 => half \in Half /\ half \in Nat
           /\ half # 0 /\ cache.half = half => ~ StaleCache
           /\ half # 0 /\ page.handled = half => ~ StalePage
           /\ ~ linked /\ half # 0 => ~ StalePage
<1>1. half \in Half \cup {0} /\ Half \subseteq Nat
  BY HalfFacts DEF CountInv, TypeInv
<1>2. (match # 0 <=> half # 0) /\ (stage # "idle" => half # 0)
  BY DEF CountInv, Course
<1>3. /\ half # 0 /\ cache.half = half => ~ StaleCache
      /\ half # 0 /\ page.handled = half => ~ StalePage
  BY <1>2 DEF StaleCache, StalePage, Stale
<1>4. ~ linked /\ half # 0 => ~ StalePage
  BY <1>2 DEF CountInv, PageFits
<1> QED
  BY <1>1, <1>2, <1>3, <1>4

\* A step of the plugin within a half, or at its end, keeps what page and cache have.
LEMMA Onwards ==
    ASSUME CountInv, TypeInv', Quiet,
           page' = page, cache' = cache, linked' = linked, match' = match, half' = half,
           More(kills, kills'),
           \/ stage' = stage /\ (stage = "idle" => kills' = kills)
           \/ stage = "play" /\ stage' = "break" /\ half \in {1, 2}
           \/ stage # "idle" /\ stage' = "idle" /\ half # 1
    PROVE  /\ Course' /\ CacheFits' /\ PageFits'
           /\ half # 0 => Begun'
<1>1. half # 0 => Begun /\ Begun'
  BY QuietBegun DEF Begun
<1>2. Course'
  BY <1>1 DEF CountInv, Course
<1>3. kills \in [Half -> [Player -> Nat]] /\ kills' \in [Half -> [Player -> Nat]]
  BY DEF CountInv, TypeInv
<1>4. StaleCache' <=> StaleCache
  BY <1>1, HalfOfMatch DEF StaleCache, Stale, Begun, CountInv, Course
<1>5. StalePage' <=> StalePage
  BY <1>1, HalfOfMatch DEF StalePage, Stale, Begun, CountInv, Course
<1>6. CacheFits'
  <2>1. ~ StaleCache => Kept(cache, half, stage', kills)
    BY DEF CountInv, CacheFits, Kept
  <2>2. ~ StaleCache => Kept(cache, half, stage', kills')
    BY <1>3, <2>1, CountsGrow DEF CountInv, TypeInv
  <2>3. cache.summary # Null => cache.half = 1 /\ ~ StaleCache
    BY DEF CountInv, CacheFits
  <2> QED
    BY <1>4, <2>2, <2>3 DEF CacheFits
<1>7. PageFits'
  <2>1. page \in FineP
    BY DEF CountInv, TypeInv, FineP
  <2>2. Held(page, kills) => Held(page, kills')
    BY <1>3, <2>1, CountsGrow
  <2>3. Final(page, stage, kills) => Final(page, stage', kills')
    BY DEF Final
  <2>4. stage' = "play" => stage = "play"
    OBVIOUS
  <2> QED
    BY <1>4, <1>5, <2>2, <2>3, <2>4 DEF CountInv, PageFits
<1> QED
  BY <1>1, <1>2, <1>6, <1>7

\* What goes out is of the moment.
LEMMA OneUnderway ==
    ASSUME NEW m, wire' = <<m>>, Fits(m, stage', half', kills'),
           m.kind \in Late => Begun' /\ half' # 0
    PROVE  Underway'
BY DEF Underway

LEMMA TwoUnderway ==
    ASSUME NEW m, NEW n, wire' = <<m, n>>,
           Fits(m, stage', half', kills'), Fits(n, stage', half', kills'),
           Begun', half' # 0
    PROVE  Underway'
BY DEF Underway

\* The rows that a summary carries are at most what was done.
LEMMA StatRowsAtMost ==
    ASSUME CountInv, half # 0 PROVE AtMost(StatRows, kills[half])
BY DEF CountInv, Counts, AtMost, StatRows, TypeInv

LEMMA CountKill ==
    ASSUME CountInv, TypeInv', NEW p \in Player, Kill(p) PROVE CountInv'
<1>1. /\ Quiet /\ stage = "play" /\ stage' = stage /\ half' = half /\ match' = match
      /\ page' = page /\ cache' = cache /\ linked' = linked /\ gone' = gone
      /\ live' = [live EXCEPT ![p] = @ + 1] /\ kills' = [kills EXCEPT ![half][p] = @ + 1]
      /\ wire' = <<score([q \in {p} |-> live'[p]])>>
  BY DEF Kill, Elsewhere, viewer
<1>2. half # 0 /\ half \in Half
  BY <1>1, HalfOfMatch
<1>3. /\ live \in [Player -> Nat] /\ kills \in [Half -> [Player -> Nat]] /\ gone \in Rows
      /\ kills[half] \in [Player -> Nat]
  BY <1>2 DEF CountInv, TypeInv
<1>4. /\ kills'[half] = [kills[half] EXCEPT ![p] = @ + 1]
      /\ \A h \in Half : h # half => kills'[h] = kills[h]
  BY <1>1, <1>2, <1>3
<1> HIDE DEF CountInv, TypeInv
<1>5. \A q \in Player : kills[half][q] <= kills'[half][q]
  BY <1>3, <1>4
<1>6. More(kills, kills')
  <2>1. ASSUME NEW h \in Half, NEW q \in Player PROVE kills[h][q] <= kills'[h][q]
    <3>1. CASE h = half
      BY <1>5, <3>1
    <3>2. CASE h # half
      <4>1. kills'[h] = kills[h]
        BY <1>4, <3>2
      <4>2. kills[h][q] \in Nat
        BY <1>3
      <4> QED
        BY <4>1, <4>2
    <3> QED
      BY <3>1, <3>2
  <2> QED
    BY <2>1 DEF More
<1>7. Course' /\ CacheFits' /\ PageFits' /\ Begun'
  BY <1>1, <1>2, <1>6, Onwards
<1>8. AtMost(live', kills'[half])
  <2>1. \A q \in Player : live[q] <= kills[half][q]
    BY <1>2, <1>3 DEF CountInv, Counts, AtMost
  <2> QED
    BY <1>1, <1>3, <1>4, <2>1 DEF AtMost
<1>9. AtMost(gone', kills'[half])
  <2>1. AtMost(gone, kills[half])
    BY <1>2 DEF CountInv, Counts
  <2>2. kills'[half] \in [Player -> Nat]
    BY <1>3, <1>4
  <2> QED
    BY <1>1, <1>3, <1>5, <2>1, <2>2, AtMostMore
<1>10. Counts'
  BY <1>1, <1>2, <1>8, <1>9 DEF Counts
<1>11. Underway'
  <2> DEFINE r == [q \in {p} |-> live'[p]]
             m == score(r)
  <2>1. AtMost(r, kills'[half])
    BY <1>1, <1>3, <1>8 DEF AtMost
  <2>2. m.kind = "score" /\ m.rows = r
    BY DEF score
  <2>3. wire' = <<m>>
    BY <1>1
  <2> HIDE DEF r, m
  <2>4. Fits(m, stage', half', kills')
    BY <1>1, <2>1, <2>2 DEF Fits, Starts
  <2> QED
    BY <1>1, <1>2, <1>7, <2>3, <2>4, OneUnderway
<1> QED
  BY <1>7, <1>10, <1>11 DEF CountInv

LEMMA CountLeave ==
    ASSUME CountInv, TypeInv', NEW p \in Player, Leave(p) PROVE CountInv'
<1>1. /\ Quiet /\ p \in on /\ stage' = stage /\ half' = half /\ match' = match
      /\ page' = page /\ cache' = cache /\ linked' = linked /\ kills' = kills
      /\ gone' = IF stage = "idle" THEN gone ELSE Beside([q \in {p} |-> live[p]], gone)
      /\ live' = [live EXCEPT ![p] = 0]
      /\ wire' = <<left(p)>>
  BY DEF Leave, Elsewhere, viewer
<1>2. /\ live \in [Player -> Nat] /\ kills \in [Half -> [Player -> Nat]] /\ gone \in Rows
  BY DEF CountInv, TypeInv
<1>3. \A h \in Half, q \in Player : kills[h][q] \in Nat
  BY <1>2
<1> HIDE DEF CountInv, TypeInv
<1>4. Course' /\ CacheFits' /\ PageFits'
  <2>1. More(kills, kills')
    BY <1>1, <1>3 DEF More
  <2> QED
    BY <1>1, <2>1, Onwards
<1>5. Counts'
  <2>1. CASE half = 0
    <3>1. stage = "idle" /\ live = NoKills /\ gone = NoRows
      BY <2>1, HalfOfMatch DEF CountInv, Counts, TypeInv
    <3>2. live' = NoKills
      BY <1>1, <3>1 DEF NoKills
    <3> QED
      BY <1>1, <2>1, <3>1, <3>2 DEF Counts
  <2>2. CASE half # 0
    <3>1. half \in Half /\ AtMost(live, kills[half]) /\ AtMost(gone, kills[half])
      BY <2>2, HalfOfMatch DEF CountInv, Counts
    <3>2. kills[half] \in [Player -> Nat]
      BY <1>2, <3>1
    <3>3. AtMost(live', kills[half])
      BY <1>1, <1>2, <3>1, <3>2 DEF AtMost
    <3>4. AtMost(gone', kills[half])
      <4> DEFINE r == [q \in {p} |-> live[p]]
      <4>1. r \in Rows /\ AtMost(r, kills[half])
        BY <1>2, <3>1, RowsAre DEF AtMost
      <4> HIDE DEF r
      <4>2. AtMost(Beside(r, gone), kills[half])
        BY <1>2, <3>1, <3>2, <4>1, AtMostRows
      <4> QED
        BY <1>1, <3>1, <4>2 DEF r
    <3> QED
      BY <1>1, <2>2, <3>3, <3>4 DEF Counts
  <2> QED
    BY <2>1, <2>2
<1>6. Underway'
  BY <1>1, OneUnderway DEF left, Fits, Starts, Late
<1> QED
  BY <1>4, <1>5, <1>6 DEF CountInv

LEMMA CountJoin ==
    ASSUME CountInv, TypeInv', NEW p \in Player, Join(p) PROVE CountInv'
<1>1. /\ Quiet /\ stage' = stage /\ half' = half /\ match' = match
      /\ page' = page /\ cache' = cache /\ linked' = linked /\ kills' = kills
      /\ gone' = gone /\ live' = live
      /\ wire' = <<roster({p})>>
  BY DEF Join, Elsewhere, viewer
<1>2. kills \in [Half -> [Player -> Nat]]
  BY DEF CountInv, TypeInv
<1>3. Course' /\ CacheFits' /\ PageFits'
  <2>1. More(kills, kills')
    BY <1>1, <1>2 DEF More
  <2> QED
    BY <1>1, <2>1, Onwards
<1>4. Counts'
  BY <1>1 DEF CountInv, Counts
<1>5. Underway'
  BY <1>1, OneUnderway DEF roster, Fits, Starts, Late
<1> QED
  BY <1>3, <1>4, <1>5 DEF CountInv

LEMMA CountCapout ==
    ASSUME CountInv, TypeInv', Capout PROVE CountInv'
<1>1. /\ Quiet /\ stage = "play" /\ stage' = stage /\ half' = half /\ match' = match
      /\ page' = page /\ cache' = cache /\ linked' = linked /\ kills' = kills
      /\ gone' = gone /\ live' = live
      /\ wire' = <<summary("round_end", StatRows)>>
  BY DEF Capout, Elsewhere, viewer, plugin
<1>2. kills \in [Half -> [Player -> Nat]] /\ half # 0
  BY <1>1, HalfOfMatch DEF CountInv, TypeInv
<1>3. Course' /\ CacheFits' /\ PageFits' /\ Begun'
  <2>1. More(kills, kills')
    BY <1>1, <1>2 DEF More
  <2> QED
    BY <1>1, <1>2, <2>1, Onwards
<1>4. Counts'
  BY <1>1 DEF CountInv, Counts
<1>5. Underway'
  <2> DEFINE m == summary("round_end", StatRows)
  <2>1. m.kind = "summary" /\ m.reason = "round_end" /\ m.rows = StatRows
    BY DEF summary
  <2>2. wire' = <<m>>
    BY <1>1
  <2> HIDE DEF m
  <2>3. Fits(m, stage', half', kills')
    BY <1>1, <1>2, <2>1, StatRowsAtMost DEF Fits, Starts
  <2> QED
    BY <1>1, <1>2, <1>3, <2>2, <2>3, OneUnderway
<1> QED
  BY <1>3, <1>4, <1>5 DEF CountInv

LEMMA CountHalfEnd ==
    ASSUME CountInv, TypeInv', ktp_half_end PROVE CountInv'
<1>1. /\ Quiet /\ stage = "play" /\ half = 1 /\ stage' = "break" /\ half' = half
      /\ match' = match /\ page' = page /\ cache' = cache /\ linked' = linked
      /\ kills' = kills /\ gone' = gone /\ live' = live
      /\ wire' = <<half_end, summary("half_end", StatRows)>>
  BY DEF ktp_half_end, Elsewhere, viewer
<1>2. kills \in [Half -> [Player -> Nat]]
  BY DEF CountInv, TypeInv
<1>3. Course' /\ CacheFits' /\ PageFits' /\ Begun'
  <2>1. More(kills, kills')
    BY <1>1, <1>2 DEF More
  <2> QED
    BY <1>1, <2>1, Onwards
<1>4. Counts'
  BY <1>1 DEF CountInv, Counts
<1>5. Underway'
  <2> DEFINE m == summary("half_end", StatRows)
  <2>1. /\ m.kind = "summary" /\ m.reason = "half_end" /\ m.rows = StatRows
        /\ half_end.kind = "half_end"
    BY DEF summary, half_end
  <2>2. wire' = <<half_end, m>>
    BY <1>1
  <2> HIDE DEF m
  <2>3. AtMost(StatRows, kills[half])
    BY <1>1, StatRowsAtMost
  <2>4. Fits(m, stage', half', kills') /\ Fits(half_end, stage', half', kills')
    BY <1>1, <2>1, <2>3 DEF Fits, Starts
  <2> QED
    BY <1>1, <1>3, <2>2, <2>4, TwoUnderway
<1> QED
  BY <1>3, <1>4, <1>5 DEF CountInv

LEMMA CountTie ==
    ASSUME CountInv, TypeInv', Tie PROVE CountInv'
<1>1. /\ Quiet /\ stage = "play" /\ half = 2 /\ stage' = "break" /\ half' = half
      /\ match' = match /\ page' = page /\ cache' = cache /\ linked' = linked
      /\ kills' = kills /\ gone' = gone /\ live' = live /\ wire' = <<>>
  BY DEF Tie, Elsewhere, viewer, Quiet
<1>2. kills \in [Half -> [Player -> Nat]]
  BY DEF CountInv, TypeInv
<1>3. Course' /\ CacheFits' /\ PageFits'
  <2>1. More(kills, kills')
    BY <1>1, <1>2 DEF More
  <2> QED
    BY <1>1, <2>1, Onwards
<1>4. Counts'
  BY <1>1 DEF CountInv, Counts
<1>5. Underway'
  BY <1>1 DEF Underway
<1> QED
  BY <1>3, <1>4, <1>5 DEF CountInv

LEMMA CountMatchEnd ==
    ASSUME CountInv, TypeInv', ~ Forfeits, ktp_match_end PROVE CountInv'
<1>1. /\ Quiet /\ stage # "idle" /\ half # 1 /\ stage' = "idle" /\ half' = half
      /\ match' = match /\ page' = page /\ cache' = cache /\ linked' = linked
      /\ kills' = kills /\ gone' = gone /\ live' = live
      /\ wire' = <<summary("match_end", StatRows), match_end>>
  BY DEF ktp_match_end, Elsewhere, viewer
<1>2. kills \in [Half -> [Player -> Nat]] /\ half # 0
  BY <1>1, HalfOfMatch DEF CountInv, TypeInv
<1>3. Course' /\ CacheFits' /\ PageFits' /\ Begun'
  <2>1. More(kills, kills')
    BY <1>1, <1>2 DEF More
  <2> QED
    BY <1>1, <1>2, <2>1, Onwards
<1>4. Counts'
  BY <1>1 DEF CountInv, Counts
<1>5. Underway'
  <2> DEFINE m == summary("match_end", StatRows)
  <2>1. /\ m.kind = "summary" /\ m.reason = "match_end" /\ m.rows = StatRows
        /\ match_end.kind = "match_end"
    BY DEF summary, match_end
  <2>2. wire' = <<m, match_end>>
    BY <1>1
  <2> HIDE DEF m
  <2>3. AtMost(StatRows, kills[half])
    BY <1>2, StatRowsAtMost
  <2>4. Fits(m, stage', half', kills') /\ Fits(match_end, stage', half', kills')
    BY <1>1, <2>1, <2>3 DEF Fits, Starts
  <2> QED
    BY <1>1, <1>2, <1>3, <2>2, <2>4, TwoUnderway
<1> QED
  BY <1>3, <1>4, <1>5 DEF CountInv

\* A new half: page and cache have not been told of it, and three POSTs will tell.
LEMMA CountMatchStart ==
    ASSUME CountInv, TypeInv', NEW h \in Half, MatchStart(h) PROVE CountInv'
<1>1. /\ Quiet /\ stage' = "play" /\ half' = h /\ live' = NoKills /\ gone' = NoRows
      /\ wire' = <<match_start(h), half_start(h), roster(on)>>
      /\ page' = page /\ cache' = cache /\ linked' = linked
      /\ \/ stage = "idle" /\ h = 1 /\ match' = match + 1 /\ linked
         \/ stage = "break" /\ h = NextHalf[half] /\ match' = match /\ kills' = kills
  BY DEF MatchStart
<1>2. h # 0 /\ match \in Nat /\ match' # 0
  <2>1. match \in Nat
    BY BoardAssumption DEF CountInv, TypeInv
  <2>2. stage = "break" => match # 0
    BY DEF CountInv, Course
  <2> QED
    BY <1>1, <2>1, <2>2 DEF Half
<1>3. kills' \in [Half -> [Player -> Nat]] /\ kills'[h] \in [Player -> Nat]
  BY DEF TypeInv
<1>4. Counts'
  BY <1>1, <1>2, <1>3, AtMostNothing DEF Counts
<1>5. /\ match_start(h).kind \in Starts /\ half_start(h).kind \in Starts
      /\ Fits(match_start(h), "play", h, kills') /\ Fits(half_start(h), "play", h, kills')
      /\ Fits(roster(on), "play", h, kills')
      /\ match_start(h).kind \notin Late /\ half_start(h).kind \notin Late
      /\ roster(on).kind \notin Late
  BY DEF Fits, Starts, Late, match_start, half_start, roster
<1>6. Underway'
  BY <1>1, <1>5 DEF Underway
<1>7. Course'
  <2>1. Pending(wire', lost')
    <3>1. 1 \in DOMAIN wire' /\ 2 \in DOMAIN wire' /\ wire'[1] = match_start(h) /\ wire'[2] = half_start(h)
      BY <1>1
    <3> QED
      BY <1>5, <3>1 DEF Pending
  <2> QED
    BY <1>1, <1>2, <2>1 DEF Course
<1>8. CASE stage = "idle" /\ h = 1 /\ match' = match + 1 /\ linked
  <2>1. cache.half # 1 /\ page.handled # 1
    <3>1. CASE match = 0
      BY <3>1 DEF CountInv, Course
    <3>2. CASE match # 0
      <4>1. half # 0 /\ half # 1
        BY <1>8, <3>2 DEF CountInv, Course
      <4>2. Begun
        BY <1>1, <4>1, QuietBegun
      <4> QED
        BY <1>8, <4>1, <4>2 DEF Begun
    <3> QED
      BY <3>1, <3>2
  <2>2. cache.summary = Null
    BY <2>1 DEF CountInv, CacheFits
  <2>3. StalePage' /\ StaleCache'
    BY <1>1, <1>8, <2>1 DEF StalePage, StaleCache, Stale
  <2>4. Shown(page)
    BY DEF CountInv, PageFits
  <2>5. CacheFits'
    BY <1>1, <2>2, <2>3 DEF CacheFits
  <2>6. PageFits'
    BY <1>1, <1>8, <2>1, <2>3, <2>4 DEF PageFits
  <2> QED
    BY <1>4, <1>6, <1>7, <2>5, <2>6 DEF CountInv
<1>9. CASE stage = "break" /\ h = NextHalf[half] /\ match' = match /\ kills' = kills
  <2>1. half \in {1, 2} /\ match # 0
    BY <1>9 DEF CountInv, Course
  <2>2. h # 1 /\ half < h /\ half \in Nat /\ h \in Nat
    BY <1>9, <2>1, HalfFacts
  <2>3. ~ StalePage /\ ~ StalePage' /\ ~ StaleCache /\ ~ StaleCache'
    BY <1>1, <1>2, <1>9, <2>1, <2>2 DEF StalePage, StaleCache, Stale
  <2>4. Kept(cache, half, stage, kills)
    BY <2>3 DEF CountInv, CacheFits
  <2>5. cache.half \in Half /\ cache.half \in Nat /\ cache.half <= half
    BY <2>4, HalfFacts DEF Kept
  <2>6. Kept(cache, h, "play", kills)
    BY <2>2, <2>4, <2>5 DEF Kept
  <2>7. CacheFits'
    BY <1>1, <1>9, <2>3, <2>6 DEF CountInv, CacheFits
  <2>8. /\ page.handled = page.half /\ page.half <= cache.half /\ page.half \in Nat
        /\ Held(page, kills) /\ Final(page, stage, kills) /\ Shown(page)
    BY <2>3, HalfFacts DEF CountInv, PageFits, TypeInv, Page
  <2>9. page.handled # h
    BY <2>2, <2>5, <2>8
  <2>10. Final(page, "play", kills)
    BY <1>9, <2>8 DEF Final
  <2>11. PageFits'
    BY <1>1, <1>9, <2>3, <2>8, <2>9, <2>10 DEF PageFits
  <2> QED
    BY <1>4, <1>6, <1>7, <2>7, <2>11 DEF CountInv
<1> QED
  BY <1>1, <1>8, <1>9

-----------------------------------------------------------------------------
(* The POSTs arrive.                                                       *)

\* What is left under way when one message is taken out.
LEMMA RestUnderway ==
    ASSUME CountInv, NEW i \in DOMAIN wire, wire' = RemoveAt(wire, i),
           stage' = stage, half' = half, kills' = kills, Begun => Begun'
    PROVE  Underway'
<1>1. wire \in Seq(Message)
  BY DEF CountInv, TypeInv
<1>2. /\ DOMAIN wire' = 1 .. Len(wire) - 1 /\ DOMAIN wire = 1 .. Len(wire)
      /\ \A j \in 1 .. Len(wire) - 1 : wire'[j] = IF j < i THEN wire[j] ELSE wire[j + 1]
  BY <1>1, RemoveFacts
<1>3. \A j \in DOMAIN wire' : \E x \in DOMAIN wire : wire'[j] = wire[x]
  <2>1. Len(wire) \in Nat
    BY <1>1, LenProperties
  <2>2. \A j \in 1 .. Len(wire) - 1 : j \in 1 .. Len(wire) /\ j + 1 \in 1 .. Len(wire)
    BY <2>1
  <2> QED
    BY <1>2, <2>2
<1> QED
  BY <1>3 DEF CountInv, Underway

\* Where an element is when one before it, or after it, is taken out.
Shifted(j, i) == IF j < i THEN j ELSE j - 1

LEMMA RestAt ==
    ASSUME NEW X, NEW w \in Seq(X), NEW i \in DOMAIN w, NEW j \in DOMAIN w, i # j
    PROVE  /\ Shifted(j, i) \in DOMAIN RemoveAt(w, i)
           /\ RemoveAt(w, i)[Shifted(j, i)] = w[j]
           /\ \A x \in DOMAIN w : x # i /\ x # j => Shifted(x, i) # Shifted(j, i)
<1>1. /\ DOMAIN RemoveAt(w, i) = 1 .. Len(w) - 1 /\ DOMAIN w = 1 .. Len(w)
      /\ \A k \in 1 .. Len(w) - 1 : RemoveAt(w, i)[k] = IF k < i THEN w[k] ELSE w[k + 1]
      /\ Len(w) \in Nat
  BY RemoveFacts, LenProperties
<1>2. i \in Int /\ j \in Int /\ 1 <= i /\ 1 <= j /\ i <= Len(w) /\ j <= Len(w)
  BY <1>1
<1>3. CASE j < i
  <2>1. Shifted(j, i) = j /\ j \in 1 .. Len(w) - 1
    BY <1>1, <1>2, <1>3 DEF Shifted
  <2>2. \A x \in 1 .. Len(w) : x # i /\ x # j => Shifted(x, i) # j
    BY <1>1, <1>2, <1>3 DEF Shifted
  <2> QED
    BY <1>1, <1>3, <2>1, <2>2
<1>4. CASE i < j
  <2>1. Shifted(j, i) = j - 1 /\ j - 1 \in 1 .. Len(w) - 1 /\ ~ (j - 1 < i) /\ (j - 1) + 1 = j
    BY <1>1, <1>2, <1>4 DEF Shifted
  <2>2. \A x \in 1 .. Len(w) : x # i /\ x # j => Shifted(x, i) # j - 1
    BY <1>1, <1>2, <1>4 DEF Shifted
  <2>3. RemoveAt(w, i)[j - 1] = w[(j - 1) + 1]
    BY <1>1, <2>1
  <2> QED
    BY <1>1, <2>1, <2>2, <2>3
<1> QED
  BY <1>2, <1>3, <1>4

\* What is pending stays so, when something else arrives and when one POST is lost.
LEMMA RestPending ==
    ASSUME MaxLost <= 1, NEW w \in Seq(Message), NEW i \in DOMAIN w, NEW l \in 0 .. MaxLost,
           Pending(w, l)
    PROVE  /\ w[i].kind \notin Starts => Pending(RemoveAt(w, i), l)
           /\ l < MaxLost => Pending(RemoveAt(w, i), l + 1)
<1> DEFINE v == RemoveAt(w, i)
<1>1. ASSUME NEW j \in DOMAIN w, j # i
      PROVE  /\ Shifted(j, i) \in DOMAIN v /\ v[Shifted(j, i)] = w[j]
             /\ \A x \in DOMAIN w : x # i /\ x # j => Shifted(x, i) # Shifted(j, i)
  BY <1>1, RestAt
<1> HIDE DEF v
<1>2. ASSUME w[i].kind \notin Starts PROVE Pending(v, l)
  <2>1. CASE \E j, x \in DOMAIN w : j # x /\ w[j].kind \in Starts /\ w[x].kind \in Starts
    <3>1. PICK j \in DOMAIN w, x \in DOMAIN w :
             j # x /\ w[j].kind \in Starts /\ w[x].kind \in Starts
      BY <2>1
    <3>2. j # i /\ x # i
      BY <1>2, <3>1
    <3> QED
      BY <1>1, <3>1, <3>2 DEF Pending
  <2>2. CASE l = MaxLost /\ \E j \in DOMAIN w : w[j].kind \in Starts
    <3>1. PICK j \in DOMAIN w : w[j].kind \in Starts
      BY <2>2
    <3>2. j # i
      BY <1>2, <3>1
    <3> QED
      BY <1>1, <2>2, <3>1, <3>2 DEF Pending
  <2> QED
    BY <2>1, <2>2 DEF Pending
<1>3. ASSUME l < MaxLost PROVE Pending(v, l + 1)
  <2>1. l + 1 = MaxLost /\ l # MaxLost
    <3>1. MaxLost \in Nat /\ l \in Nat
      BY BoardAssumption
    <3> QED
      BY <1>3, <3>1
  <2>2. PICK j \in DOMAIN w, x \in DOMAIN w :
           j # x /\ w[j].kind \in Starts /\ w[x].kind \in Starts
    BY <2>1 DEF Pending
  <2>3. \E y \in DOMAIN w : y # i /\ w[y].kind \in Starts
    BY <2>2
  <2> QED
    BY <1>1, <2>1, <2>3 DEF Pending
<1> QED
  BY <1>2, <1>3 DEF v

\* The parts of the step that are the same for every message.
Took(i) ==
    /\ wire' = RemoveAt(wire, i) /\ match' = match /\ stage' = stage /\ half' = half
    /\ live' = live /\ gone' = gone /\ kills' = kills /\ linked' = linked /\ lost' = lost

\* A message that tells of no half.
LEMMA OtherTaken ==
    ASSUME CountInv, MaxLost <= 1, NEW i \in DOMAIN wire, Took(i), wire[i].kind \notin Starts,
           cache'.half = cache.half, page'.handled = page.handled
    PROVE  Course' /\ Counts' /\ Underway' /\ (StaleCache' <=> StaleCache)
           /\ (StalePage' <=> StalePage)
<1>1. Begun' <=> Begun
  BY DEF Begun, Took
<1>2. Underway'
  BY <1>1, RestUnderway DEF Took
<1>3. Pending(wire, lost) => Pending(wire', lost')
  BY RestPending DEF CountInv, TypeInv, Took
<1>4. Course'
  BY <1>1, <1>3 DEF CountInv, Course, Took
<1>5. Counts'
  BY DEF CountInv, Counts, Took
<1> QED
  BY <1>2, <1>4, <1>5 DEF StaleCache, StalePage, Stale, Took

\* A message that concerns the store alone.
LEMMA StoreTaken ==
    ASSUME CountInv, TypeInv', MaxLost <= 1, NEW i \in DOMAIN wire, Took(i),
           wire[i].kind \notin Starts,
           Same(page', page), page'.half = page.half, page'.handled = page.handled,
           cache'.half = cache.half, cache'.summary \in {cache.summary, Null},
           ~ StaleCache => AtMost(cache'.players, kills[cache.half]),
           ~ StalePage => AtMost(page'.store, kills[page.half])
    PROVE  CountInv'
<1>1. Course' /\ Counts' /\ Underway' /\ (StaleCache' <=> StaleCache) /\ (StalePage' <=> StalePage)
  BY OtherTaken
<1>2. match' = match /\ stage' = stage /\ half' = half /\ kills' = kills /\ linked' = linked
  BY DEF Took
<1>3. CacheFits'
  <2>1. ~ StaleCache => Kept(cache', half, stage, kills)
    BY DEF CountInv, CacheFits, Kept
  <2> QED
    BY <1>1, <1>2, <2>1 DEF CountInv, CacheFits
<1>4. PageFits'
  <2>1. kills \in [Half -> [Player -> Nat]]
    BY DEF CountInv, TypeInv
  <2>2. /\ Held(page, kills) /\ AtMost(page'.store, kills[page'.half]) => Held(page', kills)
        /\ Shown(page) => Shown(page')
        /\ \A h : Allowed(page, h) => Allowed(page', h)
        /\ Final(page, stage, kills) => Final(page', stage, kills)
    BY <2>1, SameCounts
  <2> QED
    BY <1>1, <1>2, <2>2 DEF CountInv, PageFits
<1> QED
  BY <1>1, <1>3, <1>4 DEF CountInv

\* Where nothing is stale, what page and cache show is at most what was done.
LEMMA ShownRows ==
    ASSUME CountInv
    PROVE  /\ page.store \in Rows /\ cache.players \in Rows /\ page.half \in Half
           /\ ~ StalePage => AtMost(page.store, kills[page.half])
           /\ ~ StaleCache => AtMost(cache.players, kills[cache.half]) /\ cache.half \in Half
           /\ \A h \in Half : kills[h] \in [Player -> Nat]
BY DEF CountInv, TypeInv, Page, Cache, CacheFits, PageFits, Held, Kept

LEMMA CountRoster ==
    ASSUME CountInv, TypeInv', MaxLost <= 1, NEW i \in DOMAIN wire, NEW recent \in BOOLEAN,
           Deliver(i, recent), wire[i].kind = "roster"
    PROVE  CountInv'
<1> DEFINE more == Zeros(wire[i].who)
<1>1. Took(i) /\ wire[i].kind \notin Starts
  BY DEF Deliver, plugin, Took, Starts
<1>2. more \in Rows /\ \A h \in Half : AtMost(more, kills[h])
  <2>1. wire[i].who \in SUBSET Player
    <3>1. wire[i] \in Message
      BY DEF CountInv, TypeInv
    <3> QED
      BY <3>1 DEF Message, Start, Summary
  <2> QED
    BY <2>1, ShownRows, ZerosType, AtMostNothing
<1>3. /\ cache' = [cache EXCEPT !.players = Beside(@, more)]
      /\ page' = IF linked THEN [page EXCEPT !.store = Beside(@, more)] ELSE page
  BY DEF Deliver, updateServerState, Reduce
<1>4. /\ cache'.half = cache.half /\ cache'.summary = cache.summary
      /\ cache'.players = Beside(cache.players, more)
      /\ Same(page', page) /\ page'.half = page.half /\ page'.handled = page.handled
      /\ page'.store = page.store \/ page'.store = Beside(page.store, more)
  BY <1>3 DEF CountInv, TypeInv, Cache, Page, Same
<1> HIDE DEF more
<1>5. /\ ~ StaleCache => AtMost(cache'.players, kills[cache.half])
      /\ ~ StalePage => AtMost(page'.store, kills[page.half])
  BY <1>2, <1>4, ShownRows, AtMostRows
<1> QED
  BY <1>1, <1>4, <1>5, StoreTaken

LEMMA CountLeft ==
    ASSUME CountInv, TypeInv', MaxLost <= 1, NEW i \in DOMAIN wire, NEW recent \in BOOLEAN,
           Deliver(i, recent), wire[i].kind = "left"
    PROVE  CountInv'
<1> DEFINE p == wire[i].who
<1>1. Took(i) /\ wire[i].kind \notin Starts
  BY DEF Deliver, plugin, Took, Starts
<1>2. /\ cache' = [cache EXCEPT !.players = Without(@, p)]
      /\ page' = IF linked THEN [page EXCEPT !.store = Without(@, p)] ELSE page
  BY DEF Deliver, updateServerState, Reduce
<1>3. /\ cache'.half = cache.half /\ cache'.summary = cache.summary
      /\ cache'.players = Without(cache.players, p)
      /\ Same(page', page) /\ page'.half = page.half /\ page'.handled = page.handled
      /\ page'.store = page.store \/ page'.store = Without(page.store, p)
  BY <1>2 DEF CountInv, TypeInv, Cache, Page, Same
<1> HIDE DEF p
<1>4. /\ ~ StaleCache => AtMost(cache'.players, kills[cache.half])
      /\ ~ StalePage => AtMost(page'.store, kills[page.half])
  BY <1>3, ShownRows, AtMostRows
<1> QED
  BY <1>1, <1>3, <1>4, StoreTaken

LEMMA CountEnded ==
    ASSUME CountInv, TypeInv', MaxLost <= 1, NEW i \in DOMAIN wire, NEW recent \in BOOLEAN,
           Deliver(i, recent), wire[i].kind = "match_end"
    PROVE  CountInv'
<1>1. Took(i) /\ wire[i].kind \notin Starts
  BY DEF Deliver, plugin, Took, Starts
<1>2. cache' = Cleared(cache) /\ page' = page
  BY DEF Deliver, updateServerState, Reduce
<1>3. /\ cache'.half = cache.half /\ cache'.summary = Null /\ cache'.players = NoRows
      /\ Same(page', page) /\ page'.half = page.half /\ page'.handled = page.handled
      /\ page'.store = page.store
  BY <1>2 DEF CountInv, TypeInv, Cache, Same, Cleared
<1>4. /\ ~ StaleCache => AtMost(cache'.players, kills[cache.half])
      /\ ~ StalePage => AtMost(page'.store, kills[page.half])
  BY <1>3, ShownRows, AtMostNothing
<1> QED
  BY <1>1, <1>3, <1>4, StoreTaken

\* What comes late in a half finds page and cache in it.
LEMMA LateFinds ==
    ASSUME CountInv, NEW i \in DOMAIN wire, wire[i].kind \in Late
    PROVE  /\ half \in Half /\ half # 0 /\ match # 0 /\ Begun
           /\ ~ StaleCache /\ cache.half = half /\ ~ StalePage
           /\ linked => page.half = half /\ page.handled = half
           /\ wire[i].kind \notin Starts
<1>1. Begun /\ half # 0
  BY DEF CountInv, Underway
<1>2. half \in Half /\ match # 0 /\ ~ StaleCache /\ cache.half = half
  BY <1>1, HalfOfMatch DEF Begun
<1>3. ~ StalePage /\ (linked => page.handled = half)
  BY <1>1, HalfOfMatch DEF Begun
<1>4. page.handled = page.half
  BY <1>3 DEF CountInv, PageFits
<1> QED
  BY <1>1, <1>2, <1>3, <1>4 DEF Late, Starts

LEMMA CountScore ==
    ASSUME CountInv, TypeInv', MaxLost <= 1, NEW i \in DOMAIN wire, NEW recent \in BOOLEAN,
           Deliver(i, recent), wire[i].kind = "score"
    PROVE  CountInv'
<1> DEFINE r == wire[i].rows
<1>1. Took(i) /\ wire[i].kind \notin Starts /\ wire[i].kind \in Late
  BY DEF Deliver, plugin, Took, Starts, Late
<1>2. r \in Rows /\ AtMost(r, kills[half])
  <2>1. wire[i] \in Message
    BY DEF CountInv, TypeInv
  <2>2. Fits(wire[i], stage, half, kills)
    BY DEF CountInv, Underway
  <2> QED
    BY <2>1, <2>2 DEF Message, Start, Summary, Fits
<1>3. /\ cache' = [cache EXCEPT !.players = Known(r, @)]
      /\ page' = IF linked THEN [page EXCEPT !.store = Known(r, @)] ELSE page
  BY DEF Deliver, updateServerState, Reduce
<1>4. /\ cache'.half = cache.half /\ cache'.summary = cache.summary
      /\ cache'.players = Known(r, cache.players)
      /\ Same(page', page) /\ page'.half = page.half /\ page'.handled = page.handled
      /\ page'.store = page.store \/ (linked /\ page'.store = Known(r, page.store))
  BY <1>3 DEF CountInv, TypeInv, Cache, Page, Same
<1> HIDE DEF r
<1>5. /\ ~ StaleCache => AtMost(cache'.players, kills[cache.half])
      /\ ~ StalePage => AtMost(page'.store, kills[page.half])
  BY <1>1, <1>2, <1>4, ShownRows, AtMostRows, LateFinds
<1> QED
  BY <1>1, <1>4, <1>5, StoreTaken

\* A message that concerns the boards, on a page that is there.
LEMMA BoardTaken ==
    ASSUME CountInv, TypeInv', MaxLost <= 1, NEW i \in DOMAIN wire, Took(i),
           wire[i].kind \in Late,
           linked => Stays(page', page, stage, kills)
                     /\ (stage = "play" => Allowed(page', half)),
           ~ linked => page' = page,
           cache'.half = cache.half, Kept(cache', half, stage, kills),
           cache'.summary # Null => cache.half = 1
    PROVE  CountInv'
<1>1. page'.handled = page.handled /\ page'.half = page.half
  BY DEF Stays
<1>2. /\ Course' /\ Counts' /\ Underway'
      /\ (StaleCache' <=> StaleCache) /\ (StalePage' <=> StalePage)
  BY <1>1, OtherTaken, LateFinds
<1>3. match' = match /\ stage' = stage /\ half' = half /\ kills' = kills /\ linked' = linked
  BY DEF Took
<1>4. ~ StaleCache /\ ~ StalePage
  BY LateFinds
<1>5. CacheFits'
  BY <1>2, <1>3, <1>4 DEF CacheFits
<1>6. PageFits'
  BY <1>1, <1>2, <1>3, <1>4 DEF CountInv, PageFits, Stays
<1> QED
  BY <1>2, <1>5, <1>6 DEF CountInv

LEMMA CountMarker ==
    ASSUME CountInv, TypeInv', MaxLost <= 1, NEW i \in DOMAIN wire, NEW recent \in BOOLEAN,
           Deliver(i, recent), wire[i].kind = "half_end"
    PROVE  CountInv'
<1>1. Took(i) /\ wire[i].kind \in Late
  BY DEF Deliver, plugin, Took, Late
<1>2. stage = "break" /\ half = 1
  <2>1. Fits(wire[i], stage, half, kills)
    BY DEF CountInv, Underway
  <2> QED
    BY <2>1 DEF Fits
<1>3. cache' = cache /\ page' = IF linked THEN on_half_end(page, recent) ELSE page
  BY DEF Deliver, updateServerState, Reduce
<1>4. ~ StaleCache /\ ~ StalePage /\ (linked => page.half = 1)
  BY <1>1, <1>2, LateFinds
<1>5. linked => Stays(page', page, stage, kills)
  <2>1. kills \in [Half -> [Player -> Nat]] /\ page \in FineP
    BY DEF CountInv, TypeInv, FineP
  <2>2. Held(page, kills) /\ Shown(page) /\ Final(page, stage, kills)
    BY <1>4 DEF CountInv, PageFits
  <2> QED
    BY <1>3, <1>4, <2>1, <2>2, HalfEndCounts
<1>6. Kept(cache, half, stage, kills) /\ (cache.summary # Null => cache.half = 1)
  BY <1>4 DEF CountInv, CacheFits
<1> QED
  BY <1>1, <1>2, <1>3, <1>5, <1>6, BoardTaken

LEMMA CountSummary ==
    ASSUME CountInv, TypeInv', MaxLost <= 1, NEW i \in DOMAIN wire, NEW recent \in BOOLEAN,
           Deliver(i, recent), wire[i].kind = "summary"
    PROVE  CountInv'
<1> DEFINE r == wire[i].rows
           reason == wire[i].reason
<1>1. Took(i) /\ wire[i].kind \in Late
  BY DEF Deliver, plugin, Took, Late
<1>2. /\ r \in Rows /\ reason \in Reason /\ AtMost(r, kills[half])
      /\ reason = "half_end" => stage = "break" /\ half = 1
      /\ reason = "round_end" => stage = "play"
      /\ reason = "match_end" => stage = "idle"
  <2>1. wire[i] \in Message
    BY DEF CountInv, TypeInv
  <2>2. Fits(wire[i], stage, half, kills)
    BY DEF CountInv, Underway
  <2> QED
    BY <2>1, <2>2 DEF Message, Start, Summary, Fits
<1>3. /\ cache' = [cache EXCEPT !.players = Known(r, @),
                                !.summary = IF reason = "half_end" THEN r ELSE @]
      /\ page' = IF linked THEN on_summary(page, reason, r) ELSE page
  BY DEF Deliver, updateServerState, Reduce
<1>4. /\ ~ StaleCache /\ ~ StalePage /\ cache.half = half /\ half \in Half /\ half # 0
      /\ linked => page.half = half
  BY <1>1, LateFinds
<1> HIDE DEF r, reason
<1>5. /\ cache'.half = cache.half /\ cache'.players = Known(r, cache.players)
      /\ cache'.summary = IF reason = "half_end" THEN r ELSE cache.summary
  BY <1>3 DEF CountInv, TypeInv, Cache
<1>6. Kept(cache', half, stage, kills) /\ (cache'.summary # Null => cache.half = 1)
  <2>1. Kept(cache, half, stage, kills) /\ (cache.summary # Null => cache.half = 1)
    BY <1>4 DEF CountInv, CacheFits
  <2>2. AtMost(cache'.players, kills[half])
    BY <1>2, <1>4, <1>5, ShownRows, AtMostRows
  <2>3. CASE reason = "half_end"
    BY <1>2, <1>4, <1>5, <2>1, <2>2, <2>3 DEF Kept
  <2>4. CASE reason # "half_end"
    BY <1>4, <1>5, <2>1, <2>2, <2>4 DEF Kept
  <2> QED
    BY <2>3, <2>4
<1>7. ASSUME linked
      PROVE  Stays(page', page, stage, kills) /\ (stage = "play" => Allowed(page', half))
  <2>1. kills \in [Half -> [Player -> Nat]] /\ page \in FineP
    BY DEF CountInv, TypeInv, FineP
  <2>2. Held(page, kills) /\ page.half = half /\ page' = on_summary(page, reason, r)
    BY <1>3, <1>4, <1>7 DEF CountInv, PageFits
  <2>3. AtMost(r, kills[page.half])
    BY <1>2, <2>2
  <2>4. CASE reason \in Unfinished
    <3>1. /\ Stays(on_summary(page, reason, r), page, stage, kills)
          /\ reason = "round_end" => \A h : Allowed(on_summary(page, reason, r), h)
      BY <1>2, <2>1, <2>2, <2>3, <2>4, SummaryCounts
    <3>2. stage = "play" => reason = "round_end"
      BY <1>2, <2>4 DEF Unfinished
    <3> QED
      BY <2>2, <3>1, <3>2
  <2>5. CASE reason = "match_end"
    <3>1. stage = "idle" /\ half # 1
      BY <1>2, <2>5 DEF CountInv, Course
    <3>2. Stays(on_summary(page, "match_end", r), page, "idle", kills)
      BY <1>2, <2>1, <2>2, <2>3, <3>1, FinalCounts
    <3> QED
      BY <2>2, <2>5, <3>1, <3>2
  <2> QED
    BY <1>2, <2>4, <2>5 DEF Unfinished, Reason
<1>8. ~ linked => page' = page
  BY <1>3
<1> QED
  BY <1>1, <1>5, <1>6, <1>7, <1>8, BoardTaken

\* A page that is there is ready for the half that a POST tells of.
LEMMA ReadyToStart ==
    ASSUME CountInv, half # 0 PROVE Ready(page, half, stage, kills)
<1>1. half \in Half /\ half \in Nat /\ match # 0
  BY HalfOfMatch
<1>2. ASSUME ~ StalePage
      PROVE  /\ Held(page, kills) /\ Final(page, stage, kills) /\ page.handled = page.half
             /\ page.half \in Nat /\ page.half <= half
  <2>1. /\ ~ StaleCache /\ page.handled = page.half /\ page.half <= cache.half
        /\ Held(page, kills) /\ Final(page, stage, kills)
    BY <1>2 DEF CountInv, PageFits
  <2>2. cache.half \in Half /\ cache.half <= half
    BY <2>1 DEF CountInv, CacheFits, Kept
  <2>3. page.half \in Half
    BY ShownRows
  <2>4. page.half \in Nat /\ cache.half \in Nat
    BY <2>2, <2>3, HalfFacts
  <2> QED
    BY <1>1, <2>1, <2>2, <2>4
<1>3. CASE page.handled = half
  <2>1. ~ StalePage
    BY <1>3, HalfOfMatch
  <2> QED
    BY <1>2, <1>3, <2>1 DEF Ready
<1>4. CASE page.handled # half /\ half # 1
  <2>1. ~ StalePage
    BY <1>1, <1>4 DEF StalePage, Stale
  <2>2. page.half < half
    BY <1>1, <1>2, <1>4, <2>1
  <2> QED
    BY <1>2, <1>4, <2>1, <2>2 DEF Ready
<1>5. CASE page.handled # half /\ half = 1
  BY <1>5 DEF Ready
<1> QED
  BY <1>3, <1>4, <1>5

LEMMA CountStart ==
    ASSUME CountInv, TypeInv', NEW i \in DOMAIN wire, NEW recent \in BOOLEAN,
           Deliver(i, recent), wire[i].kind \in Starts
    PROVE  CountInv'
<1>1. /\ Took(i) /\ wire' = RemoveAt(wire, i) /\ match' = match /\ stage' = stage
      /\ half' = half /\ live' = live /\ gone' = gone /\ kills' = kills /\ linked' = linked
  BY DEF Deliver, plugin, Took
<1>2. stage = "play" /\ wire[i].half = half /\ half # 0 /\ half \in Half /\ match # 0
  <2>1. Fits(wire[i], stage, half, kills)
    BY DEF CountInv, Underway
  <2> QED
    BY <2>1, HalfOfMatch DEF Fits
<1>3. /\ \/ cache' = [Cleared(cache) EXCEPT !.half = half]
         \/ cache' = HalfStarted(cache, half)
      /\ linked => page' = on_match_start(page, half) \/ page' = on_half_start(page, half)
      /\ ~ linked => page' = page
  BY <1>2 DEF Deliver, updateServerState, Reduce, Starts
<1>4. /\ cache'.half = half /\ cache'.summary = Null
      /\ cache'.players = NoRows \/ cache'.players = Zeros(DOMAIN cache.players)
  BY <1>3 DEF CountInv, TypeInv, Cache, Cleared, HalfStarted
<1>5. kills \in [Half -> [Player -> Nat]] /\ page \in FineP /\ kills[half] \in [Player -> Nat]
  BY <1>2 DEF CountInv, TypeInv, FineP
<1>6. Kept(cache', half, stage, kills)
  <2>1. AtMost(cache'.players, kills[half])
    BY <1>4, <1>5, ShownRows, RowsShape, AtMostNothing
  <2>2. half <= half
    BY <1>2, HalfFacts
  <2> QED
    BY <1>2, <1>4, <2>1, <2>2 DEF Kept
<1>7. ~ StaleCache'
  BY <1>1, <1>2, <1>4 DEF StaleCache, Stale
<1>8. CacheFits'
  BY <1>1, <1>4, <1>6, <1>7 DEF CacheFits
<1>9. ASSUME linked PROVE Begins(page', page, half, stage, kills)
  <2>1. Shown(page) /\ Ready(page, half, stage, kills)
    BY <1>2, ReadyToStart DEF CountInv, PageFits
  <2>2. /\ Begins(on_match_start(page, half), page, half, stage, kills)
        /\ Begins(on_half_start(page, half), page, half, stage, kills)
    BY <1>2, <1>5, <2>1, StartCounts
  <2> QED
    BY <1>3, <1>9, <2>2
<1>10. Begun'
  BY <1>1, <1>4, <1>9 DEF Begun, Begins
<1>11. Underway'
  BY <1>1, <1>10, RestUnderway
<1>12. Course'
  BY <1>1, <1>2, <1>10 DEF CountInv, Course
<1>13. Counts'
  BY <1>1 DEF CountInv, Counts
<1>14. PageFits'
  <2>1. CASE linked
    <3>1. /\ page'.half = half /\ page'.handled = half /\ half <= half
          /\ Shown(page') /\ Held(page', kills) /\ Final(page', stage, kills)
          /\ (page.handled = half => Allowed(page, half)) => Allowed(page', half)
      BY <1>2, <1>9, <2>1, HalfFacts DEF Begins
    <3>2. page.handled = half => Allowed(page, half)
      BY <1>2 DEF CountInv, PageFits
    <3> QED
      BY <1>1, <1>4, <1>7, <2>1, <3>1, <3>2 DEF PageFits
  <2>2. CASE ~ linked
    <3>1. ~ StalePage /\ ~ StalePage' /\ page' = page
      BY <1>1, <1>2, <1>3, <2>2, HalfOfMatch DEF StalePage, Stale
    <3>2. ~ StaleCache /\ page.half <= cache.half /\ cache.half <= half /\ cache.half \in Half
      BY <3>1 DEF CountInv, PageFits, CacheFits, Kept
    <3>3. page.half <= half
      <4>1. page.half \in Nat /\ cache.half \in Nat /\ half \in Nat
        BY <1>2, <3>2, ShownRows, HalfFacts
      <4> QED
        BY <3>2, <4>1
    <3> QED
      BY <1>1, <1>2, <1>4, <1>7, <2>2, <3>1, <3>3 DEF CountInv, PageFits
  <2> QED
    BY <2>1, <2>2
<1> QED
  BY <1>8, <1>11, <1>12, <1>13, <1>14 DEF CountInv

LEMMA CountLose ==
    ASSUME CountInv, TypeInv', MaxLost <= 1, NEW i \in DOMAIN wire, Lose(i) PROVE CountInv'
<1>1. /\ wire' = RemoveAt(wire, i) /\ match' = match /\ stage' = stage /\ lost' = lost + 1
      /\ half' = half /\ live' = live /\ gone' = gone /\ kills' = kills /\ linked' = linked
      /\ page' = page /\ cache' = cache /\ lost < MaxLost
  BY DEF Lose, plugin, viewer
<1>2. Begun' <=> Begun
  BY <1>1 DEF Begun
<1>3. Underway'
  BY <1>1, <1>2, RestUnderway
<1>4. Pending(wire, lost) => Pending(wire', lost')
  BY <1>1, RestPending DEF CountInv, TypeInv
<1>5. Course' /\ Counts'
  BY <1>1, <1>2, <1>4 DEF CountInv, Course, Counts
<1>6. (StaleCache' <=> StaleCache) /\ (StalePage' <=> StalePage)
  BY <1>1 DEF StaleCache, StalePage, Stale
<1>7. CacheFits' /\ PageFits'
  BY <1>1, <1>6 DEF CountInv, CacheFits, PageFits
<1> QED
  BY <1>3, <1>5, <1>7 DEF CountInv

-----------------------------------------------------------------------------
(* The page goes away, and comes back.                                     *)

LEMMA CountDisconnect ==
    ASSUME CountInv, TypeInv', Disconnect PROVE CountInv'
<1>1. /\ wire' = wire /\ match' = match /\ stage' = stage /\ lost' = lost
      /\ half' = half /\ live' = live /\ gone' = gone /\ kills' = kills /\ linked' = FALSE
      /\ page' = page /\ cache' = cache /\ linked
      /\ stage = "play" /\ half = 1 => Quiet
  BY DEF Disconnect, plugin
<1>2. Begun => Begun'
  BY <1>1 DEF Begun
<1>3. Underway' /\ Course' /\ Counts'
  BY <1>1, <1>2 DEF CountInv, Underway, Course, Counts
<1>4. (StaleCache' <=> StaleCache) /\ (StalePage' <=> StalePage)
  BY <1>1 DEF StaleCache, StalePage, Stale
<1>5. match = 0 \/ ~ StalePage
  <2>1. CASE stage = "play" /\ half = 1
    BY <1>1, <2>1, QuietBegun, HalfOfMatch DEF Begun
  <2>2. CASE ~ (stage = "play" /\ half = 1)
    BY <2>2 DEF StalePage, Stale
  <2> QED
    BY <2>1, <2>2
<1>6. CacheFits' /\ PageFits'
  BY <1>1, <1>4, <1>5 DEF CountInv, CacheFits, PageFits
<1> QED
  BY <1>3, <1>6 DEF CountInv

\* What a page brings along to join: a page that was there, or none.
Brings(pg) ==
    /\ pg \in FineP /\ Shown(pg)
    /\ pg.handled = Null \/ pg.handled = page.handled
    /\ cache.half # Null /\ match # 0 /\ ~ StaleCache => Ready(pg, cache.half, stage, kills)
    /\ half # 0 /\ cache.half = half /\ stage = "play" /\ pg.handled = half => Allowed(pg, half)

LEMMA CountJoined ==
    ASSUME CountInv, TypeInv', NEW pg, Brings(pg), page' = Joined(pg, cache), linked' = TRUE,
           UNCHANGED <<plugin, wire, lost, cache>>
    PROVE  CountInv'
<1>1. /\ wire' = wire /\ match' = match /\ stage' = stage /\ lost' = lost
      /\ half' = half /\ live' = live /\ gone' = gone /\ kills' = kills /\ cache' = cache
  BY DEF plugin
<1>2. /\ pg \in FineP /\ Shown(pg) /\ cache \in Cache /\ kills \in [Half -> [Player -> Nat]]
      /\ cache.summary # Null => cache.half = 1 /\ ~ StaleCache
      /\ 1 # Null
  BY BoardAssumption DEF Brings, CountInv, TypeInv, CacheFits
<1>3. /\ Shown(page')
      /\ cache.half # Null => page'.half = cache.half /\ page'.handled = cache.half
      /\ cache.half = Null => page'.handled = pg.handled
  BY <1>2, JoinedHalf
<1>4. StaleCache' <=> StaleCache
  BY <1>1 DEF StaleCache, Stale
<1>5. Begun => Begun'
  <2>1. half \in Half \cup {0} /\ Null \notin Nat
    BY BoardAssumption DEF CountInv, TypeInv
  <2>2. half # Null
    BY <2>1, HalfFacts
  <2> QED
    BY <1>1, <1>3, <2>2 DEF Begun
<1>6. Underway' /\ Counts'
  BY <1>1, <1>5 DEF CountInv, Underway, Counts
<1>7. match = 0 => page'.handled # 1
  BY <1>2, <1>3 DEF CountInv, Course, Brings
<1>8. Course'
  BY <1>1, <1>5, <1>7 DEF CountInv, Course
<1>9. CacheFits'
  BY <1>1, <1>4 DEF CountInv, CacheFits
\* A page that is not told of the match joins a cache that is not.
<1>10. ASSUME match # 0, StaleCache PROVE page'.handled # 1 /\ half = 1 /\ stage = "play"
  <2>1. cache.half # 1 /\ half = 1 /\ stage = "play"
    BY <1>10 DEF StaleCache, Stale
  <2>2. pg.handled # 1
    <3>1. page.handled = 1 => ~ StalePage /\ StalePage
      BY <1>10, <2>1, HalfOfMatch DEF CountInv, PageFits
    <3> QED
      BY <1>2, <3>1 DEF Brings
  <2> QED
    BY <1>3, <2>1, <2>2
<1>11. ASSUME match # 0, ~ StaleCache
       PROVE  /\ cache.half # Null /\ cache.half \in Half
              /\ page'.half = cache.half /\ page'.handled = cache.half
              /\ Held(page', kills) /\ Final(page', stage, kills)
              /\ stage = "play" /\ cache.half = half => Allowed(page', half)
  <2>1. Kept(cache, half, stage, kills) /\ cache.half \in Half /\ cache.half # Null
    BY <1>11, HalfFacts DEF CountInv, CacheFits, Kept
  <2>2. Ready(pg, cache.half, stage, kills)
    BY <1>11, <2>1 DEF Brings
  <2>3. /\ Held(Joined(pg, cache), kills) /\ Final(Joined(pg, cache), stage, kills)
        /\ cache.summary = Null /\ (pg.handled = cache.half => Allowed(pg, cache.half))
             => Allowed(Joined(pg, cache), cache.half)
    BY <1>2, <2>1, <2>2, JoinedCounts
  <2>4. ASSUME stage = "play", cache.half = half PROVE Allowed(page', half)
    <3>1. cache.summary = Null
      BY <1>2, <2>1, <2>4 DEF Kept
    <3>2. half # 0
      BY <2>1, <2>4 DEF Half
    <3> QED
      BY <2>3, <2>4, <3>1, <3>2 DEF Brings
  <2> QED
    BY <1>3, <2>1, <2>3, <2>4
<1>12. PageFits'
  <2>1. CASE match = 0
    BY <1>1, <1>3, <2>1 DEF PageFits, StalePage, Stale, CountInv, Course
  <2>2. CASE match # 0 /\ StaleCache
    <3>1. page'.handled # 1 /\ half = 1 /\ stage = "play"
      BY <1>10, <2>2
    <3>2. StalePage'
      BY <1>1, <3>1 DEF StalePage, Stale
    <3> QED
      BY <1>1, <1>3, <3>1, <3>2 DEF PageFits
  <2>3. CASE match # 0 /\ ~ StaleCache
    <3>1. cache.half <= cache.half
      <4>1. cache.half \in Nat
        BY <1>11, <2>3, HalfFacts
      <4> QED
        BY <4>1
    <3> QED
      BY <1>1, <1>3, <1>4, <1>11, <2>3, <3>1 DEF PageFits
  <2> QED
    BY <2>1, <2>2, <2>3
<1> QED
  BY <1>6, <1>8, <1>9, <1>12 DEF CountInv

LEMMA CountReconnect ==
    ASSUME CountInv, TypeInv', Reconnect PROVE CountInv'
<1>1. /\ ~ linked /\ linked' = TRUE /\ page' = Joined(page, cache)
      /\ UNCHANGED <<plugin, wire, lost, cache>>
  BY DEF Reconnect
<1>2. match = 0 \/ ~ StalePage
  BY <1>1 DEF CountInv, PageFits
<1>3. page \in FineP /\ Shown(page)
  BY DEF CountInv, TypeInv, FineP, PageFits
<1>4. ASSUME match # 0, cache.half # Null PROVE Ready(page, cache.half, stage, kills)
  <2>1. /\ page.handled = page.half /\ page.half <= cache.half
        /\ Held(page, kills) /\ Final(page, stage, kills)
    BY <1>2, <1>4 DEF CountInv, PageFits
  <2>2. page.half \in Nat /\ cache.half \in Nat
    BY <1>4, ShownRows, HalfFacts DEF CountInv, TypeInv, Cache
  <2>3. page.half = cache.half \/ page.half < cache.half
    BY <2>1, <2>2
  <2> QED
    BY <2>1, <2>3 DEF Ready
<1>5. stage = "play" /\ page.handled = half => Allowed(page, half)
  BY DEF CountInv, PageFits
<1>6. Brings(page)
  BY <1>3, <1>4, <1>5 DEF Brings
<1> QED
  BY <1>1, <1>6, CountJoined

LEMMA CountReload ==
    ASSUME CountInv, TypeInv', Reload PROVE CountInv'
<1>1. /\ linked' = TRUE /\ page' = Joined(Fresh, cache)
      /\ UNCHANGED <<plugin, wire, lost, cache>>
  BY DEF Reload
<1>2. /\ Fresh \in FineP /\ Shown(Fresh) /\ Fresh.handled = Null /\ Fresh.half = 1
      /\ \A h : Allowed(Fresh, h)
      /\ Final(Fresh, stage, kills)
  BY FreshType DEF Fresh, Shown, Allowed, Final
<1>3. Held(Fresh, kills)
  <2>1. \A h \in Half : AtMost(NoRows, kills[h])
    BY ShownRows, AtMostNothing
  <2>2. /\ Fresh.store = NoRows /\ 1 \in Half
        /\ \A h \in Half : Fresh.rows[h] = NoRows /\ Fresh.last[h] = NoRows
    BY DEF Fresh, NoHalves, Half
  <2> QED
    BY <1>2, <2>1, <2>2 DEF Held
<1>4. ASSUME cache.half # Null PROVE Ready(Fresh, cache.half, stage, kills)
  <2>1. cache.half = 1 \/ 1 < cache.half
    BY <1>4 DEF CountInv, TypeInv, Cache, Half
  <2> QED
    BY <1>2, <1>3, <1>4, <2>1 DEF Ready
<1>5. Brings(Fresh)
  BY <1>2, <1>4 DEF Brings
<1> QED
  BY <1>1, <1>5, CountJoined

-----------------------------------------------------------------------------
(* The counts of the boards.                                               *)

\* A match is played to its end, and at most one POST gets lost.
Regular == ~ Forfeits /\ MaxLost <= 1

LEMMA CountStep == ASSUME Regular PROVE CountInv /\ [Next]_vars => CountInv'
<1> SUFFICES ASSUME CountInv, [Next]_vars PROVE CountInv'
  OBVIOUS
<1>1. TypeInv'
  BY TypeStep DEF CountInv
<1>2. ~ Forfeits /\ MaxLost <= 1
  BY DEF Regular
<1>3. ASSUME NEW h \in Half, MatchStart(h) PROVE CountInv'
  BY <1>1, <1>3, CountMatchStart
<1>4. ASSUME NEW p \in Player, Kill(p) PROVE CountInv'
  BY <1>1, <1>4, CountKill
<1>5. ASSUME NEW p \in Player, Leave(p) PROVE CountInv'
  BY <1>1, <1>5, CountLeave
<1>6. ASSUME NEW p \in Player, Join(p) PROVE CountInv'
  BY <1>1, <1>6, CountJoin
<1>7. CASE Capout
  BY <1>1, <1>7, CountCapout
<1>8. CASE ktp_half_end
  BY <1>1, <1>8, CountHalfEnd
<1>9. CASE Tie
  BY <1>1, <1>9, CountTie
<1>10. CASE ktp_match_end
  BY <1>1, <1>2, <1>10, CountMatchEnd
<1>11. ASSUME NEW i \in DOMAIN wire, NEW recent \in BOOLEAN, Deliver(i, recent) PROVE CountInv'
  <2>1. wire[i] \in Message
    BY DEF CountInv, TypeInv
  <2>2. wire[i].kind \in Starts \cup {"roster", "score", "left", "half_end", "summary", "match_end"}
    BY <2>1 DEF Message, Start, Summary, Starts
  <2>3. CASE wire[i].kind \in Starts
    BY <1>1, <1>11, <2>3, CountStart
  <2>4. CASE wire[i].kind = "roster"
    BY <1>1, <1>2, <1>11, <2>4, CountRoster
  <2>5. CASE wire[i].kind = "score"
    BY <1>1, <1>2, <1>11, <2>5, CountScore
  <2>6. CASE wire[i].kind = "left"
    BY <1>1, <1>2, <1>11, <2>6, CountLeft
  <2>7. CASE wire[i].kind = "half_end"
    BY <1>1, <1>2, <1>11, <2>7, CountMarker
  <2>8. CASE wire[i].kind = "summary"
    BY <1>1, <1>2, <1>11, <2>8, CountSummary
  <2>9. CASE wire[i].kind = "match_end"
    BY <1>1, <1>2, <1>11, <2>9, CountEnded
  <2> QED
    BY <2>2, <2>3, <2>4, <2>5, <2>6, <2>7, <2>8, <2>9
<1>12. ASSUME NEW i \in DOMAIN wire, Lose(i) PROVE CountInv'
  BY <1>1, <1>2, <1>12, CountLose
<1>13. CASE Disconnect
  BY <1>1, <1>13, CountDisconnect
<1>14. CASE Reconnect
  BY <1>1, <1>14, CountReconnect
<1>15. CASE Reload
  BY <1>1, <1>15, CountReload
<1>16. CASE UNCHANGED vars
  BY <1>16
     DEF vars, plugin, viewer, CountInv, TypeInv, Course, Counts, Underway, CacheFits, PageFits,
         Begun, StalePage, StaleCache
<1> QED
  BY <1>3, <1>4, <1>5, <1>6, <1>7, <1>8, <1>9, <1>10, <1>11, <1>12, <1>13, <1>14, <1>15, <1>16
     DEF Next

LEMMA CountsHold == ASSUME Regular PROVE Spec => []CountInv
<1>1. Init => CountInv
  BY CountInit DEF Regular
<1>2. CountInv /\ [Next]_vars => CountInv'
  BY CountStep
<1> QED
  BY <1>1, <1>2, PTL DEF Spec

\* No final board credits a player with more than the match saw of him: no half
\* is counted twice by the half archive, whatever overtook what, whatever one
\* POST was lost, and however often the page was away, joined or was reloaded.
THEOREM NoneOvercounted == ASSUME Regular PROVE Spec => []NeverOvercounts
<1>1. CountInv => NeverOvercounts
  <2> SUFFICES ASSUME CountInv, FinalUp,
                      NEW p \in DOMAIN page.board.rows
               PROVE  page.board.rows[p] <= Total(p)
    BY DEF NeverOvercounts
  <2>1. ~ StalePage
    BY BoardAssumption DEF FinalUp, StalePage, Stale, CountInv, TypeInv
  <2>2. Final(page, stage, kills)
    BY <2>1 DEF CountInv, PageFits
  <2> QED
    BY <2>2 DEF Final, FinalUp, Total
<1> QED
  BY <1>1, CountsHold, PTL

\* Neither the halftime board nor a final board stands over live play, once what
\* told of the half has landed, on a page that stayed as on one that joined.
THEOREM AllComeDown == ASSUME Regular PROVE Spec => []BoardsComeDown
<1>1. CountInv => BoardsComeDown
  <2> SUFFICES ASSUME CountInv, Quiet, linked, stage = "play"
               PROVE  Allowed(page, half)
    BY DEF BoardsComeDown, Allowed
  <2>1. page.handled = half
    BY QuietBegun, HalfOfMatch DEF Begun
  <2> QED
    BY <2>1 DEF CountInv, PageFits
<1> QED
  BY <1>1, CountsHold, PTL

-----------------------------------------------------------------------------
(* The invariant of what the page saw.                                     *)

\* What a summary would say of a player.
Row(p) == IF p \in on THEN live[p] ELSE Of(gone, p)

Exact(r, S, k) == \A p \in S : Of(r, p) = k[p]
Covers(r, s) == \A p \in Player : Of(s, p) <= Of(r, p)

\* The row of a steady player says all that he did, at the end of a later half
\* perhaps only the one kept of him.
SteadyRows ==
    /\ stage = "play" => \A p \in steady : Row(p) = kills[half][p]
    /\ stage = "break" /\ half # 1 =>
          \A p \in steady :
             Of(gone, p) = kills[half][p] \/ (p \in on /\ live[p] = kills[half][p])

ToCome == \A h \in Half : half < h => kills[h] = NoKills

Halftime == {i \in DOMAIN wire : wire[i].kind = "summary" /\ wire[i].reason = "half_end"}

\* Summaries are exact, and there is one of the first half.
SummariesExact ==
    /\ \A i \in DOMAIN wire :
          wire[i].kind = "summary" => Exact(wire[i].rows, steady, kills[half])
    /\ \A i \in Halftime : /\ page.src[1] # "summary" /\ cache.summary = Null
                           /\ \A j \in Halftime : i = j
    /\ cache.summary # Null => Exact(cache.summary, steady, kills[1])

\* What the page got of a half is kept until it is archived, and in the archive.
Archive(pg, sn, S, k) ==
    /\ pg.src[1] = "summary" => Exact(pg.rows[1], S, k[1])
    /\ \A h \in Half :
          /\ AtMost(sn[h], k[h])
          /\ pg.src[h] # "summary" => pg.last[h] = sn[h]
          /\ h # 1 => pg.src[h] # "summary"
          /\ pg.half < h => sn[h] = NoRows
          /\ h < pg.half /\ pg.src[h] # "summary" => Covers(pg.rows[h], sn[h])

\* The final board has what the page got of each half, and after two halves all
\* that was done by those whose first half it got whole.
Sums(b, sn, S, h, k) ==
    b # Null /\ b.reason = "match_end" =>
       \A p \in S :
          /\ Of(sn[1], p) + Of(sn[2], p) + Of(sn[101], p) <= Of(b.rows, p)
          /\ h = 2 /\ Of(sn[1], p) = k[1][p] => k[1][p] + k[2][p] + k[101][p] <= Of(b.rows, p)

\* At halftime the cache has what the page has in its archive.
Agree ==
    half = 1 /\ page.handled = 1 =>
       /\ stage = "play" => page.src[1] # "summary"
       /\ stage = "break" /\ page.src[1] = "summary" =>
             cache.summary # Null /\ cache.summary = page.rows[1]

Archived ==
    /\ StalePage => seen = NoHalves
    /\ ~ StalePage =>
          Archive(page, seen, steady, kills) /\ Sums(page.board, seen, steady, half, kills)

SeenInv == SteadyRows /\ ToCome /\ SummariesExact /\ Archived /\ Agree

-----------------------------------------------------------------------------
(* What the handlers keep of what was seen.                                *)

LEMMA CoversNothing == \A r \in Rows : Covers(r, NoRows)
<1> SUFFICES ASSUME NEW r \in Rows, NEW p \in Player PROVE Of(NoRows, p) <= Of(r, p)
  BY DEF Covers
<1>1. Of(NoRows, p) = 0 /\ Of(r, p) \in Nat
  BY OfType DEF Of, NoRows
<1> QED
  BY <1>1

\* What a boundary archives has all that was seen of the half.
LEMMA CarriedCovers ==
    ASSUME NEW pg \in FineP, NEW sn \in Halves, pg.last[pg.half] = sn[pg.half]
    PROVE  Covers(Carried(pg), sn[pg.half])
<1>1. sn[pg.half] \in Rows /\ pg.store \in Rows
  BY DEF FineP, Page, Halves
<1>2. CASE sn[pg.half] = NoRows
  BY <1>1, <1>2, CarriedType, CoversNothing
<1>3. CASE sn[pg.half] # NoRows
  <2>1. Carried(pg) = sn[pg.half]
    BY <1>3 DEF Carried
  <2>2. \A p \in Player : Of(sn[pg.half], p) <= Of(sn[pg.half], p)
    BY <1>1, OfType
  <2> QED
    BY <2>1, <2>2 DEF Covers
<1> QED
  BY <1>2, <1>3

\* The archive of a page that changes no more than its store.
LEMMA SameArchive ==
    ASSUME NEW pg, NEW q, Same(q, pg), q.half = pg.half, NEW sn, NEW S, NEW k
    PROVE  Archive(pg, sn, S, k) => Archive(q, sn, S, k)
BY DEF Archive, Same

\* Of fewer players less is said.
LEMMA FewerArchive ==
    ASSUME NEW pg, NEW sn, NEW S, NEW T \in SUBSET S, NEW k
    PROVE  /\ Archive(pg, sn, S, k) => Archive(pg, sn, T, k)
           /\ \A b, h : Sums(b, sn, S, h, k) => Sums(b, sn, T, h, k)
           /\ \A r, l : Exact(r, S, l) => Exact(r, T, l)
BY DEF Archive, Sums, Exact

\* A page that is told of a later half.
LEMMA LaterArchive ==
    ASSUME NEW k, NEW S, NEW sn \in Halves, NEW pg \in FineP, NEW q \in FineP,
           Archive(pg, sn, S, k), Later(q, pg), pg.half < q.half
    PROVE  Archive(q, sn, S, k)
<1>1. /\ pg.half \in Half /\ q.half \in Half /\ pg.rows \in Halves /\ q.rows \in Halves
      /\ pg.src \in [Half -> {"none", "snapshot", "summary"}]
      /\ 1 \in Half /\ \A h \in Half : h \in Nat /\ 1 <= h
  BY DEF FineP, Page, Half
<1>2. q.last = pg.last /\ Files(q, pg, Carried(pg))
  BY DEF Later
<1>3. \A h \in Half : h # pg.half => q.rows[h] = pg.rows[h] /\ q.src[h] = pg.src[h]
  BY <1>1, <1>2 DEF Files, Halves
<1>4. \/ pg.src[pg.half] = "summary" /\ q.rows = pg.rows /\ q.src = pg.src
      \/ /\ pg.src[pg.half] # "summary" /\ q.src[pg.half] = "snapshot"
         /\ q.rows[pg.half] = Carried(pg)
  BY <1>1, <1>2 DEF Files, Halves
<1>5. \A h \in Half : q.src[h] = "summary" => pg.src[h] = "summary" /\ q.rows[h] = pg.rows[h]
  BY <1>3, <1>4
<1>6. \A h \in Half : pg.src[h] = "summary" => q.src[h] = "summary"
  BY <1>3, <1>4
<1>7. ASSUME NEW h \in Half, h < q.half, q.src[h] # "summary" PROVE Covers(q.rows[h], sn[h])
  <2>1. h \in Nat /\ pg.half \in Nat /\ pg.src[h] # "summary"
    BY <1>1, <1>6, <1>7
  <2>2. CASE h = pg.half
    <3>1. q.rows[h] = Carried(pg) /\ pg.last[pg.half] = sn[pg.half]
      BY <1>4, <2>1, <2>2 DEF Archive
    <3> QED
      BY <2>2, <3>1, CarriedCovers
  <2>3. CASE h < pg.half
    <3>1. Covers(pg.rows[h], sn[h])
      BY <2>1, <2>3 DEF Archive
    <3> QED
      BY <1>3, <2>1, <2>3, <3>1
  <2>4. CASE pg.half < h
    <3>1. sn[h] = NoRows /\ q.rows[h] \in Rows
      BY <1>1, <2>4 DEF Archive, Halves
    <3> QED
      BY <3>1, CoversNothing
  <2> QED
    BY <2>1, <2>2, <2>3, <2>4
<1>8. ASSUME NEW h \in Half
      PROVE  /\ AtMost(sn[h], k[h])
             /\ q.src[h] # "summary" => q.last[h] = sn[h]
             /\ h # 1 => q.src[h] # "summary"
             /\ q.half < h => sn[h] = NoRows
  <2>1. q.half < h => pg.half < h
    <3>1. q.half \in Nat /\ pg.half \in Nat /\ h \in Nat
      BY <1>1
    <3> QED
      BY <3>1
  <2> QED
    BY <1>2, <1>5, <1>6, <2>1 DEF Archive
<1>9. q.src[1] = "summary" => Exact(q.rows[1], S, k[1])
  BY <1>1, <1>5 DEF Archive
<1> QED
  BY <1>7, <1>8, <1>9 DEF Archive

\* A page that is told of a first half has seen nothing of it.
LEMMA AfreshArchive ==
    ASSUME NEW k \in [Half -> [Player -> Nat]], NEW S, NEW q, Afresh(q), q.half = 1
    PROVE  Archive(q, NoHalves, S, k) /\ q.src[1] = "none"
<1>1. /\ \A h \in Half : /\ q.src[h] = "none" /\ q.last[h] = NoHalves[h]
                         /\ NoHalves[h] = NoRows /\ AtMost(NoRows, k[h])
                         /\ ~ (h < 1)
      /\ 1 \in Half
  BY AtMostNothing DEF Afresh, NoHalves, Half
<1> QED
  BY <1>1 DEF Archive

\* What a page is when it has been told of half x, which it is on or comes to.
Started(q, pg, sn, S, k, x) ==
    /\ Archive(pg, sn, S, k) => Archive(q, sn, S, k)
    /\ q.src[1] = "summary" => pg.src[1] = "summary"
    /\ pg.handled = x => q.src = pg.src /\ q.rows = pg.rows
    /\ q.board = Null \/ q.board = pg.board \/ q.board.reason = "half_end"
    /\ q.handled = x /\ q.half = x

LEMMA StartArchive ==
    ASSUME NEW k \in [Half -> [Player -> Nat]], NEW S, NEW sn \in Halves, NEW pg \in FineP,
           NEW x \in Half, pg.handled = pg.half, pg.handled = x \/ (x # 1 /\ pg.half < x)
    PROVE  /\ Started(on_match_start(pg, x), pg, sn, S, k, x)
           /\ Started(on_half_start(pg, x), pg, sn, S, k, x)
<1> SUFFICES ASSUME NEW q, q = on_match_start(pg, x) \/ q = on_half_start(pg, x)
             PROVE  Started(q, pg, sn, S, k, x)
  OBVIOUS
<1> USE DEF Started
<1>1. /\ q \in FineP /\ q.half = x /\ q.handled = x
      /\ pg.handled = x => Same(q, pg)
      /\ pg.handled # x /\ x # 1 => Later(q, pg)
  BY StartIs
<1>2. CASE pg.handled = x
  BY <1>1, <1>2, SameArchive DEF Same
<1>3. CASE pg.handled # x
  <2>1. Later(q, pg) /\ pg.half < q.half
    BY <1>1, <1>3
  <2>2. q.src[1] = "summary" => pg.src[1] = "summary"
    <3>1. pg.src \in [Half -> {"none", "snapshot", "summary"}] /\ 1 \in Half /\ pg.half \in Half
      BY DEF FineP, Page, Half
    <3> QED
      BY <2>1, <3>1 DEF Later, Files
  <2>3. q.board = Null \/ q.board = pg.board \/ q.board.reason = "half_end"
    BY <2>1 DEF Later
  <2> QED
    BY <1>1, <1>3, <2>1, <2>2, <2>3, LaterArchive
<1> QED
  BY <1>2, <1>3

\* The marker of the end of a first half.
LEMMA MarkerArchive ==
    ASSUME NEW k, NEW S, NEW sn, NEW pg \in FineP, pg.half = 1, Archive(pg, sn, S, k),
           NEW recent \in BOOLEAN, NEW q, q = on_half_end(pg, recent)
    PROVE  /\ Archive(q, sn, S, k)
           /\ q.src[1] = "summary" <=> pg.src[1] = "summary"
           /\ pg.src[1] = "summary" => q.rows[1] = pg.rows[1]
           /\ q.board = pg.board \/ q.board.reason = "half_end"
<1>1. /\ q.half = pg.half /\ q.last = pg.last
      /\ q = pg \/ \E r : Files(q, pg, r)
      /\ q.board = pg.board \/ q.board.reason = "half_end"
  BY HalfEndIs
<1>2. CASE q = pg
  BY <1>2
<1>3. CASE \E r : Files(q, pg, r)
  <2>1. /\ pg.src \in [Half -> {"none", "snapshot", "summary"}] /\ pg.rows \in Halves
        /\ 1 \in Half /\ \A h \in Half : ~ (h < 1)
    BY DEF FineP, Page, Half
  <2>2. /\ \A h \in Half : h # 1 => q.src[h] = pg.src[h] /\ q.rows[h] = pg.rows[h]
        /\ q.src[1] = "summary" <=> pg.src[1] = "summary"
        /\ pg.src[1] = "summary" => q.rows[1] = pg.rows[1]
    BY <1>3, <2>1 DEF Files, Halves
  <2>3. \A h \in Half : q.src[h] = "summary" <=> pg.src[h] = "summary"
    BY <2>2
  <2>4. Archive(q, sn, S, k)
    BY <1>1, <2>1, <2>2, <2>3 DEF Archive
  <2> QED
    BY <1>1, <2>2, <2>4
<1> QED
  BY <1>1, <1>2, <1>3

\* The summary of a first half, which is seen now or was seen before.
Summed(q, sn, S, k, r) ==
    /\ Archive(q, sn, S, k) /\ q.src[1] = "summary" /\ q.rows[1] = r
    /\ q.board = Told("half_end", r)

LEMMA SummaryArchive ==
    ASSUME NEW k \in [Half -> [Player -> Nat]], NEW S, NEW sn \in Halves, NEW pg \in FineP,
           pg.half = 1, Archive(pg, sn, S, k),
           NEW r \in Rows, Exact(r, S, k[1]), AtMost(r, k[1])
    PROVE  /\ Summed(on_summary(pg, "half_end", r), [sn EXCEPT ![1] = r], S, k, r)
           /\ Summed(on_summary(pg, "half_end", r), sn, S, k, r)
<1> SUFFICES ASSUME NEW tn \in {sn, [sn EXCEPT ![1] = r]}
             PROVE  Summed(on_summary(pg, "half_end", r), tn, S, k, r)
  OBVIOUS
<1> DEFINE q == on_summary(pg, "half_end", r)
<1>1. "half_end" \in Reason
  BY DEF Reason
<1>2. Summarised(q, pg, "half_end", r)
  BY <1>1, SummaryIs
<1> HIDE DEF q
<1>3. /\ q.half = 1 /\ q.rows = [pg.rows EXCEPT ![1] = r] /\ q.last = pg.last
      /\ q.src = [pg.src EXCEPT ![1] = "summary"] /\ q.board = Told("half_end", r)
  BY <1>2 DEF Summarised
<1>4. /\ pg.src \in [Half -> {"none", "snapshot", "summary"}] /\ pg.rows \in Halves
      /\ 1 \in Half /\ \A h \in Half : ~ (h < 1)
  BY DEF FineP, Page, Half
<1>5. /\ q.src[1] = "summary" /\ q.rows[1] = r
      /\ \A h \in Half : h # 1 => q.src[h] = pg.src[h] /\ q.rows[h] = pg.rows[h]
  BY <1>3, <1>4 DEF Halves
<1>6. \A h \in Half : tn[h] = sn[h] \/ (h = 1 /\ tn[h] = r)
  BY <1>4 DEF Halves
<1>7. Archive(q, tn, S, k)
  <2>1. \A h \in Half : AtMost(tn[h], k[h])
    BY <1>6 DEF Archive
  <2>2. \A h \in Half : h # 1 => tn[h] = sn[h]
    BY <1>6
  <2>3. \A h \in Half : q.half < h => h # 1
    BY <1>3, <1>4
  <2> QED
    BY <1>3, <1>4, <1>5, <2>1, <2>2, <2>3 DEF Archive
<1> QED
  BY <1>3, <1>5, <1>7 DEF q, Summed

\* A capout: what the page shows of the half is what it has seen of it.
LEMMA CapoutArchive ==
    ASSUME NEW k \in [Half -> [Player -> Nat]], NEW S, NEW sn \in Halves, NEW pg \in FineP,
           Archive(pg, sn, S, k), NEW r \in Rows, AtMost(r, k[pg.half])
    PROVE  /\ Archive(on_summary(pg, "round_end", r), [sn EXCEPT ![pg.half] = r], S, k)
           /\ on_summary(pg, "round_end", r).src = pg.src
           /\ on_summary(pg, "round_end", r).board.reason = "round_end"
<1> DEFINE q == on_summary(pg, "round_end", r)
           tn == [sn EXCEPT ![pg.half] = r]
<1>1. "round_end" \in Reason
  BY DEF Reason
<1>2. Summarised(q, pg, "round_end", r)
  BY <1>1, SummaryIs
<1> HIDE DEF q
<1>3. /\ q.half = pg.half /\ q.rows = pg.rows /\ q.last = [pg.last EXCEPT ![pg.half] = r]
      /\ q.src = pg.src /\ q.board = Told("round_end", r)
  BY <1>2 DEF Summarised
<1>4. pg.last \in Halves /\ pg.half \in Half /\ pg.half \in Nat /\ ~ (pg.half < pg.half)
  <2>1. pg.last \in Halves /\ pg.half \in Half /\ \A h \in Half : h \in Nat
    BY DEF FineP, Page, Half
  <2> QED
    BY <2>1
<1>5. /\ tn[pg.half] = r /\ q.last[pg.half] = r
      /\ \A h \in Half : h # pg.half => tn[h] = sn[h] /\ q.last[h] = pg.last[h]
  BY <1>3, <1>4 DEF Halves
<1> HIDE DEF tn
<1>6. \A h \in Half : AtMost(tn[h], k[h]) /\ (pg.src[h] # "summary" => q.last[h] = tn[h])
  BY <1>5 DEF Archive
<1>7. \A h \in Half : pg.half < h \/ h < pg.half => h # pg.half
  BY <1>4
<1>8. Archive(q, tn, S, k)
  BY <1>3, <1>5, <1>6, <1>7 DEF Archive
<1>9. q.board.reason = "round_end"
  BY <1>3, ToldIs
<1> QED
  BY <1>3, <1>8, <1>9 DEF q, tn

\* The end of a match: the archive and the last summary have it all.
LEMMA FinalSums ==
    ASSUME NEW k \in [Half -> [Player -> Nat]], NEW S \in SUBSET Player, NEW sn \in Halves,
           NEW pg \in FineP, pg.half # 1, Archive(pg, sn, S, k), Held(pg, k),
           \A h \in Half : pg.half < h => k[h] = NoKills,
           NEW r \in Rows, Exact(r, S, k[pg.half])
    PROVE  Sums(on_summary(pg, "match_end", r).board, sn, S, pg.half, k)
<1> DEFINE rest == Beside(r, pg.last[pg.half])
           sum == Sum(carrySoFar(pg), rest)
<1>1. "match_end" \in Reason
  BY DEF Reason
<1>2. on_summary(pg, "match_end", r).board = Told("match_end", sum)
  <2> DEFINE q == on_summary(pg, "match_end", r)
  <2>1. Summarised(q, pg, "match_end", r)
    BY <1>1, SummaryIs
  <2> HIDE DEF q
  <2>2. q.board = Told("match_end", sum)
    BY <2>1 DEF Summarised
  <2> QED
    BY <2>2 DEF q
<1>3. /\ pg.half \in {2, 101} /\ 1 \in Half /\ 2 \in Half /\ 101 \in Half
      /\ \A h \in Half : /\ pg.rows[h] \in Rows /\ pg.last[h] \in Rows /\ sn[h] \in Rows
                         /\ k[h] \in [Player -> Nat] /\ h \in Nat
  BY DEF FineP, Page, Halves, Half
<1>4. rest \in Rows /\ \A p : p \in DOMAIN r => Of(rest, p) = Of(r, p)
  <2>1. pg.last[pg.half] \in Rows
    BY <1>3
  <2>2. DOMAIN rest = DOMAIN r \cup DOMAIN pg.last[pg.half] /\ \A p \in DOMAIN r : rest[p] = r[p]
    BY DEF Beside
  <2> QED
    BY <2>1, <2>2, BesideType DEF Of
<1>5. carrySoFar(pg) \in Rows
  BY CarriedType
<1> HIDE DEF rest
<1>6. ASSUME NEW p \in S
      PROVE  /\ Of(sn[1], p) + Of(sn[2], p) + Of(sn[101], p) <= Of(sum, p)
             /\ pg.half = 2 /\ Of(sn[1], p) = k[1][p]
                  => k[1][p] + k[2][p] + k[101][p] <= Of(sum, p)
  <2>1. Of(sum, p) = Of(pg.rows[1], p) + Of(pg.rows[2], p) + Of(pg.rows[101], p) + Of(rest, p)
    <3>1. Of(sum, p) = Of(carrySoFar(pg), p) + Of(rest, p)
      BY <1>4, <1>5 DEF Sum, Of
    <3>2. Of(carrySoFar(pg), p) = Of(pg.rows[1], p) + Of(pg.rows[2], p) + Of(pg.rows[101], p)
      BY <1>3 DEF carrySoFar, Sum, Of
    <3> QED
      BY <3>1, <3>2
  <2>2. /\ \A h \in Half : /\ Of(pg.rows[h], p) \in Nat /\ Of(sn[h], p) \in Nat
                           /\ k[h][p] \in Nat /\ Of(sn[h], p) <= k[h][p]
        /\ Of(rest, p) \in Nat
    BY <1>3, <1>4, OfType, AtMostRows DEF Archive
  <2>3. k[pg.half][p] <= Of(rest, p)
    <3>1. Of(r, p) = k[pg.half][p]
      BY <1>6 DEF Exact
    <3>2. p \notin DOMAIN r => Of(r, p) = 0
      BY DEF Of
    <3> QED
      BY <1>3, <1>4, <2>2, <3>1, <3>2
  <2>4. \A h \in Half : h < pg.half => Of(sn[h], p) <= Of(pg.rows[h], p)
    <3> SUFFICES ASSUME NEW h \in Half, h < pg.half PROVE Of(sn[h], p) <= Of(pg.rows[h], p)
      OBVIOUS
    <3>1. CASE pg.src[h] = "summary"
      <4>1. h = 1 /\ Of(pg.rows[h], p) = k[h][p]
        BY <1>6, <3>1 DEF Archive, Exact
      <4> QED
        BY <2>2, <4>1
    <3>2. CASE pg.src[h] # "summary"
      BY <3>2 DEF Archive, Covers
    <3> QED
      BY <3>1, <3>2
  <2>5. \A h \in Half : pg.half < h => Of(sn[h], p) = 0 /\ k[h][p] = 0
    BY DEF Archive, NoKills, Of, NoRows
  <2>6. CASE pg.half = 2
    <3>1. Of(sn[1], p) <= Of(pg.rows[1], p) /\ Of(sn[101], p) = 0 /\ k[101][p] = 0
      BY <1>3, <2>4, <2>5, <2>6
    <3> QED
      BY <1>3, <2>1, <2>2, <2>3, <2>6, <3>1
  <2>7. CASE pg.half = 101
    <3>1. Of(sn[1], p) <= Of(pg.rows[1], p) /\ Of(sn[2], p) <= Of(pg.rows[2], p)
      BY <1>3, <2>4, <2>7
    <3> QED
      BY <1>3, <2>1, <2>2, <2>3, <2>7, <3>1
  <2> QED
    BY <1>3, <2>6, <2>7
<1> HIDE DEF sum
<1> QED
  BY <1>2, <1>6, ToldIs DEF Sums

-----------------------------------------------------------------------------
(* What the steps of the plugin keep of it.                                *)

\* Within a half, and at its end, page and cache keep what they have.
LEMMA SeenOnwards ==
    ASSUME CountInv, SeenInv, TypeInv', Quiet,
           page' = page, cache' = cache, seen' = seen, match' = match, half' = half,
           steady' \subseteq steady, stage' = "play" => stage = "play",
           \/ kills' = kills
           \/ stage = "play" /\ More(kills, kills') /\ \A h \in Half : h # half => kills'[h] = kills[h]
    PROVE  /\ Archived' /\ Agree' /\ ToCome'
           /\ cache.summary # Null => Exact(cache.summary, steady', kills'[1])
<1>1. /\ half # 0 => Begun
      /\ stage = "idle" => half # 1
      /\ kills \in [Half -> [Player -> Nat]] /\ kills' \in [Half -> [Player -> Nat]]
      /\ page \in FineP /\ seen \in Halves /\ stage \in {"idle", "play", "break"}
      /\ 1 \in Half /\ \A h \in Half : h \in Nat
  <2>1. 1 \in Half /\ \A h \in Half : h \in Nat
    BY DEF Half
  <2>2. half # 0 => Begun
    BY QuietBegun
  <2> QED
    BY <2>1, <2>2 DEF CountInv, Course, TypeInv, FineP
<1>2. StalePage' <=> StalePage
  BY <1>1, HalfOfMatch DEF StalePage, Stale, Begun, CountInv, Course
<1>3. Agree'
  BY <1>1 DEF SeenInv, Agree
<1>4. CASE kills' = kills
  <2>1. Archived'
    BY <1>2, <1>4, FewerArchive DEF SeenInv, Archived
  <2>2. cache.summary # Null => Exact(cache.summary, steady', kills'[1])
    BY <1>4 DEF SeenInv, SummariesExact, Exact
  <2> QED
    BY <1>3, <1>4, <2>1, <2>2 DEF SeenInv, ToCome
<1>5. CASE stage = "play" /\ More(kills, kills') /\ \A h \in Half : h # half => kills'[h] = kills[h]
  <2>1. ~ StalePage => Archive(page, seen, steady', kills')
    <3> SUFFICES ASSUME ~ StalePage PROVE Archive(page, seen, steady', kills')
      OBVIOUS
    <3>1. Archive(page, seen, steady', kills)
      BY FewerArchive DEF SeenInv, Archived
    <3>2. page.src[1] = "summary" => half # 1
      BY <1>5, HalfOfMatch DEF SeenInv, Agree, StalePage, Stale
    <3>3. ASSUME NEW h \in Half PROVE AtMost(seen[h], kills'[h])
      <4>1. seen[h] \in Rows /\ AtMost(seen[h], kills[h])
        BY <1>1, <3>1 DEF Halves, Archive
      <4>2. kills[h] \in [Player -> Nat] /\ kills'[h] \in [Player -> Nat]
            /\ \A p \in Player : kills[h][p] <= kills'[h][p]
        BY <1>1, <1>5 DEF More
      <4> QED
        BY <4>1, <4>2, AtMostMore
    <3>4. page.src[1] = "summary" => Exact(page.rows[1], steady', kills'[1])
      BY <1>1, <1>5, <3>1, <3>2 DEF Archive
    <3> QED
      BY <3>1, <3>3, <3>4 DEF Archive
  <2>2. ~ StalePage => Sums(page.board, seen, steady', half, kills')
    BY <1>5 DEF CountInv, PageFits, Final, Sums
  <2>3. cache.summary # Null => Exact(cache.summary, steady', kills'[1])
    <3>1. cache.summary # Null => half # 1
      BY <1>5 DEF CountInv, CacheFits, Kept
    <3> QED
      BY <1>1, <1>5, <3>1 DEF SeenInv, SummariesExact, Exact
  <2>4. ToCome'
    <3>1. \A h \in Half : half < h => h # half
      BY <1>1
    <3> QED
      BY <1>5, <3>1 DEF SeenInv, ToCome
  <2>5. Archived'
    BY <1>2, <2>1, <2>2 DEF SeenInv, Archived
  <2> QED
    BY <1>3, <2>3, <2>4, <2>5
<1> QED
  BY <1>4, <1>5

\* No summary goes out.
LEMMA NoSummary ==
    ASSUME \A i \in DOMAIN wire' : wire'[i].kind # "summary",
           cache'.summary # Null => Exact(cache'.summary, steady', kills'[1])
    PROVE  SummariesExact'
BY DEF SummariesExact, Halftime

\* A summary goes out.
LEMMA OneSummary ==
    ASSUME cache'.summary # Null => Exact(cache'.summary, steady', kills'[1]),
           NEW n \in DOMAIN wire', \A i \in DOMAIN wire' : wire'[i].kind = "summary" => i = n,
           Exact(wire'[n].rows, steady', kills'[half']),
           wire'[n].reason = "half_end" => page'.src[1] # "summary" /\ cache'.summary = Null
    PROVE  SummariesExact'
BY DEF SummariesExact, Halftime

LEMMA StatRowsAre == \A p : Of(StatRows, p) = Row(p)
<1> SUFFICES ASSUME NEW p PROVE Of(StatRows, p) = Row(p)
  OBVIOUS
<1>1. /\ DOMAIN StatRows = on \cup DOMAIN gone
      /\ \A q \in on \cup DOMAIN gone : StatRows[q] = IF q \in on THEN live[q] ELSE gone[q]
  BY DEF StatRows
<1> QED
  BY <1>1 DEF Of, Row

LEMMA SeenKill ==
    ASSUME CountInv, SeenInv, TypeInv', NEW p \in Player, Kill(p) PROVE SeenInv'
<1>1. /\ Quiet /\ stage = "play" /\ stage' = stage /\ half' = half /\ match' = match
      /\ page' = page /\ cache' = cache /\ gone' = gone /\ on' = on /\ p \in on
      /\ seen' = seen /\ steady' = steady
      /\ live' = [live EXCEPT ![p] = @ + 1] /\ kills' = [kills EXCEPT ![half][p] = @ + 1]
      /\ wire' = <<score([q \in {p} |-> live'[p]])>>
  BY DEF Kill, Elsewhere, viewer
<1>2. half \in Half
  BY <1>1, HalfOfMatch
<1>3. /\ live \in [Player -> Nat] /\ kills \in [Half -> [Player -> Nat]]
      /\ kills[half] \in [Player -> Nat] /\ steady \subseteq Player
  BY <1>2 DEF CountInv, TypeInv
<1>4. /\ kills'[half] = [kills[half] EXCEPT ![p] = @ + 1]
      /\ \A h \in Half : h # half => kills'[h] = kills[h]
  BY <1>1, <1>2, <1>3
<1>5. More(kills, kills')
  <2>1. ASSUME NEW h \in Half, NEW q \in Player PROVE kills[h][q] <= kills'[h][q]
    <3>1. kills[h][q] \in Nat /\ kills[half][q] \in Nat
      BY <1>2, <1>3
    <3>2. kills'[h][q] = kills[h][q] \/ kills'[h][q] = kills[h][q] + 1
      BY <1>3, <1>4
    <3> QED
      BY <3>1, <3>2
  <2> QED
    BY <2>1 DEF More
<1>6. /\ Archived' /\ Agree' /\ ToCome'
      /\ cache.summary # Null => Exact(cache.summary, steady', kills'[1])
  BY <1>1, <1>4, <1>5, SeenOnwards
<1>7. SummariesExact'
  <2>1. \A i \in DOMAIN wire' : wire'[i].kind # "summary"
    BY <1>1 DEF score
  <2> QED
    BY <1>1, <1>6, <2>1, NoSummary
<1>8. SteadyRows'
  <2>1. ASSUME NEW q \in steady PROVE Row(q)' = kills'[half][q]
    <3>1. Row(q) = kills[half][q]
      BY <1>1, <2>1 DEF SeenInv, SteadyRows
    <3>2. CASE q = p
      <4>1. Row(q) = live[p] /\ Row(q)' = live'[p]
        BY <1>1, <3>2 DEF Row
      <4> QED
        BY <1>1, <1>3, <1>4, <3>1, <3>2, <4>1
    <3>3. CASE q # p
      <4>1. Row(q)' = Row(q)
        BY <1>1, <1>3, <2>1, <3>3 DEF Row
      <4> QED
        BY <1>3, <1>4, <2>1, <3>1, <3>3, <4>1
    <3> QED
      BY <3>2, <3>3
  <2> QED
    BY <1>1, <2>1 DEF SteadyRows
<1> QED
  BY <1>6, <1>7, <1>8 DEF SeenInv

LEMMA SeenLeave ==
    ASSUME CountInv, SeenInv, TypeInv', NEW p \in Player, Leave(p) PROVE SeenInv'
<1>1. /\ Quiet /\ p \in on /\ on' = on \ {p} /\ stage' = stage /\ half' = half /\ match' = match
      /\ page' = page /\ cache' = cache /\ kills' = kills /\ seen' = seen
      /\ gone' = IF stage = "idle" THEN gone ELSE Beside([q \in {p} |-> live[p]], gone)
      /\ live' = [live EXCEPT ![p] = 0]
      /\ steady' = IF stage = "break" /\ half # 1 /\ Of(gone, p) > live[p]
                   THEN steady \ {p} ELSE steady
      /\ wire' = <<left(p)>>
  BY DEF Leave, Elsewhere, viewer
<1>2. steady' \subseteq steady /\ steady \subseteq Player /\ live \in [Player -> Nat]
      /\ kills \in [Half -> [Player -> Nat]] /\ gone \in Rows
  BY <1>1 DEF CountInv, TypeInv
<1>3. /\ Archived' /\ Agree' /\ ToCome'
      /\ cache.summary # Null => Exact(cache.summary, steady', kills'[1])
  BY <1>1, <1>2, SeenOnwards
<1>4. SummariesExact'
  <2>1. \A i \in DOMAIN wire' : wire'[i].kind # "summary"
    BY <1>1 DEF left
  <2> QED
    BY <1>1, <1>3, <2>1, NoSummary
<1>5. ASSUME stage # "idle"
      PROVE  Of(gone', p) = live[p] /\ \A q : q # p => Of(gone', q) = Of(gone, q)
  <2>1. gone' = Beside([q \in {p} |-> live[p]], gone)
    BY <1>1, <1>5
  <2> QED
    BY <2>1 DEF Beside, Of
<1>6. SteadyRows'
  <2>1. ASSUME stage = "play", NEW q \in steady' PROVE Row(q)' = kills[half][q]
    <3>1. Row(q) = kills[half][q]
      BY <1>2, <2>1 DEF SeenInv, SteadyRows
    <3>2. Row(q)' = Row(q)
      BY <1>1, <1>2, <1>5, <2>1 DEF Row
    <3> QED
      BY <3>1, <3>2
  <2>2. ASSUME stage = "break", half # 1, NEW q \in steady'
        PROVE  Of(gone', q) = kills[half][q] \/ (q \in on' /\ live'[q] = kills[half][q])
    <3>1. Of(gone, q) = kills[half][q] \/ (q \in on /\ live[q] = kills[half][q])
      BY <1>2, <2>2 DEF SeenInv, SteadyRows
    <3>2. CASE q # p
      BY <1>1, <1>2, <1>5, <2>2, <3>1, <3>2
    <3>3. CASE q = p
      <4>1. ~ (Of(gone, p) > live[p])
        BY <1>1, <2>2, <3>3
      <4>2. half \in Half /\ live[p] <= kills[half][p]
        BY <1>2, <2>2, HalfOfMatch DEF CountInv, Counts, AtMost
      <4>3. Of(gone, p) \in Nat /\ live[p] \in Nat /\ kills[half][p] \in Nat
        BY <1>2, <4>2, OfType
      <4>4. live[p] = kills[half][p]
        BY <3>1, <3>3, <4>1, <4>2, <4>3
      <4> QED
        BY <1>5, <2>2, <3>3, <4>4
    <3> QED
      BY <3>2, <3>3
  <2> QED
    BY <1>1, <2>1, <2>2 DEF SteadyRows
<1> QED
  BY <1>3, <1>4, <1>6 DEF SeenInv

LEMMA SeenJoin ==
    ASSUME CountInv, SeenInv, TypeInv', NEW p \in Player, Join(p) PROVE SeenInv'
<1>1. /\ Quiet /\ p \notin on /\ on' = on \cup {p} /\ stage' = stage /\ half' = half
      /\ match' = match /\ page' = page /\ cache' = cache /\ kills' = kills /\ seen' = seen
      /\ gone' = gone /\ live' = live
      /\ steady' = IF stage = "play" /\ Of(gone, p) > 0 THEN steady \ {p} ELSE steady
      /\ wire' = <<roster({p})>>
  BY DEF Join, Elsewhere, viewer
<1>2. steady' \subseteq steady /\ steady \subseteq Player /\ live \in [Player -> Nat]
      /\ kills \in [Half -> [Player -> Nat]] /\ gone \in Rows
  BY <1>1 DEF CountInv, TypeInv
<1>3. /\ Archived' /\ Agree' /\ ToCome'
      /\ cache.summary # Null => Exact(cache.summary, steady', kills'[1])
  BY <1>1, <1>2, SeenOnwards
<1>4. SummariesExact'
  <2>1. \A i \in DOMAIN wire' : wire'[i].kind # "summary"
    BY <1>1 DEF roster
  <2> QED
    BY <1>1, <1>3, <2>1, NoSummary
<1>5. SteadyRows'
  <2>1. ASSUME stage = "play", NEW q \in steady' PROVE Row(q)' = kills[half][q]
    <3>1. Row(q) = kills[half][q]
      BY <1>2, <2>1 DEF SeenInv, SteadyRows
    <3>2. CASE q # p
      BY <1>1, <3>1, <3>2 DEF Row
    <3>3. CASE q = p
      <4>1. ~ (Of(gone, p) > 0) /\ Row(p) = Of(gone, p) /\ Row(p)' = live[p]
        BY <1>1, <2>1, <3>3 DEF Row
      <4>2. half \in Half /\ live[p] <= kills[half][p]
        BY <1>2, <2>1, HalfOfMatch DEF CountInv, Counts, AtMost
      <4>3. Of(gone, p) \in Nat /\ live[p] \in Nat /\ kills[half][p] \in Nat
        BY <1>2, <4>2, OfType
      <4> QED
        BY <3>1, <3>3, <4>1, <4>2, <4>3
    <3> QED
      BY <3>2, <3>3
  <2>2. ASSUME stage = "break", half # 1, NEW q \in steady'
        PROVE  Of(gone, q) = kills[half][q] \/ (q \in on' /\ live[q] = kills[half][q])
    BY <1>1, <1>2, <2>2 DEF SeenInv, SteadyRows
  <2> QED
    BY <1>1, <2>1, <2>2 DEF SteadyRows
<1> QED
  BY <1>3, <1>4, <1>5 DEF SeenInv

\* A summary in play says all that the steady did.
LEMMA StatRowsExact ==
    ASSUME SeenInv, stage = "play" PROVE Exact(StatRows, steady, kills[half])
BY StatRowsAre DEF SeenInv, SteadyRows, Exact

LEMMA SeenCapout ==
    ASSUME CountInv, SeenInv, TypeInv', Capout PROVE SeenInv'
<1>1. /\ Quiet /\ stage = "play" /\ stage' = stage /\ half' = half /\ match' = match
      /\ page' = page /\ cache' = cache /\ kills' = kills /\ seen' = seen
      /\ on' = on /\ gone' = gone /\ live' = live /\ steady' = steady
      /\ wire' = <<summary("round_end", StatRows)>>
  BY DEF Capout, Elsewhere, viewer, plugin
<1>2. /\ Archived' /\ Agree' /\ ToCome'
      /\ cache.summary # Null => Exact(cache.summary, steady', kills'[1])
  BY <1>1, SeenOnwards
<1>3. SteadyRows'
  BY <1>1 DEF SeenInv, SteadyRows, Row
<1>4. SummariesExact'
  <2>1. /\ 1 \in DOMAIN wire' /\ wire'[1].rows = StatRows /\ wire'[1].reason # "half_end"
        /\ \A i \in DOMAIN wire' : i = 1
    BY <1>1 DEF summary
  <2>2. Exact(wire'[1].rows, steady', kills'[half'])
    BY <1>1, <2>1, StatRowsExact
  <2> QED
    BY <1>1, <1>2, <2>1, <2>2, OneSummary
<1> QED
  BY <1>2, <1>3, <1>4 DEF SeenInv

LEMMA SeenHalfEnd ==
    ASSUME CountInv, SeenInv, TypeInv', ktp_half_end PROVE SeenInv'
<1>1. /\ Quiet /\ stage = "play" /\ half = 1 /\ stage' = "break" /\ half' = half
      /\ match' = match /\ page' = page /\ cache' = cache /\ kills' = kills /\ seen' = seen
      /\ on' = on /\ gone' = gone /\ live' = live /\ steady' = steady
      /\ wire' = <<half_end, summary("half_end", StatRows)>>
  BY DEF ktp_half_end, Elsewhere, viewer
<1>2. /\ Archived' /\ Agree' /\ ToCome'
      /\ cache.summary # Null => Exact(cache.summary, steady', kills'[1])
  BY <1>1, SeenOnwards
<1>3. SteadyRows'
  BY <1>1 DEF SteadyRows
<1>4. page.handled = 1
  <2>1. Begun /\ (linked \/ ~ StalePage)
    BY <1>1, QuietBegun, HalfOfMatch
  <2> QED
    BY <1>1, <2>1 DEF Begun, StalePage, Stale
<1>5. page.src[1] # "summary" /\ cache.summary = Null
  <2>1. page.src[1] # "summary"
    BY <1>1, <1>4 DEF SeenInv, Agree
  <2>2. cache.summary = Null
    BY <1>1 DEF CountInv, CacheFits, Kept
  <2> QED
    BY <2>1, <2>2
<1>6. SummariesExact'
  <2>1. /\ 2 \in DOMAIN wire' /\ wire'[2].rows = StatRows
        /\ \A i \in DOMAIN wire' : i = 2 \/ (i = 1 /\ wire'[i] = half_end)
    BY <1>1 DEF summary
  <2>2. \A i \in DOMAIN wire' : wire'[i].kind = "summary" => i = 2
    BY <2>1 DEF half_end
  <2>3. Exact(wire'[2].rows, steady', kills'[half'])
    BY <1>1, <2>1, StatRowsExact
  <2> QED
    BY <1>1, <1>2, <1>5, <2>1, <2>2, <2>3, OneSummary
<1> QED
  BY <1>2, <1>3, <1>6 DEF SeenInv

LEMMA SeenTie ==
    ASSUME CountInv, SeenInv, TypeInv', Tie PROVE SeenInv'
<1>1. /\ Quiet /\ stage = "play" /\ half = 2 /\ stage' = "break" /\ half' = half
      /\ match' = match /\ page' = page /\ cache' = cache /\ kills' = kills /\ seen' = seen
      /\ on' = on /\ gone' = gone /\ live' = live /\ steady' = steady /\ wire' = <<>>
  BY DEF Tie, Elsewhere, viewer, Quiet
<1>2. /\ Archived' /\ Agree' /\ ToCome'
      /\ cache.summary # Null => Exact(cache.summary, steady', kills'[1])
  BY <1>1, SeenOnwards
<1>3. SteadyRows'
  <2>1. \A p \in steady : Row(p) = kills[half][p]
    BY <1>1 DEF SeenInv, SteadyRows
  <2> QED
    BY <1>1, <2>1 DEF SteadyRows, Row
<1>4. SummariesExact'
  <2>1. \A i \in DOMAIN wire' : wire'[i].kind # "summary"
    BY <1>1
  <2> QED
    BY <1>1, <1>2, <2>1, NoSummary
<1> QED
  BY <1>2, <1>3, <1>4 DEF SeenInv

LEMMA SeenMatchEnd ==
    ASSUME CountInv, SeenInv, TypeInv', ~ Forfeits, ktp_match_end PROVE SeenInv'
<1>1. /\ Quiet /\ stage \in {"play", "break"} /\ half # 1 /\ stage' = "idle" /\ half' = half
      /\ match' = match /\ page' = page /\ cache' = cache /\ kills' = kills /\ seen' = seen
      /\ on' = on /\ gone' = gone /\ live' = live
      /\ steady' = {p \in steady : p \in on => Of(gone, p) <= live[p]}
      /\ wire' = <<summary("match_end", StatRows), match_end>>
  BY DEF ktp_match_end, Elsewhere, viewer
<1>2. /\ Archived' /\ Agree' /\ ToCome'
      /\ cache.summary # Null => Exact(cache.summary, steady', kills'[1])
  BY <1>1, SeenOnwards
<1>3. SteadyRows'
  BY <1>1 DEF SteadyRows
<1>4. ASSUME NEW p \in steady' PROVE Row(p) = kills[half][p]
  <2>1. p \in steady /\ (p \in on => Of(gone, p) <= live[p])
    BY <1>1, <1>4
  <2>2. CASE stage = "play"
    BY <2>1, <2>2 DEF SeenInv, SteadyRows
  <2>3. CASE stage = "break"
    <3>1. Of(gone, p) = kills[half][p] \/ (p \in on /\ live[p] = kills[half][p])
      BY <1>1, <2>1, <2>3 DEF SeenInv, SteadyRows
    <3>2. CASE p \in on
      <4>1. p \in Player /\ half \in Half /\ live[p] <= kills[half][p]
        BY <2>1, <2>3, HalfOfMatch DEF CountInv, TypeInv, Counts, AtMost
      <4>2. Of(gone, p) \in Nat /\ live[p] \in Nat /\ kills[half][p] \in Nat
        BY <4>1, OfType DEF CountInv, TypeInv
      <4> QED
        BY <2>1, <3>1, <3>2, <4>1, <4>2 DEF Row
    <3>3. CASE p \notin on
      BY <3>1, <3>3 DEF Row
    <3> QED
      BY <3>2, <3>3
  <2> QED
    BY <1>1, <2>2, <2>3
<1>5. SummariesExact'
  <2>1. /\ 1 \in DOMAIN wire' /\ wire'[1].rows = StatRows /\ wire'[1].reason # "half_end"
        /\ \A i \in DOMAIN wire' : i = 1 \/ (i = 2 /\ wire'[i] = match_end)
    BY <1>1 DEF summary
  <2>2. \A i \in DOMAIN wire' : wire'[i].kind = "summary" => i = 1
    BY <2>1 DEF match_end
  <2>3. Exact(wire'[1].rows, steady', kills'[half'])
    BY <1>1, <1>4, <2>1, StatRowsAre DEF Exact
  <2> QED
    BY <1>1, <1>2, <2>1, <2>2, <2>3, OneSummary
<1> QED
  BY <1>2, <1>3, <1>5 DEF SeenInv

\* A new half: nothing was done in it yet, and nothing is seen of a new match.
LEMMA SeenMatchStart ==
    ASSUME CountInv, SeenInv, TypeInv', NEW h \in Half, MatchStart(h) PROVE SeenInv'
<1>1. /\ Quiet /\ stage' = "play" /\ half' = h /\ live' = NoKills /\ gone' = NoRows
      /\ wire' = <<match_start(h), half_start(h), roster(on)>>
      /\ page' = page /\ cache' = cache /\ on' = on
      /\ seen' = IF h = 1 THEN NoHalves ELSE seen
      /\ \/ /\ stage = "idle" /\ h = 1 /\ match' = match + 1 /\ linked
            /\ kills' = [x \in Half |-> NoKills]
         \/ /\ stage = "break" /\ h = NextHalf[half] /\ match' = match
            /\ kills' = kills /\ steady' = steady
  BY DEF MatchStart
<1>2. \A i \in DOMAIN wire' : wire'[i].kind # "summary"
  BY <1>1 DEF match_start, half_start, roster
<1>3. kills'[h] = NoKills => SteadyRows'
  <2>1. \A p \in steady' : p \in Player
    BY DEF TypeInv
  <2> SUFFICES ASSUME kills'[h] = NoKills, NEW p \in steady' PROVE Row(p)' = kills'[h][p]
    BY <1>1 DEF SteadyRows
  <2> QED
    BY <1>1, <2>1 DEF Row, Of, NoRows, NoKills
<1>4. CASE stage = "idle" /\ h = 1
  <2>1. kills' = [x \in Half |-> NoKills] /\ match' = match + 1 /\ linked
    BY <1>1, <1>4
  <2>2. cache.half # 1 /\ page.handled # 1
    <3>1. CASE match = 0
      BY <3>1 DEF CountInv, Course
    <3>2. CASE match # 0
      <4>1. half # 0 /\ half # 1
        BY <1>4, <3>2 DEF CountInv, Course
      <4>2. Begun
        BY <1>1, <4>1, QuietBegun
      <4> QED
        BY <2>1, <4>1, <4>2 DEF Begun
    <3> QED
      BY <3>1, <3>2
  <2>3. cache.summary = Null
    BY <2>2 DEF CountInv, CacheFits
  <2>4. SummariesExact'
    BY <1>1, <1>2, <2>3, NoSummary
  <2>5. StalePage'
    BY <1>1, <1>4, <2>2 DEF StalePage, Stale
  <2>6. Archived' /\ Agree'
    BY <1>1, <1>4, <2>2, <2>5 DEF Archived, Agree
  <2>7. ToCome' /\ SteadyRows'
    BY <1>3, <2>1 DEF ToCome
  <2> QED
    BY <2>4, <2>6, <2>7 DEF SeenInv
<1>5. CASE stage = "break" /\ h = NextHalf[half] /\ match' = match /\ kills' = kills /\ steady' = steady
  <2>1. half \in {1, 2} /\ match # 0 /\ h # 1 /\ half < h /\ half \in Nat /\ h \in Nat
    <3>1. half \in {1, 2}
      BY <1>5 DEF CountInv, Course
    <3>2. match # 0
      BY <1>5, HalfOfMatch
    <3> QED
      BY <1>5, <3>1, <3>2, HalfFacts
  <2>2. ~ StalePage /\ ~ StalePage'
    BY <1>1, <1>5, <2>1 DEF StalePage, Stale
  <2>3. ~ (page.board # Null /\ page.board.reason = "match_end")
    BY <1>5, <2>2 DEF CountInv, PageFits, Final
  <2>4. Archived'
    BY <1>1, <1>5, <2>1, <2>2, <2>3 DEF SeenInv, Archived, Sums
  <2>5. Agree'
    BY <1>1, <2>1 DEF Agree
  <2>6. ToCome' /\ SteadyRows'
    <3>1. \A x \in Half : h < x => half < x
      BY <2>1, HalfFacts
    <3> QED
      BY <1>1, <1>3, <1>5, <2>1, <3>1 DEF SeenInv, ToCome
  <2>7. SummariesExact'
    <3>1. cache'.summary # Null => Exact(cache'.summary, steady', kills'[1])
      BY <1>1, <1>5 DEF SeenInv, SummariesExact
    <3> QED
      BY <1>2, <3>1, NoSummary
  <2> QED
    BY <2>4, <2>5, <2>6, <2>7 DEF SeenInv
<1> QED
  BY <1>1, <1>4, <1>5

-----------------------------------------------------------------------------
(* What the POSTs keep of it as they arrive.                               *)

\* What stays under way is exact, and no second summary of a first half.
LEMMA SummariesTaken ==
    ASSUME CountInv, SeenInv, NEW i \in DOMAIN wire, wire' = RemoveAt(wire, i),
           half' = half, kills' = kills, steady' = steady,
           \A j \in Halftime : j # i => page'.src[1] # "summary" /\ cache'.summary = Null,
           cache'.summary # Null => Exact(cache'.summary, steady, kills[1])
    PROVE  SummariesExact'
<1> DEFINE at(j) == IF j < i THEN j ELSE j + 1
<1>1. /\ DOMAIN wire' = 1 .. Len(wire) - 1 /\ DOMAIN wire = 1 .. Len(wire) /\ Len(wire) \in Nat
      /\ \A j \in 1 .. Len(wire) - 1 : wire'[j] = IF j < i THEN wire[j] ELSE wire[j + 1]
  BY RemoveFacts, LenProperties DEF CountInv, TypeInv
<1>2. \A j \in DOMAIN wire' : at(j) \in DOMAIN wire /\ at(j) # i /\ wire'[j] = wire[at(j)]
  BY <1>1
<1>3. \A j, x \in DOMAIN wire' : at(j) = at(x) => j = x
  BY <1>1
<1> HIDE DEF at
<1>4. \A j \in Halftime' : j \in DOMAIN wire' /\ at(j) \in Halftime /\ at(j) # i
  BY <1>2 DEF Halftime
<1>5. \A j, x \in Halftime' : j = x
  BY <1>3, <1>4 DEF SeenInv, SummariesExact
<1>6. \A j \in Halftime' : page'.src[1] # "summary" /\ cache'.summary = Null
  BY <1>4
<1>7. \A j \in DOMAIN wire' : wire'[j].kind = "summary" => Exact(wire'[j].rows, steady', kills'[half'])
  BY <1>2 DEF SeenInv, SummariesExact
<1> QED
  BY <1>5, <1>6, <1>7 DEF SummariesExact

\* The end of a first half is told of at halftime alone.
LEMMA HalftimeIs ==
    ASSUME CountInv, NEW j \in Halftime PROVE stage = "break" /\ half = 1
BY DEF CountInv, Underway, Fits, Halftime

LEMMA PluginSame ==
    ASSUME SeenInv, UNCHANGED plugin PROVE SteadyRows' /\ ToCome'
BY DEF SeenInv, SteadyRows, ToCome, plugin, Row

\* A message that leaves the boards and the archive as they are.
LEMMA SeenOther ==
    ASSUME CountInv, SeenInv, NEW i \in DOMAIN wire, wire' = RemoveAt(wire, i),
           UNCHANGED plugin, seen' = seen,
           Same(page', page), page'.half = page.half, page'.handled = page.handled,
           cache'.summary = cache.summary \/ (cache'.summary = Null /\ stage = "idle")
    PROVE  SeenInv'
<1>1. /\ match' = match /\ stage' = stage /\ half' = half /\ kills' = kills /\ steady' = steady
  BY DEF plugin
<1>2. SteadyRows' /\ ToCome'
  BY PluginSame
<1>3. /\ page'.src = page.src /\ page'.rows = page.rows /\ page'.board = page.board
  BY DEF Same
<1>4. Archived'
  <2>1. StalePage' <=> StalePage
    BY <1>1 DEF StalePage, Stale
  <2> QED
    BY <1>1, <1>3, <2>1, SameArchive DEF SeenInv, Archived
<1>5. Agree'
  BY <1>1, <1>3 DEF SeenInv, Agree
<1>6. SummariesExact'
  <2>1. \A j \in Halftime : page'.src[1] # "summary" /\ cache'.summary = Null
    BY <1>3 DEF SeenInv, SummariesExact
  <2>2. cache'.summary # Null => Exact(cache'.summary, steady, kills[1])
    BY DEF SeenInv, SummariesExact
  <2> QED
    BY <1>1, <2>1, <2>2, SummariesTaken
<1> QED
  BY <1>2, <1>4, <1>5, <1>6 DEF SeenInv

LEMMA SeenStore ==
    ASSUME CountInv, SeenInv, NEW i \in DOMAIN wire, NEW recent \in BOOLEAN,
           Deliver(i, recent), wire[i].kind \in {"roster", "score", "left", "match_end"}
    PROVE  SeenInv'
<1>1. /\ wire' = RemoveAt(wire, i) /\ UNCHANGED plugin /\ seen' = seen
      /\ cache' = updateServerState(cache, wire[i])
      /\ page' = page \/ page' = Reduce(page, wire[i], recent)
  BY DEF Deliver
<1>2. /\ Same(page', page) /\ page'.half = page.half /\ page'.handled = page.handled
  <2>1. page \in Page
    BY DEF CountInv, TypeInv
  <2>2. Reduce(page, wire[i], recent) = page
        \/ \E r : Reduce(page, wire[i], recent) = [page EXCEPT !.store = r]
    BY DEF Reduce
  <2> QED
    BY <1>1, <2>1, <2>2 DEF Page, Same
<1>3. cache'.summary = cache.summary \/ (cache'.summary = Null /\ stage = "idle")
  <2>1. cache \in Cache
    BY DEF CountInv, TypeInv
  <2>2. CASE wire[i].kind = "match_end"
    <3>1. stage = "idle"
      BY <2>2 DEF CountInv, Underway, Fits
    <3> QED
      BY <1>1, <2>1, <2>2, <3>1 DEF updateServerState, Cleared, Cache
  <2>3. CASE wire[i].kind \in {"roster", "score", "left"}
    <3>1. \E r : cache' = [cache EXCEPT !.players = r]
      BY <1>1, <2>3 DEF updateServerState
    <3> QED
      BY <2>1, <3>1 DEF Cache
  <2> QED
    BY <2>2, <2>3
<1> QED
  BY <1>1, <1>2, <1>3, SeenOther

LEMMA SeenStart ==
    ASSUME CountInv, SeenInv, NEW i \in DOMAIN wire, NEW recent \in BOOLEAN,
           Deliver(i, recent), wire[i].kind \in Starts
    PROVE  SeenInv'
<1>1. /\ wire' = RemoveAt(wire, i) /\ UNCHANGED plugin /\ seen' = seen
      /\ match' = match /\ stage' = stage /\ half' = half /\ kills' = kills /\ steady' = steady
  BY DEF Deliver, plugin, Starts
<1>2. stage = "play" /\ wire[i].half = half /\ half # 0 /\ half \in Half /\ match # 0
  <2>1. Fits(wire[i], stage, half, kills)
    BY DEF CountInv, Underway
  <2> QED
    BY <2>1, HalfOfMatch DEF Fits
<1>3. /\ \/ cache' = [Cleared(cache) EXCEPT !.half = half]
         \/ cache' = HalfStarted(cache, half)
      /\ linked => page' = on_match_start(page, half) \/ page' = on_half_start(page, half)
      /\ ~ linked => page' = page
  BY <1>2 DEF Deliver, updateServerState, Reduce, Starts
<1>4. cache'.summary = Null
  BY <1>3 DEF CountInv, TypeInv, Cache, Cleared, HalfStarted
<1>5. SummariesExact'
  <2>1. Halftime = {}
    BY <1>2, HalftimeIs
  <2> QED
    BY <1>1, <1>4, <2>1, SummariesTaken
<1>6. SteadyRows' /\ ToCome'
  BY <1>1, PluginSame
<1>7. /\ kills \in [Half -> [Player -> Nat]] /\ page \in FineP /\ seen \in Halves
  BY DEF CountInv, TypeInv, FineP
<1>8. CASE linked /\ StalePage
  <2>1. half = 1 /\ page.handled # 1 /\ seen = NoHalves
    BY <1>2, <1>8 DEF SeenInv, Archived, StalePage, Stale
  <2>2. Afresh(page') /\ page'.half = 1 /\ page'.handled = 1
    BY <1>2, <1>3, <1>7, <1>8, <2>1, StartIs
  <2>3. Archive(page', NoHalves, steady, kills) /\ page'.src[1] = "none" /\ page'.board = Null
    BY <1>7, <2>2, AfreshArchive DEF Afresh
  <2>4. ~ StalePage'
    BY <1>1, <1>2, <2>2 DEF StalePage, Stale
  <2>5. Archived' /\ Agree'
    BY <1>1, <1>2, <2>1, <2>3, <2>4 DEF Archived, Agree, Sums
  <2> QED
    BY <1>5, <1>6, <2>5 DEF SeenInv
<1>9. CASE linked /\ ~ StalePage
  <2>1. /\ page.handled = page.half
        /\ page.handled = half \/ (half # 1 /\ page.half < half)
    <3>1. page.handled = page.half
      BY <1>9 DEF CountInv, PageFits
    <3>2. half = 1 => page.handled = 1
      BY <1>2, <1>9 DEF StalePage, Stale
    <3>3. Ready(page, half, stage, kills)
      BY <1>2, ReadyToStart
    <3> QED
      BY <3>1, <3>2, <3>3 DEF Ready
  <2>2. /\ Archive(page, seen, steady, kills) => Archive(page', seen, steady, kills)
        /\ page.handled = half => page'.src = page.src /\ page'.rows = page.rows
        /\ page'.board = Null \/ page'.board = page.board \/ page'.board.reason = "half_end"
        /\ page'.handled = half
    <3>1. page' = on_match_start(page, half) \/ page' = on_half_start(page, half)
      BY <1>3, <1>9
    <3>2. /\ Started(on_match_start(page, half), page, seen, steady, kills, half)
          /\ Started(on_half_start(page, half), page, seen, steady, kills, half)
      BY <1>2, <1>7, <2>1, StartArchive
    <3>3. Started(page', page, seen, steady, kills, half)
      BY <3>1, <3>2
    <3> QED
      BY <3>3 DEF Started
  <2>3. ~ StalePage'
    BY <1>1, <1>2, <2>2 DEF StalePage, Stale
  <2>4. Archived'
    BY <1>1, <1>9, <2>2, <2>3 DEF SeenInv, Archived, Sums
  <2>5. Agree'
    BY <1>1, <1>2, <2>1, <2>2 DEF SeenInv, Agree
  <2> QED
    BY <1>5, <1>6, <2>4, <2>5 DEF SeenInv
<1>10. CASE ~ linked
  <2>1. page' = page
    BY <1>3, <1>10
  <2>2. Archived' /\ Agree'
    BY <1>1, <1>2, <2>1 DEF SeenInv, Archived, Agree, StalePage, Stale
  <2> QED
    BY <1>5, <1>6, <2>2 DEF SeenInv
<1> QED
  BY <1>8, <1>9, <1>10

LEMMA SeenMarker ==
    ASSUME CountInv, SeenInv, NEW i \in DOMAIN wire, NEW recent \in BOOLEAN,
           Deliver(i, recent), wire[i].kind = "half_end"
    PROVE  SeenInv'
<1>1. /\ wire' = RemoveAt(wire, i) /\ UNCHANGED plugin /\ seen' = seen
      /\ match' = match /\ stage' = stage /\ half' = half /\ kills' = kills /\ steady' = steady
      /\ cache' = cache /\ page' = IF linked THEN on_half_end(page, recent) ELSE page
  BY DEF Deliver, plugin, updateServerState, Reduce
<1>2. wire[i].kind \in Late
  BY DEF Late
<1>3. stage = "break" /\ half = 1
  <2>1. Fits(wire[i], stage, half, kills)
    BY DEF CountInv, Underway
  <2> QED
    BY <2>1 DEF Fits
<1>4. ~ StalePage /\ (linked => page.half = 1) /\ page \in FineP
  BY <1>2, <1>3, LateFinds DEF CountInv, TypeInv, FineP
<1>5. Archive(page, seen, steady, kills) /\ Sums(page.board, seen, steady, half, kills)
  BY <1>4 DEF SeenInv, Archived
<1>6. /\ Archive(page', seen, steady, kills)
      /\ page'.src[1] = "summary" <=> page.src[1] = "summary"
      /\ page.src[1] = "summary" => page'.rows[1] = page.rows[1]
      /\ page'.board = page.board \/ page'.board.reason = "half_end"
      /\ page'.handled = page.handled
  <2>1. CASE linked
    <3>1. page' = on_half_end(page, recent) /\ page.half = 1
      BY <1>1, <1>4, <2>1
    <3> QED
      BY <1>4, <1>5, <3>1, MarkerArchive, HalfEndIs
  <2>2. CASE ~ linked
    BY <1>1, <1>5, <2>2
  <2> QED
    BY <2>1, <2>2
<1>7. Archived'
  <2>1. ~ StalePage'
    BY <1>1, <1>3, <1>4 DEF StalePage, Stale
  <2> QED
    BY <1>1, <1>5, <1>6, <2>1 DEF Archived, Sums
<1>8. Agree'
  BY <1>1, <1>3, <1>6 DEF SeenInv, Agree
<1>9. SummariesExact'
  <2>1. \A j \in Halftime : page'.src[1] # "summary" /\ cache'.summary = Null
    BY <1>1, <1>6 DEF SeenInv, SummariesExact
  <2>2. cache'.summary # Null => Exact(cache'.summary, steady, kills[1])
    BY <1>1 DEF SeenInv, SummariesExact
  <2> QED
    BY <1>1, <2>1, <2>2, SummariesTaken
<1>10. SteadyRows' /\ ToCome'
  BY <1>1, PluginSame
<1> QED
  BY <1>7, <1>8, <1>9, <1>10 DEF SeenInv

LEMMA SeenSummary ==
    ASSUME CountInv, SeenInv, NEW i \in DOMAIN wire, NEW recent \in BOOLEAN,
           Deliver(i, recent), wire[i].kind = "summary"
    PROVE  SeenInv'
<1> DEFINE r == wire[i].rows
           reason == wire[i].reason
<1>1. /\ wire' = RemoveAt(wire, i) /\ UNCHANGED plugin
      /\ match' = match /\ stage' = stage /\ half' = half /\ kills' = kills /\ steady' = steady
      /\ page' = IF linked THEN on_summary(page, reason, r) ELSE page
      /\ seen' = IF linked /\ reason \in Unfinished THEN [seen EXCEPT ![half] = r] ELSE seen
      /\ cache' = [cache EXCEPT !.players = Known(r, @),
                                !.summary = IF reason = "half_end" THEN r ELSE @]
  BY DEF Deliver, plugin, updateServerState, Reduce, Unfinished
<1>2. wire[i].kind \in Late
  BY DEF Late
<1>3. /\ r \in Rows /\ reason \in Reason /\ AtMost(r, kills[half])
      /\ reason = "half_end" => stage = "break" /\ half = 1
      /\ reason = "round_end" => stage = "play"
      /\ reason = "match_end" => stage = "idle"
  <2>1. wire[i] \in Message
    BY DEF CountInv, TypeInv
  <2>2. Fits(wire[i], stage, half, kills)
    BY DEF CountInv, Underway
  <2> QED
    BY <2>1, <2>2 DEF Message, Start, Summary, Fits
<1>4. Exact(r, steady, kills[half])
  BY DEF SeenInv, SummariesExact
<1>5. /\ kills \in [Half -> [Player -> Nat]] /\ page \in FineP /\ seen \in Halves
      /\ steady \in SUBSET Player
      /\ ~ StalePage /\ half \in Half /\ (linked => page.half = half /\ page.handled = half)
  BY <1>2, LateFinds DEF CountInv, TypeInv, FineP
<1>6. reason = "half_end" <=> i \in Halftime
  BY DEF Halftime
<1> HIDE DEF r, reason
<1>7. cache'.summary = IF reason = "half_end" THEN r ELSE cache.summary
  BY <1>1 DEF CountInv, TypeInv, Cache
<1>8. SteadyRows' /\ ToCome'
  BY <1>1, PluginSame
<1>9. /\ Archive(page, seen, steady, kills) /\ Sums(page.board, seen, steady, half, kills)
      /\ Held(page, kills)
  BY <1>5 DEF SeenInv, Archived, CountInv, PageFits
<1>10. StalePage' => page'.handled # page.handled
  BY <1>1, <1>5 DEF StalePage, Stale
<1>11. page'.handled = page.handled
  <2>1. CASE linked
    <3>1. Summarised(on_summary(page, reason, r), page, reason, r)
      BY <1>3, <1>5, SummaryIs
    <3> QED
      BY <1>1, <2>1, <3>1 DEF Summarised
  <2>2. CASE ~ linked
    BY <1>1, <2>2
  <2> QED
    BY <2>1, <2>2
<1>12. CASE reason = "half_end"
  <2>1. stage = "break" /\ half = 1
    BY <1>3, <1>12
  <2>2. page.src[1] # "summary" /\ cache.summary = Null /\ \A j \in Halftime : j = i
    BY <1>6, <1>12 DEF SeenInv, SummariesExact
  <2>3. r # Null
    BY <1>3, BoardAssumption, RowsAre
  <2>4. cache'.summary = r /\ SummariesExact'
    <3>1. cache'.summary = r
      BY <1>7, <1>12
    <3>2. Exact(r, steady, kills[1])
      BY <1>4, <2>1
    <3> QED
      BY <1>1, <2>2, <3>1, <3>2, SummariesTaken
  <2>5. ASSUME linked
        PROVE  /\ Archive(page', seen', steady, kills)
               /\ page'.rows[1] = r /\ page'.board = Told("half_end", r)
    <3>1. page' = on_summary(page, "half_end", r) /\ seen' = [seen EXCEPT ![1] = r]
      BY <1>1, <1>12, <2>1, <2>5 DEF Unfinished
    <3>2. page.half = 1 /\ Exact(r, steady, kills[1]) /\ AtMost(r, kills[1])
      BY <1>3, <1>4, <1>5, <2>1, <2>5
    <3>3. Summed(on_summary(page, "half_end", r), [seen EXCEPT ![1] = r], steady, kills, r)
      BY <1>3, <1>5, <1>9, <3>2, SummaryArchive
    <3> QED
      BY <3>1, <3>3 DEF Summed
  <2>6. Archived' /\ Agree'
    <3>1. CASE linked
      <4>1. page'.board.reason # "match_end"
        BY <2>5, <3>1, ToldIs
      <4> QED
        BY <1>1, <1>10, <1>11, <2>1, <2>3, <2>4, <2>5, <3>1, <4>1 DEF Archived, Agree, Sums
    <3>2. CASE ~ linked
      <4>1. page' = page /\ seen' = seen
        BY <1>1, <3>2
      <4> QED
        BY <1>1, <1>9, <1>10, <1>11, <2>1, <2>2, <4>1 DEF Archived, Agree
    <3> QED
      BY <3>1, <3>2
  <2> QED
    BY <1>8, <2>4, <2>6 DEF SeenInv
<1>13. ASSUME reason # "half_end", page'.src = page.src PROVE SummariesExact'
  <2>1. cache'.summary = cache.summary
    BY <1>7, <1>13
  <2>2. \A j \in Halftime : page'.src[1] # "summary" /\ cache'.summary = Null
    BY <1>13, <2>1 DEF SeenInv, SummariesExact
  <2>3. cache'.summary # Null => Exact(cache'.summary, steady, kills[1])
    BY <2>1 DEF SeenInv, SummariesExact
  <2> QED
    BY <1>1, <2>2, <2>3, SummariesTaken
<1>14. CASE reason = "round_end"
  <2>1. stage = "play" /\ reason # "half_end"
    BY <1>3, <1>14
  <2>2. /\ Archive(page', seen', steady, kills) /\ page'.src = page.src
        /\ page'.board = page.board \/ page'.board.reason = "round_end"
    <3>1. CASE linked
      <4>1. page' = on_summary(page, "round_end", r) /\ seen' = [seen EXCEPT ![page.half] = r]
        BY <1>1, <1>5, <1>14, <3>1 DEF Unfinished
      <4>2. AtMost(r, kills[page.half])
        BY <1>3, <1>5, <3>1
      <4> QED
        BY <1>3, <1>5, <1>9, <4>1, <4>2, CapoutArchive
    <3>2. CASE ~ linked
      BY <1>1, <1>9, <3>2
    <3> QED
      BY <3>1, <3>2
  <2>3. page.board = Null \/ page.board.reason # "match_end"
    BY <1>5, <2>1 DEF CountInv, PageFits, Final
  <2>4. Archived' /\ Agree'
    BY <1>1, <1>10, <1>11, <2>1, <2>2, <2>3 DEF SeenInv, Archived, Agree, Sums
  <2> QED
    BY <1>8, <1>13, <2>1, <2>2, <2>4 DEF SeenInv
<1>15. CASE reason = "match_end"
  <2>1. stage = "idle" /\ half # 1 /\ reason # "half_end" /\ seen' = seen
    BY <1>1, <1>3, <1>15 DEF CountInv, Course, Unfinished
  <2>2. /\ Archive(page', seen, steady, kills) /\ page'.src = page.src
        /\ Sums(page'.board, seen, steady, half, kills)
    <3>1. CASE linked
      <4> DEFINE q == on_summary(page, "match_end", r)
      <4>1. page' = q /\ "match_end" \in Reason
        BY <1>1, <1>15, <3>1 DEF Reason
      <4>2. Sums(q.board, seen, steady, page.half, kills)
        <5>1. \A h \in Half : page.half < h => kills[h] = NoKills
          BY <1>5, <3>1 DEF SeenInv, ToCome
        <5>2. page.half # 1 /\ Exact(r, steady, kills[page.half])
          BY <1>4, <1>5, <2>1, <3>1
        <5> QED
          BY <1>3, <1>5, <1>9, <5>1, <5>2, FinalSums
      <4>3. Summarised(q, page, "match_end", r)
        BY <1>3, <1>5, <4>1, SummaryIs
      <4> HIDE DEF q
      <4>4. q.half = page.half /\ q.rows = page.rows /\ q.src = page.src /\ q.last = page.last
        BY <4>3 DEF Summarised
      <4>5. Archive(q, seen, steady, kills)
        BY <1>9, <4>4 DEF Archive
      <4> QED
        BY <1>5, <3>1, <4>1, <4>2, <4>4, <4>5
    <3>2. CASE ~ linked
      BY <1>1, <1>9, <3>2
    <3> QED
      BY <3>1, <3>2
  <2>3. Archived' /\ Agree'
    BY <1>1, <1>10, <1>11, <2>1, <2>2 DEF Archived, Agree
  <2> QED
    BY <1>8, <1>13, <2>1, <2>2, <2>3 DEF SeenInv
<1> QED
  BY <1>3, <1>12, <1>14, <1>15 DEF Reason

LEMMA SeenLose ==
    ASSUME CountInv, SeenInv, NEW i \in DOMAIN wire, Lose(i) PROVE SeenInv'
<1>1. /\ wire' = RemoveAt(wire, i) /\ UNCHANGED plugin /\ seen' = seen /\ page' = page
      /\ cache' = cache
  BY DEF Lose, viewer
<1> QED
  BY <1>1, SeenOther DEF Same

LEMMA SeenDisconnect ==
    ASSUME SeenInv, Disconnect PROVE SeenInv'
BY DEF Disconnect, plugin, SeenInv, SteadyRows, ToCome, SummariesExact, Halftime, Archived, Agree,
       Row, StalePage

-----------------------------------------------------------------------------
(* What a page that joins has of it.                                       *)

LEMMA JoinedArchive ==
    ASSUME NEW k \in [Half -> [Player -> Nat]], NEW S, NEW sn \in Halves,
           NEW pg \in FineP, NEW c \in Cache,
           Archive(Greeted(pg, c), sn, S, k), Greeted(pg, c).half = c.half,
           c.summary # Null => c.half = 1 /\ Exact(c.summary, S, k[1]) /\ AtMost(c.summary, k[1])
    PROVE  /\ c.summary = Null =>
                /\ Archive(Joined(pg, c), sn, S, k)
                /\ Same(Joined(pg, c), Greeted(pg, c))
           /\ c.summary # Null =>
                /\ Summed(Joined(pg, c), [sn EXCEPT ![1] = c.summary], S, k, c.summary)
                /\ Summed(Joined(pg, c), sn, S, k, c.summary)
<1> DEFINE g == Greeted(pg, c)
           f == Filled(pg, c)
<1>1. /\ g \in FineP /\ f \in FineP
      /\ Joined(pg, c) = IF c.summary = Null THEN f ELSE on_summary(f, "half_end", c.summary)
  BY JoinedIs
<1>2. Same(f, g) /\ f.half = g.half
  BY <1>1 DEF Filled, FineP, Page, Same
<1> HIDE DEF g, f
<1>3. Archive(f, sn, S, k) /\ f.half = c.half
  BY <1>2, SameArchive DEF g
<1>4. CASE c.summary = Null
  BY <1>1, <1>2, <1>3, <1>4 DEF g
<1>5. CASE c.summary # Null
  <2>1. c.summary \in Rows /\ f.half = 1
    BY <1>3, <1>5 DEF Cache
  <2>2. /\ Summed(on_summary(f, "half_end", c.summary), [sn EXCEPT ![1] = c.summary], S, k, c.summary)
        /\ Summed(on_summary(f, "half_end", c.summary), sn, S, k, c.summary)
    BY <1>1, <1>3, <1>5, <2>1, SummaryArchive
  <2> QED
    BY <1>1, <1>5, <2>2
<1> QED
  BY <1>4, <1>5

\* What a page brings along of the match: what it had, or nothing.
Recalls(pg, sn) ==
    /\ pg \in FineP /\ Shown(pg) /\ sn \in Halves
    /\ match = 0 \/ StaleCache => sn = NoHalves
    /\ match # 0 /\ ~ StaleCache =>
         /\ Archive(Greeted(pg, cache), sn, steady, kills)
         /\ Greeted(pg, cache).src[1] = "summary" => page.src[1] = "summary" /\ ~ StalePage
         /\ \/ Greeted(pg, cache).board = Null
            \/ Greeted(pg, cache).board.reason = "half_end"
            \/ Greeted(pg, cache).board = page.board /\ sn = seen /\ ~ StalePage

LEMMA SeenJoined ==
    ASSUME CountInv, SeenInv, CountInv', NEW pg, NEW sn, Recalls(pg, sn),
           page' = Joined(pg, cache), seen' = Replayed(sn),
           UNCHANGED <<plugin, wire, lost, cache>>
    PROVE  SeenInv'
<1>1. /\ wire' = wire /\ cache' = cache /\ UNCHANGED plugin
      /\ match' = match /\ stage' = stage /\ half' = half /\ kills' = kills /\ steady' = steady
  BY DEF plugin
<1>2. SteadyRows' /\ ToCome'
  BY <1>1, PluginSame
<1>3. /\ pg \in FineP /\ Shown(pg) /\ sn \in Halves /\ cache \in Cache
      /\ kills \in [Half -> [Player -> Nat]]
      /\ cache.summary # Null => cache.half = 1 /\ ~ StaleCache
      /\ 1 # Null
  BY BoardAssumption DEF Recalls, CountInv, TypeInv, CacheFits
<1>4. /\ cache.half # Null => page'.half = cache.half /\ page'.handled = cache.half
      /\ cache.half = Null => page'.handled = pg.handled
  BY <1>3, JoinedHalf
<1>5. StaleCache' <=> StaleCache
  BY <1>1 DEF StaleCache, Stale
<1>6. CASE match = 0 \/ StaleCache
  <2>1. StalePage' /\ (half = 1 => page'.handled # 1)
    <3>1. match = 0 => half # 1
      BY HalfOfMatch
    <3>2. StalePage'
      BY <1>1, <1>5, <1>6 DEF CountInv, PageFits, StalePage, Stale
    <3>3. half = 1 => stage = "play"
      BY <1>6, <3>1 DEF StaleCache, Stale
    <3> QED
      BY <1>1, <3>1, <3>2, <3>3 DEF StalePage, Stale
  <2>2. stage # "break" /\ seen' = NoHalves
    <3>1. stage # "break"
      BY <1>6, HalfOfMatch DEF StaleCache, Stale
    <3> QED
      BY <1>6, <3>1 DEF Recalls, Replayed
  <2>3. SummariesExact'
    <3>1. Halftime = {} /\ Halftime' = Halftime
      BY <1>1, <2>2, HalftimeIs DEF Halftime
    <3> QED
      BY <1>1, <3>1 DEF SeenInv, SummariesExact
  <2> QED
    BY <1>1, <1>2, <2>1, <2>2, <2>3 DEF SeenInv, Archived, Agree
<1>7. CASE match # 0 /\ ~ StaleCache
  <2> DEFINE g == Greeted(pg, cache)
  <2>1. /\ Kept(cache, half, stage, kills) /\ cache.half \in Half /\ cache.half # Null
    BY <1>7, HalfFacts DEF CountInv, CacheFits, Kept
  <2>2. /\ page'.half = cache.half /\ page'.handled = cache.half
        /\ ~ StalePage'
    BY <1>1, <1>4, <1>7, <2>1 DEF StalePage, StaleCache, Stale
  <2>3. g.half = cache.half
    BY <1>3, <2>1, StartIs DEF Greeted
  <2>4. /\ Archive(g, sn, steady, kills)
        /\ g.src[1] = "summary" => page.src[1] = "summary" /\ ~ StalePage
        /\ \/ g.board = Null
           \/ g.board.reason = "half_end"
           \/ g.board = page.board /\ sn = seen /\ ~ StalePage
    BY <1>7 DEF Recalls
  <2>5. cache.summary # Null =>
          /\ cache.half = 1 /\ Exact(cache.summary, steady, kills[1]) /\ AtMost(cache.summary, kills[1])
    BY <1>3, <2>1 DEF SeenInv, SummariesExact, Kept
  <2>6. /\ cache.summary = Null =>
             Archive(page', sn, steady, kills) /\ Same(page', g)
        /\ cache.summary # Null =>
             /\ Summed(page', [sn EXCEPT ![1] = cache.summary], steady, kills, cache.summary)
             /\ Summed(page', sn, steady, kills, cache.summary)
    BY <1>3, <2>3, <2>4, <2>5, JoinedArchive
  <2> HIDE DEF g
  <2>7. CASE cache.summary = Null
    <3>1. /\ seen' = sn /\ page'.src = g.src /\ page'.board = g.board
          /\ Archive(page', seen', steady, kills)
      BY <2>6, <2>7 DEF Replayed, Same
    <3>2. Sums(page'.board, seen', steady, half, kills)
      BY <2>4, <3>1 DEF SeenInv, Archived, Sums
    <3>3. Agree'
      <4> SUFFICES ASSUME half = 1, page'.handled = 1, page'.src[1] = "summary"
                   PROVE  stage # "play" /\ stage # "break"
        BY <1>1 DEF Agree
      <4>1. page.src[1] = "summary" /\ ~ StalePage
        BY <2>4, <3>1
      <4>2. page.handled = page.half /\ page.half <= 1 /\ page.half \in Half
        BY <2>2, <4>1, ShownRows DEF CountInv, PageFits
      <4>3. page.handled = 1
        BY <4>2 DEF Half
      <4> QED
        BY <2>7, <4>1, <4>3 DEF SeenInv, Agree
    <3>4. SummariesExact'
      <4>1. Halftime' = Halftime
        BY <1>1 DEF Halftime
      <4>2. \A j \in Halftime : page'.src[1] # "summary"
        BY <2>4, <3>1 DEF SeenInv, SummariesExact
      <4> QED
        BY <1>1, <2>7, <4>1, <4>2 DEF SeenInv, SummariesExact
    <3> QED
      BY <1>1, <1>2, <2>2, <3>1, <3>2, <3>3, <3>4 DEF SeenInv, Archived
  <2>8. CASE cache.summary # Null
    <3>1. /\ Archive(page', seen', steady, kills) /\ page'.rows[1] = cache.summary
          /\ page'.board = Told("half_end", cache.summary)
      BY <2>6, <2>8 DEF Replayed, Summed
    <3>2. page'.board.reason # "match_end"
      BY <3>1, ToldIs
    <3>3. half = 1 => stage = "break"
      BY <2>1, <2>8 DEF Kept
    <3>4. Agree'
      BY <1>1, <2>8, <3>1, <3>3 DEF Agree
    <3>5. SummariesExact'
      <4>1. Halftime = {} /\ Halftime' = Halftime
        BY <1>1, <2>8 DEF SeenInv, SummariesExact, Halftime
      <4> QED
        BY <1>1, <4>1 DEF SeenInv, SummariesExact
    <3> QED
      BY <1>1, <1>2, <2>2, <3>1, <3>2, <3>4, <3>5 DEF SeenInv, Archived, Sums
  <2> QED
    BY <2>7, <2>8
<1> QED
  BY <1>6, <1>7

LEMMA SeenReconnect ==
    ASSUME CountInv, SeenInv, CountInv', Reconnect PROVE SeenInv'
<1>1. /\ page' = Joined(page, cache) /\ seen' = Replayed(seen)
      /\ UNCHANGED <<plugin, wire, lost, cache>>
  BY DEF Reconnect
<1>2. /\ page \in FineP /\ Shown(page) /\ seen \in Halves
      /\ kills \in [Half -> [Player -> Nat]]
      /\ match = 0 \/ ~ StalePage
  BY DEF Reconnect, CountInv, TypeInv, FineP, PageFits
<1>3. match = 0 \/ StaleCache => seen = NoHalves
  BY <1>2 DEF SeenInv, Archived, StalePage, Stale, CountInv, PageFits
<1>4. ASSUME match # 0, ~ StaleCache
      PROVE  Started(Greeted(page, cache), page, seen, steady, kills, cache.half)
  <2>1. cache.half \in Half /\ cache.half # Null
    BY <1>4, HalfFacts DEF CountInv, CacheFits, Kept
  <2>2. page.handled = page.half /\ page.half <= cache.half
    BY <1>2, <1>4 DEF CountInv, PageFits
  <2>3. page.half = cache.half \/ (cache.half # 1 /\ page.half < cache.half)
    <3>1. page.half \in Half
      BY ShownRows
    <3> QED
      BY <2>1, <2>2, <3>1 DEF Half
  <2>4. Started(on_half_start(page, cache.half), page, seen, steady, kills, cache.half)
    BY <1>2, <2>1, <2>2, <2>3, StartArchive
  <2> QED
    BY <2>1, <2>4 DEF Greeted
<1>5. ASSUME match # 0, ~ StaleCache
      PROVE  /\ Archive(Greeted(page, cache), seen, steady, kills)
             /\ Greeted(page, cache).src[1] = "summary" => page.src[1] = "summary" /\ ~ StalePage
             /\ \/ Greeted(page, cache).board = Null
                \/ Greeted(page, cache).board.reason = "half_end"
                \/ Greeted(page, cache).board = page.board /\ ~ StalePage
  <2>1. ~ StalePage /\ Archive(page, seen, steady, kills)
    BY <1>2, <1>5 DEF SeenInv, Archived
  <2> QED
    BY <1>4, <1>5, <2>1 DEF Started
<1>6. Recalls(page, seen)
  BY <1>2, <1>3, <1>5 DEF Recalls
<1> QED
  BY <1>1, <1>6, SeenJoined

LEMMA SeenReload ==
    ASSUME CountInv, SeenInv, CountInv', Reload PROVE SeenInv'
<1>1. /\ page' = Joined(Fresh, cache) /\ seen' = Replayed(NoHalves)
      /\ UNCHANGED <<plugin, wire, lost, cache>>
  BY DEF Reload
<1>2. /\ Fresh \in FineP /\ Shown(Fresh) /\ Fresh.handled = Null /\ Fresh.half = 1
      /\ Fresh.board = Null /\ Fresh.src = [h \in Half |-> "none"]
      /\ Fresh.last = NoHalves /\ Fresh.rows = NoHalves
  BY FreshType DEF Fresh, Shown
<1>3. kills \in [Half -> [Player -> Nat]] /\ NoHalves \in Halves /\ 1 \in Half
  BY NoRowsType DEF CountInv, TypeInv, Half
<1>4. ASSUME match # 0, ~ StaleCache
      PROVE  /\ Archive(Greeted(Fresh, cache), NoHalves, steady, kills)
             /\ Greeted(Fresh, cache).src[1] # "summary"
             /\ \/ Greeted(Fresh, cache).board = Null
                \/ Greeted(Fresh, cache).board.reason = "half_end"
  <2> DEFINE g == Greeted(Fresh, cache)
             x == cache.half
  <2>1. x \in Half /\ x # Null
    BY <1>4, HalfFacts DEF CountInv, CacheFits, Kept
  <2>2. g = on_half_start(Fresh, x)
    BY <2>1 DEF Greeted
  <2> HIDE DEF g, x
  <2>3. /\ g \in FineP /\ g.half = x
        /\ x = 1 => Afresh(g)
        /\ x # 1 => Later(g, Fresh)
    BY <1>2, <2>1, <2>2, StartIs
  <2>4. CASE x = 1
    BY <1>3, <2>3, <2>4, AfreshArchive DEF Afresh, g
  <2>5. CASE x # 1
    <3>1. Archive(Fresh, NoHalves, steady, kills)
      <4>1. \A h \in Half : /\ Fresh.src[h] = "none" /\ Fresh.last[h] = NoHalves[h]
                            /\ NoHalves[h] = NoRows /\ AtMost(NoRows, kills[h]) /\ ~ (h < 1)
        BY <1>2, <1>3, AtMostNothing DEF NoHalves, Half
      <4> QED
        BY <1>2, <1>3, <4>1 DEF Archive
    <3>2. Fresh.half < g.half
      BY <1>2, <2>1, <2>3, <2>5 DEF Half
    <3>3. Archive(g, NoHalves, steady, kills)
      BY <1>2, <1>3, <2>3, <2>5, <3>1, <3>2, LaterArchive
    <3>4. g.src[1] # "summary"
      BY <1>2, <1>3, <2>3, <2>5 DEF Later, Files
    <3>5. g.board = Null \/ g.board.reason = "half_end"
      BY <1>2, <2>3, <2>5 DEF Later
    <3> QED
      BY <3>3, <3>4, <3>5 DEF g
  <2> QED
    BY <2>4, <2>5
<1>5. Recalls(Fresh, NoHalves)
  BY <1>2, <1>3, <1>4 DEF Recalls
<1> QED
  BY <1>1, <1>5, SeenJoined

-----------------------------------------------------------------------------
(* What the page saw is kept.                                              *)

LEMMA SeenInit == ASSUME ~ Forfeits PROVE Init => SeenInv
<1> SUFFICES ASSUME Init PROVE SeenInv
  OBVIOUS
<1>1. CountInv
  BY CountInit
<1>2. /\ match = 0 /\ stage = "idle" /\ half = 0 /\ wire = <<>> /\ seen = NoHalves
      /\ kills = [h \in Half |-> NoKills]
  BY DEF Init
<1>3. StalePage /\ StaleCache
  BY <1>2 DEF StalePage, StaleCache, Stale
<1>4. cache.summary = Null
  BY <1>1, <1>3 DEF CountInv, CacheFits
<1> QED
  BY <1>2, <1>3, <1>4
     DEF SeenInv, SteadyRows, ToCome, SummariesExact, Halftime, Archived, Agree

LEMMA SeenStep ==
    ASSUME Regular PROVE CountInv /\ SeenInv /\ [Next]_vars => CountInv' /\ SeenInv'
<1> SUFFICES ASSUME CountInv, SeenInv, [Next]_vars PROVE CountInv' /\ SeenInv'
  OBVIOUS
<1>1. CountInv' /\ TypeInv'
  BY CountStep DEF CountInv
<1>2. ~ Forfeits
  BY DEF Regular
<1>3. ASSUME NEW h \in Half, MatchStart(h) PROVE SeenInv'
  BY <1>1, <1>3, SeenMatchStart
<1>4. ASSUME NEW p \in Player, Kill(p) PROVE SeenInv'
  BY <1>1, <1>4, SeenKill
<1>5. ASSUME NEW p \in Player, Leave(p) PROVE SeenInv'
  BY <1>1, <1>5, SeenLeave
<1>6. ASSUME NEW p \in Player, Join(p) PROVE SeenInv'
  BY <1>1, <1>6, SeenJoin
<1>7. CASE Capout
  BY <1>1, <1>7, SeenCapout
<1>8. CASE ktp_half_end
  BY <1>1, <1>8, SeenHalfEnd
<1>9. CASE Tie
  BY <1>1, <1>9, SeenTie
<1>10. CASE ktp_match_end
  BY <1>1, <1>2, <1>10, SeenMatchEnd
<1>11. ASSUME NEW i \in DOMAIN wire, NEW recent \in BOOLEAN, Deliver(i, recent) PROVE SeenInv'
  <2>1. wire[i] \in Message
    BY DEF CountInv, TypeInv
  <2>2. wire[i].kind \in Starts \cup {"roster", "score", "left", "half_end", "summary", "match_end"}
    BY <2>1 DEF Message, Start, Summary, Starts
  <2>3. CASE wire[i].kind \in Starts
    BY <1>11, <2>3, SeenStart
  <2>4. CASE wire[i].kind \in {"roster", "score", "left", "match_end"}
    BY <1>11, <2>4, SeenStore
  <2>5. CASE wire[i].kind = "half_end"
    BY <1>11, <2>5, SeenMarker
  <2>6. CASE wire[i].kind = "summary"
    BY <1>11, <2>6, SeenSummary
  <2> QED
    BY <2>2, <2>3, <2>4, <2>5, <2>6
<1>12. ASSUME NEW i \in DOMAIN wire, Lose(i) PROVE SeenInv'
  BY <1>12, SeenLose
<1>13. CASE Disconnect
  BY <1>1, <1>13, SeenDisconnect
<1>14. CASE Reconnect
  BY <1>1, <1>14, SeenReconnect
<1>15. CASE Reload
  BY <1>1, <1>15, SeenReload
<1>16. CASE UNCHANGED vars
  <2>1. SeenInv'
    BY <1>16
       DEF vars, plugin, viewer, SeenInv, SteadyRows, ToCome, SummariesExact, Halftime,
           Archived, Agree, Row, StalePage
  <2> QED
    BY <1>1, <2>1
<1> QED
  BY <1>1, <1>3, <1>4, <1>5, <1>6, <1>7, <1>8, <1>9, <1>10, <1>11, <1>12, <1>13, <1>14, <1>15,
     <1>16
     DEF Next

LEMMA SeenHolds == ASSUME Regular PROVE Spec => [](CountInv /\ SeenInv)
<1>1. Init => CountInv /\ SeenInv
  BY CountInit, SeenInit DEF Regular
<1>2. CountInv /\ SeenInv /\ [Next]_vars => CountInv' /\ SeenInv'
  BY SeenStep
<1> QED
  BY <1>1, <1>2, PTL DEF Spec

\* A final board that is up is of a match the page was told of.
LEMMA FinalBoard ==
    ASSUME CountInv /\ SeenInv, FinalUp
    PROVE  /\ Sums(page.board, seen, steady, half, kills) /\ Final(page, stage, kills)
           /\ page.board # Null /\ page.board.reason = "match_end" /\ page.board.rows \in Rows
           /\ steady \subseteq Player /\ seen \in Halves
<1>1. ~ StalePage
  BY BoardAssumption DEF FinalUp, StalePage, Stale, CountInv, TypeInv
<1>2. Sums(page.board, seen, steady, half, kills) /\ Final(page, stage, kills)
  BY <1>1 DEF CountInv, SeenInv, PageFits, Archived
<1>3. page.board \in Boards /\ page.board.reason = "match_end" /\ page.board # Null
  BY DEF FinalUp, CountInv, TypeInv, Page
<1>4. page.board.rows \in Rows
  BY <1>3 DEF Boards
<1>5. steady \subseteq Player /\ seen \in Halves
  BY DEF CountInv, TypeInv
<1> QED
  BY <1>2, <1>3, <1>4, <1>5

\* What the page once got of a half in a summary is on the final board, for every
\* player whose fuller row no emptied slot took the place of: also if the end of
\* the half was lost, if everybody left in between, if the page was away, or if
\* it was loaded at halftime.
THEOREM SeenIsKept == ASSUME Regular PROVE Spec => []NothingSeenIsLost
<1>1. CountInv /\ SeenInv => NothingSeenIsLost
  <2> SUFFICES ASSUME CountInv, SeenInv, FinalUp, NEW p \in steady
               PROVE  Of(page.board.rows, p) >= Of(seen[1], p) + Of(seen[2], p) + Of(seen[101], p)
    BY DEF NothingSeenIsLost
  <2>1. /\ Sums(page.board, seen, steady, half, kills)
        /\ page.board # Null /\ page.board.reason = "match_end"
        /\ page.board.rows \in Rows /\ seen \in Halves
    BY FinalBoard
  <2>2. Of(seen[1], p) + Of(seen[2], p) + Of(seen[101], p) <= Of(page.board.rows, p)
    BY <2>1 DEF Sums
  <2>3. /\ Of(seen[1], p) \in Nat /\ Of(seen[2], p) \in Nat /\ Of(seen[101], p) \in Nat
        /\ Of(page.board.rows, p) \in Nat
    BY <2>1, OfType DEF Halves, Half
  <2> QED
    BY <2>2, <2>3
<1> QED
  BY <1>1, SeenHolds, PTL

\* A player of whose first half the page got all in a summary has his exact
\* numbers on the final board of a match of two halves, no more and no less:
\* carrySoFar adds the archived first half to a second half that the rows of the
\* end, with those of its last capout, have whole.
THEOREM BoardsExact == ASSUME Regular PROVE Spec => []BoardIsExact
<1>1. CountInv /\ SeenInv => BoardIsExact
  <2> SUFFICES ASSUME CountInv, SeenInv, FinalUp, half = 2,
                      NEW p \in steady, Of(seen[1], p) = kills[1][p]
               PROVE  Of(page.board.rows, p) = Total(p)
    BY DEF BoardIsExact
  <2> DEFINE n == Of(page.board.rows, p)
  <2>1. /\ Sums(page.board, seen, steady, half, kills) /\ Final(page, stage, kills)
        /\ page.board # Null /\ page.board.reason = "match_end"
        /\ page.board.rows \in Rows /\ p \in Player
    BY FinalBoard
  <2>2. Total(p) <= n
    BY <2>1 DEF Sums, Total
  <2>3. n \in Nat /\ Total(p) \in Nat
    <3>1. p \in Player /\ n \in Nat
      BY <2>1, OfType
    <3>2. kills[1][p] \in Nat /\ kills[2][p] \in Nat /\ kills[101][p] \in Nat
      BY <3>1 DEF CountInv, TypeInv, Half
    <3> QED
      BY <3>1, <3>2 DEF Total
  <2>4. n <= Total(p)
    <3>1. CASE p \in DOMAIN page.board.rows
      BY <2>1, <3>1 DEF Final, Of, Total
    <3>2. CASE p \notin DOMAIN page.board.rows
      BY <2>3, <3>2 DEF Of
    <3> QED
      BY <3>1, <3>2
  <2> HIDE DEF n
  <2>5. n = Total(p)
    BY <2>2, <2>3, <2>4
  <2> QED
    BY <2>5 DEF n
<1> QED
  BY <1>1, SeenHolds, PTL

\* What a page loaded at halftime is told.
LEMMA LoadedAtHalftime ==
    ASSUME CountInv, cache.half = 1, cache.summary # Null
    PROVE  LET q == Joined(Fresh, cache)
           IN  /\ q.src[1] = "summary" /\ q.rows[1] = cache.summary
               /\ q.board = Board("half_end", FALSE, cache.summary)
<1> DEFINE g == Greeted(Fresh, cache)
           f == Filled(Fresh, cache)
           q == Joined(Fresh, cache)
<1>1. Fresh \in FineP /\ cache \in Cache /\ cache.summary \in Rows
  BY FreshType DEF CountInv, TypeInv, Cache
<1>2. g \in FineP /\ f \in FineP /\ q = on_summary(f, "half_end", cache.summary)
  BY <1>1, JoinedIs
<1>3. g.half = 1
  BY <1>1, StartIs, HalfFacts DEF Greeted, Half
<1>4. f.half = 1
  BY <1>2, <1>3 DEF Filled, FineP, Page
<1>5. "half_end" \in Reason /\ 1 \in Half
  BY DEF Reason, Half
<1> HIDE DEF g, f
<1>6. Summarised(on_summary(f, "half_end", cache.summary), f, "half_end", cache.summary)
  BY <1>1, <1>2, <1>5, SummaryIs
<1>7. f.rows \in [Half -> Rows] /\ f.src \in [Half -> {"none", "snapshot", "summary"}]
  BY <1>2 DEF FineP, Page, Halves
<1>8. /\ q.rows = [f.rows EXCEPT ![1] = cache.summary]
      /\ q.src = [f.src EXCEPT ![1] = "summary"]
      /\ q.board = Board("half_end", FALSE, cache.summary)
  BY <1>2, <1>4, <1>6 DEF Summarised, Told
<1> HIDE DEF q
<1>9. q.rows[1] = cache.summary /\ q.src[1] = "summary"
  BY <1>5, <1>7, <1>8
<1> QED
  BY <1>8, <1>9 DEF q

\* A page loaded at halftime has the halftime board and the archived first half
\* of the page it was: the cache keeps the very summary that the page archived.
THEOREM ReloadKept == ASSUME Regular PROVE Spec => ReloadKeepsHalftime
<1> DEFINE A == Reload /\ linked /\ stage = "break" /\ half = 1 /\ page.src[1] = "summary"
                  => /\ page'.src[1] = "summary" /\ page'.rows[1] = page.rows[1]
                     /\ page'.board = Board("half_end", FALSE, page.rows[1])
<1>1. CountInv /\ SeenInv => A
  <2> SUFFICES ASSUME CountInv, SeenInv,
                      Reload, linked, stage = "break", half = 1, page.src[1] = "summary"
               PROVE  /\ page'.src[1] = "summary" /\ page'.rows[1] = page.rows[1]
                      /\ page'.board = Board("half_end", FALSE, page.rows[1])
    OBVIOUS
  <2>1. cache.half = 1 /\ page.handled = 1
    BY DEF CountInv, Course, Begun
  <2>2. cache.summary # Null /\ cache.summary = page.rows[1]
    BY <2>1 DEF SeenInv, Agree
  <2>3. page' = Joined(Fresh, cache)
    BY DEF Reload
  <2> QED
    BY <2>1, <2>2, <2>3, LoadedAtHalftime
<1> HIDE DEF A
<1>2. [](CountInv /\ SeenInv) => [][A]_vars
  BY <1>1, PTL
<1>3. ReloadKeepsHalftime <=> [][A]_vars
  BY DEF ReloadKeepsHalftime, A
<1> QED
  BY <1>2, <1>3, SeenHolds, PTL
=============================================================================

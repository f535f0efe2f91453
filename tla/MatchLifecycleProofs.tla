------------------------ MODULE MatchLifecycleProofs -------------------------
(***************************************************************************)
(* Proofs about MatchLifecycle for any number of matches, any rosters and  *)
(* any delays: what the rows of the official score say, whichever side     *)
(* maps, half ends, match ends and levels come in which order.             *)
(***************************************************************************)
EXTENDS MatchLifecycle, TLAPS

Played == {"countdown", "play"}

\* Slots go from the side map to the binding and on to the rows.
Sides ==
    /\ pending # Null => pending.sides = pending.for
    /\ bound # Null => bound.sides = bound.for
    /\ RowsAreLabelled

\* What a binding knows is the last row, as long as it can emit another.
Binds ==
    bound # Null =>
        /\ row # Null
        /\ row.for = bound.for /\ row.seq = bound.seq /\ row.score = bound.last
        /\ row.kind = "final" => bound.final = TRUE \/ cur = Null

\* Where in a match there can be a binding, and for which half.
Where ==
    bound # Null =>
        \/ stage \in {"countdown", "play", "ended"} /\ cur = tuple /\ tuple = bound.for
        \/ stage \in {"idle", "ready"} /\ cur = Null

Open == stage \in Played /\ bound # Null => bound.last = score /\ bound.final = FALSE

Closed == stage = "ended" /\ tuple.half = 1 /\ bound # Null => bound.final = TRUE

Tied == stage = "ended" /\ tuple.half # 1

Final == row # Null /\ (bound = Null \/ (stage \notin Played /\ ~Tied)) => row.kind = "final"

\* No row is of a half to come.
Past ==
    row # Null => /\ tuple # Null
                  /\ row.for.match <= tuple.match
                  /\ row.for.match = tuple.match => row.for.half <= tuple.half

Halves ==
    /\ stage \in Played => tuple # Null
    /\ stage \in {"ended", "break", "away"} => tuple # Null /\ tuple.half \in {1, 2}

Ends ==
    /\ stage \in Played => ends = 0 /\ halfEndAt = Null
    /\ stage \in {"ended", "break", "away"} /\ tuple.half = 1 => ends = 1

OInv == Sides /\ Binds /\ Where /\ Open /\ Closed /\ Final /\ Past /\ Halves /\ Ends

IInv == TypeOK /\ OInv

-----------------------------------------------------------------------------
(* Types.                                                                  *)

LEMMA ConstantTypes ==
    /\ Burst \in Nat /\ BurstWindow \in Nat /\ ClanTimer \in Nat /\ RewipeSlack \in Nat
    /\ LiveWindow \in Nat /\ InitDelay \in Nat /\ MaxWave \in Nat /\ MaxScore \in Nat
    /\ MaxMatch \in Nat /\ Rosters \subseteq Nat
BY LifecycleAssumption

LEMMA PhaseType == Phase \in Phases
BY DEF Phase, Phases

LEMMA PhaseTickType ==
    ASSUME said \in Phases, PhaseTick PROVE said' \in Phases
<1>1. Phase' \in Phases BY DEF Phase, Phases
<1> QED BY <1>1 DEF PhaseTick

LEMMA GameTimeType == ASSUME TypeOK PROVE GameTime \in Nat
BY DEF TypeOK, GameTime

\* What a tuple, a binding and a row are made of.
LEMMA TupleType ==
    ASSUME NEW t \in Tuple PROVE t.match \in Nat /\ t.half \in {1, 2, 101}
BY DEF Tuple, Match, Half

\* An emission numbers a row and remembers it.
LEMMA EmitType ==
    ASSUME NEW b \in Bound, NEW c \in Tuple, NEW kind \in {"baseline", "change", "final"},
           Emit(b, c, kind), score' \in Nat
    PROVE  /\ bound' \in Bound /\ row' \in Row
           /\ bound'.for = b.for /\ bound'.sides = b.sides
           /\ bound'.seq = b.seq + 1 /\ bound'.last = score'
           /\ kind # "final" => bound'.final = b.final
           /\ kind = "final" /\ cur' # Null => bound'.final = TRUE
           /\ row' = [for |-> c, sides |-> b.sides, kind |-> kind, seq |-> b.seq + 1, score |-> score']
           /\ bound' # Null /\ row' # Null
<1> DEFINE closed == b.final \/ (kind = "final" /\ cur' # Null)
<1>1. bound' = [b EXCEPT !.seq = @ + 1, !.last = score', !.final = closed]
  BY DEF Emit
<1>2. row' = [for |-> c, sides |-> b.sides, kind |-> kind, seq |-> b.seq + 1, score |-> score']
  BY DEF Emit
<1>3. closed \in BOOLEAN
  BY DEF Bound
<1>8. (kind # "final" => closed = b.final) /\ (kind = "final" /\ cur' # Null => closed = TRUE)
  BY DEF Bound
<1> HIDE DEF closed
<1>10. /\ b \in [for : Tuple, sides : Tuple, seq : Nat, last : Nat \cup {Null}, final : BOOLEAN]
       /\ b.seq \in Nat /\ b.seq + 1 \in Nat
  BY DEF Bound
<1>11. bound' = [for |-> b.for, sides |-> b.sides, seq |-> b.seq + 1, last |-> score', final |-> closed]
  BY <1>1, <1>10
<1>4. bound' \in Bound
  BY <1>3, <1>10, <1>11 DEF Bound
<1>5. row' \in Row
  BY <1>2 DEF Bound, Row
<1>6. bound' # Null /\ row' # Null
  BY <1>4, <1>5, SentinelAssumption
<1>7. /\ bound'.for = b.for /\ bound'.sides = b.sides
      /\ bound'.seq = b.seq + 1 /\ bound'.last = score'
  BY <1>1 DEF Bound
<1>9. bound'.final = closed
  BY <1>1 DEF Bound
<1> QED BY <1>2, <1>4, <1>5, <1>6, <1>7, <1>8, <1>9

LEMMA RewipeType ==
    ASSUME TypeOK, Rewipe
    PROVE  /\ said' \in Phases /\ awaiting' \in BOOLEAN /\ wipeAt' \in Nat \cup {Null}
           /\ spawns' \in Nat /\ burstAt' \in Nat /\ kills' \in Nat
<1>1. CASE awaiting
  <2>1. PhaseTick /\ awaiting' = FALSE /\ wipeAt' = Null /\ spawns' = 0 /\ burstAt' = 0 /\ kills' = 0
    BY <1>1 DEF Rewipe
  <2>2. said' \in Phases BY <2>1, PhaseTickType DEF TypeOK
  <2>3. awaiting' \in BOOLEAN BY <2>1
  <2> QED BY <2>1, <2>2, <2>3
<1>2. CASE ~awaiting
  BY <1>2 DEF Rewipe, TypeOK
<1> QED BY <1>1, <1>2

LEMMA SpawnedType ==
    ASSUME TypeOK, NEW n \in Nat, Spawned(n)
    PROVE  /\ said' \in Phases /\ awaiting' \in BOOLEAN /\ wipeAt' \in Nat \cup {Null}
           /\ spawns' \in Nat /\ burstAt' \in Nat /\ kills' \in Nat
<1> DEFINE count == IF InBurst THEN spawns + n ELSE n
<1>1. CASE awaiting /\ count < Burst
  BY <1>1, GameTimeType DEF Spawned, TypeOK
<1>2. CASE ~(awaiting /\ count < Burst)
  BY <1>2, RewipeType DEF Spawned
<1> QED BY <1>1, <1>2

LEMMA CurrentType ==
    ASSUME TypeOK, Current(bound, cur) PROVE bound \in Bound /\ cur \in Tuple /\ bound.for = cur
BY DEF Current, TypeOK

LEMMA BindingType ==
    ASSUME TypeOK, NEW t \in Tuple, Binding(t) # Null
    PROVE  /\ Binding(t) \in Bound /\ pending # Null /\ pending.for = t
           /\ Binding(t) = [for |-> t, sides |-> pending.sides, seq |-> 0, last |-> Null, final |-> FALSE]
<1>1. Exact(t) /\ Binding(t) = [for |-> t, sides |-> pending.sides, seq |-> 0, last |-> Null, final |-> FALSE]
  BY DEF Binding
<1>2. pending \in SideMap /\ pending # Null /\ pending.for = t
  BY <1>1 DEF Exact, TypeOK
<1>3. pending.sides \in Tuple
  BY <1>2 DEF SideMap
<1>4. Binding(t) \in Bound
  BY <1>1, <1>3 DEF Bound
<1> QED BY <1>1, <1>2, <1>4

\* Each step keeps the types.
LEMMA TypeStart ==
    ASSUME TypeOK, NEW t \in Tuple, NEW restored \in 0..MaxScore, ktp_match_start(t, restored)
    PROVE  TypeOK'
<1>1. /\ stage' = "countdown" /\ tuple' = t /\ over' = Null
      /\ score' = restored /\ edgeAt' = now + ClanTimer /\ waveAt' = Null
      /\ endedAt' = Null /\ spawns' = 0 /\ burstAt' = 0 /\ kills' = 0
      /\ roundLive' = GameTime + LiveWindow /\ halfEndAt' = Null /\ ends' = 0
      /\ cur' = t /\ pending' = Null /\ wipeAt' = GameTime + ClanTimer + RewipeSlack
      /\ UNCHANGED <<now, born, mode, here, roster, frags, url, initAt>>
  BY DEF ktp_match_start, FreshHalfEnd, clocks, config
<1>2. live' \in BOOLEAN /\ latch' \in BOOLEAN /\ awaiting' \in BOOLEAN
  BY DEF ktp_match_start
<1>3. said' \in Phases
  BY PhaseTickType DEF ktp_match_start, TypeOK
<1>4. bound' \in Bound \cup {Null} /\ row' \in Row \cup {Null}
  <2>1. CASE Binding(t) = Null
    BY <2>1 DEF ktp_match_start, TypeOK
  <2>2. CASE Binding(t) # Null
    <3>1. Emit(Binding(t), t, "baseline") BY <2>2 DEF ktp_match_start
    <3>2. score' \in Nat BY <1>1, ConstantTypes
    <3> QED BY <2>2, <3>1, <3>2, BindingType, EmitType
  <2> QED BY <2>1, <2>2
<1>5. /\ GameTime + LiveWindow \in Nat /\ GameTime + ClanTimer + RewipeSlack \in Nat
      /\ now + ClanTimer \in Nat /\ restored \in Nat
  BY ConstantTypes, GameTimeType DEF TypeOK
<1> QED BY <1>1, <1>2, <1>3, <1>4, <1>5 DEF TypeOK, Stage

LEMMA TypeHalfEnd == ASSUME TypeOK, ktp_half_end PROVE TypeOK'
<1>1. /\ stage' = "ended"
      /\ UNCHANGED <<now, born, tuple, mode, here, over, score, edgeAt, waveAt, roster, frags, url, initAt,
                     endedAt, awaiting, spawns, burstAt, wipeAt, roundLive, kills, cur, pending>>
  BY DEF ktp_half_end, clocks, engine, config, golive
<1>2. CASE Repeated
  BY <1>1, <1>2 DEF ktp_half_end, TypeOK, Stage, halfEnd
<1>3. CASE ~Repeated
  <2>1. halfEndAt' = GameTime /\ ends' = ends + 1 /\ PhaseTick
    BY <1>3 DEF ktp_half_end
  <2>2. live' \in BOOLEAN /\ latch' \in BOOLEAN BY <1>3 DEF ktp_half_end
  <2>3. said' \in Phases BY <2>1, PhaseTickType DEF TypeOK
  <2>4. bound' \in Bound \cup {Null} /\ row' \in Row \cup {Null}
    <3>1. CASE Current(bound, cur) /\ cur = tuple
      <4>1. Emit(bound, cur, "final") BY <1>3, <3>1 DEF ktp_half_end
      <4>2. score' \in Nat BY <1>1 DEF TypeOK
      <4> QED BY <3>1, <4>1, <4>2, CurrentType, EmitType
    <3>2. CASE ~(Current(bound, cur) /\ cur = tuple)
      BY <1>3, <3>2 DEF ktp_half_end, TypeOK
    <3> QED BY <3>1, <3>2
  <2> QED BY <1>1, <2>1, <2>2, <2>3, <2>4, GameTimeType DEF TypeOK, Stage
<1> QED BY <1>2, <1>3

LEMMA TypeMatchEnd == ASSUME TypeOK, ktp_match_end PROVE TypeOK'
<1>1. /\ stage' = "idle" /\ over' = now /\ cur' = Null /\ endedAt' = now
      /\ UNCHANGED <<now, born, tuple, mode, here, score, edgeAt, waveAt, roster, frags, url, initAt,
                     awaiting, spawns, burstAt, wipeAt, roundLive, kills, halfEndAt, ends, pending>>
  BY DEF ktp_match_end, clocks, engine, config, golive, halfEnd, EndedNow
<1>2. live' \in BOOLEAN /\ latch' \in BOOLEAN BY DEF ktp_match_end
<1>3. said' \in Phases BY PhaseTickType DEF ktp_match_end, TypeOK
<1>4. bound' \in Bound \cup {Null} /\ row' \in Row \cup {Null}
  <2>1. CASE Current(bound, cur)
    <3>1. Emit(bound, cur, "final") BY <2>1 DEF ktp_match_end
    <3>2. score' \in Nat BY <1>1 DEF TypeOK
    <3> QED BY <2>1, <3>1, <3>2, CurrentType, EmitType
  <2>2. CASE ~Current(bound, cur) BY <2>2 DEF ktp_match_end, TypeOK
  <2> QED BY <2>1, <2>2
<1> QED BY <1>1, <1>2, <1>3, <1>4 DEF TypeOK, Stage

LEMMA TypeChangeLevel ==
    ASSUME TypeOK, NEW same \in BOOLEAN, NEW times \in {1, 2}, NEW kept \in BOOLEAN,
           ChangeLevel(same, times, kept)
    PROVE  TypeOK'
<1>1. /\ pending' = Null /\ bound' = Null /\ said' = "none"
      /\ born' = now /\ initAt' = 1 + InitDelay /\ score' = 0 /\ frags' = 0 /\ here' = same
      /\ UNCHANGED <<now, tuple, mode, edgeAt, waveAt, roster>>
  BY DEF ChangeLevel
<1>2. stage' \in Stage
  BY DEF ChangeLevel, StageAfter, Stage
<1>3. row' \in Row \cup {Null}
  <2>1. CASE Current(bound, cur)
    BY <2>1, CurrentType DEF ChangeLevel, LastFinals, Row, Bound, TypeOK
  <2>2. CASE ~Current(bound, cur)
    BY <2>2 DEF ChangeLevel, LastFinals, TypeOK
  <2> QED BY <2>1, <2>2
<1>4. CASE kept
  <2>1. KeepGlobals BY <1>4 DEF ChangeLevel
  <2>2. live' \in BOOLEAN /\ latch' \in BOOLEAN BY <2>1 DEF KeepGlobals, PhaseReset
  <2>3. wipeAt' \in {wipeAt, Null}
        /\ UNCHANGED <<over, url, endedAt, awaiting, spawns, burstAt, roundLive, kills, halfEndAt, ends, cur>>
    BY <2>1 DEF KeepGlobals, halfEnd
  <2> QED BY <1>1, <1>2, <1>3, <2>2, <2>3, ConstantTypes DEF TypeOK, Phases
<1>5. CASE ~kept
  <2>1. LoseGlobals BY <1>5 DEF ChangeLevel
  <2>2. live' \in BOOLEAN /\ latch' \in BOOLEAN /\ url' \in BOOLEAN /\ awaiting' \in BOOLEAN
    BY <2>1 DEF LoseGlobals
  <2>3. /\ over' = Null /\ endedAt' = Null /\ wipeAt' = Null /\ spawns' = 0 /\ burstAt' = 0
        /\ roundLive' = Null /\ kills' = 0 /\ halfEndAt' = Null /\ ends' = ends /\ cur' = Null
    BY <2>1 DEF LoseGlobals
  <2> QED BY <1>1, <1>2, <1>3, <2>2, <2>3, ConstantTypes DEF TypeOK, Phases
<1> QED BY <1>4, <1>5

LEMMA TypeScored == ASSUME TypeOK, Scored PROVE TypeOK'
<1>1. PICK new \in {score, score + 1} : TeamScore(new) BY DEF Scored
<1>2. score' = new /\ new \in Nat BY <1>1 DEF TeamScore, TypeOK
<1>3. bound' \in Bound \cup {Null} /\ row' \in Row \cup {Null}
  <2>1. CASE Current(bound, cur) /\ Changed
    <3>1. Emit(bound, cur, "change") BY <1>1, <2>1 DEF TeamScore
    <3> QED BY <1>2, <2>1, <3>1, CurrentType, EmitType
  <2>2. CASE ~(Current(bound, cur) /\ Changed) BY <1>1, <2>2 DEF TeamScore, TypeOK
  <2> QED BY <2>1, <2>2
<1> QED BY <1>1, <1>2, <1>3
    DEF TeamScore, TypeOK, clocks, handler, config, phase, golive, halfEnd

LEMMA TypeStep == ASSUME TypeOK, [Next]_vars PROVE TypeOK'
<1> USE DEF clocks, handler, engine, config, phase, golive, halfEnd, official
<1>1. CASE InitConfig
  <2>1. said' \in Phases BY <1>1, PhaseTickType DEF InitConfig, TypeOK
  <2>2. url' \in BOOLEAN BY <1>1 DEF InitConfig
  <2> QED BY <1>1, <2>1, <2>2 DEF InitConfig, TypeOK
<1>2. CASE FallbackRewipe
  <2>1. Rewipe BY <1>2 DEF FallbackRewipe
  <2> QED BY <1>2, <2>1, RewipeType DEF FallbackRewipe, TypeOK
<1>3. CASE RoundState
  <2>1. CASE GameTime > roundLive BY <1>3, <2>1 DEF RoundState, TypeOK
  <2>2. CASE ~(GameTime > roundLive)
    <3>1. Rewipe BY <1>3, <2>2 DEF RoundState
    <3> QED BY <1>3, <3>1, RewipeType DEF RoundState, TypeOK
  <2> QED BY <2>1, <2>2
<1>4. CASE Kill BY <1>4 DEF Kill, TypeOK
<1>5. CASE Edge
  <2>1. Spawned(roster) /\ roster \in Nat BY <1>5 DEF Edge, TypeOK
  <2> QED BY <1>5, <2>1, SpawnedType DEF Edge, TypeOK, Stage
<1>6. ASSUME NEW n \in 1..MaxWave, Wave(n) PROVE TypeOK'
  <2>1. Spawned(n) /\ n \in Nat BY <1>6, ConstantTypes DEF Wave
  <2> QED BY <1>6, <2>1, SpawnedType DEF Wave, TypeOK
<1>7. ASSUME NEW t \in Tuple, NEW valid \in BOOLEAN, ktp_match_side_map(t, valid) PROVE TypeOK'
  <2>1. pending' \in SideMap \cup {Null} BY <1>7 DEF ktp_match_side_map, SideMap
  <2> QED BY <1>7, <2>1 DEF ktp_match_side_map, TypeOK
<1>8. CASE ReadyUp BY <1>8 DEF ReadyUp, TypeOK, Stage
<1>9. CASE Tie BY <1>9 DEF Tie, TypeOK, Stage
<1>10. CASE SaveMode BY <1>10 DEF SaveMode, TypeOK, Mode
<1>11. CASE ClearMode BY <1>11 DEF ClearMode, TypeOK, Stage, Mode
<1>12. CASE Tick
  <2>1. said' \in Phases BY <1>12, PhaseTickType DEF Tick, TypeOK
  <2> QED BY <1>12, <2>1 DEF Tick, TypeOK
<1>13. CASE UNCHANGED vars BY <1>13 DEF vars, TypeOK
<1> QED BY <1>1, <1>2, <1>3, <1>4, <1>5, <1>6, <1>7, <1>8, <1>9, <1>10, <1>11, <1>12, <1>13,
           TypeScored, TypeStart, TypeHalfEnd, TypeMatchEnd, TypeChangeLevel, LifecycleAssumption
        DEF Next

-----------------------------------------------------------------------------
(* The official score.                                                     *)

scored == <<stage, tuple, score, halfEnd, official>>

LEMMA Frame == ASSUME OInv, UNCHANGED scored PROVE OInv'
BY DEF scored, halfEnd, official, OInv, Sides, RowsAreLabelled, Binds, Where, Open, Closed,
       Final, Tied, Past, Halves, Ends

LEMMA ScoredStep == ASSUME IInv, Scored PROVE OInv'
<1> USE DEF IInv, OInv
<1>1. PICK new \in {score, score + 1} : TeamScore(new) BY DEF Scored
<1>2. /\ score' = new /\ new \in Nat /\ stage \in {"play", "ended"}
      /\ UNCHANGED <<stage, tuple, cur, pending, halfEndAt, ends>>
  BY <1>1 DEF Scored, TeamScore, TypeOK, handler, halfEnd
<1>3. CASE Current(bound, cur) /\ Changed
  <2>1. Emit(bound, cur, "change") BY <1>1, <1>3 DEF TeamScore
  <2>2. bound \in Bound /\ cur \in Tuple /\ bound.for = cur /\ bound # Null /\ cur # Null
    BY <1>3, CurrentType DEF Current
  <2>3. /\ bound'.for = bound.for /\ bound'.sides = bound.sides /\ bound'.seq = bound.seq + 1
        /\ bound'.last = score' /\ bound'.final = bound.final
        /\ row' = [for |-> cur, sides |-> bound.sides, kind |-> "change",
                   seq |-> bound.seq + 1, score |-> score']
        /\ bound' # Null /\ row' # Null
    BY <2>1, <2>2, <1>2, EmitType
  <2>4. bound.final = FALSE BY <1>3 DEF Changed
  <2>5. tuple = cur BY <2>2 DEF Where
  <2>6. Sides' BY <1>2, <2>2, <2>3 DEF Sides, RowsAreLabelled
  <2>7. Binds' BY <2>2, <2>3 DEF Binds
  <2>8. Where' BY <1>2, <2>2, <2>3 DEF Where
  <2>9. Open' BY <1>2, <2>3, <2>4 DEF Open
  <2>10. stage = "ended" => tuple.half # 1 BY <2>2, <2>4 DEF Closed
  <2>11. Closed' /\ Final' BY <1>2, <2>3, <2>10 DEF Closed, Final, Tied, Played
  <2>12. Past' BY <1>2, <2>2, <2>3, <2>5, TupleType DEF Past
  <2>13. Halves' /\ Ends' BY <1>2 DEF Halves, Ends
  <2> QED BY <2>6, <2>7, <2>8, <2>9, <2>11, <2>12, <2>13
<1>4. CASE ~(Current(bound, cur) /\ Changed)
  <2>1. UNCHANGED <<bound, row>> BY <1>1, <1>4 DEF TeamScore
  <2>2. Open'
    <3> SUFFICES ASSUME stage \in Played, bound # Null PROVE bound.last = score' /\ bound.final = FALSE
      BY <1>2, <2>1 DEF Open
    <3>1. bound.final = FALSE BY DEF Open
    <3>2. Current(bound, cur) BY <1>2 DEF Where, Current, Halves
    <3> QED BY <1>4, <3>1, <3>2 DEF Changed
  <2> QED BY <1>2, <2>1, <2>2 DEF Sides, RowsAreLabelled, Binds, Where, Closed, Final, Tied, Past, Halves, Ends
<1> QED BY <1>3, <1>4

\* What may start comes after every half that was played.
LEMMA StartableIsNew ==
    ASSUME IInv, NEW t \in Tuple, t \in Startable, stage \in {"ready", "break"}
    PROVE  /\ row # Null => row.for # t
           /\ row # Null => row.for.match <= t.match /\ (row.for.match = t.match => row.for.half <= t.half)
<1> USE DEF IInv, OInv
<1>1. CASE row = Null BY <1>1
<1>2. CASE row # Null /\ stage = "break"
  <2>1. tuple # Null /\ tuple \in Tuple /\ tuple.half \in {1, 2} BY <1>2 DEF Halves, TypeOK
  <2>2. t = [tuple EXCEPT !.half = NextHalf[@]] BY <1>2 DEF Startable
  <2>3. t.match = tuple.match /\ t.half = NextHalf[tuple.half] BY <2>1, <2>2 DEF Tuple
  <2>4. t.half > tuple.half BY <2>1, <2>3 DEF NextHalf, Half
  <2>5. row.for \in Tuple BY <1>2 DEF TypeOK, Row
  <2>6. row.for.match <= tuple.match /\ (row.for.match = tuple.match => row.for.half <= tuple.half)
    BY <1>2 DEF Past
  <2> QED BY <2>1, <2>3, <2>4, <2>5, <2>6, TupleType
<1>3. CASE row # Null /\ stage = "ready"
  <2>1. tuple # Null /\ tuple \in Tuple BY <1>3 DEF Past, TypeOK
  <2>2. t.match = 1 + tuple.match BY <1>3, <2>1 DEF Startable
  <2>3. row.for \in Tuple BY <1>3 DEF TypeOK, Row
  <2>4. row.for.match <= tuple.match BY <1>3 DEF Past
  <2> QED BY <2>1, <2>2, <2>3, <2>4, TupleType
<1> QED BY <1>1, <1>2, <1>3

LEMMA StartStep ==
    ASSUME IInv, NEW t \in Tuple, NEW restored \in 0..MaxScore, ktp_match_start(t, restored)
    PROVE  OInv'
<1> USE DEF IInv, OInv
<1>1. /\ stage \in {"ready", "break"} /\ t \in Startable
      /\ stage' = "countdown" /\ tuple' = t /\ score' = restored /\ halfEndAt' = Null /\ ends' = 0
      /\ cur' = t /\ pending' = Null
  BY DEF ktp_match_start, FreshHalfEnd
<1>2. t # Null BY SentinelAssumption
<1>3. Halves' /\ Ends' BY <1>1, <1>2 DEF Halves, Ends, Played
<1>4. CASE Binding(t) = Null
  <2>1. bound' = Null /\ row' = row BY <1>4 DEF ktp_match_start
  <2>2. bound = Null \/ stage \notin Played BY <1>1 DEF Played
  <2>3. row # Null => row.kind = "final" BY <1>1, <2>2 DEF Final, Tied, Played
  <2>4. Past' BY <1>1, <1>2, <2>1, StartableIsNew DEF Past
  <2> QED BY <1>1, <1>3, <2>1, <2>3, <2>4
      DEF Sides, RowsAreLabelled, Binds, Where, Open, Closed, Final
<1>5. CASE Binding(t) # Null
  <2>1. Emit(Binding(t), t, "baseline") BY <1>5 DEF ktp_match_start
  <2>2. /\ Binding(t) \in Bound /\ pending # Null /\ pending.for = t
        /\ Binding(t) = [for |-> t, sides |-> pending.sides, seq |-> 0, last |-> Null, final |-> FALSE]
    BY <1>5, BindingType
  <2>3. pending.sides = t BY <2>2 DEF Sides
  <2>4. score' \in Nat BY <1>1, ConstantTypes
  <2>5. /\ bound'.for = Binding(t).for /\ bound'.sides = Binding(t).sides
        /\ bound'.seq = Binding(t).seq + 1 /\ bound'.last = score' /\ bound'.final = Binding(t).final
        /\ row' = [for |-> t, sides |-> Binding(t).sides, kind |-> "baseline",
                   seq |-> Binding(t).seq + 1, score |-> score']
        /\ bound' # Null /\ row' # Null
    BY <2>1, <2>2, <2>4, EmitType
  <2>6. Binding(t).for = t /\ Binding(t).sides = t /\ Binding(t).seq = 0 /\ Binding(t).final = FALSE
    BY <2>2, <2>3
  <2>7. Sides' BY <1>1, <2>5, <2>6 DEF Sides, RowsAreLabelled
  <2>8. Binds' /\ Where' /\ Open' /\ Closed' BY <1>1, <2>5, <2>6 DEF Binds, Where, Open, Closed
  <2>9. Final' /\ Past' BY <1>1, <1>2, <2>5, TupleType DEF Final, Played, Past
  <2> QED BY <1>3, <2>7, <2>8, <2>9
<1> QED BY <1>4, <1>5

\* A final row of the binding, as the half or the match ends.
LEMMA FinalEmitted ==
    ASSUME IInv, Current(bound, cur), Emit(bound, cur, "final"), score' = score
    PROVE  /\ bound'.for = bound.for /\ bound'.sides = bound.sides
           /\ bound'.seq = bound.seq + 1 /\ bound'.last = score'
           /\ cur' # Null => bound'.final = TRUE
           /\ row' = [for |-> cur, sides |-> bound.sides, kind |-> "final",
                      seq |-> bound.seq + 1, score |-> score']
           /\ bound' # Null /\ row' # Null /\ bound # Null /\ cur # Null
           /\ bound.for = cur /\ bound.sides = cur /\ tuple = cur /\ cur \in Tuple
<1> USE DEF IInv, OInv
<1>1. bound \in Bound /\ cur \in Tuple /\ bound.for = cur /\ bound # Null /\ cur # Null
  BY CurrentType DEF Current
<1>2. score' \in Nat BY DEF TypeOK
<1>3. tuple = cur BY <1>1 DEF Where
<1>4. bound.sides = cur BY <1>1 DEF Sides
<1> QED BY <1>1, <1>2, <1>3, <1>4, EmitType

LEMMA HalfEndStep == ASSUME IInv, ktp_half_end PROVE OInv'
<1> USE DEF IInv, OInv
<1>1. /\ stage \in {"play", "ended"} /\ tuple.half = 1 /\ stage' = "ended"
      /\ UNCHANGED <<tuple, score, cur, pending>> /\ (stage = "ended" => Repeated)
  BY DEF ktp_half_end, engine
<1>2. CASE Repeated
  <2>1. stage = "ended" BY <1>1, <1>2 DEF Repeated, Ends, Played
  <2> QED BY <1>1, <1>2, <2>1, Frame DEF ktp_half_end, scored, halfEnd, official
<1>3. CASE ~Repeated
  <2>1. stage = "play" BY <1>1, <1>3
  <2>2. ends' = ends + 1 BY <1>3 DEF ktp_half_end
  <2>3. ends' = 1 BY <2>1, <2>2 DEF Ends, Played
  <2>4. tuple # Null BY <2>1 DEF Halves, Played
  <2>5. Halves' /\ Ends' BY <1>1, <2>3, <2>4 DEF Halves, Ends, Played
  <2>6. CASE Current(bound, cur) /\ cur = tuple
    <3>1. Emit(bound, cur, "final") BY <1>3, <2>6 DEF ktp_half_end
    <3>2. /\ bound'.for = cur /\ bound'.sides = cur
          /\ bound'.seq = bound.seq + 1 /\ bound'.last = score' /\ bound'.final = TRUE
          /\ row' = [for |-> cur, sides |-> cur, kind |-> "final", seq |-> bound.seq + 1, score |-> score']
          /\ bound' # Null /\ row' # Null /\ cur # Null /\ tuple = cur /\ cur \in Tuple
      BY <1>1, <2>6, <3>1, FinalEmitted
    <3>3. Sides' BY <1>1, <3>2 DEF Sides, RowsAreLabelled
    <3>4. Binds' /\ Where' /\ Open' /\ Closed' BY <1>1, <3>2 DEF Binds, Where, Open, Closed, Played
    <3>5. Final' /\ Past' BY <1>1, <3>2, TupleType DEF Final, Past
    <3> QED BY <2>5, <3>3, <3>4, <3>5
  <2>7. CASE ~(Current(bound, cur) /\ cur = tuple)
    <3>1. bound = Null BY <2>1, <2>4, <2>7 DEF Where, Current
    <3>2. bound' = bound /\ row' = row BY <1>3, <2>7 DEF ktp_half_end
    <3>3. row # Null => row.kind = "final" BY <3>1 DEF Final
    <3> QED BY <1>1, <2>5, <3>1, <3>2, <3>3
        DEF Sides, RowsAreLabelled, Binds, Where, Open, Closed, Final, Past
  <2> QED BY <2>6, <2>7
<1> QED BY <1>2, <1>3

LEMMA MatchEndStep == ASSUME IInv, ktp_match_end PROVE OInv'
<1> USE DEF IInv, OInv
<1>1. /\ stage \in {"countdown", "play", "ended", "break"} /\ stage' = "idle" /\ cur' = Null
      /\ UNCHANGED <<tuple, score, pending, halfEndAt, ends>>
  BY DEF ktp_match_end, engine, halfEnd
<1>2. Halves' /\ Ends' BY <1>1 DEF Halves, Ends, Played
<1>3. CASE Current(bound, cur)
  <2>1. Emit(bound, cur, "final") BY <1>3 DEF ktp_match_end
  <2>2. /\ bound'.for = cur /\ bound'.sides = cur
        /\ bound'.seq = bound.seq + 1 /\ bound'.last = score'
        /\ row' = [for |-> cur, sides |-> cur, kind |-> "final", seq |-> bound.seq + 1, score |-> score']
        /\ bound' # Null /\ row' # Null /\ cur # Null /\ tuple = cur /\ cur \in Tuple
    BY <1>1, <1>3, <2>1, FinalEmitted
  <2>3. Sides' BY <1>1, <2>2 DEF Sides, RowsAreLabelled
  <2>4. Binds' /\ Where' /\ Open' /\ Closed' BY <1>1, <2>2 DEF Binds, Where, Open, Closed, Played
  <2>5. Final' /\ Past' BY <1>1, <2>2, TupleType DEF Final, Past
  <2> QED BY <1>2, <2>3, <2>4, <2>5
<1>4. CASE ~Current(bound, cur)
  <2>1. bound' = bound /\ row' = row BY <1>4 DEF ktp_match_end
  <2>2. bound = Null BY <1>1, <1>4 DEF Where, Current, Halves, Played
  <2>3. row # Null => row.kind = "final" BY <2>2 DEF Final
  <2> QED BY <1>1, <1>2, <2>1, <2>2, <2>3
      DEF Sides, RowsAreLabelled, Binds, Where, Open, Closed, Final, Past
<1> QED BY <1>3, <1>4

LEMMA ChangeLevelStep ==
    ASSUME IInv, NEW same \in BOOLEAN, NEW times \in {1, 2}, NEW kept \in BOOLEAN,
           ChangeLevel(same, times, kept)
    PROVE  OInv'
<1> USE DEF IInv, OInv
<1>1. /\ stage \notin Played /\ stage' = StageAfter(same) /\ LastFinals(times)
      /\ pending' = Null /\ bound' = Null /\ tuple' = tuple /\ score' = 0
  BY DEF ChangeLevel, Played
<1>2. ends' = ends BY DEF ChangeLevel, KeepGlobals, LoseGlobals, halfEnd
<1>3. /\ stage' \in {"idle", "break", "away"}
      /\ stage' \in {"break", "away"} => stage \in {"ended", "break", "away"}
  BY <1>1 DEF StageAfter
<1>4. Halves' /\ Ends' BY <1>1, <1>2, <1>3 DEF Halves, Ends, Played
<1>5. CASE Current(bound, cur)
  <2>1. bound # Null /\ cur # Null /\ bound.for = cur /\ cur \in Tuple
    BY <1>5, CurrentType DEF Current
  <2>2. row' = [for |-> cur, sides |-> bound.sides, kind |-> "final",
                seq |-> bound.seq + times, score |-> score]
    BY <1>1, <1>5 DEF LastFinals
  <2>3. tuple = cur /\ bound.sides = cur BY <2>1 DEF Where, Sides
  <2>4. Past' /\ Final' BY <1>1, <2>1, <2>2, <2>3, TupleType DEF Past, Final
  <2>5. Sides' BY <1>1, <2>2, <2>3 DEF Sides, RowsAreLabelled
  <2> QED BY <1>1, <1>4, <2>4, <2>5 DEF Binds, Where, Open, Closed
<1>6. CASE ~Current(bound, cur)
  <2>1. row' = row BY <1>1, <1>6 DEF LastFinals
  <2>2. row # Null => row.kind = "final"
    <3>1. CASE bound = Null BY <3>1 DEF Final
    <3>2. CASE bound # Null
      <4>1. stage \in {"idle", "ready"} BY <1>1, <1>6, <3>2 DEF Where, Current, Halves, Played
      <4> QED BY <1>1, <4>1 DEF Final, Tied
    <3> QED BY <3>1, <3>2
  <2> QED BY <1>1, <1>4, <2>1, <2>2
      DEF Sides, RowsAreLabelled, Binds, Where, Open, Closed, Final, Past
<1> QED BY <1>5, <1>6

\* The steps that only move the match on.
LEMMA StageStep ==
    ASSUME IInv, UNCHANGED <<tuple, score, halfEnd, official>>,
           \/ stage = "countdown" /\ stage' = "play"
           \/ stage \in {"idle", "ready"} /\ stage' \in {"idle", "ready"}
           \/ stage = "away" /\ stage' = "idle"
           \/ stage = "play" /\ stage' = "ended" /\ tuple.half = 2
    PROVE  OInv'
<1> USE DEF IInv, OInv
<1>1. UNCHANGED <<tuple, score, halfEndAt, ends, cur, pending, bound, row>> BY DEF halfEnd, official
<1>2. Sides' /\ Binds' /\ Past' BY <1>1 DEF Sides, RowsAreLabelled, Binds, Past
<1>3. Where' BY <1>1 DEF Where
<1>4. Open' /\ Closed' BY <1>1 DEF Open, Closed, Played
<1>5. Final' BY <1>1 DEF Final, Tied, Played
<1>6. Halves' /\ Ends' BY <1>1 DEF Halves, Ends, Played
<1> QED BY <1>2, <1>3, <1>4, <1>5, <1>6

LEMMA SideMapStep ==
    ASSUME IInv, NEW t \in Tuple, NEW valid \in BOOLEAN, ktp_match_side_map(t, valid)
    PROVE  OInv'
<1> USE DEF IInv, OInv
<1>1. /\ pending' = IF valid THEN [for |-> t, sides |-> t] ELSE Null
      /\ UNCHANGED <<stage, tuple, score, halfEndAt, ends, cur, bound, row>>
  BY DEF ktp_match_side_map, handler, engine, halfEnd
<1>2. Sides' BY <1>1 DEF Sides, RowsAreLabelled
<1> QED BY <1>1, <1>2 DEF Binds, Where, Open, Closed, Final, Tied, Past, Halves, Ends

LEMMA Step == ASSUME IInv, [Next]_vars PROVE IInv'
<1>14. TypeOK' BY TypeStep DEF IInv
<1> SUFFICES OInv' BY <1>14 DEF IInv
<1>0. OInv BY DEF IInv
<1> USE DEF handler, engine, scored, halfEnd, official
<1>1. CASE InitConfig BY <1>0, <1>1, Frame DEF InitConfig
<1>2. CASE FallbackRewipe BY <1>0, <1>2, Frame DEF FallbackRewipe
<1>3. CASE RoundState BY <1>0, <1>3, Frame DEF RoundState
<1>4. CASE Kill BY <1>0, <1>4, Frame DEF Kill
<1>5. CASE Edge BY <1>5, StageStep DEF Edge
<1>6. ASSUME NEW n \in 1..MaxWave, Wave(n) PROVE OInv' BY <1>0, <1>6, Frame DEF Wave
<1>8. CASE ReadyUp BY <1>8, StageStep DEF ReadyUp
<1>9. CASE Tie BY <1>9, StageStep DEF Tie
<1>10. CASE SaveMode BY <1>0, <1>10, Frame DEF SaveMode
<1>11. CASE ClearMode BY <1>11, StageStep DEF ClearMode
<1>12. CASE Tick BY <1>0, <1>12, Frame DEF Tick
<1>13. CASE UNCHANGED vars BY <1>0, <1>13, Frame DEF vars
<1> QED
  BY <1>1, <1>2, <1>3, <1>4, <1>5, <1>6, <1>8, <1>9, <1>10, <1>11, <1>12, <1>13,
     ScoredStep, StartStep, HalfEndStep, MatchEndStep, ChangeLevelStep, SideMapStep, LifecycleAssumption
  DEF Next

LEMMA Start == ASSUME Init PROVE IInv
<1>1. TypeOK
  <2>1. stage \in Stage /\ mode \in Mode /\ said \in Phases BY DEF Init, Stage, Mode, Phases
  <2>2. url \in BOOLEAN /\ live \in BOOLEAN /\ latch \in BOOLEAN /\ awaiting \in BOOLEAN BY DEF Init
  <2>3. roster \in Nat /\ initAt \in Nat BY ConstantTypes DEF Init
  <2> QED BY <2>1, <2>2, <2>3 DEF Init, TypeOK
<1>2. OInv
  BY DEF Init, OInv, Sides, RowsAreLabelled, Binds, Where, Open, Closed, Final, Past, Halves, Ends, Played
<1> QED BY <1>1, <1>2 DEF IInv

LEMMA Inductive == Spec => []IInv
<1>1. Init => IInv BY Start
<1>2. IInv /\ [Next]_vars => IInv' BY Step
<1> QED BY <1>1, <1>2, PTL DEF Spec

-----------------------------------------------------------------------------
(* The order of the rows.                                                  *)

Ordered ==
    row # Null /\ row' # row /\ row'.for = row.for =>
        row'.seq > row.seq /\ (row.kind = "final" => row'.kind = "final")

\* A row under the binding has a number that the binding has yet to give out.
LEMMA Numbered ==
    ASSUME IInv, Current(bound, cur), NEW n \in Nat \ {0}, row'.seq = bound.seq + n
    PROVE  row'.seq > row.seq
<1>1. bound \in Bound /\ bound # Null BY CurrentType DEF IInv, Current
<1>2. bound.seq \in Nat BY <1>1 DEF Bound
<1>3. row.seq = bound.seq BY <1>1 DEF IInv, OInv, Binds
<1> QED BY <1>2, <1>3

LEMMA OrderStep == ASSUME IInv, [Next]_vars PROVE Ordered
<1>1. CASE UNCHANGED row BY <1>1 DEF Ordered
<1>2. CASE Scored
  <2>1. PICK new \in {score, score + 1} : TeamScore(new) BY <1>2 DEF Scored
  <2>2. CASE Current(bound, cur) /\ Changed
    <3>1. bound \in Bound /\ cur \in Tuple /\ bound # Null /\ cur # Null
      BY <2>2, CurrentType DEF IInv, Current
    <3>2. Emit(bound, cur, "change") BY <2>1, <2>2 DEF TeamScore
    <3>3. row'.seq = bound.seq + 1 BY <3>2 DEF Emit
    <3>4. bound.final = FALSE BY <2>2 DEF Changed
    <3>5. row.kind # "final" BY <3>1, <3>4 DEF IInv, OInv, Binds
    <3> QED BY <2>2, <3>3, <3>5, Numbered DEF Ordered
  <2>3. CASE ~(Current(bound, cur) /\ Changed) BY <1>1, <2>1, <2>3 DEF TeamScore
  <2> QED BY <2>2, <2>3
<1>3. ASSUME NEW t \in Tuple, NEW restored \in 0..MaxScore, ktp_match_start(t, restored)
      PROVE  Ordered
  <2>1. /\ stage \in {"ready", "break"} /\ t \in Startable /\ score' = restored
    BY <1>3 DEF ktp_match_start
  <2>2. CASE Binding(t) = Null BY <1>1, <1>3, <2>2 DEF ktp_match_start
  <2>3. CASE Binding(t) # Null
    <3>1. Emit(Binding(t), t, "baseline") BY <1>3, <2>3 DEF ktp_match_start
    <3>2. row'.for = t BY <3>1 DEF Emit
    <3> QED BY <2>1, <3>2, StartableIsNew DEF Ordered
  <2> QED BY <2>2, <2>3
<1>4. ASSUME Current(bound, cur), Emit(bound, cur, "final") PROVE Ordered
  <2>1. row'.seq = bound.seq + 1 /\ row'.kind = "final" BY <1>4 DEF Emit
  <2> QED BY <1>4, <2>1, Numbered DEF Ordered
<1>5. CASE ktp_half_end BY <1>1, <1>4, <1>5 DEF ktp_half_end
<1>6. CASE ktp_match_end BY <1>1, <1>4, <1>6 DEF ktp_match_end
<1>7. ASSUME NEW same \in BOOLEAN, NEW times \in {1, 2}, NEW kept \in Globals,
             ChangeLevel(same, times, kept)
      PROVE  Ordered
  <2>1. LastFinals(times) BY <1>7 DEF ChangeLevel
  <2>2. CASE Current(bound, cur)
    <3>1. row'.seq = bound.seq + times /\ row'.kind = "final" BY <2>1, <2>2 DEF LastFinals
    <3> QED BY <2>2, <3>1, Numbered DEF Ordered
  <2>3. CASE ~Current(bound, cur) BY <1>1, <2>1, <2>3 DEF LastFinals
  <2> QED BY <2>2, <2>3
<1>8. CASE \/ InitConfig \/ FallbackRewipe \/ RoundState \/ Kill \/ Edge
           \/ \E n \in 1..MaxWave : Wave(n)
           \/ \E t \in Tuple, valid \in BOOLEAN : ktp_match_side_map(t, valid)
           \/ ReadyUp \/ Tie \/ SaveMode \/ ClearMode \/ Tick \/ UNCHANGED vars
  <2>1. UNCHANGED row
    BY <1>8
    DEF InitConfig, FallbackRewipe, RoundState, Kill, Edge, Wave, ktp_match_side_map,
        ReadyUp, Tie, SaveMode, ClearMode, Tick, official, vars
  <2> QED BY <1>1, <2>1
<1> QED BY <1>2, <1>3, <1>5, <1>6, <1>7, <1>8 DEF Next

-----------------------------------------------------------------------------
(* The theorems.                                                           *)

\* The state of the plugin and of the match keeps its types, at any bounds.
THEOREM TypeCorrect == Spec => []TypeOK
<1>1. IInv => TypeOK BY DEF IInv
<1> QED BY <1>1, Inductive, PTL

\* Whatever side maps came or did not, a row has the sides of its own half.
THEOREM NeverMislabelled == Spec => []RowsAreLabelled
<1>1. IInv => RowsAreLabelled BY DEF IInv, OInv, Sides
<1> QED BY <1>1, Inductive, PTL

\* A half that is played under a side map has its score in the last row.
THEOREM ScoreAlwaysFiled == Spec => []ScoreIsFiled
<1>1. IInv => ScoreIsFiled BY DEF IInv, OInv, Where, Open, Binds, ScoreIsFiled, Played
<1> QED BY <1>1, Inductive, PTL

\* However a half, a match or a level ends, its last row is a final one.
THEOREM EveryHalfHasFinal == Spec => []HalfHasFinal
<1>1. IInv => HalfHasFinal BY DEF IInv, OInv, Final, Tied, Played, HalfHasFinal
<1> QED BY <1>1, Inductive, PTL

\* The end of a first half is told exactly once.
THEOREM HalfEndsOnlyOnce == Spec => []HalfEndsOnce
<1>1. IInv => HalfEndsOnce BY DEF IInv, OInv, Ends, HalfEndsOnce
<1> QED BY <1>1, Inductive, PTL

\* The rows of a half are numbered upwards, and a final row is followed by
\* final rows only, also across the hooks of a level change.
THEOREM RowsStayInOrder == Spec => RowsInOrder
<1>1. IInv /\ [Next]_vars => [Ordered]_vars BY OrderStep
<1>2. [Ordered]_vars
      => [row # Null /\ row' # row /\ row'.for = row.for =>
            row'.seq > row.seq /\ (row.kind = "final" => row'.kind = "final")]_vars
  BY DEF Ordered
<1> QED BY <1>1, <1>2, Inductive, PTL DEF Spec, RowsInOrder

-----------------------------------------------------------------------------
(***************************************************************************)
(* The phase that is posted, and the wipe when a half goes live: for any   *)
(* number of matches, any rosters, delays and level changes, as long as no *)
(* burst of respawns is seen before the countdown is over.                 *)
(***************************************************************************)
\* Players that respawn during the countdown are too few for a burst, and the
\* fallback is due after it.
QuietCountdown == BurstWindow = 0 /\ MaxWave < Burst /\ RewipeSlack > 0

\* What the plugin remembers of the course of the match is what happened.
Course ==
    /\ endedAt = over
    /\ stage \in {"countdown", "play", "ended", "break", "away"} => over = Null
    /\ live = (stage \in Played \/ Tied)
    /\ latch = (stage = "ended" /\ tuple.half = 1)

\* A mode of the handler that is believed is that of the coming half, while a match
\* waits for it.
ModeFits ==
    /\ stage = "break" => here /\ mode = IF tuple.half = 1 THEN "h2" ELSE "ot"
    /\ stage = "away" => ~here /\ mode = IF tuple.half = 1 THEN "h2" ELSE "ot"

\* Nothing ends the wait for play before the countdown is over.
Waiting ==
    stage = "countdown" =>
        /\ awaiting = TRUE
        /\ now <= edgeAt
        /\ wipeAt # Null => wipeAt > edgeAt - born + 1
        /\ burstAt <= GameTime
        /\ waveAt # now => spawns = 0 \/ burstAt < GameTime
        /\ url = TRUE => said = "golive"

\* What is counted while play is on.
Board ==
    stage \in {"play", "ended"} =>
        /\ awaiting = FALSE => kills <= frags
        /\ roster >= Burst => awaiting = FALSE /\ kills = frags

QInv == IInv /\ Course /\ ModeFits /\ Waiting /\ Board

-----------------------------------------------------------------------------
(* The course of the match.                                                *)

LEMMA CourseFrame ==
    ASSUME Course, ModeFits, UNCHANGED <<handler, phase>> PROVE Course' /\ ModeFits'
BY DEF Course, ModeFits, handler, phase, Tied, Played

LEMMA CourseStart ==
    ASSUME NEW t \in Tuple, NEW restored \in 0..MaxScore, ktp_match_start(t, restored)
    PROVE  Course' /\ ModeFits'
<1>1. stage' = "countdown" /\ over' = Null /\ endedAt' = Null /\ live' = TRUE /\ latch' = FALSE
  BY DEF ktp_match_start
<1> QED BY <1>1 DEF Course, ModeFits, Tied, Played

LEMMA CourseHalfEnd ==
    ASSUME IInv, Course, ModeFits, ktp_half_end PROVE Course' /\ ModeFits'
<1>1. /\ stage \in {"play", "ended"} /\ tuple.half = 1 /\ stage' = "ended"
      /\ UNCHANGED <<tuple, mode, here, over, endedAt>> /\ (stage = "ended" => Repeated)
  BY DEF ktp_half_end
<1>2. CASE Repeated
  <2>1. stage = "ended" BY <1>1, <1>2 DEF Repeated, IInv, OInv, Ends, Played
  <2>2. live' = live /\ latch' = latch BY <1>2 DEF ktp_half_end
  <2> QED BY <1>1, <2>1, <2>2 DEF Course, ModeFits, Tied, Played
<1>3. CASE ~Repeated
  <2>1. live' = FALSE /\ latch' = TRUE BY <1>3 DEF ktp_half_end
  <2> QED BY <1>1, <2>1 DEF Course, ModeFits, Tied, Played
<1> QED BY <1>2, <1>3

LEMMA CourseMatchEnd ==
    ASSUME IInv, ktp_match_end PROVE Course' /\ ModeFits'
<1>1. stage' = "idle" /\ over' = now /\ endedAt' = now /\ live' = FALSE /\ latch' = FALSE
  BY DEF ktp_match_end, EndedNow
<1>2. now # Null BY LifecycleAssumption DEF IInv, TypeOK
<1> QED BY <1>1, <1>2 DEF Course, ModeFits, Tied, Played

LEMMA CourseChangeLevel ==
    ASSUME IInv, Course, ModeFits, NEW same \in BOOLEAN, NEW times \in {1, 2}, NEW kept \in BOOLEAN,
           ChangeLevel(same, times, kept)
    PROVE  Course' /\ ModeFits'
<1>1. /\ stage \in {"idle", "ready", "ended", "break", "away"}
      /\ stage = "ended" => here /\ mode = IF tuple.half = 1 THEN "h2" ELSE "ot"
      /\ here' = same /\ UNCHANGED <<tuple, mode>>
  BY DEF ChangeLevel, IInv, TypeOK, Stage
<1>2. \/ stage \in {"idle", "ready"} /\ stage' = "idle"
      \/ stage \in {"ended", "break", "away"} /\ stage' = IF same THEN "break" ELSE "away"
  BY <1>1 DEF ChangeLevel, StageAfter
<1>3. live' = FALSE /\ latch' = FALSE BY DEF ChangeLevel, KeepGlobals, PhaseReset, LoseGlobals
<1>4. \/ kept /\ UNCHANGED <<over, endedAt>>
      \/ ~kept /\ over' = Null /\ endedAt' = Null
  BY DEF ChangeLevel, KeepGlobals, LoseGlobals
<1>5. Course' BY <1>2, <1>3, <1>4 DEF Course, Tied, Played
<1>6. ModeFits' BY <1>1, <1>2 DEF ModeFits
<1> QED BY <1>5, <1>6

LEMMA CourseStep == ASSUME IInv, Course, ModeFits, [Next]_vars PROVE Course' /\ ModeFits'
<1>1. CASE \/ InitConfig \/ FallbackRewipe \/ RoundState \/ Kill \/ Scored \/ Tick
           \/ \E n \in 1..MaxWave : Wave(n)
           \/ \E t \in Tuple, valid \in BOOLEAN : ktp_match_side_map(t, valid)
           \/ UNCHANGED vars
  <2>1. UNCHANGED <<handler, phase>>
    BY <1>1 DEF InitConfig, FallbackRewipe, RoundState, Kill, Scored, TeamScore, Tick, Wave,
                ktp_match_side_map, vars
  <2> QED BY <2>1, CourseFrame
<1>2. CASE Edge BY <1>2 DEF Edge, Course, ModeFits, Tied, Played, phase
<1>3. CASE ReadyUp BY <1>3 DEF ReadyUp, Course, ModeFits, Tied, Played, phase
<1>4. CASE Tie BY <1>4 DEF Tie, Course, ModeFits, Tied, Played, phase
<1>5. CASE SaveMode BY <1>5 DEF SaveMode, Course, ModeFits, Tied, Played, phase
<1>6. CASE ClearMode BY <1>6 DEF ClearMode, Course, ModeFits, Tied, Played, phase
<1> QED
  BY <1>1, <1>2, <1>3, <1>4, <1>5, <1>6, CourseStart, CourseHalfEnd, CourseMatchEnd,
     CourseChangeLevel, LifecycleAssumption
  DEF Next

-----------------------------------------------------------------------------
(* The countdown.                                                          *)

LEMMA RewipeEffect ==
    ASSUME TypeOK, Rewipe
    PROVE  \/ awaiting = TRUE /\ awaiting' = FALSE /\ kills' = 0 /\ PhaseTick
           \/ awaiting = FALSE /\ UNCHANGED <<awaiting, wipeAt, spawns, burstAt, kills, said>>
BY DEF Rewipe, TypeOK

\* Half a match is live, nobody ended it, and play was not seen yet.
LEMMA GoLivePhase ==
    ASSUME over' = Null, endedAt' = Null, live' = TRUE, awaiting' = TRUE
    PROVE  Phase' = "golive"
BY DEF Phase, Held

LEMMA WaitingStart ==
    ASSUME QuietCountdown, IInv, NEW t \in Tuple, NEW restored \in 0..MaxScore,
           ktp_match_start(t, restored)
    PROVE  Waiting'
<1>1. /\ over' = Null /\ endedAt' = Null /\ live' = TRUE /\ awaiting' = TRUE
      /\ edgeAt' = now + ClanTimer /\ spawns' = 0 /\ burstAt' = 0
      /\ wipeAt' = GameTime + ClanTimer + RewipeSlack
      /\ now' = now /\ born' = born /\ url' = url /\ PhaseTick
  BY DEF ktp_match_start, clocks, config
<1>2. url' = TRUE => said' = "golive" BY <1>1, GoLivePhase DEF PhaseTick
<1>3. now \in Nat /\ born \in Nat /\ born <= now BY DEF IInv, TypeOK
<1>4. now' <= edgeAt' /\ wipeAt' > edgeAt' - born' + 1 /\ burstAt' <= GameTime'
  BY <1>1, <1>3, ConstantTypes DEF QuietCountdown, GameTime
<1> QED BY <1>1, <1>2, <1>4 DEF Waiting

LEMMA WaitingWave ==
    ASSUME QuietCountdown, IInv, Waiting, NEW n \in 1..MaxWave, Wave(n)
    PROVE  Waiting'
<1>1. /\ stage = "countdown" /\ waveAt # now /\ waveAt' = now /\ Spawned(n)
      /\ UNCHANGED <<stage, now, born, edgeAt, url>>
  BY DEF Wave, clocks, handler, config
<1>2. spawns \in Nat /\ burstAt \in Nat /\ GameTime \in Nat /\ n \in Nat /\ n < Burst
  BY GameTimeType, ConstantTypes DEF IInv, TypeOK, QuietCountdown
<1>3. awaiting = TRUE /\ burstAt <= GameTime /\ (spawns = 0 \/ burstAt < GameTime)
  BY <1>1 DEF Waiting
<1>4. InBurst => spawns = 0 BY <1>2, <1>3 DEF InBurst, QuietCountdown
<1>5. (IF InBurst THEN spawns + n ELSE n) < Burst BY <1>2, <1>4
<1>6. /\ burstAt' = IF InBurst THEN burstAt ELSE GameTime
      /\ UNCHANGED <<awaiting, wipeAt, kills, said>>
  BY <1>1, <1>3, <1>5 DEF Spawned
<1>7. burstAt' <= GameTime' BY <1>1, <1>2, <1>3, <1>6 DEF GameTime
<1> QED BY <1>1, <1>3, <1>6, <1>7 DEF Waiting

LEMMA WaitingTick ==
    ASSUME IInv, Course, Waiting, Tick PROVE Waiting'
<1> SUFFICES ASSUME stage = "countdown" PROVE Waiting'
  BY DEF Tick, handler, Waiting
<1>1. /\ now' = now + 1 /\ now < edgeAt /\ PhaseTick
      /\ UNCHANGED <<born, stage, over, endedAt, live, awaiting, edgeAt, wipeAt, burstAt, spawns, waveAt, url>>
  BY DEF Tick, handler, engine, config, phase, golive
<1>2. now \in Nat /\ born \in Nat /\ edgeAt \in Nat /\ burstAt \in Nat BY DEF IInv, TypeOK
<1>3. awaiting = TRUE /\ burstAt <= GameTime /\ (wipeAt # Null => wipeAt > edgeAt - born + 1)
  BY DEF Waiting
<1>4. over = Null /\ endedAt = Null /\ live = TRUE BY DEF Course, Played
<1>5. url' = TRUE => said' = "golive" BY <1>1, <1>3, <1>4, GoLivePhase DEF PhaseTick
<1>6. now' <= edgeAt' /\ burstAt' <= GameTime' /\ burstAt' < GameTime'
  BY <1>1, <1>2, <1>3 DEF GameTime
<1> QED BY <1>1, <1>3, <1>5, <1>6 DEF Waiting

LEMMA WaitingStep ==
    ASSUME QuietCountdown, IInv, Course, Waiting, [Next]_vars PROVE Waiting'
<1> USE DEF clocks, handler, engine, config, phase, golive
<1>1. CASE InitConfig
  <2> SUFFICES ASSUME stage = "countdown" PROVE Waiting' BY <1>1 DEF InitConfig, Waiting
  <2>1. /\ UNCHANGED <<now, born, stage, over, endedAt, live, awaiting, edgeAt, wipeAt, burstAt,
                       spawns, waveAt>>
        /\ PhaseTick
    BY <1>1 DEF InitConfig
  <2>2. over = Null /\ endedAt = Null /\ live = TRUE /\ awaiting = TRUE
    BY DEF Course, Played, Waiting
  <2>3. url' = TRUE => said' = "golive" BY <2>1, <2>2, GoLivePhase DEF PhaseTick
  <2> QED BY <2>1, <2>3 DEF Waiting, GameTime
<1>2. CASE FallbackRewipe
  <2> SUFFICES ASSUME stage = "countdown" PROVE FALSE BY <1>2 DEF FallbackRewipe, Waiting
  <2>1. wipeAt # Null /\ GameTime >= wipeAt /\ wipeAt \in Nat
    BY <1>2 DEF FallbackRewipe, IInv, TypeOK
  <2>2. now <= edgeAt /\ wipeAt > edgeAt - born + 1 BY <2>1 DEF Waiting
  <2>3. now \in Nat /\ born \in Nat /\ edgeAt \in Nat BY DEF IInv, TypeOK
  <2> QED BY <2>1, <2>2, <2>3 DEF GameTime
<1>3. CASE Kill \/ (\E t \in Tuple, valid \in BOOLEAN : ktp_match_side_map(t, valid)) \/ UNCHANGED vars
  BY <1>3 DEF Kill, ktp_match_side_map, vars, Waiting, GameTime
<1>4. CASE RoundState \/ Scored \/ Edge \/ ReadyUp \/ Tie \/ SaveMode \/ ClearMode \/ ktp_half_end \/ ktp_match_end
  <2>1. stage' # "countdown"
    BY <1>4 DEF RoundState, Scored, TeamScore, Edge, ReadyUp, Tie, SaveMode, ClearMode, ktp_half_end,
                ktp_match_end
  <2> QED BY <2>1 DEF Waiting
<1>5. ASSUME NEW same \in BOOLEAN, NEW times \in {1, 2}, NEW kept \in Globals,
             ChangeLevel(same, times, kept)
      PROVE  Waiting'
  BY <1>5 DEF ChangeLevel, StageAfter, Waiting
<1> QED BY <1>1, <1>2, <1>3, <1>4, <1>5, WaitingStart, WaitingWave, WaitingTick DEF Next

-----------------------------------------------------------------------------
(* The kills.                                                              *)

LEMMA BoardEdge == ASSUME QuietCountdown, IInv, Waiting, Edge PROVE Board'
<1>1. /\ stage = "countdown" /\ frags' = 0 /\ roster' = roster /\ Spawned(roster)
  BY DEF Edge
<1>2. awaiting = TRUE /\ spawns \in Nat /\ roster \in Nat /\ Burst \in Nat
  BY <1>1, ConstantTypes DEF Waiting, IInv, TypeOK
<1>3. CASE (IF InBurst THEN spawns + roster ELSE roster) < Burst
  <2>1. awaiting' = TRUE BY <1>1, <1>2, <1>3 DEF Spawned
  <2>2. ~(roster >= Burst) BY <1>2, <1>3
  <2> QED BY <1>1, <2>1, <2>2 DEF Board
<1>4. CASE ~((IF InBurst THEN spawns + roster ELSE roster) < Burst)
  <2>1. Rewipe BY <1>1, <1>4 DEF Spawned
  <2>2. awaiting' = FALSE /\ kills' = 0 BY <1>2, <2>1 DEF Rewipe
  <2> QED BY <1>1, <2>2 DEF Board
<1> QED BY <1>3, <1>4

LEMMA BoardRewipe ==
    ASSUME IInv, Board, Rewipe, UNCHANGED <<stage, frags, roster>> PROVE Board'
<1>1. frags \in Nat BY DEF IInv, TypeOK
<1>2. CASE awaiting = TRUE /\ awaiting' = FALSE /\ kills' = 0
  BY <1>1, <1>2 DEF Board
<1>3. CASE UNCHANGED <<awaiting, kills>> BY <1>3 DEF Board
<1> QED BY <1>2, <1>3, RewipeEffect DEF IInv

LEMMA BoardStep ==
    ASSUME QuietCountdown, IInv, Waiting, Board, [Next]_vars PROVE Board'
<1> USE DEF handler, engine, golive
<1>1. CASE FallbackRewipe BY <1>1, BoardRewipe DEF FallbackRewipe
<1>2. CASE RoundState
  <2>1. CASE GameTime > roundLive BY <1>2, <2>1 DEF RoundState, Board
  <2>2. CASE ~(GameTime > roundLive) BY <1>2, <2>2, BoardRewipe DEF RoundState
  <2> QED BY <2>1, <2>2
<1>3. CASE Kill
  <2>1. kills \in Nat /\ frags \in Nat BY DEF IInv, TypeOK
  <2> QED BY <1>3, <2>1 DEF Kill, Board
<1>4. CASE Scored BY <1>4 DEF Scored, TeamScore, Board
<1>5. CASE Tie BY <1>5 DEF Tie, Board
<1>6. CASE ktp_half_end BY <1>6 DEF ktp_half_end, Board
<1>7. CASE InitConfig \/ SaveMode \/ Tick \/ UNCHANGED vars
           \/ \E t \in Tuple, valid \in BOOLEAN : ktp_match_side_map(t, valid)
  BY <1>7 DEF InitConfig, SaveMode, Tick, ktp_match_side_map, vars, Board
<1>8. CASE ReadyUp \/ ClearMode \/ ktp_match_end \/ (\E n \in 1..MaxWave : Wave(n))
  BY <1>8 DEF ReadyUp, ClearMode, ktp_match_end, Wave, Board
<1>9. ASSUME NEW t \in Tuple, NEW restored \in 0..MaxScore, ktp_match_start(t, restored) PROVE Board'
  BY <1>9 DEF ktp_match_start, Board
<1>10. ASSUME NEW same \in BOOLEAN, NEW times \in {1, 2}, NEW kept \in Globals,
              ChangeLevel(same, times, kept)
       PROVE  Board'
  BY <1>10 DEF ChangeLevel, StageAfter, Board
<1> QED
  BY <1>1, <1>2, <1>3, <1>4, <1>5, <1>6, <1>7, <1>8, <1>9, <1>10, BoardEdge DEF Next

-----------------------------------------------------------------------------
(* The phase.                                                              *)

LEMMA QuietStart == ASSUME Init PROVE QInv
<1>1. IInv BY Start
<1>2. Course /\ ModeFits /\ Waiting /\ Board
  BY DEF Init, Course, ModeFits, Waiting, Board, Tied, Played
<1> QED BY <1>1, <1>2 DEF QInv

LEMMA QuietStep == ASSUME QuietCountdown, QInv, [Next]_vars PROVE QInv'
BY Step, CourseStep, WaitingStep, BoardStep DEF QInv

LEMMA QuietInvariant == ASSUME QuietCountdown PROVE Spec => []QInv
<1>1. Init => QInv BY QuietStart
<1>2. QInv /\ [Next]_vars => QInv' BY QuietStep
<1> QED BY <1>1, <1>2, PTL DEF Spec

\* What is computed from what the plugin remembers is what the match is doing.
LEMMA PhaseTold ==
    ASSUME QInv', said' = Phase' PROVE said' = TruePhase' \/ Unseen' \/ UnseenTie' \/ Forgotten'
<1> USE DEF QInv, Course
<1>1. stage' \in Stage /\ awaiting' \in BOOLEAN BY DEF IInv, TypeOK
<1>2. Held' = (over' # Null /\ now' - over' < Hold) BY DEF Held
<1>3. CASE Held'
  BY <1>2, <1>3 DEF Phase, TruePhase
<1> SUFFICES ASSUME ~Held' PROVE said' = TruePhase' \/ Unseen' \/ UnseenTie' \/ Forgotten'
  BY <1>3
<1>4. CASE stage' = "countdown"
  <2>1. live' = TRUE /\ awaiting' = TRUE BY <1>4 DEF Played, Waiting
  <2>2. Phase' = "golive" BY <2>1 DEF Phase
  <2>3. TruePhase' = "golive" BY <1>2, <1>4 DEF TruePhase
  <2> QED BY <2>2, <2>3
<1>5. CASE stage' = "play"
  <2>1. live' = TRUE BY <1>5 DEF Played
  <2>2. Phase' = IF awaiting' THEN "golive" ELSE "live" BY <2>1 DEF Phase
  <2>3. TruePhase' = "live" BY <1>2, <1>5 DEF TruePhase
  <2> QED BY <1>5, <2>2, <2>3 DEF Unseen
<1>6. CASE stage' = "ended" /\ tuple'.half = 1
  <2>1. live' = FALSE /\ latch' = TRUE BY <1>6 DEF Played, Tied
  <2>2. Phase' = "halftime" BY <2>1 DEF Phase
  <2>3. TruePhase' = "halftime" BY <1>2, <1>6 DEF TruePhase
  <2> QED BY <2>2, <2>3
<1>7. CASE stage' = "ended" /\ tuple'.half # 1
  <2>1. live' = TRUE BY <1>7 DEF Tied
  <2>2. Phase' \in {"golive", "live"} BY <2>1 DEF Phase
  <2> QED BY <1>7, <2>2 DEF UnseenTie
<1>8. CASE stage' = "break"
  <2>1. /\ live' = FALSE /\ latch' = FALSE /\ endedAt' = Null /\ here'
        /\ mode' = IF tuple'.half = 1 THEN "h2" ELSE "ot"
    BY <1>8 DEF Played, Tied, ModeFits
  <2>2. Phase' = IF tuple'.half = 1 THEN "halftime" ELSE "ot_break"
    BY <1>8, <2>1 DEF Phase, BreakHere
  <2>3. TruePhase' = IF tuple'.half = 1 THEN "halftime" ELSE "ot_break"
    BY <1>2, <1>8 DEF TruePhase
  <2> QED BY <2>2, <2>3
<1>9. CASE stage' \in {"idle", "ready", "away"}
  <2>1. live' = FALSE /\ latch' = FALSE BY <1>9 DEF Played, Tied
  <2>2. TruePhase' = IF stage' = "ready" THEN "pregame" ELSE "idle"
    BY <1>2, <1>9 DEF TruePhase
  <2>3. CASE ~BreakHere("h2")' /\ ~BreakHere("ot")'
    <3>1. Phase' = IF stage' = "ready" THEN "pregame" ELSE "idle"
      BY <1>9, <2>1, <2>3 DEF Phase, MatchActive
    <3> QED BY <2>2, <3>1
  <2>4. CASE BreakHere("h2")'
    <3>1. here' /\ endedAt' = Null /\ mode' = "h2" BY <2>4 DEF BreakHere
    <3>2. stage' \in {"idle", "ready"} BY <1>9, <3>1 DEF ModeFits
    <3>3. Phase' = "halftime" BY <2>1, <2>4 DEF Phase
    <3> QED BY <3>1, <3>2, <3>3 DEF Forgotten
  <2>5. CASE ~BreakHere("h2")' /\ BreakHere("ot")'
    <3>1. here' /\ endedAt' = Null /\ mode' = "ot" BY <2>5 DEF BreakHere
    <3>2. stage' \in {"idle", "ready"} BY <1>9, <3>1 DEF ModeFits
    <3>3. Phase' = "ot_break" BY <2>1, <2>5 DEF Phase
    <3> QED BY <3>1, <3>2, <3>3 DEF Forgotten
  <2> QED BY <2>3, <2>4, <2>5
<1> QED BY <1>1, <1>4, <1>5, <1>6, <1>7, <1>8, <1>9 DEF Stage

\* Only a poll lets time pass, and it says the phase if there is a URL.
LEMMA PollStep ==
    ASSUME [Next]_vars, now' # now, url PROVE said' = Phase'
<1> USE DEF clocks
<1>1. CASE Tick BY <1>1 DEF Tick, PhaseTick, config
<1>2. CASE \/ InitConfig \/ FallbackRewipe \/ RoundState \/ Kill \/ Edge \/ Scored \/ ReadyUp \/ Tie
           \/ SaveMode \/ ClearMode \/ ktp_half_end \/ ktp_match_end \/ UNCHANGED vars
           \/ \E n \in 1..MaxWave : Wave(n)
           \/ \E t \in Tuple, valid \in BOOLEAN : ktp_match_side_map(t, valid)
           \/ \E t \in Tuple, restored \in 0..MaxScore : ktp_match_start(t, restored)
           \/ \E same \in BOOLEAN, times \in {1, 2}, kept \in Globals : ChangeLevel(same, times, kept)
  BY <1>2
  DEF InitConfig, FallbackRewipe, RoundState, Kill, Edge, Scored, TeamScore, ReadyUp, Tie, SaveMode,
      ClearMode, ktp_half_end, ktp_match_end, vars, Wave, ktp_match_side_map, ktp_match_start,
      ChangeLevel
<1> QED BY <1>1, <1>2 DEF Next

GoesOnAir ==
    \/ stage' \in {"countdown", "play"}
    \/ stage' = "ended" /\ tuple.half = 1
    \/ stage' = "idle" /\ over' # over /\ over' # Null

\* What goes on air says the phase in its own step, or leaves the countdown
\* standing in which nothing was seen to begin.
LEMMA OnAirStep ==
    ASSUME QInv, [Next]_vars, url, stage' # stage, GoesOnAir
    PROVE  said' = Phase' \/ Unseen'
<1> USE DEF handler, config
<1>1. url = TRUE BY DEF QInv, IInv, TypeOK
<1>2. CASE Edge
  <2>1. stage = "countdown" /\ stage' = "play" /\ url' = url /\ Spawned(roster) BY <1>2 DEF Edge
  <2>2. awaiting = TRUE /\ said = "golive" BY <1>1, <2>1 DEF QInv, Waiting
  <2>3. CASE Rewipe BY <1>1, <2>1, <2>2, <2>3 DEF Rewipe, PhaseTick
  <2>4. CASE ~Rewipe
    <3>1. awaiting' = awaiting /\ said' = said BY <2>1, <2>4 DEF Spawned
    <3> QED BY <2>1, <2>2, <3>1 DEF Unseen
  <2> QED BY <2>3, <2>4
<1>3. ASSUME NEW t \in Tuple, NEW restored \in 0..MaxScore, ktp_match_start(t, restored)
      PROVE  said' = Phase'
  BY <1>1, <1>3 DEF ktp_match_start, PhaseTick
<1>4. CASE ktp_half_end
  <2>1. stage = "play" BY <1>4 DEF ktp_half_end
  <2>2. ~Repeated BY <2>1 DEF Repeated, QInv, IInv, OInv, Ends, Played
  <2> QED BY <1>1, <1>4, <2>2 DEF ktp_half_end, PhaseTick
<1>5. CASE ktp_match_end BY <1>1, <1>5 DEF ktp_match_end, PhaseTick
<1>6. CASE Tie BY <1>6 DEF Tie, GoesOnAir
<1>7. CASE ReadyUp \/ ClearMode BY <1>7 DEF ReadyUp, ClearMode, GoesOnAir
<1>8. ASSUME NEW same \in BOOLEAN, NEW times \in {1, 2}, NEW kept \in Globals,
             ChangeLevel(same, times, kept)
      PROVE  FALSE
  <2>1. stage' \in {"idle", "break", "away"} BY <1>8 DEF ChangeLevel, StageAfter
  <2>2. over' = over \/ over' = Null BY <1>8 DEF ChangeLevel, KeepGlobals, LoseGlobals
  <2> QED BY <2>1, <2>2 DEF GoesOnAir
<1>9. CASE \/ InitConfig \/ FallbackRewipe \/ RoundState \/ Kill \/ Scored \/ SaveMode \/ Tick \/ UNCHANGED vars
           \/ \E n \in 1..MaxWave : Wave(n)
           \/ \E t \in Tuple, valid \in BOOLEAN : ktp_match_side_map(t, valid)
  BY <1>9
  DEF InitConfig, FallbackRewipe, RoundState, Kill, Scored, TeamScore, SaveMode, Tick, vars, Wave,
      ktp_match_side_map
<1> QED BY <1>2, <1>3, <1>4, <1>5, <1>6, <1>7, <1>8, <1>9 DEF Next

LEMMA NoTieOnAir == ASSUME [Next]_vars, GoesOnAir PROVE ~UnseenTie'
<1> SUFFICES ASSUME stage' = "ended", tuple.half = 1 PROVE tuple' = tuple
  BY DEF GoesOnAir, UnseenTie
<1>1. ASSUME NEW t \in Tuple, NEW restored \in 0..MaxScore, ktp_match_start(t, restored)
      PROVE  FALSE
  BY <1>1 DEF ktp_match_start
<1>2. CASE \/ InitConfig \/ FallbackRewipe \/ RoundState \/ Kill \/ Edge \/ Scored \/ ReadyUp \/ Tie
           \/ SaveMode \/ ClearMode \/ ktp_half_end \/ ktp_match_end \/ Tick \/ UNCHANGED vars
           \/ \E n \in 1..MaxWave : Wave(n)
           \/ \E t \in Tuple, valid \in BOOLEAN : ktp_match_side_map(t, valid)
           \/ \E same \in BOOLEAN, times \in {1, 2}, kept \in Globals : ChangeLevel(same, times, kept)
  BY <1>2
  DEF InitConfig, FallbackRewipe, RoundState, Kill, Edge, Scored, TeamScore, ReadyUp, Tie, SaveMode,
      ClearMode, ktp_half_end, ktp_match_end, Tick, vars, Wave, ktp_match_side_map, ChangeLevel, handler
<1> QED BY <1>1, <1>2 DEF Next

\* The end of a match is not forgotten in the step in which it comes.
LEMMA NotForgottenOnAir == ASSUME QInv', GoesOnAir PROVE ~Forgotten'
<1> SUFFICES ASSUME stage' = "idle", over' # Null PROVE endedAt' # Null
  BY DEF GoesOnAir, Forgotten
<1> QED BY DEF QInv, Course

-----------------------------------------------------------------------------
(* The theorems.                                                           *)

\* Once a half is said to be live the overlay's kills are the engine's, and
\* with enough players none is missed, for any roster and any delays.
THEOREM ScoreboardAlwaysAgrees == ASSUME QuietCountdown PROVE Spec => []ScoreboardAgrees
<1>1. QInv => ScoreboardAgrees BY DEF QInv, Board, ScoreboardAgrees
<1> QED BY <1>1, QuietInvariant, PTL

\* After a poll the posted phase is what the match is doing, whatever mode the
\* handler leaves behind and wherever the server goes. Where a level loses the
\* plugin's globals, the mode of a match that is over may be said on its map.
THEOREM PhaseAlwaysTrue == ASSUME QuietCountdown PROVE Spec => PhaseIsTrue
<1> DEFINE Told == now' # now /\ url => said' = TruePhase' \/ Unseen' \/ UnseenTie' \/ Forgotten'
<1>1. QInv /\ QInv' /\ [Next]_vars => [Told]_vars BY PollStep, PhaseTold
<1>2. [Told]_vars => [now' # now /\ url => said' = TruePhase' \/ Unseen' \/ UnseenTie' \/ Forgotten']_vars
  OBVIOUS
<1> HIDE DEF Told
<1> QED BY <1>1, <1>2, QuietInvariant, PTL DEF Spec, PhaseIsTrue

\* The countdown, play, the end of a first half and of a match are posted in
\* the step in which they happen, or play is posted when it is seen.
THEOREM AlwaysOnAirAtOnce == ASSUME QuietCountdown PROVE Spec => OnAirAtOnce
<1> DEFINE Prompt == url /\ stage' # stage /\ GoesOnAir => said' = TruePhase' \/ Unseen'
<1>1. QInv /\ QInv' /\ [Next]_vars => [Prompt]_vars
  BY OnAirStep, NoTieOnAir, NotForgottenOnAir, PhaseTold
<1>2. [Prompt]_vars
      => [url /\ stage' # stage /\
          (\/ stage' \in {"countdown", "play"}
           \/ stage' = "ended" /\ tuple.half = 1
           \/ stage' = "idle" /\ over' # over /\ over' # Null)
            => said' = TruePhase' \/ Unseen']_vars
  BY DEF GoesOnAir
<1> HIDE DEF Prompt
<1> QED BY <1>1, <1>2, QuietInvariant, PTL DEF Spec, OnAirAtOnce
=============================================================================

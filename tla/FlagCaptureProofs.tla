-------------------------- MODULE FlagCaptureProofs --------------------------
(***************************************************************************)
(* Proofs about FlagCapture: its types, and that a flag which went to      *)
(* nobody is always told of, for any flags, players, delays and gaps and   *)
(* for restarts in any order.                                              *)
(*                                                                         *)
(* A snapshot must not be the last word while an announcement that is      *)
(* older than the restart is still due. The argument is about time: the    *)
(* window is open for longer than an announcement can wait (NeutralBlocks, *)
(* ResetWindow > DeferDelay), and as long as it is open a snapshot is set  *)
(* (WindowOwes), which puts itself off until it is over.                   *)
(***************************************************************************)
EXTENDS FlagCapture, FiniteSetTheorems, TLAPS

USE FlagAssumption DEF FlagAssumption, Team

Tracked == \A f \in Flag : Shown(owner[f]) = Truth[f]

InTime == \A f \in Flag : InFlight(f) =>
            emit[f].at <= now /\ now <= emit[f].at + DeferDelay

WindowRecent == until <= now + ResetWindow

Owed == snapAt # Null \/ lost

WindowOwes == (until > now => Owed) /\ (latch => Owed)

NeutralBlocks == \A f \in Flag : Truth[f] = Neutral /\ InFlight(f) =>
                   until > emit[f].at + DeferDelay

IInv == TypeOK /\ Tracked /\ InTime /\ WindowRecent /\ WindowOwes /\ NeutralBlocks /\ NeutralIsTold

-----------------------------------------------------------------------------
(* Operators.                                                              *)

LEMMA DelayType == DeferDelay \in Nat /\ ResetWindow \in Nat /\ HealAfter \in Nat /\ InitDelay \in Nat
OBVIOUS

LEMMA HomeType == Home \in [Flag -> Team \cup {Neutral}]
BY DEF Home

LEMMA TeamOfType == TeamOf \in [Player -> Team]
BY DEF TeamOf

LEMMA TruthType ==
  ASSUME TypeOK PROVE Truth \in [Flag -> Team \cup {Neutral}]
BY HomeType DEF Truth, TypeOK

\* Opening the window leaves a snapshot set, or lost by the environment.
LEMMA ArmWindowOwes ==
  ASSUME TypeOK, WindowOwes, WindowRecent, ArmWindow
  PROVE  /\ until' = now + ResetWindow
         /\ until <= until'
         /\ snapAt' # Null \/ lost'
         /\ until' \in Nat /\ latch' \in BOOLEAN /\ lost' \in BOOLEAN
         /\ snapAt' \in Nat \cup {Null}
  <1>1. CASE latch /\ now < until + DeferDelay + HealAfter
    BY <1>1, DelayType DEF ArmWindow, WindowOwes, Owed, TypeOK, WindowRecent
  <1>2. CASE ~(latch /\ now < until + DeferDelay + HealAfter)
    <2>1. until' = now + ResetWindow /\ snapAt' = now + ResetWindow + DeferDelay
      BY <1>2 DEF ArmWindow
    <2>2. now \in Nat /\ until \in Nat BY DEF TypeOK
    <2>3. snapAt' \in Nat BY <2>1, <2>2, DelayType
    <2>4. lost' = FALSE /\ latch' = TRUE BY <1>2 DEF ArmWindow
    <2>5. until' \in Nat /\ until <= until' BY <2>1, <2>2, DelayType DEF WindowRecent
    <2>6. snapAt' # Null BY <2>3
    <2> QED BY <2>1, <2>3, <2>4, <2>5, <2>6
  <1> QED BY <1>1, <1>2

\* What a report does to the plugin's state, whatever it is a report of.
LEMMA ReportTypes ==
  ASSUME TypeOK, WindowOwes, WindowRecent, NEW f \in Flag,
         NEW new \in Team \cup {Spectator}, ControlPointCaptured(f, new)
  PROVE  /\ owner' = [owner EXCEPT ![f] = new] 
         /\ lastBy' \in [Flag -> Team \cup {Neutral}]
         /\ batch' \in [Flag -> SUBSET Player]
         /\ until' \in Nat /\ latch' \in BOOLEAN /\ lost' \in BOOLEAN
         /\ snapAt' \in Nat \cup {Null}
         /\ until' = until \/ until' = now + ResetWindow
         /\ until <= until' /\ until' <= now + ResetWindow
         /\ until' = until => UNCHANGED window \/ (snapAt' # Null \/ lost')
         /\ until' # until => snapAt' # Null \/ lost'
         /\ UNCHANGED window \/ snapAt' # Null \/ lost'
  <1>1. CASE SameOwner(f, new)
    <2>1. owner = [owner EXCEPT ![f] = new] BY <1>1 DEF SameOwner, TypeOK, Owner
    <2> QED BY <1>1, <2>1 DEF SameOwner, DropStaleBatch, window, TypeOK, WindowRecent
  <1>2. CASE GoneNeutral(f, new)
    <2>1. batch' = [batch EXCEPT ![f] = IF InFlight(f) THEN @ ELSE {}]
      BY <1>2 DEF GoneNeutral, DropStaleBatch
    <2>2. batch' \in [Flag -> SUBSET Player] BY <2>1 DEF TypeOK
    <2>3. ArmWindow BY <1>2 DEF GoneNeutral
    <2>4. owner' = [owner EXCEPT ![f] = new] /\ lastBy' = lastBy BY <1>2 DEF GoneNeutral
    <2>5. lastBy' \in [Flag -> Team \cup {Neutral}] BY <2>4 DEF TypeOK
    <2>6. until' <= now + ResetWindow BY <2>3, ArmWindowOwes, DelayType DEF TypeOK
    <2> QED BY <2>3, <2>2, <2>4, <2>5, <2>6, ArmWindowOwes
  <1>3. CASE GoneHome(f, new)
    <2>1. batch' = [batch EXCEPT ![f] = IF InFlight(f) THEN @ ELSE {}]
      BY <1>3 DEF GoneHome, DropStaleBatch
    <2>2. batch' \in [Flag -> SUBSET Player] BY <2>1 DEF TypeOK
    <2>3. owner' = [owner EXCEPT ![f] = new] /\ lastBy' = lastBy /\ window' = window
      BY <1>3 DEF GoneHome
    <2>4. lastBy' \in [Flag -> Team \cup {Neutral}] BY <2>3 DEF TypeOK
    <2> QED BY <2>2, <2>3, <2>4 DEF window, TypeOK, WindowRecent
  <1>4. CASE Taken(f, new)
    <2>1. lastBy' \in [Flag -> Team \cup {Neutral}] BY <1>4 DEF Taken, TypeOK
    <2> QED BY <1>4, <2>1 DEF Taken, window, TypeOK, WindowRecent
  <1> QED BY <1>1, <1>2, <1>3, <1>4 DEF ControlPointCaptured

\* The emission of the flag is left alone, or armed now if a team has it.
LEMMA ReportArms ==
  ASSUME TypeOK, NEW f \in Flag, NEW new \in Team \cup {Spectator},
         ControlPointCaptured(f, new)
  PROVE  \/ emit' = emit
         \/ /\ new \in Team
            /\ \E c \in BOOLEAN : emit' = [emit EXCEPT ![f] = [owner |-> new, capout |-> c, at |-> now]]
  <1>1. CASE SameOwner(f, new) \/ GoneNeutral(f, new) \/ GoneHome(f, new)
    BY <1>1 DEF SameOwner, GoneNeutral, GoneHome
  <1>2. CASE Taken(f, new)
    <2>1. IsCapout(new, owner') \in BOOLEAN BY DEF IsCapout
    <2> QED BY <1>2, <2>1 DEF Taken
  <1> QED BY <1>1, <1>2 DEF ControlPointCaptured

-----------------------------------------------------------------------------
(* The invariant.                                                          *)

LEMMA Start == Init => IInv
  <1> SUFFICES ASSUME Init PROVE IInv OBVIOUS
  <1>1. TypeOK BY HomeType DEF Init, TypeOK, Owner
  <1>2. Tracked BY HomeType DEF Init, Tracked, Shown, Truth
  <1> QED BY <1>1, <1>2 DEF Init, IInv, InTime, InFlight, WindowRecent, WindowOwes, Owed,
                            NeutralBlocks, NeutralIsTold

(* What an owner read from dodx, or kept by the plugin, says of a flag.    *)

\* A snapshot of whatever reason but the heartbeat's shows the truth.
LEMMA SnapshotTells ==
  ASSUME TypeOK, AuthoritativeInit
  PROVE  /\ owner' \in [Flag -> Owner] /\ bar' \in [Flag -> Team \cup {Neutral}]
         /\ batch' \in [Flag -> SUBSET Player] /\ lastBy' \in [Flag -> Team \cup {Neutral}]
         /\ \A f \in Flag : Shown(owner'[f]) = Truth[f] /\ bar'[f] = Truth[f]
  <1>1. owner' = Truth /\ bar' = Truth BY DEF AuthoritativeInit, Read
  <1>2. batch' \in [Flag -> SUBSET Player] BY DEF AuthoritativeInit, Forgotten, TypeOK
  <1>3. lastBy' \in [Flag -> Team \cup {Neutral}] BY DEF AuthoritativeInit, Forgotten, TypeOK
  <1>4. \A f \in Flag : Shown(Truth[f]) = Truth[f] BY TruthType DEF Shown
  <1> QED BY <1>1, <1>2, <1>3, <1>4, TruthType DEF Owner

\* A report that tells the truth keeps the plugin's owners true.
LEMMA ReportTracks ==
  ASSUME TypeOK, Tracked, WindowOwes, WindowRecent, NEW f \in Flag,
         NEW new \in Team \cup {Spectator}, ControlPointCaptured(f, new),
         Truth'[f] = Shown(new), \A g \in Flag \ {f} : Truth'[g] = Truth[g]
  PROVE  Tracked' /\ owner' \in [Flag -> Owner]
  <1>1. owner' = [owner EXCEPT ![f] = new] BY ReportTypes
  <1> QED BY <1>1 DEF Tracked, TypeOK, Owner

\* The conjuncts of IInv that a report can disturb, when it tells the truth.
LEMMA ReportKeeps ==
  ASSUME TypeOK, Tracked, InTime, WindowRecent, WindowOwes, NeutralBlocks, NeutralIsTold,
         NEW f \in Flag, NEW new \in Team \cup {Spectator}, ControlPointCaptured(f, new),
         Truth'[f] = Shown(new), \A g \in Flag \ {f} : Truth'[g] = Truth[g],
         UNCHANGED <<now, initAt, bar>>
  PROVE  InTime' /\ WindowRecent' /\ WindowOwes' /\ NeutralBlocks' /\ NeutralIsTold'
  <1> USE DelayType
  <1>1. CASE SameOwner(f, new) \/ GoneHome(f, new)
    <2>1. emit' = emit /\ window' = window BY <1>1 DEF SameOwner, GoneHome
    <2>2. \A g \in Flag : Truth'[g] = Neutral => Truth[g] = Neutral
      <3>1. CASE SameOwner(f, new)
        BY <3>1 DEF SameOwner, Tracked
      <3>2. CASE GoneHome(f, new)
        BY <3>2 DEF GoneHome, Shown
      <3> QED BY <1>1, <3>1, <3>2
    <2>3. InTime' /\ NeutralBlocks' BY <2>1, <2>2 DEF InTime, NeutralBlocks, InFlight, window
    <2>4. WindowRecent' /\ WindowOwes' /\ NeutralIsTold'
      BY <2>1, <2>2 DEF WindowRecent, WindowOwes, Owed, NeutralIsTold, window
    <2> QED BY <2>3, <2>4
  <1>2. CASE GoneNeutral(f, new)
    <2>1. emit' = emit /\ ArmWindow BY <1>2 DEF GoneNeutral
    <2>2. until' = now + ResetWindow /\ (snapAt' # Null \/ lost') BY <2>1, ArmWindowOwes
    <2>3. \A g \in Flag : InFlight(g) => emit[g].at \in Nat /\ emit[g].at <= now
      BY DEF InTime, InFlight, TypeOK, Emission
    <2>4. InTime' BY <2>1 DEF InTime, InFlight
    <2>5. NeutralBlocks' BY <2>1, <2>2, <2>3 DEF NeutralBlocks, InFlight, TypeOK
    <2>6. WindowRecent' BY <2>2 DEF WindowRecent, TypeOK
    <2>7. WindowOwes' /\ NeutralIsTold' BY <2>2 DEF WindowOwes, Owed, NeutralIsTold
    <2> QED BY <2>4, <2>5, <2>6, <2>7
  <1>3. CASE Taken(f, new)
    <2>1. new \in Team /\ window' = window BY <1>3 DEF Taken
    <2>2. emit' = [emit EXCEPT ![f] = [owner |-> new, capout |-> IsCapout(new, owner'), at |-> now]]
      BY <1>3 DEF Taken
    <2>3. Truth'[f] # Neutral BY <2>1 DEF Shown
    <2>4. \A g \in Flag \ {f} : emit'[g] = emit[g] BY <2>2 DEF TypeOK
    <2>5. emit'[f].at = now BY <2>2 DEF TypeOK
    <2>6. now \in Nat BY DEF TypeOK
    <2>7. InTime' BY <2>4, <2>5, <2>6 DEF InTime, InFlight
    <2>8. NeutralBlocks' BY <2>1, <2>3, <2>4 DEF NeutralBlocks, InFlight, window
    <2>9. WindowRecent' /\ WindowOwes' /\ NeutralIsTold'
      BY <2>1, <2>3 DEF WindowRecent, WindowOwes, Owed, NeutralIsTold, window
    <2> QED BY <2>7, <2>8, <2>9
  <1> QED BY <1>1, <1>2, <1>3 DEF ControlPointCaptured

\* The types of emissions after a report.
LEMMA ReportEmits ==
  ASSUME TypeOK, NEW f \in Flag, NEW new \in Team \cup {Spectator}, ControlPointCaptured(f, new)
  PROVE  emit' \in [Flag -> Emission \cup {Null}]
  <1>1. CASE emit' = emit BY <1>1 DEF TypeOK
  <1>2. ASSUME new \in Team, NEW c \in BOOLEAN,
               emit' = [emit EXCEPT ![f] = [owner |-> new, capout |-> c, at |-> now]]
        PROVE  emit' \in [Flag -> Emission \cup {Null}]
    <2>1. [owner |-> new, capout |-> c, at |-> now] \in Emission BY <1>2 DEF Emission, TypeOK
    <2> QED BY <1>2, <2>1 DEF TypeOK
  <1> QED BY <1>1, <1>2, ReportArms

-----------------------------------------------------------------------------
(* The steps.                                                              *)

LEMMA CaptureStep ==
  ASSUME IInv, NEW f \in Flag, NEW t \in Team, NEW by \in SUBSET Side(t),
         NEW drift \in SUBSET (Player \ Side(t)), Capture(f, t, by, drift)
  PROVE  IInv'
  <1> USE DEF IInv
  <1>1. ControlPointCaptured(f, t) /\ held' = [held EXCEPT ![f] = t] BY DEF Capture
  <1>2. Truth'[f] = Shown(t) /\ \A g \in Flag \ {f} : Truth'[g] = Truth[g]
    BY <1>1 DEF Truth, Shown, TypeOK
  <1>3. Tracked' /\ owner' \in [Flag -> Owner] BY <1>1, <1>2, ReportTracks
  <1>4. InTime' /\ WindowRecent' /\ WindowOwes' /\ NeutralBlocks' /\ NeutralIsTold'
    <2>1. UNCHANGED <<now, initAt, bar>> BY DEF Capture
    <2> QED BY <1>1, <1>2, <2>1, ReportKeeps
  <1>5. TypeOK'
    <2>1. held' \in [Flag -> Team \cup {Neutral}] BY <1>1 DEF TypeOK
    <2>2. changed' \in [Flag -> Nat] BY DEF Capture, TypeOK
    <2>3. score' \subseteq ScoreEvent
      <3>1. now + ScoreDelay \in Nat BY DEF TypeOK
      <3>2. \A p \in Player, real \in BOOLEAN :
              [flag |-> f, by |-> p, real |-> real, at |-> now + ScoreDelay] \in ScoreEvent
        BY <3>1 DEF ScoreEvent
      <3>3. by \subseteq Player /\ drift \subseteq Player BY DEF Side
      <3> QED BY <3>2, <3>3 DEF Capture, TypeOK
    <2>4. won' \in [Flag -> Feat \cup {Null}]
      <3>1. PICK c \in BOOLEAN : won' = [won EXCEPT ![f] = [team |-> t, by |-> by, capout |-> c, at |-> now]]
        BY DEF Capture, IsCapout
      <3>2. [team |-> t, by |-> by, capout |-> c, at |-> now] \in Feat BY DEF Feat, Side, TypeOK
      <3> QED BY <3>1, <3>2 DEF TypeOK
    <2>5. emit' \in [Flag -> Emission \cup {Null}] BY <1>1, ReportEmits
    <2>6. UNCHANGED <<now, level, cascade, restarted, initAt, bar>> BY DEF Capture
    <2>7. /\ lastBy' \in [Flag -> Team \cup {Neutral}] /\ batch' \in [Flag -> SUBSET Player]
          /\ until' \in Nat /\ latch' \in BOOLEAN /\ lost' \in BOOLEAN
          /\ snapAt' \in Nat \cup {Null}
      BY <1>1, ReportTypes
    <2> QED BY <1>3, <2>1, <2>2, <2>3, <2>4, <2>5, <2>6, <2>7 DEF TypeOK
  <1> QED BY <1>3, <1>4, <1>5

\* A report of the owner a flag has, or goes home to, and the engine's bookkeeping.
LEMMA ReportStep ==
  ASSUME IInv, NEW f \in Flag, NEW new \in Team \cup {Spectator}, ControlPointCaptured(f, new),
         Truth'[f] = Shown(new), \A g \in Flag \ {f} : Truth'[g] = Truth[g],
         held' \in [Flag -> Team \cup {Neutral}], cascade' \subseteq Flag,
         UNCHANGED <<now, level, changed, restarted, score, initAt, bar, won>>
  PROVE  IInv'
  <1> USE DEF IInv
  <1>1. Tracked' /\ owner' \in [Flag -> Owner] BY ReportTracks
  <1>2. InTime' /\ WindowRecent' /\ WindowOwes' /\ NeutralBlocks' /\ NeutralIsTold' BY ReportKeeps
  <1>3. emit' \in [Flag -> Emission \cup {Null}] BY ReportEmits
  <1>4. /\ lastBy' \in [Flag -> Team \cup {Neutral}] /\ batch' \in [Flag -> SUBSET Player]
        /\ until' \in Nat /\ latch' \in BOOLEAN /\ lost' \in BOOLEAN
        /\ snapAt' \in Nat \cup {Null}
    BY ReportTypes
  <1>5. TypeOK' BY <1>1, <1>3, <1>4 DEF TypeOK
  <1> QED BY <1>1, <1>2, <1>5

LEMMA ResetStep ==
  ASSUME IInv, NEW f \in Flag, Reset(f) PROVE IInv'
  <1> DEFINE new == IF Home[f] = Neutral THEN Spectator ELSE Home[f]
  <1>1. new \in Team \cup {Spectator} /\ Shown(new) = Home[f] BY HomeType DEF Shown
  <1>2. held' = [held EXCEPT ![f] = Neutral] /\ TypeOK BY DEF Reset, IInv
  <1>3. Truth'[f] = Home[f] /\ \A g \in Flag \ {f} : Truth'[g] = Truth[g]
    BY <1>2 DEF Truth, TypeOK
  <1>4. held' \in [Flag -> Team \cup {Neutral}] BY <1>2 DEF TypeOK
  <1>5. cascade' \subseteq Flag BY <1>2 DEF Reset, TypeOK
  <1>6. UNCHANGED <<now, level, changed, restarted, score, initAt, bar, won>> BY DEF Reset
  <1>7. ControlPointCaptured(f, new) BY DEF Reset
  <1> HIDE DEF new
  <1> QED BY <1>1, <1>3, <1>4, <1>5, <1>6, <1>7, ReportStep

LEMMA RepeatStep ==
  ASSUME IInv, NEW f \in Flag, Repeat(f) PROVE IInv'
  <1>1. Truth[f] \in Team /\ ControlPointCaptured(f, Truth[f]) BY DEF Repeat
  <1>2. UNCHANGED <<now, level, changed, restarted, score, initAt, bar, won, held, cascade>>
    BY DEF Repeat, engine
  <1>3. Truth' = Truth BY <1>2 DEF Truth
  <1>4. Shown(Truth[f]) = Truth[f] BY <1>1 DEF Shown
  <1>5. held' \in [Flag -> Team \cup {Neutral}] /\ cascade' \subseteq Flag BY <1>2 DEF IInv, TypeOK
  <1> QED BY <1>1, <1>2, <1>3, <1>4, <1>5, ReportStep

LEMMA EmitStep ==
  ASSUME IInv, NEW f \in Flag, DeferredEmitCap(f) PROVE IInv'
  <1> USE DEF IInv
  <1>1. /\ InFlight(f) /\ now >= emit[f].at + DeferDelay /\ emit' = [emit EXCEPT ![f] = Null]
        /\ batch' = [batch EXCEPT ![f] = {}] /\ won' = [won EXCEPT ![f] = Null]
        /\ UNCHANGED <<now, level, held, changed, cascade, restarted, score, owner, lastBy, initAt>>
    BY DEF DeferredEmitCap, engine
  <1>2. emit[f] \in Emission BY <1>1 DEF TypeOK, InFlight
  <1>3. /\ window' = window \/ ArmWindow
        /\ bar' = bar \/ bar' = [bar EXCEPT ![f] = emit[f].owner]
    BY DEF DeferredEmitCap
  <1>4. /\ until' \in Nat /\ latch' \in BOOLEAN /\ lost' \in BOOLEAN
        /\ snapAt' \in Nat \cup {Null}
        /\ until <= until' /\ until' <= now + ResetWindow
        /\ WindowOwes' /\ (Owed => Owed')
    <2>1. CASE window' = window
      <3>1. until' = until /\ latch' = latch /\ snapAt' = snapAt /\ lost' = lost /\ now' = now
        BY <1>1, <2>1 DEF window
      <3>2. until' \in Nat /\ latch' \in BOOLEAN /\ lost' \in BOOLEAN /\ snapAt' \in Nat \cup {Null}
        BY <3>1 DEF TypeOK
      <3>3. until <= until' /\ until' <= now + ResetWindow BY <3>1 DEF TypeOK, WindowRecent
      <3>4. WindowOwes' /\ (Owed => Owed') BY <3>1 DEF WindowOwes, Owed
      <3> QED BY <3>2, <3>3, <3>4
    <2>2. CASE ArmWindow
      <3>1. now + ResetWindow <= now + ResetWindow BY DelayType DEF TypeOK
      <3> QED BY <2>2, <3>1, ArmWindowOwes DEF WindowOwes, Owed
    <2> QED BY <1>3, <2>1, <2>2
  <1>5. emit' \in [Flag -> Emission \cup {Null}] /\ batch' \in [Flag -> SUBSET Player]
        /\ won' \in [Flag -> Feat \cup {Null}]
    BY <1>1 DEF TypeOK
  <1>6. bar' \in [Flag -> Team \cup {Neutral}] BY <1>2, <1>3 DEF TypeOK, Emission
  <1>7. TypeOK' BY <1>1, <1>4, <1>5, <1>6 DEF TypeOK
  <1>8. Truth' = Truth /\ Tracked' BY <1>1 DEF Truth, Tracked
  <1>9. \A g \in Flag : emit'[g] # Null => emit'[g] = emit[g] BY <1>1 DEF TypeOK
  <1>10. InTime' BY <1>1, <1>9 DEF InTime, InFlight
  <1>11. WindowRecent' BY <1>1, <1>4 DEF WindowRecent
  <1>12. NeutralBlocks'
    <2> SUFFICES ASSUME NEW g \in Flag, Truth[g] = Neutral, emit'[g] # Null
                 PROVE  until' > emit'[g].at + DeferDelay
      BY <1>8 DEF NeutralBlocks, InFlight
    <2>1. emit[g] \in Emission /\ emit'[g] = emit[g] BY <1>9 DEF TypeOK
    <2>2. until > emit[g].at + DeferDelay BY <2>1 DEF NeutralBlocks, InFlight
    <2> QED BY <1>4, <2>1, <2>2, DelayType DEF Emission, TypeOK
  <1>13. NeutralIsTold'
    <2> SUFFICES ASSUME NEW g \in Flag, Truth[g] = Neutral, bar'[g] # Neutral
                 PROVE  Owed' \/ initAt' # Null
      BY <1>8 DEF NeutralIsTold, Owed
    <2>1. CASE bar'[g] = bar[g]
      BY <1>1, <1>4, <2>1 DEF NeutralIsTold, Owed
    <2>2. CASE bar'[g] # bar[g]
      <3>1. g = f BY <1>3, <2>2 DEF TypeOK
      <3>2. until > emit[f].at + DeferDelay BY <1>1, <3>1 DEF NeutralBlocks
      <3>3. now <= emit[f].at + DeferDelay BY <1>1 DEF InTime
      <3>4. until > now BY <1>2, <3>2, <3>3, DelayType DEF Emission, TypeOK
      <3> QED BY <1>4, <3>4 DEF WindowOwes
    <2> QED BY <2>1, <2>2
  <1> QED BY <1>4, <1>7, <1>8, <1>10, <1>11, <1>12, <1>13

\* A snapshot leaves nothing to tell; what else it changes, it changes for no flag.
LEMMA SnapshotStep ==
  ASSUME IInv, AuthoritativeInit, UNCHANGED <<now, level, engine, emit, until, lost, won>>,
         \/ UNCHANGED <<latch, snapAt>>
         \/ latch' = FALSE /\ snapAt' = Null /\ until <= now,
         initAt' \in Nat \cup {Null}
  PROVE  IInv'
  <1> USE DEF IInv, engine
  <1>1. Truth' = Truth BY DEF Truth
  <1>2. TypeOK' BY SnapshotTells DEF TypeOK
  <1>3. Tracked' BY <1>1, SnapshotTells DEF Tracked
  <1>4. InTime' /\ NeutralBlocks' BY <1>1 DEF InTime, NeutralBlocks, InFlight
  <1>5. WindowRecent' /\ WindowOwes' BY DEF WindowRecent, WindowOwes, Owed, TypeOK
  <1>6. NeutralIsTold' BY <1>1, SnapshotTells DEF NeutralIsTold
  <1> QED BY <1>2, <1>3, <1>4, <1>5, <1>6

LEMMA ResetSnapshotStep ==
  ASSUME IInv, ResetSnapshot PROVE IInv'
  <1> USE DEF IInv
  <1>1. CASE until > now /\ snapAt' = until + DeferDelay /\ UNCHANGED <<latch, owner, bar, batch, lastBy>>
    <2>1. UNCHANGED <<now, level, engine, emit, until, lost, initAt, won>> BY DEF ResetSnapshot
    <2>2. snapAt' \in Nat /\ snapAt' # Null BY <1>1, DelayType DEF TypeOK
    <2>3. Truth' = Truth BY <2>1 DEF Truth, engine
    <2>4. TypeOK' BY <1>1, <2>1, <2>2 DEF TypeOK, engine
    <2>5. Tracked' BY <1>1, <2>3 DEF Tracked
    <2>6. InTime' /\ NeutralBlocks' BY <2>1, <2>3 DEF InTime, NeutralBlocks, InFlight
    <2>7. WindowRecent' /\ WindowOwes' BY <1>1, <2>1, <2>2 DEF WindowRecent, WindowOwes, Owed
    <2>8. NeutralIsTold' BY <2>2 DEF NeutralIsTold
    <2> QED BY <2>4, <2>5, <2>6, <2>7, <2>8
  <1>2. CASE until <= now /\ latch' = FALSE /\ snapAt' = Null /\ AuthoritativeInit
    <2>1. UNCHANGED <<now, level, engine, emit, until, lost, initAt, won>> BY DEF ResetSnapshot
    <2>2. initAt' \in Nat \cup {Null} BY <2>1 DEF TypeOK
    <2> QED BY <1>2, <2>1, <2>2, SnapshotStep
  <1> QED BY <1>1, <1>2 DEF ResetSnapshot

LEMMA HeartbeatStep ==
  ASSUME IInv, Heartbeat PROVE IInv'
  <1> USE DEF IInv
  <1>1. UNCHANGED <<now, level, engine, owner, emit, window, initAt, won>> BY DEF Heartbeat
  <1>2. bar' = [f \in Flag |-> IF owner[f] \in Team THEN owner[f] ELSE bar[f]] BY DEF Heartbeat
  <1>3. batch' \in [Flag -> SUBSET Player] /\ lastBy' \in [Flag -> Team \cup {Neutral}]
    BY DEF Heartbeat, Forgotten, TypeOK
  <1>4. bar' \in [Flag -> Team \cup {Neutral}] BY <1>2 DEF TypeOK
  <1>5. TypeOK' BY <1>1, <1>3, <1>4 DEF TypeOK, engine, window
  <1>6. Truth' = Truth BY <1>1 DEF Truth, engine
  <1>7. Tracked' /\ InTime' /\ NeutralBlocks' /\ WindowRecent' /\ WindowOwes'
    BY <1>1, <1>6 DEF Tracked, InTime, NeutralBlocks, InFlight, WindowRecent, WindowOwes, Owed, window
  <1>8. \A f \in Flag : Truth[f] = Neutral => bar'[f] = bar[f]
    BY <1>2 DEF Tracked, Shown
  <1>9. NeutralIsTold' BY <1>1, <1>6, <1>8 DEF NeutralIsTold, window
  <1> QED BY <1>5, <1>7, <1>9

LEMMA LevelChangeStep ==
  ASSUME IInv, LevelChange PROVE IInv'
  <1> USE DEF IInv
  <1>1. TypeOK'
    <2>1. /\ now' = 0 /\ level' = level + 1 /\ restarted' = 0 /\ until' = 0
          /\ snapAt' = Null /\ initAt' = InitDelay
      BY DEF LevelChange
    <2>2. latch' = FALSE /\ lost' = FALSE BY DEF LevelChange
    <2>3. latch' \in BOOLEAN /\ lost' \in BOOLEAN BY <2>2
    <2>4. level \in Nat BY DEF TypeOK
    <2>5. /\ now' \in Nat /\ level' \in Nat /\ restarted' \in Nat /\ until' \in Nat
          /\ snapAt' \in Nat \cup {Null} /\ initAt' \in Nat \cup {Null}
      BY <2>1, <2>4, DelayType
    <2>6. /\ held' \in [Flag -> Team \cup {Neutral}] /\ changed' \in [Flag -> Nat]
          /\ cascade' \subseteq Flag /\ score' \subseteq ScoreEvent
      BY DEF LevelChange
    <2>7. owner' \in [Flag -> Owner] BY HomeType DEF LevelChange, Owner
    <2>8. /\ lastBy' \in [Flag -> Team \cup {Neutral}] /\ batch' \in [Flag -> SUBSET Player]
          /\ emit' \in [Flag -> Emission \cup {Null}] /\ won' \in [Flag -> Feat \cup {Null}]
          /\ bar' \in [Flag -> Team \cup {Neutral}]
      BY DEF LevelChange, TypeOK
    <2> QED BY <2>5, <2>3, <2>6, <2>7, <2>8 DEF TypeOK
  <1>2. Truth' = Home BY HomeType DEF LevelChange, Truth
  <1>3. Tracked' BY <1>2, HomeType DEF LevelChange, Tracked, Shown
  <1>4. \A f \in Flag : emit'[f] = Null BY DEF LevelChange
  <1>5. InTime' /\ NeutralBlocks' BY <1>4 DEF InTime, NeutralBlocks, InFlight
  <1>6. WindowRecent' /\ WindowOwes' BY DelayType DEF LevelChange, WindowRecent, WindowOwes
  <1>7. initAt' # Null BY DelayType DEF LevelChange
  <1>8. NeutralIsTold' BY <1>7 DEF NeutralIsTold
  <1> QED BY <1>1, <1>3, <1>5, <1>6, <1>8

LEMMA TickStep ==
  ASSUME IInv, Tick PROVE IInv'
  <1> USE DEF IInv
  <1>1. /\ UNCHANGED <<level, engine, owner, lastBy, batch, emit, window, initAt, bar, won>>
        /\ now' = now + 1 /\ \A f \in Flag : InFlight(f) => now < emit[f].at + DeferDelay
    BY DEF Tick
  <1>2. TypeOK' BY <1>1 DEF TypeOK, engine, window
  <1>3. Truth' = Truth BY <1>1 DEF Truth, engine
  <1>4. Tracked' /\ NeutralBlocks' /\ NeutralIsTold'
    BY <1>1, <1>3 DEF Tracked, NeutralBlocks, InFlight, NeutralIsTold, window
  <1>5. InTime'
    <2> SUFFICES ASSUME NEW f \in Flag, InFlight(f)
                 PROVE  emit[f].at <= now + 1 /\ now + 1 <= emit[f].at + DeferDelay
      BY <1>1 DEF InTime, InFlight
    <2>1. emit[f].at \in Nat /\ now \in Nat BY DEF InFlight, TypeOK, Emission
    <2> QED BY <1>1, <2>1, DelayType DEF InTime
  <1>6. WindowRecent' BY <1>1, DelayType DEF WindowRecent, TypeOK, window
  <1>7. WindowOwes' BY <1>1 DEF WindowOwes, Owed, TypeOK, window
  <1> QED BY <1>2, <1>4, <1>5, <1>6, <1>7

LEMMA RestartStep ==
  ASSUME IInv, Restart PROVE IInv'
  <1> USE DEF IInv
  <1>1. UNCHANGED <<now, level, score, owner, lastBy, batch, emit, window, initAt, bar, won>>
    BY DEF Restart
  <1>2. held' = [f \in Flag |-> IF f \in Away THEN held[f] ELSE Neutral] BY DEF Restart
  <1>3. TypeOK' BY <1>1, <1>2 DEF Restart, TypeOK, window, Away
  <1>4. Truth' = Truth BY <1>2, HomeType DEF Truth, Away, TypeOK
  <1>5. Tracked' /\ InTime' /\ NeutralBlocks' /\ NeutralIsTold'
    BY <1>1, <1>4 DEF Tracked, InTime, NeutralBlocks, InFlight, NeutralIsTold, window
  <1>6. WindowRecent' /\ WindowOwes' BY <1>1 DEF WindowRecent, WindowOwes, Owed, window
  <1> QED BY <1>3, <1>5, <1>6

LEMMA ScoreStep ==
  ASSUME IInv, NEW e \in score, PlayerScored(e) PROVE IInv'
  <1> USE DEF IInv
  <1>1. UNCHANGED <<now, level, held, changed, cascade, restarted, owner, lastBy, emit, window,
                    initAt, bar, won>> /\ score' = score \ {e}
    BY DEF PlayerScored
  <1>2. batch' \in [Flag -> SUBSET Player]
    <2>1. e.by \in Player BY DEF TypeOK, ScoreEvent
    <2>2. batch' = batch \/ batch' = [batch EXCEPT ![e.flag] = @ \cup {e.by}] BY DEF PlayerScored
    <2> QED BY <2>1, <2>2 DEF TypeOK
  <1>3. TypeOK' BY <1>1, <1>2 DEF TypeOK, window
  <1>4. Truth' = Truth BY <1>1 DEF Truth
  <1>5. Tracked' /\ InTime' /\ NeutralBlocks' /\ NeutralIsTold'
    BY <1>1, <1>4 DEF Tracked, InTime, NeutralBlocks, InFlight, NeutralIsTold, window
  <1>6. WindowRecent' /\ WindowOwes' BY <1>1 DEF WindowRecent, WindowOwes, Owed, window
  <1> QED BY <1>3, <1>5, <1>6

LEMMA LoseStep ==
  ASSUME IInv, LoseTask PROVE IInv'
  <1> USE DEF IInv
  <1>1. /\ UNCHANGED <<now, level, engine, owner, lastBy, batch, emit, until, latch, initAt, bar, won>>
        /\ snapAt' = Null /\ lost' = TRUE
    BY DEF LoseTask
  <1>2. TypeOK' BY <1>1 DEF TypeOK, engine
  <1>3. Truth' = Truth BY <1>1 DEF Truth, engine
  <1>4. Tracked' /\ InTime' /\ NeutralBlocks' BY <1>1, <1>3 DEF Tracked, InTime, NeutralBlocks, InFlight
  <1>5. WindowRecent' /\ WindowOwes' /\ NeutralIsTold'
    BY <1>1 DEF WindowRecent, WindowOwes, Owed, NeutralIsTold
  <1> QED BY <1>2, <1>4, <1>5

LEMMA Inductive == IInv /\ [Next]_vars => IInv'
  <1> SUFFICES ASSUME IInv, [Next]_vars PROVE IInv' OBVIOUS
  <1>1. ASSUME NEW f \in Flag, NEW t \in Team, NEW by \in SUBSET Side(t),
               NEW drift \in SUBSET (Player \ Side(t)), Capture(f, t, by, drift)
        PROVE  IInv'
    BY <1>1, CaptureStep
  <1>2. ASSUME NEW e \in score, PlayerScored(e) PROVE IInv' BY <1>2, ScoreStep
  <1>3. ASSUME NEW f \in Flag, DeferredEmitCap(f) PROVE IInv' BY <1>3, EmitStep
  <1>4. CASE StartOfPlay
    <2>1. initAt' \in Nat \cup {Null} BY <1>4 DEF StartOfPlay, IInv, TypeOK
    <2> QED BY <1>4, <2>1, SnapshotStep DEF StartOfPlay, window
  <1>5. CASE ResetSnapshot BY <1>5, ResetSnapshotStep
  <1>6. CASE Heartbeat BY <1>6, HeartbeatStep
  <1>7. CASE InitConfig BY <1>7, SnapshotStep DEF InitConfig, window
  <1>8. CASE Restart BY <1>8, RestartStep
  <1>9. ASSUME NEW f \in Flag, Reset(f) PROVE IInv' BY <1>9, ResetStep
  <1>10. ASSUME NEW f \in Flag, Repeat(f) PROVE IInv' BY <1>10, RepeatStep
  <1>11. CASE LoseTask BY <1>11, LoseStep
  <1>12. CASE LevelChange BY <1>12, LevelChangeStep
  <1>13. CASE Tick BY <1>13, TickStep
  <1>14. CASE UNCHANGED vars
    <2>1. Truth' = Truth BY <1>14 DEF vars, engine, Truth
    <2> QED BY <1>14, <2>1 DEF vars, engine, window, IInv, TypeOK, Tracked, InTime, InFlight,
               WindowRecent, WindowOwes, Owed, NeutralBlocks, NeutralIsTold
  <1> QED BY <1>1, <1>2, <1>3, <1>4, <1>5, <1>6, <1>7, <1>8, <1>9, <1>10, <1>11, <1>12,
             <1>13, <1>14 DEF Next

\* The emissions, the window and its task, the credit and the overlay keep
\* their types for any flags, players and delays: no handler reads an emission
\* that is not armed.
THEOREM TypeCorrect == Spec => []TypeOK
  <1>1. IInv => TypeOK BY DEF IInv
  <1> QED BY <1>1, Start, Inductive, PTL DEF Spec

\* For any flags, homes and gaps between captures, and for restarts that report
\* flags in any order: a flag that went to nobody and that the overlay shows as
\* held always has a snapshot set for it, or one that the server lost.
THEOREM NeutralAlwaysTold == Spec => []NeutralIsTold
  <1>1. IInv => NeutralIsTold BY DEF IInv
  <1> QED BY <1>1, Start, Inductive, PTL DEF Spec

-----------------------------------------------------------------------------
(***************************************************************************)
(* When flags fall no faster than a window lasts and a restart reports a   *)
(* neutral flag before any home flag: every capture is announced once, as  *)
(* it was made, and credited; nothing is invented; and what the overlay    *)
(* shows wrongly is about to be put right. For any number of flags and     *)
(* players and any delays in these bounds.                                 *)
(***************************************************************************)
\* What the game and dodx have to grant. A flag whose home is nobody's is what
\* gives a restart away.
Timing ==
    /\ HomeFirst = FALSE
    /\ Gap > DeferDelay + ResetWindow
    /\ ScoreDelay < DeferDelay
    /\ ResetWindow > 1
    /\ IsFiniteSet(Player) /\ Cardinality(Player) <= MaxCaptors
    /\ \E f \in Flag : Home[f] = Neutral

\* A restart takes one unit, and nothing falls until its window is over.
Timeline ==
    /\ restarted <= now
    /\ \A f \in Flag : restarted <= changed[f] /\ changed[f] <= now
    /\ cascade # {} => now <= restarted + 1
    /\ cascade \subseteq Away
    /\ now < restarted + Gap => Away \subseteq cascade
    /\ until <= restarted + 1 + DeferDelay + ResetWindow

\* An emission that a restart armed: its flag went home, and wins nothing.
Stray(f) ==
    /\ emit[f].owner = Home[f] /\ emit[f].capout = FALSE
    /\ restarted <= emit[f].at /\ emit[f].at <= restarted + 1

Noise == \A f \in Flag : InFlight(f) /\ won[f] = Null => Stray(f)

\* A capture that was not announced yet: players made it, nothing fell since, and
\* if it won the round the flags are still its team's until the restart.
Made(f) ==
    /\ InFlight(f) /\ won[f].at <= emit[f].at
    /\ won[f].by # {} /\ \A p \in won[f].by : TeamOf[p] = won[f].team
    /\ won[f].at <= changed[f]
    /\ won[f].at > restarted => won[f].at >= restarted + Gap
    /\ won[f].capout /\ won[f].at > restarted => IsCapout(won[f].team, Truth)

\* It waits for its announcement; a restart of its flag opened the window for
\* longer than it waits.
Winning(f) ==
    /\ Due(f) /\ emit[f].at = won[f].at
    /\ lastBy[f] = won[f].team
    /\ Truth[f] # won[f].team => until > won[f].at + DeferDelay

\* Or it won nothing, and the report of a restart has taken its place.
Replaced(f) == Overrun(f) /\ Stray(f)

Captures == \A f \in Flag : won[f] # Null => Made(f) /\ (Winning(f) \/ Replaced(f))

\* No flag of a restart goes home before a neutral one opened the window, if the
\* capture that won the round is still due; and no older window is open then.
Shielded ==
    cascade # {} =>
        /\ (\E f \in Flag : won[f] # Null /\ won[f].capout) =>
              \/ \E g \in cascade : Home[g] = Neutral
              \/ until >= restarted + ResetWindow
        /\ until > now => until >= restarted + ResetWindow

\* Score events are of captures that are due, and tell their captors.
Scores ==
    /\ \A e \in score :
         /\ now <= e.at
         /\ won[e.flag] # Null
         /\ e.at = won[e.flag].at + ScoreDelay
         /\ e.real = (TeamOf[e.by] = won[e.flag].team)
         /\ e.by \notin batch[e.flag]
         /\ e.real => e.by \in won[e.flag].by
    /\ \A f \in Flag : won[f] # Null =>
         /\ \A p \in won[f].by : p \in batch[f] \/ \E e \in score : e.flag = f /\ e.by = p
         /\ \A p \in batch[f] : TeamOf[p] = won[f].team => p \in won[f].by
    /\ \A f \in Flag : won[f] = Null => batch[f] = {}

\* With no window since, the flag is still with whom it will be announced.
Standing == \A f \in Flag : InFlight(f) /\ until <= emit[f].at => Truth[f] = emit[f].owner

\* An emission that will be dropped is of a flag that is shown as it is.
OvertakenTold ==
    \A f \in Flag : InFlight(f) /\ until > emit[f].at => bar[f] = Truth[f] \/ Owed \/ initAt # Null

TInv ==
    /\ Timeline /\ Noise /\ Captures /\ Shielded /\ Scores
    /\ Standing /\ OvertakenTold /\ BarWrongIsTemporary

Inv == IInv /\ TInv

-----------------------------------------------------------------------------
(* What the invariant says of a flag, and of time.                         *)

LEMMA TimingType ==
    ASSUME Timing
    PROVE  /\ DeferDelay \in Nat /\ ResetWindow \in Nat /\ Gap \in Nat /\ ScoreDelay \in Nat
           /\ Gap > DeferDelay + ResetWindow /\ ScoreDelay < DeferDelay /\ ResetWindow > 1
           /\ ResetWindow > DeferDelay /\ HomeFirst = FALSE
BY FlagAssumption DEF Timing

LEMMA NowType ==
    ASSUME IInv
    PROVE  /\ now \in Nat /\ restarted \in Nat /\ until \in Nat /\ cascade \subseteq Flag
           /\ changed \in [Flag -> Nat]
BY DEF IInv, TypeOK

\* An armed emission waits for DeferDelay at most.
LEMMA EmissionType ==
    ASSUME IInv, NEW f \in Flag, InFlight(f)
    PROVE  /\ emit[f].owner \in Team /\ emit[f].capout \in BOOLEAN /\ emit[f].at \in Nat
           /\ emit[f].at <= now /\ now <= emit[f].at + DeferDelay
BY DEF IInv, TypeOK, InFlight, Emission, InTime

\* A capture that was not announced was made lately, and its flag has not settled.
LEMMA Recent ==
    ASSUME Timing, Inv, NEW f \in Flag, won[f] # Null
    PROVE  /\ InFlight(f) /\ Made(f) /\ (Winning(f) \/ Replaced(f))
           /\ won[f].team \in Team /\ won[f].by \subseteq Player /\ won[f].at \in Nat
           /\ won[f].at <= now /\ (Winning(f) => now <= won[f].at + DeferDelay)
           /\ ~Settled(f)
<1>1. Made(f) /\ (Winning(f) \/ Replaced(f)) BY DEF Inv, TInv, Captures
<1>2. InFlight(f) /\ won[f].at <= emit[f].at /\ won[f].at <= changed[f] BY <1>1 DEF Made
<1>3. won[f] \in Feat BY DEF Inv, IInv, TypeOK
<1>4. /\ won[f].at \in Nat /\ changed[f] \in Nat /\ now \in Nat /\ restarted \in Nat
      /\ emit[f].at \in Nat /\ emit[f].at <= now /\ now <= emit[f].at + DeferDelay
  BY <1>2, <1>3, NowType, EmissionType DEF Feat, Inv
<1>5. won[f].at <= now BY <1>2, <1>4
<1>6. Winning(f) => now <= won[f].at + DeferDelay BY <1>4 DEF Winning
<1>7. ~Settled(f)
  <2>1. CASE Winning(f) BY <1>2, <1>4, <1>6, <2>1, TimingType DEF Settled
  <2>2. CASE Replaced(f)
    <3>1. emit[f].at <= restarted + 1 BY <2>2 DEF Replaced, Stray
    <3>2. restarted <= changed[f] BY DEF Inv, TInv, Timeline
    <3> QED BY <1>4, <3>1, <3>2, TimingType DEF Settled
  <2> QED BY <1>1, <2>1, <2>2
<1> QED BY <1>1, <1>2, <1>3, <1>4, <1>5, <1>6, <1>7 DEF Feat

\* While a restart is under way, it is later than every capture that is due.
LEMMA BeforeRestart ==
    ASSUME Timing, Inv, cascade # {}, NEW f \in Flag, won[f] # Null
    PROVE  won[f].at <= restarted
<1>1. now <= restarted + 1 BY DEF Inv, TInv, Timeline
<1>2. won[f].at > restarted => won[f].at >= restarted + Gap BY Recent DEF Made
<1> QED BY <1>1, <1>2, Recent, TimingType, NowType DEF Inv

LEMMA StartTiming == ASSUME Init PROVE Inv
<1>1. IInv BY Start
<1>2. Timeline
  <2>1. Truth = Home BY HomeType DEF Init, Truth
  <2> QED BY <2>1, FlagAssumption DEF Init, Timeline, Away
<1>3. Noise /\ Captures /\ Shielded /\ Scores /\ Standing /\ OvertakenTold
  BY DEF Init, Noise, Captures, Shielded, Scores, Standing, OvertakenTold, InFlight
<1>4. BarWrongIsTemporary BY FlagAssumption DEF Init, BarWrongIsTemporary
<1> QED BY <1>1, <1>2, <1>3, <1>4 DEF Inv, TInv

-----------------------------------------------------------------------------
(* Steps that leave the flags and the emissions alone.                     *)

\* The conjuncts that do not speak of the overlay.
Facts == Timeline /\ Noise /\ Captures /\ Shielded /\ Scores /\ Standing

LEMMA FactsKept ==
    ASSUME Facts, UNCHANGED <<now, held, changed, cascade, restarted, score, emit, until, won, batch>>,
           \A f \in Flag : won[f] # Null => lastBy'[f] = lastBy[f]
    PROVE  Facts'
<1>1. Truth' = Truth BY DEF Truth
<1>2. Away' = Away BY <1>1 DEF Away
<1>3. Timeline' BY <1>2 DEF Facts, Timeline
<1>4. Captures'
  BY <1>1 DEF Facts, Captures, Made, Winning, Replaced, Overrun, Stray, Due, InFlight, IsCapout
<1>5. Noise' /\ Shielded' /\ Scores' /\ Standing'
  BY <1>1 DEF Facts, Noise, Stray, Shielded, Scores, Standing, InFlight
<1> QED BY <1>3, <1>4, <1>5 DEF Facts

\* A snapshot and a heartbeat wipe nothing that a capture needs.
LEMMA BatchKept ==
    ASSUME Timing, Inv, batch' = Forgotten(batch, {}), lastBy' = Forgotten(lastBy, Neutral)
    PROVE  batch' = batch /\ \A f \in Flag : won[f] # Null => lastBy'[f] = lastBy[f]
<1>1. \A f \in Flag : won[f] # Null => InFlight(f) BY Recent
<1>2. \A f \in Flag : ~InFlight(f) => batch[f] = {} BY <1>1 DEF Inv, TInv, Scores
<1>3. batch \in [Flag -> SUBSET Player] BY DEF Inv, IInv, TypeOK
<1>4. batch' = batch BY <1>2, <1>3 DEF Forgotten
<1> QED BY <1>1, <1>4 DEF Forgotten

LEMMA SnapshotTiming ==
    ASSUME Timing, Inv, AuthoritativeInit, UNCHANGED <<now, engine, emit, until, won>>
    PROVE  TInv'
<1>1. batch' = batch /\ \A f \in Flag : won[f] # Null => lastBy'[f] = lastBy[f]
  BY BatchKept DEF AuthoritativeInit
<1>2. Facts' BY <1>1, FactsKept DEF Inv, TInv, Facts, engine
<1>3. Truth' = Truth /\ bar' = Truth BY DEF AuthoritativeInit, Read, Truth, engine
<1>4. OvertakenTold' /\ BarWrongIsTemporary' BY <1>3 DEF OvertakenTold, BarWrongIsTemporary
<1> QED BY <1>2, <1>4 DEF TInv, Facts

LEMMA ResetSnapshotTiming == ASSUME Timing, Inv, ResetSnapshot PROVE TInv'
<1>1. UNCHANGED <<now, level, engine, emit, until, lost, initAt, won>> BY DEF ResetSnapshot
<1>2. CASE AuthoritativeInit BY <1>1, <1>2, SnapshotTiming
<1>3. CASE snapAt' = until + DeferDelay /\ UNCHANGED <<latch, owner, bar, batch, lastBy>>
  <2>1. Facts' BY <1>1, <1>3, FactsKept DEF Inv, TInv, Facts, engine
  <2>2. snapAt' # Null BY <1>3, DelayType, NowType, FlagAssumption DEF Inv
  <2>3. OvertakenTold' /\ BarWrongIsTemporary' BY <2>2 DEF OvertakenTold, Owed, BarWrongIsTemporary
  <2> QED BY <2>1, <2>3 DEF TInv, Facts
<1> QED BY <1>2, <1>3 DEF ResetSnapshot

LEMMA HeartbeatTiming == ASSUME Timing, Inv, Heartbeat PROVE TInv'
<1>1. /\ UNCHANGED <<now, level, engine, owner, emit, window, initAt, won>>
      /\ bar' = [f \in Flag |-> IF owner[f] \in Team THEN owner[f] ELSE bar[f]]
  BY DEF Heartbeat
<1>2. batch' = batch /\ \A f \in Flag : won[f] # Null => lastBy'[f] = lastBy[f]
  BY BatchKept DEF Heartbeat
<1>3. Facts' BY <1>1, <1>2, FactsKept DEF Inv, TInv, Facts, engine, window
<1>4. \A f \in Flag : bar'[f] = Truth[f] \/ bar'[f] = bar[f] BY <1>1 DEF Inv, IInv, Tracked, Shown
<1>5. Truth' = Truth BY <1>1 DEF Truth, engine
<1>6. OvertakenTold' BY <1>1, <1>4, <1>5 DEF Inv, TInv, OvertakenTold, Owed, InFlight, window
<1>7. BarWrongIsTemporary' BY <1>1, <1>4, <1>5 DEF Inv, TInv, BarWrongIsTemporary, InFlight, window
<1> QED BY <1>3, <1>6, <1>7 DEF TInv, Facts

LEMMA LoseTiming == ASSUME Timing, Inv, LoseTask PROVE TInv'
<1>1. UNCHANGED <<now, engine, lastBy, batch, emit, until, won>> /\ lost' = TRUE BY DEF LoseTask
<1>2. Facts' BY <1>1, FactsKept DEF Inv, TInv, Facts, engine
<1>3. OvertakenTold' /\ BarWrongIsTemporary' BY <1>1 DEF OvertakenTold, Owed, BarWrongIsTemporary
<1> QED BY <1>2, <1>3 DEF TInv, Facts

LEMMA FrameTiming == ASSUME Inv, UNCHANGED vars PROVE TInv'
<1>1. Facts' BY FactsKept DEF Inv, TInv, Facts, vars, engine, window
<1>2. Truth' = Truth BY DEF Truth, vars, engine
<1>3. OvertakenTold' /\ BarWrongIsTemporary'
  BY <1>2 DEF Inv, TInv, OvertakenTold, Owed, BarWrongIsTemporary, InFlight, vars, window
<1> QED BY <1>1, <1>3 DEF TInv, Facts

LEMMA LevelChangeTiming == ASSUME Timing, Inv, LevelChange PROVE TInv'
<1>1. /\ now' = 0 /\ restarted' = 0 /\ until' = 0 /\ cascade' = {} /\ score' = {}
      /\ changed' = [f \in Flag |-> 0] /\ held' = [f \in Flag |-> Neutral]
      /\ emit' = [f \in Flag |-> Null] /\ won' = [f \in Flag |-> Null]
      /\ batch' = [f \in Flag |-> {}] /\ initAt' = InitDelay
  BY DEF LevelChange
<1>2. Truth' = Home BY <1>1, HomeType DEF Truth
<1>3. Away' = {} BY <1>2 DEF Away
<1>4. Timeline' BY <1>1, <1>3, DelayType DEF Timeline
<1>5. initAt' # Null BY <1>1, DelayType, FlagAssumption
<1>6. Noise' /\ Captures' /\ Shielded' /\ Scores' /\ Standing'
  BY <1>1 DEF Noise, Captures, Shielded, Scores, Standing, InFlight
<1>7. OvertakenTold' /\ BarWrongIsTemporary' BY <1>5 DEF OvertakenTold, BarWrongIsTemporary
<1> QED BY <1>4, <1>6, <1>7 DEF TInv

LEMMA TickTiming == ASSUME Timing, Inv, Tick PROVE TInv'
<1>1. /\ UNCHANGED <<level, engine, owner, lastBy, batch, emit, window, initAt, bar, won>>
      /\ now' = now + 1 /\ (\A e \in score : now < e.at) /\ (cascade # {} => now = restarted)
  BY DEF Tick
<1>2. Truth' = Truth /\ Away' = Away BY <1>1 DEF Truth, Away, engine
<1>3. Timeline'
  <2>1. now \in Nat /\ restarted \in Nat /\ changed \in [Flag -> Nat] BY NowType DEF Inv
  <2> QED BY <1>1, <1>2, <2>1, TimingType DEF Inv, TInv, Timeline, engine, window
<1>4. Noise' /\ Standing'
  BY <1>1, <1>2 DEF Inv, TInv, Noise, Stray, Standing, InFlight, engine, window
<1>5. Shielded'
  <2>1. until \in Nat /\ now \in Nat BY NowType DEF Inv
  <2>2. until > now + 1 => until > now BY <2>1
  <2> QED BY <1>1, <2>2 DEF Inv, TInv, Shielded, engine, window
<1>6. Captures'
  BY <1>1, <1>2 DEF Inv, TInv, Captures, Made, Winning, Replaced, Overrun, Stray, Due, InFlight,
                    IsCapout, engine, window
<1>7. Scores'
  <2>1. \A e \in score : e.at \in Nat BY DEF Inv, IInv, TypeOK, ScoreEvent
  <2>2. \A e \in score : now + 1 <= e.at BY <1>1, <2>1, NowType DEF Inv
  <2> QED BY <1>1, <2>2 DEF Inv, TInv, Scores, engine
<1>8. OvertakenTold' /\ BarWrongIsTemporary'
  BY <1>1, <1>2 DEF Inv, TInv, OvertakenTold, Owed, BarWrongIsTemporary, InFlight, window
<1> QED BY <1>3, <1>4, <1>6, <1>7, <1>8, <1>5 DEF TInv

-----------------------------------------------------------------------------
(* Credit.                                                                 *)

\* There is room for whoever made the capture and is not noted yet.
LEMMA RoomFor ==
    ASSUME Timing, NEW b \in SUBSET Player, NEW p \in Player, p \notin b
    PROVE  ~(Cardinality(b) >= MaxCaptors)
<1>1. IsFiniteSet(Player) /\ Cardinality(Player) <= MaxCaptors /\ MaxCaptors \in Nat
  BY FlagAssumption DEF Timing
<1>2. b # Player OBVIOUS
<1>3. IsFiniteSet(b) /\ Cardinality(b) <= Cardinality(Player) /\ Cardinality(b) # Cardinality(Player)
  BY <1>1, <1>2, FS_Subset
<1>4. Cardinality(b) \in Nat /\ Cardinality(Player) \in Nat BY <1>1, <1>3, FS_CardinalityType
<1> QED BY <1>1, <1>3, <1>4

LEMMA ScoreType ==
    ASSUME IInv, NEW e \in score
    PROVE  e \in ScoreEvent /\ e.flag \in Flag /\ e.by \in Player /\ e.real \in BOOLEAN /\ e.at \in Nat
BY DEF IInv, TypeOK, ScoreEvent

\* A pending score event is noted, and credited if it is of a captor.
LEMMA Noted ==
    ASSUME Timing, Inv, NEW e \in score, PlayerScored(e)
    PROVE  /\ batch' = [batch EXCEPT ![e.flag] = @ \cup {e.by}]
           /\ (post'.kind = "credit") = e.real \/ Overrun(e.flag)
<1>1. e.flag \in Flag /\ e.by \in Player /\ e.real \in BOOLEAN BY ScoreType DEF Inv
<1>2. e.by \notin batch[e.flag] /\ won[e.flag] # Null BY DEF Inv, TInv, Scores
<1>3. batch[e.flag] \in SUBSET Player BY <1>1 DEF Inv, IInv, TypeOK
<1>4. ~(Cardinality(batch[e.flag]) >= MaxCaptors) BY <1>1, <1>2, <1>3, RoomFor
<1>5. /\ batch' = [batch EXCEPT ![e.flag] = @ \cup {e.by}]
      /\ post' = IF Credited(e) THEN [kind |-> "credit", by |-> e.by] ELSE NoPost
  BY <1>2, <1>4 DEF PlayerScored
<1>6. won[e.flag] # Null BY <1>2
<1>7. CASE Replaced(e.flag) BY <1>5, <1>7 DEF Replaced
<1>8. CASE Winning(e.flag)
  <2>1. lastBy[e.flag] = won[e.flag].team BY <1>8 DEF Winning
  <2>2. e.real = (TeamOf[e.by] = won[e.flag].team) BY DEF Inv, TInv, Scores
  <2>3. Credited(e) = e.real BY <2>1, <2>2 DEF Credited
  <2>4. (post'.kind = "credit") = Credited(e)
    <3>1. CASE Credited(e) BY <1>5, <3>1
    <3>2. CASE ~Credited(e)
      <4>1. post' = NoPost BY <1>5, <3>2
      <4>2. ~(post'.kind = "credit") BY <4>1 DEF NoPost
      <4>3. Credited(e) = FALSE BY <1>1, <2>3, <3>2
      <4> QED BY <4>2, <4>3
    <3> QED BY <3>1, <3>2
  <2> QED BY <1>5, <2>3, <2>4
<1> QED BY <1>1, <1>6, <1>7, <1>8, Recent

\* Two events of one capture are of two players.
LEMMA OneEventEach ==
    ASSUME Timing, Inv, NEW e \in score, NEW d \in score, d.flag = e.flag, d.by = e.by
    PROVE  d = e
<1>1. d \in ScoreEvent /\ e \in ScoreEvent BY ScoreType DEF Inv
<1>2. d.at = e.at /\ d.real = e.real BY DEF Inv, TInv, Scores
<1> QED BY <1>1, <1>2 DEF ScoreEvent

LEMMA ScoreTiming == ASSUME Timing, Inv, NEW e \in score, PlayerScored(e) PROVE TInv'
<1>1. /\ UNCHANGED <<now, held, changed, cascade, restarted, lastBy, emit, window, initAt, bar, won>>
      /\ score' = score \ {e}
  BY DEF PlayerScored
<1>2. batch' = [batch EXCEPT ![e.flag] = @ \cup {e.by}] BY Noted
<1>3. Truth' = Truth /\ Away' = Away BY <1>1 DEF Truth, Away
<1>4. Timeline' /\ Noise' /\ Shielded' /\ Standing'
  BY <1>1, <1>3 DEF Inv, TInv, Timeline, Noise, Stray, Shielded, Standing, InFlight, window
<1>5. Captures'
  BY <1>1, <1>3 DEF Inv, TInv, Captures, Made, Winning, Replaced, Overrun, Stray, Due, InFlight,
                    IsCapout, window
<1>6. OvertakenTold' /\ BarWrongIsTemporary'
  BY <1>1, <1>3 DEF Inv, TInv, OvertakenTold, Owed, BarWrongIsTemporary, InFlight, window
<1>7. Scores'
  <2>1. batch \in [Flag -> SUBSET Player] /\ e.flag \in Flag BY ScoreType DEF Inv, IInv, TypeOK
  <2>2. ASSUME NEW d \in score'
        PROVE  /\ now' <= d.at /\ won'[d.flag] # Null /\ d.at = won'[d.flag].at + ScoreDelay
               /\ d.real = (TeamOf[d.by] = won'[d.flag].team)
               /\ d.by \notin batch'[d.flag]
               /\ d.real => d.by \in won'[d.flag].by
    <3>1. d \in score /\ d # e /\ d.flag \in Flag BY <1>1, <2>2, ScoreType DEF Inv
    <3>2. d.by \notin batch[d.flag] BY <3>1 DEF Inv, TInv, Scores
    <3>3. d.by \notin batch'[d.flag]
      <4>1. CASE d.flag = e.flag BY <1>2, <2>1, <3>1, <3>2, <4>1, OneEventEach
      <4>2. CASE d.flag # e.flag BY <1>2, <2>1, <3>1, <3>2, <4>2
      <4> QED BY <4>1, <4>2
    <3> QED BY <1>1, <3>1, <3>3 DEF Inv, TInv, Scores
  <2>3. ASSUME NEW f \in Flag, won'[f] # Null
        PROVE  /\ \A p \in won'[f].by : p \in batch'[f] \/ \E d \in score' : d.flag = f /\ d.by = p
               /\ \A p \in batch'[f] : TeamOf[p] = won'[f].team => p \in won'[f].by
    <3>1. won' = won BY <1>1
    <3>2. ASSUME NEW p \in won[f].by
          PROVE  p \in batch'[f] \/ \E d \in score' : d.flag = f /\ d.by = p
      <4>1. p \in batch[f] \/ \E d \in score : d.flag = f /\ d.by = p
        BY <2>3, <3>1, <3>2 DEF Inv, TInv, Scores
      <4>2. CASE p \in batch[f] BY <1>2, <2>1, <4>2
      <4>3. ASSUME NEW d \in score, d.flag = f, d.by = p
            PROVE  p \in batch'[f] \/ \E c \in score' : c.flag = f /\ c.by = p
        <5>1. CASE d = e BY <1>2, <2>1, <4>3, <5>1
        <5>2. CASE d # e BY <1>1, <4>3, <5>2
        <5> QED BY <5>1, <5>2
      <4> QED BY <4>1, <4>2, <4>3
    <3>3. ASSUME NEW p \in batch'[f], TeamOf[p] = won[f].team PROVE p \in won[f].by
      <4>1. p \in batch[f] \/ (f = e.flag /\ p = e.by) BY <1>2, <2>1, <3>3
      <4>2. CASE p \in batch[f] BY <2>3, <3>1, <3>3, <4>2 DEF Inv, TInv, Scores
      <4>3. CASE f = e.flag /\ p = e.by
        <5>1. e.real = (TeamOf[e.by] = won[e.flag].team) /\ (e.real => e.by \in won[e.flag].by)
          BY DEF Inv, TInv, Scores
        <5> QED BY <3>3, <4>3, <5>1
      <4> QED BY <4>1, <4>2, <4>3
    <3> QED BY <3>1, <3>2, <3>3
  <2>4. ASSUME NEW f \in Flag, won'[f] = Null PROVE batch'[f] = {}
    <3>1. won[f] = Null /\ won[e.flag] # Null BY <1>1, <2>4 DEF Inv, TInv, Scores
    <3>2. f # e.flag /\ batch[f] = {} BY <3>1 DEF Inv, TInv, Scores
    <3> QED BY <1>2, <2>1, <3>2
  <2> QED BY <2>2, <2>3, <2>4 DEF Scores
<1> QED BY <1>4, <1>5, <1>6, <1>7 DEF TInv

-----------------------------------------------------------------------------
(* The announcement.                                                       *)

\* When the announcement is due, everybody who made the capture is noted.
LEMMA AllNoted ==
    ASSUME Timing, Inv, NEW f \in Flag, won[f] # Null, DeferredEmitCap(f)
    PROVE  /\ Winning(f) => Captors(f, emit[f].owner) = won[f].by
           /\ batch[f] # {}
           /\ \A e \in score : e.flag # f
<1>1. now >= won[f].at + DeferDelay
  <2>1. won[f].at <= emit[f].at /\ now >= emit[f].at + DeferDelay /\ emit[f].at \in Nat
    BY Recent, EmissionType DEF DeferredEmitCap, Made, Inv
  <2> QED BY <2>1, Recent, DelayType, NowType DEF Inv
<1>2. ASSUME NEW e \in score, e.flag = f PROVE FALSE
  <2>1. now <= e.at /\ e.at = won[f].at + ScoreDelay BY <1>2 DEF Inv, TInv, Scores
  <2> QED BY <1>1, <2>1, Recent, TimingType, NowType DEF Inv
<1>3. won[f].by \subseteq batch[f] BY <1>2 DEF Inv, TInv, Scores
<1>4. won[f].by # {} /\ \A p \in won[f].by : TeamOf[p] = won[f].team BY Recent DEF Made
<1>5. \A p \in batch[f] : TeamOf[p] = won[f].team => p \in won[f].by BY DEF Inv, TInv, Scores
<1>6. Winning(f) => Captors(f, emit[f].owner) = won[f].by
  BY <1>3, <1>4, <1>5 DEF Captors, Winning, Due
<1> QED BY <1>2, <1>3, <1>4, <1>6

\* The announcement opens the window for a flag that went home by itself only.
LEMMA OpensWindow ==
    ASSUME Timing, Inv, NEW f \in Flag, DeferredEmitCap(f), window' # window
    PROVE  won[f] = Null /\ ArmWindow /\ until' = now + ResetWindow /\ now <= restarted + 1 + DeferDelay
<1>1. ~Overtaken(f) /\ LooksRestored(f) /\ ArmWindow /\ InFlight(f) BY DEF DeferredEmitCap
<1>2. won[f] = Null BY <1>1, AllNoted DEF LooksRestored
<1>3. emit[f].at <= restarted + 1 BY <1>1, <1>2 DEF Inv, TInv, Noise, Stray
<1>4. now <= restarted + 1 + DeferDelay
  BY <1>1, <1>3, EmissionType, DelayType, NowType DEF Inv
<1>5. until' = now + ResetWindow BY <1>1 DEF ArmWindow
<1> QED BY <1>1, <1>2, <1>4, <1>5

LEMMA EmitTiming == ASSUME Timing, Inv, NEW f \in Flag, DeferredEmitCap(f) PROVE TInv'
<1>1. /\ InFlight(f) /\ now >= emit[f].at + DeferDelay /\ emit' = [emit EXCEPT ![f] = Null]
      /\ batch' = [batch EXCEPT ![f] = {}] /\ won' = [won EXCEPT ![f] = Null]
      /\ UNCHANGED <<now, held, changed, cascade, restarted, score, owner, lastBy, initAt>>
  BY DEF DeferredEmitCap, engine
<1>2. Truth' = Truth /\ Away' = Away BY <1>1 DEF Truth, Away
<1>3. /\ emit'[f] = Null /\ won'[f] = Null /\ batch'[f] = {}
      /\ \A g \in Flag \ {f} : emit'[g] = emit[g] /\ won'[g] = won[g] /\ batch'[g] = batch[g]
  BY <1>1 DEF Inv, IInv, TypeOK
<1>4. until <= until' /\ (Owed => Owed') /\ (until' # until => Owed')
  <2>1. CASE window' = window
    <3>1. until' = until /\ snapAt' = snapAt /\ lost' = lost BY <2>1 DEF window
    <3> QED BY <3>1, NowType DEF Inv, Owed
  <2>2. CASE window' # window BY <2>2, OpensWindow, ArmWindowOwes DEF Inv, IInv, Owed
  <2> QED BY <2>1, <2>2
<1>5. Timeline'
  <2>1. until' <= restarted + 1 + DeferDelay + ResetWindow
    <3>1. CASE window' = window BY <3>1 DEF window, Inv, TInv, Timeline
    <3>2. CASE window' # window BY <3>2, OpensWindow, DelayType, NowType DEF Inv
    <3> QED BY <3>1, <3>2
  <2> QED BY <1>1, <1>2, <2>1 DEF Inv, TInv, Timeline
<1>6. Noise' BY <1>1, <1>3 DEF Inv, TInv, Noise, Stray, InFlight
<1>7. Captures'
  <2> SUFFICES ASSUME NEW g \in Flag \ {f}, won[g] # Null
               PROVE  Made(g)' /\ (Winning(g) \/ Replaced(g))'
    BY <1>3 DEF Captures
  <2>1. Made(g) /\ (Winning(g) \/ Replaced(g)) /\ won[g].at \in Nat BY Recent
  <2>2. until' \in Nat BY EmitStep DEF Inv, IInv, TypeOK
  <2>3. Made(g)' BY <1>1, <1>2, <1>3, <2>1 DEF Made, InFlight, IsCapout
  <2>4. CASE Winning(g)
    <3>1. Truth'[g] # won'[g].team => until' > won'[g].at + DeferDelay
      BY <1>2, <1>3, <1>4, <2>1, <2>2, <2>4, DelayType, NowType DEF Winning, Inv
    <3>2. Winning(g)' BY <1>1, <1>3, <2>4, <3>1 DEF Winning, Due, InFlight
    <3> QED BY <2>3, <3>2
  <2>5. CASE Replaced(g)
    <3>1. Replaced(g)' BY <1>1, <1>3, <2>5 DEF Replaced, Overrun, Stray
    <3> QED BY <2>3, <3>1
  <2> QED BY <2>1, <2>4, <2>5
<1>8. Shielded'
  <2> SUFFICES ASSUME cascade # {}
               PROVE  /\ (\E g \in Flag : won'[g] # Null /\ won'[g].capout) =>
                            \/ \E g \in cascade : Home[g] = Neutral
                            \/ until' >= restarted + ResetWindow
                      /\ until' > now => until' >= restarted + ResetWindow
    BY <1>1 DEF Shielded
  <2>1. until' \in Nat BY EmitStep DEF Inv, IInv, TypeOK
  <2>2. /\ (\E g \in Flag : won[g] # Null /\ won[g].capout) =>
              \/ \E g \in cascade : Home[g] = Neutral
              \/ until >= restarted + ResetWindow
        /\ until > now => until >= restarted + ResetWindow
        /\ restarted <= now
    BY DEF Inv, TInv, Shielded, Timeline
  <2>3. (\E g \in Flag : won'[g] # Null /\ won'[g].capout) =>
           (\E g \in Flag : won[g] # Null /\ won[g].capout)
    BY <1>3
  <2>4. until' = until \/ until' = now + ResetWindow
    <3>1. CASE window' = window BY <3>1 DEF window
    <3>2. CASE window' # window BY <3>2, OpensWindow
    <3> QED BY <3>1, <3>2
  <2>5. CASE until' = until BY <2>2, <2>3, <2>5
  <2>6. CASE until' = now + ResetWindow
    <3>1. until' >= restarted + ResetWindow BY <2>1, <2>2, <2>6, DelayType, NowType DEF Inv
    <3> QED BY <3>1
  <2> QED BY <2>4, <2>5, <2>6
<1>9. Scores'
  <2>1. \A e \in score : e.flag \in Flag /\ e.flag # f
    <3>1. \A e \in score : e.flag = f => won[f] # Null BY DEF Inv, TInv, Scores
    <3> QED BY <3>1, AllNoted, ScoreType DEF Inv
  <2> QED BY <1>1, <1>3, <2>1 DEF Inv, TInv, Scores
<1>10. Standing'
  <2>1. until' \in Nat BY EmitStep DEF Inv, IInv, TypeOK
  <2> SUFFICES ASSUME NEW g \in Flag \ {f}, InFlight(g), until' <= emit[g].at
               PROVE  Truth[g] = emit[g].owner
    BY <1>2, <1>3 DEF Standing, InFlight
  <2>2. until <= emit[g].at BY <1>4, <2>1, EmissionType, NowType DEF Inv
  <2> QED BY <2>2 DEF Inv, TInv, Standing
<1>11. /\ (Overtaken(f) /\ bar'[f] = bar[f]) \/ (~Overtaken(f) /\ bar'[f] = emit[f].owner)
       /\ \A g \in Flag \ {f} : bar'[g] = bar[g]
  <2>1. bar \in [Flag -> Team \cup {Neutral}] BY DEF Inv, IInv, TypeOK
  <2>2. CASE Overtaken(f)
    <3>1. bar' = bar BY <2>2 DEF DeferredEmitCap
    <3> QED BY <2>2, <3>1
  <2>3. CASE ~Overtaken(f)
    <3>1. bar' = [bar EXCEPT ![f] = emit[f].owner] BY <2>3 DEF DeferredEmitCap
    <3> QED BY <2>1, <2>3, <3>1
  <2> QED BY <2>2, <2>3
<1>12. OvertakenTold'
  <2> SUFFICES ASSUME NEW g \in Flag \ {f}, InFlight(g), until' > emit[g].at
               PROVE  bar[g] = Truth[g] \/ Owed' \/ initAt # Null
    BY <1>1, <1>2, <1>3, <1>11 DEF OvertakenTold, InFlight
  <2>1. CASE until' = until BY <1>4, <2>1 DEF Inv, TInv, OvertakenTold
  <2>2. CASE until' # until BY <1>4, <2>2
  <2> QED BY <2>1, <2>2
<1>13. BarWrongIsTemporary'
  <2>1. ASSUME NEW g \in Flag \ {f}, bar'[g] # Truth'[g] PROVE InFlight(g)' \/ Owed' \/ initAt' # Null
    BY <1>1, <1>2, <1>3, <1>4, <1>11, <2>1 DEF Inv, TInv, BarWrongIsTemporary, InFlight, Owed
  <2>2. ASSUME bar'[f] # Truth'[f] PROVE Owed' \/ initAt' # Null
    <3>1. CASE Overtaken(f)
      <4>1. until > emit[f].at BY <3>1 DEF Overtaken
      <4> QED BY <1>1, <1>2, <1>4, <1>11, <2>2, <3>1, <4>1 DEF Inv, TInv, OvertakenTold
    <3>2. CASE ~Overtaken(f) /\ until <= emit[f].at
      BY <1>1, <1>2, <1>11, <2>2, <3>2 DEF Inv, TInv, Standing
    <3>3. CASE ~Overtaken(f) /\ ~(until <= emit[f].at)
      <4>1. emit[f].capout # FALSE
        <5>1. emit[f].at \in Nat /\ until \in Nat BY <1>1, EmissionType, NowType DEF Inv
        <5>2. until > emit[f].at BY <3>3, <5>1
        <5>3. ~(~emit[f].capout) BY <3>3, <5>2 DEF Overtaken
        <5> QED BY <5>3
      <4>2. won[f] # Null BY <1>1, <4>1 DEF Inv, TInv, Noise, Stray
      <4>3. Winning(f) BY <4>1, <4>2, Recent DEF Replaced, Stray
      <4>4. Truth[f] # won[f].team BY <1>2, <1>11, <2>2, <3>3, <4>3 DEF Winning, Due
      <4>5. until > won[f].at + DeferDelay BY <4>3, <4>4 DEF Winning
      <4>6. until > now BY <4>2, <4>5, <4>3, Recent, NowType, DelayType DEF Inv
      <4>7. Owed BY <4>6 DEF Inv, IInv, WindowOwes
      <4> QED BY <1>4, <4>7
    <3> QED BY <3>1, <3>2, <3>3
  <2> QED BY <2>1, <2>2 DEF BarWrongIsTemporary, Owed
<1> QED BY <1>5, <1>6, <1>7, <1>8, <1>9, <1>10, <1>12, <1>13 DEF TInv

-----------------------------------------------------------------------------
(* The restart.                                                            *)

LEMMA RestartTiming == ASSUME Timing, Inv, Restart PROVE TInv'
<1>1. /\ UNCHANGED <<now, level, score, owner, lastBy, batch, emit, window, initAt, bar, won>>
      /\ cascade = {} /\ Away # {} /\ cascade' = Away /\ restarted' = now
      /\ changed' = [f \in Flag |-> now]
      /\ held' = [f \in Flag |-> IF f \in Away THEN held[f] ELSE Neutral]
  BY DEF Restart
<1>2. Truth' = Truth BY <1>1, HomeType DEF Truth, Away, Inv, IInv, TypeOK
<1>3. Away' = Away BY <1>2 DEF Away
<1>4. now \in Nat /\ until \in Nat /\ restarted \in Nat BY NowType DEF Inv
<1>5. Timeline'
  <2>1. until <= restarted + 1 + DeferDelay + ResetWindow /\ restarted <= now BY DEF Inv, TInv, Timeline
  <2>2. until <= now + 1 + DeferDelay + ResetWindow BY <1>4, <2>1, DelayType
  <2> QED BY <1>1, <1>3, <1>4, <2>2 DEF Timeline, window, Away
<1>6. now >= restarted + Gap
  <2>1. Away \subseteq Flag BY DEF Away
  <2> QED BY <1>1, <1>4, <2>1, TimingType DEF Inv, TInv, Timeline
<1>7. ASSUME NEW f \in Flag, InFlight(f), Stray(f) PROVE FALSE
  <2>1. emit[f].at <= restarted + 1 BY <1>7 DEF Stray
  <2> QED BY <1>4, <1>6, <1>7, <2>1, EmissionType, TimingType DEF Inv
<1>8. Noise'
  <2>1. \A f \in Flag : InFlight(f) => won[f] # Null BY <1>7 DEF Inv, TInv, Noise
  <2> QED BY <1>1, <2>1 DEF Noise, InFlight
<1>9. ASSUME NEW f \in Flag, won[f] # Null
       PROVE  /\ Made(f) /\ Winning(f) /\ won[f].at \in Nat /\ won[f].at <= now
              /\ won[f].at > restarted
  <2>1. Winning(f) BY <1>7, <1>9, Recent DEF Replaced
  <2> QED BY <1>4, <1>6, <1>9, <2>1, Recent, TimingType
<1>10. Captures'
  <2> SUFFICES ASSUME NEW f \in Flag, won[f] # Null PROVE Made(f)' /\ Winning(f)' BY <1>1 DEF Captures
  <2>1. ~(won[f].at > now) BY <1>4, <1>9
  <2>2. changed'[f] = now BY <1>1
  <2>3. Made(f)' BY <1>1, <1>9, <2>1, <2>2 DEF Made, InFlight
  <2>4. Winning(f)' BY <1>1, <1>2, <1>9 DEF Winning, Due, InFlight, window
  <2> QED BY <2>3, <2>4
<1>11. Shielded'
  <2>1. ASSUME NEW f \in Flag, won[f] # Null, won[f].capout PROVE \E g \in Away : Home[g] = Neutral
    <3>1. IsCapout(won[f].team, Truth) BY <1>9, <2>1 DEF Made
    <3>2. PICK g \in Flag : Home[g] = Neutral BY DEF Timing
    <3>3. Truth[g] = won[f].team /\ won[f].team # Neutral
      BY <2>1, <3>1, Recent, FlagAssumption DEF IsCapout
    <3> QED BY <3>2, <3>3 DEF Away
  <2>2. until <= now
    <3>1. until <= restarted + 1 + DeferDelay + ResetWindow BY DEF Inv, TInv, Timeline
    <3> QED BY <1>4, <1>6, <3>1, TimingType
  <2>3. ~(until > now) BY <1>4, <2>2
  <2> QED BY <1>1, <2>1, <2>3 DEF Shielded, window
<1>12. Scores' /\ Standing' BY <1>1, <1>2 DEF Inv, TInv, Scores, Standing, InFlight, window
<1>13. OvertakenTold' /\ BarWrongIsTemporary'
  BY <1>1, <1>2 DEF Inv, TInv, OvertakenTold, Owed, BarWrongIsTemporary, InFlight, window
<1> QED BY <1>5, <1>8, <1>11, <1>12, <1>13, <1>10 DEF TInv

-----------------------------------------------------------------------------
(* Reports.                                                                *)

\* A batch without an emission is empty, so that dropping it is nothing.
LEMMA NothingStale ==
    ASSUME Timing, Inv, NEW f \in Flag, DropStaleBatch(f) PROVE batch' = batch
<1>1. batch' = [batch EXCEPT ![f] = IF InFlight(f) THEN @ ELSE {}] BY DEF DropStaleBatch
<1>2. ~InFlight(f) => batch[f] = {} BY Recent DEF Inv, TInv, Scores
<1>3. batch \in [Flag -> SUBSET Player] BY DEF Inv, IInv, TypeOK
<1> QED BY <1>1, <1>2, <1>3

LEMMA RepeatTiming == ASSUME Timing, Inv, NEW f \in Flag, Repeat(f) PROVE TInv'
<1>1. Truth[f] \in Team /\ ControlPointCaptured(f, Truth[f])
      /\ UNCHANGED <<now, level, engine, initAt, bar, won>>
  BY DEF Repeat
<1>2. owner[f] = Truth[f] BY <1>1, FlagAssumption DEF Inv, IInv, Tracked, Shown
<1>3. SameOwner(f, Truth[f])
  BY <1>1, <1>2 DEF ControlPointCaptured, GoneNeutral, GoneHome, Taken
<1>4. UNCHANGED <<owner, lastBy, emit, window>> /\ batch' = batch
  BY <1>3, NothingStale DEF SameOwner
<1>5. Facts' BY <1>1, <1>4, FactsKept DEF Inv, TInv, Facts, engine, window
<1>6. Truth' = Truth BY <1>1 DEF Truth, engine
<1>7. OvertakenTold' /\ BarWrongIsTemporary'
  BY <1>1, <1>4, <1>6 DEF Inv, TInv, OvertakenTold, Owed, BarWrongIsTemporary, InFlight, window
<1> QED BY <1>5, <1>7 DEF TInv, Facts

\* Players take a flag outside of any window: it is a capture to the plugin.
LEMMA CaptureTaken ==
    ASSUME Timing, Inv, NEW f \in Flag, NEW t \in Team, NEW by \in SUBSET Side(t),
           NEW drift \in SUBSET (Player \ Side(t)), Capture(f, t, by, drift)
    PROVE  /\ Taken(f, t) /\ cascade = {} /\ won[f] = Null
           /\ until <= now /\ now >= restarted + Gap
           /\ Truth'[f] = t /\ \A g \in Flag \ {f} : Truth'[g] = Truth[g]
<1>1. Settled(f) /\ Truth[f] # t /\ ControlPointCaptured(f, t) /\ held' = [held EXCEPT ![f] = t]
  BY DEF Capture
<1>2. won[f] = Null BY <1>1, Recent
<1>3. now \in Nat /\ restarted \in Nat /\ until \in Nat /\ changed[f] \in Nat BY NowType DEF Inv
<1>4. now >= restarted + Gap
  <2>1. now >= changed[f] + Gap /\ restarted <= changed[f] BY <1>1 DEF Settled, Inv, TInv, Timeline
  <2> QED BY <1>3, <2>1, TimingType
<1>5. until <= now
  <2>1. until <= restarted + 1 + DeferDelay + ResetWindow BY DEF Inv, TInv, Timeline
  <2> QED BY <1>3, <1>4, <2>1, TimingType
<1>6. cascade = {}
  <2>1. cascade # {} => now <= restarted + 1 BY DEF Inv, TInv, Timeline
  <2> QED BY <1>3, <1>4, <2>1, TimingType
<1>7. owner[f] # t BY <1>1 DEF Inv, IInv, Tracked, Shown
<1>8. ~Restored(f, t) BY <1>3, <1>5 DEF Restored
<1>9. Taken(f, t) BY <1>1, <1>7, <1>8 DEF ControlPointCaptured, SameOwner, GoneNeutral, GoneHome
<1>10. Truth'[f] = t /\ \A g \in Flag \ {f} : Truth'[g] = Truth[g]
  BY <1>1, FlagAssumption DEF Truth, Inv, IInv, TypeOK
<1> QED BY <1>2, <1>4, <1>5, <1>6, <1>9, <1>10

\* The plugin and the game agree on whether all flags are a team's.
LEMMA SameVerdict ==
    ASSUME IInv', NEW t \in Team PROVE IsCapout(t, owner') = IsCapout(t, Truth')
<1>1. \A f \in Flag : (owner'[f] = t) <=> (Truth'[f] = t)
  BY FlagAssumption DEF IInv, Tracked, Shown
<1> QED BY <1>1 DEF IsCapout

LEMMA CaptureTiming ==
    ASSUME Timing, Inv, NEW f \in Flag, NEW t \in Team, NEW by \in SUBSET Side(t),
           NEW drift \in SUBSET (Player \ Side(t)), by # {}, Capture(f, t, by, drift)
    PROVE  TInv'
<1>1. /\ Taken(f, t) /\ cascade = {} /\ won[f] = Null
      /\ until <= now /\ now >= restarted + Gap
      /\ Truth'[f] = t /\ \A g \in Flag \ {f} : Truth'[g] = Truth[g]
  BY CaptureTaken
<1>2. /\ changed' = [changed EXCEPT ![f] = now]
      /\ won' = [won EXCEPT ![f] = [team |-> t, by |-> by, capout |-> IsCapout(t, Truth'), at |-> now]]
      /\ UNCHANGED <<now, level, cascade, restarted, initAt, bar>>
  BY DEF Capture
<1>3. /\ owner' = [owner EXCEPT ![f] = t] /\ lastBy' = [lastBy EXCEPT ![f] = t]
      /\ emit' = [emit EXCEPT ![f] = [owner |-> t, capout |-> IsCapout(t, owner'), at |-> now]]
      /\ UNCHANGED <<batch, window>>
  BY <1>1 DEF Taken
<1>4. IInv' BY CaptureStep DEF Inv
<1>5. /\ emit'[f] = [owner |-> t, capout |-> IsCapout(t, Truth'), at |-> now]
      /\ won'[f] = [team |-> t, by |-> by, capout |-> IsCapout(t, Truth'), at |-> now]
      /\ lastBy'[f] = t /\ changed'[f] = now
  BY <1>2, <1>3, <1>4, SameVerdict DEF Inv, IInv, TypeOK
<1>6. \A g \in Flag \ {f} : /\ emit'[g] = emit[g] /\ won'[g] = won[g]
                             /\ lastBy'[g] = lastBy[g] /\ changed'[g] = changed[g]
  BY <1>2, <1>3 DEF Inv, IInv, TypeOK
<1>7. now \in Nat /\ restarted \in Nat /\ until \in Nat BY NowType DEF Inv
<1>8. emit'[f] # Null /\ won'[f] # Null
  <2>1. emit'[f] \in Emission
    <3>1. IsCapout(t, Truth') \in BOOLEAN BY DEF IsCapout
    <3> QED BY <1>5, <1>7, <3>1 DEF Emission
  <2>2. won'[f] \in Feat
    <3>1. IsCapout(t, Truth') \in BOOLEAN /\ by \in SUBSET Player BY DEF IsCapout, Side
    <3> QED BY <1>5, <1>7, <3>1 DEF Feat
  <2> QED BY <2>1, <2>2, SentinelAssumption
<1>9. Timeline'
  <2>1. ~(now < restarted + Gap) BY <1>1, <1>7, TimingType
  <2>2. restarted <= now BY DEF Inv, TInv, Timeline
  <2>3. \A g \in Flag : restarted <= changed'[g] /\ changed'[g] <= now
    BY <1>5, <1>6, <1>7, <2>2 DEF Inv, TInv, Timeline
  <2> QED BY <1>1, <1>2, <1>3, <2>1, <2>2, <2>3 DEF Inv, TInv, Timeline, window
<1>10. Noise' BY <1>2, <1>6, <1>8 DEF Inv, TInv, Noise, Stray, InFlight
<1>11. Captures'
  <2>1. Made(f)' /\ Winning(f)'
    <3>1. \A p \in by : TeamOf[p] = t BY DEF Side
    <3>2. Due(f)' /\ InFlight(f)' BY <1>5, <1>8 DEF Due, InFlight
    <3>3. ~(Truth'[f] # won'[f].team) BY <1>1, <1>5
    <3>4. won'[f].capout => IsCapout(won'[f].team, Truth') BY <1>5
    <3>5. Made(f)' BY <1>1, <1>2, <1>5, <1>7, <3>1, <3>2, <3>4 DEF Made
    <3> QED BY <1>5, <3>2, <3>3, <3>5 DEF Winning
  <2>2. ASSUME NEW g \in Flag \ {f}, won'[g] # Null PROVE Made(g)' /\ (Winning(g) \/ Replaced(g))'
    <3>1. Made(g) /\ (Winning(g) \/ Replaced(g)) /\ won[g].team \in Team BY <1>6, <2>2, Recent
    <3>2. ~(won[g].capout /\ won[g].at > restarted) BY <3>1 DEF Made, Capture
    <3>3. Made(g)' BY <1>2, <1>6, <3>1, <3>2 DEF Made, InFlight
    <3>4. CASE Winning(g)
      <4>1. Winning(g)' BY <1>1, <1>3, <1>6, <3>4 DEF Winning, Due, InFlight, window
      <4> QED BY <3>3, <4>1
    <3>5. CASE Replaced(g)
      <4>1. Replaced(g)' BY <1>2, <1>6, <3>5 DEF Replaced, Overrun, Stray
      <4> QED BY <3>3, <4>1
    <3> QED BY <3>1, <3>4, <3>5
  <2> QED BY <2>1, <2>2 DEF Captures
<1>12. Shielded' BY <1>1, <1>2 DEF Shielded
<1>13. Scores'
  <2>1. batch[f] = {} /\ \A e \in score : e.flag \in Flag /\ e.flag # f
    BY <1>1, ScoreType DEF Inv, TInv, Scores
  <2>2. ASSUME NEW e \in score' \ score
        PROVE  \E p \in Player, real \in BOOLEAN :
                  /\ e = [flag |-> f, by |-> p, real |-> real, at |-> now + ScoreDelay]
                  /\ real = (TeamOf[p] = t) /\ (real => p \in by)
    <3>1. CASE \E p \in by : e = [flag |-> f, by |-> p, real |-> TRUE, at |-> now + ScoreDelay]
      <4>1. PICK p \in by : e = [flag |-> f, by |-> p, real |-> TRUE, at |-> now + ScoreDelay] BY <3>1
      <4>2. p \in Player /\ TeamOf[p] = t BY DEF Side
      <4> QED BY <4>1, <4>2
    <3>2. CASE \E p \in drift : e = [flag |-> f, by |-> p, real |-> FALSE, at |-> now + ScoreDelay]
      <4>1. PICK p \in drift : e = [flag |-> f, by |-> p, real |-> FALSE, at |-> now + ScoreDelay] BY <3>2
      <4>2. p \in Player /\ TeamOf[p] # t BY DEF Side
      <4> QED BY <4>1, <4>2
    <3> QED BY <2>2, <3>1, <3>2 DEF Capture
  <2>3. ASSUME NEW e \in score'
        PROVE  /\ now' <= e.at /\ won'[e.flag] # Null /\ e.at = won'[e.flag].at + ScoreDelay
               /\ e.real = (TeamOf[e.by] = won'[e.flag].team)
               /\ e.by \notin batch'[e.flag]
               /\ e.real => e.by \in won'[e.flag].by
    <3>1. CASE e \in score BY <1>2, <1>3, <1>6, <2>1, <3>1 DEF Inv, TInv, Scores
    <3>2. CASE e \notin score
      <4>1. PICK p \in Player, real \in BOOLEAN :
                  /\ e = [flag |-> f, by |-> p, real |-> real, at |-> now + ScoreDelay]
                  /\ real = (TeamOf[p] = t) /\ (real => p \in by)
        BY <2>2, <2>3, <3>2
      <4>2. now <= now + ScoreDelay BY <1>7, TimingType
      <4> QED BY <1>2, <1>3, <1>5, <1>8, <2>1, <4>1, <4>2
    <3> QED BY <3>1, <3>2
  <2>4. ASSUME NEW g \in Flag, won'[g] # Null
        PROVE  /\ \A p \in won'[g].by : p \in batch'[g] \/ \E e \in score' : e.flag = g /\ e.by = p
               /\ \A p \in batch'[g] : TeamOf[p] = won'[g].team => p \in won'[g].by
    <3>1. CASE g = f
      <4>1. ASSUME NEW p \in by PROVE \E e \in score' : e.flag = f /\ e.by = p
        <5>1. [flag |-> f, by |-> p, real |-> TRUE, at |-> now + ScoreDelay] \in score' BY DEF Capture
        <5> QED BY <5>1
      <4> QED BY <1>3, <1>5, <2>1, <3>1, <4>1
    <3>2. CASE g # f
      <4>1. score \subseteq score' BY DEF Capture
      <4> QED BY <1>3, <1>6, <2>4, <3>2, <4>1 DEF Inv, TInv, Scores
    <3> QED BY <3>1, <3>2
  <2>5. \A g \in Flag : won'[g] = Null => batch'[g] = {}
    BY <1>3, <1>6, <2>1 DEF Inv, TInv, Scores
  <2> QED BY <2>3, <2>4, <2>5 DEF Scores
<1>14. Standing' BY <1>1, <1>3, <1>5, <1>6 DEF Inv, TInv, Standing, InFlight, window
<1>15. OvertakenTold'
  <2>1. ~(until > now) BY <1>1, <1>7
  <2> QED BY <1>1, <1>2, <1>3, <1>5, <1>6, <2>1 DEF Inv, TInv, OvertakenTold, Owed, InFlight, window
<1>16. BarWrongIsTemporary'
  BY <1>1, <1>2, <1>3, <1>6, <1>8 DEF Inv, TInv, BarWrongIsTemporary, InFlight, window
<1> QED BY <1>9, <1>10, <1>11, <1>12, <1>13, <1>14, <1>15, <1>16 DEF TInv

HomeReport(f) == IF Home[f] = Neutral THEN Spectator ELSE Home[f]

\* What a restart changes of the flag it reports, and when.
LEMMA ResetEffect ==
    ASSUME Timing, Inv, NEW f \in Flag, Reset(f)
    PROVE  /\ f \in cascade /\ cascade' = cascade \ {f}
           /\ restarted <= now /\ now <= restarted + 1
           /\ Home[f] = Neutral \/ \A g \in cascade : Home[g] # Neutral
           /\ ControlPointCaptured(f, HomeReport(f))
           /\ Truth'[f] = Home[f] /\ \A g \in Flag \ {f} : Truth'[g] = Truth[g]
           /\ Shown(HomeReport(f)) = Home[f] /\ owner[f] # HomeReport(f)
           /\ UNCHANGED <<now, changed, restarted, score, initAt, bar, won>>
<1>1. /\ f \in cascade /\ cascade' = cascade \ {f} /\ held' = [held EXCEPT ![f] = Neutral]
      /\ ControlPointCaptured(f, HomeReport(f))
      /\ UNCHANGED <<now, changed, restarted, score, initAt, bar, won>>
      /\ Home[f] = Neutral \/ \A g \in cascade : Home[g] # Neutral
  BY TimingType DEF Reset, HomeReport
<1>2. restarted <= now /\ now <= restarted + 1 /\ f \in Away BY <1>1 DEF Inv, TInv, Timeline
<1>3. Truth'[f] = Home[f] /\ \A g \in Flag \ {f} : Truth'[g] = Truth[g]
  BY <1>1 DEF Truth, Inv, IInv, TypeOK
<1>4. Shown(HomeReport(f)) = Home[f] BY HomeType, FlagAssumption DEF Shown, HomeReport
<1>5. owner[f] # HomeReport(f) BY <1>2, <1>4 DEF Away, Inv, IInv, Tracked
<1> QED BY <1>1, <1>2, <1>3, <1>4, <1>5

\* A flag of the restart is away until it is reported.
LEMMA ResetTimeline ==
    ASSUME Timing, Inv, NEW f \in Flag, Reset(f), until' <= restarted + 1 + DeferDelay + ResetWindow
    PROVE  Timeline'
<1>1. /\ cascade' = cascade \ {f}
      /\ Truth'[f] = Home[f] /\ \A g \in Flag \ {f} : Truth'[g] = Truth[g]
      /\ UNCHANGED <<now, changed, restarted>>
  BY ResetEffect
<1>2. Away' = Away \ {f} BY <1>1 DEF Away
<1> QED BY <1>1, <1>2 DEF Inv, TInv, Timeline

\* The report is not of a capture: the flag goes to nobody or home.
LEMMA ResetSeen ==
    ASSUME Timing, Inv, NEW f \in Flag, Reset(f),
           GoneNeutral(f, HomeReport(f)) \/ GoneHome(f, HomeReport(f))
    PROVE  TInv'
<1>1. /\ f \in cascade /\ cascade' = cascade \ {f}
      /\ restarted <= now /\ now <= restarted + 1
      /\ Home[f] = Neutral \/ \A g \in cascade : Home[g] # Neutral
      /\ Truth'[f] = Home[f] /\ \A g \in Flag \ {f} : Truth'[g] = Truth[g]
      /\ UNCHANGED <<now, changed, restarted, score, initAt, bar, won>>
  BY ResetEffect
<1>2. UNCHANGED <<lastBy, emit>> /\ batch' = batch BY NothingStale DEF GoneNeutral, GoneHome
<1>3. now \in Nat /\ restarted \in Nat /\ until \in Nat BY NowType DEF Inv
<1>4. /\ Owed' /\ until <= until' /\ until' > now /\ until' \in Nat
      /\ until' = now + ResetWindow \/ (until' = until /\ Home[f] # Neutral)
  <2>1. CASE GoneNeutral(f, HomeReport(f))
    <3>1. ArmWindow BY <2>1 DEF GoneNeutral
    <3> QED BY <1>3, <3>1, ArmWindowOwes, TimingType DEF Inv, IInv, Owed
  <2>2. CASE GoneHome(f, HomeReport(f))
    <3>1. HomeReport(f) \in Team /\ until > now /\ window' = window BY <2>2 DEF GoneHome, Restored
    <3>2. Home[f] # Neutral BY <3>1, FlagAssumption DEF HomeReport
    <3>3. Owed BY <3>1 DEF Inv, IInv, WindowOwes
    <3> QED BY <1>3, <3>1, <3>2, <3>3 DEF Owed, window
  <2> QED BY <2>1, <2>2
<1>5. Timeline'
  <2>1. until <= restarted + 1 + DeferDelay + ResetWindow BY DEF Inv, TInv, Timeline
  <2>2. until' <= restarted + 1 + DeferDelay + ResetWindow BY <1>1, <1>3, <1>4, <2>1, TimingType
  <2> QED BY <2>2, ResetTimeline
<1>6. Noise' BY <1>1, <1>2 DEF Inv, TInv, Noise, Stray, InFlight
<1>7. until' >= restarted + ResetWindow
  <2>1. CASE until' = now + ResetWindow BY <1>1, <1>3, <2>1, TimingType
  <2>2. CASE until' = until
    <3>1. until > now BY <1>4, <2>2
    <3> QED BY <1>1, <2>2, <3>1 DEF Inv, TInv, Shielded
  <2> QED BY <1>4, <2>1, <2>2
<1>8. Shielded' BY <1>1, <1>7 DEF Shielded
<1>9. Captures'
  <2> SUFFICES ASSUME NEW g \in Flag, won[g] # Null
               PROVE  Made(g)' /\ (Winning(g) \/ Replaced(g))'
    BY <1>1 DEF Captures
  <2>1. /\ Made(g) /\ (Winning(g) \/ Replaced(g)) /\ won[g].at \in Nat
        /\ won[g].at <= restarted
    BY <1>1, Recent, BeforeRestart
  <2>2. ~(won[g].at > restarted) BY <1>3, <2>1
  <2>3. Made(g)' BY <1>1, <1>2, <2>1, <2>2 DEF Made, InFlight
  <2>4. until' > won[g].at + DeferDelay BY <1>3, <1>4, <1>7, <2>1, TimingType
  <2>5. CASE Winning(g)
    <3>1. Winning(g)' BY <1>1, <1>2, <2>4, <2>5 DEF Winning, Due, InFlight
    <3> QED BY <2>3, <3>1
  <2>6. CASE Replaced(g)
    <3>1. Replaced(g)' BY <1>1, <1>2, <2>6 DEF Replaced, Overrun, Stray
    <3> QED BY <2>3, <3>1
  <2> QED BY <2>1, <2>5, <2>6
<1>10. Scores' BY <1>1, <1>2 DEF Inv, TInv, Scores
<1>11. Standing'
  <2>1. \A g \in Flag : InFlight(g) => ~(until' <= emit[g].at)
    BY <1>3, <1>4, EmissionType DEF Inv
  <2> QED BY <1>2, <2>1 DEF Standing, InFlight
<1>12. OvertakenTold' /\ BarWrongIsTemporary' BY <1>4 DEF OvertakenTold, Owed, BarWrongIsTemporary
<1> QED BY <1>5, <1>6, <1>8, <1>9, <1>10, <1>11, <1>12 DEF TInv

\* A flag that goes home outside of any window is taken for captured, by nobody
\* and for nothing: in place of a capture, if one was due that won nothing.
LEMMA ResetTaken ==
    ASSUME Timing, Inv, NEW f \in Flag, Reset(f), Taken(f, HomeReport(f))
    PROVE  TInv'
<1>1. /\ f \in cascade /\ cascade' = cascade \ {f}
      /\ restarted <= now /\ now <= restarted + 1
      /\ Home[f] = Neutral \/ \A g \in cascade : Home[g] # Neutral
      /\ Truth'[f] = Home[f] /\ \A g \in Flag \ {f} : Truth'[g] = Truth[g]
      /\ UNCHANGED <<now, changed, restarted, score, initAt, bar, won>>
  BY ResetEffect
<1>2. Home[f] \in Team /\ HomeReport(f) = Home[f] BY FlagAssumption DEF Taken, HomeReport
<1>3. /\ owner' = [owner EXCEPT ![f] = Home[f]]
      /\ emit' = [emit EXCEPT ![f] = [owner |-> Home[f], capout |-> IsCapout(Home[f], owner'), at |-> now]]
      /\ lastBy' = [lastBy EXCEPT ![f] = Home[f]]
      /\ UNCHANGED <<batch, window>> /\ ~(until > now)
  BY <1>2 DEF Taken, Restored
<1>4. now \in Nat /\ restarted \in Nat /\ until \in Nat BY NowType DEF Inv
<1>5. \A g \in cascade : Home[g] # Neutral BY <1>1, <1>2, FlagAssumption
<1>6. ~\E g \in Flag : won[g] # Null /\ won[g].capout
  <2> SUFFICES ASSUME \E g \in Flag : won[g] # Null /\ won[g].capout PROVE FALSE OBVIOUS
  <2>1. until >= restarted + ResetWindow BY <1>1, <1>5 DEF Inv, TInv, Shielded
  <2> QED BY <1>1, <1>3, <1>4, <2>1, TimingType
<1>7. IInv' BY ResetStep DEF Inv
<1>8. ~IsCapout(Home[f], owner')
  <2>1. PICK g \in Flag : Home[g] = Neutral BY DEF Timing
  <2>2. Away \subseteq cascade BY <1>1, <1>4, TimingType DEF Inv, TInv, Timeline
  <2>3. g \notin Away BY <1>5, <2>1, <2>2
  <2>4. Truth'[g] = Neutral BY <1>1, <1>2, <2>1, <2>3, FlagAssumption DEF Away
  <2>5. ~IsCapout(Home[f], Truth') BY <1>2, <2>4, FlagAssumption DEF IsCapout
  <2> QED BY <1>2, <1>7, <2>5, SameVerdict
<1>9. /\ emit'[f].owner = Home[f] /\ emit'[f].capout = FALSE /\ emit'[f].at = now
      /\ emit'[f] # Null
      /\ \A g \in Flag \ {f} : emit'[g] = emit[g]
  <2>1. IsCapout(Home[f], owner') = FALSE BY <1>8 DEF IsCapout
  <2>2. emit'[f] = [owner |-> Home[f], capout |-> FALSE, at |-> now]
        /\ \A g \in Flag \ {f} : emit'[g] = emit[g]
    BY <1>3, <2>1 DEF Inv, IInv, TypeOK
  <2>3. emit'[f] \in Emission BY <1>2, <1>4, <2>2 DEF Emission
  <2>4. emit'[f] # Null BY <2>3, SentinelAssumption
  <2> QED BY <2>2, <2>4
<1>10. Timeline'
  <2>1. until' <= restarted + 1 + DeferDelay + ResetWindow BY <1>3 DEF window, Inv, TInv, Timeline
  <2> QED BY <2>1, ResetTimeline
<1>11. Stray(f)' BY <1>1, <1>9 DEF Stray
<1>12. Noise' BY <1>1, <1>9, <1>11 DEF Inv, TInv, Noise, Stray, InFlight
<1>13. Captures'
  <2> SUFFICES ASSUME NEW g \in Flag, won[g] # Null
               PROVE  Made(g)' /\ (Winning(g) \/ Replaced(g))'
    BY <1>1 DEF Captures
  <2>1. /\ Made(g) /\ (Winning(g) \/ Replaced(g)) /\ won[g].at \in Nat
        /\ won[g].at <= restarted /\ won[g].at <= now
    BY <1>1, Recent, BeforeRestart
  <2>2. ~(won[g].at > restarted) BY <1>4, <2>1
  <2>3. Made(g)'
    <3>1. InFlight(g)' /\ won[g].at <= emit'[g].at
      BY <1>9, <2>1 DEF Made, InFlight
    <3> QED BY <1>1, <2>1, <2>2, <3>1 DEF Made
  <2>4. CASE g = f
    <3>1. Replaced(f)' BY <1>1, <1>6, <1>11, <2>1, <2>4 DEF Replaced, Overrun
    <3> QED BY <2>3, <2>4, <3>1
  <2>5. CASE g # f /\ Winning(g)
    <3>1. lastBy'[g] = lastBy[g] /\ emit'[g] = emit[g] BY <1>3, <1>9, <2>5 DEF Inv, IInv, TypeOK
    <3>2. Winning(g)' BY <1>1, <1>3, <2>5, <3>1 DEF Winning, Due, InFlight, window
    <3> QED BY <2>3, <3>2
  <2>6. CASE g # f /\ Replaced(g)
    <3>1. Replaced(g)' BY <1>1, <1>9, <2>6 DEF Replaced, Overrun, Stray
    <3> QED BY <2>3, <3>1
  <2> QED BY <2>1, <2>4, <2>5, <2>6
<1>14. Shielded'
  <2>1. ~(until' > now') BY <1>1, <1>3, <1>4 DEF window
  <2> QED BY <1>1, <1>6, <2>1 DEF Shielded
<1>15. Scores' BY <1>1, <1>3 DEF Inv, TInv, Scores
<1>16. Standing' BY <1>1, <1>3, <1>9 DEF Inv, TInv, Standing, InFlight, window
<1>17. OvertakenTold' BY <1>1, <1>3, <1>9 DEF Inv, TInv, OvertakenTold, Owed, InFlight, window
<1>18. BarWrongIsTemporary' BY <1>1, <1>3, <1>9 DEF Inv, TInv, BarWrongIsTemporary, InFlight, window
<1> QED BY <1>10, <1>12, <1>13, <1>15, <1>16, <1>17, <1>18, <1>14 DEF TInv

LEMMA ResetTiming == ASSUME Timing, Inv, NEW f \in Flag, Reset(f) PROVE TInv'
BY ResetEffect, ResetSeen, ResetTaken DEF ControlPointCaptured, SameOwner

LEMMA TimingStep == ASSUME Timing, Inv, [Next]_vars PROVE Inv'
<1>1. IInv' BY Inductive DEF Inv
<1> SUFFICES TInv' BY <1>1 DEF Inv
<1>2. CASE StartOfPlay BY <1>2, SnapshotTiming DEF StartOfPlay, window
<1>3. CASE InitConfig BY <1>3, SnapshotTiming DEF InitConfig, window
<1>4. CASE \E f \in Flag, t \in Team : \E by \in SUBSET Side(t), drift \in SUBSET (Player \ Side(t)) :
             by # {} /\ Capture(f, t, by, drift)
  BY <1>4, CaptureTiming
<1> QED
  BY <1>2, <1>3, <1>4, ScoreTiming, EmitTiming, ResetSnapshotTiming, HeartbeatTiming, RestartTiming,
     ResetTiming, RepeatTiming, LoseTiming, LevelChangeTiming, TickTiming, FrameTiming
  DEF Next

LEMMA TimingInvariant == ASSUME Timing PROVE Spec => []Inv
<1>1. Init => Inv BY StartTiming
<1>2. Inv /\ [Next]_vars => Inv' BY TimingStep
<1> QED BY <1>1, <1>2, PTL DEF Spec

-----------------------------------------------------------------------------
(* What is said of a capture.                                              *)

\* Only two steps say anything of a capture or a credit.
LEMMA Saying ==
    ASSUME Next
    PROVE  \/ post' = NoPost
           \/ \E e \in score : PlayerScored(e)
           \/ \E f \in Flag : DeferredEmitCap(f)
<1>1. CASE \E f \in Flag, t \in Team : \E by \in SUBSET Side(t), drift \in SUBSET (Player \ Side(t)) :
             by # {} /\ Capture(f, t, by, drift)
  BY <1>1 DEF Capture
<1>2. CASE StartOfPlay \/ ResetSnapshot \/ Heartbeat \/ InitConfig
  BY <1>2 DEF StartOfPlay, ResetSnapshot, Heartbeat, InitConfig
<1>3. CASE Restart \/ (\E f \in Flag : Reset(f)) \/ (\E f \in Flag : Repeat(f))
  BY <1>3 DEF Restart, Reset, Repeat
<1>4. CASE LoseTask \/ LevelChange \/ Tick BY <1>4 DEF LoseTask, LevelChange, Tick
<1> QED BY <1>1, <1>2, <1>3, <1>4 DEF Next

LEMMA SaidOfEvent ==
    ASSUME NEW e \in score, PlayerScored(e) PROVE post'.kind \in {"none", "credit"}
<1>1. post' = NoPost \/ post' = [kind |-> "credit", by |-> e.by] BY DEF PlayerScored
<1> QED BY <1>1 DEF NoPost

\* What the task of a flag says is of that flag.
LEMMA SaidOfFlag ==
    ASSUME NEW f \in Flag, DeferredEmitCap(f)
    PROVE  /\ post'.kind \in {"drop", "cap"} /\ post'.flag = f
           /\ post'.kind = "drop" => Overtaken(f)
           /\ post'.kind = "cap" =>
                /\ IF LooksRestored(f) THEN ArmWindow ELSE UNCHANGED window
                /\ post'.owner = emit[f].owner /\ post'.capout = emit[f].capout
                /\ post'.captors = Captors(f, emit[f].owner)
<1>1. CASE Overtaken(f) /\ post' = [kind |-> "drop", flag |-> f] BY <1>1
<1>2. CASE /\ IF LooksRestored(f) THEN ArmWindow ELSE UNCHANGED window
           /\ post' = [kind |-> "cap", flag |-> f, owner |-> emit[f].owner,
                       captors |-> Captors(f, emit[f].owner), capout |-> emit[f].capout]
  BY <1>2
<1> QED BY <1>1, <1>2 DEF DeferredEmitCap

\* A capture made since the restart is not overtaken by the window of it.
LEMMA DropOfCapture ==
    ASSUME Timing, Inv, NEW f \in Flag, won[f] # Null, Overtaken(f)
    PROVE  Overrun(f)
<1>1. CASE Replaced(f) BY <1>1 DEF Replaced
<1>2. CASE Winning(f)
  <2>1. won[f].capout = emit[f].capout /\ emit[f].at = won[f].at BY <1>2 DEF Winning, Due
  <2>2. ~won[f].capout /\ until > won[f].at BY <2>1 DEF Overtaken
  <2>3. won[f].at > restarted => won[f].at >= restarted + Gap BY Recent DEF Made
  <2>4. until <= restarted + 1 + DeferDelay + ResetWindow BY DEF Inv, TInv, Timeline
  <2>5. won[f].at \in Nat BY Recent
  <2>6. won[f].at <= restarted BY <2>2, <2>3, <2>4, <2>5, NowType, TimingType DEF Inv
  <2> QED BY <2>2, <2>6 DEF Overrun
<1> QED BY <1>1, <1>2, Recent

\* What is announced without players behind it is of a flag that went home.
LEMMA NoiseSaid ==
    ASSUME Timing, Inv, NEW f \in Flag, won[f] = Null, DeferredEmitCap(f), post'.kind = "cap"
    PROVE  post'.captors = {} /\ ~post'.capout /\ (snapAt' # Null \/ lost')
<1>1. InFlight(f) BY DEF DeferredEmitCap
<1>2. emit[f].owner = Home[f] /\ emit[f].capout = FALSE BY <1>1 DEF Inv, TInv, Noise, Stray
<1>3. batch[f] = {} BY DEF Inv, TInv, Scores
<1>4. LooksRestored(f) /\ Captors(f, emit[f].owner) = {} BY <1>2, <1>3 DEF LooksRestored, Captors
<1>5. ArmWindow /\ post'.captors = {} /\ post'.capout = FALSE BY <1>2, <1>4, SaidOfFlag
<1> QED BY <1>5, ArmWindowOwes DEF Inv, IInv

-----------------------------------------------------------------------------
(* Theorems.                                                               *)

\* A capture that players made keeps its team and its verdict until its task
\* has run, unless it did not win the round and the round restarted since.
THEOREM CapturesAlwaysDue == ASSUME Timing PROVE Spec => []CapturesStayDue
<1>1. Inv => CapturesStayDue BY DEF Inv, TInv, Captures, Winning, Replaced, CapturesStayDue
<1> QED BY <1>1, TimingInvariant, PTL

\* An owner that the overlay shows wrongly is about to be put right.
THEOREM WrongOwnersPutRight == ASSUME Timing PROVE Spec => []BarWrongIsTemporary
<1>1. Inv => BarWrongIsTemporary BY DEF Inv, TInv
<1> QED BY <1>1, TimingInvariant, PTL

Dropped(f) == post' = [kind |-> "drop", flag |-> f] /\ won[f] # Null => Overrun(f)

\* The task drops a capture that players made only for a restart that came
\* after it, and never one that won the round.
THEOREM CapturesNeverDropped == ASSUME Timing PROVE Spec => DropsNoCapture
<1> DEFINE Body == \A f \in Flag : Dropped(f)
<1>1. ASSUME Inv, Next, NEW f \in Flag, post' = [kind |-> "drop", flag |-> f], won[f] # Null
      PROVE  Overrun(f)
  <2>1. post'.kind = "drop" /\ post'.flag = f BY <1>1
  <2>2. post' # NoPost BY <2>1 DEF NoPost
  <2>3. PICK g \in Flag : DeferredEmitCap(g) BY <1>1, <2>1, <2>2, Saying, SaidOfEvent
  <2>4. g = f /\ Overtaken(f) BY <2>1, <2>3, SaidOfFlag
  <2> QED BY <1>1, <2>4, DropOfCapture
<1>2. Inv /\ [Next]_vars => [Body]_vars BY <1>1 DEF Dropped
<1>3. [Body]_vars
      => [\A f \in Flag : post' = [kind |-> "drop", flag |-> f] /\ won[f] # Null =>
            Overrun(f)]_vars
  BY DEF Dropped
<1> HIDE DEF Body
<1> QED BY <1>2, <1>3, TimingInvariant, PTL DEF Spec, DropsNoCapture

\* An announcement is of the capture players made, with exactly its captors;
\* or it names nobody, is no capout, and a snapshot follows it; or it says of a
\* flag that a restart took from its captors that it has gone home.
AsMade(f) ==
    post'.kind = "cap" /\ post'.flag = f /\ InFlight(f) /\ emit'[f] = Null =>
         \/ /\ won[f] # Null
            /\ post'.owner = won[f].team /\ post'.capout = won[f].capout
            /\ post'.captors = won[f].by
         \/ /\ post'.captors = {} /\ ~post'.capout
            /\ snapAt' # Null \/ lost'
         \/ Overrun(f) /\ post'.owner = Home[f] /\ ~post'.capout

LEMMA AnnouncedAsMade == ASSUME Timing, Inv, Next, NEW f \in Flag PROVE AsMade(f)
<1> SUFFICES ASSUME post'.kind = "cap", post'.flag = f, InFlight(f), emit'[f] = Null
             PROVE  \/ /\ won[f] # Null
                       /\ post'.owner = won[f].team /\ post'.capout = won[f].capout
                       /\ post'.captors = won[f].by
                    \/ /\ post'.captors = {} /\ ~post'.capout
                       /\ snapAt' # Null \/ lost'
                    \/ Overrun(f) /\ post'.owner = Home[f] /\ ~post'.capout
  BY DEF AsMade
<1>1. post' # NoPost BY DEF NoPost
<1>2. PICK g \in Flag : DeferredEmitCap(g) BY <1>1, Saying, SaidOfEvent
<1>3. g = f BY <1>2, SaidOfFlag
<1>4. DeferredEmitCap(f) BY <1>2, <1>3
<1>5. CASE won[f] = Null BY <1>4, <1>5, NoiseSaid
<1>6. CASE won[f] # Null
  <2>1. /\ post'.owner = emit[f].owner /\ post'.capout = emit[f].capout
        /\ post'.captors = Captors(f, emit[f].owner)
    BY <1>4, SaidOfFlag
  <2>2. CASE Winning(f)
    <3>1. Captors(f, emit[f].owner) = won[f].by BY <1>4, <1>6, <2>2, AllNoted
    <3> QED BY <1>6, <2>1, <2>2, <3>1 DEF Winning, Due
  <2>3. CASE Replaced(f) BY <2>1, <2>3 DEF Replaced, Stray
  <2> QED BY <1>6, <2>2, <2>3, Recent
<1> QED BY <1>5, <1>6

\* What is announced of a flag is what happened to it.
THEOREM NothingIsInvented == ASSUME Timing PROVE Spec => NothingInvented
<1> DEFINE Body == \A f \in Flag : AsMade(f)
<1>1. Inv /\ [Next]_vars => [Body]_vars BY AnnouncedAsMade
<1>2. [Body]_vars
      => [\A f \in Flag : post'.kind = "cap" /\ post'.flag = f /\ InFlight(f) /\ emit'[f] = Null =>
            \/ /\ won[f] # Null
               /\ post'.owner = won[f].team /\ post'.capout = won[f].capout
               /\ post'.captors = won[f].by
            \/ /\ post'.captors = {} /\ ~post'.capout
               /\ snapAt' # Null \/ lost'
            \/ Overrun(f) /\ post'.owner = Home[f] /\ ~post'.capout]_vars
  BY DEF AsMade
<1> HIDE DEF Body
<1> QED BY <1>1, <1>2, TimingInvariant, PTL DEF Spec, NothingInvented

\* A score event is taken up once, and credited if the player made the capture.
LEMMA EventCredited ==
    ASSUME Timing, Inv, Next, NEW e \in score, e \notin score', level' = level
    PROVE  ((post'.kind = "credit") <=> e.real) \/ Overrun(e.flag)
<1>1. ~LevelChange BY DEF LevelChange, Inv, IInv, TypeOK
<1>2. ASSUME NEW f \in Flag, NEW t \in Team, NEW by \in SUBSET Side(t),
             NEW drift \in SUBSET (Player \ Side(t)), Capture(f, t, by, drift)
      PROVE  FALSE
  BY <1>2 DEF Capture
<1>3. PICK d \in score : PlayerScored(d)
  <2>1. CASE \/ StartOfPlay \/ ResetSnapshot \/ Heartbeat \/ InitConfig \/ LoseTask \/ Tick
             \/ \E f \in Flag : DeferredEmitCap(f)
    BY <2>1 DEF StartOfPlay, ResetSnapshot, Heartbeat, InitConfig, LoseTask, Tick, DeferredEmitCap,
                engine
  <2>2. CASE Restart \/ (\E f \in Flag : Reset(f)) \/ (\E f \in Flag : Repeat(f))
    BY <2>2 DEF Restart, Reset, Repeat, engine
  <2> QED BY <1>1, <1>2, <2>1, <2>2 DEF Next
<1>4. d = e BY <1>3 DEF PlayerScored
<1>5. e.real \in BOOLEAN BY ScoreType DEF Inv
<1> QED BY <1>3, <1>4, <1>5, Noted

Earned(e) == e \notin score' /\ level' = level =>
                ((post'.kind = "credit") <=> e.real) \/ Overrun(e.flag)

\* Those who made a capture are credited for it, and nobody else is, unless the
\* round restarted in between.
THEOREM CreditAlwaysEarned == ASSUME Timing PROVE Spec => CreditIsEarned
<1> DEFINE Body == \A e \in score : Earned(e)
<1>1. Inv /\ [Next]_vars => [Body]_vars BY EventCredited DEF Earned
<1>2. [Body]_vars
      => [\A e \in score : e \notin score' /\ level' = level =>
            ((post'.kind = "credit") <=> e.real) \/ Overrun(e.flag)]_vars
  BY DEF Earned
<1> HIDE DEF Body
<1> QED BY <1>1, <1>2, TimingInvariant, PTL DEF Spec, CreditIsEarned
=============================================================================

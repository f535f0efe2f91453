------------------------ MODULE MatchRecorderProofs -------------------------
(***************************************************************************)
(* Proofs about MatchRecorder for any number of matches, servers, events   *)
(* and crashes: its types, then what it keeps on disk.                     *)
(***************************************************************************)
EXTENDS MatchRecorder, SequenceTheorems, TLAPS

USE DEF Start, End, Final, Play, Transient

-----------------------------------------------------------------------------
(* Type correctness. TypeOK alone is not inductive: that a row has the     *)
(* kind of a recorded event, and that the metadata a handler changes is    *)
(* there, depends on where the handler is.                                 *)

Writing == call.at \in {"write", "fill"}
Stage == IF Writing THEN call.then ELSE call.at

CallOK ==
    /\ Stage \notin {"write", "fill"}
    /\ Writing => Stage \notin {"idle", "reap"} /\ meta[call.match] # Null
    /\ Stage \notin {"idle", "reap"} => call.match \in Match
    /\ Stage \in {"start", "create", "record", "forward", "accepted"}
         => call.event \in Event
    /\ Stage \in {"start", "create", "record", "accepted"}
         => call.event.kind \in RecordedKind
    /\ Stage \in {"create", "accepted"} => meta[call.match] # Null
    /\ \A m \in active : meta[m] # Null

TypeInv == TypeOK /\ CallOK

\* Nothing is left of a handler when the process dies.
DownIsIdle == ~up => call = Idle

LEMMA ExceptType ==
    ASSUME NEW S, NEW T, NEW f \in [S -> T], NEW x, NEW v \in T
    PROVE  [f EXCEPT ![x] = v] \in [S -> T]
OBVIOUS

\* What the three ways of moving a handler on do to it.
LEMMA GoToFields ==
    ASSUME call \in Call, NEW s \in Step, GoTo(s)
    PROVE  /\ call' \in Call
           /\ call'.at = s /\ call'.then = "idle"
           /\ call'.match = call.match /\ call'.event = call.event
BY DEF GoTo, Call, Step

LEMMA WriteThenFields ==
    ASSUME call \in Call, NEW s \in Step, WriteThen(s)
    PROVE  /\ call' \in Call
           /\ call'.at = "write" /\ call'.then = s
           /\ call'.match = call.match /\ call'.event = call.event
BY DEF WriteThen, Call, Step

LEMMA IdleFields ==
    /\ Idle \in Call /\ Idle.at = "idle" /\ Idle.match = Null
    /\ Reaping \in Call /\ Reaping.at = "reap" /\ Reaping.match = Null
BY DEF Idle, Reaping, Call, Step

\* What the handlers do to a match's metadata.
LEMMA MetadataFields ==
    ASSUME NEW f \in Metadata, NEW e \in Event, NEW n \in Nat, now \in Nat
    PROVE  /\ New(e) \in Metadata
           /\ New(e).map = e.map /\ New(e).half = e.half /\ New(e).src = e.src
           /\ New(e).endedAt = Null /\ New(e).count = 0
           /\ Labelled(f, e) \in Metadata
           /\ Labelled(f, e).map = e.map /\ Labelled(f, e).half = e.half
           /\ Labelled(f, e).src = f.src /\ Labelled(f, e).count = f.count
           /\ Labelled(f, e).endedAt = f.endedAt
           /\ Counted(f, n) \in Metadata
           /\ Counted(f, n).map = f.map /\ Counted(f, n).half = f.half
           /\ Counted(f, n).src = f.src /\ Counted(f, n).count = n
           /\ Counted(f, n).endedAt = f.endedAt
           /\ EndedNow(f) \in Metadata
           /\ EndedNow(f).map = f.map /\ EndedNow(f).half = f.half
           /\ EndedNow(f).src = f.src /\ EndedNow(f).count = f.count
           /\ EndedNow(f).endedAt = now
<1>1. New(e) \in Metadata
  BY DEF New, Metadata, Event
<1>2. Labelled(f, e) \in Metadata
  BY DEF Labelled, Metadata, Event
<1>3. Counted(f, n) \in Metadata
  BY DEF Counted, Metadata
<1>4. EndedNow(f) \in Metadata
  BY DEF EndedNow, Metadata
<1>5. /\ New(e).map = e.map /\ New(e).half = e.half /\ New(e).src = e.src
      /\ New(e).endedAt = Null /\ New(e).count = 0
  BY DEF New
<1>6. /\ Labelled(f, e).map = e.map /\ Labelled(f, e).half = e.half
      /\ Labelled(f, e).src = f.src /\ Labelled(f, e).count = f.count
      /\ Labelled(f, e).endedAt = f.endedAt
  BY DEF Labelled, Metadata
<1>7. /\ Counted(f, n).map = f.map /\ Counted(f, n).half = f.half
      /\ Counted(f, n).src = f.src /\ Counted(f, n).count = n
      /\ Counted(f, n).endedAt = f.endedAt
  BY DEF Counted, Metadata
<1>8. /\ EndedNow(f).map = f.map /\ EndedNow(f).half = f.half
      /\ EndedNow(f).src = f.src /\ EndedNow(f).count = f.count
      /\ EndedNow(f).endedAt = now
  BY DEF EndedNow, Metadata
<1>. QED BY <1>1, <1>2, <1>3, <1>4, <1>5, <1>6, <1>7, <1>8

LEMMA InitTypeInv == Init => TypeInv
<1>. SUFFICES ASSUME Init PROVE TypeInv
  OBVIOUS
<1>1. TypeOK
  BY IdleFields DEF Init, TypeOK
<1>2. CallOK
  BY IdleFields DEF Init, CallOK, Stage, Writing
<1>. QED BY <1>1, <1>2 DEF TypeInv

LEMMA DeliverTypeInv ==
    ASSUME TypeInv, NEW e \in PostedEvent, Deliver(e) PROVE TypeInv'
<1>. USE DEF TypeInv
<1>1. /\ e \in Event /\ e.match \in Match
      /\ e.kind # Transient => e.kind \in RecordedKind
      /\ Entry(e.kind) \in {"start", "forward", "record"}
      /\ Entry(e.kind) # "forward" => e.kind # Transient
  BY DEF PostedEvent, Event, RecordedKind, Entry
<1>2. /\ call' \in Call /\ call'.at = Entry(e.kind)
      /\ call'.match = e.match /\ call'.event = e
  BY <1>1 DEF Deliver, Call, Step
<1>3. TypeOK'
  BY <1>2 DEF Deliver, TypeOK, memory, disk
<1>4. CallOK'
  BY <1>1, <1>2 DEF Deliver, CallOK, Stage, Writing, memory
<1>. QED BY <1>3, <1>4

LEMMA WriteTypeInv ==
    ASSUME TypeInv, WriteMetadata \/ FillMetadata PROVE TypeInv'
<1>. USE DEF TypeInv
<1>1. /\ call' \in Call /\ call'.at = call.then
      /\ call'.match = call.match /\ call'.event = call.event
  <2>1. call \in Call /\ call.then \in Step
    BY DEF TypeOK, Call
  <2>. QED BY <2>1, GoToFields DEF WriteMetadata, FillMetadata
<1>2. file' \in [Match -> Metadata \cup {Null, Torn}]
  BY DEF WriteMetadata, FillMetadata, TypeOK, CallOK, Stage, Writing
<1>3. TypeOK'
  BY <1>1, <1>2 DEF WriteMetadata, FillMetadata, TypeOK, memory
<1>4. CallOK'
  BY <1>1 DEF WriteMetadata, FillMetadata, CallOK, Stage, Writing, memory
<1>. QED BY <1>3, <1>4

LEMMA OpenTypeInv == ASSUME TypeInv, OpenMetadata PROVE TypeInv'
<1>. USE DEF TypeInv
<1>1. /\ call' \in Call /\ call'.at = "fill" /\ call'.then = call.then
      /\ call'.match = call.match /\ call'.event = call.event
  BY DEF OpenMetadata, TypeOK, Call, Step
<1>2. TypeOK'
  BY <1>1 DEF OpenMetadata, TypeOK, memory
<1>3. CallOK'
  BY <1>1 DEF OpenMetadata, CallOK, Stage, Writing, memory
<1>. QED BY <1>2, <1>3

LEMMA LoadTypeInv == ASSUME TypeInv, LoadMetadata PROVE TypeInv'
<1>. USE DEF TypeInv
<1>1. /\ call.match \in Match /\ meta[call.match] = Null
      /\ file[call.match] \in Metadata
  BY DEF LoadMetadata, Resolved, Parses, TypeOK, CallOK, Stage, Writing
<1>2. Len(log[call.match]) \in Nat
  BY <1>1 DEF TypeOK
<1>3. Counted(file[call.match], Len(log[call.match])) \in Metadata
  BY <1>1, <1>2 DEF Counted, Metadata
<1>4. /\ meta' \in [Match -> Metadata \cup {Null}]
      /\ meta'[call.match] # Null
      /\ \A m \in Match \ {call.match} : meta'[m] = meta[m]
  BY <1>1, <1>2, <1>3, SentinelAssumption DEF LoadMetadata, TypeOK
<1>5. /\ call' \in Call
      /\ call'.match = call.match /\ call'.event = call.event
      /\ \/ call'.at = call.at
         \/ call'.at = "write" /\ call'.then = call.at
  <2>1. call \in Call /\ call.at \in Step
    BY DEF TypeOK, Call
  <2>. QED BY <2>1, WriteThenFields DEF LoadMetadata
<1>6. TypeOK'
  BY <1>4, <1>5 DEF LoadMetadata, TypeOK, disk
<1>7. CallOK'
  BY <1>1, <1>4, <1>5 DEF LoadMetadata, CallOK, Stage, Writing, TypeOK
<1>. QED BY <1>6, <1>7

LEMMA StartTypeInv ==
    ASSUME TypeInv,
           StartRejected \/ StartUpgrade \/ StartDuplicate \/ StartNew \/ CreateLog
    PROVE  TypeInv'
<1>. USE DEF TypeInv
<1>1. call \in Call /\ {"record", "create"} \subseteq Step
  BY DEF TypeOK, Step
<1>2. CASE StartRejected
  <2>1. TypeOK'
    BY <1>2, IdleFields DEF StartRejected, Respond, TypeOK, memory, disk
  <2>2. CallOK'
    BY <1>2, IdleFields DEF StartRejected, Respond, CallOK, Stage, Writing, memory
  <2>. QED BY <2>1, <2>2
<1>3. CASE StartDuplicate
  <2>1. TypeOK'
    BY <1>1, <1>3, GoToFields DEF StartDuplicate, TypeOK, memory, disk
  <2>2. CallOK'
    BY <1>1, <1>3, GoToFields DEF StartDuplicate, CallOK, Stage, Writing, memory
  <2>. QED BY <2>1, <2>2
<1>4. CASE StartUpgrade
  <2>1. /\ call.match \in Match /\ call.event \in Event
        /\ meta[call.match] \in Metadata
    BY <1>4 DEF StartUpgrade, OwnedBy, TypeOK, CallOK, Stage, Writing
  <2>2. Labelled(meta[call.match], call.event) \in Metadata
    BY <2>1 DEF Labelled, Metadata, Event
  <2>3. /\ meta' \in [Match -> Metadata \cup {Null}]
        /\ \A m \in Match : meta[m] # Null => meta'[m] # Null
    BY <1>4, <2>1, <2>2, SentinelAssumption DEF StartUpgrade, TypeOK
  <2>4. TypeOK'
    BY <1>1, <1>4, <2>3, WriteThenFields DEF StartUpgrade, TypeOK, disk
  <2>5. CallOK'
    BY <1>1, <1>4, <2>1, <2>3, WriteThenFields, SentinelAssumption
       DEF StartUpgrade, CallOK, Stage, Writing, TypeOK
  <2>. QED BY <2>4, <2>5
<1>5. CASE StartNew
  <2>1. call.match \in Match /\ call.event \in Event
    BY <1>5 DEF StartNew, CallOK, Stage, Writing
  <2>2. New(call.event) \in Metadata
    BY <2>1 DEF New, Metadata, Event
  <2>3. /\ meta' \in [Match -> Metadata \cup {Null}]
        /\ meta'[call.match] # Null
        /\ \A m \in Match : meta[m] # Null => meta'[m] # Null
    BY <1>5, <2>1, <2>2, SentinelAssumption DEF StartNew, TypeOK
  <2>4. TypeOK'
    BY <1>1, <1>5, <2>3, WriteThenFields DEF StartNew, TypeOK, disk
  <2>5. CallOK'
    BY <1>1, <1>5, <2>1, <2>3, WriteThenFields
       DEF StartNew, CallOK, Stage, Writing, TypeOK
  <2>. QED BY <2>4, <2>5
<1>6. CASE CreateLog
  <2>1. call.match \in Match /\ meta[call.match] # Null
    BY <1>6 DEF CreateLog, CallOK, Stage, Writing
  <2>2. TypeOK'
    <3>1. /\ log' = log \/ log' = [log EXCEPT ![call.match] = <<>>]
          /\ mtime' = mtime \/ mtime' = [mtime EXCEPT ![call.match] = now]
          /\ lastEventAt' = [lastEventAt EXCEPT ![call.match] = now]
      BY <1>6 DEF CreateLog
    <3>2. <<>> \in Seq(Row) /\ now \in Nat
      BY EmptySeq DEF TypeOK
    <3>3. /\ log' \in [Match -> Seq(Row)]
          /\ mtime' \in [Match -> Nat \cup {Null}]
          /\ lastEventAt' \in [Match -> Nat]
      <4>. HIDE DEF TypeInv
      <4>1. /\ log \in [Match -> Seq(Row)]
            /\ mtime \in [Match -> Nat \cup {Null}]
            /\ lastEventAt \in [Match -> Nat]
        BY DEF TypeInv, TypeOK
      <4>2. log' \in [Match -> Seq(Row)]
        BY <4>1, <3>1, <3>2, ExceptType
      <4>3. mtime' \in [Match -> Nat \cup {Null}]
        BY <4>1, <3>1, <3>2, ExceptType
      <4>4. lastEventAt' \in [Match -> Nat]
        BY <4>1, <3>1, <3>2, ExceptType
      <4>. QED BY <4>2, <4>3, <4>4
    <3>4. /\ active' \subseteq Match /\ call' \in Call
      BY <1>1, <1>6, <2>1, GoToFields DEF CreateLog, TypeOK
    <3>. QED BY <1>6, <3>3, <3>4 DEF CreateLog, TypeOK
  <2>3. CallOK'
    BY <1>1, <1>6, <2>1, GoToFields DEF CreateLog, CallOK, Stage, Writing
  <2>. QED BY <2>2, <2>3
<1>. QED BY <1>2, <1>3, <1>4, <1>5, <1>6

\* A row is added by the two branches of recordEvent alike.
LEMMA AppendRowType ==
    ASSUME TypeOK, NEW m \in Match, NEW e \in Event, e.kind \in RecordedKind,
           meta[m] # Null, AppendRow(m, e)
    PROVE  /\ log' \in [Match -> Seq(Row)]
           /\ mtime' \in [Match -> Nat \cup {Null}]
           /\ meta' \in [Match -> Metadata \cup {Null}]
           /\ \A k \in Match : meta[k] # Null => meta'[k] # Null
<1>1. [kind |-> e.kind, src |-> e.src] \in Row
  BY DEF Row, Event
<1>2. log' \in [Match -> Seq(Row)]
  BY <1>1 DEF AppendRow, TypeOK
<1>3. mtime' \in [Match -> Nat \cup {Null}]
  BY DEF AppendRow, TypeOK
<1>4. Counted(meta[m], meta[m].count + 1) \in Metadata
  <2>1. meta[m] \in Metadata /\ meta[m].count \in Nat
    BY DEF TypeOK, Metadata
  <2>. QED BY <2>1 DEF Counted, Metadata
<1>5. /\ meta' \in [Match -> Metadata \cup {Null}]
      /\ \A k \in Match : meta[k] # Null => meta'[k] # Null
  BY <1>4, SentinelAssumption DEF AppendRow, TypeOK
<1>. QED BY <1>2, <1>3, <1>5

LEMMA RecordTypeInv ==
    ASSUME TypeInv,
           RecordAutoStart \/ RecordRejected \/ RecordLive \/ RecordLate \/ ForwardTransient
    PROVE  TypeInv'
<1>. USE DEF TypeInv
<1>1. call \in Call /\ {"start", "accepted"} \subseteq Step
  BY DEF TypeOK, Step
<1>2. CASE RecordAutoStart
  <2>1. TypeOK'
    BY <1>1, <1>2, GoToFields DEF RecordAutoStart, TypeOK, memory, disk
  <2>2. CallOK'
    BY <1>1, <1>2, GoToFields DEF RecordAutoStart, CallOK, Stage, Writing, memory
  <2>. QED BY <2>1, <2>2
<1>3. CASE RecordRejected \/ ForwardTransient
  <2>1. TypeOK'
    BY <1>3, IdleFields
       DEF RecordRejected, ForwardTransient, Respond, TypeOK, memory, disk
  <2>2. CallOK'
    BY <1>3, IdleFields
       DEF RecordRejected, ForwardTransient, Respond, CallOK, Stage, Writing, memory
  <2>. QED BY <2>1, <2>2
<1>4. CASE RecordLive \/ RecordLate
  <2>1. /\ call.match \in Match /\ call.event \in Event
        /\ call.event.kind \in RecordedKind /\ meta[call.match] # Null
        /\ AppendRow(call.match, call.event)
    BY <1>4 DEF RecordLive, RecordLate, OwnedBy, CallOK, Stage, Writing
  <2>2. /\ log' \in [Match -> Seq(Row)]
        /\ mtime' \in [Match -> Nat \cup {Null}]
        /\ meta' \in [Match -> Metadata \cup {Null}]
        /\ \A k \in Match : meta[k] # Null => meta'[k] # Null
    BY <2>1, AppendRowType
  <2>3. /\ call' \in Call /\ call'.match = call.match /\ call'.event = call.event
        /\ \/ call'.at = "accepted"
           \/ call'.at = "write" /\ call'.then = "accepted"
    BY <1>1, <1>4, GoToFields, WriteThenFields DEF RecordLive, RecordLate
  <2>4. lastEventAt' \in [Match -> Nat]
    BY <1>4 DEF RecordLive, RecordLate, TypeOK
  <2>5. TypeOK'
    BY <1>4, <2>2, <2>3, <2>4 DEF RecordLive, RecordLate, TypeOK
  <2>6. CallOK'
    BY <1>4, <2>1, <2>2, <2>3
       DEF RecordLive, RecordLate, CallOK, Stage, Writing, TypeOK
  <2>. QED BY <2>5, <2>6
<1>. QED BY <1>2, <1>3, <1>4

\* So is a match ended by its last event and by the reaper.
LEMMA EndTimeType ==
    ASSUME TypeOK, NEW m \in Match, meta[m] # Null,
           meta' = [meta EXCEPT ![m] = EndedNow(meta[m])]
    PROVE  /\ meta' \in [Match -> Metadata \cup {Null}]
           /\ \A k \in Match : meta[k] # Null => meta'[k] # Null
<1>1. EndedNow(meta[m]) \in Metadata
  <2>1. meta[m] \in Metadata /\ now \in Nat
    BY DEF TypeOK
  <2>. QED BY <2>1 DEF EndedNow, Metadata
<1>. QED BY <1>1, SentinelAssumption DEF TypeOK

LEMMA EndTypeInv ==
    ASSUME TypeInv, Accept \/ Deactivate \/ Reaper PROVE TypeInv'
<1>. USE DEF TypeInv
<1>1. call \in Call /\ "deactivate" \in Step
  BY DEF TypeOK, Step
<1>2. CASE Accept
  <2>1. call.match \in Match /\ meta[call.match] # Null
    BY <1>2 DEF Accept, CallOK, Stage, Writing
  <2>2. /\ meta' \in [Match -> Metadata \cup {Null}]
        /\ \A k \in Match : meta[k] # Null => meta'[k] # Null
    <3>1. \/ meta' = meta
          \/ meta' = [meta EXCEPT ![call.match] = EndedNow(meta[call.match])]
      BY <1>2 DEF Accept
    <3>2. TypeOK
      OBVIOUS
    <3>3. CASE meta' = meta
      BY <3>2, <3>3 DEF TypeOK
    <3>4. CASE meta' = [meta EXCEPT ![call.match] = EndedNow(meta[call.match])]
      <4>. HIDE DEF TypeInv
      <4>. QED BY <2>1, <3>2, <3>4, EndTimeType
    <3>. QED BY <3>1, <3>3, <3>4
  <2>3. /\ call' \in Call /\ reply' \in {Null, 200, 409}
        /\ \/ call' = Idle
           \/ /\ call'.at = "write" /\ call'.then = "deactivate"
              /\ call'.match = call.match
    <3>1. CASE call.event.kind = End
      <4>1. WriteThen("deactivate") /\ reply' = reply
        BY <1>2, <3>1 DEF Accept
      <4>2. /\ call' \in Call /\ call'.at = "write" /\ call'.then = "deactivate"
            /\ call'.match = call.match
        BY <1>1, <4>1, WriteThenFields
      <4>. QED BY <4>1, <4>2 DEF TypeOK
    <3>2. CASE call.event.kind # End
      <4>1. call' = Idle /\ reply' = 200
        BY <1>2, <3>2 DEF Accept, Respond
      <4>. QED BY <4>1, IdleFields
    <3>. QED BY <3>1, <3>2
  <2>4. TypeOK'
    BY <1>2, <2>2, <2>3 DEF Accept, TypeOK, disk
  <2>5. CallOK'
    BY <1>2, <2>1, <2>2, <2>3, IdleFields DEF Accept, CallOK, Stage, Writing, TypeOK
  <2>. QED BY <2>4, <2>5
<1>3. CASE Deactivate
  <2>1. /\ call' \in {Idle, Reaping} /\ reply' \in {Null, 200, 409}
        /\ lastEventAt' \in [Match -> Nat]
    <3>1. lastEventAt' = [lastEventAt EXCEPT ![call.match] = 0]
      BY <1>3 DEF Deactivate
    <3>2. lastEventAt \in [Match -> Nat] /\ reply \in {Null, 200, 409}
      BY DEF TypeOK
    <3>3. lastEventAt' \in [Match -> Nat]
      <4>. HIDE DEF TypeInv
      <4>. QED BY <3>1, <3>2, ExceptType
    <3>4. /\ call' \in {Idle, Reaping}
          /\ reply' \in {reply, 200}
      <4>. HIDE DEF TypeInv
      <4>. QED BY <1>3 DEF Deactivate, Respond
    <3>. QED BY <3>2, <3>3, <3>4
  <2>2. TypeOK'
    BY <1>3, <2>1, IdleFields DEF Deactivate, TypeOK, disk
  <2>3. CallOK'
    BY <1>3, <2>1, IdleFields DEF Deactivate, CallOK, Stage, Writing
  <2>. QED BY <2>2, <2>3
<1>4. ASSUME NEW m \in Match, Reap(m) PROVE TypeInv'
  <2>1. meta[m] # Null
    BY <1>4 DEF Reap, Stale, CallOK
  <2>2. /\ meta' \in [Match -> Metadata \cup {Null}]
        /\ \A k \in Match : meta[k] # Null => meta'[k] # Null
    BY <1>4, <2>1, EndTimeType DEF Reap
  <2>3. /\ call' \in Call /\ call'.match = m
        /\ call'.at = "write" /\ call'.then = "deactivate"
    BY <1>4 DEF Reap, Call, Step
  <2>4. TypeOK'
    BY <1>4, <2>2, <2>3 DEF Reap, TypeOK, disk
  <2>5. CallOK'
    BY <1>4, <2>1, <2>2, <2>3 DEF Reap, CallOK, Stage, Writing, TypeOK
  <2>. QED BY <2>4, <2>5
<1>5. CASE ReapDone
  <2>1. TypeOK'
    BY <1>5, IdleFields DEF ReapDone, TypeOK, memory, disk
  <2>2. CallOK'
    BY <1>5, IdleFields DEF ReapDone, CallOK, Stage, Writing, memory
  <2>. QED BY <2>1, <2>2
<1>. QED BY <1>2, <1>3, <1>4, <1>5 DEF Reaper

LEMMA CrashTypeInv ==
    ASSUME TypeInv, DownIsIdle, Crash \/ Restart \/ Tick PROVE TypeInv'
<1>. USE DEF TypeInv
<1>1. CASE Crash
  <2>1. TypeOK'
    <3>1. /\ up' = FALSE /\ active' = {} /\ call' = Idle /\ reply' = Null
          /\ crashes' = crashes + 1 /\ now' = now
          /\ file' = file /\ log' = log /\ mtime' = mtime
      <4>. HIDE DEF TypeInv
      <4>. QED BY <1>1 DEF Crash, disk
    <3>2. /\ meta' = [m \in Match |-> Null]
          /\ lastEventAt' = [m \in Match |-> 0]
      BY <1>1 DEF Crash
    <3>3. /\ meta' \in [Match -> Metadata \cup {Null}]
          /\ lastEventAt' \in [Match -> Nat]
      <4>. HIDE DEF TypeInv
      <4>. QED BY <3>2
    <3>4. crashes' \in Nat /\ now' \in Nat
      BY <3>1 DEF TypeOK
    <3>. QED BY <3>1, <3>3, <3>4, IdleFields DEF TypeOK
  <2>2. CallOK'
    BY <1>1, IdleFields DEF Crash, CallOK, Stage, Writing
  <2>. QED BY <2>1, <2>2
<1>2. CASE Restart
  <2>1. \A m \in Match : Unfinished(m) => file[m] \in Metadata
    BY DEF Unfinished, Parses, TypeOK
  <2>2. \A m \in Match : Len(log[m]) \in Nat
    BY DEF TypeOK
  <2>3. \A m \in Match : Unfinished(m) => Counted(file[m], Len(log[m])) \in Metadata
    BY <2>1, <2>2 DEF Counted, Metadata
  <2>4. /\ meta' \in [Match -> Metadata \cup {Null}]
        /\ \A m \in Match : Unfinished(m) => meta'[m] # Null
    BY <1>2, <2>1, <2>2, <2>3, SentinelAssumption DEF Restart
  <2>5. lastEventAt' \in [Match -> Nat]
    BY <1>2 DEF Restart, TypeOK
  <2>6. TypeOK'
    BY <1>2, <2>4, <2>5 DEF Restart, TypeOK, disk
  <2>7. CallOK'
    <3>1. /\ call' = call /\ active' = {m \in Match : Unfinished(m)}
          /\ \A m \in active' : meta'[m] # Null
      BY <1>2, <2>4 DEF Restart
    <3>2. call = Idle
      BY <1>2 DEF Restart, DownIsIdle
    <3>. QED BY <3>1, <3>2, IdleFields DEF CallOK, Stage, Writing
  <2>. QED BY <2>6, <2>7
<1>3. CASE Tick
  <2>1. TypeOK'
    BY <1>3 DEF Tick, TypeOK, memory, disk
  <2>2. CallOK'
    BY <1>3 DEF Tick, CallOK, Stage, Writing, memory
  <2>. QED BY <2>1, <2>2
<1>. QED BY <1>1, <1>2, <1>3

LEMMA NextDownIsIdle ==
    ASSUME DownIsIdle, [Next]_vars PROVE DownIsIdle'
<1>1. CASE \E e \in PostedEvent : Deliver(e)
  BY <1>1 DEF Deliver, DownIsIdle
<1>2. CASE Handle \/ ReapDone
  <2>1. call # Idle /\ up' = up
    BY <1>2, IdleFields
       DEF Handle, ReapDone, WriteMetadata, OpenMetadata, FillMetadata, LoadMetadata,
           StartRejected, StartUpgrade, StartDuplicate, StartNew, CreateLog,
           RecordAutoStart, RecordRejected, RecordLive, RecordLate, Accept,
           Deactivate, ForwardTransient
  <2>. QED BY <2>1 DEF DownIsIdle
<1>3. CASE \E m \in Match : Reap(m)
  BY <1>3 DEF Reap, DownIsIdle
<1>4. CASE Crash \/ Restart \/ Tick
  BY <1>4 DEF Crash, Restart, Tick, DownIsIdle
<1>5. CASE UNCHANGED vars
  BY <1>5 DEF vars, DownIsIdle
<1>. QED BY <1>1, <1>2, <1>3, <1>4, <1>5 DEF Next, Reaper

LEMMA NextTypeInv ==
    ASSUME TypeInv, DownIsIdle, [Next]_vars PROVE TypeInv'
<1>1. CASE Next
  BY <1>1, DeliverTypeInv, WriteTypeInv, OpenTypeInv, LoadTypeInv, StartTypeInv,
     RecordTypeInv, EndTypeInv, CrashTypeInv DEF Next, Handle
<1>2. CASE UNCHANGED vars
  BY <1>2 DEF vars, TypeInv, TypeOK, CallOK, Stage, Writing
<1>. QED BY <1>1, <1>2

\* Whatever is received, whenever the process dies, with or without torn
\* files: memory, disk and handler keep their shape, and in particular no
\* handler touches the metadata of a match it has none of.
THEOREM TypeCorrect == Spec => []TypeOK
<1>1. Init => TypeInv /\ DownIsIdle
  BY InitTypeInv DEF Init, DownIsIdle
<1>2. TypeInv /\ DownIsIdle /\ [Next]_vars => TypeInv' /\ DownIsIdle'
  BY NextTypeInv, NextDownIsIdle
<1>3. TypeInv => TypeOK BY DEF TypeInv
<1>. QED BY <1>1, <1>2, <1>3, PTL DEF Spec

-----------------------------------------------------------------------------
(* What MatchRecorder keeps on disk, where a metadata.json is written whole *)
(* or not at all: a log has an owner and rows of that owner only, a        *)
(* completed match is final, memory and disk agree, and the disk           *)
(* implements MatchLog.                                                    *)
(*                                                                         *)
(* The invariant. Memory and disk say the same of a match, but for its     *)
(* count, except while a handler is between the change of the one and the  *)
(* write of the other; three handlers are ever in that position.           *)

Creating(m) == call.match = m /\ Stage = "create"
Ending(m) == call.match = m /\ Stage = "deactivate"

Agree(m) ==
    /\ meta[m].map = file[m].map /\ meta[m].half = file[m].half
    /\ meta[m].endedAt = file[m].endedAt

Relabelling(m) ==
    /\ call.match = m /\ call.at = "write" /\ call.then = "record"
    /\ m \in active
    /\ file[m].half = 0 /\ file[m].map \in {Unknown, meta[m].map}
    /\ meta[m].half # 0
    /\ file[m].endedAt = Null /\ meta[m].endedAt = Null

Closing(m) ==
    /\ call.match = m /\ call.at = "write" /\ call.then = "deactivate"
    /\ meta[m].map = file[m].map /\ meta[m].half = file[m].half
    /\ file[m].endedAt = Null /\ meta[m].endedAt = now

\* The disk alone.
DiskOK(m) ==
    /\ file[m] # Torn
    /\ log[m] # <<>> => file[m] # Null
    /\ file[m] # Null => \A i \in DOMAIN log[m] : log[m][i].src = file[m].src

\* A match the process knows of.
KnownOK(m) ==
    meta[m] # Null =>
        /\ file[m] = Null => Creating(m)
        /\ file[m] # Null =>
              /\ meta[m].src = file[m].src
              /\ Agree(m) \/ Relabelling(m) \/ Closing(m)
        /\ m \notin active => Creating(m) \/ meta[m].endedAt # Null

\* A match in hand, being created, being ended.
ActiveOK(m) ==
    m \in active =>
        /\ file[m] # Null
        /\ ~Ending(m) => meta[m].endedAt = Null /\ file[m].endedAt = Null

CreatingOK(m) ==
    Creating(m) =>
        /\ m \notin active
        /\ meta[m].endedAt = Null
        /\ call.at = "write" => file[m] = Null
        /\ call.at = "create" => file[m] # Null /\ file[m].endedAt = Null

EndingOK(m) ==
    Ending(m) =>
        /\ m \in active
        /\ meta[m].endedAt # Null
        /\ call.at = "deactivate" => file[m].endedAt # Null

\* No match that goes on is forgotten by a process that runs.
RunningOK(m) == up /\ Unfinished(m) => m \in active \/ Creating(m)

MatchOK(m) ==
    /\ DiskOK(m) /\ KnownOK(m) /\ ActiveOK(m)
    /\ CreatingOK(m) /\ EndingOK(m) /\ RunningOK(m)

\* The handler.
HandlerOK ==
    /\ call.at # "fill"
    /\ DownIsIdle
    /\ Stage = "accepted" /\ call.event.kind = End => call.match \in active
    /\ Stage = "deactivate" /\ call.event # Null => call.event.kind = End

SafeInv == TypeInv /\ HandlerOK /\ \A m \in Match : MatchOK(m)

-----------------------------------------------------------------------------
(* Most matches are not concerned by most steps.                           *)

Changes == {"write", "fill", "create", "deactivate"}
Quiet(m) == call.match = m => call.at \notin Changes

LEMMA QuietMatch ==
    ASSUME NEW m, Quiet(m)
    PROVE  ~Creating(m) /\ ~Ending(m) /\ ~Relabelling(m) /\ ~Closing(m)
BY DEF Quiet, Changes, Creating, Ending, Relabelling, Closing, Stage, Writing

LEMMA QuietStep ==
    ASSUME NEW m \in Match, MatchOK(m), Quiet(m), Quiet(m)',
           meta'[m] = meta[m], file'[m] = file[m], log'[m] = log[m],
           m \in active' <=> m \in active, up' = up
    PROVE  MatchOK(m)'
<1>1. ~Creating(m) /\ ~Ending(m) /\ ~Relabelling(m) /\ ~Closing(m)
  BY QuietMatch
<1>2. ~Creating(m)' /\ ~Ending(m)' /\ ~Relabelling(m)' /\ ~Closing(m)'
  <2>1. call'.match = m => call'.at \notin Changes
    BY DEF Quiet, Changes
  <2> QED
    BY <2>1 DEF Changes, Creating, Ending, Relabelling, Closing, Stage, Writing
<1>3. DiskOK(m)'
  BY DEF MatchOK, DiskOK
<1>4. KnownOK(m)'
  BY <1>1, <1>2 DEF MatchOK, KnownOK, Agree
<1>5. ActiveOK(m)' /\ CreatingOK(m)' /\ EndingOK(m)'
  BY <1>1, <1>2 DEF MatchOK, ActiveOK, CreatingOK, EndingOK
<1>6. RunningOK(m)'
  BY <1>1, <1>2 DEF MatchOK, RunningOK, Unfinished, Parses
<1> QED
  BY <1>3, <1>4, <1>5, <1>6 DEF MatchOK

\* A step that only moves the handler on, from one quiet place to another.
LEMMA QuietSteps ==
    ASSUME SafeInv, UNCHANGED <<up, memory, disk>>,
           call.at \notin Changes, call'.at \notin Changes
    PROVE  \A m \in Match : MatchOK(m)'
<1> TAKE m \in Match
<1>1. Quiet(m) /\ Quiet(m)'
  BY DEF Quiet, Changes
<1>2. MatchOK(m)
  BY DEF SafeInv
<1>3. meta' = meta /\ file' = file /\ log' = log /\ active' = active /\ up' = up
  BY DEF memory, disk
<1> QED
  BY <1>1, <1>2, <1>3, QuietStep

\* A step on one match leaves the others as they are.
LEMMA OtherMatches ==
    ASSUME SafeInv, NEW c \in Match, NEW m \in Match \ {c},
           call.match = c \/ call.at \notin Changes,
           call'.match = c \/ call'.at \notin Changes,
           meta'[m] = meta[m], file'[m] = file[m], log'[m] = log[m],
           m \in active' <=> m \in active, up' = up
    PROVE  MatchOK(m)'
<1>1. Quiet(m) /\ Quiet(m)'
  BY DEF Quiet, Changes
<1>2. MatchOK(m)
  BY DEF SafeInv
<1> QED
  BY <1>1, <1>2, QuietStep

-----------------------------------------------------------------------------
(* The steps, one by one.                                                  *)

Safe == HandlerOK /\ \A m \in Match : MatchOK(m)

LEMMA InitSafe == Init => Safe
<1> SUFFICES ASSUME Init PROVE Safe
  OBVIOUS
<1>1. HandlerOK
  BY IdleFields DEF Init, HandlerOK, DownIsIdle, Stage, Writing, Idle
<1>2. ASSUME NEW m \in Match PROVE MatchOK(m)
  <2>1. meta[m] = Null /\ file[m] = Null /\ log[m] = <<>> /\ active = {} /\ call = Idle
    BY DEF Init
  <2>2. ~Creating(m) /\ ~Ending(m)
    BY <2>1 DEF Creating, Ending, Stage, Writing, Idle
  <2> QED
    BY <2>1, <2>2, SentinelAssumption
       DEF MatchOK, DiskOK, KnownOK, ActiveOK, CreatingOK, EndingOK, RunningOK,
           Unfinished, Parses
<1> QED
  BY <1>1, <1>2 DEF Safe

LEMMA DeliverSafe ==
    ASSUME SafeInv, NEW e \in PostedEvent, Deliver(e)
    PROVE  Safe'
<1>1. /\ call.at = "idle" /\ call'.at \in {"start", "forward", "record"} /\ up' = up /\ up
  BY DEF Deliver, Entry, Idle
<1>2. HandlerOK'
  BY <1>1 DEF HandlerOK, DownIsIdle, Stage, Writing
<1>3. \A m \in Match : MatchOK(m)'
  BY <1>1, QuietSteps DEF Deliver, Changes
<1> QED
  BY <1>2, <1>3 DEF Safe

\* The steps that decide without writing anything.
LEMMA DecideSafe ==
    ASSUME SafeInv,
           \/ StartRejected \/ StartDuplicate \/ RecordAutoStart \/ RecordRejected
           \/ ForwardTransient \/ ReapDone
    PROVE  Safe'
<1>1. /\ call.at \in {"start", "record", "forward", "reap"}
      /\ UNCHANGED <<up, memory, disk>>
  BY DEF StartRejected, StartDuplicate, RecordAutoStart, RecordRejected,
         ForwardTransient, ReapDone
<1>2. call \in Call /\ {"record", "start"} \subseteq Step
  BY DEF SafeInv, TypeInv, TypeOK, Step
<1>3. call'.at \in {"idle", "record", "start"}
  BY <1>2, GoToFields, IdleFields
     DEF StartRejected, StartDuplicate, RecordAutoStart, RecordRejected,
         ForwardTransient, ReapDone, Respond
<1>4. up
  BY <1>1, IdleFields DEF SafeInv, HandlerOK, DownIsIdle
<1>5. HandlerOK'
  BY <1>1, <1>3, <1>4 DEF HandlerOK, DownIsIdle, Stage, Writing
<1>6. \A m \in Match : MatchOK(m)'
  BY <1>1, <1>3, QuietSteps DEF Changes
<1> QED
  BY <1>5, <1>6 DEF Safe

LEMMA TickSafe ==
    ASSUME SafeInv, Tick
    PROVE  Safe'
<1>1. call = Idle /\ call' = Idle /\ UNCHANGED <<up, memory, disk>>
  BY DEF Tick
<1>2. HandlerOK'
  BY <1>1, IdleFields DEF HandlerOK, DownIsIdle, Stage, Writing, SafeInv
<1>3. \A m \in Match : MatchOK(m)'
  BY <1>1, IdleFields, QuietSteps DEF Changes
<1> QED
  BY <1>2, <1>3 DEF Safe

\* What the death of the process and the restart leave of a match.
LEMMA CrashSafe ==
    ASSUME SafeInv, Crash
    PROVE  Safe'
<1>1. HandlerOK'
  BY IdleFields DEF Crash, HandlerOK, DownIsIdle, Stage, Writing
<1>2. ASSUME NEW m \in Match PROVE MatchOK(m)'
  <2>1. meta'[m] = Null /\ active' = {} /\ up' = FALSE /\ call' = Idle
    BY DEF Crash
  <2>2. UNCHANGED <<file, log>>
    BY DEF Crash, disk
  <2>3. DiskOK(m)
    BY DEF SafeInv, MatchOK
  <2>4. ~Creating(m)' /\ ~Ending(m)'
    BY <2>1, IdleFields DEF Creating, Ending, Stage, Writing
  <2> QED
    BY <2>1, <2>2, <2>3, <2>4
       DEF MatchOK, DiskOK, KnownOK, ActiveOK, CreatingOK, EndingOK, RunningOK
<1> QED
  BY <1>1, <1>2 DEF Safe

LEMMA RestartSafe ==
    ASSUME SafeInv, Restart
    PROVE  Safe'
<1>1. call = Idle /\ call' = Idle
  BY DEF Restart, SafeInv, HandlerOK, DownIsIdle
<1>2. HandlerOK'
  BY <1>1, IdleFields DEF HandlerOK, DownIsIdle, Stage, Writing
<1>3. ASSUME NEW m \in Match PROVE MatchOK(m)'
  <2>1. /\ m \in active' <=> Unfinished(m)
        /\ meta'[m] = IF Unfinished(m) THEN Counted(file[m], Len(log[m])) ELSE Null
    BY DEF Restart
  <2>2. UNCHANGED <<file, log>>
    BY DEF Restart, disk
  <2>3. DiskOK(m)
    BY DEF SafeInv, MatchOK
  <2>4. ~Creating(m)' /\ ~Ending(m)'
    BY <1>1, IdleFields DEF Creating, Ending, Stage, Writing
  <2>5. CASE Unfinished(m)
    <3>1. file[m] \in Metadata /\ file[m].endedAt = Null /\ Len(log[m]) \in Nat
      BY <2>5 DEF Unfinished, Parses, SafeInv, TypeInv, TypeOK
    <3>2. /\ meta'[m].map = file[m].map /\ meta'[m].half = file[m].half
          /\ meta'[m].src = file[m].src /\ meta'[m].endedAt = Null
      BY <2>1, <2>5, <3>1 DEF Counted, Metadata
    <3>3. m \in active' /\ file'[m] = file[m] /\ file[m] # Null
      BY <2>1, <2>2, <2>5 DEF Unfinished, Parses
    <3>4. KnownOK(m)'
      BY <3>1, <3>2, <3>3 DEF KnownOK, Agree
    <3>5. ActiveOK(m)' /\ RunningOK(m)' /\ CreatingOK(m)' /\ EndingOK(m)'
      BY <2>4, <3>1, <3>2, <3>3 DEF ActiveOK, RunningOK, CreatingOK, EndingOK
    <3> QED
      BY <2>2, <2>3, <3>4, <3>5 DEF MatchOK, DiskOK
  <2>6. CASE ~Unfinished(m)
    <3>1. ~Unfinished(m)'
      BY <2>2, <2>6 DEF Unfinished, Parses
    <3> QED
      BY <2>1, <2>2, <2>3, <2>4, <2>6, <3>1
         DEF MatchOK, DiskOK, KnownOK, ActiveOK, CreatingOK, EndingOK, RunningOK
  <2> QED
    BY <2>5, <2>6
<1> QED
  BY <1>2, <1>3 DEF Safe

-----------------------------------------------------------------------------
\* What a handler that begins to change a match can rely on.
LEMMA BeforeChange ==
    ASSUME SafeInv, NEW m \in Match, Quiet(m), meta[m] # Null
    PROVE  /\ meta[m] \in Metadata /\ file[m] \in Metadata
           /\ meta[m].src = file[m].src /\ Agree(m)
           /\ m \in active => meta[m].endedAt = Null
           /\ m \notin active => meta[m].endedAt # Null
<1>1. ~Creating(m) /\ ~Ending(m) /\ ~Relabelling(m) /\ ~Closing(m)
  BY QuietMatch
<1>2. DiskOK(m) /\ KnownOK(m) /\ ActiveOK(m)
  BY DEF SafeInv, MatchOK
<1>3. /\ meta[m] \in Metadata \cup {Null}
      /\ file[m] \in Metadata \cup {Null, Torn}
  BY DEF SafeInv, TypeInv, TypeOK
<1> QED
  BY <1>1, <1>2, <1>3 DEF DiskOK, KnownOK, ActiveOK

LEMMA HandlerRuns ==
    ASSUME SafeInv, call.at # "idle"
    PROVE  up
BY IdleFields DEF SafeInv, HandlerOK, DownIsIdle

LEMMA HandlerMatch ==
    ASSUME SafeInv,
           call.at \in {"start", "create", "record", "forward", "accepted",
                        "write", "deactivate"}
    PROVE  /\ call \in Call /\ call.match \in Match
           /\ call.at \in {"start", "create", "record", "forward", "accepted"}
                => call.event \in Event
           /\ call.at \in {"create", "accepted", "write"} => meta[call.match] # Null
BY DEF SafeInv, TypeInv, TypeOK, CallOK, Stage, Writing

LEMMA WriteSafe ==
    ASSUME SafeInv, WriteMetadata
    PROVE  Safe'
<1> SUFFICES ASSUME NEW c \in Match, call.match = c PROVE Safe'
  BY HandlerMatch DEF WriteMetadata
<1>1. /\ call.at = "write" /\ file' = [file EXCEPT ![c] = meta[c]]
      /\ GoTo(call.then) /\ UNCHANGED <<up, active, meta, log, now>>
  BY DEF WriteMetadata, memory
<1>2. /\ c \in Match /\ meta[c] \in Metadata /\ call \in Call /\ up
      /\ call.then \notin {"write", "fill", "idle", "reap"} /\ call.then \in Step
  <2>1. call.then \in Step
    BY <1>1, HandlerMatch DEF Call
  <2>2. call.then \notin {"write", "fill", "idle", "reap"}
    BY <1>1 DEF SafeInv, TypeInv, CallOK, Stage, Writing
  <2> QED
    BY <1>1, <2>1, <2>2, HandlerMatch, HandlerRuns DEF SafeInv, TypeInv, TypeOK
<1>3. /\ call'.at = call.then /\ call'.match = c /\ call'.event = call.event
      /\ Stage' = Stage /\ Stage = call.then
  <2>1. call'.at = call.then /\ call'.match = c /\ call'.event = call.event
    BY <1>1, <1>2, GoToFields
  <2> QED
    BY <1>1, <1>2, <2>1 DEF Stage, Writing
<1>4. HandlerOK'
  BY <1>1, <1>2, <1>3 DEF HandlerOK, DownIsIdle, SafeInv
<1>5. file'[c] = meta[c] /\ file[c] \in Metadata \cup {Null, Torn}
  BY <1>1, <1>2 DEF SafeInv, TypeInv, TypeOK
<1>6. MatchOK(c)
  BY <1>2 DEF SafeInv
<1>7. (Creating(c)' <=> Creating(c)) /\ (Ending(c)' <=> Ending(c))
  BY <1>3 DEF Creating, Ending
<1>8. MatchOK(c)'
  <2>1. DiskOK(c)'
    <3>1. meta[c] # Null /\ meta[c] # Torn
      BY <1>2, SentinelAssumption
    <3>2. CASE file[c] = Null
      BY <1>1, <1>5, <1>6, <3>1, <3>2 DEF MatchOK, DiskOK
    <3>3. CASE file[c] # Null
      BY <1>1, <1>2, <1>5, <1>6, <3>1, <3>3 DEF MatchOK, DiskOK, KnownOK
    <3> QED
      BY <3>2, <3>3
  <2>2. KnownOK(c)'
    BY <1>1, <1>2, <1>5, <1>6, <1>7, SentinelAssumption DEF MatchOK, KnownOK, Agree
  <2>3. ActiveOK(c)' /\ RunningOK(c)'
    BY <1>1, <1>2, <1>5, <1>6, <1>7, SentinelAssumption
       DEF MatchOK, ActiveOK, RunningOK, KnownOK, Unfinished, Parses
  <2>4. CreatingOK(c)' /\ EndingOK(c)'
    BY <1>1, <1>2, <1>3, <1>5, <1>6, <1>7, SentinelAssumption
       DEF MatchOK, CreatingOK, EndingOK
  <2> QED
    BY <2>1, <2>2, <2>3, <2>4 DEF MatchOK
<1>9. ASSUME NEW m \in Match \ {c} PROVE MatchOK(m)'
  <2>1. file'[m] = file[m]
    BY <1>1, <1>9 DEF SafeInv, TypeInv, TypeOK
  <2> QED
    BY <1>1, <1>2, <1>3, <2>1, OtherMatches
<1> QED
  BY <1>4, <1>8, <1>9 DEF Safe

LEMMA LoadSafe ==
    ASSUME SafeInv, LoadMetadata
    PROVE  Safe'
<1> SUFFICES ASSUME NEW c \in Match, call.match = c PROVE Safe'
  BY HandlerMatch DEF LoadMetadata
<1>1. /\ call.at \in {"start", "record", "forward"} /\ ~Resolved(c)
      /\ UNCHANGED <<up, active, file, log, now>>
      /\ \/ call' = call /\ meta' = [meta EXCEPT ![c] = file[c]]
         \/ /\ WriteThen(call.at)
            /\ meta' = [meta EXCEPT ![c] = Counted(file[c], Len(log[c]))]
  BY DEF LoadMetadata, disk
<1>2. c \in Match /\ call \in Call /\ call.at \in Step /\ up
  BY <1>1, HandlerMatch, HandlerRuns DEF Call
<1>3. /\ file[c] \in Metadata /\ c \notin active
      /\ Len(log[c]) \in Nat /\ meta \in [Match -> Metadata \cup {Null}]
  BY <1>1, <1>2 DEF Resolved, Parses, SafeInv, TypeInv, TypeOK
<1>4. /\ call'.match = c /\ call'.event = call.event /\ Stage' = call.at
      /\ call'.at \in {call.at, "write"}
  <2>1. CASE call' = call
    BY <1>1, <2>1 DEF Stage, Writing
  <2>2. CASE WriteThen(call.at)
    BY <1>1, <1>2, <2>2, WriteThenFields DEF Stage, Writing
  <2> QED
    BY <1>1, <2>1, <2>2
<1>5. HandlerOK'
  BY <1>1, <1>2, <1>4 DEF HandlerOK, DownIsIdle
<1>6. ~Creating(c) /\ ~Creating(c)' /\ ~Ending(c)'
  BY <1>1, <1>4 DEF Creating, Ending, Stage, Writing
<1>7. MatchOK(c)
  BY <1>2 DEF SafeInv
<1>8. file[c].endedAt # Null
  BY <1>1, <1>2, <1>3, <1>6, <1>7
     DEF MatchOK, RunningOK, Resolved, Unfinished
<1>9. /\ meta'[c].map = file[c].map /\ meta'[c].half = file[c].half
      /\ meta'[c].src = file[c].src /\ meta'[c].endedAt = file[c].endedAt
  BY <1>1, <1>2, <1>3 DEF Counted, Metadata
<1>10. MatchOK(c)'
  BY <1>1, <1>3, <1>6, <1>7, <1>8, <1>9, SentinelAssumption
     DEF MatchOK, DiskOK, KnownOK, Agree, ActiveOK, CreatingOK, EndingOK, RunningOK,
         Unfinished, Parses
<1>11. ASSUME NEW m \in Match \ {c} PROVE MatchOK(m)'
  <2>1. meta'[m] = meta[m]
    BY <1>1, <1>3, <1>11
  <2> QED
    BY <1>1, <1>2, <1>4, <2>1, OtherMatches
<1> QED
  BY <1>5, <1>10, <1>11 DEF Safe

LEMMA UpgradeSafe ==
    ASSUME SafeInv, StartUpgrade
    PROVE  Safe'
<1> SUFFICES ASSUME NEW c \in Match, call.match = c PROVE Safe'
  BY HandlerMatch DEF StartUpgrade
<1> DEFINE e == call.event
<1>1. /\ call.at = "start" /\ c \in active /\ OwnedBy(c, e.src)
      /\ IsPlaceholder(c) /\ e.half > 0 /\ MapFits(c, e.map)
      /\ meta' = [meta EXCEPT ![c] = Labelled(meta[c], e)]
      /\ WriteThen("record") /\ UNCHANGED <<up, active, file, log, now>>
  BY DEF StartUpgrade, disk
<1>2. call \in Call /\ e \in Event /\ up /\ "record" \in Step
  BY <1>1, HandlerMatch, HandlerRuns DEF Step
<1>3. /\ call'.match = c /\ call'.event = e /\ call'.at = "write" /\ call'.then = "record"
  BY <1>1, <1>2, WriteThenFields
<1>4. HandlerOK'
  BY <1>2, <1>1, <1>3 DEF HandlerOK, DownIsIdle, Stage, Writing
<1>5. /\ meta[c] \in Metadata /\ file[c] \in Metadata /\ Agree(c)
      /\ meta[c].src = file[c].src /\ meta[c].endedAt = Null
      /\ meta \in [Match -> Metadata \cup {Null}]
  BY <1>1, BeforeChange DEF Quiet, Changes, OwnedBy, SafeInv, TypeInv, TypeOK
<1>6. /\ meta'[c].map = e.map /\ meta'[c].half = e.half /\ meta'[c].src = meta[c].src
      /\ meta'[c].endedAt = Null
  BY <1>1, <1>2, <1>5 DEF Labelled, Metadata
<1> HIDE DEF e
<1>7. Relabelling(c)'
  <2>1. file[c].half = 0 /\ file[c].map \in {Unknown, e.map} /\ file[c].endedAt = Null
    BY <1>1, <1>5 DEF Agree, IsPlaceholder, MapFits
  <2>2. e.half # 0
    BY <1>1, <1>2 DEF Event, Half
  <2> QED
    BY <1>1, <1>3, <1>6, <2>1, <2>2 DEF Relabelling
<1>8. ~Creating(c)' /\ ~Ending(c)' /\ ~Creating(c) /\ ~Ending(c)
  BY <1>1, <1>3 DEF Creating, Ending, Stage, Writing
<1>9. MatchOK(c)'
  <2>1. MatchOK(c)
    BY DEF SafeInv
  <2> QED
    BY <1>1, <1>5, <1>6, <1>7, <1>8, <2>1, SentinelAssumption
       DEF MatchOK, DiskOK, KnownOK, ActiveOK, CreatingOK, EndingOK, RunningOK
<1>10. ASSUME NEW m \in Match \ {c} PROVE MatchOK(m)'
  <2>1. meta'[m] = meta[m]
    BY <1>1, <1>5, <1>10
  <2> QED
    BY <1>1, <1>3, <2>1, OtherMatches
<1> QED
  BY <1>4, <1>9, <1>10 DEF Safe

LEMMA NewSafe ==
    ASSUME SafeInv, StartNew
    PROVE  Safe'
<1> SUFFICES ASSUME NEW c \in Match, call.match = c PROVE Safe'
  BY HandlerMatch DEF StartNew
<1> DEFINE e == call.event
<1>1. /\ call.at = "start" /\ c \notin active /\ Resolved(c) /\ ~Completed(c)
      /\ meta' = [meta EXCEPT ![c] = New(e)]
      /\ WriteThen("create") /\ UNCHANGED <<up, active, file, log, now>>
  BY DEF StartNew, disk
<1>2. call \in Call /\ e \in Event /\ up /\ "create" \in Step
  BY <1>1, HandlerMatch, HandlerRuns DEF Step
<1>3. /\ call'.match = c /\ call'.event = e /\ call'.at = "write" /\ call'.then = "create"
  BY <1>1, <1>2, WriteThenFields
<1>4. HandlerOK'
  BY <1>1, <1>2, <1>3 DEF HandlerOK, DownIsIdle, Stage, Writing
<1>5. MatchOK(c) /\ meta \in [Match -> Metadata \cup {Null}]
  BY DEF SafeInv, TypeInv, TypeOK
<1>6. meta[c] = Null
  <2>1. Quiet(c)
    BY <1>1 DEF Quiet, Changes
  <2> QED
    BY <1>1, <2>1, BeforeChange DEF Completed
<1>7. file[c] = Null
  BY <1>1, <1>5, <1>6 DEF Resolved, Parses, MatchOK, DiskOK
<1>8. meta'[c] # Null /\ meta'[c].endedAt = Null
  BY <1>1, <1>2, <1>5, SentinelAssumption, MetadataFields DEF New, Metadata, Event
<1>9. Creating(c)' /\ ~Ending(c)'
  BY <1>3 DEF Creating, Ending, Stage, Writing
<1>10. MatchOK(c)'
  BY <1>1, <1>3, <1>5, <1>7, <1>8, <1>9
     DEF MatchOK, DiskOK, KnownOK, ActiveOK, CreatingOK, EndingOK, RunningOK,
         Unfinished, Parses
<1>11. ASSUME NEW m \in Match \ {c} PROVE MatchOK(m)'
  <2>1. meta'[m] = meta[m]
    BY <1>1, <1>5, <1>11
  <2> QED
    BY <1>1, <1>3, <2>1, OtherMatches
<1> QED
  BY <1>4, <1>10, <1>11 DEF Safe

LEMMA CreateSafe ==
    ASSUME SafeInv, CreateLog
    PROVE  Safe'
<1> SUFFICES ASSUME NEW c \in Match, call.match = c PROVE Safe'
  BY HandlerMatch DEF CreateLog
<1>1. /\ call.at = "create" /\ active' = active \cup {c}
      /\ log' = log \/ log' = [log EXCEPT ![c] = <<>>]
      /\ GoTo("record") /\ UNCHANGED <<up, meta, file, now>>
  BY DEF CreateLog
<1>2. call \in Call /\ up /\ "record" \in Step /\ meta[c] # Null
  BY <1>1, HandlerMatch, HandlerRuns DEF Step
<1>3. call'.match = c /\ call'.event = call.event /\ call'.at = "record"
  BY <1>1, <1>2, GoToFields
<1>4. HandlerOK'
  BY <1>1, <1>2, <1>3 DEF HandlerOK, DownIsIdle, Stage, Writing
<1>5. MatchOK(c) /\ log \in [Match -> Seq(Row)]
  BY DEF SafeInv, TypeInv, TypeOK
<1>6. /\ Creating(c) /\ ~Creating(c)' /\ ~Ending(c)'
      /\ ~Relabelling(c) /\ ~Closing(c)
  BY <1>1, <1>3 DEF Creating, Ending, Stage, Writing, Relabelling, Closing
<1>7. log'[c] = log[c] \/ log'[c] = <<>>
  BY <1>1, <1>5
<1>8. DiskOK(c)'
  BY <1>1, <1>5, <1>7 DEF MatchOK, DiskOK
<1>9. MatchOK(c)'
  BY <1>1, <1>2, <1>5, <1>6, <1>8
     DEF MatchOK, KnownOK, Agree, ActiveOK, CreatingOK, EndingOK, RunningOK
<1>10. ASSUME NEW m \in Match \ {c} PROVE MatchOK(m)'
  <2>1. log'[m] = log[m]
    BY <1>1, <1>5, <1>10
  <2> QED
    BY <1>1, <1>3, <2>1, OtherMatches
<1> QED
  BY <1>4, <1>9, <1>10 DEF Safe

\* The two branches of recordEvent.
LEMMA RecordSafe ==
    ASSUME SafeInv, RecordLive \/ RecordLate
    PROVE  Safe'
<1> SUFFICES ASSUME NEW c \in Match, call.match = c PROVE Safe'
  BY HandlerMatch DEF RecordLive, RecordLate
<1> DEFINE e == call.event
           row == [kind |-> e.kind, src |-> e.src]
<1>1. /\ call.at = "record" /\ OwnedBy(c, e.src)
      /\ log' = [log EXCEPT ![c] = Append(@, row)]
      /\ meta' = [meta EXCEPT ![c] = Counted(meta[c], meta[c].count + 1)]
      /\ WriteThen("accepted") \/ GoTo("accepted")
      /\ UNCHANGED <<up, active, file, now>>
  BY DEF RecordLive, RecordLate, AppendRow
<1>2. call \in Call /\ e \in Event /\ up /\ "accepted" \in Step
  BY <1>1, HandlerMatch, HandlerRuns DEF Step
<1>3. /\ call'.match = c /\ call'.event = e /\ Stage' = "accepted"
      /\ call'.at \in {"write", "accepted"} /\ (call'.at = "write" => call'.then = "accepted")
  BY <1>1, <1>2, WriteThenFields, GoToFields DEF Stage, Writing
<1>4. e.kind = End => c \in active
  BY DEF RecordLive, RecordLate, Admissible
<1>5. HandlerOK'
  BY <1>1, <1>2, <1>3, <1>4 DEF HandlerOK, DownIsIdle
<1>6. /\ meta[c] \in Metadata /\ file[c] \in Metadata /\ Agree(c)
      /\ meta[c].src = file[c].src
      /\ meta \in [Match -> Metadata \cup {Null}] /\ log \in [Match -> Seq(Row)]
      /\ MatchOK(c) /\ meta[c].src = e.src
  BY <1>1, BeforeChange DEF Quiet, Changes, OwnedBy, SafeInv, TypeInv, TypeOK
<1>7. /\ meta'[c].map = meta[c].map /\ meta'[c].half = meta[c].half
      /\ meta'[c].src = meta[c].src /\ meta'[c].endedAt = meta[c].endedAt
  BY <1>1, <1>6 DEF Counted, Metadata
<1>8. ~Creating(c) /\ ~Ending(c) /\ ~Creating(c)' /\ ~Ending(c)'
  BY <1>1, <1>3 DEF Creating, Ending, Stage, Writing
<1> HIDE DEF e
<1>9. DiskOK(c)'
  <2>1. log'[c] = Append(log[c], row) /\ log[c] \in Seq(Row)
    BY <1>1, <1>6
  <2>2. row.src = file[c].src
    BY <1>6
  <2>3. \A i \in DOMAIN log[c] : log[c][i].src = file[c].src
    BY <1>6, SentinelAssumption DEF MatchOK, DiskOK
  <2> HIDE DEF row
  <2>4. \A i \in DOMAIN log'[c] : log'[c][i] = row \/ (i \in DOMAIN log[c] /\ log'[c][i] = log[c][i])
    BY <2>1
  <2>5. \A i \in DOMAIN log'[c] : log'[c][i].src = file[c].src
    BY <2>2, <2>3, <2>4
  <2> QED
    BY <1>1, <1>6, <2>5, SentinelAssumption DEF DiskOK
<1> HIDE DEF row
<1>10. Agree(c)'
  BY <1>1, <1>6, <1>7 DEF Agree
<1>11. MatchOK(c)'
  BY <1>1, <1>6, <1>7, <1>8, <1>9, <1>10, SentinelAssumption
     DEF MatchOK, KnownOK, ActiveOK, CreatingOK, EndingOK, RunningOK, Unfinished, Parses
<1>12. ASSUME NEW m \in Match \ {c} PROVE MatchOK(m)'
  <2>1. meta'[m] = meta[m] /\ log'[m] = log[m]
    BY <1>1, <1>6, <1>12
  <2> QED
    BY <1>1, <1>3, <2>1, OtherMatches
<1> QED
  BY <1>5, <1>11, <1>12 DEF Safe

\* A match is ended by its last event, by the reaper and by nothing else.
LEMMA BeginEndSafe ==
    ASSUME SafeInv, NEW c \in Match, c \in active, up,
           call.at \notin Changes,
           meta' = [meta EXCEPT ![c] = EndedNow(meta[c])],
           call'.at = "write", call'.then = "deactivate", call'.match = c,
           call'.event # Null => call'.event.kind = End,
           UNCHANGED <<up, active, disk, now>>
    PROVE  Safe'
<1>1. meta \in [Match -> Metadata \cup {Null}] /\ now \in Nat /\ meta[c] # Null
  BY DEF SafeInv, TypeInv, TypeOK, CallOK
<1>2. /\ meta[c] \in Metadata /\ file[c] \in Metadata
      /\ meta[c].src = file[c].src /\ Agree(c) /\ meta[c].endedAt = Null
  BY <1>1, BeforeChange DEF Quiet
<1>3. /\ meta'[c].map = meta[c].map /\ meta'[c].half = meta[c].half
      /\ meta'[c].src = meta[c].src /\ meta'[c].endedAt = now
  BY <1>1, <1>2 DEF EndedNow, Metadata
<1>4. HandlerOK'
  BY DEF HandlerOK, DownIsIdle, Stage, Writing
<1>5. UNCHANGED <<file, log>>
  BY DEF disk
<1>6. Closing(c)' /\ ~Creating(c)' /\ Ending(c)'
  BY <1>2, <1>3, <1>5 DEF Closing, Agree, Creating, Ending, Stage, Writing
<1>7. MatchOK(c)'
  <2>1. MatchOK(c) /\ now # Null
    BY <1>1, ConstantsAssumption DEF SafeInv
  <2> QED
    BY <1>2, <1>3, <1>5, <1>6, <2>1, SentinelAssumption
       DEF MatchOK, DiskOK, KnownOK, ActiveOK, CreatingOK, EndingOK, RunningOK
<1>8. ASSUME NEW m \in Match \ {c} PROVE MatchOK(m)'
  <2>1. meta'[m] = meta[m]
    BY <1>1, <1>8
  <2> QED
    BY <1>5, <2>1, OtherMatches
<1> QED
  BY <1>4, <1>7, <1>8 DEF Safe

LEMMA AcceptSafe ==
    ASSUME SafeInv, Accept
    PROVE  Safe'
<1> SUFFICES ASSUME NEW c \in Match, call.match = c PROVE Safe'
  BY HandlerMatch DEF Accept
<1>1. call.at = "accepted" /\ UNCHANGED <<up, active, disk, now>>
  BY DEF Accept
<1>2. call \in Call /\ up /\ call.at \notin Changes /\ "deactivate" \in Step
  BY <1>1, HandlerMatch, HandlerRuns DEF Step, Changes
<1>3. CASE call.event.kind = End
  <2>1. c \in active
    BY <1>1, <1>3 DEF SafeInv, HandlerOK, Stage, Writing
  <2>2. WriteThen("deactivate") /\ meta' = [meta EXCEPT ![c] = EndedNow(meta[c])]
    BY <1>3 DEF Accept
  <2>3. /\ call'.at = "write" /\ call'.then = "deactivate" /\ call'.match = c
        /\ call'.event.kind = End
    BY <1>2, <1>3, <2>2, WriteThenFields
  <2> QED
    BY <1>1, <1>2, <2>1, <2>2, <2>3, BeginEndSafe
<1>4. CASE call.event.kind # End
  <2>1. call' = Idle /\ UNCHANGED <<up, memory, disk>>
    BY <1>1, <1>4 DEF Accept, Respond, memory
  <2>2. HandlerOK'
    BY <2>1, IdleFields DEF HandlerOK, DownIsIdle, Stage, Writing
  <2>3. \A m \in Match : MatchOK(m)'
    BY <1>2, <2>1, IdleFields, QuietSteps DEF Changes
  <2> QED
    BY <2>2, <2>3 DEF Safe
<1> QED
  BY <1>3, <1>4

LEMMA ReapSafe ==
    ASSUME SafeInv, NEW c \in Match, Reap(c)
    PROVE  Safe'
<1>1. /\ up /\ call.at \notin Changes /\ c \in active
      /\ meta' = [meta EXCEPT ![c] = EndedNow(meta[c])]
      /\ call'.at = "write" /\ call'.then = "deactivate" /\ call'.match = c
      /\ call'.event = Null
      /\ UNCHANGED <<up, active, disk, now>>
  BY DEF Reap, Stale, Changes
<1> QED
  BY <1>1, BeginEndSafe

LEMMA DeactivateSafe ==
    ASSUME SafeInv, Deactivate
    PROVE  Safe'
<1> SUFFICES ASSUME NEW c \in Match, call.match = c PROVE Safe'
  BY HandlerMatch DEF Deactivate
<1>1. /\ call.at = "deactivate" /\ active' = active \ {c}
      /\ call' \in {Idle, Reaping} /\ UNCHANGED <<up, meta, file, log>>
  BY DEF Deactivate, Respond, disk
<1>2. up /\ MatchOK(c)
  BY <1>1, HandlerRuns DEF SafeInv
<1>3. HandlerOK'
  BY <1>1, <1>2, IdleFields DEF HandlerOK, DownIsIdle, Stage, Writing
<1>4. /\ Ending(c) /\ ~Creating(c) /\ ~Relabelling(c) /\ ~Closing(c)
      /\ ~Creating(c)' /\ ~Ending(c)'
  BY <1>1, IdleFields
     DEF Ending, Creating, Relabelling, Closing, Stage, Writing
<1>5. /\ file[c].endedAt # Null /\ meta[c].endedAt # Null /\ c \notin active'
  BY <1>1, <1>2, <1>4 DEF MatchOK, EndingOK
<1>6. MatchOK(c)'
  BY <1>1, <1>2, <1>4, <1>5
     DEF MatchOK, DiskOK, KnownOK, Agree, ActiveOK, CreatingOK, EndingOK, RunningOK,
         Unfinished, Parses
<1>7. ASSUME NEW m \in Match \ {c} PROVE MatchOK(m)'
  BY <1>1, <1>7, IdleFields, OtherMatches DEF Changes
<1> QED
  BY <1>3, <1>6, <1>7 DEF Safe

-----------------------------------------------------------------------------
(* The invariant is one.                                                   *)

LEMMA StutterSafe ==
    ASSUME SafeInv, UNCHANGED vars
    PROVE  Safe'
BY DEF vars, SafeInv, Safe, HandlerOK, DownIsIdle, MatchOK, DiskOK, KnownOK, ActiveOK,
       CreatingOK, EndingOK, RunningOK, Unfinished, Parses, Creating, Ending, Agree,
       Relabelling, Closing, Stage, Writing

LEMMA NextSafe ==
    ASSUME ~TornWrites, SafeInv, [Next]_vars
    PROVE  SafeInv'
<1>1. TypeInv'
  BY NextTypeInv DEF SafeInv, HandlerOK
<1>2. Safe'
  <2>1. CASE Handle
    <3>1. ~OpenMetadata /\ ~FillMetadata
      BY DEF OpenMetadata, FillMetadata, SafeInv, HandlerOK
    <3> QED
      BY <2>1, <3>1, WriteSafe, LoadSafe, DecideSafe, UpgradeSafe, NewSafe,
         CreateSafe, RecordSafe, AcceptSafe, DeactivateSafe DEF Handle
  <2>2. CASE Reaper
    BY <2>2, DecideSafe, ReapSafe DEF Reaper
  <2>3. CASE \E e \in PostedEvent : Deliver(e)
    BY <2>3, DeliverSafe
  <2>4. CASE Crash \/ Restart \/ Tick
    BY <2>4, CrashSafe, RestartSafe, TickSafe
  <2>5. CASE UNCHANGED vars
    BY <2>5, StutterSafe
  <2> QED
    BY <2>1, <2>2, <2>3, <2>4, <2>5 DEF Next
<1> QED
  BY <1>1, <1>2 DEF Safe, SafeInv

LEMMA SafeAlways ==
    ASSUME ~TornWrites
    PROVE  Spec => []SafeInv
<1>1. Init => SafeInv
  BY InitTypeInv, InitSafe DEF SafeInv, Safe
<1>2. SafeInv /\ [Next]_vars => SafeInv'
  BY NextSafe
<1> QED
  BY <1>1, <1>2, PTL DEF Spec

-----------------------------------------------------------------------------
(* What the invariant says.                                                *)

\* A process that dies between the write of metadata.json and the creation of
\* events.jsonl, or at any other point, leaves no log without metadata.
THEOREM NoLogIsStranded ==
    ASSUME ~TornWrites
    PROVE  Spec => []NoStrandedLog
<1>1. SafeInv => NoStrandedLog
  BY DEF SafeInv, MatchOK, DiskOK, NoStrandedLog, Parses
<1> QED
  BY <1>1, SafeAlways, PTL

\* Whatever server sends under a match's id, and whenever: a stored log has
\* the rows of one server, the one metadata.json names.
THEOREM LogsHaveOneOwner ==
    ASSUME ~TornWrites
    PROVE  Spec => []OneOwner
<1>1. SafeInv => OneOwner
  BY DEF SafeInv, MatchOK, DiskOK, OneOwner, Parses
<1> QED
  BY <1>1, SafeAlways, PTL

\* However the process came to be at rest, by handlers, by dying half-way
\* through them or by rehydrating, it has in hand what runs on disk.
THEOREM MemoryFollowsDisk ==
    ASSUME ~TornWrites
    PROVE  Spec => []ActiveIsWhatDiskSays
<1>1. SafeInv => ActiveIsWhatDiskSays
  <2> SUFFICES ASSUME SafeInv, up, call = Idle
               PROVE  active = {m \in Match : Unfinished(m)}
    BY DEF ActiveIsWhatDiskSays, AtRest
  <2>1. ASSUME NEW m \in Match PROVE m \in active <=> Unfinished(m)
    <3>1. ~Creating(m) /\ ~Ending(m)
      BY IdleFields DEF Creating, Ending, Stage, Writing
    <3> QED
      BY <3>1 DEF SafeInv, MatchOK, DiskOK, ActiveOK, RunningOK, Unfinished, Parses
  <2> QED
    BY <2>1 DEF SafeInv, TypeInv, TypeOK
<1> QED
  BY <1>1, SafeAlways, PTL

LEMMA SameIdentity ==
    ASSUME NEW f \in Metadata, NEW g \in Metadata,
           f.map = g.map, f.half = g.half, f.src = g.src, f.endedAt = g.endedAt
    PROVE  Identity(f) = Identity(g)
BY DEF Identity, Counted, Metadata

LEMMA StaysEnded ==
    ASSUME ~TornWrites, SafeInv, [Next]_vars, NEW m \in Match, Ended(m)
    PROVE  /\ Parses(m)' /\ Identity(file[m])' = Identity(file[m])
           /\ Ended(m)'
<1>1. file[m] \in Metadata /\ file[m].endedAt # Null
  BY DEF Ended, Parses, SafeInv, TypeInv, TypeOK
<1>2. CASE file' = file
  BY <1>2 DEF Ended, Parses
<1>3. CASE WriteMetadata
  <2>1. /\ call.at = "write" /\ call.match \in Match /\ meta[call.match] \in Metadata
        /\ file' = [file EXCEPT ![call.match] = meta[call.match]]
    BY <1>3, HandlerMatch DEF WriteMetadata, SafeInv, TypeInv, TypeOK
  <2>2. CASE m = call.match
    <3>1. meta[m] \in Metadata /\ meta[m].src = file[m].src /\ Agree(m)
      BY <1>1, <2>1, <2>2, SentinelAssumption
         DEF SafeInv, MatchOK, KnownOK, Relabelling, Closing
    <3>2. file'[m] = meta[m]
      BY <2>1, <2>2 DEF SafeInv, TypeInv, TypeOK
    <3>3. Identity(file'[m]) = Identity(file[m])
      BY <1>1, <3>1, <3>2, SameIdentity DEF Agree
    <3> QED
      BY <1>1, <3>1, <3>2, <3>3, SentinelAssumption DEF Ended, Parses, Agree
  <2>3. CASE m # call.match
    <3>1. file'[m] = file[m]
      BY <2>1, <2>3 DEF SafeInv, TypeInv, TypeOK
    <3> QED
      BY <3>1 DEF Ended, Parses
  <2> QED
    BY <2>2, <2>3
<1>4. CASE Next /\ ~WriteMetadata
  <2>1. ~OpenMetadata /\ ~FillMetadata
    BY DEF OpenMetadata, FillMetadata, SafeInv, HandlerOK
  <2>2. file' = file
    BY <1>4, <2>1
       DEF Next, Handle, Reaper, Deliver, LoadMetadata, StartRejected, StartUpgrade,
           StartDuplicate, StartNew, CreateLog, RecordAutoStart, RecordRejected,
           RecordLive, RecordLate, Accept, Deactivate, ForwardTransient, Reap,
           ReapDone, Crash, Restart, Tick, disk
  <2> QED
    BY <1>2, <2>2
<1>5. CASE UNCHANGED vars
  BY <1>2, <1>5 DEF vars
<1> QED
  BY <1>3, <1>4, <1>5

\* matchRecorder.ts:133-135: a late start, a stray event, the reaper and a
\* restart all leave the metadata of a completed match as it is.
THEOREM CompletedStaysFinal ==
    ASSUME ~TornWrites
    PROVE  Spec => CompletedIsFinal
<1>1. SafeInv /\ [Next]_vars
        => [\A m \in Match :
              Ended(m) => Parses(m)' /\ Identity(file[m])' = Identity(file[m])]_vars
  BY StaysEnded
<1> QED
  BY <1>1, SafeAlways, PTL DEF Spec, CompletedIsFinal

\* It takes a torn metadata.json for a match that was over to run again.
THEOREM OnlyTornWritesReopen ==
    ASSUME ~TornWrites
    PROVE  Spec => NeverReopened
<1> SUFFICES ASSUME NEW m \in Match
             PROVE  Spec => [](Ended(m) => []~Unfinished(m))
  BY DEF NeverReopened
<1>1. SafeInv /\ Ended(m) /\ [Next]_vars => Ended(m)'
  BY StaysEnded
<1>2. Ended(m) => ~Unfinished(m)
  BY DEF Ended, Unfinished
<1> QED
  BY <1>1, <1>2, SafeAlways, PTL DEF Spec

\* The stateless gate of the socket-only kinds reads memory alone; memory is
\* right about every match it lets through.
THEOREM TransientsGated ==
    ASSUME ~TornWrites
    PROVE  Spec => TransientsAreGated
<1> DEFINE Gate ==
        reply = Null /\ reply' = 200 /\ call.event.kind = Transient
          => LET m == call.match IN
             Parses(m) => Unfinished(m) /\ file[m].src = call.event.src
<1>1. ASSUME SafeInv, [Next]_vars PROVE Gate
  <2> SUFFICES ASSUME reply = Null, reply' = 200, call.event.kind = Transient,
                      Parses(call.match)
               PROVE  Unfinished(call.match) /\ file[call.match].src = call.event.src
    OBVIOUS
  <2>1. Accept \/ Deactivate \/ ForwardTransient
    BY <1>1, ConstantsAssumption
       DEF Next, Handle, Reaper, Deliver, WriteMetadata, OpenMetadata, FillMetadata,
           LoadMetadata, StartRejected, StartUpgrade, StartDuplicate, StartNew,
           CreateLog, RecordAutoStart, RecordRejected, RecordLive, RecordLate, Reap,
           ReapDone, Crash, Restart, Tick, Respond, vars
  <2>2. ~Accept
    BY <1>1 DEF Accept, SafeInv, TypeInv, CallOK, Stage, Writing, RecordedKind
  <2>3. ~Deactivate
    <3>1. SUFFICES ASSUME Deactivate PROVE FALSE
      OBVIOUS
    <3>2. call.event # Null
      BY <3>1, ConstantsAssumption DEF Deactivate
    <3> QED
      BY <1>1, <3>1, <3>2 DEF Deactivate, SafeInv, HandlerOK, Stage, Writing
  <2>4. call.at = "forward" /\ Resolved(call.match) /\ CanForward(call.match, call.event)
    BY <2>1, <2>2, <2>3 DEF ForwardTransient, Respond
  <2>5. PICK c \in Match : c = call.match
    BY <1>1, <2>4, HandlerMatch
  <2>6. MatchOK(c) /\ ~Creating(c) /\ ~Ending(c)
    BY <1>1, <2>4, <2>5 DEF SafeInv, Creating, Ending, Stage, Writing
  <2>7. c \in active
    BY <2>4, <2>5, <2>6
       DEF Resolved, CanForward, Completed, MatchOK, KnownOK
  <2> QED
    BY <2>4, <2>5, <2>6, <2>7
       DEF CanForward, OwnedBy, MatchOK, KnownOK, ActiveOK, Unfinished
<1>2. SafeInv /\ [Next]_vars => [Gate]_vars
  BY <1>1
<1> QED
  BY <1>2, SafeAlways, PTL DEF Spec, TransientsAreGated

-----------------------------------------------------------------------------
(* The log and its count. A log that was never created is empty, so that   *)
(* creating it  where it is missing loses nothing; and the count is the    *)
(* log's length at every step, which is why a restart may recover it by    *)
(* counting.                                                               *)

LogTime == \A m \in Match : mtime[m] = Null => log[m] = <<>>

CountOK(m) ==
    meta[m] # Null =>
        /\ meta[m].count = Len(log[m])
        /\ meta[m].endedAt # Null => file[m] = meta[m] \/ (Writing /\ call.match = m)

CountInv == LogTime /\ \A m \in Match : CountOK(m)

\* What the steps do to the logs.
LEMMA LogSteps ==
    ASSUME TypeInv, LogTime, [Next]_vars
    PROVE  \/ log' = log /\ UNCHANGED mtime
           \/ CreateLog /\ log' = log
           \/ (RecordLive \/ RecordLate) /\ AppendRow(call.match, call.event)
<1>1. CASE CreateLog
  BY <1>1 DEF CreateLog, LogTime, TypeInv, TypeOK, CallOK, Stage, Writing
<1>2. CASE RecordLive \/ RecordLate
  BY <1>2 DEF RecordLive, RecordLate
<1>3. CASE Next /\ ~CreateLog /\ ~RecordLive /\ ~RecordLate
  BY <1>3
     DEF Next, Handle, Reaper, Deliver, WriteMetadata, OpenMetadata, FillMetadata,
         LoadMetadata, StartRejected, StartUpgrade, StartDuplicate, StartNew,
         RecordAutoStart, RecordRejected, Accept, Deactivate, ForwardTransient, Reap,
         ReapDone, Crash, Restart, Tick, disk
<1>4. CASE UNCHANGED vars
  BY <1>4 DEF vars
<1> QED
  BY <1>1, <1>2, <1>3, <1>4

\* The handler of a step that adds a row.
LEMMA RowAdded ==
    ASSUME TypeInv, RecordLive \/ RecordLate
    PROVE  /\ call.match \in Match /\ call.event \in Event
           /\ [kind |-> call.event.kind, src |-> call.event.src] \in Row
           /\ meta[call.match] \in Metadata
<1>1. /\ call.match \in Match /\ call.event \in Event
      /\ call.event.kind \in RecordedKind /\ meta[call.match] # Null
  BY DEF TypeInv, CallOK, Stage, Writing, RecordLive, RecordLate, OwnedBy
<1>2. [kind |-> call.event.kind, src |-> call.event.src] \in Row
  BY <1>1 DEF Row, Event
<1>3. meta[call.match] \in Metadata
  BY <1>1 DEF TypeInv, TypeOK
<1> QED
  BY <1>1, <1>2, <1>3

LEMMA NextLogTime ==
    ASSUME TypeInv, LogTime, [Next]_vars
    PROVE  LogTime'
<1>1. CASE log' = log /\ UNCHANGED mtime
  BY <1>1 DEF LogTime
<1>2. CASE CreateLog /\ log' = log
  <2>1. \A m \in Match : mtime'[m] = Null => mtime[m] = Null
    BY <1>2, ConstantsAssumption DEF CreateLog, TypeInv, TypeOK
  <2> QED
    BY <1>2, <2>1 DEF LogTime
<1>3. CASE (RecordLive \/ RecordLate) /\ AppendRow(call.match, call.event)
  <2>1. /\ mtime' = [mtime EXCEPT ![call.match] = now] /\ now # Null
        /\ mtime \in [Match -> Nat \cup {Null}] /\ log \in [Match -> Seq(Row)]
    BY <1>3, ConstantsAssumption DEF AppendRow, TypeInv, TypeOK
  <2>2. mtime'[call.match] # Null
    BY <1>3, <2>1, RowAdded
  <2>3. \A m \in Match \ {call.match} : mtime'[m] = mtime[m] /\ log'[m] = log[m]
    BY <1>3, <2>1 DEF AppendRow
  <2> QED
    BY <2>2, <2>3 DEF LogTime
<1> QED
  BY <1>1, <1>2, <1>3, LogSteps

LEMMA AppendKeeps ==
    ASSUME NEW S, NEW s \in Seq(S), NEW x \in S
    PROVE  /\ Len(Append(s, x)) = Len(s) + 1
           /\ SubSeq(Append(s, x), 1, Len(s)) = s
<1>1. Len(Append(s, x)) = Len(s) + 1 /\ Append(s, x) \in Seq(S) /\ Len(s) \in Nat
  BY AppendProperties, LenProperties
<1>2. \A i \in 1 .. Len(s) : Append(s, x)[i] = s[i]
  BY AppendProperties
<1>3. SubSeq(Append(s, x), 1, Len(s)) = s
  BY <1>1, <1>2
<1> QED
  BY <1>1, <1>3

\* No restart, late start or torn file makes the recorder begin a log anew or
\* drop a row of it.
THEOREM LogsOnlyGrow == Spec => LogOnlyGrows
<1> DEFINE Grows ==
        \A m \in Match :
          /\ Len(log'[m]) >= Len(log[m])
          /\ SubSeq(log'[m], 1, Len(log[m])) = log[m]
<1>1. Init => TypeInv /\ DownIsIdle /\ LogTime
  BY InitTypeInv DEF Init, DownIsIdle, LogTime
<1>2. TypeInv /\ DownIsIdle /\ LogTime /\ [Next]_vars
        => TypeInv' /\ DownIsIdle' /\ LogTime'
  BY NextTypeInv, NextDownIsIdle, NextLogTime
<1>3. TypeInv /\ LogTime /\ [Next]_vars => [Grows]_vars
  <2> SUFFICES ASSUME TypeInv, LogTime, [Next]_vars PROVE Grows
    OBVIOUS
  <2>1. \A m \in Match : log[m] \in Seq(Row) /\ Len(log[m]) \in Nat
    BY DEF TypeInv, TypeOK
  <2>2. CASE log' = log
    BY <2>1, <2>2, SubSeqFull
  <2>3. CASE (RecordLive \/ RecordLate) /\ AppendRow(call.match, call.event)
    <3> DEFINE row == [kind |-> call.event.kind, src |-> call.event.src]
    <3>1. /\ call.match \in Match /\ row \in Row /\ log \in [Match -> Seq(Row)]
          /\ log' = [log EXCEPT ![call.match] = Append(@, row)]
      BY <2>3, RowAdded DEF AppendRow, TypeInv, TypeOK
    <3> HIDE DEF row
    <3>2. ASSUME NEW m \in Match
          PROVE  log'[m] = log[m] \/ log'[m] = Append(log[m], row)
      BY <3>1
    <3>3. ASSUME NEW m \in Match
          PROVE  /\ Len(log'[m]) >= Len(log[m])
                 /\ SubSeq(log'[m], 1, Len(log[m])) = log[m]
      BY <2>1, <3>1, <3>2, SubSeqFull, AppendKeeps
    <3> QED
      BY <3>3
  <2> QED
    BY <2>2, <2>3, LogSteps
<1> QED
  BY <1>1, <1>2, <1>3, PTL DEF Spec, LogOnlyGrows

LEMMA CountKept ==
    ASSUME NEW m \in Match, CountOK(m),
           meta'[m] = meta[m], file'[m] = file[m], log'[m] = log[m],
           Writing /\ call.match = m => Writing' /\ call'.match = m
    PROVE  CountOK(m)'
BY DEF CountOK

\* A match that gets another metadata in memory: one that runs, or one whose
\* file is written next.
LEMMA CountChanged ==
    ASSUME NEW m \in Match,
           meta'[m] # Null => /\ meta'[m].count = Len(log'[m])
                              /\ \/ meta'[m].endedAt = Null
                                 \/ call'.at = "write" /\ call'.match = m
    PROVE  CountOK(m)'
BY DEF CountOK, Writing

\* The steps that change the metadata in memory of one match.
LEMMA ChangeCount ==
    ASSUME SafeInv, CountInv, NEW c \in Match, call.match = c,
           \/ StartUpgrade \/ StartNew \/ RecordLive \/ RecordLate
           \/ LoadMetadata
    PROVE  /\ \A m \in Match \ {c} : meta'[m] = meta[m] /\ log'[m] = log[m]
           /\ file' = file /\ call.at # "write"
           /\ CountOK(c)'
<1>1. /\ meta \in [Match -> Metadata \cup {Null}] /\ log \in [Match -> Seq(Row)]
      /\ call \in Call /\ call.at \in Step /\ MatchOK(c) /\ CountOK(c)
      /\ {"record", "create", "accepted"} \subseteq Step /\ Len(log[c]) \in Nat
  BY DEF SafeInv, TypeInv, TypeOK, Call, CountInv, Step
<1>2. /\ call.at \in {"start", "record", "forward"} /\ Quiet(c) /\ file' = file
      /\ \A m \in Match \ {c} : meta'[m] = meta[m] /\ log'[m] = log[m]
  BY <1>1 DEF StartUpgrade, StartNew, RecordLive, RecordLate, LoadMetadata, AppendRow,
              Quiet, Changes, disk
<1>3. CASE StartUpgrade
  <2>1. meta[c] \in Metadata /\ meta[c].endedAt = Null
    BY <1>2, <1>3, BeforeChange DEF StartUpgrade, OwnedBy
  <2>2. /\ meta'[c] = Labelled(meta[c], call.event) /\ log'[c] = log[c]
    BY <1>1, <1>3 DEF StartUpgrade, disk
  <2>3. meta'[c].count = Len(log'[c]) /\ meta'[c].endedAt = Null
    BY <1>1, <2>1, <2>2, SentinelAssumption DEF Labelled, Metadata, CountOK
  <2> QED
    BY <1>2, <2>3, CountChanged
<1>4. CASE StartNew
  <2>1. meta[c] = Null
    BY <1>2, <1>4, BeforeChange DEF StartNew, Completed
  <2>2. log[c] = <<>>
    BY <1>1, <1>4, <2>1 DEF StartNew, Resolved, Parses, MatchOK, DiskOK
  <2>3. /\ meta'[c] = New(call.event) /\ log'[c] = log[c]
    BY <1>1, <1>4 DEF StartNew, disk
  <2>4. meta'[c].count = Len(log'[c]) /\ meta'[c].endedAt = Null
    BY <2>2, <2>3 DEF New
  <2> QED
    BY <1>2, <2>4, CountChanged
<1>5. CASE RecordLive \/ RecordLate
  <2> DEFINE row == [kind |-> call.event.kind, src |-> call.event.src]
  <2>1. /\ meta[c] \in Metadata /\ row \in Row
        /\ meta'[c] = Counted(meta[c], meta[c].count + 1)
        /\ log'[c] = Append(log[c], row)
    BY <1>1, <1>5, RowAdded DEF RecordLive, RecordLate, AppendRow, SafeInv
  <2> HIDE DEF row
  <2>2. Len(log'[c]) = meta[c].count + 1
    BY <1>1, <2>1, AppendKeeps, SentinelAssumption DEF CountOK
  <2>3. meta'[c].count = Len(log'[c]) /\ meta'[c].endedAt = meta[c].endedAt
    BY <2>1, <2>2 DEF Counted, Metadata
  <2>4. CASE RecordLive
    <3>1. meta[c].endedAt = Null
      BY <1>2, <2>4, BeforeChange DEF RecordLive, OwnedBy
    <3> QED
      BY <1>2, <2>3, <3>1, CountChanged
  <2>5. CASE RecordLate
    <3>1. call'.at = "write" /\ call'.match = c
      BY <1>1, <2>5, WriteThenFields DEF RecordLate
    <3> QED
      BY <1>2, <2>3, <3>1, CountChanged
  <2> QED
    BY <1>5, <2>4, <2>5
<1>6. CASE LoadMetadata
  <2>1. /\ ~Resolved(c) /\ log'[c] = log[c] /\ file[c] \in Metadata
    BY <1>1, <1>6
       DEF LoadMetadata, disk, Resolved, Parses, SafeInv, TypeInv, TypeOK
  <2>2. CASE file[c].count = Len(log[c])
    <3>1. meta'[c] = file[c]
      BY <1>1, <1>6, <2>2 DEF LoadMetadata
    <3> QED
      BY <1>2, <2>1, <2>2, <3>1 DEF CountOK
  <2>3. CASE file[c].count # Len(log[c])
    <3>1. file[c].endedAt # Null
      <4>1. up /\ ~Creating(c)
        BY <1>2, HandlerRuns DEF Creating, Stage, Writing
      <4> QED
        BY <1>1, <2>1, <4>1 DEF MatchOK, RunningOK, Resolved, Unfinished
    <3>2. meta'[c] = Counted(file[c], Len(log[c])) /\ WriteThen(call.at)
      BY <1>1, <1>6, <2>3, <3>1 DEF LoadMetadata
    <3>3. call'.at = "write" /\ call'.match = c
      BY <1>1, <3>2, WriteThenFields
    <3>4. meta'[c].count = Len(log'[c])
      BY <1>1, <2>1, <3>2 DEF Counted, Metadata
    <3> QED
      BY <1>2, <3>3, <3>4, CountChanged
  <2> QED
    BY <2>2, <2>3
<1> QED
  BY <1>2, <1>3, <1>4, <1>5, <1>6

\* The steps that begin the end of a match.
LEMMA EndCount ==
    ASSUME SafeInv, CountInv, NEW c \in Match, meta[c] # Null,
           call.at # "write", call.at # "fill",
           meta' = [meta EXCEPT ![c] = EndedNow(meta[c])],
           call'.at = "write", call'.match = c, UNCHANGED disk
    PROVE  \A m \in Match : CountOK(m)'
<1>1. /\ meta \in [Match -> Metadata \cup {Null}] /\ meta[c] \in Metadata
      /\ file' = file /\ log' = log /\ CountOK(c)
  BY DEF SafeInv, TypeInv, TypeOK, CountInv, disk
<1>2. meta'[c].count = Len(log'[c])
  BY <1>1 DEF EndedNow, Metadata, CountOK
<1>3. CountOK(c)'
  BY <1>2, CountChanged
<1>4. ASSUME NEW m \in Match \ {c} PROVE CountOK(m)'
  <2>1. meta'[m] = meta[m] /\ CountOK(m) /\ ~Writing
    BY <1>1 DEF CountInv, Writing
  <2> QED
    BY <1>1, <2>1, CountKept
<1> QED
  BY <1>3, <1>4

LEMMA NextCount ==
    ASSUME ~TornWrites, SafeInv, CountInv, [Next]_vars
    PROVE  CountInv'
<1>1. LogTime'
  BY NextLogTime DEF SafeInv, CountInv
<1>2. \A m \in Match : CountOK(m)
  BY DEF CountInv
<1>3. ~OpenMetadata /\ ~FillMetadata
  BY DEF OpenMetadata, FillMetadata, SafeInv, HandlerOK
<1>4. CASE StartUpgrade \/ StartNew \/ RecordLive \/ RecordLate \/ LoadMetadata
  <2>1. PICK c \in Match : call.match = c
    BY <1>4, HandlerMatch DEF StartUpgrade, StartNew, RecordLive, RecordLate, LoadMetadata
  <2>2. /\ \A m \in Match \ {c} : meta'[m] = meta[m] /\ log'[m] = log[m]
        /\ file' = file /\ CountOK(c)'
    BY <1>4, <2>1, ChangeCount
  <2>3. ASSUME NEW m \in Match \ {c} PROVE CountOK(m)'
    BY <1>2, <2>1, <2>2, CountKept
  <2> QED
    BY <1>1, <2>2, <2>3 DEF CountInv
<1>5. CASE Accept /\ call.event.kind = End
  <2>1. PICK c \in Match : call.match = c
    BY <1>5, HandlerMatch DEF Accept
  <2>2. call.at = "accepted" /\ meta[c] # Null /\ call \in Call /\ "deactivate" \in Step
    BY <1>5, <2>1, HandlerMatch DEF Accept, Step
  <2>3. /\ meta' = [meta EXCEPT ![c] = EndedNow(meta[c])] /\ UNCHANGED disk
        /\ call'.at = "write" /\ call'.match = c
    BY <1>5, <2>1, <2>2, WriteThenFields DEF Accept
  <2> QED
    BY <1>1, <2>1, <2>2, <2>3, EndCount DEF CountInv
<1>6. ASSUME NEW c \in Match, Reap(c) PROVE CountInv'
  <2>1. /\ meta[c] # Null /\ call.at \in {"idle", "reap"}
        /\ meta' = [meta EXCEPT ![c] = EndedNow(meta[c])] /\ UNCHANGED disk
        /\ call'.at = "write" /\ call'.match = c
    BY <1>6 DEF Reap, Stale, SafeInv, TypeInv, CallOK
  <2> QED
    BY <1>1, <2>1, EndCount DEF CountInv
<1>7. CASE WriteMetadata
  <2>1. PICK c \in Match : call.match = c
    BY <1>7, HandlerMatch DEF WriteMetadata
  <2>2. /\ file' = [file EXCEPT ![c] = meta[c]] /\ UNCHANGED <<meta, log>>
        /\ file \in [Match -> Metadata \cup {Null, Torn}]
    BY <1>7, <2>1 DEF WriteMetadata, memory, SafeInv, TypeInv, TypeOK
  <2>3. CountOK(c)'
    BY <1>2, <2>2 DEF CountOK
  <2>4. ASSUME NEW m \in Match \ {c} PROVE CountOK(m)'
    BY <1>2, <2>1, <2>2, CountKept
  <2> QED
    BY <1>1, <2>3, <2>4 DEF CountInv
<1>8. CASE Crash \/ Restart
  <2>1. ASSUME NEW m \in Match PROVE CountOK(m)'
    <3>1. CASE meta'[m] = Null
      BY <3>1 DEF CountOK
    <3>2. CASE meta'[m] # Null
      <4>1. Unfinished(m) /\ meta'[m] = Counted(file[m], Len(log[m])) /\ log' = log
        BY <1>8, <3>2 DEF Crash, Restart, disk
      <4>2. file[m] \in Metadata /\ Len(log[m]) \in Nat
        BY <4>1 DEF Unfinished, Parses, SafeInv, TypeInv, TypeOK
      <4>3. meta'[m].count = Len(log'[m]) /\ meta'[m].endedAt = Null
        BY <4>1, <4>2 DEF Counted, Metadata, Unfinished
      <4> QED
        BY <4>3, CountChanged
    <3> QED
      BY <3>1, <3>2
  <2> QED
    BY <1>1, <2>1 DEF CountInv
<1>9. CASE \/ StartRejected \/ StartDuplicate \/ CreateLog \/ RecordAutoStart
           \/ RecordRejected \/ Deactivate \/ ForwardTransient \/ ReapDone \/ Tick
           \/ Accept /\ call.event.kind # End
           \/ \E e \in PostedEvent : Deliver(e)
  <2>1. log' = log
    <3>1. CASE CreateLog
      BY <3>1 DEF CreateLog, SafeInv, CountInv, LogTime, TypeInv, TypeOK, CallOK,
                  Stage, Writing
    <3>2. CASE ~CreateLog
      BY <1>9, <3>2
         DEF StartRejected, StartDuplicate, RecordAutoStart, RecordRejected, Deactivate,
             ForwardTransient, ReapDone, Tick, Accept, Deliver, disk
    <3> QED
      BY <3>1, <3>2
  <2>2. UNCHANGED <<meta, file>> /\ ~Writing
    BY <1>9, IdleFields
       DEF StartRejected, StartDuplicate, CreateLog, RecordAutoStart, RecordRejected,
           Deactivate, ForwardTransient, ReapDone, Tick, Accept, Deliver, memory, disk,
           Writing
  <2>3. ASSUME NEW m \in Match PROVE CountOK(m)'
    BY <1>2, <2>1, <2>2, CountKept
  <2> QED
    BY <1>1, <2>3 DEF CountInv
<1>10. CASE UNCHANGED vars
  BY <1>1, <1>2, <1>10 DEF vars, CountInv, CountOK, Writing
<1> QED
  BY <1>3, <1>4, <1>5, <1>6, <1>7, <1>8, <1>9, <1>10 DEF Next, Handle, Reaper

\* The count is kept in memory, flushed now and then and recovered by
\* counting; between two handlers it is right all the same, and that of a
\* completed match is on disk.
THEOREM CountStaysExact ==
    ASSUME ~TornWrites
    PROVE  Spec => []CountIsExact
<1>1. Init => CountInv
  BY DEF Init, CountInv, LogTime, CountOK
<1>2. SafeInv /\ CountInv /\ [Next]_vars => CountInv'
  BY NextCount
<1>3. CountInv => CountIsExact
  BY IdleFields DEF CountInv, CountOK, CountIsExact, AtRest, Writing
<1> QED
  BY <1>1, <1>2, <1>3, SafeAlways, PTL DEF Spec

-----------------------------------------------------------------------------
(***************************************************************************)
(* MatchRecorder implements MatchLog: what is on disk, read as Book reads  *)
(* it, changes only as MatchLog lets a stored match change. The write of a *)
(* metadata.json is the opening, the labelling or the closing of a match,  *)
(* or a stutter; every other step of a handler but the two that add a row  *)
(* is a stutter, the death of the process and its restart included.        *)
(***************************************************************************)
Entered(f) == [map |-> f.map, half |-> f.half, src |-> f.src, endedAt |-> f.endedAt]

LEMMA BookEntry ==
    ASSUME NEW m \in Match
    PROVE  Book[m] = IF Parses(m) THEN Entered(file[m]) ELSE Null
BY DEF Book, Entered

LEMMA BookEntryAfter ==
    ASSUME NEW m \in Match
    PROVE  Book'[m] = IF Parses(m)' THEN Entered(file'[m]) ELSE Null
BY DEF Book, Entered, Parses

LEMMA EnteredIsEntry ==
    ASSUME NEW f \in Metadata
    PROVE  /\ Entered(f) \in Identified /\ Entered(f) # Null
           /\ Entered(f).map = f.map /\ Entered(f).half = f.half
           /\ Entered(f).src = f.src /\ Entered(f).endedAt = f.endedAt
BY SentinelAssumption DEF Entered, Metadata, Identified

LEMMA EntryLabelled ==
    ASSUME NEW e \in Identified, NEW g \in Identified,
           g.src = e.src, g.endedAt = e.endedAt
    PROVE  [e EXCEPT !.map = g.map, !.half = g.half] = g
BY DEF Identified

LEMMA EntryClosed ==
    ASSUME NEW e \in Identified, NEW g \in Identified,
           g.map = e.map, g.half = e.half, g.src = e.src
    PROVE  [e EXCEPT !.endedAt = g.endedAt] = g
BY DEF Identified

\* MatchLog changes the fields of an entry, metadata.json is written whole.
LEMMA FieldByField ==
    ASSUME NEW S, NEW T, NEW B \in [S -> T], NEW c \in S, NEW x, NEW y
    PROVE  /\ [B EXCEPT ![c].map = x, ![c].half = y]
                 = [B EXCEPT ![c] = [B[c] EXCEPT !.map = x, !.half = y]]
           /\ [B EXCEPT ![c].endedAt = x]
                 = [B EXCEPT ![c] = [B[c] EXCEPT !.endedAt = x]]
<1>1. [B EXCEPT ![c].map = x, ![c].half = y]
        = [B EXCEPT ![c] = [B[c] EXCEPT !.map = x, !.half = y]]
  OBVIOUS
<1>2. [B EXCEPT ![c].endedAt = x] = [B EXCEPT ![c] = [B[c] EXCEPT !.endedAt = x]]
  OBVIOUS
<1> QED
  BY <1>1, <1>2

LEMMA WriteRefines ==
    ASSUME SafeInv, WriteMetadata
    PROVE  [Stored!Next]_(Stored!vars)
<1> SUFFICES ASSUME NEW c \in Match, call.match = c PROVE [Stored!Next]_(Stored!vars)
  BY HandlerMatch DEF WriteMetadata
<1>1. /\ call.at = "write" /\ file' = [file EXCEPT ![c] = meta[c]]
      /\ UNCHANGED <<log, now>>
  BY DEF WriteMetadata
<1>2. /\ file \in [Match -> Metadata \cup {Null, Torn}] /\ meta[c] \in Metadata
      /\ MatchOK(c)
  BY <1>1, HandlerMatch DEF SafeInv, TypeInv, TypeOK
<1>3. /\ Book'[c] = Entered(meta[c])
      /\ \A m \in Match \ {c} : Book'[m] = Book[m]
      /\ Book \in [Match -> {Book[m] : m \in Match}]
      /\ Book' \in [Match -> {Book'[m] : m \in Match}]
  <2>1. file'[c] = meta[c] /\ \A m \in Match \ {c} : file'[m] = file[m]
    BY <1>1, <1>2
  <2>2. Book'[c] = Entered(meta[c])
    BY <1>2, <2>1, BookEntryAfter, SentinelAssumption DEF Parses
  <2>3. \A m \in Match \ {c} : Book'[m] = Book[m]
    BY <2>1, BookEntry, BookEntryAfter DEF Parses
  <2> QED
    BY <2>2, <2>3 DEF Book
<1>4. Book' = [Book EXCEPT ![c] = Entered(meta[c])]
  BY <1>3
<1>5. CASE file[c] = Null
  <2>1. Book[c] = Null /\ meta[c].endedAt = Null
    BY <1>1, <1>2, <1>5, BookEntry, SentinelAssumption
       DEF Parses, MatchOK, KnownOK, CreatingOK
  <2>2. meta[c].map \in Map /\ meta[c].half \in Half /\ meta[c].src \in Server
    BY <1>2 DEF Metadata
  <2>3. Stored!Open(c)
    BY <1>1, <1>4, <2>1, <2>2 DEF Stored!Open, Entered
  <2> QED
    BY <2>3 DEF Stored!Next
<1>6. CASE file[c] # Null
  <2>1. /\ file[c] \in Metadata /\ Book[c] = Entered(file[c])
        /\ meta[c].src = file[c].src
    BY <1>2, <1>6, BookEntry, SentinelAssumption DEF Parses, MatchOK, DiskOK, KnownOK
  <2>2. CASE Agree(c)
    <3>1. Entered(meta[c]) = Book[c]
      BY <2>1, <2>2 DEF Agree, Entered
    <3>2. Book' = Book
      BY <1>3, <1>4, <3>1
    <3> QED
      BY <1>1, <3>2 DEF Stored!vars
  <2>3. CASE Relabelling(c)
    <3>1. /\ meta[c].map \in Map /\ meta[c].half \in Half \ {0}
          /\ Book[c].half = 0 /\ Book[c].map \in {Unknown, meta[c].map}
          /\ Book[c] # Null /\ Book[c].endedAt = Null
      BY <1>2, <2>1, <2>3, EnteredIsEntry DEF Relabelling, Metadata
    <3>2. Book' = [Book EXCEPT ![c].map = meta[c].map, ![c].half = meta[c].half]
      <4> DEFINE e == Book[c]
                 g == Entered(meta[c])
      <4>1. /\ e \in Identified /\ g \in Identified /\ g.src = e.src
            /\ g.endedAt = e.endedAt /\ g.map = meta[c].map /\ g.half = meta[c].half
        BY <1>2, <2>1, <2>3, EnteredIsEntry DEF Relabelling
      <4>2. [e EXCEPT !.map = meta[c].map, !.half = meta[c].half] = g
        <5> HIDE DEF e, g
        <5> QED BY <4>1, EntryLabelled
      <4>3. [Book EXCEPT ![c].map = meta[c].map, ![c].half = meta[c].half]
              = [Book EXCEPT ![c] = [e EXCEPT !.map = meta[c].map, !.half = meta[c].half]]
        BY <1>3, FieldByField
      <4> QED
        BY <1>4, <4>2, <4>3
    <3>3. Stored!Label(c)
      BY <1>1, <3>1, <3>2 DEF Stored!Label, Stored!IsOpen
    <3> QED
      BY <3>3 DEF Stored!Next
  <2>4. CASE Closing(c)
    <3>1. Book[c] # Null /\ Book[c].endedAt = Null
      BY <2>1, <2>4, EnteredIsEntry DEF Closing
    <3>2. Book' = [Book EXCEPT ![c].endedAt = now]
      <4> DEFINE e == Book[c]
                 g == Entered(meta[c])
      <4>1. /\ e \in Identified /\ g \in Identified /\ g.src = e.src
            /\ g.map = e.map /\ g.half = e.half /\ g.endedAt = now
        BY <1>2, <2>1, <2>4, EnteredIsEntry DEF Closing
      <4>2. [e EXCEPT !.endedAt = now] = g
        <5> HIDE DEF e, g
        <5> QED BY <4>1, EntryClosed
      <4>3. [Book EXCEPT ![c].endedAt = now]
              = [Book EXCEPT ![c] = [e EXCEPT !.endedAt = now]]
        BY <1>3, FieldByField
      <4> QED
        BY <1>4, <4>2, <4>3
    <3>3. Stored!Close(c)
      BY <1>1, <3>1, <3>2 DEF Stored!Close, Stored!IsOpen
    <3> QED
      BY <3>3 DEF Stored!Next
  <2> QED
    BY <1>2, <1>6, <2>2, <2>3, <2>4, SentinelAssumption DEF MatchOK, KnownOK
<1> QED
  BY <1>5, <1>6

LEMMA RecordRefines ==
    ASSUME SafeInv, RecordLive \/ RecordLate
    PROVE  Stored!Next
<1> DEFINE row == [kind |-> call.event.kind, src |-> call.event.src]
<1> SUFFICES ASSUME NEW c \in Match, call.match = c PROVE Stored!Next
  BY HandlerMatch DEF RecordLive, RecordLate
<1>1. /\ call.at = "record" /\ meta[c] # Null /\ meta[c].src = call.event.src
      /\ log' = [log EXCEPT ![c] = Append(@, row)]
      /\ UNCHANGED <<file, now>>
  BY DEF RecordLive, RecordLate, OwnedBy, AppendRow
<1>2. Book' = Book
  BY <1>1 DEF Book, Parses
<1>3. /\ file[c] \in Metadata /\ meta[c].src = file[c].src /\ Agree(c)
      /\ c \in active <=> meta[c].endedAt = Null
  BY <1>1, BeforeChange DEF Quiet, Changes
<1>4. Book[c] = Entered(file[c]) /\ Book[c] # Null
      /\ Book[c].src = file[c].src /\ Book[c].endedAt = file[c].endedAt
  BY <1>3, BookEntry, EnteredIsEntry, SentinelAssumption DEF Parses
<1>5. row \in Stored!Row /\ row.src = Book[c].src
  BY <1>1, <1>3, <1>4, RowAdded DEF Row, Stored!Row, SafeInv
<1> HIDE DEF row
<1>6. CASE RecordLive
  <2>1. Book[c].endedAt = Null
    BY <1>3, <1>4, <1>6 DEF RecordLive, Agree
  <2>2. Stored!Add(c, row)
    BY <1>1, <1>2, <1>4, <1>5, <2>1 DEF Stored!Add, Stored!IsOpen
  <2> QED
    BY <1>5, <2>2 DEF Stored!Next
<1>7. CASE RecordLate
  <2>1. /\ Book[c].endedAt # Null /\ now - Book[c].endedAt \in 0 .. SettleWindow
        /\ row.kind \in {Final}
    BY <1>3, <1>4, <1>7 DEF RecordLate, Completed, Admissible, Agree, row
  <2>2. Stored!Settle(c, row)
    BY <1>1, <1>2, <1>4, <1>5, <2>1 DEF Stored!Settle, Stored!Closed
  <2> QED
    BY <1>5, <2>2 DEF Stored!Next
<1> QED
  BY <1>6, <1>7

LEMMA NextRefines ==
    ASSUME ~TornWrites, SafeInv, LogTime, [Next]_vars
    PROVE  [Stored!Next]_(Stored!vars)
<1>1. CASE WriteMetadata
  BY <1>1, WriteRefines
<1>2. CASE RecordLive \/ RecordLate
  BY <1>2, RecordRefines
<1>3. CASE Tick
  <2>1. Book' = Book /\ log' = log /\ now' = now + 1
    BY <1>3 DEF Tick, disk, Book, Parses
  <2> QED
    BY <2>1 DEF Stored!Next, Stored!Tick
<1>4. CASE UNCHANGED <<file, log, now>>
  <2>1. Book' = Book
    BY <1>4 DEF Book, Parses
  <2> QED
    BY <1>4, <2>1 DEF Stored!vars
<1>5. CASE Next /\ ~WriteMetadata /\ ~RecordLive /\ ~RecordLate /\ ~Tick
  <2>1. ~OpenMetadata /\ ~FillMetadata
    BY DEF OpenMetadata, FillMetadata, SafeInv, HandlerOK
  <2>2. log' = log
    BY <1>5, LogSteps DEF SafeInv
  <2>3. UNCHANGED <<file, now>>
    BY <1>5, <2>1
       DEF Next, Handle, Reaper, Deliver, LoadMetadata, StartRejected, StartUpgrade,
           StartDuplicate, StartNew, CreateLog, RecordAutoStart, RecordRejected,
           Accept, Deactivate, ForwardTransient, Reap, ReapDone, Crash, Restart, disk
  <2> QED
    BY <1>4, <2>2, <2>3
<1>6. CASE UNCHANGED vars
  BY <1>4, <1>6 DEF vars
<1> QED
  BY <1>1, <1>2, <1>3, <1>5, <1>6

\* The disk keeps MatchLog's promises to its readers, with any number of
\* matches, of servers that use the same match id, of events in any order and
\* of deaths of the process at any step.
THEOREM RecorderKeepsMatchLog ==
    ASSUME ~TornWrites
    PROVE  Spec => KeepsMatchLog
<1>1. Init => Stored!Init
  BY DEF Init, Stored!Init, Book, Parses
<1>2. Init => SafeInv /\ LogTime
  BY InitTypeInv, InitSafe DEF SafeInv, Safe, Init, LogTime
<1>3. SafeInv /\ LogTime /\ [Next]_vars => SafeInv' /\ LogTime'
  BY NextSafe, NextLogTime DEF SafeInv
<1>4. SafeInv /\ LogTime /\ [Next]_vars => [Stored!Next]_(Stored!vars)
  BY NextRefines
<1> QED
  BY <1>1, <1>2, <1>3, <1>4, PTL DEF Spec, KeepsMatchLog, Stored!Spec
=============================================================================

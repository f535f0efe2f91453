--------------------------- MODULE MatchRecorder ----------------------------
(***************************************************************************)
(* handler/matchRecorder.ts under the ingest route that drives it and the  *)
(* reaper timer: the metadata.json and events.jsonl of each match on disk, *)
(* the maps the process keeps in memory, and what is left of them when the *)
(* process dies at any point and comes back.                               *)
(*                                                                         *)
(* Node runs one handler at a time to its end, so a handler is interleaved *)
(* with nothing but the death of the process. It is cut into the steps     *)
(* between which that death makes a difference: the places where a file    *)
(* has been written and another has not. "call" is the handler in          *)
(* progress. The POSTs themselves arrive in any order: the plugin sends    *)
(* each event in a request of its own and does not wait for the answer.    *)
(***************************************************************************)
EXTENDS Integers, Sequences

CONSTANTS
    Match,          \* match ids
    Server,         \* game servers, as the X-Server-Hostname header names them
    Map,            \* map names, Unknown among them
    Unknown,        \* the label of a match whose map nobody told
    Null,           \* JavaScript's null and undefined
    Torn,           \* a metadata.json that was opened for writing and not filled
    SettleWindow,   \* LATE_EVENT_SETTLEMENT_MS
    StaleAfter,     \* MATCH_STALE_MS
    FlushInterval,  \* METADATA_FLUSH_INTERVAL
    TornWrites,     \* can the process die between truncating a file and filling it?
    MaxRows,        \* bound: rows a match log grows to
    MaxCrashes,     \* bound: times the process dies
    LastPost,       \* bound: no POST after this time
    LastCrash,      \* bound: no crash or downtime after this time
    Horizon         \* bound: the clock stops here

ASSUME ConstantsAssumption ==
    /\ Unknown \in Map
    /\ FlushInterval \in Nat \ {0}
    /\ SettleWindow \in Nat
    /\ StaleAfter \in Nat
    /\ {MaxRows, MaxCrashes, LastPost, LastCrash, Horizon} \subseteq Nat
    /\ TornWrites \in BOOLEAN
    /\ Null \notin Nat

Half == 0 .. 2

\* Events, as far as the recorder tells them apart: the lifecycle events, the
\* two kinds of row it still takes after a match ended, the socket-only
\* kinds, and every other event.
Start == "ktp_match_start"
End == "ktp_match_end"
Final == "official_final_or_match_end_board"
Play == "play"
Transient == "player_state"

RecordedKind == {Start, End, Final, Play}

Event ==
    [kind : RecordedKind \cup {Transient}, match : Match, src : Server,
     map : Map, half : Half]

\* Only a start announces a half; startMatch is called with half 0 otherwise.
PostedEvent == {e \in Event : e.kind = Start <=> e.half # 0}

Row == [kind : RecordedKind, src : Server]

Metadata ==
    [map : Map, half : Half, src : Server, endedAt : Nat \cup {Null}, count : Nat]

\* What identifies a match: its metadata but for the count.
Identified ==
    [map : Map, half : Half, src : Server, endedAt : Nat \cup {Null}]

ASSUME SentinelAssumption ==
    /\ Null \notin Metadata /\ Torn \notin Metadata /\ Null # Torn
    /\ Null \notin Identified

VARIABLES
    up,           \* is the process running?
    active,       \* activeMatches
    meta,         \* metadata: the Map in memory
    lastEventAt,  \* lastEventAt: the Map in memory, 0 where it has no entry
    file,         \* disk: each match's metadata.json
    log,          \* disk: each match's events.jsonl
    mtime,        \* disk: when events.jsonl was last written, Null if missing
    call,         \* the handler in progress
    reply,        \* what the last POST was answered
    now,          \* wall clock
    crashes       \* times the process died

memory == <<active, meta, lastEventAt>>
disk == <<file, log, mtime>>
vars == <<up, active, meta, lastEventAt, file, log, mtime, call, reply, now, crashes>>

\* A handler: the step it is at, the step after the metadata write it is
\* doing, and the event it handles (Null for the reaper, which has a match).
Step == {"idle", "start", "create", "record", "forward", "accepted",
         "write", "fill", "deactivate", "reap"}
Call == [at : Step, then : Step, match : Match \cup {Null}, event : Event \cup {Null}]

Idle == [at |-> "idle", then |-> "idle", match |-> Null, event |-> Null]
Reaping == [Idle EXCEPT !.at = "reap"]

GoTo(step) == call' = [call EXCEPT !.at = step, !.then = "idle"]
WriteThen(step) == call' = [call EXCEPT !.at = "write", !.then = step]
Respond(status) == call' = Idle /\ reply' = status

-----------------------------------------------------------------------------
Parses(m) == file[m] \notin {Null, Torn}

\* Mutant: ownership is not compared.
OwnedBy_Anyone(m, s) == meta[m] # Null

OwnedBy(m, s) == meta[m] # Null /\ meta[m].src = s

\* Mutant: a completed match is looked for in memory only.
Resolved_InMemory(m) == m \in Match

\* getCompletedMetadata has looked on disk, or need not.
Resolved(m) == m \in active \/ meta[m] # Null \/ ~Parses(m)
Completed(m) == meta[m] # Null /\ meta[m].endedAt # Null

\* Mutant: the settlement window never closes.
Admissible_Forever(m, e) == e.kind = Final

Admissible(m, e) ==
    /\ now - meta[m].endedAt \in 0 .. SettleWindow
    /\ e.kind = Final

IsPlaceholder(m) == meta[m].endedAt = Null /\ meta[m].half = 0
MapFits(m, map) == meta[m].map \in {Unknown, map}

\* What the handlers write into a match's metadata.
New(e) ==
    [map |-> e.map, half |-> e.half, src |-> e.src, endedAt |-> Null, count |-> 0]
Labelled(f, e) == [f EXCEPT !.map = e.map, !.half = e.half]
Counted(f, n) == [f EXCEPT !.count = n]
EndedNow(f) == [f EXCEPT !.endedAt = now]

Stale(m) == m \in active /\ now - lastEventAt[m] > StaleAfter

Init ==
    /\ up = TRUE
    /\ active = {}
    /\ meta = [m \in Match |-> Null]
    /\ lastEventAt = [m \in Match |-> 0]
    /\ file = [m \in Match |-> Null]
    /\ log = [m \in Match |-> <<>>]
    /\ mtime = [m \in Match |-> Null]
    /\ call = Idle
    /\ reply = Null
    /\ now = 0
    /\ crashes = 0

-----------------------------------------------------------------------------
(* The ingest route: a POST comes in and is sent where its kind belongs.   *)

Entry(kind) ==
    CASE kind = Start -> "start"
      [] kind = Transient -> "forward"
      [] OTHER -> "record"

Deliver(e) ==
    /\ up /\ call = Idle
    /\ now <= LastPost /\ Len(log[e.match]) < MaxRows
    /\ call' = [at |-> Entry(e.kind), then |-> "idle", match |-> e.match, event |-> e]
    /\ reply' = Null
    /\ UNCHANGED <<up, memory, disk, now, crashes>>

-----------------------------------------------------------------------------
(* writeMetadata: writeFileSync opens the file, which truncates it, and    *)
(* then fills it.                                                          *)

WriteMetadata ==
    /\ call.at = "write" /\ ~TornWrites
    /\ file' = [file EXCEPT ![call.match] = meta[call.match]]
    /\ GoTo(call.then)
    /\ UNCHANGED <<up, memory, log, mtime, reply, now, crashes>>

OpenMetadata ==
    /\ call.at = "write" /\ TornWrites
    /\ file' = [file EXCEPT ![call.match] = Torn]
    /\ call' = [call EXCEPT !.at = "fill"]
    /\ UNCHANGED <<up, memory, log, mtime, reply, now, crashes>>

FillMetadata ==
    /\ call.at = "fill"
    /\ file' = [file EXCEPT ![call.match] = meta[call.match]]
    /\ GoTo(call.then)
    /\ UNCHANGED <<up, memory, log, mtime, reply, now, crashes>>

\* Mutant: the count of a completed match is taken from its file as it is.
LoadMetadata_NoRepair ==
    /\ call.at \in {"start", "record", "forward"}
    /\ ~Resolved(call.match)
    /\ meta' = [meta EXCEPT ![call.match] = file[call.match]]
    /\ UNCHANGED <<up, active, lastEventAt, disk, call, reply, now, crashes>>

\* getCompletedMetadata's way to the disk: the file is loaded, and the count
\* of a completed match is corrected from its log and written back.
LoadMetadata ==
    /\ call.at \in {"start", "record", "forward"}
    /\ LET m == call.match
           repair == file[m].endedAt # Null /\ file[m].count # Len(log[m])
       IN /\ ~Resolved(m)
          /\ meta' = [meta EXCEPT ![m] =
                        IF repair THEN Counted(file[m], Len(log[m]))
                                  ELSE file[m]]
          /\ IF repair THEN WriteThen(call.at) ELSE UNCHANGED call
    /\ UNCHANGED <<up, active, lastEventAt, disk, reply, now, crashes>>

-----------------------------------------------------------------------------
(* startMatch                                                              *)

StartRejected ==
    /\ call.at = "start"
    /\ LET m == call.match  e == call.event IN
          \/ m \in active /\ ~OwnedBy(m, e.src)
          \/ /\ m \in active /\ OwnedBy(m, e.src)
             /\ IsPlaceholder(m) /\ e.half > 0 /\ ~MapFits(m, e.map)
          \/ m \notin active /\ Resolved(m) /\ Completed(m)
    /\ Respond(409)
    /\ UNCHANGED <<up, memory, disk, now, crashes>>

\* The match was opened by one of its events, which overtook its start.
StartUpgrade ==
    /\ call.at = "start"
    /\ LET m == call.match  e == call.event IN
          /\ m \in active /\ OwnedBy(m, e.src)
          /\ IsPlaceholder(m) /\ e.half > 0 /\ MapFits(m, e.map)
          /\ meta' = [meta EXCEPT ![m] = Labelled(meta[m], e)]
    /\ WriteThen("record")
    /\ UNCHANGED <<up, active, lastEventAt, disk, reply, now, crashes>>

StartDuplicate ==
    /\ call.at = "start"
    /\ LET m == call.match  e == call.event IN
          /\ m \in active /\ OwnedBy(m, e.src)
          /\ ~(IsPlaceholder(m) /\ e.half > 0)
    /\ GoTo("record")
    /\ UNCHANGED <<up, memory, disk, reply, now, crashes>>

\* Mutant: the metadata of a new match is left to the first flush.
StartNew_WriteLater ==
    /\ call.at = "start"
    /\ LET m == call.match  e == call.event IN
          /\ m \notin active /\ Resolved(m) /\ ~Completed(m)
          /\ meta' = [meta EXCEPT ![m] = New(e)]
    /\ GoTo("create")
    /\ UNCHANGED <<up, active, lastEventAt, disk, reply, now, crashes>>

StartNew ==
    /\ call.at = "start"
    /\ LET m == call.match  e == call.event IN
          /\ m \notin active /\ Resolved(m) /\ ~Completed(m)
          /\ meta' = [meta EXCEPT ![m] = New(e)]
    /\ WriteThen("create")
    /\ UNCHANGED <<up, active, lastEventAt, disk, reply, now, crashes>>

\* Mutant: events.jsonl is created whether or not there is one.
CreateLog_Always ==
    /\ call.at = "create"
    /\ LET m == call.match IN
          /\ log' = [log EXCEPT ![m] = <<>>]
          /\ mtime' = [mtime EXCEPT ![m] = now]
          /\ active' = active \cup {m}
          /\ lastEventAt' = [lastEventAt EXCEPT ![m] = now]
    /\ GoTo("record")
    /\ UNCHANGED <<up, meta, file, reply, now, crashes>>

\* events.jsonl is created only where there is none.
CreateLog ==
    /\ call.at = "create"
    /\ LET m == call.match IN
          /\ IF mtime[m] = Null
             THEN /\ log' = [log EXCEPT ![m] = <<>>]
                  /\ mtime' = [mtime EXCEPT ![m] = now]
             ELSE UNCHANGED <<log, mtime>>
          /\ active' = active \cup {m}
          /\ lastEventAt' = [lastEventAt EXCEPT ![m] = now]
    /\ GoTo("record")
    /\ UNCHANGED <<up, meta, file, reply, now, crashes>>

-----------------------------------------------------------------------------
(* recordEvent                                                             *)

RecordAutoStart ==
    /\ call.at = "record"
    /\ LET m == call.match IN m \notin active /\ Resolved(m) /\ ~Completed(m)
    /\ GoTo("start")
    /\ UNCHANGED <<up, memory, disk, reply, now, crashes>>

RecordRejected ==
    /\ call.at = "record"
    /\ LET m == call.match  e == call.event IN
          \/ m \in active /\ ~OwnedBy(m, e.src)
          \/ /\ m \notin active /\ Completed(m)
             /\ ~OwnedBy(m, e.src) \/ ~Admissible(m, e)
    /\ Respond(409)
    /\ UNCHANGED <<up, memory, disk, now, crashes>>

AppendRow(m, e) ==
    /\ log' = [log EXCEPT ![m] = Append(@, [kind |-> e.kind, src |-> e.src])]
    /\ mtime' = [mtime EXCEPT ![m] = now]
    /\ meta' = [meta EXCEPT ![m] = Counted(meta[m], meta[m].count + 1)]

RecordLive ==
    /\ call.at = "record"
    /\ LET m == call.match  e == call.event IN
          /\ m \in active /\ OwnedBy(m, e.src)
          /\ AppendRow(m, e)
          /\ lastEventAt' = [lastEventAt EXCEPT ![m] = now]
          /\ IF (meta[m].count + 1) % FlushInterval = 0
             THEN WriteThen("accepted") ELSE GoTo("accepted")
    /\ UNCHANGED <<up, active, file, reply, now, crashes>>

RecordLate ==
    /\ call.at = "record"
    /\ LET m == call.match  e == call.event IN
          /\ m \notin active /\ Completed(m)
          /\ OwnedBy(m, e.src) /\ Admissible(m, e)
          /\ AppendRow(m, e)
    /\ WriteThen("accepted")
    /\ UNCHANGED <<up, active, lastEventAt, file, reply, now, crashes>>

\* Back in the ingest route: a ktp_match_end also ends the match.
Accept ==
    /\ call.at = "accepted"
    /\ IF call.event.kind = End
       THEN /\ meta' = [meta EXCEPT ![call.match] = EndedNow(meta[call.match])]
            /\ WriteThen("deactivate")
            /\ UNCHANGED reply
       ELSE /\ Respond(200)
            /\ UNCHANGED meta
    /\ UNCHANGED <<up, active, lastEventAt, disk, now, crashes>>

\* The rest of endMatch, for the ingest route or for the reaper.
Deactivate ==
    /\ call.at = "deactivate"
    /\ active' = active \ {call.match}
    /\ lastEventAt' = [lastEventAt EXCEPT ![call.match] = 0]
    /\ IF call.event = Null
       THEN call' = Reaping /\ UNCHANGED reply
       ELSE Respond(200)
    /\ UNCHANGED <<up, meta, disk, now, crashes>>

-----------------------------------------------------------------------------
(* canForwardTransientEvent                                                *)

\* Mutant: the owner is checked, the end of the match is not.
CanForward_AfterEnd(m, e) == m \in active => OwnedBy(m, e.src)

CanForward(m, e) == IF m \in active THEN OwnedBy(m, e.src) ELSE ~Completed(m)

ForwardTransient ==
    /\ call.at = "forward"
    /\ Resolved(call.match)
    /\ Respond(IF CanForward(call.match, call.event) THEN 200 ELSE 409)
    /\ UNCHANGED <<up, memory, disk, now, crashes>>

-----------------------------------------------------------------------------
(* reapStaleMatches, on its timer: every stale match is ended before       *)
(* another handler runs.                                                   *)

Reap(m) ==
    /\ up /\ call.at \in {"idle", "reap"}
    /\ Stale(m)
    /\ meta' = [meta EXCEPT ![m] = EndedNow(meta[m])]
    /\ call' = [at |-> "write", then |-> "deactivate", match |-> m, event |-> Null]
    /\ UNCHANGED <<up, active, lastEventAt, disk, reply, now, crashes>>

ReapDone ==
    /\ call.at = "reap"
    /\ \A m \in Match : ~Stale(m)
    /\ call' = Idle
    /\ UNCHANGED <<up, memory, disk, reply, now, crashes>>

-----------------------------------------------------------------------------
(* The process dies, in the middle of a handler or between two, and comes  *)
(* back: rehydrateActiveMatches takes up every match whose metadata parses *)
(* and is not ended.                                                       *)

Crash ==
    /\ up /\ crashes < MaxCrashes /\ now <= LastCrash
    /\ up' = FALSE
    /\ active' = {}
    /\ meta' = [m \in Match |-> Null]
    /\ lastEventAt' = [m \in Match |-> 0]
    /\ call' = Idle
    /\ reply' = Null
    /\ crashes' = crashes + 1
    /\ UNCHANGED <<disk, now>>

Unfinished(m) == Parses(m) /\ file[m].endedAt = Null

\* Mutant: every match with metadata is taken up again.
Restart_Everything ==
    /\ ~up
    /\ up' = TRUE
    /\ active' = {m \in Match : Parses(m)}
    /\ meta' = [m \in Match |-> IF Parses(m)
                                THEN Counted(file[m], Len(log[m])) ELSE Null]
    /\ lastEventAt' = [m \in Match |-> IF mtime[m] = Null THEN 0 ELSE mtime[m]]
    /\ UNCHANGED <<disk, call, reply, now, crashes>>

\* Mutant: no match is taken up again.
Restart_Blank ==
    /\ ~up
    /\ up' = TRUE
    /\ UNCHANGED <<memory, disk, call, reply, now, crashes>>

Restart ==
    /\ ~up
    /\ up' = TRUE
    /\ active' = {m \in Match : Unfinished(m)}
    /\ meta' = [m \in Match |-> IF Unfinished(m)
                                THEN Counted(file[m], Len(log[m])) ELSE Null]
    /\ lastEventAt' = [m \in Match |-> IF ~Unfinished(m) THEN 0
                                       ELSE IF mtime[m] = Null THEN now ELSE mtime[m]]
    /\ UNCHANGED <<disk, call, reply, now, crashes>>

\* A handler takes no time on the scale of the settlement window.
Tick ==
    /\ call = Idle
    /\ now < IF up THEN Horizon ELSE LastCrash
    /\ now' = now + 1
    /\ UNCHANGED <<up, memory, disk, call, reply, crashes>>

-----------------------------------------------------------------------------
Handle ==
    \/ WriteMetadata \/ OpenMetadata \/ FillMetadata \/ LoadMetadata
    \/ StartRejected \/ StartUpgrade \/ StartDuplicate \/ StartNew \/ CreateLog
    \/ RecordAutoStart \/ RecordRejected \/ RecordLive \/ RecordLate
    \/ Accept \/ Deactivate \/ ForwardTransient

Reaper == ReapDone \/ \E m \in Match : Reap(m)

Next ==
    \/ \E e \in PostedEvent : Deliver(e)
    \/ Handle \/ Reaper
    \/ Crash \/ Restart \/ Tick

Spec == Init /\ [][Next]_vars

\* A handler that began runs to its end and the supervisor restarts the process.
\* POSTs keep coming, accepted or not, so the clock and the reaper's timer are
\* enabled only between them: time passes all the same, and the event loop runs
\* a due timer before it takes another request. Nothing obliges the game server
\* to send anything.
FairSpec ==
    /\ Spec
    /\ WF_vars(Handle) /\ WF_vars(Restart)
    /\ SF_vars(Reaper) /\ SF_vars(Tick)

-----------------------------------------------------------------------------
TypeOK ==
    /\ up \in BOOLEAN
    /\ active \subseteq Match
    /\ meta \in [Match -> Metadata \cup {Null}]
    /\ lastEventAt \in [Match -> Nat]
    /\ file \in [Match -> Metadata \cup {Null, Torn}]
    /\ log \in [Match -> Seq(Row)]
    /\ mtime \in [Match -> Nat \cup {Null}]
    /\ call \in Call
    /\ reply \in {Null, 200, 409}
    /\ now \in Nat
    /\ crashes \in Nat

AtRest == up /\ call = Idle

\* Between two handlers the process has in hand exactly the matches the disk
\* says are running, however it got there: started, opened by a stray event,
\* rehydrated after dying half-way through a start, an append or an end.
ActiveIsWhatDiskSays == AtRest => active = {m \in Match : Unfinished(m)}

\* Between two handlers the count of every match the process knows is the
\* number of rows in its log, and a completed match's count is on disk: the
\* count is kept in memory, flushed now and then, and recovered by counting.
CountIsExact ==
    AtRest => \A m \in Match : meta[m] # Null =>
        /\ meta[m].count = Len(log[m])
        /\ meta[m].endedAt # Null => file[m] = meta[m]

\* No match log is ever without metadata that says whose it is: a restart
\* between two writes strands nothing.
NoStrandedLog == \A m \in Match : log[m] # <<>> => Parses(m)

\* Every row of a log came from the server the match is bound to, also when
\* another server sent events under the same match id around a restart.
OneOwner ==
    \A m \in Match : Parses(m) =>
        \A i \in DOMAIN log[m] : log[m][i].src = file[m].src

\* matchRecorder.ts:133-135: the metadata of a completed match never changes
\* again, its count apart: it is not reopened, nor given another owner, map,
\* half or end time, by a late start, a stray event, the reaper or a restart.
Ended(m) == Parses(m) /\ file[m].endedAt # Null
Identity(f) == Counted(f, 0)
CompletedIsFinal ==
    [][\A m \in Match :
          Ended(m) => Parses(m)' /\ Identity(file[m])' = Identity(file[m])]_vars

\* The same, less strictly: once the disk has said that a match is over it
\* never again says that it is running, whatever happens in between.
NeverReopened == \A m \in Match : [](Ended(m) => []~Unfinished(m))

\* Rows are only ever added at the end: no restart, late start or torn
\* metadata makes the recorder begin a log anew.
LogOnlyGrows ==
    [][\A m \in Match :
          /\ Len(log'[m]) >= Len(log[m])
          /\ SubSeq(log'[m], 1, Len(log[m])) = log[m]]_vars

\* A socket-only event is let through for no match that is over on disk and
\* for no running match of another server, though it is decided from memory.
TransientsAreGated ==
    [][reply = Null /\ reply' = 200 /\ call.event.kind = Transient
          => LET m == call.match IN
             Parses(m) => Unfinished(m) /\ file[m].src = call.event.src]_vars

\* A metadata.json that a death cut short and that nobody is filling any more.
LeftTorn(m) == file[m] = Torn /\ ~(call.at = "fill" /\ call.match = m)

\* A match that stops sending is ended on disk in the end, also when the process
\* died while it was starting or ending it, with one exception: a death inside
\* the overwriting of its metadata.json leaves a file that says nothing.
EveryMatchEnds == \A m \in Match : Unfinished(m) ~> Ended(m) \/ LeftTorn(m)

\* The disk keeps MatchLog's promises.
Book == [m \in Match |->
           IF Parses(m)
           THEN [map |-> file[m].map, half |-> file[m].half,
                 src |-> file[m].src, endedAt |-> file[m].endedAt]
           ELSE Null]
Stored == INSTANCE MatchLog WITH
    RowKind <- RecordedKind, SettlingKind <- {Final}, book <- Book, rows <- log
KeepsMatchLog == Stored!Spec
=============================================================================

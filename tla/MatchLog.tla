------------------------------ MODULE MatchLog ------------------------------
(***************************************************************************)
(* What a stored match promises its readers (the replay page, the match    *)
(* picker, the score reconciliation), whatever the recorder goes through   *)
(* to keep it: a match is opened once, for one game server; it gets its    *)
(* map and half at most once after that; rows are only ever added at the   *)
(* end of its log, and only by the server it was opened for; it is closed  *)
(* once and for all; and after the close only a settling row (the official *)
(* final score, a match-end board) is added, within a bounded time.        *)
(* MatchRecorder is shown to implement this on disk.                       *)
(***************************************************************************)
EXTENDS Integers, Sequences

CONSTANTS Match,            \* match ids
          Server,           \* game servers
          Map,              \* map names, Unknown among them
          Unknown,          \* the map name of a match opened without one
          RowKind,          \* kinds of recorded events
          SettlingKind,     \* those allowed in after the close
          Half,             \* half numbers, 0 for a match opened by an event
          SettleWindow,     \* how long after the close they are allowed in
          Null

VARIABLES book,   \* per match: Null, or what it is and whether it is closed
          rows,   \* per match: the stored events, in order
          now     \* wall clock

vars == <<book, rows, now>>

Row == [kind : RowKind, src : Server]

Closed(m) == book[m] # Null /\ book[m].endedAt # Null
IsOpen(m) == book[m] # Null /\ book[m].endedAt = Null

Init ==
    /\ book = [m \in Match |-> Null]
    /\ rows = [m \in Match |-> <<>>]
    /\ now = 0

Open(m) ==
    /\ book[m] = Null
    /\ \E map \in Map, half \in Half, s \in Server :
          book' = [book EXCEPT ![m] =
                      [map |-> map, half |-> half, src |-> s, endedAt |-> Null]]
    /\ UNCHANGED <<rows, now>>

\* A match opened by one of its events, before its start was announced, is
\* told its half (and its map, if it had none) once.
Label(m) ==
    /\ IsOpen(m)
    /\ book[m].half = 0
    /\ \E map \in Map, half \in Half \ {0} :
          /\ book[m].map \in {Unknown, map}
          /\ book' = [book EXCEPT ![m].map = map, ![m].half = half]
    /\ UNCHANGED <<rows, now>>

Add(m, row) ==
    /\ IsOpen(m)
    /\ row.src = book[m].src
    /\ rows' = [rows EXCEPT ![m] = Append(@, row)]
    /\ UNCHANGED <<book, now>>

Settle(m, row) ==
    /\ Closed(m)
    /\ row.src = book[m].src
    /\ row.kind \in SettlingKind
    /\ now - book[m].endedAt \in 0 .. SettleWindow
    /\ rows' = [rows EXCEPT ![m] = Append(@, row)]
    /\ UNCHANGED <<book, now>>

Close(m) ==
    /\ IsOpen(m)
    /\ book' = [book EXCEPT ![m].endedAt = now]
    /\ UNCHANGED <<rows, now>>

Tick ==
    /\ now' = now + 1
    /\ UNCHANGED <<book, rows>>

Next ==
    \/ Tick
    \/ \E m \in Match :
          \/ Open(m)
          \/ Label(m)
          \/ Close(m)
          \/ \E row \in Row : Add(m, row) \/ Settle(m, row)

Spec == Init /\ [][Next]_vars
=============================================================================

------------------------------ MODULE RoomWaits ------------------------------
(***************************************************************************)
(* Waiting in a room for lines and pings (src/src/room-wait-store.ts,      *)
(* src/src/room-wait-hold.ts, POST /api/wait-here of                       *)
(* src/src/room-talk-routes.ts), for one resident whose client may have    *)
(* several waits open.  A wait takes the resident's one lease row, polls   *)
(* the public change log with two cursors, and gives the lease up; others  *)
(* are shown who is listening.                                             *)
(*                                                                         *)
(* A line or ping becomes visible when its transaction commits.  Its       *)
(* change id is drawn under the lock of the one public_change_state row,   *)
(* which the transaction keeps until then (record_public_change).          *)
(***************************************************************************)
EXTENDS Naturals, FiniteSets

CONSTANTS
  Waits,      \* requests to wait, by one resident
  Writers,    \* transactions of others that say a line or send a ping
  Places,
  MaxChange,  \* bound: changes ever made
  MaxMoves,   \* bound: arrivals of the resident
  Seconds,    \* the length of a wait, in ticks
  Linger,     \* WAIT_CUE_LINGER_SECONDS, in ticks
  LinesMax,   \* WAIT_LINES_MAX
  PingsMax,   \* WAIT_PINGS_MAX
  None

Ids == 1 .. MaxChange
Cursors == 0 .. MaxChange
Ticks == 0 .. IF Seconds > Linger THEN Seconds ELSE Linger
Entries == [kind : {"line", "muted"}, place : Places] \cup [kind : {"ping"}, place : {None}]
Reasons == {"none", "moved", "replaced", "change", "closed", "timeout", "failed", "refused"}

VARIABLES
  presence,  \* resident_presence: place and arrival
  change,    \* public_change_state.current_change_id, as committed
  log,       \* public_change_log with its events, as committed
  writing,   \* the entry and change id of each open transaction
  lease,     \* the resident's row of wait_leases
  nextLease, \* lease ids are numbered in the order they are taken
  wait,      \* the requests
  client     \* the cursors the client was last given

vars == <<presence, change, log, writing, lease, nextLease, wait, client>>

NoEntry == [kind |-> "none", place |-> None]
NoWrite == [id |-> 0, entry |-> NoEntry]
NoLease == [id |-> 0, place |-> None, arrived |-> 0, left |-> 0]
NoWait == [pc |-> "idle", lease |-> 0, place |-> None, left |-> 0, start |-> [line |-> 0, ping |-> 0],
           line |-> 0, ping |-> 0, nextLine |-> 0, nextPing |-> 0, todo |-> {},
           lines |-> {}, pings |-> {}, still |-> "here", shut |-> FALSE, stayed |-> TRUE,
           reason |-> "none"]
Cuts == [line : Cursors, ping : Cursors]

TypeOK ==
  /\ presence \in [place : Places, arrived : 1 .. MaxMoves + 1]
  /\ change \in Cursors
  /\ log \in [Ids -> Entries \cup {NoEntry}]
  /\ writing \in [Writers -> [id : Cursors, entry : Entries \cup {NoEntry}]]
  /\ lease \in [id : 0 .. Cardinality(Waits), place : Places \cup {None},
                arrived : 0 .. MaxMoves + 1, left : Ticks]
  /\ nextLease \in 1 .. Cardinality(Waits) + 1
  /\ wait \in [Waits -> [pc : {"idle", "open", "read", "release", "answer", "done", "dead"},
                         lease : 0 .. Cardinality(Waits), place : Places \cup {None},
                         left : Ticks, start : Cuts, line : Cursors, ping : Cursors,
                         nextLine : Cursors, nextPing : Cursors,
                         todo : SUBSET {"lines", "pings", "lease"}, lines : SUBSET Ids,
                         pings : SUBSET Ids, still : {"here", "moved", "replaced"},
                         shut : BOOLEAN, stayed : BOOLEAN, reason : Reasons]]
  /\ client \in Cuts

Init ==
  /\ \E p \in Places : presence = [place |-> p, arrived |-> 1]
  /\ change = 0 /\ log = [i \in Ids |-> NoEntry]
  /\ writing = [w \in Writers |-> NoWrite]
  /\ lease = NoLease /\ nextLease = 1
  /\ wait = [c \in Waits |-> NoWait]
  /\ client = [line |-> 0, ping |-> 0]

-----------------------------------------------------------------------------
(* Others                                                                  *)

Max2(S) == CHOOSE i \in S : \A j \in S : i >= j

Drawn == {writing[w].id : w \in Writers}

\* A sequence would hand out ids without waiting for the commit.
MutantNextChange(w) == IF Drawn = {0} THEN change + 1 ELSE Max2(Drawn \cup {change}) + 1

\* The row lock: the next writer waits for the commit.  0 is no id.
NextChange(w) == IF Drawn = {0} THEN change + 1 ELSE 0

record_public_change(w, e) ==
  /\ writing[w] = NoWrite /\ NextChange(w) \in Ids
  /\ writing' = [writing EXCEPT ![w] = [id |-> NextChange(w), entry |-> e]]
  /\ UNCHANGED <<presence, change, log, lease, nextLease, wait, client>>

WriterCommits(w) ==
  /\ writing[w] # NoWrite
  /\ log' = [log EXCEPT ![writing[w].id] = writing[w].entry]
  /\ change' = Max2({change, writing[w].id})
  /\ writing' = [writing EXCEPT ![w] = NoWrite]
  /\ UNCHANGED <<presence, lease, nextLease, wait, client>>

WriterAborts(w) ==
  /\ writing[w] # NoWrite
  /\ writing' = [writing EXCEPT ![w] = NoWrite]
  /\ UNCHANGED <<presence, change, log, lease, nextLease, wait, client>>

\* The resident walks to another place, by a request of its own.
Move(p) ==
  /\ p # presence.place /\ presence.arrived <= MaxMoves
  /\ presence' = [place |-> p, arrived |-> presence.arrived + 1]
  /\ wait' = [c \in Waits |-> IF wait[c].lease # 0 THEN [wait[c] EXCEPT !.stayed = FALSE]
                              ELSE wait[c]]
  /\ UNCHANGED <<change, log, writing, lease, nextLease, client>>

-----------------------------------------------------------------------------
(* POST /api/wait-here                                                     *)

\* loadPublicChangeCheckpoint; a cursor that is not given starts there.
WaitHere(c) ==
  /\ wait[c].pc = "idle"
  /\ \E from \in {[line |-> change, ping |-> change], client} :
       wait' = [wait EXCEPT ![c].pc = "open", ![c].start = from,
                            ![c].line = from.line, ![c].ping = from.ping]
  /\ UNCHANGED <<presence, change, log, writing, lease, nextLease, client>>

\* Presence is locked, the room is asked for, the one row is written; the
\* room may be retired.
openWait(c) ==
  /\ wait[c].pc = "open"
  /\ \/ /\ wait' = [wait EXCEPT ![c].pc = "done", ![c].reason = "refused"]
        /\ UNCHANGED <<lease, nextLease>>
     \/ /\ lease' = [id |-> nextLease, place |-> presence.place,
                     arrived |-> presence.arrived, left |-> Seconds]
        /\ nextLease' = nextLease + 1
        /\ wait' = [wait EXCEPT ![c].pc = "read", ![c].lease = nextLease,
                      ![c].place = presence.place, ![c].left = Seconds,
                      ![c].todo = {"lines", "pings", "lease"}]
  /\ UNCHANGED <<presence, change, log, writing, client>>

\* One page after a cursor: the changes found, cut at max, and the next cursor.
After(cursor, S) == {i \in S : i > cursor /\ i <= change}
Page(cursor, S, max) ==
  {i \in After(cursor, S) : Cardinality({j \in After(cursor, S) : j < i}) < max}

MutantNext(cursor, S, max) == change

\* The checkpoint, or the last change of a page with more behind it.
NextCursor(cursor, S, max) ==
  IF Cardinality(After(cursor, S)) > max THEN Max2(Page(cursor, S, max)) ELSE change

LinesAt(p) == {i \in Ids : log[i].kind \in {"line", "muted"} /\ log[i].place = p}
PingsToMe == {i \in Ids : log[i].kind = "ping"}
Muted(S) == {i \in S : log[i].kind = "muted"}

\* private:wait_lines, and what the mutes leave of it.
ReadLines(c) ==
  /\ wait[c].pc = "read" /\ "lines" \in wait[c].todo
  /\ LET S == LinesAt(wait[c].place) IN
     wait' = [wait EXCEPT ![c].todo = @ \ {"lines"},
       ![c].lines = Page(wait[c].line, S, LinesMax) \ Muted(S),
       ![c].nextLine = NextCursor(wait[c].line, S, LinesMax)]
  /\ UNCHANGED <<presence, change, log, writing, lease, nextLease, client>>

\* private:wait_pings
ReadPings(c) ==
  /\ wait[c].pc = "read" /\ "pings" \in wait[c].todo
  /\ wait' = [wait EXCEPT ![c].todo = @ \ {"pings"},
       ![c].pings = Page(wait[c].ping, PingsToMe, PingsMax),
       ![c].nextPing = NextCursor(wait[c].ping, PingsToMe, PingsMax)]
  /\ UNCHANGED <<presence, change, log, writing, lease, nextLease, client>>

\* private:wait_lease_state
Still(c) ==
  IF presence.place # wait[c].place THEN "moved"
  ELSE IF lease.id # wait[c].lease THEN "replaced"
  ELSE IF lease.arrived = presence.arrived THEN "here" ELSE "moved"

ReadLease(c) ==
  /\ wait[c].pc = "read" /\ "lease" \in wait[c].todo
  /\ wait' = [wait EXCEPT ![c].todo = @ \ {"lease"}, ![c].still = Still(c)]
  /\ UNCHANGED <<presence, change, log, writing, lease, nextLease, client>>

\* Which way a turn of holdWait ends; the loop goes on at "none".
Reason(c) ==
  IF wait[c].still # "here" THEN wait[c].still
  ELSE IF wait[c].lines # {} \/ wait[c].pings # {} THEN "change"
  ELSE IF wait[c].shut THEN "closed"
  ELSE IF wait[c].left = 0 THEN "timeout" ELSE "none"

holdWait(c) ==
  /\ wait[c].pc = "read" /\ wait[c].todo = {}
  /\ wait' = [wait EXCEPT ![c] =
       IF Reason(c) = "none"
       THEN [@ EXCEPT !.line = wait[c].nextLine, !.ping = wait[c].nextPing,
                      !.nextLine = 0, !.nextPing = 0, !.todo = {"lines", "pings", "lease"}]
       ELSE [@ EXCEPT !.pc = "release", !.reason = Reason(c)]]
  /\ UNCHANGED <<presence, change, log, writing, lease, nextLease, client>>

\* Decision 148
Lingers(c) == wait[c].reason \in {"change", "timeout"}

MutantOwnsLease(c) == lease.id # 0

OwnsLease(c) == lease.id = wait[c].lease

\* A request that is over is forgotten, but for its lease and its reason.
Ended(c, pc) == [NoWait EXCEPT !.pc = pc, !.lease = wait[c].lease,
                               !.stayed = wait[c].stayed, !.reason = wait[c].reason]

\* A release that fails is logged, and the answer is sent all the same.
releaseWait(c) ==
  /\ wait[c].pc = "release"
  /\ lease' = IF ~OwnsLease(c) THEN lease
              ELSE IF Lingers(c) THEN [lease EXCEPT !.left = Linger] ELSE NoLease
  /\ wait' = [wait EXCEPT ![c] = IF wait[c].reason = "failed" THEN Ended(c, "done")
                                 ELSE [@ EXCEPT !.pc = "answer"]]
  /\ UNCHANGED <<presence, change, log, writing, nextLease, client>>

\* The answer arrives, or is lost or comes to a closed connection.
Answer(c) ==
  /\ wait[c].pc = "answer"
  /\ client' \in {client} \cup (IF wait[c].shut THEN {}
                                ELSE {[line |-> wait[c].nextLine, ping |-> wait[c].nextPing]})
  /\ wait' = [wait EXCEPT ![c] = Ended(c, "done")]
  /\ UNCHANGED <<presence, change, log, writing, lease, nextLease>>

\* Who talk-now shows to be listening.
MutantListening(l) == l.place = presence.place /\ l.left > 0

readListening(l) ==
  l.place = presence.place /\ l.arrived = presence.arrived /\ l.left > 0

-----------------------------------------------------------------------------
(* Faults and time                                                         *)

\* A read fails: the lease is released without lingering.
ReadFails(c) ==
  /\ wait[c].pc = "read"
  /\ wait' = [wait EXCEPT ![c].pc = "release", ![c].reason = "failed"]
  /\ UNCHANGED <<presence, change, log, writing, lease, nextLease, client>>

\* The close of the connection ends the sleep; the next turn sees it.
ConnectionCloses(c) ==
  /\ wait[c].pc \in {"read", "release", "answer"} /\ ~wait[c].shut
  /\ wait' = [wait EXCEPT ![c].shut = TRUE]
  /\ UNCHANGED <<presence, change, log, writing, lease, nextLease, client>>

\* The invocation dies, or only its release is lost.
Dies(c) ==
  /\ wait[c].pc \in {"open", "read", "release", "answer"}
  /\ wait' = [wait EXCEPT ![c] = Ended(c, "dead")]
  /\ UNCHANGED <<presence, change, log, writing, lease, nextLease, client>>

Less(n) == IF n = 0 THEN 0 ELSE n - 1

Tick ==
  /\ lease.left > 0 \/ \E c \in Waits : wait[c].left > 0
  /\ lease' = [lease EXCEPT !.left = Less(@)]
  /\ wait' = [c \in Waits |-> [wait[c] EXCEPT !.left = Less(@)]]
  /\ UNCHANGED <<presence, change, log, writing, nextLease, client>>

Step(c) ==
  \/ openWait(c) \/ ReadLines(c) \/ ReadPings(c) \/ ReadLease(c)
  \/ holdWait(c) \/ releaseWait(c) \/ Answer(c)

Next ==
  \/ \E w \in Writers : WriterCommits(w) \/ WriterAborts(w)
  \/ \E w \in Writers, e \in Entries : record_public_change(w, e)
  \/ \E p \in Places : Move(p)
  \/ \E c \in Waits : WaitHere(c) \/ Step(c) \/ ReadFails(c) \/ ConnectionCloses(c) \/ Dies(c)
  \/ Tick

Spec == Init /\ [][Next]_vars

-----------------------------------------------------------------------------
(* Properties                                                              *)

OwnerOf(l) == CHOOSE c \in Waits : wait[c].lease = l.id

\* Between the cursors a wait was started with and the ones it answers, nothing
\* is missing: it gives every line of its room that is not muted and every ping
\* to its resident, although three statements read at three moments, pages are
\* cut, earlier turns moved the cursors and writers commit in any order.
AnswerComplete ==
  \A c \in Waits : wait[c].pc \in {"release", "answer"} /\ wait[c].reason # "failed" =>
    /\ wait[c].lines = {i \in LinesAt(wait[c].place) \ Muted(Ids) :
                          i > wait[c].start.line /\ i <= wait[c].nextLine}
    /\ wait[c].pings = {i \in PingsToMe : i > wait[c].start.ping /\ i <= wait[c].nextPing}

\* The newest wait keeps the row while it is held: no older wait of the same
\* resident ends or extends it when it returns, fails or is late (decision 127).
\* So "replaced" is said only when a newer wait was opened, and "moved" only to
\* a resident who left.
NewestKeepsLease ==
  \A c \in Waits :
    /\ wait[c].lease = nextLease - 1 /\ wait[c].pc \in {"read", "release"}
         => lease.id = wait[c].lease
    /\ wait[c].reason = "moved" => ~wait[c].stayed
    /\ wait[c].reason = "replaced" => wait[c].lease < nextLease - 1

\* Who is shown as listening has not left the room since that wait began, and
\* the wait is held, or ended with an arrival or at its end, or died: one that
\* saw a move, a close or a failure leaves no cue once it released.
CueIsTrue ==
  readListening(lease) =>
    LET c == OwnerOf(lease) IN
    /\ wait[c].stayed
    /\ wait[c].pc \in {"answer", "done"} => wait[c].reason \in {"change", "timeout"}
=============================================================================

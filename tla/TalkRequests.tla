----------------------------- MODULE TalkRequests -----------------------------
(***************************************************************************)
(* The requests by which one resident speaks, pings, answers and dismisses *)
(* (src/src/room-line-store.ts, src/src/room-ping-store.ts).  Each carries *)
(* an id of the resident's choosing, kept with the line it said or with    *)
(* the outcome of the ping operation, so that a request whose answer was   *)
(* lost can be sent again.  An advisory lock per resident makes each one   *)
(* step.  The rules by which a ping is admitted are in PingRules; here     *)
(* they refuse or not.                                                     *)
(***************************************************************************)
EXTENDS Integers, Sequences, FiniteSets

CONSTANTS
  Ids,          \* request ids
  Bodies,       \* what may be said
  MaxLines,     \* bound: lines ever said
  MaxTime,      \* bound: ticks
  Minute,       \* ticks of a UTC minute
  Day,          \* ticks of a UTC day
  PerMinute,    \* LINES_PER_UTC_MINUTE
  PerDay,       \* the city's lines in a UTC day
  HoldPerDay,   \* the lines a founder hold leaves
  None

VARIABLES
  now,      \* clock_timestamp()
  held,     \* resident_holds: a hold is active
  lines,    \* room_lines of the resident, oldest first
  used,     \* line_quota and line_minute_quota: row of the latest day and minute
  op,       \* ping_operations, by request id
  ping,     \* the ping the resident may answer
  receipt,  \* its row of ping_receipts
  told      \* the answers given to each id, refusals that are not kept apart

vars == <<now, held, lines, used, op, ping, receipt, told>>

Operations == {<<"invite">>, <<"answer", "yes">>, <<"answer", "no">>, <<"dismiss">>}
Refusals == {"held", "refused", "not_found", "ended", "still_open"}
Outcomes == Refusals \cup {"sent", "answered", "dismissed"}

\* Types; a receipt is of a ping that was sent.
TypeOK ==
  /\ now \in 0 .. MaxTime /\ held \in BOOLEAN
  /\ Len(lines) <= MaxLines
  /\ \A i \in DOMAIN lines : lines[i].id \in Ids /\ lines[i].body \in Bodies
  /\ \A id \in Ids : op[id] # None => op[id].request \in Operations /\ op[id].outcome \in Outcomes
  /\ ping \in {None, "offered", "expired", "yes", "no"}
  /\ receipt \in {None, "pending", "seen", "dismissed"}
  /\ ping = None <=> receipt = None

Init ==
  /\ now = 0 /\ held = FALSE /\ lines = <<>>
  /\ used = [day |-> 0, inDay |-> 0, minute |-> 0, inMinute |-> 0]
  /\ op = [id \in Ids |-> None]
  /\ ping = None /\ receipt = None
  /\ told = [id \in Ids |-> {}]

-----------------------------------------------------------------------------

Told(id, request, outcome) ==
  told' = [told EXCEPT ![id] = @ \cup {<<request, outcome>>}]

LineOf(id) == {i \in DOMAIN lines : lines[i].id = id}

\* dailyLimit: the lower of the city's limit and an active hold's.
DayLimit == IF held THEN HoldPerDay ELSE PerDay

\* allowanceAt: rows of another day or minute count for nothing.
UsedDay == IF used.day = now \div Day THEN used.inDay ELSE 0
UsedMinute == IF used.minute = now \div Minute THEN used.inMinute ELSE 0

Allowed == UsedDay < DayLimit /\ UsedMinute < PerMinute

\* The request did its work before: told again, if it is the same request.
ReplayLine(id, body) ==
  /\ LineOf(id) # {}
  /\ IF \E i \in LineOf(id) : lines[i].body = body
     THEN Told(id, <<"line", body>>, "said") ELSE UNCHANGED told
  /\ UNCHANGED <<now, held, lines, used, op, ping, receipt>>

\* here: the resident is in the place named, which is not retired.  A refusal
\* of a line is not kept: the id may be used again.
sayLine(id, body, here) ==
  /\ LineOf(id) = {}
  /\ IF op[id] = None /\ here /\ Allowed
     THEN /\ Len(lines) < MaxLines
          /\ used' = [day |-> now \div Day, inDay |-> UsedDay + 1,
                      minute |-> now \div Minute, inMinute |-> UsedMinute + 1]
          /\ lines' = Append(lines, [id |-> id, body |-> body, at |-> now, held |-> held])
          /\ Told(id, <<"line", body>>, "said")
     ELSE UNCHANGED <<lines, used, told>>
  /\ UNCHANGED <<now, held, op, ping, receipt>>

\* priorOutcome: whether the id was used before, in either table.
MutantUsedBefore(id) == op[id] # None

UsedBefore(id) == op[id] # None \/ LineOf(id) # {}

\* ... and then the same request is told the stored outcome, another one a reuse.
ReplayOperation(id, request) ==
  /\ UsedBefore(id)
  /\ IF LineOf(id) = {} /\ op[id].request = request
     THEN Told(id, request, op[id].outcome) ELSE UNCHANGED told
  /\ UNCHANGED <<now, held, lines, used, op, ping, receipt>>

\* recordOutcome: every outcome is kept, the refusals too.
recordOutcome(id, request, outcome) ==
  /\ op' = [op EXCEPT ![id] = [request |-> request, outcome |-> outcome]]
  /\ Told(id, request, outcome)

\* invitePing: what a hold stops, and what PingRules admits or not.
invitePing(id) ==
  /\ ~UsedBefore(id)
  /\ \E outcome \in {"held", "sent", "refused"} :
       held = (outcome = "held") /\ recordOutcome(id, <<"invite">>, outcome)
  /\ UNCHANGED <<now, held, lines, used, ping, receipt>>

answerPing(id, a) ==
  /\ ~UsedBefore(id)
  /\ \/ ping = "offered" /\ recordOutcome(id, <<"answer", a>>, "answered") /\ ping' = a
     \/ /\ ping # "offered" /\ UNCHANGED ping
        /\ recordOutcome(id, <<"answer", a>>, IF ping = None THEN "not_found" ELSE "ended")
  /\ UNCHANGED <<now, held, lines, used, receipt>>

dismissPing(id) ==
  /\ ~UsedBefore(id)
  /\ recordOutcome(id, <<"dismiss">>, IF ping = None THEN "not_found"
                                      ELSE IF ping = "offered" THEN "still_open" ELSE "dismissed")
  /\ receipt' = IF ping \in {None, "offered"} THEN receipt ELSE "dismissed"
  /\ UNCHANGED <<now, held, lines, used, ping>>

\* A completed me marks the receipts it showed, those still pending.
markReceiptsSeen ==
  /\ receipt = "pending" /\ receipt' = "seen"
  /\ UNCHANGED <<now, held, lines, used, op, ping, told>>

-----------------------------------------------------------------------------
(* The world around the resident: another's ping, its end, a founder hold, *)
(* the clock.                                                              *)

PingArrives ==
  /\ ping = None /\ ping' = "offered" /\ receipt' = "pending"
  /\ UNCHANGED <<now, held, lines, used, op, told>>

PingExpires ==
  /\ ping = "offered" /\ ping' = "expired"
  /\ UNCHANGED <<now, held, lines, used, op, receipt, told>>

Hold ==
  /\ held' = ~held
  /\ UNCHANGED <<now, lines, used, op, ping, receipt, told>>

Tick ==
  /\ now < MaxTime /\ now' = now + 1
  /\ UNCHANGED <<held, lines, used, op, ping, receipt, told>>

Next ==
  \/ \E id \in Ids, body \in Bodies : ReplayLine(id, body) \/ \E here \in BOOLEAN : sayLine(id, body, here)
  \/ \E id \in Ids, request \in Operations : ReplayOperation(id, request)
  \/ \E id \in Ids : invitePing(id) \/ dismissPing(id)
  \/ \E id \in Ids, a \in {"yes", "no"} : answerPing(id, a)
  \/ markReceiptsSeen
  \/ PingArrives \/ PingExpires \/ Hold \/ Tick

Spec == Init /\ [][Next]_vars

-----------------------------------------------------------------------------
(* Properties                                                              *)

\* An id does at most one thing, and once it has, whoever sends it again,
\* however late and whatever was refused under it before, is told that outcome
\* or that the id was used: never a second line or a second outcome.
RequestOnce ==
  \A id \in Ids :
    /\ Cardinality(LineOf(id)) + (IF op[id] = None THEN 0 ELSE 1) <= 1
    /\ \A t \in told[id] :
         IF LineOf(id) # {} THEN t \in {<<<<"line", lines[i].body>>, "said">> : i \in LineOf(id)}
         ELSE op[id] = [request |-> t[1], outcome |-> t[2]]

InDay(d) == {i \in DOMAIN lines : lines[i].at \div Day = d}
InMinute(m) == {i \in DOMAIN lines : lines[i].at \div Minute = m}

\* The lines said agree with the allowance over any UTC day and minute, although
\* only one row of each is kept: never more than the city's, never one under a
\* hold beyond what the hold leaves, and the rows count what was said.
QuotaExact ==
  /\ \A i \in DOMAIN lines :
       /\ Cardinality(InMinute(lines[i].at \div Minute)) <= PerMinute
       /\ Cardinality({j \in InDay(lines[i].at \div Day) : j <= i}) <=
            (IF lines[i].held THEN HoldPerDay ELSE PerDay)
  /\ UsedDay = Cardinality(InDay(now \div Day))
  /\ UsedMinute = Cardinality(InMinute(now \div Minute))
=============================================================================

------------------------------ MODULE PingRules ------------------------------
(***************************************************************************)
(* When one resident may ping another (src/src/room-ping-rules.ts,         *)
(* src/src/room-ping-store.ts, src/src/room-receipt-store.ts), for a pair. *)
(* An invitation holds the presence rows of both and samples the clock     *)
(* under them, an answer holds the ping too, so each is one step.  What a  *)
(* repeated request is told is in TalkRequests; here a refusal changes     *)
(* nothing.  "yes" stands for in_a_moment too, which no rule tells apart.  *)
(* The waiting times are CONSTANTS, in ticks.                              *)
(***************************************************************************)
EXTENDS Integers, Sequences, FiniteSets

CONSTANTS
  Residents,    \* the pair
  Places,
  Closable,     \* places that may be retired
  MaxPings,     \* bound: pings ever sent
  MaxMoves,     \* bound: arrivals of a resident
  MaxTime,      \* bound: ticks
  Offer,        \* PING_OFFER_MINUTES
  AfterAnswer,  \* PING_AFTER_ANSWER_MINUTES
  AfterMiss,    \* PING_AFTER_MISS_MINUTES
  AfterNo,      \* PING_AFTER_NO_HOURS
  Misses,       \* PING_MISSES_PER_UTC_DAY
  Day           \* a UTC day

VARIABLES
  now,       \* clock_timestamp()
  presence,  \* resident_presence
  closed,    \* places.retired_at
  ping       \* pings, with their answers

vars == <<now, presence, closed, ping>>

Other(r) == CHOOSE s \in Residents : s # r
Min2(a, b) == IF a < b THEN a ELSE b

\* Types; the counts of db/schema.sql: a ping is answered in time.
TypeOK ==
  /\ now \in 0 .. MaxTime /\ closed \subseteq Closable
  /\ presence \in [Residents -> [place : Places, arrived : 1 .. MaxMoves + 1]]
  /\ Len(ping) <= MaxPings
  /\ \A i \in DOMAIN ping :
       /\ ping[i].answer \in {"none", "yes", "no"}
       /\ ping[i].answer # "none" => ping[i].answered - ping[i].sent \in 0 .. Offer - 1

Init ==
  /\ now = 0 /\ closed = {} /\ ping = <<>>
  /\ \E p \in Places : presence = [r \in Residents |-> [place |-> p, arrived |-> 1]]

-----------------------------------------------------------------------------

\* Both are where they were when it was sent, and have not left since.
stillTogether(p) ==
  \A r \in Residents : presence[r] = [place |-> p.place, arrived |-> p.arrived[r]]

MutantStatus(p) ==
  IF p.answer # "none" THEN "answered"
  ELSE IF now >= p.sent + Offer THEN "expired" ELSE "offered"

MutantLateStatus(p) ==
  IF p.answer # "none" THEN "answered"
  ELSE IF ~stillTogether(p) \/ now > p.sent + Offer THEN "expired" ELSE "offered"

pingStatus(p) ==
  IF p.answer # "none" THEN "answered"
  ELSE IF ~stillTogether(p) \/ now >= p.sent + Offer THEN "expired" ELSE "offered"

DayOf(t) == t \div Day
DayStart(t) == DayOf(t) * Day

MutantHistoryStart(t) == Min2(DayStart(t), t - AfterNo)

pairHistoryStart(t) == Min2(DayStart(t), t - AfterNo - Offer)

\* The pair's pings the query returns.
History == {i \in DOMAIN ping : ping[i].sent >= pairHistoryStart(now)}

SaidNo(last, hist) ==
  /\ last # 0 /\ ping[last].answer = "no"
  /\ ping[last].answered + AfterNo > now
  /\ ~\E i \in hist : ping[i].sender = ping[last].target /\ ping[i].sent > ping[last].answered

Missed(S) == {i \in S : ping[i].sent >= DayStart(now) /\ pingStatus(ping[i]) = "expired"}

NextAllowed(p) ==
  IF p.answer = "none" THEN p.sent + Offer + AfterMiss ELSE p.sent + AfterAnswer

\* The rules in their order.
pingAdmission(r, hist) ==
  LET mine == {i \in hist : ping[i].sender = r}
      last == IF mine = {} THEN 0 ELSE CHOOSE i \in mine : \A j \in mine : j <= i IN
  IF SaidNo(last, hist) THEN "said_no"
  ELSE IF last # 0 /\ pingStatus(ping[last]) = "offered" THEN "still_open"
  ELSE IF Cardinality(Missed(mine)) >= Misses THEN "three_misses"
  ELSE IF last # 0 /\ now < NextAllowed(ping[last]) THEN "pair_wait"
  ELSE "ok"

\* lockPresenceRows: both in one place that is not retired.
Together(r) == presence[r].place = presence[Other(r)].place /\ presence[r].place \notin closed

NewPing(r) ==
  [sender |-> r, target |-> Other(r), place |-> presence[r].place, sent |-> now,
   arrived |-> [s \in Residents |-> presence[s].arrived],
   answer |-> "none", answered |-> 0, left |-> FALSE]

invitePing(r) ==
  /\ Len(ping) < MaxPings
  /\ Together(r) /\ pingAdmission(r, History) = "ok"
  /\ ping' = Append(ping, NewPing(r))
  /\ UNCHANGED <<now, presence, closed>>

answerPing(i, a) ==
  /\ pingStatus(ping[i]) = "offered"
  /\ ping' = [ping EXCEPT ![i].answer = a, ![i].answered = now]
  /\ UNCHANGED <<now, presence, closed>>

\* An arrival in another place (left is history: unanswered when one of the pair left).
Move(r, p) ==
  /\ p # presence[r].place /\ p \notin closed /\ presence[r].arrived <= MaxMoves
  /\ presence' = [presence EXCEPT ![r] = [place |-> p, arrived |-> @.arrived + 1]]
  /\ ping' = [i \in DOMAIN ping |->
                IF ping[i].answer = "none" THEN [ping[i] EXCEPT !.left = TRUE] ELSE ping[i]]
  /\ UNCHANGED <<now, closed>>

Retire(p) ==
  /\ p \in Closable \ closed
  /\ closed' = closed \cup {p}
  /\ UNCHANGED <<now, presence, ping>>

Tick ==
  /\ now < MaxTime
  /\ now' = now + 1
  /\ UNCHANGED <<presence, closed, ping>>

\* The bound on time ends a behaviour.
Over == now = MaxTime /\ UNCHANGED vars

Next ==
  \/ \E r \in Residents : invitePing(r)
  \/ \E i \in DOMAIN ping, a \in {"yes", "no"} : answerPing(i, a)
  \/ \E r \in Residents, p \in Places : Move(r, p)
  \/ \E p \in Places : Retire(p)
  \/ Tick \/ Over

Spec == Init /\ [][Next]_vars

-----------------------------------------------------------------------------
(* Properties                                                              *)

Later(i) == {j \in DOMAIN ping : j > i /\ ping[j].sender = ping[i].sender}
SameDay(i) == {j \in DOMAIN ping : /\ ping[j].sender = ping[i].sender
                                   /\ DayOf(ping[j].sent) = DayOf(ping[i].sent)}

\* The published rule (TALK_PING_RULE) holds of all the pings ever sent, although
\* the code decides from the last day's alone: the waits after an answer and
\* after a miss, a day's silence after a no unless the other pings first, at
\* most three unanswered pings to one resident in a UTC day, one open offer at a
\* time, and no answer once either has left, even if both are back by then.
PingManners ==
  \A i \in DOMAIN ping :
    /\ \A j \in Later(i) :
         /\ ping[j].sent >= NextAllowed(ping[i])
         /\ pingStatus(ping[i]) # "offered"
         /\ ping[i].answer = "no" /\ ping[j].sent < ping[i].answered + AfterNo =>
              \E k \in DOMAIN ping : /\ k < j /\ ping[k].sender = ping[i].target
                                     /\ ping[k].sent > ping[i].answered
    /\ Cardinality({j \in SameDay(i) : ping[j].answer = "none"}) <= Misses
    /\ ping[i].answer # "none" => ~ping[i].left
=============================================================================

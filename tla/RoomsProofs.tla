------------------------------ MODULE RoomsProofs ------------------------------
(***************************************************************************)
(* Proofs about the components of MCRooms: the requests to talk, the waits *)
(* in a room, the pings, the timers and the wake tries of a room, and the  *)
(* weekly contest.                                                         *)
(***************************************************************************)
EXTENDS Sequences, MCRooms, FiniteSetTheorems, WellFoundedInduction, TLAPS

\* The behaviours TLC explores are behaviours of RoomsSpec: what is proved of RoomsSpec
\* holds of them, without the limits of the run.
LEMMA RunIsPart == FewRoomsSpec => RoomsSpec
<1>1. FewRoomsNext => RoomsNext
  BY DEF FewRoomsNext, RoomsNext
<1> QED BY <1>1, PTL DEF FewRoomsSpec, RoomsSpec

-----------------------------------------------------------------------------
(* TalkRequests: an id does one thing                                      *)

Line == [id : Requests, body : Twins, at : Nat, held : BOOLEAN]
Outcome == [request : Talk!Operations, outcome : Talk!Outcomes]
Answer == (Talk!Operations \cup {<<"line", b>> : b \in Twins}) \X (Talk!Outcomes \cup {"said"})
Said == 1 .. Len(lines)

TalkTyped ==
  /\ now \in Nat /\ held \in BOOLEAN /\ lines \in Seq(Line)
  /\ op \in [Requests -> Outcome \cup {None}]
  /\ told \in [Requests -> SUBSET Answer]

\* What was told to a request is what its line or its outcome says.
IsTold(i, t) ==
  \/ \E k \in Said : lines[k].id = i /\ t = <<<<"line", lines[k].body>>, "said">>
  \/ op[i] # None /\ op[i] = [request |-> t[1], outcome |-> t[2]]

OnceInv ==
  /\ TalkTyped
  /\ \A k, l \in Said : lines[k].id = lines[l].id => k = l
  /\ \A k \in Said : op[lines[k].id] = None
  /\ \A i \in Requests : \A t \in told[i] : IsTold(i, t)

LEMMA SaidDomain ==
  ASSUME lines \in Seq(Line)
  PROVE  DOMAIN lines = Said /\ Len(lines) \in Nat /\ \A k \in Said : lines[k] \in Line
  BY DEF Said

LEMMA OnceStarts ==
  ASSUME Talk!Init
  PROVE  OnceInv
<1>1. now = 0 /\ held = FALSE /\ lines = <<>> /\ Said = {}
  BY DEF Talk!Init, Said
<1>2. op = [i \in Requests |-> None] /\ told = [i \in Requests |-> {}]
  BY DEF Talk!Init
<1>3. <<>> \in Seq(Line)
  OBVIOUS
<1>4. op \in [Requests -> Outcome \cup {None}] /\ told \in [Requests -> SUBSET Answer]
  BY <1>2
<1>5. TalkTyped
  BY <1>1, <1>3, <1>4 DEF TalkTyped
<1> QED BY <1>1, <1>2, <1>5 DEF OnceInv

\* A line is told again only to the request that said it.
LEMMA OnceReplaysLine ==
  ASSUME OnceInv, NEW i \in Requests, NEW b \in Twins, Talk!ReplayLine(i, b)
  PROVE  OnceInv'
<1>1. /\ UNCHANGED <<now, held, lines, op>> /\ Said' = Said
  BY DEF Talk!ReplayLine, Said
<1>2. CASE UNCHANGED told
  BY <1>1, <1>2 DEF OnceInv, TalkTyped, IsTold
<1>3. CASE ~UNCHANGED told
  <2> DEFINE t == <<<<"line", b>>, "said">>
  <2>1. told' = [told EXCEPT ![i] = @ \cup {t}]
    BY <1>3 DEF Talk!ReplayLine, Talk!Told
  <2>2. PICK k \in Said : lines[k].id = i /\ lines[k].body = b
    BY <1>3, SaidDomain DEF Talk!ReplayLine, Talk!LineOf, OnceInv, TalkTyped
  <2>3. t \in Answer
    BY DEF Answer
  <2>4. told' \in [Requests -> SUBSET Answer]
    BY <2>1, <2>3 DEF OnceInv, TalkTyped
  <2>5. IsTold(i, t)
    BY <2>2 DEF IsTold
  <2>6. \A j \in Requests : \A u \in told'[j] : IsTold(j, u)
    BY <2>1, <2>5 DEF OnceInv, TalkTyped
  <2> QED BY <1>1, <2>4, <2>6 DEF OnceInv, TalkTyped, IsTold
<1> QED BY <1>2, <1>3

\* A line is said under an id that did nothing before.
LEMMA OnceSays ==
  ASSUME OnceInv, NEW i \in Requests, NEW b \in Twins, NEW here \in BOOLEAN,
         Talk!sayLine(i, b, here)
  PROVE  OnceInv'
<1>1. /\ UNCHANGED <<now, held, op>> /\ OnceInv /\ TalkTyped
  BY DEF Talk!sayLine, OnceInv
<1>2. CASE UNCHANGED <<lines, told>>
  BY <1>1, <1>2 DEF OnceInv, TalkTyped, IsTold, Said
<1>3. CASE ~UNCHANGED <<lines, told>>
  <2> DEFINE r == [id |-> i, body |-> b, at |-> now, held |-> held]
             t == <<<<"line", b>>, "said">>
             n == Len(lines)
  <2>1. /\ lines' = Append(lines, r) /\ told' = [told EXCEPT ![i] = @ \cup {t}]
        /\ op[i] = None /\ Talk!LineOf(i) = {}
    BY <1>3 DEF Talk!sayLine, Talk!Told
  <2>2. r \in Line /\ t \in Answer
    BY <1>1 DEF Line, TalkTyped, Answer
  <2> HIDE DEF r, t
  <2>3. /\ n \in Nat /\ lines' \in Seq(Line) /\ Said' = Said \cup {n + 1} /\ n + 1 \notin Said
        /\ lines'[n + 1] = r /\ \A k \in Said : lines'[k] = lines[k]
    BY <1>1, <2>1, <2>2 DEF TalkTyped, Said
  <2>4. \A k \in Said : lines[k].id # i
    BY <1>1, <2>1, SaidDomain DEF Talk!LineOf, TalkTyped
  <2> HIDE DEF n
  <2>5. told' \in [Requests -> SUBSET Answer]
    BY <1>1, <2>1, <2>2 DEF TalkTyped
  <2>6. TalkTyped'
    BY <1>1, <2>3, <2>5 DEF TalkTyped
  <2>7. r.id = i /\ r.body = b
    BY DEF r
  <2>8. \A k, l \in Said' : lines'[k].id = lines'[l].id => k = l
    BY <1>1, <2>3, <2>4, <2>7 DEF OnceInv
  <2>9. \A k \in Said' : op'[lines'[k].id] = None
    BY <1>1, <2>1, <2>3, <2>7 DEF OnceInv
  <2>10. \A j \in Requests : \A u : IsTold(j, u) => IsTold(j, u)'
    BY <1>1, <2>3 DEF IsTold
  <2>11. IsTold(i, t)'
    BY <2>3, <2>7 DEF IsTold, t
  <2>12. \A j \in Requests : \A u \in told'[j] : u \in told[j] \/ (j = i /\ u = t)
    BY <1>1, <2>1 DEF TalkTyped
  <2>13. \A j \in Requests : \A u \in told'[j] : IsTold(j, u)'
    BY <1>1, <2>10, <2>11, <2>12 DEF OnceInv
  <2> QED BY <2>6, <2>8, <2>9, <2>13 DEF OnceInv
<1> QED BY <1>2, <1>3

\* An operation is told again with the outcome that was kept.
LEMMA OnceReplaysOperation ==
  ASSUME OnceInv, NEW i \in Requests, NEW q \in Talk!Operations, Talk!ReplayOperation(i, q)
  PROVE  OnceInv'
<1>1. /\ UNCHANGED <<now, held, lines, op>> /\ Said' = Said
  BY DEF Talk!ReplayOperation, Said
<1>2. CASE UNCHANGED told
  BY <1>1, <1>2 DEF OnceInv, TalkTyped, IsTold
<1>3. CASE ~UNCHANGED told
  <2> DEFINE t == <<q, op[i].outcome>>
  <2>1. told' = [told EXCEPT ![i] = @ \cup {t}] /\ op[i].request = q /\ op[i] # None
    BY <1>3 DEF Talk!ReplayOperation, Talk!Told, Talk!UsedBefore
  <2>2. op[i] \in Outcome
    BY <2>1 DEF OnceInv, TalkTyped
  <2>3. t \in Answer /\ op[i] = [request |-> q, outcome |-> op[i].outcome]
    BY <2>1, <2>2 DEF Answer, Outcome
  <2>4. IsTold(i, t)
    BY <2>1, <2>3 DEF IsTold
  <2> HIDE DEF t
  <2>5. told' \in [Requests -> SUBSET Answer]
    BY <2>1, <2>3 DEF OnceInv, TalkTyped
  <2>6. \A j \in Requests : \A u \in told'[j] : IsTold(j, u)
    BY <2>1, <2>4 DEF OnceInv, TalkTyped
  <2> QED BY <1>1, <2>5, <2>6 DEF OnceInv, TalkTyped, IsTold
<1> QED BY <1>2, <1>3

\* An outcome is kept under an id that did nothing before.
LEMMA OnceRecords ==
  ASSUME OnceInv, NEW i \in Requests, NEW q \in Talk!Operations, NEW o \in Talk!Outcomes,
         ~Talk!UsedBefore(i), Talk!recordOutcome(i, q, o), UNCHANGED <<now, held, lines>>
  PROVE  OnceInv'
<1> DEFINE t == <<q, o>>
           r == [request |-> q, outcome |-> o]
<1>1. /\ OnceInv /\ TalkTyped /\ Said' = Said
      /\ told' = [told EXCEPT ![i] = @ \cup {t}] /\ op' = [op EXCEPT ![i] = r]
      /\ op[i] = None /\ Talk!LineOf(i) = {}
  BY DEF Talk!recordOutcome, Talk!Told, Talk!UsedBefore, OnceInv, Said
<1>2. t \in Answer /\ r \in Outcome
  BY DEF Answer, Outcome
<1>3. r # None
  BY <1>2, TalkAssumption DEF Outcome
<1>4. r = [request |-> t[1], outcome |-> t[2]]
  OBVIOUS
<1> HIDE DEF t, r
<1>5. TalkTyped'
  BY <1>1, <1>2 DEF TalkTyped
<1>6. \A k \in Said : lines[k].id # i /\ lines[k].id \in Requests
  BY <1>1, SaidDomain DEF Talk!LineOf, TalkTyped, Line
<1>7. \A k \in Said : op'[lines[k].id] = None
  BY <1>1, <1>6 DEF OnceInv, TalkTyped
<1>8. told[i] = {}
  BY <1>1, <1>6 DEF OnceInv, IsTold
<1>9. \A j \in Requests : op'[j] = IF j = i THEN r ELSE op[j]
  BY <1>1 DEF TalkTyped
<1>10. \A j \in Requests : \A u \in told'[j] : (j # i /\ u \in told[j]) \/ (j = i /\ u = t)
  BY <1>1, <1>8 DEF TalkTyped
<1>11. \A j \in Requests : j # i => \A u : IsTold(j, u) => IsTold(j, u)'
  BY <1>1, <1>9 DEF IsTold
<1>12. IsTold(i, t)'
  BY <1>3, <1>4, <1>9 DEF IsTold
<1>13. \A j \in Requests : \A u \in told'[j] : IsTold(j, u)'
  BY <1>1, <1>10, <1>11, <1>12 DEF OnceInv
<1> QED BY <1>1, <1>5, <1>7, <1>13 DEF OnceInv

LEMMA OnceSteps ==
  ASSUME OnceInv, Talk!Next
  PROVE  OnceInv'
<1>1. ASSUME NEW i \in Requests, NEW b \in Twins,
             Talk!ReplayLine(i, b) \/ \E here \in BOOLEAN : Talk!sayLine(i, b, here)
      PROVE  OnceInv'
  BY <1>1, OnceReplaysLine, OnceSays
<1>2. ASSUME NEW i \in Requests, NEW q \in Talk!Operations, Talk!ReplayOperation(i, q)
      PROVE  OnceInv'
  BY <1>2, OnceReplaysOperation
<1>3. ASSUME NEW i \in Requests, Talk!invitePing(i) PROVE OnceInv'
  <2>1. PICK o \in {"held", "sent", "refused"} : Talk!recordOutcome(i, <<"invite">>, o)
    BY <1>3 DEF Talk!invitePing
  <2>2. <<"invite">> \in Talk!Operations /\ o \in Talk!Outcomes
    BY DEF Talk!Operations, Talk!Outcomes, Talk!Refusals
  <2> QED BY <1>3, <2>1, <2>2, OnceRecords DEF Talk!invitePing
<1>4. ASSUME NEW i \in Requests, Talk!dismissPing(i) PROVE OnceInv'
  <2> DEFINE o == IF ping = None THEN "not_found" ELSE IF ping = "offered" THEN "still_open"
                  ELSE "dismissed"
  <2>1. /\ Talk!recordOutcome(i, <<"dismiss">>, o) /\ ~Talk!UsedBefore(i)
        /\ UNCHANGED <<now, held, lines>>
    BY <1>4 DEF Talk!dismissPing
  <2>2. <<"dismiss">> \in Talk!Operations /\ o \in Talk!Outcomes
    BY DEF Talk!Operations, Talk!Outcomes, Talk!Refusals
  <2> HIDE DEF o
  <2> QED BY <2>1, <2>2, OnceRecords
<1>5. ASSUME NEW i \in Requests, NEW a \in {"yes", "no"}, Talk!answerPing(i, a) PROVE OnceInv'
  <2>1. PICK o \in {"answered", "not_found", "ended"} : Talk!recordOutcome(i, <<"answer", a>>, o)
    BY <1>5 DEF Talk!answerPing
  <2>2. <<"answer", a>> \in Talk!Operations /\ o \in Talk!Outcomes
    BY DEF Talk!Operations, Talk!Outcomes, Talk!Refusals
  <2> QED BY <1>5, <2>1, <2>2, OnceRecords DEF Talk!answerPing
<1>6. ASSUME Talk!markReceiptsSeen \/ Talk!PingArrives \/ Talk!PingExpires \/ Talk!Hold \/ Talk!Tick
      PROVE  OnceInv'
  <2>1. UNCHANGED <<lines, op, told>> /\ (now' = now \/ now' = now + 1)
    BY <1>6 DEF Talk!markReceiptsSeen, Talk!PingArrives, Talk!PingExpires, Talk!Hold, Talk!Tick
  <2>2. held' = held \/ held' = ~held
    BY <1>6 DEF Talk!markReceiptsSeen, Talk!PingArrives, Talk!PingExpires, Talk!Hold, Talk!Tick
  <2>3. held' \in BOOLEAN
    BY <2>2 DEF OnceInv, TalkTyped
  <2> QED BY <2>1, <2>3 DEF OnceInv, TalkTyped, IsTold, Said
<1> QED BY <1>1, <1>2, <1>3, <1>4, <1>5, <1>6 DEF Talk!Next

-----------------------------------------------------------------------------
(* TalkRequests: the rows of the allowance count what was said             *)

Row == [day : Nat, inDay : Nat, minute : Nat, inMinute : Nat]

\* The lines of a day and of a minute, and what is left of the row of another.
AtDay(s, x) == {k \in 1 .. Len(s) : s[k].at \div DayTicks = x}
AtMinute(s, x) == {k \in 1 .. Len(s) : s[k].at \div MinuteTicks = x}
UsedAt(row, x, n) == IF row = x THEN n ELSE 0

Counted ==
  /\ UsedAt(used.day, now \div DayTicks, used.inDay) = Cardinality(AtDay(lines, now \div DayTicks))
  /\ UsedAt(used.minute, now \div MinuteTicks, used.inMinute)
       = Cardinality(AtMinute(lines, now \div MinuteTicks))
  /\ \A k \in Said : Cardinality(AtMinute(lines, lines[k].at \div MinuteTicks)) <= MinuteLines
  /\ \A k \in Said : Cardinality({j \in AtDay(lines, lines[k].at \div DayTicks) : j <= k}) <=
                       (IF lines[k].held THEN HeldLines ELSE DayLines)

QuotaInv ==
  /\ lines \in Seq(Line) /\ used \in Row
  /\ now \in Nat /\ held \in BOOLEAN
  /\ \A k \in Said : lines[k].at <= now
  /\ used.day <= now \div DayTicks /\ used.minute <= now \div MinuteTicks
  /\ Counted

LEMMA TalkCounts == \A S : Talk!Cardinality(S) = Cardinality(S)
  BY DEF Talk!Cardinality, Cardinality

LEMMA TalkClock == MinuteTicks \in Nat \ {0} /\ DayTicks \in Nat \ {0}
  BY TalkAssumption

LEMMA DivNatural ==
  ASSUME NEW a \in Nat, NEW d \in Nat \ {0}
  PROVE  a \div d \in Nat
  OBVIOUS

LEMMA DivMonotone ==
  ASSUME NEW a \in Nat, NEW b \in Nat, NEW d \in Nat \ {0}, a <= b
  PROVE  a \div d <= b \div d
  OBVIOUS

\* A set of lines is finite, and one more line makes it one larger.
LEMMA LinesCount ==
  ASSUME NEW n \in Nat, NEW S \in SUBSET (1 .. n)
  PROVE  /\ IsFiniteSet(S) /\ Cardinality(S) \in Nat
         /\ Cardinality(S \cup {n + 1}) = Cardinality(S) + 1
<1>1. IsFiniteSet(S)
  BY FS_Interval, FS_Subset, 1 \in Int, n \in Int
<1>2. n + 1 \notin S
  OBVIOUS
<1> QED BY <1>1, <1>2, FS_AddElement, FS_CardinalityType

LEMMA QuotaStarts ==
  ASSUME Talk!Init
  PROVE  QuotaInv
<1>1. /\ now = 0 /\ held = FALSE /\ lines = <<>> /\ Said = {}
      /\ used = [day |-> 0, inDay |-> 0, minute |-> 0, inMinute |-> 0]
  BY DEF Talk!Init, Said
<1>2. \A x : AtDay(lines, x) = {} /\ AtMinute(lines, x) = {}
  BY <1>1 DEF AtDay, AtMinute
<1>3. 0 \div DayTicks = 0 /\ 0 \div MinuteTicks = 0
  BY TalkClock
<1>4. Counted
  BY <1>1, <1>2, FS_EmptySet DEF Counted, UsedAt
<1>5. lines \in Seq(Line) /\ used \in Row
  BY <1>1 DEF Row
<1>6. used.day = 0 /\ used.minute = 0 /\ now \div DayTicks = 0 /\ now \div MinuteTicks = 0
  BY <1>1, <1>3
<1>7. now \in Nat /\ held \in BOOLEAN /\ \A k \in Said : lines[k].at <= now
  BY <1>1
<1>8. used.day <= now \div DayTicks /\ used.minute <= now \div MinuteTicks
  BY <1>6
<1> QED BY <1>4, <1>5, <1>7, <1>8 DEF QuotaInv

\* A step that says no line and passes no time leaves the counts.
LEMMA QuotaStays ==
  ASSUME QuotaInv, UNCHANGED <<now, lines, used>>, held' \in BOOLEAN
  PROVE  QuotaInv'
  BY DEF QuotaInv, Said, Counted

\* The rows of an earlier day or minute count for nothing in a new one.
LEMMA QuotaTicks ==
  ASSUME QuotaInv, now' = now + 1, UNCHANGED <<held, lines, used>>
  PROVE  QuotaInv'
<1> DEFINE d == now \div DayTicks
           e == (now + 1) \div DayTicks
           m == now \div MinuteTicks
           n == (now + 1) \div MinuteTicks
<1>1. now \in Nat /\ now + 1 \in Nat /\ now <= now + 1
  BY DEF QuotaInv
<1>2. d \in Nat /\ e \in Nat /\ d <= e /\ m \in Nat /\ n \in Nat /\ m <= n
  BY <1>1, TalkClock, DivNatural, DivMonotone
<1>3. Said' = Said /\ \A k \in Said : lines[k].at \in Nat /\ lines[k].at <= now
  BY SaidDomain DEF QuotaInv, Line, Said
<1>4. \A k \in Said : lines[k].at \div DayTicks <= d /\ lines[k].at \div MinuteTicks <= m
  BY <1>1, <1>3, TalkClock, DivMonotone
<1>5. \A k \in Said : lines[k].at \div DayTicks \in Nat /\ lines[k].at \div MinuteTicks \in Nat
  BY <1>3, TalkClock, DivNatural
<1>6. /\ UsedAt(used.day, d, used.inDay) = Cardinality(AtDay(lines, d))
      /\ UsedAt(used.minute, m, used.inMinute) = Cardinality(AtMinute(lines, m))
      /\ used \in Row /\ used.day <= d /\ used.minute <= m
  BY DEF QuotaInv, Counted
<1>7. now' \div DayTicks = e /\ now' \div MinuteTicks = n
  OBVIOUS
<1> HIDE DEF d, e, m, n
<1>8. (d < e => AtDay(lines, e) = {}) /\ (m < n => AtMinute(lines, n) = {})
  BY <1>2, <1>4, <1>5 DEF AtDay, AtMinute, Said
<1>9. UsedAt(used.day, e, used.inDay) = Cardinality(AtDay(lines, e))
  <2>1. CASE d = e BY <2>1, <1>6
  <2>2. CASE d # e
    BY <2>2, <1>2, <1>6, <1>8, FS_EmptySet DEF Row, UsedAt
  <2> QED BY <2>1, <2>2
<1>10. UsedAt(used.minute, n, used.inMinute) = Cardinality(AtMinute(lines, n))
  <2>1. CASE m = n BY <2>1, <1>6
  <2>2. CASE m # n
    BY <2>2, <1>2, <1>6, <1>8, FS_EmptySet DEF Row, UsedAt
  <2> QED BY <2>1, <2>2
<1>11. Counted'
  BY <1>3, <1>7, <1>9, <1>10 DEF Counted, QuotaInv
<1>12. used.day <= e /\ used.minute <= n
  BY <1>2, <1>6 DEF Row
<1> QED BY <1>1, <1>3, <1>7, <1>11, <1>12 DEF QuotaInv

\* A line that is said is counted in the row of its day and of its minute.
LEMMA QuotaSays ==
  ASSUME QuotaInv, NEW i \in Requests, NEW b \in Twins, NEW here \in BOOLEAN,
         Talk!sayLine(i, b, here)
  PROVE  QuotaInv'
<1> DEFINE d == now \div DayTicks
           m == now \div MinuteTicks
           r == [id |-> i, body |-> b, at |-> now, held |-> held]
           n == Len(lines)
           inDay == UsedAt(used.day, d, used.inDay)
           inMinute == UsedAt(used.minute, m, used.inMinute)
<1>1. CASE UNCHANGED <<lines, used>>
  BY <1>1, QuotaStays DEF Talk!sayLine, QuotaInv
<1>2. CASE ~UNCHANGED <<lines, used>>
  <2>1. /\ used' = [day |-> d, inDay |-> inDay + 1, minute |-> m, inMinute |-> inMinute + 1]
        /\ lines' = Append(lines, r) /\ Talk!Allowed /\ UNCHANGED <<now, held>>
    BY <1>2 DEF Talk!sayLine, Talk!UsedDay, Talk!UsedMinute, UsedAt
  <2>2. /\ inDay < (IF held THEN HeldLines ELSE DayLines) /\ inMinute < MinuteLines
    BY <2>1 DEF Talk!Allowed, Talk!DayLimit, Talk!UsedDay, Talk!UsedMinute, UsedAt
  <2>3. inDay = Cardinality(AtDay(lines, d)) /\ inMinute = Cardinality(AtMinute(lines, m))
    BY DEF QuotaInv, Counted
  <2>4. r \in Line /\ r.at = now /\ r.held = held
    BY DEF Line, QuotaInv
  <2> HIDE DEF r
  <2>5. /\ n \in Nat /\ lines' \in Seq(Line) /\ Said' = Said \cup {n + 1} /\ Said = 1 .. n
        /\ Len(lines') = n + 1
        /\ lines'[n + 1] = r /\ \A k \in Said : lines'[k] = lines[k]
    BY <2>1, <2>4 DEF QuotaInv, Said
  <2>6. /\ now \in Nat /\ d \in Nat /\ m \in Nat
        /\ d = r.at \div DayTicks /\ m = r.at \div MinuteTicks
        /\ now' \div DayTicks = d /\ now' \div MinuteTicks = m
    BY <2>1, <2>4, TalkClock, DivNatural DEF QuotaInv
  <2> HIDE DEF n, inDay, inMinute, d, m
  <2>7. \A x : AtDay(lines, x) \subseteq 1 .. n /\ AtMinute(lines, x) \subseteq 1 .. n
    BY DEF n, AtDay, AtMinute
  <2>8. \A x : AtDay(lines', x) = IF x = d THEN AtDay(lines, x) \cup {n + 1} ELSE AtDay(lines, x)
    BY <2>5, <2>6 DEF AtDay, n
  <2>9. \A x : AtMinute(lines', x) = IF x = m THEN AtMinute(lines, x) \cup {n + 1}
                                     ELSE AtMinute(lines, x)
    BY <2>5, <2>6 DEF AtMinute, n
  <2>10. /\ Cardinality(AtDay(lines, d) \cup {n + 1}) = inDay + 1 /\ inDay \in Nat
         /\ Cardinality(AtMinute(lines, m) \cup {n + 1}) = inMinute + 1 /\ inMinute \in Nat
    BY <2>3, <2>5, <2>7, LinesCount
  <2>11. /\ UsedAt(used'.day, now' \div DayTicks, used'.inDay) = inDay + 1
         /\ UsedAt(used'.minute, now' \div MinuteTicks, used'.inMinute) = inMinute + 1
    BY <2>1, <2>6 DEF UsedAt
  <2>12. ASSUME NEW k \in Said'
         PROVE  Cardinality(AtMinute(lines', lines'[k].at \div MinuteTicks)) <= MinuteLines
    <3>1. CASE lines'[k].at \div MinuteTicks = m
      <4>1. AtMinute(lines', lines'[k].at \div MinuteTicks) = AtMinute(lines, m) \cup {n + 1}
        BY <3>1, <2>9
      <4>2. inMinute + 1 <= MinuteLines
        BY <2>2, <2>10, TalkAssumption
      <4> QED BY <4>1, <4>2, <2>10
    <3>2. CASE lines'[k].at \div MinuteTicks # m
      <4>1. k \in Said
        BY <3>2, <2>5, <2>6
      <4> QED BY <4>1, <3>2, <2>5, <2>9 DEF QuotaInv, Counted
    <3> QED BY <3>1, <3>2
  <2>13. ASSUME NEW k \in Said'
         PROVE  Cardinality({j \in AtDay(lines', lines'[k].at \div DayTicks) : j <= k}) <=
                  (IF lines'[k].held THEN HeldLines ELSE DayLines)
    <3>1. CASE k \in Said
      <4>1. {j \in AtDay(lines', lines[k].at \div DayTicks) : j <= k}
              = {j \in AtDay(lines, lines[k].at \div DayTicks) : j <= k}
        BY <3>1, <2>5, <2>8
      <4> QED BY <4>1, <3>1, <2>5 DEF QuotaInv, Counted
    <3>2. CASE k = n + 1
      <4>1. lines'[k].at \div DayTicks = d /\ lines'[k].held = held
        BY <3>2, <2>4, <2>5, <2>6
      <4>2. {j \in AtDay(lines', d) : j <= k} = AtDay(lines, d) \cup {n + 1}
        BY <3>2, <2>5, <2>7, <2>8
      <4>3. inDay + 1 <= IF held THEN HeldLines ELSE DayLines
        BY <2>2, <2>10, TalkAssumption
      <4> QED BY <4>1, <4>2, <4>3, <2>10
    <3> QED BY <3>1, <3>2, <2>5
  <2>14. Counted'
    BY <2>6, <2>8, <2>9, <2>10, <2>11, <2>12, <2>13 DEF Counted
  <2>15. used' \in Row /\ used'.day = d /\ used'.minute = m
    BY <2>1, <2>6, <2>10 DEF Row
  <2>16. \A k \in Said' : lines'[k].at <= now'
    BY <2>1, <2>4, <2>5, <2>6 DEF QuotaInv
  <2>17. now' \in Nat /\ held' \in BOOLEAN
    BY <2>1 DEF QuotaInv
  <2>18. used'.day <= now' \div DayTicks /\ used'.minute <= now' \div MinuteTicks
    BY <2>6, <2>15
  <2> QED BY <2>5, <2>14, <2>15, <2>16, <2>17, <2>18 DEF QuotaInv
<1> QED BY <1>1, <1>2

LEMMA QuotaSteps ==
  ASSUME QuotaInv, Talk!Next
  PROVE  QuotaInv'
<1>1. CASE Talk!Tick
  BY <1>1, QuotaTicks DEF Talk!Tick
<1>2. CASE \E i \in Requests, b \in Twins, here \in BOOLEAN : Talk!sayLine(i, b, here)
  BY <1>2, QuotaSays
<1>3. CASE ~Talk!Tick /\ ~\E i \in Requests, b \in Twins, here \in BOOLEAN : Talk!sayLine(i, b, here)
  <2>1. UNCHANGED <<now, lines, used>> /\ held' \in BOOLEAN
    BY <1>3 DEF Talk!Next, Talk!ReplayLine, Talk!ReplayOperation, Talk!invitePing,
       Talk!dismissPing, Talk!answerPing, Talk!markReceiptsSeen, Talk!PingArrives,
       Talk!PingExpires, Talk!Hold, QuotaInv
  <2> QED BY <2>1, QuotaStays
<1> QED BY <1>1, <1>2, <1>3

\* What TalkRequests promises of a request.
LEMMA OnceMeans ==
  ASSUME OnceInv
  PROVE  Talk!RequestOnce
<1>1. DOMAIN lines = Said
  BY SaidDomain DEF OnceInv, TalkTyped
<1>2. ASSUME NEW i \in Requests
      PROVE  /\ Talk!Cardinality(Talk!LineOf(i)) + (IF op[i] = None THEN 0 ELSE 1) <= 1
             /\ \A t \in told[i] :
                  IF Talk!LineOf(i) # {}
                  THEN t \in {<<<<"line", lines[k].body>>, "said">> : k \in Talk!LineOf(i)}
                  ELSE op[i] = [request |-> t[1], outcome |-> t[2]]
  <2>1. CASE Talk!LineOf(i) = {}
    <3>1. Talk!Cardinality(Talk!LineOf(i)) = 0
      BY <2>1, TalkCounts, FS_EmptySet
    <3>2. \A k \in Said : lines[k].id # i
      BY <2>1, <1>1 DEF Talk!LineOf
    <3>3. \A t \in told[i] : op[i] = [request |-> t[1], outcome |-> t[2]]
      <4>1. \A t \in told[i] : IsTold(i, t)
        BY DEF OnceInv
      <4> QED BY Zenon, <3>2, <4>1 DEF IsTold
    <3> QED BY <2>1, <3>1, <3>3
  <2>2. CASE Talk!LineOf(i) # {}
    <3>1. PICK k \in Said : lines[k].id = i
      BY <2>2, <1>1 DEF Talk!LineOf
    <3>2. Talk!LineOf(i) = {k}
      BY <3>1, <1>1 DEF OnceInv, Talk!LineOf
    <3>3. Talk!Cardinality(Talk!LineOf(i)) = 1 /\ op[i] = None
      BY <3>1, <3>2, TalkCounts, FS_Singleton DEF OnceInv
    <3>4. \A t \in told[i] : t = <<<<"line", lines[k].body>>, "said">>
      <4>1. \A l \in Said : lines[l].id = i => l = k
        BY <3>1 DEF OnceInv
      <4>2. \A t \in told[i] : IsTold(i, t)
        BY DEF OnceInv
      <4> QED BY <4>1, <4>2, <3>3 DEF IsTold
    <3> QED BY <2>2, <3>2, <3>3, <3>4
  <2> QED BY <2>1, <2>2
<1> QED BY <1>2 DEF Talk!RequestOnce

LEMMA QuotaMeans ==
  ASSUME QuotaInv
  PROVE  Talk!QuotaExact
<1>1. DOMAIN lines = Said
  BY SaidDomain DEF QuotaInv
<1>2. \A x : Talk!InDay(x) = AtDay(lines, x) /\ Talk!InMinute(x) = AtMinute(lines, x)
  BY <1>1 DEF Talk!InDay, Talk!InMinute, AtDay, AtMinute, Said
<1> QED BY <1>1, <1>2, TalkCounts DEF QuotaInv, Counted, UsedAt, Talk!QuotaExact, Talk!UsedDay,
     Talk!UsedMinute

TalkInv == part = "talk" => OnceInv /\ QuotaInv

LEMMA RequestsHold == RoomsSpec => []TalkInv
<1>1. RoomsInit => TalkInv
  BY OnceStarts, QuotaStarts DEF RoomsInit, TalkInit, WorkInit, TalkInv
<1>2. TalkInv /\ [RoomsNext]_roomVars => TalkInv'
  <2> SUFFICES ASSUME TalkInv, [RoomsNext]_roomVars, part' = "talk"
               PROVE  OnceInv' /\ QuotaInv'
    BY DEF TalkInv
  <2>1. part = "talk"
    BY DEF RoomsNext, roomVars
  <2>2. CASE Talk!Next
    BY <2>1, <2>2, OnceSteps, QuotaSteps DEF TalkInv
  <2>3. CASE UNCHANGED <<now, held, lines, used, op, told>>
    <3>1. OnceInv'
      BY <2>1, <2>3 DEF TalkInv, OnceInv, TalkTyped, IsTold, Said
    <3>2. QuotaInv'
      BY <2>1, <2>3, QuotaStays DEF TalkInv, QuotaInv
    <3> QED BY <3>1, <3>2
  <2> QED BY <2>1, <2>2, <2>3 DEF RoomsNext, TalkNext, WorkNext, roomVars, talkVars
<1> QED BY <1>1, <1>2, PTL DEF RoomsSpec

\* A request does one thing and is told so, and the lines said agree with the
\* allowance of every minute and day, for any number of requests, lines and ticks.
THEOREM TalkHolds == RoomsSpec => []TalkIsExact
<1>1. TalkInv => TalkIsExact
  BY OnceMeans, QuotaMeans DEF TalkInv, TalkIsExact
<1> QED BY <1>1, RequestsHold, PTL

-----------------------------------------------------------------------------
(* RoomWaits: the lease of a resident                                      *)

Fields == {"pc", "lease", "place", "left", "start", "line", "ping", "nextLine", "nextPing", "todo",
           "lines", "pings", "still", "shut", "stayed", "reason"}

\* A wait w beside the lease l of its resident, its presence p and the next lease n.
WaitOK(w, l, p, n) ==
  /\ DOMAIN w = Fields /\ w.lease \in Nat /\ w.lease < n /\ w.stayed \in BOOLEAN
  /\ w.pc \in {"idle", "open"} => w.lease = 0
  /\ w.pc \in {"read", "release", "answer"} => w.lease # 0
  /\ w.lease = 0 => w.stayed
  /\ w.pc \in {"read", "release"} /\ w.lease = n - 1 => l.id = w.lease
  /\ l.id # 0 /\ l.id = w.lease =>
       /\ w.stayed <=> l.arrived = p.arrived
       /\ w.pc \in {"answer", "done"} => w.reason \in {"change", "timeout"}
  /\ w.pc = "read" /\ w.stayed => w.place = p.place
  /\ w.still = "moved" \/ w.reason = "moved" => ~w.stayed
  /\ w.still = "replaced" \/ w.reason = "replaced" => w.lease < n - 1

LeaseOK(l, p, n) ==
  /\ n \in Nat \ {0} /\ p.arrived \in Nat
  /\ DOMAIN l = {"id", "place", "arrived", "left"}
  /\ l.id \in {0, n - 1} /\ l.left \in Nat
  /\ l.id = 0 => l.left = 0
  /\ l.id # 0 => l.arrived \in Nat /\ l.arrived <= p.arrived

LeaseInv ==
  /\ LeaseOK(lease, presence, nextLease)
  /\ DOMAIN wait = Twins
  /\ \A c \in Twins : WaitOK(wait[c], lease, presence, nextLease)
  /\ \A c, e \in Twins : wait[c].lease = wait[e].lease /\ wait[c].lease # 0 => c = e
  /\ lease.id # 0 => \E c \in Twins : wait[c].lease = lease.id

LEMMA LeaseStarts ==
  ASSUME Leases!Init
  PROVE  LeaseInv
<1>1. lease = [id |-> 0, place |-> None, arrived |-> 0, left |-> 0] /\ nextLease = 1
  BY DEF Leases!Init, Leases!NoLease
<1>2. presence.arrived = 1
  BY DEF Leases!Init
<1>3. LeaseOK(lease, presence, nextLease)
  BY <1>1, <1>2 DEF LeaseOK
<1>4. wait = [c \in Twins |-> Leases!NoWait]
  BY DEF Leases!Init
<1>5. WaitOK(Leases!NoWait, lease, presence, nextLease) /\ Leases!NoWait.lease = 0
  BY <1>1, <1>2 DEF WaitOK, Leases!NoWait, Fields
<1> QED BY <1>1, <1>3, <1>4, <1>5 DEF LeaseInv

\* A step of one wait that leaves the lease.
LEMMA LeaseStays ==
  ASSUME LeaseInv, NEW c \in Twins, UNCHANGED <<lease, presence, nextLease>>,
         DOMAIN wait' = Twins, \A e \in Twins : e # c => wait'[e] = wait[e],
         WaitOK(wait'[c], lease, presence, nextLease), wait'[c].lease = wait[c].lease
  PROVE  LeaseInv'
  BY DEF LeaseInv

LEMMA LeaseWaitHere ==
  ASSUME LeaseInv, NEW c \in Twins, Leases!WaitHere(c)
  PROVE  LeaseInv'
<1>1. WaitOK(wait[c], lease, presence, nextLease) /\ wait[c].pc = "idle" /\ DOMAIN wait[c] = Fields
  BY DEF LeaseInv, Leases!WaitHere, WaitOK
<1>2. PICK f : wait' = [wait EXCEPT ![c].pc = "open", ![c].start = f,
                              ![c].line = f.line, ![c].ping = f.ping]
  BY Zenon DEF Leases!WaitHere
<1>3. /\ DOMAIN wait' = Twins /\ \A e \in Twins : e # c => wait'[e] = wait[e]
      /\ wait'[c] = [wait[c] EXCEPT !.pc = "open", !.start = f, !.line = f.line, !.ping = f.ping]
  BY <1>2 DEF LeaseInv
<1>4. WaitOK(wait'[c], lease, presence, nextLease) /\ wait'[c].lease = wait[c].lease
  BY <1>1, <1>3 DEF WaitOK, Fields
<1> QED BY <1>3, <1>4, LeaseStays DEF Leases!WaitHere

LEMMA LeaseOpens ==
  ASSUME LeaseInv, NEW c \in Twins, Leases!openWait(c)
  PROVE  LeaseInv'
<1>1. WaitOK(wait[c], lease, presence, nextLease) /\ wait[c].pc = "open" /\ DOMAIN wait[c] = Fields
  BY DEF LeaseInv, Leases!openWait, WaitOK
<1>2. CASE lease' = lease /\ nextLease' = nextLease
           /\ wait' = [wait EXCEPT ![c].pc = "done", ![c].reason = "refused"]
  <2>1. /\ DOMAIN wait' = Twins /\ \A e \in Twins : e # c => wait'[e] = wait[e]
        /\ wait'[c] = [wait[c] EXCEPT !.pc = "done", !.reason = "refused"]
    BY <1>2 DEF LeaseInv
  <2>2. WaitOK(wait'[c], lease, presence, nextLease) /\ wait'[c].lease = wait[c].lease
    BY <1>1, <2>1 DEF WaitOK, Fields
  <2> QED BY <1>2, <2>1, <2>2, LeaseStays DEF Leases!openWait
<1>3. CASE /\ lease' = [id |-> nextLease, place |-> presence.place,
                        arrived |-> presence.arrived, left |-> HoldTicks]
           /\ nextLease' = nextLease + 1
           /\ wait' = [wait EXCEPT ![c].pc = "read", ![c].lease = nextLease,
                         ![c].place = presence.place, ![c].left = HoldTicks,
                         ![c].todo = {"lines", "pings", "lease"}]
  <2>1. /\ DOMAIN wait' = Twins /\ \A e \in Twins : e # c => wait'[e] = wait[e]
        /\ wait'[c] = [wait[c] EXCEPT !.pc = "read", !.lease = nextLease,
                         !.place = presence.place, !.left = HoldTicks,
                         !.todo = {"lines", "pings", "lease"}]
    BY <1>3 DEF LeaseInv
  <2>2. LeaseOK(lease, presence, nextLease) /\ presence' = presence
    BY DEF LeaseInv, Leases!openWait
  <2>3. LeaseOK(lease', presence', nextLease')
    BY <1>3, <2>2, WaitAssumption DEF LeaseOK
  <2>4. WaitOK(wait'[c], lease', presence', nextLease') /\ wait'[c].lease = nextLease
    BY <1>1, <1>3, <2>1, <2>2 DEF WaitOK, LeaseOK, Fields
  <2>5. ASSUME NEW e \in Twins, e # c
        PROVE  WaitOK(wait[e], lease', presence', nextLease')
    <3>1. WaitOK(wait[e], lease, presence, nextLease)
      BY DEF LeaseInv
    <3> QED BY <3>1, <1>3, <2>2 DEF WaitOK, LeaseOK
  <2>6. \A e \in Twins : wait[e].lease # nextLease
    BY <2>2 DEF LeaseInv, LeaseOK, WaitOK
  <2>7. lease'.id = nextLease
    BY <1>3
  <2>8. \A e \in Twins : WaitOK(wait'[e], lease', presence', nextLease')
    BY <2>1, <2>4, <2>5
  <2>9. \A e, g \in Twins : wait'[e].lease = wait'[g].lease /\ wait'[e].lease # 0 => e = g
    <3>1. \A e \in Twins : wait'[e].lease = IF e = c THEN nextLease ELSE wait[e].lease
      BY <2>1, <2>4
    <3>2. \A e, g \in Twins : wait[e].lease = wait[g].lease /\ wait[e].lease # 0 => e = g
      BY DEF LeaseInv
    <3> QED BY <2>6, <3>1, <3>2
  <2>10. wait'[c].lease = lease'.id
    BY <2>4, <2>7
  <2> QED BY <2>1, <2>3, <2>8, <2>9, <2>10 DEF LeaseInv
<1> QED BY <1>2, <1>3 DEF Leases!openWait

\* A read of the lease that says it is replaced, or its resident gone, says so truly.
LEMMA LeaseReads ==
  ASSUME LeaseInv, NEW c \in Twins,
         Leases!ReadLines(c) \/ Leases!ReadPings(c) \/ Leases!ReadLease(c)
  PROVE  LeaseInv'
<1>1. /\ WaitOK(wait[c], lease, presence, nextLease) /\ wait[c].pc = "read"
      /\ DOMAIN wait[c] = Fields /\ UNCHANGED <<lease, presence, nextLease>>
      /\ LeaseOK(lease, presence, nextLease)
  BY DEF LeaseInv, Leases!ReadLines, Leases!ReadPings, Leases!ReadLease, WaitOK
<1>2. CASE Leases!ReadLines(c)
  <2>1. PICK t, s, n : wait' = [wait EXCEPT ![c].todo = t, ![c].lines = s, ![c].nextLine = n]
    BY Zenon, <1>2 DEF Leases!ReadLines
  <2>2. /\ DOMAIN wait' = Twins /\ \A e \in Twins : e # c => wait'[e] = wait[e]
        /\ wait'[c] = [wait[c] EXCEPT !.todo = t, !.lines = s, !.nextLine = n]
    BY <2>1 DEF LeaseInv
  <2>3. WaitOK(wait'[c], lease, presence, nextLease) /\ wait'[c].lease = wait[c].lease
    BY <1>1, <2>2 DEF WaitOK, Fields
  <2> QED BY <1>1, <2>2, <2>3, LeaseStays
<1>3. CASE Leases!ReadPings(c)
  <2>1. PICK t, s, n : wait' = [wait EXCEPT ![c].todo = t, ![c].pings = s, ![c].nextPing = n]
    BY Zenon, <1>3 DEF Leases!ReadPings
  <2>2. /\ DOMAIN wait' = Twins /\ \A e \in Twins : e # c => wait'[e] = wait[e]
        /\ wait'[c] = [wait[c] EXCEPT !.todo = t, !.pings = s, !.nextPing = n]
    BY <2>1 DEF LeaseInv
  <2>3. WaitOK(wait'[c], lease, presence, nextLease) /\ wait'[c].lease = wait[c].lease
    BY <1>1, <2>2 DEF WaitOK, Fields
  <2> QED BY <1>1, <2>2, <2>3, LeaseStays
<1>4. CASE Leases!ReadLease(c)
  <2>1. PICK t : wait' = [wait EXCEPT ![c].todo = t, ![c].still = Leases!Still(c)]
    BY <1>4 DEF Leases!ReadLease
  <2>2. /\ DOMAIN wait' = Twins /\ \A e \in Twins : e # c => wait'[e] = wait[e]
        /\ wait'[c] = [wait[c] EXCEPT !.todo = t, !.still = Leases!Still(c)]
    BY <2>1 DEF LeaseInv
  <2>3. /\ Leases!Still(c) = "moved" => ~wait[c].stayed
        /\ Leases!Still(c) = "replaced" => wait[c].lease < nextLease - 1
    BY <1>1 DEF Leases!Still, WaitOK, LeaseOK
  <2>4. WaitOK(wait'[c], lease, presence, nextLease) /\ wait'[c].lease = wait[c].lease
    BY <1>1, <2>2, <2>3 DEF WaitOK, Fields
  <2> QED BY <1>1, <2>2, <2>4, LeaseStays
<1> QED BY <1>2, <1>3, <1>4

\* A turn ends for the reason that was read.
LEMMA LeaseTurns ==
  ASSUME LeaseInv, NEW c \in Twins, Leases!holdWait(c)
  PROVE  LeaseInv'
<1>1. /\ WaitOK(wait[c], lease, presence, nextLease) /\ wait[c].pc = "read"
      /\ DOMAIN wait[c] = Fields /\ UNCHANGED <<lease, presence, nextLease>>
  BY DEF LeaseInv, Leases!holdWait, WaitOK
<1> DEFINE r == Leases!Reason(c)
           w == IF r = "none"
                THEN [wait[c] EXCEPT !.line = wait[c].nextLine, !.ping = wait[c].nextPing,
                        !.nextLine = 0, !.nextPing = 0, !.todo = {"lines", "pings", "lease"}]
                ELSE [wait[c] EXCEPT !.pc = "release", !.reason = r]
<1>2. wait' = [wait EXCEPT ![c] = w]
  BY DEF Leases!holdWait
<1>3. r = wait[c].still \/ r \notin {"moved", "replaced"}
  BY DEF Leases!Reason
<1> HIDE DEF r
<1>4. WaitOK(w, lease, presence, nextLease) /\ w.lease = wait[c].lease
  BY <1>1, <1>3 DEF WaitOK, Fields
<1> HIDE DEF w
<1>5. DOMAIN wait' = Twins /\ wait'[c] = w /\ \A e \in Twins : e # c => wait'[e] = wait[e]
  BY <1>2 DEF LeaseInv
<1> QED BY <1>1, <1>4, <1>5, LeaseStays

\* What is left of a request that is over.
LEMMA LeaseEnded ==
  ASSUME LeaseInv, NEW c \in Twins, NEW pc \in {"done", "dead"}
  PROVE  /\ DOMAIN Leases!Ended(c, pc) = Fields /\ Leases!Ended(c, pc).pc = pc
         /\ Leases!Ended(c, pc).lease = wait[c].lease /\ Leases!Ended(c, pc).still = "here"
         /\ Leases!Ended(c, pc).stayed = wait[c].stayed
         /\ Leases!Ended(c, pc).reason = wait[c].reason
  BY DEF Leases!Ended, Leases!NoWait, Fields

\* A wait that is over gives up the lease only while it is its own.
LEMMA LeaseReleases ==
  ASSUME LeaseInv, NEW c \in Twins, Leases!releaseWait(c)
  PROVE  LeaseInv'
<1>1. /\ WaitOK(wait[c], lease, presence, nextLease) /\ wait[c].pc = "release"
      /\ DOMAIN wait[c] = Fields /\ UNCHANGED <<presence, nextLease>>
      /\ LeaseOK(lease, presence, nextLease)
  BY DEF LeaseInv, Leases!releaseWait, WaitOK
<1> DEFINE w == IF wait[c].reason = "failed" THEN Leases!Ended(c, "done")
                ELSE [wait[c] EXCEPT !.pc = "answer"]
<1>2. wait' = [wait EXCEPT ![c] = w]
  BY DEF Leases!releaseWait
<1>3. /\ DOMAIN w = Fields /\ w.pc \in {"done", "answer"} /\ w.lease = wait[c].lease
      /\ w.stayed = wait[c].stayed /\ w.reason = wait[c].reason
      /\ w.still \in {"here", wait[c].still}
  BY <1>1, LeaseEnded DEF Fields
<1> HIDE DEF w
<1>4. /\ DOMAIN wait' = Twins /\ wait'[c] = w /\ \A e \in Twins : e # c => wait'[e] = wait[e]
      /\ \A e \in Twins : wait'[e].lease = wait[e].lease
  BY <1>2, <1>3 DEF LeaseInv
<1>5. CASE lease.id # wait[c].lease
  <2>1. lease' = lease
    BY <1>5 DEF Leases!releaseWait, Leases!OwnsLease
  <2>2. WaitOK(w, lease, presence, nextLease)
    BY <1>1, <1>3, <1>5 DEF WaitOK
  <2> QED BY <1>1, <1>3, <1>4, <2>1, <2>2, LeaseStays
<1>6. CASE lease.id = wait[c].lease
  <2>1. lease.id # 0
    BY <1>1, <1>6 DEF WaitOK
  <2>2. \/ wait[c].reason \in {"change", "timeout"} /\ lease' = [lease EXCEPT !.left = CueTicks]
        \/ wait[c].reason \notin {"change", "timeout"} /\ lease' = Leases!NoLease
    BY <1>6 DEF Leases!releaseWait, Leases!OwnsLease, Leases!Lingers
  <2>3. /\ LeaseOK(lease', presence, nextLease)
        /\ lease'.id = 0 \/ (/\ lease'.id = lease.id /\ lease'.arrived = lease.arrived
                             /\ wait[c].reason \in {"change", "timeout"})
    <3>1. CASE lease' = [lease EXCEPT !.left = CueTicks] /\ wait[c].reason \in {"change", "timeout"}
      BY <1>1, <2>1, <3>1, WaitAssumption DEF LeaseOK
    <3>2. CASE lease' = Leases!NoLease
      <4>1. lease' = [id |-> 0, place |-> None, arrived |-> 0, left |-> 0]
        BY <3>2 DEF Leases!NoLease
      <4> QED BY <1>1, <4>1 DEF LeaseOK
    <3> QED BY <2>2, <3>1, <3>2
  <2>4. WaitOK(w, lease', presence, nextLease)
    BY <1>1, <1>3, <2>3 DEF WaitOK
  <2>5. ASSUME NEW e \in Twins, e # c
        PROVE  WaitOK(wait[e], lease', presence, nextLease)
    <3>1. WaitOK(wait[e], lease, presence, nextLease) /\ wait[e].lease # wait[c].lease
      BY <2>1, <1>6, <2>5 DEF LeaseInv
    <3> QED BY <3>1, <1>1, <1>6, <2>1, <2>3 DEF WaitOK, LeaseOK
  <2>6. lease'.id # 0 => \E e \in Twins : wait'[e].lease = lease'.id
    BY <1>4, <1>6, <2>3
  <2> QED BY <1>1, <1>4, <2>3, <2>4, <2>5, <2>6 DEF LeaseInv
<1> QED BY <1>5, <1>6

LEMMA LeaseEnds ==
  ASSUME LeaseInv, NEW c \in Twins, Leases!Answer(c) \/ Leases!Dies(c)
  PROVE  LeaseInv'
<1>1. /\ WaitOK(wait[c], lease, presence, nextLease) /\ UNCHANGED <<lease, presence, nextLease>>
  BY DEF LeaseInv, Leases!Answer, Leases!Dies
<1>2. PICK pc \in {"done", "dead"} : /\ wait' = [wait EXCEPT ![c] = Leases!Ended(c, pc)]
                                     /\ pc = "done" => wait[c].pc = "answer"
  BY DEF Leases!Answer, Leases!Dies
<1>3. /\ DOMAIN wait' = Twins /\ wait'[c] = Leases!Ended(c, pc)
      /\ \A e \in Twins : e # c => wait'[e] = wait[e]
  BY <1>2 DEF LeaseInv
<1>4. WaitOK(Leases!Ended(c, pc), lease, presence, nextLease)
  BY <1>1, <1>2, LeaseEnded DEF WaitOK
<1> QED BY <1>1, <1>3, <1>4, LeaseEnded, LeaseStays

LEMMA LeaseFails ==
  ASSUME LeaseInv, NEW c \in Twins, Leases!ReadFails(c) \/ Leases!ConnectionCloses(c)
  PROVE  LeaseInv'
<1>1. /\ WaitOK(wait[c], lease, presence, nextLease) /\ UNCHANGED <<lease, presence, nextLease>>
      /\ DOMAIN wait[c] = Fields
  BY DEF LeaseInv, WaitOK, Leases!ReadFails, Leases!ConnectionCloses
<1>2. CASE Leases!ReadFails(c)
  <2>1. /\ DOMAIN wait' = Twins /\ \A e \in Twins : e # c => wait'[e] = wait[e]
        /\ wait'[c] = [wait[c] EXCEPT !.pc = "release", !.reason = "failed"] /\ wait[c].pc = "read"
    BY <1>2 DEF LeaseInv, Leases!ReadFails
  <2>2. WaitOK(wait'[c], lease, presence, nextLease) /\ wait'[c].lease = wait[c].lease
    BY <1>1, <2>1 DEF WaitOK, Fields
  <2> QED BY <1>1, <2>1, <2>2, LeaseStays
<1>3. CASE Leases!ConnectionCloses(c)
  <2>1. /\ DOMAIN wait' = Twins /\ \A e \in Twins : e # c => wait'[e] = wait[e]
        /\ wait'[c] = [wait[c] EXCEPT !.shut = TRUE]
    BY <1>3 DEF LeaseInv, Leases!ConnectionCloses
  <2>2. WaitOK(wait'[c], lease, presence, nextLease) /\ wait'[c].lease = wait[c].lease
    BY <1>1, <2>1 DEF WaitOK, Fields
  <2> QED BY <1>1, <2>1, <2>2, LeaseStays
<1> QED BY <1>2, <1>3

LEMMA LeaseMoves ==
  ASSUME LeaseInv, NEW p \in Rooms, Leases!Move(p)
  PROVE  LeaseInv'
<1>1. /\ presence' = [place |-> p, arrived |-> presence.arrived + 1]
      /\ wait' = [c \in Twins |-> IF wait[c].lease # 0 THEN [wait[c] EXCEPT !.stayed = FALSE]
                                  ELSE wait[c]]
      /\ UNCHANGED <<lease, nextLease>> /\ LeaseOK(lease, presence, nextLease)
  BY DEF Leases!Move, LeaseInv
<1>2. LeaseOK(lease, presence', nextLease)
  BY <1>1 DEF LeaseOK
<1>3. ASSUME NEW c \in Twins
      PROVE  WaitOK(wait'[c], lease, presence', nextLease) /\ wait'[c].lease = wait[c].lease
  <2>1. WaitOK(wait[c], lease, presence, nextLease) /\ DOMAIN wait[c] = Fields
    BY DEF LeaseInv, WaitOK
  <2>2. CASE wait[c].lease # 0
    <3>1. wait'[c] = [wait[c] EXCEPT !.stayed = FALSE]
      BY <2>2, <1>1
    <3>2. lease.id # 0 => lease.arrived # presence'.arrived
      BY <1>1 DEF LeaseOK
    <3> QED BY <2>1, <2>2, <3>1, <3>2 DEF WaitOK, Fields
  <2>3. CASE wait[c].lease = 0
    <3>1. wait'[c] = wait[c]
      BY <2>3, <1>1
    <3> QED BY <2>1, <2>3, <3>1 DEF WaitOK
  <2> QED BY <2>2, <2>3
<1>4. DOMAIN wait' = Twins
  BY <1>1
<1> QED BY <1>1, <1>2, <1>3, <1>4 DEF LeaseInv

LEMMA LeaseTicks ==
  ASSUME LeaseInv, Leases!Tick
  PROVE  LeaseInv'
<1>1. /\ lease' = [lease EXCEPT !.left = Leases!Less(lease.left)]
      /\ wait' = [c \in Twins |-> [wait[c] EXCEPT !.left = Leases!Less(wait[c].left)]]
      /\ UNCHANGED <<presence, nextLease>> /\ LeaseOK(lease, presence, nextLease)
  BY DEF Leases!Tick, LeaseInv
<1>2. /\ LeaseOK(lease', presence, nextLease) /\ lease'.id = lease.id
      /\ lease'.arrived = lease.arrived
  BY <1>1 DEF LeaseOK, Leases!Less
<1>3. ASSUME NEW c \in Twins
      PROVE  WaitOK(wait'[c], lease', presence, nextLease) /\ wait'[c].lease = wait[c].lease
  <2>1. WaitOK(wait[c], lease, presence, nextLease) /\ DOMAIN wait[c] = Fields
    BY DEF LeaseInv, WaitOK
  <2>2. PICK n : wait'[c] = [wait[c] EXCEPT !.left = n]
    BY <1>1
  <2> QED BY <1>2, <2>1, <2>2 DEF WaitOK, Fields
<1>4. DOMAIN wait' = Twins
  BY <1>1
<1> QED BY <1>1, <1>2, <1>3, <1>4 DEF LeaseInv

LEMMA LeaseSteps ==
  ASSUME LeaseInv, Leases!Next
  PROVE  LeaseInv'
<1>1. CASE UNCHANGED <<presence, lease, nextLease, wait>>
  BY <1>1 DEF LeaseInv
<1>2. ASSUME NEW c \in Twins, Leases!Step(c)
      PROVE  LeaseInv'
  BY <1>2, LeaseOpens, LeaseReads, LeaseTurns, LeaseReleases, LeaseEnds DEF Leases!Step
<1>3. ASSUME NEW c \in Twins,
             Leases!WaitHere(c) \/ Leases!ReadFails(c) \/ Leases!ConnectionCloses(c) \/ Leases!Dies(c)
      PROVE  LeaseInv'
  BY <1>3, LeaseWaitHere, LeaseFails, LeaseEnds
<1>4. CASE \/ \E w \in Alone : Leases!WriterCommits(w) \/ Leases!WriterAborts(w)
           \/ \E w \in Alone, e \in Leases!Entries : Leases!record_public_change(w, e)
  BY <1>1, <1>4 DEF Leases!WriterCommits, Leases!WriterAborts, Leases!record_public_change
<1> QED BY <1>2, <1>3, <1>4, LeaseMoves, LeaseTicks DEF Leases!Next

LEMMA LeaseMeans ==
  ASSUME LeaseInv
  PROVE  Leases!NewestKeepsLease /\ Leases!CueIsTrue
<1>1. Leases!NewestKeepsLease
  BY DEF LeaseInv, WaitOK, Leases!NewestKeepsLease
<1>2. ASSUME Leases!readListening(lease)
      PROVE  LET c == Leases!OwnerOf(lease)
             IN wait[c].stayed /\ (wait[c].pc \in {"answer", "done"} =>
                                     wait[c].reason \in {"change", "timeout"})
  <2> DEFINE c == Leases!OwnerOf(lease)
  <2>1. lease.arrived = presence.arrived /\ lease.id # 0
    BY <1>2 DEF LeaseInv, LeaseOK, Leases!readListening
  <2>2. c \in Twins /\ wait[c].lease = lease.id
    BY <2>1 DEF LeaseInv, Leases!OwnerOf
  <2> HIDE DEF c
  <2>3. WaitOK(wait[c], lease, presence, nextLease)
    BY <2>2 DEF LeaseInv
  <2>4. wait[c].stayed /\ (wait[c].pc \in {"answer", "done"} => wait[c].reason \in {"change", "timeout"})
    BY <2>1, <2>2, <2>3 DEF WaitOK
  <2> QED BY <2>4 DEF c
<1> QED BY <1>1, <1>2 DEF Leases!CueIsTrue

LeasesInv == part = "leases" => LeaseInv

\* The newest wait of a resident keeps the lease while it is held, and who is shown to
\* listen has not left, for any number of waits, walks and ticks.
THEOREM LeaseHolds == RoomsSpec => []LeaseIsTrue
<1>1. RoomsInit => LeasesInv
  BY LeaseStarts DEF RoomsInit, TalkInit, WorkInit, LeasesInv
<1>2. LeasesInv /\ [RoomsNext]_roomVars => LeasesInv'
  <2> SUFFICES ASSUME LeasesInv, [RoomsNext]_roomVars, part' = "leases"
               PROVE  LeaseInv'
    BY DEF LeasesInv
  <2>1. part = "leases" /\ LeaseInv
    BY DEF RoomsNext, roomVars, LeasesInv
  <2>2. CASE Leases!Next
    BY <2>1, <2>2, LeaseSteps
  <2>3. CASE UNCHANGED <<presence, lease, nextLease, wait>>
    BY <2>1, <2>3 DEF LeaseInv
  <2> QED BY <2>1, <2>2, <2>3 DEF RoomsNext, TalkNext, WorkNext, roomVars, waitVars, pingVars
<1>3. LeasesInv => LeaseIsTrue
  BY LeaseMeans DEF LeasesInv, LeaseIsTrue
<1> QED BY <1>1, <1>2, <1>3, PTL DEF RoomsSpec

-----------------------------------------------------------------------------
(* RoomWaits: pages, cursors and changes                                   *)

LEMMA ReadingCounts == \A S : Reading!Cardinality(S) = Cardinality(S)
  BY DEF Reading!Cardinality, Cardinality

LEMMA LeastNat ==
  ASSUME NEW T, T \subseteq Nat, T # {}
  PROVE  \E x \in T : \A y \in T : x <= y
<1>1. PICK x \in T : \A y \in T : ~(<<y, x>> \in OpToRel(<, Nat))
  BY NatLessThanWellFounded, WFMin, Zenon
<1>2. \A y \in T : ~(y < x)
  BY <1>1 DEF OpToRel
<1> QED BY <1>2

\* A set of changes up to the last one has a first and a last.
LEMMA LastExists ==
  ASSUME NEW n \in Nat, NEW S \in SUBSET (1 .. n), S # {}
  PROVE  Reading!Max2(S) \in S /\ \A j \in S : j <= Reading!Max2(S)
<1> DEFINE D == {n - i : i \in S}
<1>0. D \subseteq Nat /\ D # {}
  <2>1. \A i \in S : n - i \in Nat
    OBVIOUS
  <2> QED BY <2>1
<1>1. PICK d \in D : \A e \in D : d <= e
  <2> HIDE DEF D
  <2> QED BY <1>0, LeastNat
<1>2. PICK i \in S : d = n - i
  BY <1>1
<1>3. \A j \in S : i >= j
  <2> SUFFICES ASSUME NEW j \in S PROVE i >= j
    OBVIOUS
  <2>1. d <= n - j /\ i \in Nat /\ j \in Nat
    BY <1>1
  <2> QED BY <1>2, <2>1
<1>4. Reading!Max2(S) \in S /\ \A j \in S : Reading!Max2(S) >= j
  BY <1>2, <1>3 DEF Reading!Max2
<1> QED BY <1>4

Between(S, a, b) == {i \in S : i > a /\ i <= b}

\* A is what there is after the cursor a, P the page of it and b the next cursor.
IsPage(n, S, a, max, A, P, b) ==
  /\ A = Between(S, a, n)
  /\ P = {i \in A : Cardinality({j \in A : j < i}) < max}
  /\ b = IF Cardinality(A) > max THEN Reading!Max2(P) ELSE n

\* A page holds all there is between its cursor and the next one.
LEMMA PageIsWhole ==
  ASSUME NEW n \in Nat, NEW S \in SUBSET Nat, NEW a \in 0 .. n, NEW max \in Nat \ {0},
         NEW A, NEW P, NEW b, IsPage(n, S, a, max, A, P, b)
  PROVE  b \in a .. n /\ P = Between(S, a, b)
<1>1. A = {i \in S : i > a /\ i <= n}
  BY DEF IsPage, Between
<1>2. A \in SUBSET (1 .. n)
  <2>1. ASSUME NEW i \in S, i > a, i <= n PROVE i \in 1 .. n
    <3>1. i \in Nat /\ a \in Nat
      OBVIOUS
    <3> QED BY <2>1, <3>1
  <2> QED BY <1>1, <2>1
<1>3. P \in SUBSET A /\ \A i \in A : i \in P <=> Cardinality({j \in A : j < i}) < max
  BY DEF IsPage
<1>4. IsFiniteSet(A) /\ Cardinality(A) \in Nat
  BY <1>2, LinesCount
<1>5. \A i, k \in A : i <= k => Cardinality({j \in A : j < i}) <= Cardinality({j \in A : j < k})
  <2> SUFFICES ASSUME NEW i \in A, NEW k \in A, i <= k
               PROVE  Cardinality({j \in A : j < i}) <= Cardinality({j \in A : j < k})
    OBVIOUS
  <2>1. {j \in A : j < i} \subseteq {j \in A : j < k}
    <3>1. \A j \in A : j < i => j < k
      BY <1>2
    <3> QED BY <3>1
  <2>2. IsFiniteSet({j \in A : j < k})
    BY <1>4, FS_Subset
  <2> QED BY <2>1, <2>2, FS_Subset
<1>6. \A i \in A : Cardinality({j \in A : j < i}) \in Nat
  BY <1>2, LinesCount
<1>7. b \in a .. n /\ \A i \in A : i \in P <=> i <= b
  <2>1. CASE Cardinality(A) > max
    <3>1. PICK k \in A : \A j \in A : k <= j
      <4>1. A # {}
        <5>1. Cardinality(A) # 0
          BY <2>1, <1>4
        <5> QED BY <5>1, FS_EmptySet
      <4>2. A \subseteq Nat
        BY <1>2
      <4> QED BY <4>1, <4>2, LeastNat
    <3>2. {j \in A : j < k} = {}
      <4>1. \A j \in A : ~(j < k)
        BY <1>2, <3>1
      <4> QED BY <4>1
    <3>3. Cardinality({j \in A : j < k}) = 0
      BY <3>2, FS_EmptySet
    <3>4. k \in P /\ P \in SUBSET (1 .. n)
      <4>1. Cardinality({j \in A : j < k}) < max
        BY <3>3
      <4> QED BY <4>1, <1>2, <1>3
    <3>5. b = Reading!Max2(P)
      BY <2>1 DEF IsPage
    <3>6. b \in P /\ \A j \in P : j <= b
      BY <3>4, <3>5, LastExists
    <3>7. b \in A /\ Cardinality({j \in A : j < b}) < max
      BY <1>3, <3>6
    <3>8. ASSUME NEW i \in A, i <= b PROVE i \in P
      <4>1. Cardinality({j \in A : j < i}) <= Cardinality({j \in A : j < b})
        BY <3>7, <3>8, <1>5
      <4>2. Cardinality({j \in A : j < i}) \in Nat /\ Cardinality({j \in A : j < b}) \in Nat
        BY <3>7, <1>6
      <4>3. Cardinality({j \in A : j < i}) < max
        BY <4>1, <4>2, <3>7
      <4> QED BY <4>3, <1>3
    <3>9. b \in 1 .. n /\ b > a
      BY <1>1, <1>2, <3>7
    <3> QED BY <1>2, <3>6, <3>8, <3>9
  <2>2. CASE ~(Cardinality(A) > max)
    <3>1. b = n
      BY <2>2 DEF IsPage
    <3>2. ASSUME NEW i \in A PROVE i \in P
      <4> DEFINE B == {j \in A : j < i}
      <4>1. B \subseteq A /\ B # A /\ Cardinality(B) \in Nat
        BY <1>2, <1>6
      <4> HIDE DEF B
      <4>2. Cardinality(B) <= Cardinality(A) /\ (Cardinality(B) = Cardinality(A) => B = A)
        BY <4>1, <1>4, FS_Subset
      <4>3. Cardinality(B) < max
        BY <4>1, <4>2, <1>4, <2>2
      <4> QED BY <4>3, <1>3 DEF B
    <3> QED BY <1>2, <3>1, <3>2
  <2> QED BY <2>1, <2>2
<1>8. P = {i \in A : i <= b}
  BY <1>3, <1>7
<1>9. \A i \in S : i \in A /\ i <= b <=> i > a /\ i <= b
  BY <1>1, <1>7
<1> QED BY <1>1, <1>7, <1>8, <1>9 DEF Between

\* The lines that are not muted, and the pings, of the log g.
LinesOf(g, p) == {i \in 1 .. ChangeLimit : g[i].kind = "line" /\ g[i].place = p}
PingsOf(g) == {i \in 1 .. ChangeLimit : g[i].kind = "ping"}

LEMMA ReadingSets ==
  /\ \A p : Reading!LinesAt(p) \ Reading!Muted(Reading!Ids) = LinesOf(log, p)
  /\ \A p : Reading!LinesAt(p) \ Reading!Muted(Reading!LinesAt(p)) = LinesOf(log, p)
  /\ Reading!PingsToMe = PingsOf(log)
  BY DEF Reading!LinesAt, Reading!Muted, Reading!Ids, Reading!PingsToMe, LinesOf, PingsOf

\* What a read finds from the cursor a on, and where the next one begins.
LEMMA LinesRead ==
  ASSUME change \in Nat, NEW a \in 0 .. change, NEW p
  PROVE  LET S == Reading!LinesAt(p)
             b == Reading!NextCursor(a, S, LinePage)
         IN  /\ b \in a .. change
             /\ Reading!Page(a, S, LinePage) \ Reading!Muted(S) = Between(LinesOf(log, p), a, b)
<1> DEFINE S == Reading!LinesAt(p)
           b == Reading!NextCursor(a, S, LinePage)
           A == Between(S, a, change)
           P == Reading!Page(a, S, LinePage)
<1>1. S \in SUBSET Nat /\ LinePage \in Nat \ {0}
  BY WaitAssumption DEF Reading!LinesAt, Reading!Ids
<1>2. S \ Reading!Muted(S) = LinesOf(log, p) /\ Reading!Muted(S) \subseteq S
  BY ReadingSets DEF Reading!Muted
<1>3. P = {i \in A : Cardinality({j \in A : j < i}) < LinePage}
  BY ReadingCounts DEF Reading!Page, Reading!After, Between
<1>4. b = IF Cardinality(A) > LinePage THEN Reading!Max2(P) ELSE change
  BY ReadingCounts DEF Reading!NextCursor, Reading!After, Between
<1> HIDE DEF S, b, P
<1>5. b \in a .. change /\ P = Between(S, a, b)
  <2>1. IsPage(change, S, a, LinePage, A, P, b)
    BY <1>3, <1>4 DEF IsPage
  <2> HIDE DEF A
  <2> QED BY <1>1, <2>1, PageIsWhole
<1>6. P \ Reading!Muted(S) = Between(LinesOf(log, p), a, b)
  BY <1>2, <1>5 DEF Between
<1> QED BY <1>5, <1>6 DEF S, b, P

LEMMA PingsRead ==
  ASSUME change \in Nat, NEW a \in 0 .. change
  PROVE  LET b == Reading!NextCursor(a, Reading!PingsToMe, PingPage)
         IN  /\ b \in a .. change
             /\ Reading!Page(a, Reading!PingsToMe, PingPage) = Between(PingsOf(log), a, b)
<1> DEFINE S == Reading!PingsToMe
           b == Reading!NextCursor(a, S, PingPage)
           A == Between(S, a, change)
           P == Reading!Page(a, S, PingPage)
<1>1. S \in SUBSET Nat /\ PingPage \in Nat \ {0} /\ S = PingsOf(log)
  BY WaitAssumption, ReadingSets DEF Reading!PingsToMe, Reading!Ids
<1>2. P = {i \in A : Cardinality({j \in A : j < i}) < PingPage}
  BY ReadingCounts DEF Reading!Page, Reading!After, Between
<1>3. b = IF Cardinality(A) > PingPage THEN Reading!Max2(P) ELSE change
  BY ReadingCounts DEF Reading!NextCursor, Reading!After, Between
<1> HIDE DEF S, b, P
<1>4. b \in a .. change /\ P = Between(S, a, b)
  <2>1. IsPage(change, S, a, PingPage, A, P, b)
    BY <1>2, <1>3 DEF IsPage
  <2> HIDE DEF A
  <2> QED BY <1>1, <2>1, PageIsWhole
<1> QED BY <1>1, <1>4 DEF S, b, P

-----------------------------------------------------------------------------
(* RoomWaits: an answer is complete                                        *)

\* A change id is drawn and kept until the commit, so no change comes late.
LogInv ==
  /\ change \in Nat /\ DOMAIN log = 1 .. ChangeLimit
  /\ \A i \in 1 .. ChangeLimit : i > change => log[i] = Reading!NoEntry
  /\ DOMAIN writing = Twins
  /\ \A w \in Twins : writing[w] = Reading!NoWrite \/ writing[w].id = change + 1
  /\ \A w, v \in Twins : writing[w] # Reading!NoWrite /\ writing[v] # Reading!NoWrite => w = v

\* What a turn found in S between its two cursors, and nothing before the first.
TurnOK(S, first, cursor, next, found, done, n) ==
  /\ first \in Nat /\ cursor \in 0 .. n /\ first <= cursor /\ Between(S, first, cursor) = {}
  /\ done => next \in cursor .. n /\ found = Between(S, cursor, next)

\* What a wait answers.
WholeOK(S, first, next, found, n) ==
  first \in Nat /\ next \in 0 .. n /\ found = Between(S, first, next)

\* A wait w beside the log g up to the change n.
ReadOK(w, g, n) ==
  /\ DOMAIN w = Fields /\ w.still # "none"
  /\ w.pc = "open" => /\ w.line \in 0 .. n /\ w.start.line = w.line
                      /\ w.ping \in 0 .. n /\ w.start.ping = w.ping
  /\ w.pc = "read" =>
       /\ TurnOK(LinesOf(g, w.place), w.start.line, w.line, w.nextLine, w.lines, "lines" \notin w.todo, n)
       /\ TurnOK(PingsOf(g), w.start.ping, w.ping, w.nextPing, w.pings, "pings" \notin w.todo, n)
  /\ w.pc \in {"release", "answer"} /\ w.reason # "failed" =>
       /\ WholeOK(LinesOf(g, w.place), w.start.line, w.nextLine, w.lines, n)
       /\ WholeOK(PingsOf(g), w.start.ping, w.nextPing, w.pings, n)
  /\ w.pc = "answer" => w.reason # "failed"

ReadInv ==
  /\ LogInv
  /\ DOMAIN wait = Alone
  /\ \A c \in Alone : ReadOK(wait[c], log, change)
  /\ client.line \in 0 .. change /\ client.ping \in 0 .. change

LEMMA ReadStarts ==
  ASSUME Reading!Init
  PROVE  ReadInv
<1>1. /\ change = 0 /\ log = [i \in 1 .. ChangeLimit |-> Reading!NoEntry]
      /\ writing = [w \in Twins |-> Reading!NoWrite]
      /\ wait = [c \in Alone |-> Reading!NoWait] /\ client = [line |-> 0, ping |-> 0]
  BY DEF Reading!Init, Reading!Ids
<1>2. LogInv
  BY <1>1 DEF LogInv
<1>3. ReadOK(Reading!NoWait, log, change)
  BY DEF ReadOK, Reading!NoWait, Fields
<1> QED BY <1>1, <1>2, <1>3 DEF ReadInv

-----------------------------------------------------------------------------
(* Writers                                                                 *)

\* A change that comes after the last one alters nothing up to it.
LEMMA BetweenStays ==
  ASSUME NEW n \in Nat, NEW g, NEW h, \A i \in 1 .. ChangeLimit : i <= n => h[i] = g[i]
  PROVE  /\ \A p, a, b : b \in 0 .. n => Between(LinesOf(h, p), a, b) = Between(LinesOf(g, p), a, b)
         /\ \A a, b : b \in 0 .. n => Between(PingsOf(h), a, b) = Between(PingsOf(g), a, b)
<1>1. ASSUME NEW p, NEW a, NEW b \in 0 .. n
      PROVE  /\ Between(LinesOf(h, p), a, b) = Between(LinesOf(g, p), a, b)
             /\ Between(PingsOf(h), a, b) = Between(PingsOf(g), a, b)
  <2>1. \A i \in 1 .. ChangeLimit : i <= b => h[i] = g[i]
    BY WaitAssumption
  <2> QED BY <2>1 DEF Between, LinesOf, PingsOf
<1> QED BY <1>1

LEMMA TurnStays ==
  ASSUME NEW n \in Nat, NEW m \in Nat, n <= m, NEW S, NEW T,
         \A a, b : b \in 0 .. n => Between(T, a, b) = Between(S, a, b),
         NEW first, NEW cursor, NEW next, NEW found, NEW done
  PROVE  /\ TurnOK(S, first, cursor, next, found, done, n) => TurnOK(T, first, cursor, next, found, done, m)
         /\ WholeOK(S, first, next, found, n) => WholeOK(T, first, next, found, m)
<1>1. ASSUME TurnOK(S, first, cursor, next, found, done, n)
      PROVE  TurnOK(T, first, cursor, next, found, done, m)
  <2>1. cursor \in 0 .. n /\ (done => next \in 0 .. n)
    BY <1>1 DEF TurnOK
  <2> QED BY <1>1, <2>1 DEF TurnOK
<1>2. ASSUME WholeOK(S, first, next, found, n)
      PROVE  WholeOK(T, first, next, found, m)
  BY <1>2 DEF WholeOK
<1> QED BY <1>1, <1>2

LEMMA ReadKeeps ==
  ASSUME NEW w, NEW n \in Nat, NEW m \in Nat, n <= m, NEW g, NEW h,
         \A i \in 1 .. ChangeLimit : i <= n => h[i] = g[i], ReadOK(w, g, n)
  PROVE  ReadOK(w, h, m)
<1>1. \A a, b : b \in 0 .. n => Between(LinesOf(h, w.place), a, b) = Between(LinesOf(g, w.place), a, b)
  <2>1. \A p, a, b : b \in 0 .. n => Between(LinesOf(h, p), a, b) = Between(LinesOf(g, p), a, b)
    BY BetweenStays
  <2> QED BY <2>1
<1>2. \A a, b : b \in 0 .. n => Between(PingsOf(h), a, b) = Between(PingsOf(g), a, b)
  BY BetweenStays
<1>3. w.pc = "read" =>
        /\ TurnOK(LinesOf(h, w.place), w.start.line, w.line, w.nextLine, w.lines, "lines" \notin w.todo, m)
        /\ TurnOK(PingsOf(h), w.start.ping, w.ping, w.nextPing, w.pings, "pings" \notin w.todo, m)
  BY <1>1, <1>2, TurnStays DEF ReadOK
<1>4. w.pc \in {"release", "answer"} /\ w.reason # "failed" =>
        /\ WholeOK(LinesOf(h, w.place), w.start.line, w.nextLine, w.lines, m)
        /\ WholeOK(PingsOf(h), w.start.ping, w.nextPing, w.pings, m)
  BY <1>1, <1>2, TurnStays DEF ReadOK
<1> QED BY <1>3, <1>4 DEF ReadOK

LEMMA ReadDraws ==
  ASSUME ReadInv, NEW w \in Twins, NEW e, Reading!record_public_change(w, e)
  PROVE  ReadInv'
<1>1. /\ UNCHANGED <<change, log, wait, client>> /\ writing[w] = Reading!NoWrite
      /\ writing' = [writing EXCEPT ![w] = [id |-> Reading!NextChange(w), entry |-> e]]
      /\ Reading!NextChange(w) \in 1 .. ChangeLimit
  BY DEF Reading!record_public_change, Reading!Ids
<1>2. LogInv
  BY DEF ReadInv
<1>3. Reading!NextChange(w) = change + 1 /\ Reading!Drawn = {0}
  BY <1>1 DEF Reading!NextChange
<1>4. \A v \in Twins : writing[v].id = 0
  BY <1>3 DEF Reading!Drawn
<1>5. \A v \in Twins : writing[v] = Reading!NoWrite
  BY <1>2, <1>4 DEF LogInv
<1>6. writing'[w].id = change + 1 /\ \A v \in Twins : v # w => writing'[v] = Reading!NoWrite
  BY <1>1, <1>2, <1>3, <1>5 DEF LogInv
<1>7. LogInv'
  BY <1>1, <1>2, <1>6 DEF LogInv
<1> QED BY <1>1, <1>7 DEF ReadInv

LEMMA ReadCommits ==
  ASSUME ReadInv, NEW w \in Twins, Reading!WriterCommits(w)
  PROVE  ReadInv'
<1>1. /\ LogInv /\ change \in Nat /\ UNCHANGED <<wait, client>> /\ writing[w] # Reading!NoWrite
      /\ writing[w].id = change + 1 /\ writing' = [writing EXCEPT ![w] = Reading!NoWrite]
  BY DEF Reading!WriterCommits, ReadInv, LogInv
<1>2. log' = [log EXCEPT ![change + 1] = writing[w].entry]
  BY <1>1 DEF Reading!WriterCommits
<1>3. change' = change + 1
  <2>1. change' = Reading!Max2({change, change + 1})
    BY <1>1 DEF Reading!WriterCommits
  <2> DEFINE M == {change, change + 1}
  <2>2. change + 1 \in M /\ \A j \in M : change + 1 >= j
    BY <1>1
  <2>3. \A i \in M : (\A j \in M : i >= j) => i = change + 1
    BY <1>1
  <2> HIDE DEF M
  <2>4. Reading!Max2(M) = change + 1
    BY <2>2, <2>3 DEF Reading!Max2
  <2> QED BY <2>1, <2>4 DEF M
<1>4. DOMAIN log' = 1 .. ChangeLimit /\ \A i \in 1 .. ChangeLimit : i # change + 1 => log'[i] = log[i]
  BY <1>1, <1>2 DEF LogInv
<1>5. \A v \in Twins : writing'[v] = Reading!NoWrite
  BY <1>1 DEF LogInv
<1>6. LogInv'
  <2>1. \A i \in 1 .. ChangeLimit : i > change' => log'[i] = Reading!NoEntry
    BY <1>1, <1>3, <1>4 DEF LogInv
  <2>2. DOMAIN writing' = Twins
    BY <1>1 DEF LogInv
  <2> QED BY <1>1, <1>3, <1>4, <1>5, <2>1, <2>2 DEF LogInv
<1>7. \A c \in Alone : ReadOK(wait[c], log', change')
  <2>1. \A i \in 1 .. ChangeLimit : i <= change => log'[i] = log[i]
    BY <1>1, <1>4
  <2>2. change' \in Nat /\ change <= change'
    BY <1>1, <1>3
  <2>3. \A c \in Alone : ReadOK(wait[c], log, change)
    BY DEF ReadInv
  <2> QED BY <1>1, <2>1, <2>2, <2>3, ReadKeeps
<1>8. client'.line \in 0 .. change' /\ client'.ping \in 0 .. change'
  BY <1>1, <1>3 DEF ReadInv
<1> QED BY <1>1, <1>6, <1>7, <1>8 DEF ReadInv

LEMMA ReadAborts ==
  ASSUME ReadInv, NEW w \in Twins, Reading!WriterAborts(w)
  PROVE  ReadInv'
<1>1. /\ LogInv /\ UNCHANGED <<change, log, wait, client>>
      /\ writing' = [writing EXCEPT ![w] = Reading!NoWrite]
  BY DEF Reading!WriterAborts, ReadInv
<1>2. LogInv'
  BY <1>1 DEF LogInv
<1> QED BY <1>1, <1>2 DEF ReadInv

-----------------------------------------------------------------------------
(* The steps of a wait                                                     *)

\* A step of one wait that leaves the log and the cursors of the client.
LEMMA ReadStays ==
  ASSUME ReadInv, NEW c \in Alone, UNCHANGED <<change, log, writing, client>>,
         DOMAIN wait' = Alone, \A e \in Alone : e # c => wait'[e] = wait[e],
         ReadOK(wait'[c], log, change)
  PROVE  ReadInv'
<1>1. LogInv'
  BY DEF ReadInv, LogInv
<1>2. \A e \in Alone : ReadOK(wait'[e], log, change)
  BY DEF ReadInv
<1> QED BY <1>1, <1>2 DEF ReadInv

\* Only what a wait read is said of it.
LEMMA ReadIdle ==
  ASSUME NEW w, DOMAIN w = Fields, w.still # "none", w.pc \notin {"open", "read", "answer"},
         w.pc = "release" => w.reason = "failed"
  PROVE  ReadOK(w, log, change)
  BY DEF ReadOK

LEMMA ReadWaitHere ==
  ASSUME ReadInv, NEW c \in Alone, Reading!WaitHere(c)
  PROVE  ReadInv'
<1>1. DOMAIN wait[c] = Fields /\ wait[c].still # "none" /\ change \in Nat
  BY DEF ReadInv, ReadOK, LogInv
<1>2. PICK f \in {[line |-> change, ping |-> change], client} :
        wait' = [wait EXCEPT ![c].pc = "open", ![c].start = f, ![c].line = f.line, ![c].ping = f.ping]
  BY DEF Reading!WaitHere
<1>3. /\ DOMAIN wait' = Alone /\ \A e \in Alone : e # c => wait'[e] = wait[e]
      /\ wait'[c] = [wait[c] EXCEPT !.pc = "open", !.start = f, !.line = f.line, !.ping = f.ping]
  BY <1>2 DEF ReadInv
<1>4. f.line \in 0 .. change /\ f.ping \in 0 .. change
  BY <1>1, <1>2 DEF ReadInv
<1>5. /\ DOMAIN wait'[c] = Fields /\ wait'[c].pc = "open" /\ wait'[c].start = f
      /\ wait'[c].still = wait[c].still
      /\ wait'[c].line = f.line /\ wait'[c].ping = f.ping
  BY <1>1, <1>3 DEF Fields
<1>6. ReadOK(wait'[c], log, change)
  BY <1>1, <1>4, <1>5 DEF ReadOK
<1> QED BY <1>3, <1>6, ReadStays DEF Reading!WaitHere

LEMMA ReadOpens ==
  ASSUME ReadInv, NEW c \in Alone, Reading!openWait(c)
  PROVE  ReadInv'
<1>1. /\ ReadOK(wait[c], log, change) /\ DOMAIN wait[c] = Fields /\ wait[c].pc = "open"
      /\ UNCHANGED <<change, log, writing, client>>
  BY DEF ReadInv, ReadOK, Reading!openWait
<1>2. /\ DOMAIN wait' = Alone /\ \A e \in Alone : e # c => wait'[e] = wait[e]
      /\ \/ wait'[c] = [wait[c] EXCEPT !.pc = "done", !.reason = "refused"]
         \/ wait'[c] = [wait[c] EXCEPT !.pc = "read", !.lease = nextLease, !.place = presence.place,
                          !.left = HoldTicks, !.todo = {"lines", "pings", "lease"}]
  BY DEF Reading!openWait, ReadInv
<1>3. CASE wait'[c] = [wait[c] EXCEPT !.pc = "done", !.reason = "refused"]
  <2>1. DOMAIN wait'[c] = Fields /\ wait'[c].pc = "done" /\ wait'[c].still # "none"
    BY <1>1, <1>3 DEF Fields, ReadOK
  <2> QED BY <1>1, <1>2, <2>1, ReadIdle, ReadStays
<1>4. CASE wait'[c] = [wait[c] EXCEPT !.pc = "read", !.lease = nextLease, !.place = presence.place,
                         !.left = HoldTicks, !.todo = {"lines", "pings", "lease"}]
  <2>1. /\ DOMAIN wait'[c] = Fields /\ wait'[c].pc = "read" /\ wait'[c].start = wait[c].start
        /\ wait'[c].line = wait[c].line /\ wait'[c].ping = wait[c].ping
        /\ wait'[c].todo = {"lines", "pings", "lease"} /\ wait'[c].still = wait[c].still
    BY <1>1, <1>4 DEF Fields
  <2>2. change \in Nat
    BY DEF ReadInv, LogInv
  <2>3. ASSUME NEW S \in SUBSET Nat, NEW a \in 0 .. change, NEW next, NEW found
        PROVE  TurnOK(S, a, a, next, found, FALSE, change)
    <3>1. a \in Nat /\ \A i \in S : i \in Nat
      BY <2>2
    <3>2. \A i \in S : ~(i > a /\ i <= a)
      BY <3>1
    <3>3. Between(S, a, a) = {}
      BY <3>2 DEF Between
    <3> QED BY <2>2, <3>1, <3>3 DEF TurnOK
  <2>4. PingsOf(log) \in SUBSET Nat /\ \A p : LinesOf(log, p) \in SUBSET Nat
    BY DEF PingsOf, LinesOf
  <2>5. ReadOK(wait'[c], log, change)
    BY <1>1, <2>1, <2>3, <2>4 DEF ReadOK
  <2> QED BY <1>1, <1>2, <2>5, ReadStays
<1> QED BY <1>2, <1>3, <1>4

LEMMA ReadsLines ==
  ASSUME ReadInv, NEW c \in Alone, Reading!ReadLines(c)
  PROVE  ReadInv'
<1> DEFINE S == Reading!LinesAt(wait[c].place)
           b == Reading!NextCursor(wait[c].line, S, LinePage)
           F == Reading!Page(wait[c].line, S, LinePage) \ Reading!Muted(S)
           t == wait[c].todo \ {"lines"}
<1>1. /\ ReadOK(wait[c], log, change) /\ DOMAIN wait[c] = Fields /\ wait[c].pc = "read"
      /\ UNCHANGED <<change, log, writing, client>> /\ change \in Nat
      /\ wait' = [wait EXCEPT ![c].todo = t, ![c].lines = F, ![c].nextLine = b]
  BY DEF ReadInv, ReadOK, LogInv, Reading!ReadLines
<1> HIDE DEF S, b, F, t
<1>2. wait[c].line \in 0 .. change
  BY <1>1 DEF ReadOK, TurnOK
<1>3. b \in wait[c].line .. change /\ F = Between(LinesOf(log, wait[c].place), wait[c].line, b)
  BY <1>1, <1>2, LinesRead DEF S, b, F
<1>4. /\ DOMAIN wait' = Alone /\ \A e \in Alone : e # c => wait'[e] = wait[e]
      /\ wait'[c] = [wait[c] EXCEPT !.todo = t, !.lines = F, !.nextLine = b]
  BY <1>1 DEF ReadInv
<1>5. /\ DOMAIN wait'[c] = Fields /\ wait'[c].pc = "read" /\ wait'[c].start = wait[c].start
      /\ wait'[c].place = wait[c].place /\ wait'[c].line = wait[c].line
      /\ wait'[c].ping = wait[c].ping /\ wait'[c].lines = F /\ wait'[c].nextLine = b
      /\ wait'[c].pings = wait[c].pings /\ wait'[c].nextPing = wait[c].nextPing
      /\ wait'[c].todo = t /\ wait'[c].still = wait[c].still
  BY <1>1, <1>4 DEF Fields
<1>6. ("pings" \notin t) = ("pings" \notin wait[c].todo)
  BY DEF t
<1>7. TurnOK(LinesOf(log, wait[c].place), wait[c].start.line, wait[c].line, b, F, "lines" \notin t, change)
  BY <1>1, <1>3 DEF ReadOK, TurnOK
<1>8. ReadOK(wait'[c], log, change)
  BY <1>1, <1>5, <1>6, <1>7 DEF ReadOK
<1> QED BY <1>1, <1>4, <1>8, ReadStays

LEMMA ReadsPings ==
  ASSUME ReadInv, NEW c \in Alone, Reading!ReadPings(c)
  PROVE  ReadInv'
<1> DEFINE b == Reading!NextCursor(wait[c].ping, Reading!PingsToMe, PingPage)
           F == Reading!Page(wait[c].ping, Reading!PingsToMe, PingPage)
           t == wait[c].todo \ {"pings"}
<1>1. /\ ReadOK(wait[c], log, change) /\ DOMAIN wait[c] = Fields /\ wait[c].pc = "read"
      /\ UNCHANGED <<change, log, writing, client>> /\ change \in Nat
      /\ wait' = [wait EXCEPT ![c].todo = t, ![c].pings = F, ![c].nextPing = b]
  BY DEF ReadInv, ReadOK, LogInv, Reading!ReadPings
<1> HIDE DEF b, F, t
<1>2. wait[c].ping \in 0 .. change
  BY <1>1 DEF ReadOK, TurnOK
<1>3. b \in wait[c].ping .. change /\ F = Between(PingsOf(log), wait[c].ping, b)
  BY <1>1, <1>2, PingsRead DEF b, F
<1>4. /\ DOMAIN wait' = Alone /\ \A e \in Alone : e # c => wait'[e] = wait[e]
      /\ wait'[c] = [wait[c] EXCEPT !.todo = t, !.pings = F, !.nextPing = b]
  BY <1>1 DEF ReadInv
<1>5. /\ DOMAIN wait'[c] = Fields /\ wait'[c].pc = "read" /\ wait'[c].start = wait[c].start
      /\ wait'[c].place = wait[c].place /\ wait'[c].line = wait[c].line
      /\ wait'[c].ping = wait[c].ping /\ wait'[c].pings = F /\ wait'[c].nextPing = b
      /\ wait'[c].lines = wait[c].lines /\ wait'[c].nextLine = wait[c].nextLine
      /\ wait'[c].todo = t /\ wait'[c].still = wait[c].still
  BY <1>1, <1>4 DEF Fields
<1>6. ("lines" \notin t) = ("lines" \notin wait[c].todo)
  BY DEF t
<1>7. TurnOK(PingsOf(log), wait[c].start.ping, wait[c].ping, b, F, "pings" \notin t, change)
  BY <1>1, <1>3 DEF ReadOK, TurnOK
<1>8. ReadOK(wait'[c], log, change)
  BY <1>1, <1>5, <1>6, <1>7 DEF ReadOK
<1> QED BY <1>1, <1>4, <1>8, ReadStays

LEMMA ReadsLease ==
  ASSUME ReadInv, NEW c \in Alone, Reading!ReadLease(c)
  PROVE  ReadInv'
<1> DEFINE t == wait[c].todo \ {"lease"}
<1>1. /\ ReadOK(wait[c], log, change) /\ DOMAIN wait[c] = Fields /\ wait[c].pc = "read"
      /\ UNCHANGED <<change, log, writing, client>>
      /\ wait' = [wait EXCEPT ![c].todo = t, ![c].still = Reading!Still(c)]
  BY DEF ReadInv, ReadOK, Reading!ReadLease
<1>2. ("lines" \notin t) = ("lines" \notin wait[c].todo) /\ ("pings" \notin t) = ("pings" \notin wait[c].todo)
  OBVIOUS
<1> HIDE DEF t
<1>3. Reading!Still(c) # "none"
  BY DEF Reading!Still
<1>4. /\ DOMAIN wait' = Alone /\ \A e \in Alone : e # c => wait'[e] = wait[e]
      /\ wait'[c] = [wait[c] EXCEPT !.todo = t, !.still = Reading!Still(c)]
  BY <1>1 DEF ReadInv
<1>5. /\ DOMAIN wait'[c] = Fields /\ wait'[c].pc = "read" /\ wait'[c].start = wait[c].start
      /\ wait'[c].place = wait[c].place /\ wait'[c].line = wait[c].line
      /\ wait'[c].ping = wait[c].ping /\ wait'[c].pings = wait[c].pings
      /\ wait'[c].nextPing = wait[c].nextPing /\ wait'[c].lines = wait[c].lines
      /\ wait'[c].nextLine = wait[c].nextLine /\ wait'[c].todo = t
      /\ wait'[c].still = Reading!Still(c)
  BY <1>1, <1>4 DEF Fields
<1>6. ReadOK(wait'[c], log, change)
  BY <1>1, <1>2, <1>3, <1>5 DEF ReadOK
<1> QED BY <1>1, <1>4, <1>6, ReadStays

\* What a turn found, and nothing before it, is all there is since the start.
LEMMA TurnsAdd ==
  ASSUME NEW n \in Nat, NEW S \in SUBSET Nat, NEW first, NEW cursor, NEW next, NEW found,
         TurnOK(S, first, cursor, next, found, TRUE, n)
  PROVE  /\ WholeOK(S, first, next, found, n)
         /\ found = {} => \A new, more : TurnOK(S, first, next, new, more, FALSE, n)
<1>1. /\ first \in Nat /\ cursor \in Nat /\ cursor <= n /\ first <= cursor /\ next \in Nat /\ cursor <= next
      /\ next <= n /\ Between(S, first, cursor) = {} /\ found = Between(S, cursor, next)
  BY DEF TurnOK
<1>2. found = Between(S, first, next)
  <2>1. \A i \in S : ~(i > first /\ i <= cursor)
    BY <1>1 DEF Between
  <2>2. \A i \in S : i > cursor /\ i <= next <=> i > first /\ i <= next
    BY <1>1, <2>1
  <2> QED BY <1>1, <2>2 DEF Between
<1> QED BY <1>1, <1>2 DEF WholeOK, TurnOK

LEMMA ReadTurns ==
  ASSUME ReadInv, NEW c \in Alone, Reading!holdWait(c)
  PROVE  ReadInv'
<1> DEFINE r == Reading!Reason(c)
           w == wait[c]
           S == LinesOf(log, w.place)
           T == PingsOf(log)
<1>1. /\ ReadOK(w, log, change) /\ DOMAIN w = Fields /\ w.pc = "read" /\ w.todo = {}
      /\ UNCHANGED <<change, log, writing, client>> /\ change \in Nat
  BY DEF ReadInv, ReadOK, LogInv, Reading!holdWait
<1>2. wait' = [wait EXCEPT ![c] =
        IF r = "none"
        THEN [w EXCEPT !.line = w.nextLine, !.ping = w.nextPing, !.nextLine = 0, !.nextPing = 0,
                       !.todo = {"lines", "pings", "lease"}]
        ELSE [w EXCEPT !.pc = "release", !.reason = r]]
  BY DEF Reading!holdWait
<1>3. r = "none" => w.lines = {} /\ w.pings = {}
  BY <1>1 DEF ReadOK, Reading!Reason
<1> HIDE DEF r
<1>4. DOMAIN wait' = Alone /\ \A e \in Alone : e # c => wait'[e] = wait[e]
  BY <1>2 DEF ReadInv
<1>5. S \in SUBSET Nat /\ T \in SUBSET Nat
  BY DEF LinesOf, PingsOf
<1>6. /\ TurnOK(S, w.start.line, w.line, w.nextLine, w.lines, TRUE, change)
      /\ TurnOK(T, w.start.ping, w.ping, w.nextPing, w.pings, TRUE, change)
  BY <1>1 DEF ReadOK, TurnOK
<1> HIDE DEF S, T
<1>7. /\ WholeOK(S, w.start.line, w.nextLine, w.lines, change)
      /\ WholeOK(T, w.start.ping, w.nextPing, w.pings, change)
  BY <1>1, <1>5, <1>6, TurnsAdd
<1>8. CASE r = "none"
  <2>1. wait'[c] = [w EXCEPT !.line = w.nextLine, !.ping = w.nextPing, !.nextLine = 0,
                             !.nextPing = 0, !.todo = {"lines", "pings", "lease"}]
    BY <1>2, <1>8 DEF ReadInv
  <2> HIDE DEF w
  <2>2. /\ DOMAIN wait'[c] = Fields /\ wait'[c].pc = "read" /\ wait'[c].start = w.start
        /\ wait'[c].place = w.place /\ wait'[c].line = w.nextLine /\ wait'[c].ping = w.nextPing
        /\ wait'[c].lines = w.lines /\ wait'[c].pings = w.pings
        /\ wait'[c].nextLine = 0 /\ wait'[c].nextPing = 0
        /\ wait'[c].todo = {"lines", "pings", "lease"} /\ wait'[c].still = w.still
    BY <1>1, <2>1 DEF Fields
  <2>3. /\ TurnOK(S, w.start.line, w.nextLine, 0, w.lines, FALSE, change)
        /\ TurnOK(T, w.start.ping, w.nextPing, 0, w.pings, FALSE, change)
    BY <1>1, <1>3, <1>5, <1>6, <1>8, TurnsAdd
  <2>4. ReadOK(wait'[c], log, change)
    BY <1>1, <2>2, <2>3 DEF ReadOK, S, T
  <2> QED BY <1>1, <1>4, <2>4, ReadStays
<1>9. CASE r # "none"
  <2>1. wait'[c] = [w EXCEPT !.pc = "release", !.reason = r]
    BY <1>2, <1>9 DEF ReadInv
  <2> HIDE DEF w
  <2>2. /\ DOMAIN wait'[c] = Fields /\ wait'[c].pc = "release" /\ wait'[c].start = w.start
        /\ wait'[c].place = w.place
        /\ wait'[c].lines = w.lines /\ wait'[c].pings = w.pings
        /\ wait'[c].nextLine = w.nextLine /\ wait'[c].nextPing = w.nextPing
        /\ wait'[c].still = w.still
    BY <1>1, <2>1 DEF Fields
  <2>3. ReadOK(wait'[c], log, change)
    BY <1>1, <1>7, <2>2 DEF ReadOK, S, T
  <2> QED BY <1>1, <1>4, <2>3, ReadStays
<1> QED BY <1>8, <1>9

LEMMA ReadEnded ==
  ASSUME NEW c, NEW pc \in {"done", "dead"}
  PROVE  DOMAIN Reading!Ended(c, pc) = Fields /\ Reading!Ended(c, pc).pc = pc
         /\ Reading!Ended(c, pc).still # "none"
  BY DEF Reading!Ended, Reading!NoWait, Fields

LEMMA ReadReleases ==
  ASSUME ReadInv, NEW c \in Alone, Reading!releaseWait(c)
  PROVE  ReadInv'
<1>1. /\ ReadOK(wait[c], log, change) /\ DOMAIN wait[c] = Fields /\ wait[c].pc = "release"
      /\ UNCHANGED <<change, log, writing, client>>
  BY DEF ReadInv, ReadOK, Reading!releaseWait
<1>2. wait' = [wait EXCEPT ![c] = IF wait[c].reason = "failed" THEN Reading!Ended(c, "done")
                                  ELSE [wait[c] EXCEPT !.pc = "answer"]]
  BY DEF Reading!releaseWait
<1>3. DOMAIN wait' = Alone /\ \A e \in Alone : e # c => wait'[e] = wait[e]
  BY <1>2 DEF ReadInv
<1>4. CASE wait[c].reason = "failed"
  <2>1. wait'[c] = Reading!Ended(c, "done")
    BY <1>2, <1>4 DEF ReadInv
  <2> QED BY <1>1, <1>3, <2>1, ReadEnded, ReadIdle, ReadStays
<1>5. CASE wait[c].reason # "failed"
  <2>1. wait'[c] = [wait[c] EXCEPT !.pc = "answer"]
    BY <1>2, <1>5 DEF ReadInv
  <2>2. /\ DOMAIN wait'[c] = Fields /\ wait'[c].pc = "answer" /\ wait'[c].start = wait[c].start
        /\ wait'[c].place = wait[c].place /\ wait'[c].reason = wait[c].reason
        /\ wait'[c].lines = wait[c].lines /\ wait'[c].pings = wait[c].pings
        /\ wait'[c].nextLine = wait[c].nextLine /\ wait'[c].nextPing = wait[c].nextPing
        /\ wait'[c].still = wait[c].still
    BY <1>1, <2>1 DEF Fields
  <2>3. ReadOK(wait'[c], log, change)
    BY <1>1, <1>5, <2>2 DEF ReadOK
  <2> QED BY <1>1, <1>3, <2>3, ReadStays
<1> QED BY <1>4, <1>5

LEMMA ReadAnswers ==
  ASSUME ReadInv, NEW c \in Alone, Reading!Answer(c)
  PROVE  ReadInv'
<1>1. /\ ReadOK(wait[c], log, change) /\ wait[c].pc = "answer" /\ UNCHANGED <<change, log, writing>>
      /\ wait' = [wait EXCEPT ![c] = Reading!Ended(c, "done")]
      /\ client' \in {client, [line |-> wait[c].nextLine, ping |-> wait[c].nextPing]}
  BY DEF ReadInv, Reading!Answer
<1>2. wait[c].nextLine \in 0 .. change /\ wait[c].nextPing \in 0 .. change
  BY <1>1 DEF ReadOK, WholeOK
<1>3. client'.line \in 0 .. change /\ client'.ping \in 0 .. change
  BY <1>1, <1>2 DEF ReadInv
<1>4. /\ DOMAIN wait' = Alone /\ \A e \in Alone : e # c => wait'[e] = wait[e]
      /\ wait'[c] = Reading!Ended(c, "done")
  BY <1>1 DEF ReadInv
<1>5. ReadOK(wait'[c], log, change)
  BY <1>4, ReadEnded, ReadIdle
<1>6. LogInv'
  BY <1>1 DEF ReadInv, LogInv
<1>7. \A e \in Alone : ReadOK(wait'[e], log, change)
  BY <1>4, <1>5 DEF ReadInv
<1> QED BY <1>1, <1>3, <1>4, <1>6, <1>7 DEF ReadInv

LEMMA ReadEnds ==
  ASSUME ReadInv, NEW c \in Alone,
         Reading!ReadFails(c) \/ Reading!ConnectionCloses(c) \/ Reading!Dies(c)
  PROVE  ReadInv'
<1>1. /\ ReadOK(wait[c], log, change) /\ DOMAIN wait[c] = Fields
      /\ UNCHANGED <<change, log, writing, client>>
  BY DEF ReadInv, ReadOK, Reading!ReadFails, Reading!ConnectionCloses, Reading!Dies
<1>2. CASE Reading!ReadFails(c)
  <2>1. /\ DOMAIN wait' = Alone /\ \A e \in Alone : e # c => wait'[e] = wait[e]
        /\ wait'[c] = [wait[c] EXCEPT !.pc = "release", !.reason = "failed"]
    BY <1>2 DEF ReadInv, Reading!ReadFails
  <2>2. DOMAIN wait'[c] = Fields /\ wait'[c].pc = "release" /\ wait'[c].reason = "failed"
        /\ wait'[c].still # "none"
    BY <1>1, <2>1 DEF Fields, ReadOK
  <2> QED BY <1>1, <2>1, <2>2, ReadIdle, ReadStays
<1>3. CASE Reading!ConnectionCloses(c)
  <2>1. /\ DOMAIN wait' = Alone /\ \A e \in Alone : e # c => wait'[e] = wait[e]
        /\ wait'[c] = [wait[c] EXCEPT !.shut = TRUE]
    BY <1>3 DEF ReadInv, Reading!ConnectionCloses
  <2>2. /\ DOMAIN wait'[c] = Fields /\ wait'[c].pc = wait[c].pc /\ wait'[c].start = wait[c].start
        /\ wait'[c].place = wait[c].place /\ wait'[c].reason = wait[c].reason
        /\ wait'[c].line = wait[c].line /\ wait'[c].ping = wait[c].ping
        /\ wait'[c].lines = wait[c].lines /\ wait'[c].pings = wait[c].pings
        /\ wait'[c].nextLine = wait[c].nextLine /\ wait'[c].nextPing = wait[c].nextPing
        /\ wait'[c].todo = wait[c].todo /\ wait'[c].still = wait[c].still
    BY <1>1, <2>1 DEF Fields
  <2>3. ReadOK(wait'[c], log, change)
    BY <1>1, <2>2 DEF ReadOK
  <2> QED BY <1>1, <2>1, <2>3, ReadStays
<1>4. CASE Reading!Dies(c)
  <2>1. /\ DOMAIN wait' = Alone /\ \A e \in Alone : e # c => wait'[e] = wait[e]
        /\ wait'[c] = Reading!Ended(c, "dead")
    BY <1>4 DEF ReadInv, Reading!Dies
  <2> QED BY <1>1, <2>1, ReadEnded, ReadIdle, ReadStays
<1> QED BY <1>2, <1>3, <1>4

\* A walk and a tick touch neither cursors nor pages.
LEMMA ReadPasses ==
  ASSUME ReadInv, Reading!Tick \/ \E p \in Rooms : Reading!Move(p)
  PROVE  ReadInv'
<1>1. UNCHANGED <<change, log, writing, client>> /\ LogInv
  BY DEF Reading!Tick, Reading!Move, ReadInv
<1>2. DOMAIN wait' = Alone
  BY DEF Reading!Tick, Reading!Move
<1>3. ASSUME NEW c \in Alone PROVE ReadOK(wait'[c], log, change)
  <2>1. ReadOK(wait[c], log, change) /\ DOMAIN wait[c] = Fields
    BY DEF ReadInv, ReadOK
  <2>2. \/ wait'[c] = wait[c]
        \/ wait'[c] = [wait[c] EXCEPT !.stayed = FALSE]
        \/ wait'[c] = [wait[c] EXCEPT !.left = Reading!Less(wait[c].left)]
    BY DEF Reading!Tick, Reading!Move
  <2>3. /\ DOMAIN wait'[c] = Fields /\ wait'[c].pc = wait[c].pc /\ wait'[c].start = wait[c].start
        /\ wait'[c].place = wait[c].place /\ wait'[c].reason = wait[c].reason
        /\ wait'[c].line = wait[c].line /\ wait'[c].ping = wait[c].ping
        /\ wait'[c].lines = wait[c].lines /\ wait'[c].pings = wait[c].pings
        /\ wait'[c].nextLine = wait[c].nextLine /\ wait'[c].nextPing = wait[c].nextPing
        /\ wait'[c].todo = wait[c].todo /\ wait'[c].still = wait[c].still
    BY <2>1, <2>2 DEF Fields
  <2> QED BY <2>1, <2>3 DEF ReadOK
<1>4. LogInv'
  BY <1>1 DEF LogInv
<1> QED BY <1>1, <1>2, <1>3, <1>4 DEF ReadInv

LEMMA ReadSteps ==
  ASSUME ReadInv, Reading!Next
  PROVE  ReadInv'
<1>1. ASSUME NEW c \in Alone, Reading!Step(c)
      PROVE  ReadInv'
  BY <1>1, ReadOpens, ReadsLines, ReadsPings, ReadsLease, ReadTurns, ReadReleases, ReadAnswers
     DEF Reading!Step
<1>2. ASSUME NEW c \in Alone,
             Reading!WaitHere(c) \/ Reading!ReadFails(c) \/ Reading!ConnectionCloses(c) \/ Reading!Dies(c)
      PROVE  ReadInv'
  BY <1>2, ReadWaitHere, ReadEnds
<1>3. ASSUME NEW w \in Twins, Reading!WriterCommits(w) \/ Reading!WriterAborts(w)
      PROVE  ReadInv'
  BY <1>3, ReadCommits, ReadAborts
<1>4. ASSUME NEW w \in Twins, NEW e \in Reading!Entries, Reading!record_public_change(w, e)
      PROVE  ReadInv'
  BY <1>4, ReadDraws
<1> QED BY <1>1, <1>2, <1>3, <1>4, ReadPasses DEF Reading!Next

LEMMA ReadMeans ==
  ASSUME ReadInv
  PROVE  Reading!AnswerComplete
<1> SUFFICES ASSUME NEW c \in Alone, wait[c].pc \in {"release", "answer"}, wait[c].reason # "failed"
             PROVE  /\ wait[c].lines = {i \in LinesOf(log, wait[c].place) :
                                          i > wait[c].start.line /\ i <= wait[c].nextLine}
                    /\ wait[c].pings = {i \in PingsOf(log) :
                                          i > wait[c].start.ping /\ i <= wait[c].nextPing}
  BY ReadingSets DEF Reading!AnswerComplete
<1>1. ReadOK(wait[c], log, change)
  BY DEF ReadInv
<1> QED BY <1>1 DEF ReadOK, WholeOK, Between

ReadingInv == part = "reading" => ReadInv

LEMMA ReadingHolds == RoomsSpec => []ReadingInv
<1>1. RoomsInit => ReadingInv
  BY ReadStarts DEF RoomsInit, TalkInit, WorkInit, ReadingInv
<1>2. ReadingInv /\ [RoomsNext]_roomVars => ReadingInv'
  <2> SUFFICES ASSUME ReadingInv, [RoomsNext]_roomVars, part' = "reading"
               PROVE  ReadInv'
    BY DEF ReadingInv
  <2>1. part = "reading" /\ ReadInv
    BY DEF RoomsNext, roomVars, ReadingInv
  <2>2. CASE Reading!Next
    BY <2>1, <2>2, ReadSteps
  <2>3. CASE UNCHANGED <<change, log, writing, wait, client>>
    BY <2>1, <2>3 DEF ReadInv, LogInv
  <2> QED BY <2>1, <2>2, <2>3 DEF RoomsNext, TalkNext, WorkNext, roomVars, waitVars
<1> QED BY <1>1, <1>2, PTL DEF RoomsSpec

\* A wait answers every line and ping between the cursors it was started with and the
\* ones it gives, for any number of waits, writers and changes and any length of a page.
THEOREM CompleteHolds == RoomsSpec => []AnswerComplete
<1>1. ReadingInv => AnswerComplete
  BY ReadMeans DEF ReadingInv, AnswerComplete
<1> QED BY <1>1, ReadingHolds, PTL
-----------------------------------------------------------------------------
(* PingRules: the published rule holds of the whole history                *)

PingRec ==
  [sender : Twins, target : {Pings!Other(r) : r \in Twins}, place : Rooms, sent : Nat,
   arrived : [Twins -> Nat], answer : {"none", "yes", "no"}, answered : Nat, left : BOOLEAN]
Sent == 1 .. Len(ping)

\* A ping and what is known of it at a time, with the pair standing as it does.
SentOK(p, time, standing) ==
  /\ p.sent <= time /\ \A r \in Twins : p.arrived[r] <= standing[r].arrived
  /\ p.answer # "none" => p.answered >= p.sent /\ p.answered < p.sent + Offer /\ ~p.left
  /\ p.left => \E r \in Twins : standing[r].arrived > p.arrived[r]

\* A later ping to the same resident, and what allowed it.
Allowed(i, j) ==
  /\ ping[j].sent >= Pings!NextAllowed(ping[i])
  /\ Pings!pingStatus(ping[i]) # "offered"
  /\ ping[i].answer = "no" /\ ping[j].sent < ping[i].answered + AfterNo =>
       \E k \in Sent : k < j /\ ping[k].sender = ping[i].target /\ ping[k].sent > ping[i].answered

\* The unanswered pings of a sender on a day.
Unanswered(s, who, day) ==
  {j \in 1 .. Len(s) : s[j].sender = who /\ s[j].sent \div PingDay = day /\ s[j].answer = "none"}

PingTyped ==
  /\ now \in 0 .. PingTime /\ closed \subseteq Shut
  /\ presence \in [Twins -> [place : Rooms, arrived : 1 .. MoveLimit + 1]]
  /\ ping \in Seq(PingRec) /\ Len(ping) <= PingLimit

PingInv ==
  /\ PingTyped
  /\ \A i \in Sent : SentOK(ping[i], now, presence)
  /\ \A i, j \in Sent : i < j => ping[i].sent <= ping[j].sent
  /\ \A i, j \in Sent : i < j /\ ping[i].sender = ping[j].sender => Allowed(i, j)
  /\ \A who \in Twins, day \in Nat : Cardinality(Unanswered(ping, who, day)) <= Misses

LEMMA PingCounts == \A S : Pings!Cardinality(S) = Cardinality(S)
  BY DEF Pings!Cardinality, Cardinality

LEMMA PingClock ==
  /\ Offer \in Nat /\ AfterAnswer \in Nat /\ AfterMiss \in Nat /\ AfterNo \in Nat
  /\ Misses \in Nat /\ PingDay \in Nat \ {0}
  /\ PingLimit \in Nat /\ MoveLimit \in Nat /\ PingTime \in Nat
  /\ AfterMiss <= AfterNo /\ AfterAnswer <= AfterNo
  BY PingAssumption

LEMMA SentDomain ==
  ASSUME ping \in Seq(PingRec)
  PROVE  DOMAIN ping = Sent /\ Len(ping) \in Nat /\ \A i \in Sent : ping[i] \in PingRec
  BY DEF Sent

\* A day starts before any of its times.
LEMMA DayBegins ==
  ASSUME NEW a \in Nat, NEW d \in Nat \ {0}
  PROVE  (a \div d) * d \in Nat /\ (a \div d) * d <= a
  OBVIOUS

\* A set of pings has a latest one.
LEMMA LatestExists ==
  ASSUME NEW n \in Nat, NEW S \in SUBSET (1 .. n), S # {}
  PROVE  \E i \in S : \A j \in S : j <= i
  BY LastExists

LEMMA PingStarts ==
  ASSUME Pings!Init
  PROVE  PingInv
<1>1. now = 0 /\ closed = {} /\ ping = <<>> /\ Sent = {}
  BY DEF Pings!Init, Sent
<1>2. presence \in [Twins -> [place : Rooms, arrived : 1 .. MoveLimit + 1]]
  BY PingClock DEF Pings!Init
<1>3. \A who \in Twins, day \in Nat : Unanswered(ping, who, day) = {}
  BY <1>1 DEF Unanswered
<1>4. PingTyped
  BY <1>1, <1>2, PingClock DEF PingTyped
<1>5. \A who \in Twins, day \in Nat : Cardinality(Unanswered(ping, who, day)) <= Misses
  <2>1. Cardinality({}) = 0 /\ 0 <= Misses
    BY FS_EmptySet, PingClock
  <2> QED BY <1>3, <2>1
<1> QED BY <1>1, <1>4, <1>5 DEF PingInv

\* What has expired or is answered stays so: clocks and arrivals only grow.
LEMMA StatusStays ==
  ASSUME PingTyped, PingTyped', NEW p \in PingRec, SentOK(p, now, presence),
         now' >= now, Pings!pingStatus(p) # "offered",
         \A r \in Twins : presence'[r] = presence[r] \/ presence'[r].arrived > presence[r].arrived
  PROVE  Pings!pingStatus(p)' # "offered"
<1>1. CASE p.answer # "none"
  BY <1>1 DEF Pings!pingStatus
<1>2. CASE p.answer = "none" /\ now >= p.sent + Offer
  <2>1. now' >= p.sent + Offer
    BY <1>2, PingClock DEF PingTyped, PingRec
  <2> QED BY <1>2, <2>1 DEF Pings!pingStatus
<1>3. CASE p.answer = "none" /\ ~Pings!stillTogether(p)
  <2>1. PICK r \in Twins : presence[r] # [place |-> p.place, arrived |-> p.arrived[r]]
    BY <1>3 DEF Pings!stillTogether
  <2>2. CASE presence'[r] = presence[r]
    BY <1>3, <2>1, <2>2 DEF Pings!pingStatus, Pings!stillTogether
  <2>3. CASE presence'[r].arrived > presence[r].arrived
    <3>1. p.arrived[r] \in Nat /\ presence[r].arrived \in Nat /\ presence'[r].arrived \in Nat
      BY PingClock DEF PingTyped, PingRec
    <3>2. presence'[r].arrived # p.arrived[r]
      BY <2>3, <3>1 DEF SentOK
    <3>3. ~Pings!stillTogether(p)'
      <4>1. presence'[r] # [place |-> p.place, arrived |-> p.arrived[r]]
        BY <3>2
      <4> QED BY <2>1, <4>1 DEF Pings!stillTogether
    <3> QED BY <1>3, <3>3 DEF Pings!pingStatus
  <2> QED BY <2>2, <2>3
<1> QED BY <1>1, <1>2, <1>3 DEF Pings!pingStatus

\* Pings that keep what the rule reads of them keep the rule.
Kept(i) ==
  /\ ping'[i].sender = ping[i].sender /\ ping'[i].target = ping[i].target
  /\ ping'[i].place = ping[i].place /\ ping'[i].sent = ping[i].sent
  /\ ping'[i].arrived = ping[i].arrived
  /\ ping'[i].answer = ping[i].answer /\ ping'[i].answered = ping[i].answered

LEMMA RuleStays ==
  ASSUME PingInv, PingTyped', Len(ping') = Len(ping), \A i \in Sent : Kept(i), now' >= now,
         \A i \in Sent : SentOK(ping'[i], now', presence'),
         \A r \in Twins : presence'[r] = presence[r] \/ presence'[r].arrived > presence[r].arrived
  PROVE  PingInv'
<1>1. Sent' = Sent /\ \A i \in Sent : ping[i] \in PingRec
  BY SentDomain DEF PingInv, PingTyped, Sent
<1>2. \A i, j \in Sent : i < j => ping'[i].sent <= ping'[j].sent
  BY DEF PingInv, Kept
<1>3. ASSUME NEW i \in Sent, NEW j \in Sent, i < j, ping'[i].sender = ping'[j].sender
      PROVE  Allowed(i, j)'
  <2>1. Allowed(i, j) /\ SentOK(ping[i], now, presence)
    BY <1>3 DEF PingInv, Kept
  <2>2. Kept(i) /\ Kept(j)
    OBVIOUS
  <2>3. ping'[j].sent >= Pings!NextAllowed(ping'[i])
    BY <2>1, <2>2 DEF Allowed, Kept, Pings!NextAllowed
  <2>4. Pings!pingStatus(ping[i])' # "offered"
    <3> DEFINE p == ping[i]
    <3>1. p \in PingRec /\ SentOK(p, now, presence) /\ Pings!pingStatus(p) # "offered"
      BY <1>1, <2>1 DEF Allowed
    <3>2. ASSUME NEW q \in PingRec, SentOK(q, now, presence), Pings!pingStatus(q) # "offered",
                 q.answer = ping'[i].answer, q.place = ping'[i].place,
                 q.sent = ping'[i].sent, q.arrived = ping'[i].arrived
          PROVE  Pings!pingStatus(ping[i])' # "offered"
      <4>1. Pings!pingStatus(q)' # "offered"
        BY <3>2, StatusStays DEF PingInv
      <4> QED BY <3>2, <4>1 DEF Pings!pingStatus, Pings!stillTogether
    <3> QED BY <3>1, <3>2, <2>2 DEF Kept
  <2>5. ASSUME ping'[i].answer = "no", ping'[j].sent < ping'[i].answered + AfterNo
        PROVE  \E k \in Sent : k < j /\ ping'[k].sender = ping'[i].target
                                  /\ ping'[k].sent > ping'[i].answered
    BY <2>1, <2>2, <2>5 DEF Allowed, Kept
  <2> QED BY <1>1, <2>3, <2>4, <2>5 DEF Allowed
<1>4. \A who, day : Unanswered(ping', who, day) = Unanswered(ping, who, day)
  BY DEF Unanswered, Kept, Sent
<1> QED BY <1>1, <1>2, <1>3, <1>4 DEF PingInv

LEMMA PingMoves ==
  ASSUME PingInv, NEW r \in Twins, NEW p \in Rooms, Pings!Move(r, p)
  PROVE  PingInv'
<1>1. /\ presence' = [presence EXCEPT ![r] = [place |-> p, arrived |-> presence[r].arrived + 1]]
      /\ presence[r].arrived <= MoveLimit /\ UNCHANGED <<now, closed>>
      /\ ping' = [i \in DOMAIN ping |->
                    IF ping[i].answer = "none" THEN [ping[i] EXCEPT !.left = TRUE] ELSE ping[i]]
  BY DEF Pings!Move
<1>2. DOMAIN ping = Sent /\ Len(ping) \in Nat /\ \A i \in Sent : ping[i] \in PingRec
  BY SentDomain DEF PingInv, PingTyped
<1>3. presence' \in [Twins -> [place : Rooms, arrived : 1 .. MoveLimit + 1]]
  BY <1>1, PingClock DEF PingInv, PingTyped
<1>4. \A i \in Sent : ping'[i] \in PingRec /\ Kept(i)
  BY <1>1, <1>2 DEF PingRec, Kept
<1>5. ping' \in Seq(PingRec) /\ Len(ping') = Len(ping)
  BY <1>1, <1>2, <1>4 DEF Sent
<1>6. PingTyped'
  BY <1>1, <1>3, <1>5 DEF PingInv, PingTyped
<1>7. \A s \in Twins : presence'[s] = presence[s] \/ presence'[s].arrived > presence[s].arrived
  BY <1>1, PingClock DEF PingInv, PingTyped
<1>8. ASSUME NEW i \in Sent
      PROVE  SentOK(ping'[i], now', presence')
  <2>1. SentOK(ping[i], now, presence) /\ Kept(i) /\ ping[i] \in PingRec
    BY <1>2, <1>4 DEF PingInv
  <2>2. \A s \in Twins : /\ ping[i].arrived[s] \in Nat /\ presence[s].arrived \in Nat
                         /\ presence'[s].arrived \in Nat /\ presence'[s].arrived >= presence[s].arrived
    <3> SUFFICES ASSUME NEW s \in Twins
                 PROVE  /\ ping[i].arrived[s] \in Nat /\ presence[s].arrived \in Nat
                        /\ presence'[s].arrived \in Nat /\ presence'[s].arrived >= presence[s].arrived
      OBVIOUS
    <3>1. ping[i].arrived[s] \in Nat
      BY <2>1 DEF PingRec
    <3>2. presence[s].arrived \in 1 .. MoveLimit + 1 /\ presence'[s].arrived \in 1 .. MoveLimit + 1
      BY <1>3 DEF PingInv, PingTyped
    <3>3. presence[s].arrived \in Nat /\ presence'[s].arrived \in Nat
      BY <3>2, PingClock
    <3> QED BY <1>7, <3>1, <3>3
  <2>3. presence'[r].arrived > ping[i].arrived[r]
    BY <1>1, <2>1, <2>2, PingClock DEF PingInv, PingTyped, SentOK
  <2>4. \A s \in Twins : ping[i].arrived[s] <= presence'[s].arrived
    BY <2>1, <2>2 DEF SentOK
  <2>5. ping[i].answer # "none" => ping'[i] = ping[i]
    BY <1>1, <1>2
  <2> QED BY <1>1, <2>1, <2>3, <2>4, <2>5 DEF SentOK, Kept
<1>9. now' >= now
  BY <1>1 DEF PingInv, PingTyped
<1> QED BY <1>4, <1>5, <1>6, <1>7, <1>8, <1>9, RuleStays

\* A place closes, time passes, or the bound on time has ended the behaviour.
LEMMA PingWaits ==
  ASSUME PingInv, UNCHANGED <<presence, ping>>, PingTyped', now' >= now
  PROVE  PingInv'
<1>1. \A i \in Sent : ping[i] \in PingRec /\ now \in Nat /\ now' \in Nat
  BY SentDomain, PingClock DEF PingInv, PingTyped
<1>2. \A i \in Sent : SentOK(ping'[i], now', presence') /\ Kept(i)
  BY <1>1 DEF PingInv, SentOK, Kept, PingRec
<1> QED BY <1>2, RuleStays

\* An answer is given to an open offer, and no later ping follows one.
LEMMA PingAnswers ==
  ASSUME PingInv, NEW i \in Sent, NEW a \in {"yes", "no"}, Pings!answerPing(i, a)
  PROVE  PingInv'
<1>1. /\ ping' = [ping EXCEPT ![i].answer = a, ![i].answered = now]
      /\ Pings!pingStatus(ping[i]) = "offered" /\ UNCHANGED <<now, presence, closed>>
  BY DEF Pings!answerPing
<1>2. DOMAIN ping = Sent /\ Len(ping) \in Nat /\ \A k \in Sent : ping[k] \in PingRec
  BY SentDomain DEF PingInv, PingTyped
<1>3. now \in Nat /\ \A k \in Sent : ping'[k] \in PingRec
  <2>1. now \in Nat
    BY PingClock DEF PingInv, PingTyped
  <2>2. ping'[i] = [ping[i] EXCEPT !.answer = a, !.answered = now]
    BY <1>1, <1>2
  <2>3. ping'[i] \in PingRec
    BY <1>2, <2>1, <2>2 DEF PingRec
  <2>4. \A k \in Sent : k # i => ping'[k] = ping[k]
    BY <1>1, <1>2
  <2> QED BY <1>2, <2>1, <2>3, <2>4
<1>4. ping' \in Seq(PingRec) /\ Len(ping') = Len(ping) /\ Sent' = Sent
  <2>1. ping' \in [1 .. Len(ping) -> PingRec]
    <3>1. DOMAIN ping' = 1 .. Len(ping) /\ ping' = [k \in 1 .. Len(ping) |-> ping'[k]]
      BY <1>1, <1>2 DEF Sent
    <3> QED BY <1>3, <3>1 DEF Sent
  <2>2. ping' \in Seq(PingRec) /\ Len(ping') = Len(ping)
    BY <1>2, <2>1
  <2> QED BY <2>2 DEF Sent
<1>5. PingTyped'
  BY <1>1, <1>4 DEF PingInv, PingTyped
<1>6. /\ \A k \in Sent : ping'[k].sender = ping[k].sender /\ ping'[k].target = ping[k].target
                         /\ ping'[k].sent = ping[k].sent
      /\ \A k \in Sent : k # i => ping'[k] = ping[k]
      /\ ping'[i].answer = a /\ ping'[i].answered = now
      /\ ping'[i].arrived = ping[i].arrived /\ ping'[i].left = ping[i].left
  BY <1>1, <1>2 DEF PingRec
<1>7. \A j \in Sent : i < j => ping[i].sender # ping[j].sender
  BY <1>1 DEF PingInv, Allowed
<1>8. now < ping[i].sent + Offer /\ Pings!stillTogether(ping[i]) /\ ping[i].answer = "none"
  <2>1. ~(now >= ping[i].sent + Offer) /\ Pings!stillTogether(ping[i]) /\ ping[i].answer = "none"
    BY <1>1 DEF Pings!pingStatus
  <2>2. ping[i].sent \in Nat
    BY <1>2 DEF PingRec
  <2> QED BY <1>3, <2>1, <2>2, PingClock
<1>9. ASSUME NEW k \in Sent
      PROVE  SentOK(ping'[k], now', presence')
  <2>1. SentOK(ping[k], now, presence)
    BY DEF PingInv
  <2>2. CASE k # i
    BY <1>1, <1>6, <2>1, <2>2
  <2>3. CASE k = i
    <3>1. \A r \in Twins : presence[r].arrived = ping[i].arrived[r] /\ presence[r].arrived \in Nat
      BY <1>8, PingClock DEF Pings!stillTogether, PingInv, PingTyped
    <3>2. ~ping[i].left
      BY <2>1, <2>3, <3>1 DEF SentOK
    <3> QED BY <1>1, <1>2, <1>3, <1>6, <1>8, <2>1, <2>3, <3>1, <3>2 DEF SentOK
  <2> QED BY <2>2, <2>3
<1>10. ASSUME NEW k \in Sent, NEW j \in Sent, k < j, ping'[k].sender = ping'[j].sender
       PROVE  Allowed(k, j)'
  <2>1. Allowed(k, j) /\ k # i
    BY <1>6, <1>7, <1>10 DEF PingInv
  <2>2. ping'[k] = ping[k] /\ ping'[j].sent = ping[j].sent
    BY <1>6, <2>1
  <2>3. Pings!pingStatus(ping[k])' # "offered"
    BY <1>1, <2>1, <2>2 DEF Allowed, Pings!pingStatus, Pings!stillTogether
  <2> QED BY <1>4, <1>6, <2>1, <2>2, <2>3 DEF Allowed, Pings!NextAllowed
<1>11. ASSUME NEW who \in Twins, NEW day \in Nat
       PROVE  Cardinality(Unanswered(ping', who, day)) <= Misses
  <2>1. Unanswered(ping', who, day) \subseteq Unanswered(ping, who, day)
    BY <1>4, <1>6 DEF Unanswered, Sent
  <2>2. IsFiniteSet(Unanswered(ping, who, day)) /\ Cardinality(Unanswered(ping, who, day)) <= Misses
    BY <1>2, LinesCount DEF PingInv, Unanswered
  <2>3. Cardinality(Unanswered(ping', who, day)) <= Cardinality(Unanswered(ping, who, day))
    BY <2>1, <2>2, FS_Subset
  <2>4. /\ Cardinality(Unanswered(ping', who, day)) \in Nat
        /\ Cardinality(Unanswered(ping, who, day)) \in Nat
    BY <2>1, <2>2, FS_Subset, FS_CardinalityType
  <2> QED BY <2>2, <2>3, <2>4, PingClock
<1>12. \A k, j \in Sent : k < j => ping'[k].sent <= ping'[j].sent
  BY <1>6 DEF PingInv
<1> QED BY <1>4, <1>5, <1>9, <1>10, <1>11, <1>12 DEF PingInv

\* What an admission finds out: of every earlier ping of the sender, although it reads the
\* last day's alone, and of the unanswered ones of the day.
CanFollow(i) ==
  /\ Pings!pingStatus(ping[i]) # "offered" /\ now >= Pings!NextAllowed(ping[i])
  /\ ping[i].answer = "no" /\ now < ping[i].answered + AfterNo =>
       \E k \in Sent : ping[k].sender = ping[i].target /\ ping[k].sent > ping[i].answered

LEMMA HistoryIsLate ==
  ASSUME PingInv, NEW i \in Sent
  PROVE  /\ i \notin Pings!History => ping[i].sent < now - AfterNo - Offer
         /\ ping[i].sent >= Pings!DayStart(now) => i \in Pings!History
<1>1. ping[i].sent \in Nat /\ now \in Nat /\ i \in DOMAIN ping
  BY SentDomain, PingClock DEF PingInv, PingTyped, PingRec
<1> DEFINE d == Pings!DayStart(now)
<1>2. d \in Nat
  BY <1>1, PingClock, DayBegins DEF Pings!DayStart, Pings!DayOf
<1>3. i \in Pings!History <=> ping[i].sent >= Pings!Min2(d, now - AfterNo - Offer)
  BY <1>1 DEF Pings!History, Pings!pairHistoryStart
<1>4. Pings!Min2(d, now - AfterNo - Offer) <= d /\ Pings!Min2(d, now - AfterNo - Offer) <= now - AfterNo - Offer
      /\ Pings!Min2(d, now - AfterNo - Offer) \in Int
  BY <1>1, <1>2, PingClock DEF Pings!Min2
<1> HIDE DEF d
<1> QED BY <1>1, <1>2, <1>3, <1>4, PingClock DEF d

\* What is older than the history the query returns forbids nothing.
LEMMA OldAllows ==
  ASSUME PingInv, NEW i \in Sent, i \notin Pings!History
  PROVE  CanFollow(i)
<1>1. ping[i] \in PingRec /\ now \in Nat /\ SentOK(ping[i], now, presence)
  BY SentDomain, PingClock DEF PingInv, PingTyped
<1>2. ping[i].sent < now - AfterNo - Offer
  BY HistoryIsLate
<1>3. now >= ping[i].sent + Offer /\ ping[i].sent \in Nat
  BY <1>1, <1>2, PingClock DEF PingRec
<1>4. Pings!pingStatus(ping[i]) # "offered"
  BY <1>3 DEF Pings!pingStatus
<1>5. now >= Pings!NextAllowed(ping[i])
  BY <1>1, <1>2, <1>3, PingClock DEF Pings!NextAllowed
<1>6. ping[i].answer = "no" => now >= ping[i].answered + AfterNo
  BY <1>1, <1>2, PingClock DEF SentOK, PingRec
<1>7. ping[i].answered \in Nat
  BY <1>1 DEF PingRec
<1> QED BY <1>1, <1>4, <1>5, <1>6, <1>7, PingClock DEF CanFollow

LEMMA PingAdmits ==
  ASSUME PingInv, NEW r \in Twins, Pings!pingAdmission(r, Pings!History) = "ok"
  PROVE  /\ \A i \in Sent : ping[i].sender = r => CanFollow(i)
         /\ Cardinality(Unanswered(ping, r, now \div PingDay)) < Misses
<1> DEFINE hist == Pings!History
           mine == {i \in hist : ping[i].sender = r}
           last == IF mine = {} THEN 0 ELSE CHOOSE i \in mine : \A j \in mine : j <= i
<1>1. /\ ~Pings!SaidNo(last, hist)
      /\ ~(last # 0 /\ Pings!pingStatus(ping[last]) = "offered")
      /\ ~(Cardinality(Pings!Missed(mine)) >= Misses)
      /\ ~(last # 0 /\ now < Pings!NextAllowed(ping[last]))
  BY PingCounts DEF Pings!pingAdmission
<1>2. DOMAIN ping = Sent /\ Len(ping) \in Nat /\ now \in Nat /\ \A i \in Sent : ping[i] \in PingRec
  BY SentDomain, PingClock DEF PingInv, PingTyped
<1>3. hist \subseteq Sent
  BY <1>2 DEF Pings!History
<1>4. mine # {} => last \in mine /\ \A j \in mine : j <= last
  <2>1. mine \subseteq 1 .. Len(ping)
    BY <1>3 DEF Sent
  <2> HIDE DEF mine
  <2> QED BY <1>2, <2>1, LatestExists
<1> HIDE DEF last, mine, hist
<1>5. ASSUME NEW i \in Sent, ping[i].sender = r
      PROVE  CanFollow(i)
  <2>1. CASE i \notin hist
    BY <2>1, OldAllows DEF hist
  <2>2. CASE i \in hist
    <3>1. /\ i \in mine /\ last \in mine /\ i <= last /\ last \in Sent /\ last # 0
          /\ ping[last].sender = r
      <4>1. i \in mine
        BY <1>5, <2>2 DEF mine
      <4>2. last \in mine /\ i <= last
        BY <1>4, <4>1
      <4>3. last \in Sent /\ ping[last].sender = r
        BY <1>3, <4>2 DEF mine
      <4> QED BY <1>2, <4>1, <4>2, <4>3 DEF Sent
    <3>2. CASE i = last
      <4>1. Pings!pingStatus(ping[i]) # "offered" /\ now >= Pings!NextAllowed(ping[i])
        <5>1. Pings!NextAllowed(ping[i]) \in Int
          BY <1>2, PingClock DEF Pings!NextAllowed, PingRec
        <5> QED BY <1>1, <1>2, <3>1, <3>2, <5>1
      <4>2. ASSUME ping[i].answer = "no", now < ping[i].answered + AfterNo
            PROVE  \E k \in Sent : ping[k].sender = ping[i].target /\ ping[k].sent > ping[i].answered
        <5>1. ping[i].answered + AfterNo > now
          BY <1>2, <4>2, PingClock DEF PingRec
        <5> QED BY <1>1, <1>3, <3>1, <3>2, <4>2, <5>1 DEF Pings!SaidNo
      <4> QED BY <4>1, <4>2 DEF CanFollow
    <3>3. CASE i < last
      <4>1. Allowed(i, last) /\ SentOK(ping[last], now, presence)
        BY <1>5, <3>1, <3>3 DEF PingInv
      <4>2. ping[last].sent <= now /\ ping[last].sent \in Nat /\ ping[i].answered \in Nat
            /\ Pings!NextAllowed(ping[i]) \in Int
        <5>1. ping[last] \in PingRec /\ ping[i] \in PingRec
          BY <1>2, <3>1
        <5>2. /\ ping[last].sent \in Nat /\ ping[i].sent \in Nat /\ ping[i].answered \in Nat
          BY <5>1 DEF PingRec
        <5> QED BY <4>1, <5>2, PingClock DEF SentOK, Pings!NextAllowed
      <4>3. now >= Pings!NextAllowed(ping[i])
        BY <1>2, <4>1, <4>2 DEF Allowed
      <4>4. now < ping[i].answered + AfterNo => ping[last].sent < ping[i].answered + AfterNo
        <5>1. PICK a, b : a = ping[last].sent /\ b = ping[i].answered + AfterNo
          OBVIOUS
        <5>2. a \in Nat /\ b \in Nat /\ now \in Nat /\ a <= now
          BY <1>2, <4>2, <5>1, PingClock
        <5>3. now < b => a < b
          BY <5>2
        <5> QED BY <5>1, <5>3
      <4> QED BY <4>1, <4>3, <4>4 DEF Allowed, CanFollow
    <3> QED BY <3>1, <3>2, <3>3 DEF Sent
  <2> QED BY <2>1, <2>2
<1>6. Unanswered(ping, r, now \div PingDay) \subseteq Pings!Missed(mine)
  <2> SUFFICES ASSUME NEW j \in Unanswered(ping, r, now \div PingDay)
               PROVE  j \in Pings!Missed(mine)
    OBVIOUS
  <2>1. /\ j \in Sent /\ ping[j].sender = r /\ ping[j].answer = "none"
        /\ ping[j].sent \div PingDay = now \div PingDay
    BY DEF Unanswered, Sent
  <2>2. ping[j].sent >= Pings!DayStart(now)
    <3>1. ping[j].sent \in Nat
      BY <1>2, <2>1 DEF PingRec
    <3>2. (ping[j].sent \div PingDay) * PingDay <= ping[j].sent
      BY <3>1, PingClock, DayBegins
    <3>3. (now \div PingDay) * PingDay \in Nat
      BY <1>2, PingClock, DayBegins
    <3> QED BY <2>1, <3>1, <3>2, <3>3 DEF Pings!DayStart, Pings!DayOf
  <2>3. j \in mine
    BY <2>1, <2>2, HistoryIsLate DEF mine, hist
  <2>4. Pings!pingStatus(ping[j]) = "expired"
    BY <1>5, <2>1 DEF CanFollow, Pings!pingStatus
  <2> QED BY <2>2, <2>3, <2>4 DEF Pings!Missed
<1>7. IsFiniteSet(Pings!Missed(mine)) /\ Cardinality(Pings!Missed(mine)) \in Nat
  <2>1. Pings!Missed(mine) \subseteq 1 .. Len(ping)
    BY <1>3 DEF Pings!Missed, mine, Sent
  <2> QED BY <1>2, <2>1, LinesCount
<1>8. /\ Cardinality(Unanswered(ping, r, now \div PingDay)) <= Cardinality(Pings!Missed(mine))
      /\ Cardinality(Unanswered(ping, r, now \div PingDay)) \in Nat
  BY <1>6, <1>7, FS_Subset, FS_CardinalityType
<1> QED BY <1>1, <1>5, <1>7, <1>8, PingClock

LEMMA PingInvites ==
  ASSUME PingInv, NEW r \in Twins, Pings!invitePing(r)
  PROVE  PingInv'
<1> DEFINE n == Len(ping)
           p == Pings!NewPing(r)
<1>1. /\ ping' = Append(ping, p) /\ n < PingLimit /\ UNCHANGED <<now, presence, closed>>
      /\ Pings!pingAdmission(r, Pings!History) = "ok"
  BY DEF Pings!invitePing
<1>2. DOMAIN ping = Sent /\ n \in Nat /\ now \in Nat /\ \A i \in Sent : ping[i] \in PingRec
  BY SentDomain, PingClock DEF PingInv, PingTyped
<1>3. /\ p.sender = r /\ p.sent = now /\ p.answer = "none" /\ p.left = FALSE
      /\ p.arrived = [s \in Twins |-> presence[s].arrived]
  BY DEF Pings!NewPing
<1>4. p \in PingRec
  <2>1. [s \in Twins |-> presence[s].arrived] \in [Twins -> Nat] /\ presence[r].place \in Rooms
    BY PingClock DEF PingInv, PingTyped
  <2> QED BY <1>2, <2>1 DEF Pings!NewPing, PingRec
<1> HIDE DEF p
<1>5. /\ ping' \in Seq(PingRec) /\ Len(ping') = n + 1 /\ ping'[n + 1] = p
      /\ \A i \in Sent : ping'[i] = ping[i]
  BY <1>1, <1>2, <1>4 DEF PingInv, PingTyped, Sent
<1>6. Sent' = Sent \cup {n + 1} /\ \A i \in Sent : i < n + 1 /\ i \in Nat
  BY <1>2, <1>5 DEF Sent
<1>7. PingTyped'
  BY <1>1, <1>2, <1>5, PingClock DEF PingInv, PingTyped
<1>8. ASSUME NEW i \in Sent'
      PROVE  SentOK(ping'[i], now', presence')
  <2>1. CASE i \in Sent
    BY <1>1, <1>5, <2>1 DEF PingInv
  <2>2. SentOK(p, now, presence)
    <3>1. \A s \in Twins : presence[s].arrived \in Nat
      BY PingClock DEF PingInv, PingTyped
    <3> QED BY <1>2, <1>3, <3>1 DEF SentOK
  <2> QED BY <1>1, <1>5, <1>6, <2>1, <2>2
<1>9. ASSUME NEW i \in Sent', NEW j \in Sent', i < j
      PROVE  ping'[i].sent <= ping'[j].sent
  <2>1. i \in Sent
    BY <1>2, <1>6, <1>9
  <2>2. ping[i].sent <= now
    BY <2>1 DEF PingInv, SentOK
  <2> QED BY <1>3, <1>5, <1>6, <1>9, <2>1, <2>2 DEF PingInv
<1>10. ASSUME NEW i \in Sent', NEW j \in Sent', i < j, ping'[i].sender = ping'[j].sender
       PROVE  Allowed(i, j)'
  <2>1. i \in Sent /\ ping'[i] = ping[i]
    BY <1>2, <1>5, <1>6, <1>10
  <2>2. Pings!pingStatus(ping[i]) # "offered" => Pings!pingStatus(ping[i])' # "offered"
    BY <1>1, <2>1 DEF Pings!pingStatus, Pings!stillTogether
  <2>3. CASE j \in Sent
    <3>1. Allowed(i, j) /\ ping'[j] = ping[j]
      BY <1>5, <1>10, <2>1, <2>3 DEF PingInv
    <3> QED BY <1>5, <1>6, <2>1, <2>2, <2>3, <3>1 DEF Allowed, Pings!NextAllowed
  <2>4. CASE j = n + 1
    <3>1. CanFollow(i) /\ ping'[j] = p
      BY <1>1, <1>3, <1>5, <1>10, <2>1, <2>4, PingAdmits
    <3>2. \A k \in Sent : k < j /\ k \in Sent' /\ ping'[k] = ping[k]
      BY <1>5, <1>6, <2>4
    <3> QED BY <1>3, <2>1, <2>2, <3>1, <3>2 DEF Allowed, CanFollow, Pings!NextAllowed
  <2> QED BY <1>6, <2>3, <2>4
<1>11. ASSUME NEW who \in Twins, NEW day \in Nat
       PROVE  Cardinality(Unanswered(ping', who, day)) <= Misses
  <2>1. Unanswered(ping, who, day) \in SUBSET (1 .. n)
    BY DEF Unanswered
  <2>2. CASE who = r /\ day = now \div PingDay
    <3>1. Unanswered(ping', who, day) = Unanswered(ping, who, day) \cup {n + 1}
      BY <1>2, <1>3, <1>5, <2>2 DEF Unanswered, Sent
    <3>2. Cardinality(Unanswered(ping', who, day)) = Cardinality(Unanswered(ping, who, day)) + 1
      BY <1>2, <2>1, <3>1, LinesCount
    <3>3. /\ Cardinality(Unanswered(ping, who, day)) \in Nat
          /\ Cardinality(Unanswered(ping, who, day)) < Misses
      BY <1>1, <1>2, <2>1, <2>2, LinesCount, PingAdmits
    <3> QED BY <3>2, <3>3, PingClock
  <2>3. CASE ~(who = r /\ day = now \div PingDay)
    <3>1. Unanswered(ping', who, day) = Unanswered(ping, who, day)
      BY <1>2, <1>3, <1>5, <2>3 DEF Unanswered, Sent
    <3> QED BY <3>1 DEF PingInv
  <2> QED BY <2>2, <2>3
<1> QED BY <1>7, <1>8, <1>9, <1>10, <1>11 DEF PingInv

LEMMA PingSteps ==
  ASSUME PingInv, Pings!Next
  PROVE  PingInv'
<1>1. DOMAIN ping = Sent /\ now \in Nat
  BY SentDomain, PingClock DEF PingInv, PingTyped
<1>2. ASSUME NEW r \in Twins, NEW p \in Rooms, Pings!Move(r, p)
      PROVE  PingInv'
  BY <1>2, PingMoves
<1>3. ASSUME NEW p \in Rooms, Pings!Retire(p)
      PROVE  PingInv'
  <2>1. UNCHANGED <<now, presence, ping>> /\ closed' \subseteq Shut
    BY <1>3 DEF Pings!Retire, PingInv, PingTyped
  <2>2. PingTyped'
    BY <2>1 DEF PingInv, PingTyped
  <2> QED BY <1>1, <2>1, <2>2, PingWaits
<1>4. CASE Pings!Tick
  <2>1. UNCHANGED <<presence, ping, closed>> /\ now' = now + 1 /\ now < PingTime
    BY <1>4 DEF Pings!Tick
  <2>2. PingTyped'
    BY <1>1, <2>1, PingClock DEF PingInv, PingTyped
  <2> QED BY <1>1, <2>1, <2>2, PingWaits
<1>5. CASE Pings!Over
  <2>1. UNCHANGED <<presence, ping, closed, now>>
    BY <1>5 DEF Pings!Over, Pings!vars
  <2>2. PingTyped'
    BY <2>1 DEF PingInv, PingTyped
  <2> QED BY <1>1, <2>1, <2>2, PingWaits
<1> QED BY <1>1, <1>2, <1>3, <1>4, <1>5, PingInvites, PingAnswers DEF Pings!Next

LEMMA PingMeans ==
  ASSUME PingInv
  PROVE  Pings!PingManners /\ Pings!TypeOK
<1>1. DOMAIN ping = Sent /\ Len(ping) \in Nat /\ \A i \in Sent : ping[i] \in PingRec
  BY SentDomain DEF PingInv, PingTyped
<1>2. ASSUME NEW i \in Sent
      PROVE  /\ \A j \in Pings!Later(i) : Allowed(i, j)
             /\ Cardinality({j \in Pings!SameDay(i) : ping[j].answer = "none"}) <= Misses
             /\ ping[i].answer # "none" => ~ping[i].left /\ ping[i].answered - ping[i].sent \in 0 .. Offer - 1
             /\ ping[i].answer \in {"none", "yes", "no"}
  <2>1. \A j \in Pings!Later(i) : Allowed(i, j)
    BY <1>1 DEF Pings!Later, PingInv
  <2>2. ping[i].sender \in Twins /\ ping[i].sent \in Nat /\ ping[i].answered \in Nat
    BY <1>1 DEF PingRec
  <2>3. Cardinality({j \in Pings!SameDay(i) : ping[j].answer = "none"}) <= Misses
    <3>1. ping[i].sent \div PingDay \in Nat
      BY <2>2, PingClock, DivNatural
    <3>2. {j \in Pings!SameDay(i) : ping[j].answer = "none"}
            = Unanswered(ping, ping[i].sender, ping[i].sent \div PingDay)
      BY <1>1 DEF Pings!SameDay, Pings!DayOf, Unanswered, Sent
    <3> QED BY <2>2, <3>1, <3>2 DEF PingInv
  <2>4. SentOK(ping[i], now, presence) /\ ping[i].answer \in {"none", "yes", "no"}
    BY <1>1 DEF PingInv, PingRec
  <2> QED BY <2>1, <2>2, <2>3, <2>4, PingClock DEF SentOK
<1>3. Pings!PingManners
  BY <1>1, <1>2, PingCounts DEF Pings!PingManners, Allowed
<1>4. Pings!TypeOK
  BY <1>1, <1>2 DEF Pings!TypeOK, PingInv, PingTyped
<1> QED BY <1>3, <1>4

PairInv == part = "pings" => PingInv

LEMMA PairHolds == RoomsSpec => []PairInv
<1>1. RoomsInit => PairInv
  BY PingStarts DEF RoomsInit, TalkInit, WorkInit, PairInv
<1>2. PairInv /\ [RoomsNext]_roomVars => PairInv'
  <2> SUFFICES ASSUME PairInv, [RoomsNext]_roomVars, part' = "pings"
               PROVE  PingInv'
    BY DEF PairInv
  <2>1. part = "pings" /\ PingInv
    BY DEF RoomsNext, roomVars, PairInv
  <2>2. CASE Pings!Next
    BY <2>1, <2>2, PingSteps
  <2>3. CASE UNCHANGED <<now, presence, closed, ping>>
    <3>1. UNCHANGED Pings!vars
      BY <2>3 DEF Pings!vars
    <3>2. PingTyped' /\ now' >= now
      BY <2>1, <2>3, PingClock DEF PingInv, PingTyped
    <3> QED BY <2>1, <2>3, <3>2, PingWaits
  <2> QED BY <2>1, <2>2, <2>3 DEF RoomsNext, TalkNext, WorkNext, roomVars, pingVars
<1> QED BY <1>1, <1>2, PTL DEF RoomsSpec

\* The published rule of pings holds over the whole history of a pair although the code
\* reads the last day's pings alone, for any waiting times of that order, number of pings,
\* moves and retired places (pingAdmission, pairHistoryStart, pingStatus).
THEOREM MannersHold == RoomsSpec => []PingManners
<1>1. PairInv => PingManners
  BY PingMeans DEF PairInv, PingManners
<1> QED BY <1>1, PairHolds, PTL

-----------------------------------------------------------------------------
(* DueTimers: a stored effect runs once                                    *)

DueRow ==
  [due : Nat, logical : Nat, left : Nat, generation : 0 .. Generations,
   parent : 1 .. EffectLimit \cup {None}]
Status == {None, "applied", "skipped", "failed"}
Visit ==
  {Timers!Away} \cup {[pc |-> "next"]}
    \cup [pc : {"batch"}, batch : SUBSET Nat, failing : Nat \cup {None}]
Rows == 1 .. Len(pending)

TimerTyped ==
  /\ now \in 0 .. TimerTime /\ visit \in [Twins -> Visit]
  /\ pending \in Seq(DueRow) /\ resolution \in Seq(Status) /\ ran \in Seq(Nat)
  /\ Len(resolution) = Len(pending) /\ Len(ran) = Len(pending) /\ Len(pending) <= EffectLimit

\* A row ran when it is applied, and not before its time.
RowOK(e) ==
  /\ ran[e] = IF resolution[e] = "applied" THEN 1 ELSE 0
  /\ pending[e].logical <= pending[e].due
  /\ ran[e] > 0 => pending[e].due <= now

\* A next turn follows a repeating effect that ran, at its own time of the chain.
NextTurnOK(f) ==
  pending[f].parent # None =>
    /\ pending[f].parent \in Rows
    /\ ran[pending[f].parent] = 1 /\ Timers!Repeated(pending[f].parent)
    /\ pending[f].logical = pending[pending[f].parent].logical + WaitTicks

TimerInv ==
  /\ TimerTyped
  /\ \A e \in Rows : RowOK(e) /\ NextTurnOK(e)
  /\ \A f, g \in Rows : pending[f].parent # None /\ pending[f].parent = pending[g].parent => f = g
  /\ \A e \in Rows : ran[e] = 1 /\ Timers!Repeated(e) => \E f \in Rows : pending[f].parent = e
  /\ Cardinality(Timers!Unresolved) <= PendingMax

LEMMA TimerCounts == \A S : Timers!Cardinality(S) = Cardinality(S)
  BY DEF Timers!Cardinality, Cardinality

LEMMA TimerClock ==
  /\ WaitTicks \in Nat /\ Repeats \in Nat /\ PendingMax \in Nat /\ Generations \in Nat
  /\ EffectLimit \in Nat /\ TimerTime \in Nat
  /\ None \notin 1 .. EffectLimit /\ None \notin {"applied", "skipped", "failed"}
  BY TimerAssumption

LEMMA RowDomain ==
  ASSUME TimerTyped
  PROVE  /\ DOMAIN pending = Rows /\ DOMAIN resolution = Rows /\ DOMAIN ran = Rows
         /\ Len(pending) \in Nat /\ now \in Nat
         /\ \A e \in Rows : /\ pending[e] \in DueRow /\ resolution[e] \in Status /\ ran[e] \in Nat
                            /\ e \in Nat /\ e \in 1 .. EffectLimit
<1>1. Len(pending) \in Nat /\ now \in Nat
  BY TimerClock DEF TimerTyped
<1>2. DOMAIN pending = Rows /\ DOMAIN resolution = Rows /\ DOMAIN ran = Rows
  BY DEF TimerTyped, Rows
<1>3. \A e \in Rows : e \in Nat /\ e \in 1 .. EffectLimit
  BY <1>1, TimerClock DEF TimerTyped, Rows
<1> QED BY <1>1, <1>2, <1>3 DEF TimerTyped

LEMMA QueueCounts ==
  ASSUME TimerTyped
  PROVE  /\ Timers!Unresolved = {e \in Rows : resolution[e] = None}
         /\ IsFiniteSet(Timers!Unresolved) /\ Cardinality(Timers!Unresolved) \in Nat
         /\ Cardinality(Timers!Unresolved \cup {Len(pending) + 1}) = Cardinality(Timers!Unresolved) + 1
<1>1. Timers!Unresolved = {e \in Rows : resolution[e] = None}
  BY RowDomain DEF Timers!Unresolved
<1>2. Timers!Unresolved \in SUBSET (1 .. Len(pending))
  BY <1>1 DEF Rows
<1> QED BY <1>1, <1>2, RowDomain, LinesCount

LEMMA TimerStarts ==
  ASSUME Timers!Init
  PROVE  TimerInv
<1>1. now = 0 /\ pending = <<>> /\ resolution = <<>> /\ ran = <<>> /\ Rows = {}
  BY DEF Timers!Init, Rows
<1>2. visit \in [Twins -> Visit]
  BY DEF Timers!Init, Visit
<1>3. TimerTyped
  BY <1>1, <1>2, TimerClock DEF TimerTyped
<1>4. Cardinality(Timers!Unresolved) <= PendingMax
  <2>1. Timers!Unresolved = {}
    BY <1>1, <1>3, QueueCounts
  <2> QED BY <2>1, FS_EmptySet, TimerClock
<1> QED BY <1>1, <1>3, <1>4 DEF TimerInv

\* A step that reads the rows and does not write them.
LEMMA TimerRests ==
  ASSUME TimerInv, UNCHANGED <<pending, resolution, ran>>, visit' \in [Twins -> Visit],
         now' \in 0 .. TimerTime, now' >= now
  PROVE  TimerInv'
<1>1. Rows' = Rows /\ \A e : Timers!Repeated(e)' <=> Timers!Repeated(e)
  BY DEF Rows, Timers!Repeated
<1>2. TimerTyped'
  BY DEF TimerInv, TimerTyped
<1>3. Timers!Unresolved' = Timers!Unresolved
  BY DEF Timers!Unresolved
<1>4. ASSUME NEW e \in Rows
      PROVE  RowOK(e)' /\ NextTurnOK(e)'
  <2>1. RowOK(e) /\ NextTurnOK(e) /\ pending[e] \in DueRow /\ now \in Nat /\ now' \in Nat
    BY RowDomain, TimerClock DEF TimerInv
  <2> QED BY <1>1, <2>1 DEF RowOK, NextTurnOK, DueRow
<1> QED BY <1>1, <1>2, <1>3, <1>4 DEF TimerInv

\* A due row is recorded as skipped or failed, or as applied when it does not repeat.
LEMMA TimerMarks ==
  ASSUME TimerInv, NEW e \in Rows, resolution[e] = None, pending[e].due <= now,
         NEW x \in Status \ {None}, resolution' = [resolution EXCEPT ![e] = x],
         ran' = IF x = "applied" THEN [ran EXCEPT ![e] = @ + 1] ELSE ran,
         x = "applied" => ~Timers!Repeated(e),
         UNCHANGED <<pending, now>>, visit' \in [Twins -> Visit]
  PROVE  TimerInv'
<1>1. /\ Rows' = Rows /\ \A f : Timers!Repeated(f)' <=> Timers!Repeated(f)
      /\ DOMAIN resolution = Rows /\ DOMAIN ran = Rows /\ Len(pending) \in Nat
      /\ \A f \in Rows : ran[f] \in Nat /\ resolution[f] \in Status /\ pending[f] \in DueRow
  BY RowDomain DEF TimerInv, Rows, Timers!Repeated
<1>2. ran[e] = 0
  BY TimerClock DEF TimerInv, RowOK
<1>3. /\ resolution'[e] = x /\ ran'[e] = IF x = "applied" THEN 1 ELSE 0
      /\ \A f \in Rows : f # e => resolution'[f] = resolution[f] /\ ran'[f] = ran[f]
  BY <1>1, <1>2
<1>4. TimerTyped'
  <2>1. resolution' \in Seq(Status) /\ Len(resolution') = Len(resolution)
    BY <1>1 DEF TimerInv, TimerTyped
  <2>2. ran' \in Seq(Nat) /\ Len(ran') = Len(ran)
    BY <1>1 DEF TimerInv, TimerTyped
  <2> QED BY <2>1, <2>2 DEF TimerInv, TimerTyped
<1>5. ASSUME NEW f \in Rows
      PROVE  RowOK(f)' /\ NextTurnOK(f)'
  <2>1. RowOK(f) /\ NextTurnOK(f)
    BY DEF TimerInv
  <2>2. RowOK(f)'
    BY <1>1, <1>3, <2>1 DEF RowOK
  <2>3. pending[f].parent # None => pending[f].parent # e
    BY <1>2, <2>1 DEF NextTurnOK
  <2> QED BY <1>1, <1>3, <2>1, <2>2, <2>3 DEF NextTurnOK
<1>6. \A f \in Rows : ran'[f] = 1 /\ Timers!Repeated(f) => \E g \in Rows : pending[g].parent = f
  BY <1>3 DEF TimerInv
<1>7. Cardinality(Timers!Unresolved') <= PendingMax
  <2>1. Timers!Unresolved' = {f \in Rows' : resolution'[f] = None}
    BY <1>4, RowDomain DEF Timers!Unresolved, TimerTyped, Rows
  <2>2. Timers!Unresolved' \subseteq Timers!Unresolved
    BY <1>1, <1>3, <2>1, QueueCounts DEF TimerInv
  <2>3. /\ Cardinality(Timers!Unresolved') <= Cardinality(Timers!Unresolved)
        /\ Cardinality(Timers!Unresolved') \in Nat /\ Cardinality(Timers!Unresolved) \in Nat
    BY <2>2, QueueCounts, FS_Subset, FS_CardinalityType DEF TimerInv
  <2> QED BY <2>3, TimerClock DEF TimerInv
<1> QED BY <1>1, <1>4, <1>5, <1>6, <1>7 DEF TimerInv

\* A row is stored: the wait of an action, or the next turn of the row that is resolved.
LEMMA TimerGrows ==
  ASSUME TimerInv, NEW p \in DueRow, p.logical <= p.due, Len(pending) < EffectLimit,
         Timers!HasRoom, pending' = Append(pending, p), UNCHANGED now,
         visit' \in [Twins -> Visit],
         \/ p.parent = None /\ resolution' = Append(resolution, None) /\ ran' = Append(ran, 0)
         \/ /\ p.parent \in Rows /\ resolution[p.parent] = None /\ Timers!Repeated(p.parent)
            /\ pending[p.parent].due <= now
            /\ p.logical = pending[p.parent].logical + WaitTicks
            /\ resolution' = Append([resolution EXCEPT ![p.parent] = "applied"], None)
            /\ ran' = Append([ran EXCEPT ![p.parent] = @ + 1], 0)
  PROVE  TimerInv'
<1> DEFINE n == Len(pending)
           e == p.parent
<1>1. /\ DOMAIN pending = Rows /\ DOMAIN resolution = Rows /\ DOMAIN ran = Rows /\ n \in Nat
      /\ \A f \in Rows : /\ ran[f] \in Nat /\ resolution[f] \in Status /\ pending[f] \in DueRow
                         /\ f \in 1 .. EffectLimit /\ f # n + 1
  BY RowDomain DEF TimerInv, Rows
<1>2. e # None => e \in Rows /\ ran[e] = 0 /\ resolution[e] = None /\ pending[e].due <= now
  BY TimerClock DEF TimerInv, RowOK
<1>3. /\ pending' \in Seq(DueRow) /\ Len(pending') = n + 1 /\ pending'[n + 1] = p
      /\ \A f \in Rows : pending'[f] = pending[f]
  BY <1>1 DEF TimerInv, TimerTyped, Rows
<1>4. Rows' = Rows \cup {n + 1}
  BY <1>1, <1>3 DEF Rows
<1>5. /\ resolution' \in Seq(Status) /\ Len(resolution') = n + 1 /\ resolution'[n + 1] = None
      /\ \A f \in Rows : resolution'[f] = IF f = e THEN "applied" ELSE resolution[f]
  <2> DEFINE s == IF e = None THEN resolution ELSE [resolution EXCEPT ![e] = "applied"]
  <2>1. resolution' = Append(s, None)
    BY <1>1, TimerClock
  <2>2. s \in Seq(Status) /\ Len(s) = n /\ \A f \in Rows : s[f] = IF f = e THEN "applied" ELSE resolution[f]
    <3>1. "applied" \in Status /\ resolution \in Seq(Status) /\ \A f \in Rows : f # None
      BY <1>1, TimerClock DEF TimerInv, TimerTyped, Status
    <3>2. CASE e = None
      BY <3>1, <3>2, <1>1
    <3>3. CASE e # None
      BY <3>1, <3>3, <1>1, <1>2
    <3> QED BY <3>2, <3>3
  <2> HIDE DEF s
  <2>3. None \in Status
    BY DEF Status
  <2> QED BY <1>1, <2>1, <2>2, <2>3 DEF Rows
<1>6. /\ ran' \in Seq(Nat) /\ Len(ran') = n + 1 /\ ran'[n + 1] = 0
      /\ \A f \in Rows : ran'[f] = IF f = e THEN 1 ELSE ran[f]
  <2> DEFINE s == IF e = None THEN ran ELSE [ran EXCEPT ![e] = @ + 1]
  <2>1. ran' = Append(s, 0)
    BY <1>1, TimerClock
  <2>2. s \in Seq(Nat) /\ Len(s) = n /\ \A f \in Rows : s[f] = IF f = e THEN 1 ELSE ran[f]
    BY <1>1, <1>2, TimerClock DEF TimerInv, TimerTyped
  <2> HIDE DEF s
  <2> QED BY <1>1, <2>1, <2>2 DEF Rows
<1>7. TimerTyped'
  BY <1>1, <1>3, <1>5, <1>6, TimerClock DEF TimerInv, TimerTyped
<1>8. \A f \in Rows : Timers!Repeated(f)' <=> Timers!Repeated(f)
  BY <1>3 DEF Timers!Repeated
<1>9. ASSUME NEW f \in Rows'
      PROVE  RowOK(f)' /\ NextTurnOK(f)'
  <2>1. CASE f \in Rows
    <3>1. RowOK(f) /\ NextTurnOK(f) /\ pending'[f] = pending[f]
      BY <1>3, <2>1 DEF TimerInv
    <3>2. RowOK(f)'
      <4>1. f # None /\ now' = now
        BY <1>1, <2>1, TimerClock
      <4>2. CASE f = e
        BY <1>2, <1>5, <1>6, <2>1, <3>1, <4>1, <4>2 DEF RowOK
      <4>3. CASE f # e
        BY <1>5, <1>6, <2>1, <3>1, <4>1, <4>3 DEF RowOK
      <4> QED BY <4>2, <4>3
    <3>3. pending[f].parent # None => ran'[pending[f].parent] = 1 /\ pending'[pending[f].parent] = pending[pending[f].parent]
      BY <1>3, <1>6, <3>1 DEF NextTurnOK
    <3> QED BY <1>4, <1>8, <3>1, <3>2, <3>3 DEF NextTurnOK
  <2>2. CASE f = n + 1
    <3>1. RowOK(f)'
      BY <1>3, <1>5, <1>6, <2>2, TimerClock DEF RowOK
    <3>2. p.parent # None =>
            /\ p.parent \in Rows' /\ ran'[p.parent] = 1 /\ Timers!Repeated(p.parent)'
            /\ p.logical = pending'[p.parent].logical + WaitTicks
      BY <1>2, <1>3, <1>4, <1>6, <1>8
    <3> QED BY <1>3, <2>2, <3>1, <3>2 DEF NextTurnOK
  <2> QED BY <1>4, <2>1, <2>2
<1>10. ASSUME NEW f \in Rows', NEW g \in Rows', pending'[f].parent # None,
              pending'[f].parent = pending'[g].parent
       PROVE  f = g
  <2>1. \A h \in Rows : pending[h].parent # None => pending[h].parent # e
    BY <1>2 DEF TimerInv, NextTurnOK
  <2>2. CASE f \in Rows /\ g \in Rows
    <3>1. pending[f].parent # None /\ pending[f].parent = pending[g].parent
      BY <1>3, <1>10, <2>2
    <3> QED BY <2>2, <3>1 DEF TimerInv
  <2>3. \A h \in Rows : pending'[h].parent # None => pending'[h].parent # pending'[n + 1].parent
    BY <1>3, <2>1
  <2> HIDE DEF e
  <2> QED BY <1>4, <1>10, <2>2, <2>3
<1>11. ASSUME NEW f \in Rows', ran'[f] = 1, Timers!Repeated(f)'
       PROVE  \E g \in Rows' : pending'[g].parent = f
  <2>1. f \in Rows
    BY <1>4, <1>6, <1>11
  <2>2. CASE f = e
    BY <1>3, <1>4, <2>2
  <2>3. CASE f # e
    <3>1. PICK g \in Rows : pending[g].parent = f
      BY <1>6, <1>8, <1>11, <2>1, <2>3 DEF TimerInv
    <3> QED BY <1>3, <1>4, <3>1
  <2> QED BY <2>2, <2>3
<1>12. Cardinality(Timers!Unresolved') <= PendingMax
  <2>1. Timers!Unresolved' = {f \in Rows' : resolution'[f] = None}
    BY <1>5, <1>3 DEF Timers!Unresolved, Rows
  <2>2. Timers!Unresolved' \subseteq Timers!Unresolved \cup {n + 1}
    BY <1>4, <1>5, <2>1, QueueCounts, TimerClock DEF TimerInv
  <2>3. Cardinality(Timers!Unresolved) < PendingMax
    BY TimerCounts DEF Timers!HasRoom
  <2>4. /\ IsFiniteSet(Timers!Unresolved \cup {n + 1})
        /\ Cardinality(Timers!Unresolved \cup {n + 1}) = Cardinality(Timers!Unresolved) + 1
        /\ Cardinality(Timers!Unresolved) \in Nat
    BY QueueCounts, FS_AddElement DEF TimerInv
  <2>5. /\ Cardinality(Timers!Unresolved') <= Cardinality(Timers!Unresolved \cup {n + 1})
        /\ Cardinality(Timers!Unresolved') \in Nat
    BY <2>2, <2>4, FS_Subset, FS_CardinalityType
  <2> QED BY <2>3, <2>4, <2>5, TimerClock
<1> QED BY <1>7, <1>9, <1>10, <1>11, <1>12 DEF TimerInv


LEMMA TimerSchedules ==
  ASSUME TimerInv, Timers!scheduleEffect
  PROVE  TimerInv'
<1>1. PICK left \in 0 .. Repeats :
        pending' = Append(pending, Timers!NewEffect(now + WaitTicks, left, 0, None))
  BY DEF Timers!scheduleEffect
<1> DEFINE p == Timers!NewEffect(now + WaitTicks, left, 0, None)
<1>2. p \in DueRow /\ p.logical <= p.due /\ p.parent = None
  BY RowDomain, TimerClock DEF TimerInv, Timers!NewEffect, DueRow
<1>3. /\ Len(pending) < EffectLimit /\ Timers!HasRoom /\ UNCHANGED <<now, visit>>
      /\ resolution' = Append(resolution, None) /\ ran' = Append(ran, 0)
  BY DEF Timers!scheduleEffect
<1>4. visit' \in [Twins -> Visit]
  BY <1>3 DEF TimerInv, TimerTyped
<1> HIDE DEF p
<1> QED BY <1>1, <1>2, <1>3, <1>4, TimerGrows DEF p

\* The visits that have a batch.
LEMMA BatchVisit ==
  ASSUME visit \in [Twins -> Visit], NEW v \in Twins, visit[v].pc = "batch"
  PROVE  visit[v] \in [pc : {"batch"}, batch : SUBSET Nat, failing : Nat \cup {None}]
<1>1. visit[v] \in Visit
  OBVIOUS
<1> QED BY <1>1 DEF Visit, Timers!Away

LEMMA VisitGoesOn ==
  ASSUME visit \in [Twins -> Visit], NEW v \in Twins, visit[v].pc = "batch", NEW e \in Nat
  PROVE  /\ Timers!Done(v, e) \in [Twins -> Visit]
         /\ [visit EXCEPT ![v].failing = e] \in [Twins -> Visit]
<1>1. visit[v] \in [pc : {"batch"}, batch : SUBSET Nat, failing : Nat \cup {None}]
  BY BatchVisit
<1>2. [visit[v] EXCEPT !.failing = e] \in Visit
  BY <1>1 DEF Visit
<1> DEFINE y == [pc |-> "batch", batch |-> visit[v].batch \ {e}, failing |-> None]
           x == IF visit[v].batch \ {e} = {} THEN [pc |-> "next"] ELSE y
           z == [visit[v] EXCEPT !.failing = e]
<1>3. x \in Visit /\ z \in Visit
  <2>1. y \in Visit /\ z \in Visit /\ [pc |-> "next"] \in Visit
    BY <1>1, <1>2 DEF Visit
  <2> HIDE DEF y
  <2> QED BY <2>1
<1>4. Timers!Done(v, e) = [visit EXCEPT ![v] = x] /\ [visit EXCEPT ![v].failing = e] = [visit EXCEPT ![v] = z]
  BY DEF Timers!Done
<1> HIDE DEF x, z
<1> QED BY <1>3, <1>4

LEMMA TimerResolves ==
  ASSUME TimerInv, NEW v \in Twins, NEW e \in DOMAIN pending, Timers!resolveOne(v, e)
  PROVE  TimerInv'
<1>1. e \in Rows /\ e \in Nat /\ e \in 1 .. EffectLimit /\ pending[e] \in DueRow /\ ran[e] \in Nat
      /\ now \in Nat /\ DOMAIN ran = Rows
  BY RowDomain DEF TimerInv
<1>2. /\ Timers!Done(v, e) \in [Twins -> Visit] /\ [visit EXCEPT ![v].failing = e] \in [Twins -> Visit]
  BY <1>1, VisitGoesOn DEF Timers!resolveOne, Timers!Turn, TimerInv, TimerTyped
<1>3. now' = now /\ visit' \in [Twins -> Visit] /\ now \in 0 .. TimerTime
  BY <1>2 DEF Timers!resolveOne, TimerInv, TimerTyped
<1>4. CASE ~Timers!lockAndLoadPending(e)
  <2>1. UNCHANGED <<pending, resolution, ran>>
    BY <1>4 DEF Timers!resolveOne
  <2> QED BY <1>1, <1>3, <2>1, TimerRests
<1>5. CASE Timers!lockAndLoadPending(e)
  <2>1. resolution[e] = None /\ pending[e].due <= now
    BY <1>5 DEF Timers!lockAndLoadPending, Timers!IsDue, Timers!Unresolved
  <2>2. CASE resolution' = [resolution EXCEPT ![e] = "skipped"] /\ UNCHANGED <<pending, ran>>
    <3>1. "skipped" \in Status \ {None} /\ "skipped" # "applied"
      BY TimerClock DEF Status
    <3> QED BY <1>1, <1>3, <2>1, <2>2, <3>1, TimerMarks
  <2>3. CASE /\ ~Timers!Repeated(e) /\ UNCHANGED pending
             /\ resolution' = [resolution EXCEPT ![e] = IF @ = None THEN "applied" ELSE @]
             /\ ran' = [ran EXCEPT ![e] = @ + 1]
    <3>1. "applied" \in Status \ {None}
      BY TimerClock DEF Status
    <3>2. resolution' = [resolution EXCEPT ![e] = "applied"]
      BY <2>1, <2>3
    <3> QED BY <1>1, <1>3, <2>1, <2>3, <3>1, <3>2, TimerMarks
  <2>4. CASE /\ Timers!Repeated(e) /\ Timers!HasRoom /\ Len(pending) < EffectLimit
             /\ pending' = Append(pending, Timers!NewEffect(pending[e].logical + WaitTicks,
                             pending[e].left - 1, pending[e].generation + 1, e))
             /\ resolution' = Append([resolution EXCEPT ![e] = IF @ = None THEN "applied" ELSE @], None)
             /\ ran' = Append([ran EXCEPT ![e] = @ + 1], 0)
    <3> DEFINE p == Timers!NewEffect(pending[e].logical + WaitTicks,
                      pending[e].left - 1, pending[e].generation + 1, e)
    <3>1. p \in DueRow /\ p.logical <= p.due /\ p.parent = e /\ p.logical = pending[e].logical + WaitTicks
      <4>1. /\ pending[e].logical \in Nat /\ pending[e].left \in Nat /\ pending[e].left > 0
            /\ pending[e].generation \in 0 .. Generations /\ pending[e].generation < Generations
        BY <1>1, <2>4 DEF Timers!Repeated, DueRow
      <4>2. /\ pending[e].logical + WaitTicks \in Nat /\ pending[e].left - 1 \in Nat
            /\ pending[e].generation + 1 \in 0 .. Generations
        BY <4>1, TimerClock
      <4>3. /\ p.due \in Nat /\ p.logical <= p.due
        BY <1>1, <4>2 DEF Timers!NewEffect
      <4>4. /\ p.logical = pending[e].logical + WaitTicks /\ p.left = pending[e].left - 1
            /\ p.generation = pending[e].generation + 1 /\ p.parent = e
            /\ p = [due |-> p.due, logical |-> p.logical, left |-> p.left,
                    generation |-> p.generation, parent |-> p.parent]
        BY DEF Timers!NewEffect
      <4> HIDE DEF p
      <4> QED BY <1>1, <4>2, <4>3, <4>4 DEF DueRow
    <3>2. resolution' = Append([resolution EXCEPT ![e] = "applied"], None)
      BY <2>1, <2>4
    <3>3. pending' = Append(pending, p)
      BY <2>4
    <3> HIDE DEF p
    <3> QED BY <1>1, <1>3, <2>1, <2>4, <3>1, <3>2, <3>3, TimerGrows
  <2> QED BY <1>5, <2>2, <2>3, <2>4 DEF Timers!resolveOne
<1> QED BY <1>4, <1>5

\* A failure is recorded where the row is still due, and otherwise nothing is.
LEMMA TimerFails ==
  ASSUME TimerInv, NEW v \in Twins, Timers!recordFailedEffect(v)
  PROVE  TimerInv'
<1> DEFINE e == visit[v].failing
<1>1. /\ visit[v].pc = "batch" /\ e # None /\ visit' = Timers!Done(v, e)
      /\ UNCHANGED <<now, pending, ran>>
      /\ resolution' = [resolution EXCEPT ![e] =
                          IF Timers!lockAndLoadPending(e) /\ @ = None THEN "failed" ELSE @]
  BY DEF Timers!recordFailedEffect
<1>2. e \in Nat
  BY <1>1, BatchVisit DEF TimerInv, TimerTyped
<1>3. visit' \in [Twins -> Visit] /\ now \in 0 .. TimerTime /\ now \in Nat /\ resolution \in Seq(Status)
  BY <1>1, <1>2, VisitGoesOn, RowDomain DEF TimerInv, TimerTyped
<1> HIDE DEF e
<1>4. CASE Timers!lockAndLoadPending(e)
  <2>1. e \in Rows /\ resolution[e] = None /\ pending[e].due <= now
    BY <1>4, RowDomain DEF TimerInv, Timers!lockAndLoadPending, Timers!IsDue, Timers!Unresolved
  <2>2. resolution' = [resolution EXCEPT ![e] = "failed"]
    BY <1>1, <1>4, <2>1
  <2>3. "failed" \in Status \ {None} /\ "failed" # "applied"
    BY TimerClock DEF Status
  <2> QED BY <1>1, <1>3, <2>1, <2>2, <2>3, TimerMarks
<1>5. CASE ~Timers!lockAndLoadPending(e)
  <2>1. resolution' = resolution
    BY <1>1, <1>3, <1>5
  <2> QED BY <1>1, <1>3, <2>1, TimerRests
<1> QED BY <1>4, <1>5

LEMMA TimerSteps ==
  ASSUME TimerInv, Timers!Next
  PROVE  TimerInv'
<1>1. /\ now \in Nat /\ now \in 0 .. TimerTime /\ visit \in [Twins -> Visit]
      /\ \A e \in DOMAIN pending : e \in Nat
  BY RowDomain DEF TimerInv, TimerTyped
<1>2. ASSUME NEW v \in Twins, Timers!dueRows(v)
      PROVE  TimerInv'
  <2> DEFINE batch == {e \in DOMAIN pending : Timers!IsDue(e)}
             mine == IF batch = {} THEN Timers!Away
                     ELSE [pc |-> "batch", batch |-> batch, failing |-> None]
  <2>1. visit' = [visit EXCEPT ![v] = mine] /\ UNCHANGED <<now, pending, resolution, ran>>
    BY <1>2 DEF Timers!dueRows
  <2>2. mine \in Visit
    BY <1>1 DEF Visit
  <2> HIDE DEF mine
  <2>3. visit' \in [Twins -> Visit]
    BY <1>1, <2>1, <2>2
  <2> QED BY <1>1, <2>1, <2>3, TimerRests
<1>3. ASSUME NEW v \in Twins, NEW e \in DOMAIN pending, Timers!Throws(v, e)
      PROVE  TimerInv'
  <2>1. visit' \in [Twins -> Visit]
    BY <1>1, <1>3, VisitGoesOn DEF Timers!Throws, Timers!Turn
  <2> QED BY <1>1, <1>3, <2>1, TimerRests DEF Timers!Throws
<1>4. ASSUME NEW v \in Twins, Timers!Leaves(v)
      PROVE  TimerInv'
  <2>1. visit' \in [Twins -> Visit]
    BY <1>1, <1>4 DEF Timers!Leaves, Visit
  <2> QED BY <1>1, <1>4, <2>1, TimerRests DEF Timers!Leaves
<1>5. CASE Timers!Tick
  <2>1. now' = now + 1 /\ now < TimerTime /\ UNCHANGED <<pending, resolution, ran, visit>>
    BY <1>5 DEF Timers!Tick
  <2>2. now' \in 0 .. TimerTime /\ now' >= now
    BY <1>1, <2>1, TimerClock
  <2> QED BY <1>1, <2>1, <2>2, TimerRests
<1> QED BY <1>2, <1>3, <1>4, <1>5, TimerSchedules, TimerResolves, TimerFails DEF Timers!Next

LEMMA TimerMeans ==
  ASSUME TimerInv
  PROVE  Timers!TimerRunsOnce /\ Timers!TypeOK
<1>1. /\ DOMAIN pending = Rows /\ DOMAIN resolution = Rows /\ DOMAIN ran = Rows /\ now \in Nat
      /\ \A e \in Rows : pending[e] \in DueRow /\ resolution[e] \in Status /\ ran[e] \in Nat /\ e # None
  BY RowDomain, TimerClock DEF TimerInv
<1>2. ASSUME NEW e \in Rows
      PROVE  /\ ran[e] = IF resolution[e] = "applied" THEN 1 ELSE 0
             /\ ran[e] > 0 => pending[e].logical <= now
             /\ LET turns == {f \in Rows : pending[f].parent = e} IN
                /\ Cardinality(turns) = IF ran[e] = 1 /\ Timers!Repeated(e) THEN 1 ELSE 0
                /\ \A f \in turns : pending[f].logical = pending[e].logical + WaitTicks
  <2> DEFINE turns == {f \in Rows : pending[f].parent = e}
  <2>1. RowOK(e) /\ pending[e].logical \in Nat /\ pending[e].due \in Nat
    BY <1>1 DEF TimerInv, DueRow
  <2>2. ran[e] > 0 => pending[e].logical <= now
    BY <1>1, <2>1 DEF RowOK
  <2>3. \A f \in turns : pending[f].logical = pending[e].logical + WaitTicks /\ ran[e] = 1 /\ Timers!Repeated(e)
    BY <1>1 DEF TimerInv, NextTurnOK
  <2>4. CASE ran[e] = 1 /\ Timers!Repeated(e)
    <3>1. PICK f \in Rows : pending[f].parent = e
      BY <2>4 DEF TimerInv
    <3>2. turns = {f}
      BY <1>1, <3>1 DEF TimerInv
    <3>3. Cardinality(turns) = 1
      BY <3>2, FS_Singleton
    <3> QED BY <2>1, <2>2, <2>3, <2>4, <3>3 DEF RowOK
  <2>5. CASE ~(ran[e] = 1 /\ Timers!Repeated(e))
    <3>1. turns = {}
      BY <2>3, <2>5
    <3>2. Cardinality(turns) = 0
      BY <3>1, FS_EmptySet
    <3> QED BY <2>1, <2>2, <2>3, <2>5, <3>2 DEF RowOK
  <2> QED BY <2>4, <2>5
<1>3. Timers!TimerRunsOnce
  BY <1>1, <1>2, TimerCounts DEF Timers!TimerRunsOnce
<1>4. \A v \in Twins : visit[v].pc \in {"away", "batch", "next"}
  <2> SUFFICES ASSUME NEW v \in Twins PROVE visit[v].pc \in {"away", "batch", "next"}
    OBVIOUS
  <2>1. visit[v] \in Visit
    BY DEF TimerInv, TimerTyped
  <2> QED BY <2>1 DEF Visit, Timers!Away
<1>5. Timers!TypeOK
  BY <1>1, <1>4, TimerCounts DEF Timers!TypeOK, TimerInv, TimerTyped, Status, DueRow
<1> QED BY <1>3, <1>5

DueInv == part = "timers" => TimerInv

LEMMA DueHolds == RoomsSpec => []DueInv
<1>1. RoomsInit => DueInv
  BY TimerStarts DEF RoomsInit, TalkInit, WorkInit, DueInv
<1>2. DueInv /\ [RoomsNext]_roomVars => DueInv'
  <2> SUFFICES ASSUME DueInv, [RoomsNext]_roomVars, part' = "timers"
               PROVE  TimerInv'
    BY DEF DueInv
  <2>1. part = "timers" /\ TimerInv
    BY DEF RoomsNext, roomVars, DueInv
  <2>2. CASE Timers!Next
    BY <2>1, <2>2, TimerSteps
  <2>3. CASE UNCHANGED <<now, pending, resolution, ran, visit>>
    <3>1. visit' \in [Twins -> Visit] /\ now' \in 0 .. TimerTime /\ now' >= now
      BY <2>1, <2>3, RowDomain DEF TimerInv, TimerTyped
    <3> QED BY <2>1, <2>3, <3>1, TimerRests
  <2> QED BY <2>1, <2>2, <2>3 DEF RoomsNext, TalkNext, WorkNext, roomVars, timerVars
<1> QED BY <1>1, <1>2, PTL DEF RoomsSpec

-----------------------------------------------------------------------------
(* WakeSettling: an owed interval is claimed once                          *)

Anchor == [last : Nat \cup {None}, clock : Nat \cup {None}]
WakeUnit == [thing : Things, unit : Nat, reason : {"arrive", "clock"}]
SeenMap == UNION {[d -> Anchor] : d \in SUBSET Things}
TickMap == UNION {[d -> SUBSET Nat] : d \in SUBSET Things}
Settle ==
  [place : Rooms, at : Nat, ticks : TickMap, units : SUBSET WakeUnit, forfeited : Nat]
Begun == [pc : {"begun"}, place : Rooms, trigger : {"arrive", "act"}, at : Nat]
Claiming ==
  [pc : {"claiming"}, place : Rooms, trigger : {"arrive", "act"}, at : Nat, seen : SeenMap]
Running ==
  [pc : {"running"}, settle : Nat, todo : SUBSET WakeUnit, failing : WakeUnit \cup {None},
   applied : Nat, tried : Nat, woke : Nat, stopped : Nat]
SettlerState == {Wakes!Idle} \cup Begun \cup Claiming \cup Running
Settled == 1 .. Len(settles)

WakeTyped ==
  /\ now \in 0 .. WakeTime /\ at \in [Things -> Rooms] /\ wakes \in [Things -> BOOLEAN]
  /\ dials \in 0 .. DialLimit /\ moved \in SUBSET Things
  /\ wakeState \in [Things -> Anchor]
  /\ settles \in Seq(Settle) /\ settler \in [Twins -> SettlerState]

\* A thing has not tried, nor is its anchor, after the clock.
AnchorOK(th) ==
  /\ wakeState[th].last # None => wakeState[th].last <= now
  /\ wakeState[th].clock # None => wakeState[th].clock <= now

\* Under the lock the room stays quiet and the anchors that were read stay as they are,
\* but for the things that leave.
ClaimOK(s) ==
  /\ settler[s].pc \in {"begun", "claiming"} => settler[s].at <= now
  /\ settler[s].pc = "claiming" =>
       /\ \A i \in Settled :
            settles[i].place = settler[s].place => settler[s].at - settles[i].at >= Quiet
       /\ \A th \in DOMAIN settler[s].seen \ moved :
            at[th] = settler[s].place /\ settler[s].seen[th].clock = wakeState[th].clock

\* What was claimed for a thing that has not moved, lies behind its anchor.
TicksOK(i) ==
  \A th \in DOMAIN settles[i].ticks \ moved :
    /\ at[th] = settles[i].place /\ wakeState[th].clock # None
    /\ \A k \in settles[i].ticks[th] : k <= wakeState[th].clock

ClaimedApart(i, j) ==
  /\ settles[i].place = settles[j].place =>
       settles[i].at - settles[j].at >= Quiet \/ settles[j].at - settles[i].at >= Quiet
  /\ \A th \in (DOMAIN settles[i].ticks \cap DOMAIN settles[j].ticks) \ moved :
       settles[i].ticks[th] \cap settles[j].ticks[th] = {}

ClaimInv ==
  /\ WakeTyped
  /\ \A th \in Things : AnchorOK(th)
  /\ \A s \in Twins : ClaimOK(s)
  /\ \A s, u \in Twins :
       settler[s].pc = "claiming" /\ settler[u].pc = "claiming" /\ settler[s].place = settler[u].place
         => s = u
  /\ \A i \in Settled : TicksOK(i)
  /\ \A i, j \in Settled : i # j => ClaimedApart(i, j)

LEMMA WakeCounts ==
  /\ \A S : Wakes!Cardinality(S) = Cardinality(S)
  /\ \A S : Wakes!IsFiniteSet(S) <=> IsFiniteSet(S)
<1>1. \A S : Wakes!Cardinality(S) = Cardinality(S)
  BY DEF Wakes!Cardinality, Cardinality
<1>2. \A S : Wakes!IsFiniteSet(S) <=> IsFiniteSet(S)
  BY DEF Wakes!IsFiniteSet, IsFiniteSet
<1> QED BY <1>1, <1>2

LEMMA WakeClock ==
  /\ IsFiniteSet(Things) /\ Every \in Nat \ {0} /\ Quiet \in Nat /\ TriesMax \in Nat \ {0}
  /\ WakeTime \in Nat /\ DialLimit \in Nat
  /\ None \notin 0 .. WakeTime /\ None \notin WakeUnit
  BY WakeAssumption DEF WakeUnit

\* What a settler in each stage carries.
LEMMA SettlerStages ==
  ASSUME settler \in [Twins -> SettlerState], NEW s \in Twins
  PROVE  /\ settler[s] \in SettlerState
         /\ settler[s].pc = "idle" => settler[s] = Wakes!Idle
         /\ settler[s].pc = "begun" => settler[s] \in Begun
         /\ settler[s].pc = "claiming" => settler[s] \in Claiming
         /\ settler[s].pc = "running" => settler[s] \in Running
<1>1. settler[s] \in SettlerState
  OBVIOUS
<1>2. settler[s] \in {Wakes!Idle} => settler[s].pc = "idle"
  BY DEF Wakes!Idle
<1>3. /\ settler[s] \in Begun => settler[s].pc = "begun"
      /\ settler[s] \in Claiming => settler[s].pc = "claiming"
      /\ settler[s] \in Running => settler[s].pc = "running"
  BY DEF Begun, Claiming, Running
<1> QED BY <1>1, <1>2, <1>3 DEF SettlerState

LEMMA SettledDomain ==
  ASSUME WakeTyped
  PROVE  /\ DOMAIN settles = Settled /\ Len(settles) \in Nat /\ now \in Nat
         /\ \A i \in Settled : settles[i] \in Settle
<1>1. DOMAIN settles = Settled /\ Len(settles) \in Nat
  BY DEF WakeTyped, Settled
<1> QED BY <1>1, WakeClock DEF WakeTyped

LEMMA ClaimStarts ==
  ASSUME Wakes!Init
  PROVE  ClaimInv
<1>1. /\ now = 0 /\ moved = {} /\ settles = <<>> /\ Settled = {} /\ dials = 0
      /\ \A s \in Twins : settler[s] = Wakes!Idle /\ settler[s].pc = "idle"
      /\ \A th \in Things : wakeState[th] = [last |-> None, clock |-> None]
  BY DEF Wakes!Init, Wakes!Idle, Settled
<1>2. WakeTyped
  <2>1. settler \in [Twins -> SettlerState]
    BY DEF Wakes!Init, SettlerState
  <2>2. wakeState \in [Things -> Anchor]
    BY DEF Wakes!Init, Anchor
  <2>3. at \in [Things -> Rooms] /\ wakes \in [Things -> BOOLEAN]
    BY DEF Wakes!Init
  <2> QED BY <1>1, <2>1, <2>2, <2>3, WakeClock DEF WakeTyped
<1>3. \A th \in Things : AnchorOK(th)
  BY <1>1 DEF AnchorOK
<1>4. \A s \in Twins : ClaimOK(s)
  BY <1>1 DEF ClaimOK
<1> QED BY <1>1, <1>2, <1>3, <1>4 DEF ClaimInv

\* A step that writes neither the anchors nor the settles and reads no candidates.
LEMMA ClaimRests ==
  ASSUME ClaimInv, UNCHANGED <<wakeState, settles>>,
         now' \in 0 .. WakeTime, now' >= now, at' \in [Things -> Rooms],
         wakes' \in [Things -> BOOLEAN], dials' \in 0 .. DialLimit,
         moved' \in SUBSET Things, moved \subseteq moved',
         \A th \in Things \ moved' : at'[th] = at[th],
         settler' \in [Twins -> SettlerState],
         \A s \in Twins : settler'[s].pc = "begun" => settler'[s].at <= now',
         \A s \in Twins : settler'[s].pc = "claiming" => settler'[s] = settler[s]
  PROVE  ClaimInv'
<1>1. WakeTyped' /\ Settled' = Settled /\ WakeTyped
  BY DEF ClaimInv, WakeTyped, Settled
<1>2. now \in Nat /\ now' \in Nat /\ now' >= now
  BY <1>1, WakeClock DEF WakeTyped
<1>3. ASSUME NEW th \in Things
      PROVE  AnchorOK(th)'
  <2>1. AnchorOK(th) /\ wakeState[th] \in Anchor
    BY DEF ClaimInv, WakeTyped
  <2> QED BY <1>2, <2>1, WakeClock DEF AnchorOK, Anchor
<1>4. ASSUME NEW s \in Twins
      PROVE  ClaimOK(s)'
  <2>1. ClaimOK(s)
    BY DEF ClaimInv
  <2>2. CASE settler'[s].pc = "claiming"
    <3>1. settler'[s] = settler[s] /\ settler[s] \in Claiming
      BY <2>2, <1>1, SettlerStages DEF WakeTyped
    <3>2. settler[s].at \in Nat /\ settler[s].seen \in SeenMap
      BY <3>1 DEF Claiming
    <3>3. DOMAIN settler[s].seen \subseteq Things
      BY <3>2 DEF SeenMap
    <3> QED BY <1>1, <1>2, <2>1, <2>2, <3>1, <3>2, <3>3 DEF ClaimOK
  <2>3. CASE settler'[s].pc # "claiming"
    BY <2>3 DEF ClaimOK
  <2> QED BY <2>2, <2>3
<1>5. ASSUME NEW i \in Settled
      PROVE  TicksOK(i)'
  <2>1. TicksOK(i) /\ settles[i] \in Settle
    BY <1>1, SettledDomain DEF ClaimInv
  <2>2. DOMAIN settles[i].ticks \subseteq Things
    BY <2>1 DEF Settle, TickMap
  <2> QED BY <2>1, <2>2 DEF TicksOK
<1>6. \A i, j \in Settled : ClaimedApart(i, j) => ClaimedApart(i, j)'
  BY DEF ClaimedApart
<1>7. \A s, u \in Twins :
       settler'[s].pc = "claiming" /\ settler'[u].pc = "claiming" /\ settler'[s].place = settler'[u].place
         => s = u
  BY DEF ClaimInv
<1> QED BY <1>1, <1>3, <1>4, <1>5, <1>6, <1>7 DEF ClaimInv

\* A step of the settler alone.
LEMMA ClaimPasses ==
  ASSUME ClaimInv, NEW s \in Twins, NEW c \in SettlerState,
         settler' = [settler EXCEPT ![s] = c], c.pc # "claiming", c.pc = "begun" => c.at <= now,
         UNCHANGED <<now, at, wakes, dials, moved, wakeState, settles>>
  PROVE  ClaimInv'
<1>1. WakeTyped
  BY DEF ClaimInv
<1>2. settler' \in [Twins -> SettlerState] /\ settler'[s] = c
      /\ \A u \in Twins : u # s => settler'[u] = settler[u]
  BY <1>1 DEF WakeTyped
<1>3. \A u \in Twins : settler'[u].pc = "claiming" => settler'[u] = settler[u]
  BY <1>2
<1>4. \A u \in Twins : settler'[u].pc = "begun" => settler'[u].at <= now'
  BY <1>2 DEF ClaimInv, ClaimOK
<1>5. now' \in 0 .. WakeTime /\ now' >= now /\ at' \in [Things -> Rooms] /\ at' = at /\ moved' = moved
      /\ wakes' \in [Things -> BOOLEAN] /\ dials' \in 0 .. DialLimit /\ moved' \in SUBSET Things
  BY <1>1, WakeClock DEF WakeTyped
<1> QED BY <1>2, <1>3, <1>4, <1>5, ClaimRests

\* A settler that goes on with its tries.
Books(c, todo, failing, applied, tried, woke, stopped) ==
  [pc |-> "running", settle |-> c.settle, todo |-> todo, failing |-> failing,
   applied |-> applied, tried |-> tried, woke |-> woke, stopped |-> stopped]

\* How a try, a failure and a stop write the books.
AfterRun(c, todo, applied, tried, woke) ==
  [c EXCEPT !.todo = todo, !.applied = applied, !.tried = tried, !.woke = woke]
AfterThrow(c, todo, tried, failing) ==
  [c EXCEPT !.todo = todo, !.tried = tried, !.failing = failing]
AfterStop(c, todo, stopped) ==
  [c EXCEPT !.todo = todo, !.stopped = stopped]

\* The books of a settler are its fields.
LEMMA BooksAre ==
  ASSUME NEW x \in Running, NEW c, x.settle = c.settle
  PROVE  x = Books(c, x.todo, x.failing, x.applied, x.tried, x.woke, x.stopped)
  BY DEF Running, Books

LEMMA RunBooks ==
  ASSUME NEW c \in Running, NEW todo \in SUBSET WakeUnit, NEW applied \in Nat, NEW tried \in Nat, NEW woke \in Nat
  PROVE  /\ Books(c, todo, c.failing, applied, tried, woke, c.stopped) \in Running
         /\ AfterRun(c, todo, applied, tried, woke) = Books(c, todo, c.failing, applied, tried, woke, c.stopped)
<1> DEFINE x == AfterRun(c, todo, applied, tried, woke)
<1>1. x \in Running
  BY Zenon DEF Running, AfterRun
<1>2. /\ x.settle = c.settle /\ x.todo = todo /\ x.failing = c.failing /\ x.applied = applied
      /\ x.tried = tried /\ x.woke = woke /\ x.stopped = c.stopped
  BY DEF Running, AfterRun
<1> HIDE DEF x
<1>3. x = Books(c, todo, c.failing, applied, tried, woke, c.stopped)
  BY <1>1, <1>2, BooksAre
<1> QED BY <1>1, <1>3 DEF x

LEMMA ThrowBooks ==
  ASSUME NEW c \in Running, NEW todo \in SUBSET WakeUnit, NEW tried \in Nat, NEW failing \in WakeUnit \cup {None}
  PROVE  /\ Books(c, todo, failing, c.applied, tried, c.woke, c.stopped) \in Running
         /\ AfterThrow(c, todo, tried, failing) = Books(c, todo, failing, c.applied, tried, c.woke, c.stopped)
<1> DEFINE x == AfterThrow(c, todo, tried, failing)
<1>1. x \in Running
  BY Zenon DEF Running, AfterThrow
<1>2. /\ x.settle = c.settle /\ x.todo = todo /\ x.failing = failing /\ x.applied = c.applied
      /\ x.tried = tried /\ x.woke = c.woke /\ x.stopped = c.stopped
  BY DEF Running, AfterThrow
<1> HIDE DEF x
<1>3. x = Books(c, todo, failing, c.applied, tried, c.woke, c.stopped)
  BY <1>1, <1>2, BooksAre
<1> QED BY <1>1, <1>3 DEF x

LEMMA StopBooks ==
  ASSUME NEW c \in Running, NEW todo \in SUBSET WakeUnit, NEW stopped \in Nat
  PROVE  /\ Books(c, todo, c.failing, c.applied, c.tried, c.woke, stopped) \in Running
         /\ AfterStop(c, todo, stopped) = Books(c, todo, c.failing, c.applied, c.tried, c.woke, stopped)
<1> DEFINE x == AfterStop(c, todo, stopped)
<1>1. x \in Running
  BY Zenon DEF Running, AfterStop
<1>2. /\ x.settle = c.settle /\ x.todo = todo /\ x.failing = c.failing /\ x.applied = c.applied
      /\ x.tried = c.tried /\ x.woke = c.woke /\ x.stopped = stopped
  BY DEF Running, AfterStop
<1> HIDE DEF x
<1>3. x = Books(c, todo, c.failing, c.applied, c.tried, c.woke, stopped)
  BY <1>1, <1>2, BooksAre
<1> QED BY <1>1, <1>3 DEF x

LEMMA RecordBooks ==
  ASSUME NEW c \in Running, NEW failing \in WakeUnit \cup {None}
  PROVE  /\ Books(c, c.todo, failing, c.applied, c.tried, c.woke, c.stopped) \in Running
         /\ [c EXCEPT !.failing = failing] = Books(c, c.todo, failing, c.applied, c.tried, c.woke, c.stopped)
<1> DEFINE x == [c EXCEPT !.failing = failing]
<1>1. x \in Running
  BY Zenon DEF Running
<1>2. /\ x.settle = c.settle /\ x.todo = c.todo /\ x.failing = failing /\ x.applied = c.applied
      /\ x.tried = c.tried /\ x.woke = c.woke /\ x.stopped = c.stopped
  BY DEF Running
<1> HIDE DEF x
<1>3. x = Books(c, c.todo, failing, c.applied, c.tried, c.woke, c.stopped)
  BY <1>1, <1>2, BooksAre
<1> QED BY <1>1, <1>3 DEF x

LEMMA RunsOn ==
  ASSUME settler \in [Twins -> SettlerState], NEW s \in Twins, NEW u \in settler[s].todo,
         NEW effects \in 0 .. 1, Wakes!runTry(s, u, effects)
  PROVE  LET b == settler[s]
             c == Books(b, b.todo \ {u}, b.failing, b.applied + effects, b.tried + 1,
                        b.woke + (IF effects > 0 THEN 1 ELSE 0), b.stopped)
         IN  /\ b \in Running /\ c \in Running /\ settler' = [settler EXCEPT ![s] = c]
             /\ UNCHANGED <<now, at, wakes, dials, moved, wakeState, settles, reports>>
<1> DEFINE b == settler[s]
           d == b.todo \ {u}
           a == b.applied + effects
           n == b.tried + 1
           w == b.woke + (IF effects > 0 THEN 1 ELSE 0)
           x == AfterRun(b, d, a, n, w)
<1>1. b \in Running
  BY SettlerStages DEF Wakes!runTry, Wakes!Turn
<1>2. d \in SUBSET WakeUnit /\ a \in Nat /\ n \in Nat /\ w \in Nat /\ b.failing \in WakeUnit \cup {None}
      /\ b.stopped \in Nat
  BY <1>1 DEF Running
<1>3. settler' = [settler EXCEPT ![s] = x]
  BY DEF Wakes!runTry, AfterRun
<1>4. x = Books(b, d, b.failing, a, n, w, b.stopped) /\ Books(b, d, b.failing, a, n, w, b.stopped) \in Running
  <2> HIDE DEF b, d, a, n, w
  <2> QED BY <1>1, <1>2, RunBooks
<1>5. UNCHANGED <<now, at, wakes, dials, moved, wakeState, settles, reports>>
  BY DEF Wakes!runTry
<1> HIDE DEF x
<1> QED BY <1>1, <1>3, <1>4, <1>5

LEMMA ThrowsOn ==
  ASSUME settler \in [Twins -> SettlerState], NEW s \in Twins, NEW u \in settler[s].todo,
         NEW committed \in BOOLEAN, Wakes!TryThrows(s, u, committed)
  PROVE  LET b == settler[s]
             c == Books(b, b.todo \ {u}, u, b.applied, b.tried + 1, b.woke, b.stopped)
         IN  /\ b \in Running /\ c \in Running /\ settler' = [settler EXCEPT ![s] = c]
             /\ UNCHANGED <<now, at, wakes, dials, moved, wakeState, settles, reports>>
<1> DEFINE b == settler[s]
           d == b.todo \ {u}
           n == b.tried + 1
           x == AfterThrow(b, d, n, u)
<1>1. b \in Running
  BY SettlerStages DEF Wakes!TryThrows, Wakes!Turn
<1>2. d \in SUBSET WakeUnit /\ n \in Nat /\ u \in WakeUnit \cup {None}
      /\ b.applied \in Nat /\ b.woke \in Nat /\ b.stopped \in Nat
  BY <1>1 DEF Running
<1>3. settler' = [settler EXCEPT ![s] = x]
  BY DEF Wakes!TryThrows, AfterThrow
<1>4. x = Books(b, d, u, b.applied, n, b.woke, b.stopped) /\ Books(b, d, u, b.applied, n, b.woke, b.stopped) \in Running
  <2> HIDE DEF b, d, n
  <2> QED BY <1>1, <1>2, ThrowBooks
<1>5. UNCHANGED <<now, at, wakes, dials, moved, wakeState, settles, reports>>
  BY DEF Wakes!TryThrows
<1> HIDE DEF x
<1> QED BY <1>1, <1>3, <1>4, <1>5

LEMMA StopsOn ==
  ASSUME settler \in [Twins -> SettlerState], NEW s \in Twins, NEW u \in settler[s].todo,
         Wakes!StopTry(s, u)
  PROVE  LET b == settler[s]
             c == Books(b, b.todo \ {u}, b.failing, b.applied, b.tried, b.woke,
                        b.stopped + (IF u.reason = "clock" THEN 1 ELSE 0))
         IN  /\ b \in Running /\ c \in Running /\ settler' = [settler EXCEPT ![s] = c]
             /\ UNCHANGED <<now, at, wakes, dials, moved, wakeState, settles, reports>>
<1> DEFINE b == settler[s]
           d == b.todo \ {u}
           o == b.stopped + (IF u.reason = "clock" THEN 1 ELSE 0)
           x == AfterStop(b, d, o)
<1>1. b \in Running
  BY SettlerStages DEF Wakes!StopTry, Wakes!Turn
<1>2. d \in SUBSET WakeUnit /\ o \in Nat /\ b.failing \in WakeUnit \cup {None}
      /\ b.applied \in Nat /\ b.tried \in Nat /\ b.woke \in Nat
  BY <1>1 DEF Running
<1>3. settler' = [settler EXCEPT ![s] = x]
  BY DEF Wakes!StopTry, AfterStop
<1>4. /\ x = Books(b, d, b.failing, b.applied, b.tried, b.woke, o)
      /\ Books(b, d, b.failing, b.applied, b.tried, b.woke, o) \in Running
  <2> HIDE DEF b, d, o
  <2> QED BY <1>1, <1>2, StopBooks
<1>5. UNCHANGED <<now, at, wakes, dials, moved, wakeState, settles, reports>>
  BY DEF Wakes!StopTry
<1> HIDE DEF x
<1> QED BY <1>1, <1>3, <1>4, <1>5

LEMMA RecordsOn ==
  ASSUME settler \in [Twins -> SettlerState], NEW s \in Twins, Wakes!recordTry(s)
  PROVE  LET b == settler[s]
             c == Books(b, b.todo, None, b.applied, b.tried, b.woke, b.stopped)
         IN  /\ b \in Running /\ c \in Running
             /\ UNCHANGED <<now, at, wakes, dials, moved, wakeState, settles, reports>>
             /\ settler' = [settler EXCEPT ![s] =
                              IF Wakes!Recorded(b.settle, b.failing) THEN Wakes!Idle ELSE c]
<1> DEFINE b == settler[s]
           x == [b EXCEPT !.failing = None]
<1>1. b \in Running
  BY SettlerStages DEF Wakes!recordTry
<1>2. b.todo \in SUBSET WakeUnit /\ None \in WakeUnit \cup {None}
      /\ b.applied \in Nat /\ b.tried \in Nat /\ b.woke \in Nat /\ b.stopped \in Nat
  BY <1>1 DEF Running
<1>3. settler' = [settler EXCEPT ![s] = IF Wakes!Recorded(b.settle, b.failing) THEN Wakes!Idle ELSE x]
  BY DEF Wakes!recordTry
<1>4. /\ x = Books(b, b.todo, None, b.applied, b.tried, b.woke, b.stopped)
      /\ Books(b, b.todo, None, b.applied, b.tried, b.woke, b.stopped) \in Running
  <2> HIDE DEF b
  <2> QED BY <1>1, <1>2, RecordBooks
<1>5. UNCHANGED <<now, at, wakes, dials, moved, wakeState, settles, reports>>
  BY DEF Wakes!recordTry
<1> HIDE DEF x
<1> QED BY <1>1, <1>3, <1>4, <1>5

\* The tries of a settle write the settler alone, as far as the claims go.
LEMMA TriesRun ==
  ASSUME settler \in [Twins -> SettlerState], NEW s \in Twins,
         \/ \E u \in settler[s].todo, effects \in 0 .. 1 : Wakes!runTry(s, u, effects)
         \/ \E u \in settler[s].todo, committed \in BOOLEAN : Wakes!TryThrows(s, u, committed)
         \/ \E u \in settler[s].todo : Wakes!StopTry(s, u)
         \/ Wakes!recordTry(s) \/ Wakes!settleWake(s) \/ Wakes!Dies(s)
  PROVE  /\ UNCHANGED <<now, at, wakes, dials, moved, wakeState, settles>>
         /\ \E c \in SettlerState :
              settler' = [settler EXCEPT ![s] = c] /\ c.pc \in {"idle", "running"}
<1>1. Wakes!Idle \in SettlerState /\ Wakes!Idle.pc = "idle"
  BY DEF SettlerState, Wakes!Idle
<1>2. \A c \in Running : c \in SettlerState /\ c.pc = "running"
  BY DEF SettlerState, Running
<1>3. ASSUME NEW u \in settler[s].todo, NEW effects \in 0 .. 1, Wakes!runTry(s, u, effects)
      PROVE  /\ UNCHANGED <<now, at, wakes, dials, moved, wakeState, settles>>
             /\ \E c \in Running : settler' = [settler EXCEPT ![s] = c]
  BY <1>3, RunsOn
<1>4. ASSUME NEW u \in settler[s].todo, NEW committed \in BOOLEAN, Wakes!TryThrows(s, u, committed)
      PROVE  /\ UNCHANGED <<now, at, wakes, dials, moved, wakeState, settles>>
             /\ \E c \in Running : settler' = [settler EXCEPT ![s] = c]
  BY <1>4, ThrowsOn
<1>5. ASSUME NEW u \in settler[s].todo, Wakes!StopTry(s, u)
      PROVE  /\ UNCHANGED <<now, at, wakes, dials, moved, wakeState, settles>>
             /\ \E c \in Running : settler' = [settler EXCEPT ![s] = c]
  BY <1>5, StopsOn
<1>6. ASSUME Wakes!recordTry(s)
      PROVE  /\ UNCHANGED <<now, at, wakes, dials, moved, wakeState, settles>>
             /\ \/ settler' = [settler EXCEPT ![s] = Wakes!Idle]
                \/ \E c \in Running : settler' = [settler EXCEPT ![s] = c]
  BY <1>6, RecordsOn
<1>7. ASSUME Wakes!settleWake(s) \/ Wakes!Dies(s)
      PROVE  /\ UNCHANGED <<now, at, wakes, dials, moved, wakeState, settles>>
             /\ settler' = [settler EXCEPT ![s] = Wakes!Idle]
  BY <1>7 DEF Wakes!settleWake, Wakes!Dies
<1> QED BY <1>1, <1>2, <1>3, <1>4, <1>5, <1>6, <1>7

LEMMA ClaimSettlers ==
  ASSUME ClaimInv, NEW s \in Twins,
         \/ \E u \in settler[s].todo, effects \in 0 .. 1 : Wakes!runTry(s, u, effects)
         \/ \E u \in settler[s].todo, committed \in BOOLEAN : Wakes!TryThrows(s, u, committed)
         \/ \E u \in settler[s].todo : Wakes!StopTry(s, u)
         \/ Wakes!recordTry(s) \/ Wakes!settleWake(s) \/ Wakes!Dies(s)
  PROVE  ClaimInv'
<1>1. settler \in [Twins -> SettlerState]
  BY DEF ClaimInv, WakeTyped
<1>2. PICK c \in SettlerState :
        settler' = [settler EXCEPT ![s] = c] /\ c.pc \in {"idle", "running"}
  BY <1>1, TriesRun
<1>3. UNCHANGED <<now, at, wakes, dials, moved, wakeState, settles>>
  BY <1>1, TriesRun
<1> QED BY <1>2, <1>3, ClaimPasses

LEMMA ClaimBegins ==
  ASSUME ClaimInv, NEW s \in Twins, NEW p \in Rooms, NEW trigger \in {"arrive", "act"},
         Wakes!settleRoom(s, p, trigger)
  PROVE  ClaimInv'
<1> DEFINE c == [pc |-> "begun", place |-> p, trigger |-> trigger, at |-> now]
<1>1. now \in Nat
  BY SettledDomain DEF ClaimInv
<1>2. c \in SettlerState /\ c.pc = "begun" /\ c.at <= now
  BY <1>1 DEF SettlerState, Begun
<1>3. settler' = [settler EXCEPT ![s] = c] /\ UNCHANGED <<now, at, wakes, dials, moved, wakeState, settles>>
  BY DEF Wakes!settleRoom
<1> HIDE DEF c
<1> QED BY <1>2, <1>3, ClaimPasses

\* The candidates are read where nobody claims the room and it is not quiet.
LEMMA ClaimReads ==
  ASSUME ClaimInv, NEW s \in Twins, Wakes!ReadCandidates(s)
  PROVE  ClaimInv'
<1> DEFINE b == settler[s]
           here == {th \in Things : at[th] = b.place /\ wakes[th]}
           c == [pc |-> "claiming", place |-> b.place, trigger |-> b.trigger, at |-> b.at,
                 seen |-> [th \in here |-> wakeState[th]]]
<1>1. /\ b.pc = "begun" /\ Wakes!LockFree(b.place)
      /\ UNCHANGED <<now, at, wakes, dials, moved, wakeState, settles>>
      /\ settler' = [settler EXCEPT ![s] = IF Wakes!InQuiet(b.place, b.at) THEN Wakes!Idle ELSE c]
  BY DEF Wakes!ReadCandidates
<1>2. WakeTyped /\ b \in Begun /\ b.at <= now
  BY <1>1, SettlerStages DEF ClaimInv, WakeTyped, ClaimOK
<1>3. CASE Wakes!InQuiet(b.place, b.at)
  <2>1. settler' = [settler EXCEPT ![s] = Wakes!Idle]
    BY <1>1, <1>3
  <2>2. Wakes!Idle \in SettlerState /\ Wakes!Idle.pc = "idle"
    BY DEF SettlerState, Wakes!Idle
  <2> QED BY <1>1, <2>1, <2>2, ClaimPasses
<1>4. CASE ~Wakes!InQuiet(b.place, b.at)
  <2>1. settler' = [settler EXCEPT ![s] = c]
    BY <1>1, <1>4
  <2>2. [th \in here |-> wakeState[th]] \in SeenMap
    <3>1. [th \in here |-> wakeState[th]] \in [here -> Anchor] /\ here \in SUBSET Things
      BY <1>2 DEF WakeTyped
    <3> QED BY <3>1 DEF SeenMap
  <2>3. c \in Claiming /\ c.seen = [th \in here |-> wakeState[th]] /\ c.at = b.at /\ c.place = b.place
    BY <1>2, <2>2 DEF Claiming, Begun
  <2>4. c \in SettlerState /\ c.pc = "claiming"
    BY <2>3 DEF SettlerState
  <2>5. settler' \in [Twins -> SettlerState] /\ settler'[s] = c
        /\ \A u \in Twins : u # s => settler'[u] = settler[u]
    BY <1>2, <2>1, <2>4 DEF WakeTyped
  <2>6. WakeTyped' /\ Settled' = Settled
    BY <1>1, <1>2, <2>5 DEF WakeTyped, Settled
  <2>7. \A i \in Settled : settles[i].place = b.place => b.at - settles[i].at >= Quiet
    <3> SUFFICES ASSUME NEW i \in Settled, settles[i].place = b.place
                 PROVE  b.at - settles[i].at >= Quiet
      OBVIOUS
    <3>1. settles[i].at \in Nat /\ b.at \in Nat /\ i \in DOMAIN settles
      BY <1>2, SettledDomain DEF Settle, Begun
    <3>2. ~(settles[i].at > b.at - Quiet)
      BY <1>4, <3>1 DEF Wakes!InQuiet
    <3> QED BY <3>1, <3>2, WakeClock
  <2>8. ASSUME NEW u \in Twins
        PROVE  ClaimOK(u)'
    <3>1. CASE u = s
      <4>1. c.at <= now
        BY <1>2, <2>3
      <4>2. \A th \in DOMAIN c.seen : at[th] = c.place /\ c.seen[th].clock = wakeState[th].clock
        BY <2>3
      <4> HIDE DEF c
      <4> QED BY <1>1, <2>3, <2>4, <2>5, <2>6, <2>7, <3>1, <4>1, <4>2 DEF ClaimOK
    <3>2. CASE u # s
      <4>1. ClaimOK(u) /\ settler'[u] = settler[u]
        BY <2>5, <3>2 DEF ClaimInv
      <4> QED BY <1>1, <2>6, <4>1 DEF ClaimOK
    <3> QED BY <3>1, <3>2
  <2>9. ASSUME NEW u \in Twins, NEW v \in Twins, settler'[u].pc = "claiming", settler'[v].pc = "claiming",
               settler'[u].place = settler'[v].place
        PROVE  u = v
    <3>1. \A x \in Twins : settler[x].pc = "claiming" => settler[x].place # b.place
      BY <1>1 DEF Wakes!LockFree
    <3> HIDE DEF c, b
    <3> QED BY <2>3, <2>5, <2>9, <3>1 DEF ClaimInv
  <2>10. \A th \in Things : AnchorOK(th)'
    BY <1>1 DEF ClaimInv, AnchorOK
  <2>11. \A i \in Settled : TicksOK(i)'
    BY <1>1 DEF ClaimInv, TicksOK
  <2>12. \A i, j \in Settled : i # j => ClaimedApart(i, j)'
    BY <1>1 DEF ClaimInv, ClaimedApart
  <2> QED BY <2>6, <2>8, <2>9, <2>10, <2>11, <2>12 DEF ClaimInv
<1> QED BY <1>3, <1>4

LEMMA ClaimDials ==
  ASSUME ClaimInv,
         \/ \E th \in Things : Wakes!Switch(th)
         \/ \E th \in Things, p \in Rooms : Wakes!Move(th, p)
         \/ Wakes!Tick
  PROVE  ClaimInv'
<1>1. WakeTyped /\ now \in Nat /\ DialLimit \in Nat /\ WakeTime \in Nat /\ dials \in Nat
  BY SettledDomain, WakeClock DEF ClaimInv, WakeTyped
<1>2. /\ UNCHANGED <<wakeState, settles, settler>>
      /\ now' \in 0 .. WakeTime /\ now' >= now /\ dials' \in 0 .. DialLimit
      /\ at' \in [Things -> Rooms] /\ wakes' \in [Things -> BOOLEAN]
      /\ moved' \in SUBSET Things /\ moved \subseteq moved'
      /\ \A th \in Things \ moved' : at'[th] = at[th]
  <2>1. CASE \E th \in Things : Wakes!Switch(th)
    BY <1>1, <2>1 DEF Wakes!Switch, WakeTyped
  <2>2. CASE \E th \in Things, p \in Rooms : Wakes!Move(th, p)
    BY <1>1, <2>2 DEF Wakes!Move, WakeTyped
  <2>3. CASE Wakes!Tick
    BY <1>1, <2>3 DEF Wakes!Tick, WakeTyped
  <2> QED BY <2>1, <2>2, <2>3
<1>3. /\ settler' \in [Twins -> SettlerState]
      /\ \A s \in Twins : settler'[s].pc = "begun" => settler'[s].at <= now'
  <2> SUFFICES ASSUME NEW s \in Twins, settler[s].pc = "begun" PROVE settler[s].at <= now'
    BY <1>1, <1>2 DEF WakeTyped
  <2>1. settler[s].at <= now /\ settler[s].at \in Nat
    BY <1>1, SettlerStages DEF ClaimInv, ClaimOK, WakeTyped, Begun
  <2> QED BY <1>1, <1>2, <2>1
<1> QED BY <1>2, <1>3, ClaimRests

LEMMA TimesGrow ==
  ASSUME NEW e \in Nat \ {0}, NEW k \in Nat, NEW d \in Nat \ {0}
  PROVE  (k + d) * e > k * e
<1>1. (k + d) * e = k * e + d * e
  OBVIOUS
<1>2. d * e > 0 /\ k * e \in Nat /\ d * e \in Nat
  OBVIOUS
<1> QED BY <1>1, <1>2

\* The ticks a thing is owed lie after its anchor, one for each number, and the last is
\* not after the claim.
LEMMA TicksFollow ==
  ASSUME NEW a \in Nat, NEW time \in Nat, a <= time
  PROVE  LET n == (time - a) \div Every IN
         /\ n \in Nat /\ n * Every \in Nat /\ a + n * Every <= time
         /\ \A k \in 1 .. n : k * Every \in Nat /\ 0 < k * Every /\ k * Every <= n * Every
         /\ \A k, l \in 1 .. n : k * Every = l * Every => k = l
<1> DEFINE n == (time - a) \div Every
<1>1. n \in Nat /\ n * Every \in Nat /\ n * Every <= time - a
  BY WakeClock, DivNatural, DayBegins
<1>2. ASSUME NEW k \in 1 .. n
      PROVE  k * Every \in Nat /\ 0 < k * Every /\ k * Every <= n * Every
  BY <1>1, WakeClock
<1>3. ASSUME NEW k \in 1 .. n, NEW l \in 1 .. n, k < l
      PROVE  k * Every # l * Every
  <2>1. k \in Nat /\ l - k \in Nat \ {0} /\ l = k + (l - k) /\ k * Every \in Nat /\ l * Every \in Nat
    BY <1>1, <1>2, <1>3
  <2>2. (k + (l - k)) * Every > k * Every
    BY <2>1, TimesGrow, WakeClock
  <2>3. l * Every > k * Every
    BY <2>1, <2>2
  <2> QED BY <2>1, <2>3
<1>4. \A k, l \in 1 .. n : k * Every = l * Every => k = l
  <2> SUFFICES ASSUME NEW k \in 1 .. n, NEW l \in 1 .. n, k * Every = l * Every PROVE k = l
    OBVIOUS
  <2>1. k \in Nat /\ l \in Nat
    BY <1>1
  <2> QED BY <1>3, <2>1
<1> HIDE DEF n
<1> QED BY <1>1, <1>2, <1>4 DEF n

LEMMA TicksOwed ==
  ASSUME NEW x \in Anchor, NEW time \in Nat
  PROVE  /\ Wakes!Owed(x, time) \in Nat /\ Wakes!Ticks(x, time) \in SUBSET (0 .. time)
         /\ Wakes!Owed(x, time) > 0 =>
              /\ x.clock \in Nat /\ x.clock + Wakes!Owed(x, time) * Every \in Nat
              /\ x.clock + Wakes!Owed(x, time) * Every <= time
         /\ \A k \in 1 .. Wakes!Owed(x, time) :
              /\ x.clock + k * Every \in Wakes!Ticks(x, time) /\ k * Every \in Nat
              /\ x.clock + k * Every > x.clock
              /\ x.clock + k * Every <= x.clock + Wakes!Owed(x, time) * Every
         /\ \A k, l \in 1 .. Wakes!Owed(x, time) : k * Every = l * Every => k = l
         /\ \A t \in Wakes!Ticks(x, time) :
              \E k \in 1 .. Wakes!Owed(x, time) : t = x.clock + k * Every
<1>1. CASE x.clock = None \/ time < x.clock
  <2>1. Wakes!Owed(x, time) = 0 /\ 1 .. 0 = {}
    BY <1>1 DEF Wakes!Owed
  <2>2. Wakes!Ticks(x, time) = {}
    BY <2>1 DEF Wakes!Ticks
  <2> QED BY <2>1, <2>2
<1>2. CASE ~(x.clock = None \/ time < x.clock)
  <2> DEFINE n == (time - x.clock) \div Every
  <2>1. x.clock \in Nat /\ x.clock <= time
    BY <1>2 DEF Anchor
  <2>2. Wakes!Owed(x, time) = n
    BY <1>2 DEF Wakes!Owed
  <2>3. /\ n \in Nat /\ n * Every \in Nat /\ x.clock + n * Every <= time
        /\ \A k \in 1 .. n : k * Every \in Nat /\ 0 < k * Every /\ k * Every <= n * Every
        /\ \A k, l \in 1 .. n : k * Every = l * Every => k = l
    BY <2>1, TicksFollow
  <2>4. Wakes!Ticks(x, time) = {x.clock + k * Every : k \in 1 .. n}
    BY <2>2 DEF Wakes!Ticks
  <2> HIDE DEF n
  <2>5. \A k \in 1 .. n : x.clock + k * Every \in 0 .. time /\ x.clock + k * Every > x.clock
                          /\ x.clock + k * Every <= x.clock + n * Every
    BY <2>1, <2>3
  <2>6. Wakes!Ticks(x, time) \in SUBSET (0 .. time)
    BY <2>4, <2>5
  <2> QED BY <2>1, <2>2, <2>3, <2>4, <2>5, <2>6
<1> QED BY <1>1, <1>2

LEMMA LesserOfTwo ==
  ASSUME NEW a \in Int, NEW b \in Int
  PROVE  Wakes!Min({a, b}) \in Int /\ Wakes!Min({a, b}) <= a /\ Wakes!Min({a, b}) <= b
<1>1. \E x \in {a, b} : \A y \in {a, b} : x <= y
  <2>1. CASE a <= b
    BY <2>1
  <2>2. CASE b <= a
    BY <2>2
  <2> QED BY <2>1, <2>2
<1>2. Wakes!Min({a, b}) \in {a, b} /\ \A y \in {a, b} : Wakes!Min({a, b}) <= y
  BY <1>1 DEF Wakes!Min
<1> QED BY <1>2

\* The number of the arrival's try, when there is one.
FirstOf(th, c) == IF Wakes!Arrives(c.seen[th], c) THEN 1 ELSE 0

LEMMA SeenDomain ==
  ASSUME NEW c \in Claiming
  PROVE  /\ DOMAIN c.seen \in SUBSET Things /\ c.at \in Nat /\ c.place \in Rooms
         /\ \A th \in DOMAIN c.seen : c.seen[th] \in Anchor
<1>1. c.seen \in SeenMap /\ c.at \in Nat /\ c.place \in Rooms
  BY DEF Claiming
<1> QED BY <1>1 DEF SeenMap

\* A planned clock try stands for one tick.
LEMMA UnitsPlanned ==
  ASSUME NEW c \in Claiming, NEW u \in Wakes!planUnits(c)
  PROVE  /\ u.thing \in DOMAIN c.seen /\ u.unit \in 0 .. TriesMax
         /\ u = [thing |-> u.thing, unit |-> u.unit]
         /\ Wakes!Reason(u, c) \in {"arrive", "clock"}
         /\ Wakes!Reason(u, c) = "clock" =>
              u.unit - FirstOf(u.thing, c) + 1 \in 1 .. Wakes!Owed(c.seen[u.thing], c.at)
<1>1. PICK th \in DOMAIN c.seen : u \in Wakes!UnitsOf(th, c.seen[th], c)
  BY DEF Wakes!planUnits
<1> DEFINE first == FirstOf(th, c)
           owed == Wakes!Owed(c.seen[th], c.at)
           run == Wakes!Min({owed, TriesMax - first})
<1>2. u \in [thing : {th}, unit : 0 .. (first + run - 1)]
  BY <1>1 DEF Wakes!UnitsOf, FirstOf
<1>3. u.thing = th /\ u.unit \in 0 .. (first + run - 1) /\ u = [thing |-> u.thing, unit |-> u.unit]
  BY <1>2
<1>4. first \in 0 .. 1 /\ owed \in Nat /\ TriesMax \in Nat \ {0}
  BY SeenDomain, TicksOwed, WakeClock DEF FirstOf
<1>5. run \in Int /\ run <= owed /\ run <= TriesMax - first
  <2> HIDE DEF first, owed
  <2> QED BY <1>4, LesserOfTwo
<1>6. u.unit \in 0 .. TriesMax
  <2> HIDE DEF first, owed, run
  <2> QED BY <1>3, <1>4, <1>5
<1>7. Wakes!Reason(u, c) = "clock" => u.unit >= first
  <2>1. CASE Wakes!Arrives(c.seen[th], c)
    <3>1. first = 1
      BY <2>1 DEF FirstOf
    <3>2. Wakes!Reason(u, c) = "clock" => u.unit # 0
      BY <1>3, <2>1 DEF Wakes!Reason
    <3> HIDE DEF first, run
    <3> QED BY <1>6, <3>1, <3>2, WakeClock
  <2>2. CASE ~Wakes!Arrives(c.seen[th], c)
    <3>1. first = 0
      BY <2>2 DEF FirstOf
    <3> HIDE DEF first, run
    <3> QED BY <1>6, <3>1, WakeClock
  <2> QED BY <2>1, <2>2
<1>8. Wakes!Reason(u, c) \in {"arrive", "clock"}
  BY DEF Wakes!Reason
<1>9. ASSUME Wakes!Reason(u, c) = "clock"
      PROVE  u.unit - first + 1 \in 1 .. owed
  <2> HIDE DEF first, owed, run
  <2> QED BY <1>3, <1>4, <1>5, <1>6, <1>7, <1>9
<1> QED BY <1>3, <1>6, <1>8, <1>9

LEMMA UnitsFinite ==
  ASSUME NEW c \in Claiming
  PROVE  IsFiniteSet(Wakes!planUnits(c))
<1> DEFINE S == Wakes!planUnits(c)
           T == Things \X (0 .. TriesMax)
           f == [u \in S |-> <<u.thing, u.unit>>]
<1>1. IsFiniteSet(T)
  <2>1. 0 \in Int /\ TriesMax \in Int
    BY WakeClock
  <2> QED BY <2>1, WakeClock, FS_Interval, FS_Product
<1>2. \A u \in S : u.thing \in Things /\ u.unit \in 0 .. TriesMax /\ u = [thing |-> u.thing, unit |-> u.unit]
  BY UnitsPlanned, SeenDomain
<1>3. f \in Injection(S, T)
  <2>1. f \in [S -> T]
    BY <1>2
  <2>2. \A u, v \in S : f[u] = f[v] => u = v
    <3> HIDE DEF S
    <3> SUFFICES ASSUME NEW u \in S, NEW v \in S, f[u] = f[v] PROVE u = v
      OBVIOUS
    <3>1. u.thing = v.thing /\ u.unit = v.unit
      OBVIOUS
    <3> QED BY <1>2, <3>1
  <2> QED BY <2>1, <2>2 DEF Injection, IsInjective
<1> HIDE DEF f, S, T
<1> QED BY <1>1, <1>3, FS_Injection DEF S

OwedTicks(c) == [th \in DOMAIN c.seen |-> Wakes!Ticks(c.seen[th], c.at)]

LEMMA OwedFinite ==
  ASSUME NEW c \in Claiming
  PROVE  /\ OwedTicks(c) \in TickMap /\ DOMAIN OwedTicks(c) = DOMAIN c.seen
         /\ IsFiniteSet(Wakes!Owing(OwedTicks(c)))
         /\ \A th \in DOMAIN c.seen : \A t \in Wakes!Ticks(c.seen[th], c.at) :
              <<th, t>> \in Wakes!Owing(OwedTicks(c))
<1>1. /\ DOMAIN c.seen \in SUBSET Things /\ c.at \in Nat
      /\ \A th \in DOMAIN c.seen : Wakes!Ticks(c.seen[th], c.at) \in SUBSET (0 .. c.at)
  BY SeenDomain, TicksOwed
<1>2. OwedTicks(c) \in [DOMAIN c.seen -> SUBSET Nat]
  BY <1>1 DEF OwedTicks
<1>3. OwedTicks(c) \in TickMap /\ DOMAIN OwedTicks(c) = DOMAIN c.seen
  BY <1>1, <1>2 DEF TickMap
<1>4. Wakes!Owing(OwedTicks(c)) \in SUBSET (Things \X (0 .. c.at))
  BY <1>1, <1>3 DEF Wakes!Owing, OwedTicks
<1>5. IsFiniteSet(Things \X (0 .. c.at))
  <2>1. 0 \in Int /\ c.at \in Int
    BY <1>1
  <2> QED BY <2>1, WakeClock, FS_Interval, FS_Product
<1>6. \A th \in DOMAIN c.seen : \A t \in Wakes!Ticks(c.seen[th], c.at) :
        <<th, t>> \in Wakes!Owing(OwedTicks(c))
  BY <1>3 DEF Wakes!Owing, OwedTicks
<1> QED BY <1>3, <1>4, <1>5, <1>6, FS_Subset

\* The ticks that run, are among those that are owed.
LEMMA ForfeitedCounts ==
  ASSUME NEW c \in Claiming, NEW run \in SUBSET Wakes!planUnits(c)
  PROVE  LET S == {u \in run : Wakes!Reason(u, c) = "clock"} IN
         /\ Wakes!Forfeited(c, run) \in Nat /\ IsFiniteSet(run) /\ IsFiniteSet(S)
         /\ Wakes!Forfeited(c, run) + Cardinality(S) = Cardinality(Wakes!Owing(OwedTicks(c)))
<1> DEFINE S == {u \in run : Wakes!Reason(u, c) = "clock"}
           T == Wakes!Owing(OwedTicks(c))
           n(u) == u.unit - FirstOf(u.thing, c) + 1
           f == [u \in S |-> <<u.thing, c.seen[u.thing].clock + n(u) * Every>>]
<1>1. IsFiniteSet(run) /\ IsFiniteSet(S) /\ IsFiniteSet(T)
  BY UnitsFinite, OwedFinite, FS_Subset
<1>2. ASSUME NEW u \in S
      PROVE  /\ u.thing \in DOMAIN c.seen /\ u.unit \in Nat
             /\ u = [thing |-> u.thing, unit |-> u.unit]
             /\ n(u) \in 1 .. Wakes!Owed(c.seen[u.thing], c.at) /\ n(u) * Every \in Nat
             /\ c.seen[u.thing].clock \in Nat
             /\ <<u.thing, c.seen[u.thing].clock + n(u) * Every>> \in T
  <2>1. /\ u.thing \in DOMAIN c.seen /\ u.unit \in Nat /\ u = [thing |-> u.thing, unit |-> u.unit]
        /\ n(u) \in 1 .. Wakes!Owed(c.seen[u.thing], c.at)
    BY UnitsPlanned, WakeClock
  <2>2. c.seen[u.thing] \in Anchor /\ c.at \in Nat
    BY <2>1, SeenDomain
  <2> HIDE DEF n
  <2>3. Wakes!Owed(c.seen[u.thing], c.at) \in Nat /\ Wakes!Owed(c.seen[u.thing], c.at) > 0
    BY <2>1, <2>2, TicksOwed
  <2>4. /\ n(u) * Every \in Nat /\ c.seen[u.thing].clock \in Nat
        /\ c.seen[u.thing].clock + n(u) * Every \in Wakes!Ticks(c.seen[u.thing], c.at)
    BY <2>1, <2>2, <2>3, TicksOwed
  <2> QED BY <2>1, <2>4, OwedFinite
<1>3. f \in Injection(S, T)
  <2>1. f \in [S -> T]
    BY <1>2
  <2>2. ASSUME NEW u \in S, NEW v \in S, f[u] = f[v]
        PROVE  u = v
    <3>1. u.thing = v.thing /\ c.seen[u.thing].clock + n(u) * Every = c.seen[u.thing].clock + n(v) * Every
      BY <2>2
    <3>2. n(u) * Every = n(v) * Every
      <4> DEFINE a == c.seen[u.thing].clock
                 x == n(u) * Every
                 y == n(v) * Every
      <4>1. a \in Nat /\ x \in Nat /\ y \in Nat
        BY <1>2
      <4>2. a + x = a + y
        BY <3>1
      <4> HIDE DEF a, x, y
      <4>3. x = y
        BY <4>1, <4>2
      <4> QED BY <4>3 DEF x, y
    <3>3. c.seen[u.thing] \in Anchor /\ c.at \in Nat
      BY <1>2, SeenDomain
    <3>4. n(u) = n(v)
      <4> HIDE DEF n, S
      <4> QED BY <1>2, <3>1, <3>2, <3>3, TicksOwed
    <3>5. u.unit = v.unit
      <4>1. FirstOf(u.thing, c) = FirstOf(v.thing, c) /\ FirstOf(u.thing, c) \in Nat
        BY <3>1 DEF FirstOf
      <4>2. u.unit \in Nat /\ v.unit \in Nat
        BY <1>2
      <4> QED BY <3>4, <4>1, <4>2
    <3> QED BY <1>2, <3>1, <3>5
  <2> QED BY <2>1, <2>2 DEF Injection, IsInjective
<1>4. Cardinality(S) <= Cardinality(T) /\ Cardinality(S) \in Nat /\ Cardinality(T) \in Nat
  <2> HIDE DEF f, S, T
  <2> QED BY <1>1, <1>3, FS_Injection, FS_CardinalityType
<1>5. Wakes!Forfeited(c, run) = Cardinality(T) - Cardinality(S)
  BY WakeCounts DEF Wakes!Forfeited, OwedTicks
<1> HIDE DEF S, T
<1> QED BY <1>1, <1>4, <1>5 DEF S, T

\* What a claim writes.
NextClock(c, th) ==
  IF th \in {x \in DOMAIN c.seen : c.seen[x].clock = None}
  THEN IF wakeState[th].clock = None THEN c.at ELSE wakeState[th].clock
  ELSE IF th \in DOMAIN c.seen /\ Wakes!Owed(c.seen[th], c.at) > 0
       THEN c.seen[th].clock + Wakes!Owed(c.seen[th], c.at) * Every
       ELSE wakeState[th].clock

UnitsRun(c, run) ==
  {[thing |-> u.thing, unit |-> u.unit, reason |-> Wakes!Reason(u, c)] : u \in run}

Claimed(c, run) ==
  [place |-> c.place, at |-> c.at, ticks |-> OwedTicks(c), units |-> UnitsRun(c, run),
   forfeited |-> Wakes!Forfeited(c, run)]

Starts(k, units) ==
  [pc |-> "running", settle |-> k, todo |-> units, failing |-> None,
   applied |-> 0, tried |-> 0, woke |-> 0, stopped |-> 0]

LEMMA ClaimWrites ==
  ASSUME WakeTyped, NEW s \in Twins, Wakes!claimSettle(s)
  PROVE  LET c == settler[s] IN
         /\ c \in Claiming /\ c.pc = "claiming"
         /\ UNCHANGED <<now, at, wakes, dials, moved, tries, reports>>
         /\ \E tried :
              wakeState' = [th \in Things |->
                [last |-> IF th \in tried THEN c.at ELSE wakeState[th].last, clock |-> NextClock(c, th)]]
         /\ \/ settles' = settles /\ settler' = [settler EXCEPT ![s] = Wakes!Idle]
            \/ \E run \in SUBSET Wakes!planUnits(c) :
                 /\ settles' = Append(settles, Claimed(c, run))
                 /\ settler' = [settler EXCEPT ![s] = Starts(Len(settles) + 1, UnitsRun(c, run))]
<1> DEFINE c == settler[s]
           units == Wakes!planUnits(c)
           pinned == {u \in units : u.thing \in Pinned}
           Write(tried) ==
             wakeState' = [th \in Things |->
               [last |-> IF th \in tried THEN c.at ELSE wakeState[th].last, clock |-> NextClock(c, th)]]
           More ==
             \E picked \in Wakes!kSubset(Wakes!Min({RandomCap, Wakes!Cardinality(units \ pinned)}), units \ pinned) :
               LET run == pinned \union picked IN
               /\ Write({u.thing : u \in run})
               /\ settles' = Append(settles, Claimed(c, run))
               /\ settler' = [settler EXCEPT ![s] =
                    Starts(Len(settles) + 1, settles'[Len(settles')].units)]
<1>1. c.pc = "claiming" /\ UNCHANGED <<now, at, wakes, dials, moved, tries, reports>>
  BY DEF Wakes!claimSettle
<1>2. c \in Claiming
  BY <1>1, SettlerStages DEF WakeTyped
<1>3. \/ Write({}) /\ settles' = settles /\ settler' = [settler EXCEPT ![s] = Wakes!Idle]
      \/ More
  <2>1. CASE units = {}
    BY <2>1, Zenon DEF Wakes!claimSettle, NextClock
  <2>2. CASE units # {}
    BY <2>2, Zenon DEF Wakes!claimSettle, NextClock, Claimed, OwedTicks, UnitsRun, Starts
  <2> QED BY <2>1, <2>2
<1>4. ASSUME More
      PROVE  \E run \in SUBSET units :
               /\ \E tried : Write(tried)
               /\ settles' = Append(settles, Claimed(c, run))
               /\ settler' = [settler EXCEPT ![s] = Starts(Len(settles) + 1, UnitsRun(c, run))]
  <2>1. PICK picked \in Wakes!kSubset(Wakes!Min({RandomCap, Wakes!Cardinality(units \ pinned)}), units \ pinned) :
          LET run == pinned \union picked IN
          /\ Write({u.thing : u \in run})
          /\ settles' = Append(settles, Claimed(c, run))
          /\ settler' = [settler EXCEPT ![s] = Starts(Len(settles) + 1, settles'[Len(settles')].units)]
    BY <1>4
  <2> DEFINE run == pinned \union picked
             claim == Claimed(c, run)
  <2>2. run \in SUBSET units
    BY DEF Wakes!kSubset
  <2>3. claim.units = UnitsRun(c, run)
    BY DEF Claimed
  <2>4. settles' = Append(settles, claim) /\ \E tried : Write(tried)
    BY <2>1
  <2>5. settles'[Len(settles')] = claim
    <3>1. settles \in Seq(Settle)
      BY DEF WakeTyped
    <3> HIDE DEF claim
    <3> QED BY <2>4, <3>1
  <2>6. settler' = [settler EXCEPT ![s] = Starts(Len(settles) + 1, settles'[Len(settles')].units)]
    BY <2>1
  <2>7. settler' = [settler EXCEPT ![s] = Starts(Len(settles) + 1, UnitsRun(c, run))]
    BY <2>3, <2>5, <2>6
  <2> HIDE DEF run, units, Write
  <2> WITNESS run \in SUBSET units
  <2> QED BY <2>4, <2>7
<1>5. \E tried : Write(tried)
  <2> HIDE DEF More, Write
  <2> QED BY <1>3, <1>4
<1>6. \/ settles' = settles /\ settler' = [settler EXCEPT ![s] = Wakes!Idle]
      \/ \E run \in SUBSET units :
           /\ settles' = Append(settles, Claimed(c, run))
           /\ settler' = [settler EXCEPT ![s] = Starts(Len(settles) + 1, UnitsRun(c, run))]
  <2> HIDE DEF More, Write, units
  <2> QED BY <1>3, <1>4
<1> QED BY <1>1, <1>2, <1>5, <1>6, Zenon

LEMMA ClaimTyped ==
  ASSUME NEW c \in Claiming, NEW run \in SUBSET Wakes!planUnits(c), NEW k \in Nat
  PROVE  /\ UnitsRun(c, run) \in SUBSET WakeUnit
         /\ Claimed(c, run) \in Settle /\ Starts(k, UnitsRun(c, run)) \in Running
<1>1. UnitsRun(c, run) \in SUBSET WakeUnit
  <2> SUFFICES ASSUME NEW u \in run
               PROVE  [thing |-> u.thing, unit |-> u.unit, reason |-> Wakes!Reason(u, c)] \in WakeUnit
    BY DEF UnitsRun
  <2>1. u.thing \in Things /\ u.unit \in Nat /\ Wakes!Reason(u, c) \in {"arrive", "clock"}
    BY UnitsPlanned, SeenDomain, WakeClock
  <2> QED BY <2>1 DEF WakeUnit
<1>2. Claimed(c, run) \in Settle
  BY <1>1, SeenDomain, OwedFinite, ForfeitedCounts DEF Claimed, Settle
<1>3. Starts(k, UnitsRun(c, run)) \in Running
  BY <1>1 DEF Starts, Running
<1> QED BY <1>1, <1>2, <1>3

\* The anchor of a claimed thing that did not move goes past what it is owed, and no
\* anchor goes back.
LEMMA AnchorAdvances ==
  ASSUME ClaimInv, NEW s \in Twins, NEW c, c = settler[s], c \in Claiming, NEW th \in Things
  PROVE  /\ NextClock(c, th) \in Nat \cup {None}
         /\ NextClock(c, th) # None => NextClock(c, th) <= now
         /\ th \notin DOMAIN c.seen => NextClock(c, th) = wakeState[th].clock
         /\ th \in DOMAIN c.seen \ moved =>
              /\ NextClock(c, th) # None
              /\ wakeState[th].clock # None =>
                   /\ wakeState[th].clock <= NextClock(c, th)
                   /\ \A t \in Wakes!Ticks(c.seen[th], c.at) : t > wakeState[th].clock
              /\ wakeState[th].clock = None => Wakes!Ticks(c.seen[th], c.at) = {}
              /\ \A t \in Wakes!Ticks(c.seen[th], c.at) : t <= NextClock(c, th)
<1>1. /\ c.pc = "claiming" /\ ClaimOK(s) /\ AnchorOK(th) /\ wakeState[th] \in Anchor
      /\ now \in Nat /\ c.at \in Nat /\ c.at <= now
      /\ \A x \in DOMAIN c.seen : c.seen[x] \in Anchor
  BY SettledDomain, SeenDomain DEF ClaimInv, Claiming, ClaimOK, WakeTyped
<1>2. None \notin 0 .. now
  BY <1>1, WakeClock DEF ClaimInv, WakeTyped
<1>3. CASE th \notin DOMAIN c.seen
  BY <1>1, <1>3 DEF NextClock, Anchor, AnchorOK
<1>4. CASE th \in DOMAIN c.seen
  <2> DEFINE x == c.seen[th]
             n == Wakes!Owed(x, c.at)
             clock == wakeState[th].clock
  <2>1. x \in Anchor /\ (th \notin moved => x.clock = clock)
    BY <1>1, <1>4 DEF ClaimOK
  <2>2. /\ n \in Nat
        /\ n > 0 => x.clock \in Nat /\ x.clock + n * Every \in Nat /\ x.clock + n * Every <= c.at
        /\ \A t \in Wakes!Ticks(x, c.at) :
             \E k \in 1 .. n : t = x.clock + k * Every /\ t > x.clock /\ t <= x.clock + n * Every
    <3> HIDE DEF x
    <3> QED BY <1>1, <2>1, TicksOwed
  <2>3. NextClock(c, th) =
          IF x.clock = None THEN IF clock = None THEN c.at ELSE clock
          ELSE IF n > 0 THEN x.clock + n * Every ELSE clock
    BY <1>4 DEF NextClock
  <2>4. clock \in Nat \cup {None} /\ (clock # None => clock <= now)
    BY <1>1 DEF Anchor, AnchorOK
  <2>5. x.clock = None => n = 0
    BY DEF Wakes!Owed
  <2> HIDE DEF x, n, clock
  <2>6. \A t \in Wakes!Ticks(x, c.at) : n > 0 /\ x.clock # None
    BY <2>2, <2>5
  <2>7. NextClock(c, th) \in Nat \cup {None} /\ (NextClock(c, th) # None => NextClock(c, th) <= now)
    BY <1>1, <2>2, <2>3, <2>4
  <2>8. ASSUME th \notin moved
        PROVE  /\ NextClock(c, th) # None
               /\ clock # None =>
                    /\ clock <= NextClock(c, th)
                    /\ \A t \in Wakes!Ticks(x, c.at) : t > clock
               /\ clock = None => Wakes!Ticks(x, c.at) = {}
               /\ \A t \in Wakes!Ticks(x, c.at) : t <= NextClock(c, th)
    <3>1. x.clock = clock
      BY <2>1, <2>8
    <3>2. CASE clock = None
      BY <1>1, <1>2, <2>3, <2>6, <3>1, <3>2
    <3>3. CASE clock # None /\ n = 0
      BY <2>3, <2>4, <2>6, <3>1, <3>3
    <3>4. CASE clock # None /\ n > 0
      <4>1. NextClock(c, th) = x.clock + n * Every
        BY <2>3, <3>1, <3>4
      <4>2. x.clock + n * Every \in 0 .. now /\ x.clock \in Nat
        BY <1>1, <2>2, <3>4
      <4>3. n * Every >= 0
        BY <2>2, WakeClock
      <4>4. clock <= x.clock + n * Every
        BY <3>1, <4>2, <4>3, <2>2, WakeClock
      <4> QED BY <1>2, <2>2, <3>1, <3>4, <4>1, <4>2, <4>4
    <3> QED BY <2>2, <3>2, <3>3, <3>4
  <2> QED BY <1>4, <2>7, <2>8 DEF x, clock
<1> QED BY <1>3, <1>4

\* What a claim leaves behind for the settles and the claims there were.
LEMMA ClaimKeeps ==
  ASSUME ClaimInv, NEW s \in Twins, NEW c, c = settler[s], c \in Claiming, c.pc = "claiming",
         UNCHANGED <<now, at, moved>>, NEW tried,
         wakeState' = [th \in Things |->
           [last |-> IF th \in tried THEN c.at ELSE wakeState[th].last, clock |-> NextClock(c, th)]]
  PROVE  /\ wakeState' \in [Things -> Anchor]
         /\ \A th \in Things : AnchorOK(th)' /\ wakeState'[th].clock = NextClock(c, th)
         /\ \A u \in Twins \ {s} : settler[u].pc = "claiming" =>
              /\ settler[u].place # c.place
              /\ \A th \in DOMAIN settler[u].seen \ moved :
                   settler[u].seen[th].clock = wakeState'[th].clock
         /\ \A i \in Settled : \A th \in DOMAIN settles[i].ticks \ moved :
              /\ at[th] = settles[i].place /\ wakeState'[th].clock # None
              /\ \A k \in settles[i].ticks[th] : k <= wakeState'[th].clock
<1>1. /\ WakeTyped /\ ClaimOK(s) /\ now \in Nat /\ c.at \in Nat /\ c.at <= now
      /\ DOMAIN c.seen \subseteq Things /\ None \notin 0 .. now
  BY SettledDomain, SeenDomain, WakeClock DEF ClaimInv, ClaimOK, WakeTyped
<1>2. ASSUME NEW th \in Things
      PROVE  /\ wakeState'[th].clock = NextClock(c, th) /\ wakeState'[th] \in Anchor
             /\ AnchorOK(th)'
  <2>1. /\ NextClock(c, th) \in Nat \cup {None}
        /\ NextClock(c, th) # None => NextClock(c, th) <= now
    BY AnchorAdvances
  <2>2. wakeState[th].last \in Nat \cup {None} /\ (wakeState[th].last # None => wakeState[th].last <= now)
    BY <1>1 DEF ClaimInv, WakeTyped, Anchor, AnchorOK
  <2> DEFINE l == IF th \in tried THEN c.at ELSE wakeState[th].last
  <2>3. l \in Nat \cup {None} /\ (l # None => l <= now)
    BY <1>1, <2>2
  <2>4. wakeState'[th] = [last |-> l, clock |-> NextClock(c, th)]
    OBVIOUS
  <2> HIDE DEF l
  <2> QED BY <2>1, <2>3, <2>4 DEF Anchor, AnchorOK
<1>3. wakeState' \in [Things -> Anchor]
  BY <1>2
<1>4. ASSUME NEW u \in Twins \ {s}, settler[u].pc = "claiming"
      PROVE  /\ settler[u].place # c.place
             /\ \A th \in DOMAIN settler[u].seen \ moved :
                  settler[u].seen[th].clock = wakeState'[th].clock
  <2>1. settler[u].place # c.place /\ ClaimOK(u) /\ settler[u] \in Claiming
    BY <1>1, <1>4, SettlerStages DEF ClaimInv, WakeTyped
  <2> SUFFICES ASSUME NEW th \in DOMAIN settler[u].seen \ moved
               PROVE  settler[u].seen[th].clock = wakeState'[th].clock
    BY <2>1
  <2>2. th \in Things /\ at[th] = settler[u].place /\ settler[u].seen[th].clock = wakeState[th].clock
    BY <1>4, <2>1, SeenDomain DEF ClaimOK
  <2>3. th \notin DOMAIN c.seen
    BY <1>1, <2>1, <2>2 DEF ClaimOK
  <2> QED BY <1>2, <2>2, <2>3, AnchorAdvances
<1>5. ASSUME NEW i \in Settled, NEW th \in DOMAIN settles[i].ticks \ moved
      PROVE  /\ at[th] = settles[i].place /\ wakeState'[th].clock # None
             /\ \A k \in settles[i].ticks[th] : k <= wakeState'[th].clock
  <2>1. TicksOK(i) /\ settles[i] \in Settle
    BY <1>1, SettledDomain DEF ClaimInv
  <2>2. th \in Things /\ settles[i].ticks[th] \in SUBSET Nat
    BY <2>1 DEF Settle, TickMap
  <2>3. /\ at[th] = settles[i].place /\ wakeState[th].clock # None /\ wakeState[th].clock \in Nat
        /\ \A k \in settles[i].ticks[th] : k <= wakeState[th].clock
    BY <1>1, <2>1, <2>2 DEF TicksOK, WakeTyped, Anchor
  <2>4. /\ NextClock(c, th) \in Nat /\ wakeState[th].clock <= NextClock(c, th)
        /\ NextClock(c, th) # None
    <3>1. CASE th \in DOMAIN c.seen
      BY <2>2, <2>3, <3>1, AnchorAdvances
    <3>2. CASE th \notin DOMAIN c.seen
      <4>1. NextClock(c, th) = wakeState[th].clock
        BY <2>2, <3>2, AnchorAdvances
      <4> QED BY <2>3, <4>1
    <3> QED BY <3>1, <3>2
  <2> QED BY <1>2, <2>2, <2>3, <2>4
<1> QED BY <1>2, <1>3, <1>4, <1>5

LEMMA ClaimClaims ==
  ASSUME ClaimInv, NEW s \in Twins, Wakes!claimSettle(s)
  PROVE  ClaimInv'
<1> DEFINE c == settler[s]
<1>1. WakeTyped /\ Settled = DOMAIN settles /\ Len(settles) \in Nat /\ settles \in Seq(Settle)
  BY SettledDomain DEF ClaimInv, WakeTyped
<1>2. /\ c \in Claiming /\ c.pc = "claiming"
      /\ UNCHANGED <<now, at, wakes, dials, moved, tries, reports>>
  BY <1>1, ClaimWrites
<1>3. PICK tried :
        wakeState' = [th \in Things |->
          [last |-> IF th \in tried THEN c.at ELSE wakeState[th].last, clock |-> NextClock(c, th)]]
  BY <1>1, ClaimWrites
<1>4. \/ settles' = settles /\ settler' = [settler EXCEPT ![s] = Wakes!Idle]
      \/ \E run \in SUBSET Wakes!planUnits(c) :
           /\ settles' = Append(settles, Claimed(c, run))
           /\ settler' = [settler EXCEPT ![s] = Starts(Len(settles) + 1, UnitsRun(c, run))]
  BY <1>1, ClaimWrites
<1>5. /\ wakeState' \in [Things -> Anchor]
      /\ \A th \in Things : AnchorOK(th)' /\ wakeState'[th].clock = NextClock(c, th)
      /\ \A u \in Twins \ {s} : settler[u].pc = "claiming" =>
           /\ settler[u].place # c.place
           /\ \A th \in DOMAIN settler[u].seen \ moved :
                settler[u].seen[th].clock = wakeState'[th].clock
      /\ \A i \in Settled : \A th \in DOMAIN settles[i].ticks \ moved :
           /\ at[th] = settles[i].place /\ wakeState'[th].clock # None
           /\ \A k \in settles[i].ticks[th] : k <= wakeState'[th].clock
  <2> HIDE DEF c
  <2> QED BY <1>2, <1>3, ClaimKeeps DEF c
<1>6. \E d \in SettlerState : settler' = [settler EXCEPT ![s] = d] /\ d.pc \in {"idle", "running"}
  <2>1. Wakes!Idle \in SettlerState /\ Wakes!Idle.pc = "idle"
    BY DEF SettlerState, Wakes!Idle
  <2>2. ASSUME NEW run \in SUBSET Wakes!planUnits(c)
        PROVE  /\ Starts(Len(settles) + 1, UnitsRun(c, run)) \in SettlerState
               /\ Starts(Len(settles) + 1, UnitsRun(c, run)).pc = "running"
    <3>1. Starts(Len(settles) + 1, UnitsRun(c, run)) \in Running
      BY <1>1, <1>2, ClaimTyped
    <3> QED BY <3>1 DEF SettlerState, Running
  <2> QED BY <1>4, <2>1, <2>2
<1>7. /\ settler' \in [Twins -> SettlerState] /\ settler'[s].pc \in {"idle", "running"}
      /\ \A u \in Twins \ {s} : settler'[u] = settler[u]
  BY <1>1, <1>6 DEF WakeTyped
<1>8. \/ settles' = settles
      \/ \E run \in SUBSET Wakes!planUnits(c) : settles' = Append(settles, Claimed(c, run))
  BY <1>4
<1>9. ASSUME NEW u \in Twins, NEW v \in Twins, settler'[u].pc = "claiming", settler'[v].pc = "claiming",
             settler'[u].place = settler'[v].place
      PROVE  u = v
  <2>1. u # s /\ v # s
    BY <1>7, <1>9
  <2> QED BY <1>7, <1>9, <2>1 DEF ClaimInv
<1>10. ASSUME settles' = settles
       PROVE  ClaimInv'
  <2>1. Settled' = Settled /\ WakeTyped'
    BY <1>1, <1>2, <1>5, <1>7, <1>10 DEF WakeTyped, Settled
  <2>2. \A u \in Twins : ClaimOK(u)'
    <3> SUFFICES ASSUME NEW u \in Twins, settler'[u].pc \in {"begun", "claiming"} PROVE ClaimOK(u)'
      BY DEF ClaimOK
    <3>1. u # s /\ settler'[u] = settler[u] /\ ClaimOK(u)
      BY <1>7 DEF ClaimInv
    <3> QED BY <1>2, <1>5, <1>10, <2>1, <3>1 DEF ClaimOK
  <2>3. \A i \in Settled : TicksOK(i)'
    BY <1>2, <1>5, <1>10 DEF TicksOK
  <2>4. \A i, j \in Settled : i # j => ClaimedApart(i, j)'
    BY <1>2, <1>10 DEF ClaimInv, ClaimedApart
  <2> QED BY <1>5, <1>9, <2>1, <2>2, <2>3, <2>4 DEF ClaimInv
<1>11. ASSUME NEW run \in SUBSET Wakes!planUnits(c), settles' = Append(settles, Claimed(c, run))
       PROVE  ClaimInv'
  <2> DEFINE x == Claimed(c, run)
  <2>0. PICK n \in Nat : n = Len(settles) + 1
    BY <1>1
  <2>1. x \in Settle
    BY <1>2, ClaimTyped
  <2>2. x.place = c.place /\ x.at = c.at /\ x.ticks = OwedTicks(c)
    BY DEF Claimed
  <2>3. DOMAIN x.ticks = DOMAIN c.seen /\ \A th \in DOMAIN c.seen : x.ticks[th] = Wakes!Ticks(c.seen[th], c.at)
    BY <2>2 DEF OwedTicks
  <2> HIDE DEF x
  <2>4. /\ Settled' = Settled \cup {n} /\ n \notin Settled
        /\ settles' \in Seq(Settle) /\ settles'[n] = x
        /\ \A i \in Settled : settles'[i] = settles[i]
    BY <1>1, <1>11, <2>0, <2>1 DEF Settled, x
  <2>5. WakeTyped'
    BY <1>1, <1>2, <1>5, <1>7, <2>4 DEF WakeTyped
  <2>6. \A u \in Twins : ClaimOK(u)'
    <3> SUFFICES ASSUME NEW u \in Twins, settler'[u].pc \in {"begun", "claiming"} PROVE ClaimOK(u)'
      BY DEF ClaimOK
    <3>1. u # s /\ settler'[u] = settler[u] /\ ClaimOK(u)
      BY <1>7 DEF ClaimInv
    <3>2. settler[u].pc = "claiming" => settler[u].place # x.place
      BY <1>5, <2>2, <3>1
    <3> QED BY <1>2, <1>5, <2>4, <3>1, <3>2 DEF ClaimOK
  <2>7. ASSUME NEW th \in DOMAIN x.ticks \ moved
        PROVE  /\ at[th] = x.place /\ wakeState'[th].clock # None
               /\ wakeState[th].clock # None => \A t \in x.ticks[th] : t > wakeState[th].clock
               /\ \A t \in x.ticks[th] : t <= wakeState'[th].clock
    <3>1. th \in Things /\ th \in DOMAIN c.seen \ moved /\ x.ticks[th] = Wakes!Ticks(c.seen[th], c.at)
      BY <1>2, <2>3, SeenDomain
    <3>2. at[th] = x.place
      BY <1>2, <2>2, <3>1 DEF ClaimInv, ClaimOK
    <3>3. wakeState'[th].clock = NextClock(c, th)
      BY <1>5, <3>1
    <3> HIDE DEF c
    <3> QED BY <1>2, <3>1, <3>2, <3>3, AnchorAdvances DEF c
  <2>8. \A i \in Settled \cup {n} : TicksOK(i)'
    BY <1>2, <1>5, <2>4, <2>7 DEF TicksOK
  <2>9. ASSUME NEW i \in Settled
        PROVE  ClaimedApart(i, n)' /\ ClaimedApart(n, i)'
    <3>1. settles[i].place = x.place => x.at - settles[i].at >= Quiet
      BY <1>2, <2>2 DEF ClaimInv, ClaimOK
    <3>2. ASSUME NEW th \in (DOMAIN settles[i].ticks \cap DOMAIN x.ticks) \ moved
          PROVE  settles[i].ticks[th] \cap x.ticks[th] = {}
      <4>1. wakeState[th].clock # None /\ \A k \in settles[i].ticks[th] : k <= wakeState[th].clock
        BY DEF ClaimInv, TicksOK
      <4>2. \A t \in x.ticks[th] : t > wakeState[th].clock
        BY <2>7, <4>1
      <4>3. settles[i] \in Settle
        BY <1>1, SettledDomain
      <4>4. settles[i].ticks[th] \in SUBSET Nat /\ x.ticks[th] \in SUBSET Nat /\ th \in Things
        BY <2>1, <4>3 DEF Settle, TickMap
      <4>5. wakeState[th].clock \in Nat
        BY <1>1, <4>1, <4>4 DEF WakeTyped, Anchor
      <4> QED BY <4>1, <4>2, <4>4, <4>5
    <3>3. settles'[i] = settles[i] /\ settles'[n] = x /\ moved' = moved
      BY <1>2, <2>4
    <3>4. \A th \in (DOMAIN x.ticks \cap DOMAIN settles[i].ticks) \ moved :
            x.ticks[th] \cap settles[i].ticks[th] = {}
      BY <3>2
    <3>5. ClaimedApart(i, n)'
      BY <3>1, <3>2, <3>3 DEF ClaimedApart
    <3>6. ClaimedApart(n, i)'
      BY <3>1, <3>3, <3>4 DEF ClaimedApart
    <3> QED BY <3>5, <3>6
  <2>10. \A i, j \in Settled : i # j => ClaimedApart(i, j)'
    BY <1>2, <2>4 DEF ClaimInv, ClaimedApart
  <2>11. \A i, j \in Settled \cup {n} : i # j => ClaimedApart(i, j)'
    <3> SUFFICES ASSUME NEW i \in Settled \cup {n}, NEW j \in Settled \cup {n}, i # j
                 PROVE  ClaimedApart(i, j)'
      OBVIOUS
    <3>1. CASE i = n
      BY <2>9, <3>1
    <3>2. CASE j = n
      BY <2>9, <3>2
    <3>3. CASE i \in Settled /\ j \in Settled
      BY <2>10, <3>3
    <3> QED BY <3>1, <3>2, <3>3
  <2> QED BY <1>5, <1>9, <2>4, <2>5, <2>6, <2>8, <2>11 DEF ClaimInv
<1> QED BY <1>8, <1>10, <1>11

LEMMA ClaimSteps ==
  ASSUME ClaimInv, Wakes!Next
  PROVE  ClaimInv'
<1>1. ASSUME NEW s \in Twins, NEW p \in Rooms, NEW trigger \in {"arrive", "act"}, Wakes!settleRoom(s, p, trigger)
      PROVE  ClaimInv'
  BY <1>1, ClaimBegins
<1>2. ASSUME NEW s \in Twins, Wakes!ReadCandidates(s)
      PROVE  ClaimInv'
  BY <1>2, ClaimReads
<1>3. ASSUME NEW s \in Twins, Wakes!claimSettle(s)
      PROVE  ClaimInv'
  BY <1>3, ClaimClaims
<1>4. ASSUME NEW s \in Twins, NEW u \in (IF settler[s].pc = "running" THEN settler[s].todo ELSE {}),
             \/ \E effects \in 0 .. 1 : Wakes!runTry(s, u, effects)
             \/ \E committed \in BOOLEAN : Wakes!TryThrows(s, u, committed)
             \/ Wakes!StopTry(s, u)
      PROVE  ClaimInv'
  <2>1. u \in settler[s].todo
    OBVIOUS
  <2> QED BY <1>4, <2>1, ClaimSettlers
<1>5. ASSUME NEW s \in Twins, Wakes!recordTry(s) \/ Wakes!settleWake(s) \/ Wakes!Dies(s)
      PROVE  ClaimInv'
  BY <1>5, ClaimSettlers
<1>6. ASSUME \/ \E th \in Things : Wakes!Switch(th)
             \/ \E th \in Things, p \in Rooms : Wakes!Move(th, p)
             \/ Wakes!Tick
      PROVE  ClaimInv'
  BY <1>6, ClaimDials
<1> QED BY <1>1, <1>2, <1>3, <1>4, <1>5, <1>6 DEF Wakes!Next

LEMMA ClaimMeans ==
  ASSUME ClaimInv
  PROVE  Wakes!OwedOnce
<1>1. DOMAIN settles = Settled
  BY SettledDomain DEF ClaimInv
<1> QED BY <1>1 DEF ClaimInv, ClaimedApart, Wakes!OwedOnce

SettleInv == part = "wakes" => ClaimInv

LEMMA SettleHolds == RoomsSpec => []SettleInv
<1>1. RoomsInit => SettleInv
  BY ClaimStarts DEF RoomsInit, TalkInit, WorkInit, SettleInv
<1>2. SettleInv /\ [RoomsNext]_roomVars => SettleInv'
  <2> SUFFICES ASSUME SettleInv, [RoomsNext]_roomVars, part' = "wakes"
               PROVE  ClaimInv'
    BY DEF SettleInv
  <2>1. part = "wakes" /\ ClaimInv
    BY DEF RoomsNext, roomVars, SettleInv
  <2>2. CASE Wakes!Next
    BY <2>1, <2>2, ClaimSteps
  <2>3. CASE UNCHANGED <<now, wakeVars>>
    <3>1. /\ UNCHANGED <<wakeState, settles, settler>> /\ WakeTyped /\ now \in Nat
          /\ now' = now /\ at' = at /\ wakes' = wakes /\ dials' = dials /\ moved' = moved
      BY <2>1, <2>3, SettledDomain DEF wakeVars, ClaimInv
    <3>2. \A s \in Twins : settler'[s].pc = "begun" => settler'[s].at <= now'
      BY <2>1, <3>1 DEF ClaimInv, ClaimOK
    <3>3. /\ settler' \in [Twins -> SettlerState] /\ at' \in [Things -> Rooms]
          /\ wakes' \in [Things -> BOOLEAN] /\ dials' \in 0 .. DialLimit
          /\ moved' \in SUBSET Things /\ now' \in 0 .. WakeTime /\ now' >= now
      BY <3>1 DEF WakeTyped
    <3> QED BY <2>1, <3>1, <3>2, <3>3, ClaimRests
  <2> QED BY <2>1, <2>2, <2>3 DEF RoomsNext, TalkNext, WorkNext, roomVars
<1> QED BY <1>1, <1>2, PTL DEF RoomsSpec

\* No interval that a room owes a thing is claimed twice, a room settles after its quiet
\* time, and a timer that is due runs once.
THEOREM OwedHolds == RoomsSpec => []OwedOnce
<1>1. SettleInv /\ DueInv => OwedOnce
  BY ClaimMeans, TimerMeans DEF SettleInv, DueInv, OwedOnce
<1> QED BY <1>1, SettleHolds, DueHolds, PTL

-----------------------------------------------------------------------------
(* WakeSettling: a report is what the records say                          *)

TryStatus == {"woke", "quiet", "failed", "stopped"}
WakeTry ==
  [settle : Nat, thing : Things, unit : Nat, reason : {"arrive", "clock"}, status : TryStatus]
UnitOf(t) == [thing |-> t.thing, unit |-> t.unit, reason |-> t.reason]

\* The records of a settle among those that are kept.
MineIn(T, k) == {t \in T : t.settle = k}
RanIn(T, k) == {t \in MineIn(T, k) : t.status # "stopped"}
WokeIn(T, k) == {t \in MineIn(T, k) : t.status = "woke"}
StoppedIn(T, k) == {t \in MineIn(T, k) : t.status = "stopped" /\ t.reason = "clock"}
InBooks(T, k, u) == \E t \in T : t.settle = k /\ t.thing = u.thing /\ t.unit = u.unit

\* A unit is known by its thing and its number.
Distinct(U) == \A u, v \in U : u.thing = v.thing /\ u.unit = v.unit => u = v

\* What was claimed accounts for every tick that is owed.
ClaimCounts(settle) ==
  /\ settle.units \in SUBSET WakeUnit /\ IsFiniteSet(settle.units) /\ Distinct(settle.units)
  /\ settle.forfeited + Cardinality({u \in settle.units : u.reason = "clock"})
       = Cardinality(Wakes!Owing(settle.ticks))

\* The books of a settler that goes on: but for what it has still to try, and a failure
\* it has still to record, every unit has its record and is counted.
Accounted(T, c, U) ==
  /\ \A u \in U \ c.todo : u # c.failing => InBooks(T, c.settle, u)
  /\ c.tried = Cardinality(RanIn(T, c.settle)) + (IF c.failing = None THEN 0 ELSE 1)
  /\ c.woke = Cardinality(WokeIn(T, c.settle))
  /\ c.stopped = Cardinality(StoppedIn(T, c.settle))

Keeps(T, c, U) ==
  /\ c.todo \subseteq U /\ (c.failing = None \/ c.failing \in U \ c.todo)
  /\ \A t \in MineIn(T, c.settle) : UnitOf(t) \notin c.todo
  /\ c.failing = None \/ ~InBooks(T, c.settle, c.failing) => Accounted(T, c, U)

\* What a report says.
Reported(T, settle, r) ==
  /\ Cardinality(MineIn(T, r.settle)) = Cardinality(settle.units)
  /\ \A u \in settle.units : InBooks(T, r.settle, u)
  /\ r.tried = Cardinality(RanIn(T, r.settle))
  /\ r.woke = Cardinality(WokeIn(T, r.settle))
  /\ r.forfeited + Cardinality({t \in RanIn(T, r.settle) : t.reason = "clock"})
       = Cardinality(Wakes!Owing(settle.ticks))

BookInv ==
  /\ ClaimInv
  /\ tries \in SUBSET WakeTry /\ IsFiniteSet(tries)
  /\ \A k \in Settled : ClaimCounts(settles[k])
  /\ \A t \in tries : t.settle \in Settled /\ UnitOf(t) \in settles[t.settle].units
  /\ \A t, x \in tries : t.settle = x.settle /\ UnitOf(t) = UnitOf(x) => t = x
  /\ \A s \in Twins : settler[s].pc = "running" =>
       settler[s].settle \in Settled /\ Keeps(tries, settler[s], settles[settler[s].settle].units)
  /\ \A s, u \in Twins :
       settler[s].pc = "running" /\ settler[u].pc = "running" /\ settler[s].settle = settler[u].settle
         => s = u
  /\ \A r \in reports :
       /\ r.settle \in Settled /\ Reported(tries, settles[r.settle], r)
       /\ \A s \in Twins : settler[s].pc = "running" => settler[s].settle # r.settle

LEMMA MineFinite ==
  ASSUME NEW T, IsFiniteSet(T), NEW k
  PROVE  /\ IsFiniteSet(MineIn(T, k)) /\ IsFiniteSet(RanIn(T, k))
         /\ IsFiniteSet(WokeIn(T, k)) /\ IsFiniteSet(StoppedIn(T, k))
         /\ Cardinality(RanIn(T, k)) \in Nat /\ Cardinality(WokeIn(T, k)) \in Nat
         /\ Cardinality(StoppedIn(T, k)) \in Nat
<1>1. /\ MineIn(T, k) \subseteq T /\ RanIn(T, k) \subseteq T
      /\ WokeIn(T, k) \subseteq T /\ StoppedIn(T, k) \subseteq T
  BY DEF MineIn, RanIn, WokeIn, StoppedIn
<1>2. /\ IsFiniteSet(MineIn(T, k)) /\ IsFiniteSet(RanIn(T, k))
      /\ IsFiniteSet(WokeIn(T, k)) /\ IsFiniteSet(StoppedIn(T, k))
  BY <1>1, FS_Subset
<1> QED BY <1>2, FS_CardinalityType

\* A unit that is on record, is the unit of its record.
LEMMA BooksName ==
  ASSUME NEW T, NEW U, Distinct(U), NEW k, NEW u \in U, InBooks(T, k, u),
         \A t \in MineIn(T, k) : UnitOf(t) \in U
  PROVE  \E t \in MineIn(T, k) : UnitOf(t) = u
<1>1. PICK t \in T : t.settle = k /\ t.thing = u.thing /\ t.unit = u.unit
  BY DEF InBooks
<1>2. t \in MineIn(T, k) /\ UnitOf(t) \in U
  BY <1>1 DEF MineIn
<1>3. UnitOf(t).thing = u.thing /\ UnitOf(t).unit = u.unit
  BY <1>1 DEF UnitOf
<1> QED BY <1>2, <1>3 DEF Distinct

\* A new record counts once.
LEMMA LedgerGrows ==
  ASSUME NEW T, IsFiniteSet(T), NEW k \in Nat, NEW u \in WakeUnit, NEW status \in TryStatus,
         ~InBooks(T, k, u), NEW t, t = Wakes!TryOf(k, u, status), NEW N, N = T \cup {t}
  PROVE  /\ t \in WakeTry /\ UnitOf(t) = u /\ t.settle = k /\ t \notin T /\ IsFiniteSet(N)
         /\ InBooks(N, k, u) /\ MineIn(N, k) = MineIn(T, k) \cup {t}
         /\ \A j : j # k => MineIn(N, j) = MineIn(T, j)
         /\ Cardinality(RanIn(N, k))
              = Cardinality(RanIn(T, k)) + (IF status = "stopped" THEN 0 ELSE 1)
         /\ Cardinality(WokeIn(N, k))
              = Cardinality(WokeIn(T, k)) + (IF status = "woke" THEN 1 ELSE 0)
         /\ Cardinality(StoppedIn(N, k))
              = Cardinality(StoppedIn(T, k))
                  + (IF status = "stopped" /\ u.reason = "clock" THEN 1 ELSE 0)
<1>1. /\ t.settle = k /\ t.thing = u.thing /\ t.unit = u.unit /\ t.reason = u.reason
      /\ t.status = status /\ t \in WakeTry
  BY DEF Wakes!TryOf, WakeTry, WakeUnit
<1>2. UnitOf(t) = u
  BY <1>1 DEF UnitOf, WakeUnit
<1>3. t \notin T /\ InBooks(N, k, u)
  BY <1>1 DEF InBooks
<1>4. MineIn(N, k) = MineIn(T, k) \cup {t} /\ \A j : j # k => MineIn(N, j) = MineIn(T, j)
  BY <1>1 DEF MineIn
<1>5. t \notin RanIn(T, k) /\ t \notin WokeIn(T, k) /\ t \notin StoppedIn(T, k)
  BY <1>3 DEF RanIn, WokeIn, StoppedIn, MineIn
<1>6. /\ RanIn(N, k) = IF status = "stopped" THEN RanIn(T, k) ELSE RanIn(T, k) \cup {t}
      /\ WokeIn(N, k) = IF status = "woke" THEN WokeIn(T, k) \cup {t} ELSE WokeIn(T, k)
      /\ StoppedIn(N, k) = IF status = "stopped" /\ u.reason = "clock"
                           THEN StoppedIn(T, k) \cup {t} ELSE StoppedIn(T, k)
  BY <1>1, <1>4 DEF RanIn, WokeIn, StoppedIn
<1>7. IsFiniteSet(N)
  BY FS_AddElement
<1>8. /\ Cardinality(RanIn(T, k) \cup {t}) = Cardinality(RanIn(T, k)) + 1
      /\ Cardinality(WokeIn(T, k) \cup {t}) = Cardinality(WokeIn(T, k)) + 1
      /\ Cardinality(StoppedIn(T, k) \cup {t}) = Cardinality(StoppedIn(T, k)) + 1
  BY <1>5, MineFinite, FS_AddElement
<1>9. /\ Cardinality(RanIn(T, k)) \in Nat /\ Cardinality(WokeIn(T, k)) \in Nat
      /\ Cardinality(StoppedIn(T, k)) \in Nat
  BY MineFinite
<1>10. Cardinality(RanIn(N, k)) = Cardinality(RanIn(T, k)) + (IF status = "stopped" THEN 0 ELSE 1)
  BY <1>6, <1>8, <1>9
<1>11. Cardinality(WokeIn(N, k)) = Cardinality(WokeIn(T, k)) + (IF status = "woke" THEN 1 ELSE 0)
  BY <1>6, <1>8, <1>9
<1>12. Cardinality(StoppedIn(N, k))
         = Cardinality(StoppedIn(T, k)) + (IF status = "stopped" /\ u.reason = "clock" THEN 1 ELSE 0)
  BY <1>6, <1>8, <1>9
<1> QED BY <1>1, <1>2, <1>3, <1>4, <1>7, <1>10, <1>11, <1>12

\* Whatever was on record stays there.
LEMMA BooksStay ==
  ASSUME NEW T, NEW N, T \subseteq N, NEW k, NEW u, InBooks(T, k, u)
  PROVE  InBooks(N, k, u)
  BY DEF InBooks

\* A unit that has still to be tried, has no record.
LEMMA TodoUnbooked ==
  ASSUME NEW T, NEW U \in SUBSET WakeUnit, Distinct(U), NEW b \in Running, Keeps(T, b, U),
         \A t \in MineIn(T, b.settle) : UnitOf(t) \in U, NEW u \in b.todo
  PROVE  u \in U /\ u \in WakeUnit /\ u # None /\ ~InBooks(T, b.settle, u)
<1>1. u \in U /\ u \in WakeUnit /\ u # None
  BY WakeClock DEF Keeps
<1>2. ~InBooks(T, b.settle, u)
  <2> SUFFICES ASSUME InBooks(T, b.settle, u) PROVE FALSE
    OBVIOUS
  <2>1. \E t \in MineIn(T, b.settle) : UnitOf(t) = u
    BY <1>1, BooksName
  <2> QED BY <2>1 DEF Keeps
<1> QED BY <1>1, <1>2

\* A try that commits or is stopped, is on record.
LEMMA KeepsTry ==
  ASSUME NEW T, IsFiniteSet(T), NEW U \in SUBSET WakeUnit, Distinct(U), NEW b \in Running,
         Keeps(T, b, U), \A t \in MineIn(T, b.settle) : UnitOf(t) \in U,
         NEW u \in b.todo, b.failing = None, NEW status \in TryStatus,
         NEW c, c.settle = b.settle, c.todo = b.todo \ {u}, c.failing = None,
         c.tried = b.tried + (IF status = "stopped" THEN 0 ELSE 1),
         c.woke = b.woke + (IF status = "woke" THEN 1 ELSE 0),
         c.stopped = b.stopped + (IF status = "stopped" /\ u.reason = "clock" THEN 1 ELSE 0)
  PROVE  Keeps(T \cup {Wakes!TryOf(b.settle, u, status)}, c, U)
<1> DEFINE k == b.settle
           t == Wakes!TryOf(k, u, status)
           N == T \cup {t}
<1>1. u \in U /\ u \in WakeUnit /\ u # None /\ ~InBooks(T, k, u) /\ k \in Nat
  BY TodoUnbooked DEF Running
<1>2. /\ UnitOf(t) = u /\ InBooks(N, k, u) /\ MineIn(N, k) = MineIn(T, k) \cup {t}
      /\ Cardinality(RanIn(N, k)) = Cardinality(RanIn(T, k)) + (IF status = "stopped" THEN 0 ELSE 1)
      /\ Cardinality(WokeIn(N, k)) = Cardinality(WokeIn(T, k)) + (IF status = "woke" THEN 1 ELSE 0)
      /\ Cardinality(StoppedIn(N, k))
           = Cardinality(StoppedIn(T, k)) + (IF status = "stopped" /\ u.reason = "clock" THEN 1 ELSE 0)
  <2> HIDE DEF k, t, N
  <2>1. t = Wakes!TryOf(k, u, status) /\ N = T \cup {t}
    BY DEF t, N
  <2> QED BY <1>1, <2>1, LedgerGrows
<1>3. Accounted(T, b, U)
  BY DEF Keeps
<1>4. \A v : InBooks(T, k, v) => InBooks(N, k, v)
  BY DEF InBooks
<1> HIDE DEF N, t
<1>5. \A v \in U \ c.todo : v # c.failing => InBooks(N, c.settle, v)
  BY <1>2, <1>3, <1>4 DEF Accounted
<1>6. Accounted(N, c, U)
  <2>1. /\ b.tried = Cardinality(RanIn(T, k)) + 0 /\ b.woke = Cardinality(WokeIn(T, k))
        /\ b.stopped = Cardinality(StoppedIn(T, k))
    BY <1>3 DEF Accounted
  <2>2. Cardinality(RanIn(T, k)) \in Nat
    BY MineFinite
  <2>3. c.tried = Cardinality(RanIn(N, k)) + 0
    <3>1. Cardinality(RanIn(T, k)) + 0 = Cardinality(RanIn(T, k))
      BY <2>2
    <3>2. Cardinality(RanIn(N, k)) \in Nat
      BY <1>2, <2>2
    <3> QED BY <1>2, <2>1, <3>1, <3>2
  <2>4. c.woke = Cardinality(WokeIn(N, k)) /\ c.stopped = Cardinality(StoppedIn(N, k))
    BY <1>2, <2>1
  <2> QED BY <1>5, <2>3, <2>4 DEF Accounted
<1>7. \A x \in MineIn(N, c.settle) : UnitOf(x) \notin c.todo
  BY <1>2 DEF Keeps
<1>8. c.todo \subseteq U
  BY DEF Keeps
<1> QED BY <1>6, <1>7, <1>8 DEF Keeps, N, t

\* A try that throws, is on record when it had committed, and has still to be recorded
\* when it had not.
LEMMA KeepsThrow ==
  ASSUME NEW T, IsFiniteSet(T), NEW U \in SUBSET WakeUnit, Distinct(U), NEW b \in Running,
         Keeps(T, b, U), \A t \in MineIn(T, b.settle) : UnitOf(t) \in U,
         NEW u \in b.todo, b.failing = None,
         NEW c, c.settle = b.settle, c.todo = b.todo \ {u}, c.failing = u,
         c.tried = b.tried + 1, c.woke = b.woke, c.stopped = b.stopped
  PROVE  /\ Keeps(T, c, U)
         /\ Keeps(T \cup {Wakes!TryOf(b.settle, u, "woke")}, c, U)
<1> DEFINE k == b.settle
           t == Wakes!TryOf(k, u, "woke")
           N == T \cup {t}
<1>1. u \in U /\ u \in WakeUnit /\ u # None /\ ~InBooks(T, k, u) /\ k \in Nat /\ "woke" \in TryStatus
  BY TodoUnbooked DEF Running, TryStatus
<1>2. UnitOf(t) = u /\ InBooks(N, k, u) /\ MineIn(N, k) = MineIn(T, k) \cup {t}
  <2> HIDE DEF k, t, N
  <2>1. t = Wakes!TryOf(k, u, "woke") /\ N = T \cup {t}
    BY DEF t, N
  <2> QED BY <1>1, <2>1, LedgerGrows
<1>3. Accounted(T, b, U)
  BY DEF Keeps
<1> HIDE DEF N, t
<1>4. c.todo \subseteq U /\ c.failing \in U \ c.todo
  BY <1>1 DEF Keeps
<1>5. /\ \A x \in MineIn(T, c.settle) : UnitOf(x) \notin c.todo
      /\ \A x \in MineIn(N, c.settle) : UnitOf(x) \notin c.todo
  BY <1>2 DEF Keeps
<1>6. Accounted(T, c, U)
  <2>1. \A v \in U \ c.todo : v # c.failing => InBooks(T, c.settle, v)
    <3> SUFFICES ASSUME NEW v \in U \ c.todo, v # u PROVE InBooks(T, k, v)
      OBVIOUS
    <3>1. v \in U \ b.todo /\ v # None
      BY WakeClock
    <3> QED BY <1>3, <3>1 DEF Accounted
  <2>2. b.tried = Cardinality(RanIn(T, k)) + 0 /\ Cardinality(RanIn(T, k)) \in Nat
    BY <1>3, MineFinite DEF Accounted
  <2>3. c.tried = Cardinality(RanIn(T, k)) + 1
    BY <2>2
  <2> QED BY <1>1, <1>3, <2>1, <2>3 DEF Accounted
<1>7. Keeps(T, c, U)
  BY <1>4, <1>5, <1>6 DEF Keeps
<1>8. Keeps(N, c, U)
  BY <1>1, <1>2, <1>4, <1>5 DEF Keeps
<1> QED BY <1>7, <1>8 DEF N, t

\* A failure is recorded.
LEMMA KeepsRecord ==
  ASSUME NEW T, IsFiniteSet(T), NEW U \in SUBSET WakeUnit, NEW b \in Running,
         Keeps(T, b, U), b.failing # None, ~InBooks(T, b.settle, b.failing),
         NEW c, c.settle = b.settle, c.todo = b.todo, c.failing = None,
         c.tried = b.tried, c.woke = b.woke, c.stopped = b.stopped
  PROVE  /\ b.failing \in U /\ b.failing \in WakeUnit
         /\ Keeps(T \cup {Wakes!TryOf(b.settle, b.failing, "failed")}, c, U)
<1> DEFINE k == b.settle
           u == b.failing
           t == Wakes!TryOf(k, u, "failed")
           N == T \cup {t}
<1>1. u \in U /\ u \in WakeUnit /\ u \notin b.todo /\ k \in Nat /\ ~InBooks(T, k, u) /\ "failed" \in TryStatus
  BY DEF Keeps, Running, TryStatus
<1>2. /\ UnitOf(t) = u /\ InBooks(N, k, u) /\ MineIn(N, k) = MineIn(T, k) \cup {t}
      /\ Cardinality(RanIn(N, k)) = Cardinality(RanIn(T, k)) + 1
      /\ Cardinality(WokeIn(N, k)) = Cardinality(WokeIn(T, k)) + 0
      /\ Cardinality(StoppedIn(N, k)) = Cardinality(StoppedIn(T, k)) + 0
  <2> HIDE DEF k, u, t, N
  <2>1. t = Wakes!TryOf(k, u, "failed") /\ N = T \cup {t}
    BY DEF t, N
  <2>2. /\ Cardinality(RanIn(N, k)) = Cardinality(RanIn(T, k)) + (IF "failed" = "stopped" THEN 0 ELSE 1)
        /\ Cardinality(WokeIn(N, k)) = Cardinality(WokeIn(T, k)) + (IF "failed" = "woke" THEN 1 ELSE 0)
        /\ Cardinality(StoppedIn(N, k))
             = Cardinality(StoppedIn(T, k)) + (IF "failed" = "stopped" /\ u.reason = "clock" THEN 1 ELSE 0)
    BY <1>1, <2>1, LedgerGrows
  <2>3. UnitOf(t) = u /\ InBooks(N, k, u) /\ MineIn(N, k) = MineIn(T, k) \cup {t}
    BY <1>1, <2>1, LedgerGrows
  <2> QED BY <2>2, <2>3
<1>3. Accounted(T, b, U)
  BY DEF Keeps
<1>4. \A v : InBooks(T, k, v) => InBooks(N, k, v)
  BY DEF InBooks
<1> HIDE DEF N, t
<1>5. \A v \in U \ c.todo : v # c.failing => InBooks(N, c.settle, v)
  BY <1>2, <1>3, <1>4 DEF Accounted
<1>6. Accounted(N, c, U)
  <2>1. /\ b.tried = Cardinality(RanIn(T, k)) + 1 /\ b.woke = Cardinality(WokeIn(T, k))
        /\ b.stopped = Cardinality(StoppedIn(T, k))
    BY <1>3 DEF Accounted
  <2>2. /\ Cardinality(RanIn(T, k)) \in Nat /\ Cardinality(WokeIn(T, k)) \in Nat
        /\ Cardinality(StoppedIn(T, k)) \in Nat
    BY MineFinite
  <2>3. /\ c.tried = Cardinality(RanIn(N, k)) + 0
        /\ c.woke = Cardinality(WokeIn(N, k)) /\ c.stopped = Cardinality(StoppedIn(N, k))
    BY <1>2, <2>1, <2>2
  <2> QED BY <1>5, <2>3 DEF Accounted
<1>7. \A x \in MineIn(N, c.settle) : UnitOf(x) \notin c.todo
  BY <1>1, <1>2 DEF Keeps
<1>8. c.todo \subseteq U
  BY DEF Keeps
<1> QED BY <1>1, <1>6, <1>7, <1>8 DEF Keeps, N, t

\* When nothing is left to try, the books make the report.
LEMMA BooksReport ==
  ASSUME NEW T, IsFiniteSet(T), NEW settle, ClaimCounts(settle), settle.forfeited \in Nat,
         NEW b \in Running, Keeps(T, b, settle.units), b.todo = {}, b.failing = None,
         \A t \in MineIn(T, b.settle) : UnitOf(t) \in settle.units,
         \A t, x \in MineIn(T, b.settle) : UnitOf(t) = UnitOf(x) => t = x,
         MineIn(T, b.settle) \subseteq WakeTry,
         NEW r, r.settle = b.settle, r.tried = b.tried, r.woke = b.woke,
         r.forfeited = settle.forfeited + b.stopped
  PROVE  Reported(T, settle, r)
<1> DEFINE k == b.settle
           U == settle.units
           M == MineIn(T, k)
           f == [t \in M |-> UnitOf(t)]
           clockU == {u \in U : u.reason = "clock"}
           clockM == {t \in M : t.reason = "clock"}
           clockR == {t \in RanIn(T, k) : t.reason = "clock"}
           g == [t \in clockM |-> UnitOf(t)]
<1>1. /\ U \in SUBSET WakeUnit /\ IsFiniteSet(U) /\ Distinct(U)
      /\ settle.forfeited + Cardinality(clockU) = Cardinality(Wakes!Owing(settle.ticks))
      /\ Accounted(T, b, U) /\ IsFiniteSet(M)
  BY MineFinite DEF ClaimCounts, Keeps
<1>2. \A u \in U : InBooks(T, k, u)
  BY <1>1, WakeClock DEF Accounted
<1>3. \A u \in U : \E t \in M : UnitOf(t) = u
  BY <1>1, <1>2, BooksName
<1>4. \A t \in M : UnitOf(t) \in U /\ UnitOf(t).reason = t.reason
  BY Zenon DEF UnitOf
<1> HIDE DEF M, U
<1>5. f \in Bijection(M, U)
  <2>1. f \in [M -> U]
    BY <1>4
  <2>2. \A t, x \in M : f[t] = f[x] => t = x
    BY DEF M
  <2>3. \A u \in U : \E t \in M : f[t] = u
    BY <1>3
  <2> QED BY <2>1, <2>2, <2>3 DEF Bijection, Injection, Surjection, IsInjective
<1>6. g \in Bijection(clockM, clockU)
  <2>1. g \in [clockM -> clockU]
    BY <1>4
  <2>2. \A t, x \in clockM : g[t] = g[x] => t = x
    BY DEF M
  <2>3. \A u \in clockU : \E t \in clockM : g[t] = u
    BY <1>3, <1>4
  <2> QED BY <2>1, <2>2, <2>3 DEF Bijection, Injection, Surjection, IsInjective
<1>7. Cardinality(M) = Cardinality(U)
  <2>1. ExistsBijection(M, U)
    BY <1>5 DEF ExistsBijection
  <2> HIDE DEF f
  <2> QED BY <1>1, <2>1, FS_Bijection
<1>8. IsFiniteSet(clockM) /\ IsFiniteSet(clockU) /\ IsFiniteSet(clockR)
  <2>1. clockM \subseteq M /\ clockU \subseteq U /\ clockR \subseteq M
    BY DEF RanIn, M
  <2> QED BY <1>1, <2>1, FS_Subset
<1>9. Cardinality(clockM) = Cardinality(clockU)
  <2>1. ExistsBijection(clockM, clockU)
    BY <1>6 DEF ExistsBijection
  <2> HIDE DEF g, clockM, clockU
  <2> QED BY <1>8, <2>1, FS_Bijection
<1>10. clockM = clockR \cup StoppedIn(T, k) /\ clockR \cap StoppedIn(T, k) = {}
  BY DEF M, RanIn, StoppedIn
<1>11. /\ Cardinality(clockM) = Cardinality(clockR) + Cardinality(StoppedIn(T, k))
       /\ Cardinality(clockR) \in Nat /\ Cardinality(StoppedIn(T, k)) \in Nat
  <2>1. IsFiniteSet(StoppedIn(T, k)) /\ Cardinality(StoppedIn(T, k)) \in Nat
    BY MineFinite
  <2>2. Cardinality(clockR) \in Nat
    BY <1>8, FS_CardinalityType
  <2>3. Cardinality(clockR \cap StoppedIn(T, k)) = 0
    BY <1>10, FS_EmptySet
  <2> HIDE DEF clockR, clockM
  <2>4. Cardinality(clockM)
          = Cardinality(clockR) + Cardinality(StoppedIn(T, k)) - Cardinality(clockR \cap StoppedIn(T, k))
    BY <1>8, <1>10, <2>1, FS_Union
  <2> QED BY <2>1, <2>2, <2>3, <2>4
<1>12. /\ b.tried = Cardinality(RanIn(T, k)) + 0 /\ b.woke = Cardinality(WokeIn(T, k))
       /\ b.stopped = Cardinality(StoppedIn(T, k)) /\ Cardinality(RanIn(T, k)) \in Nat
  BY <1>1, MineFinite DEF Accounted
<1>13. r.forfeited + Cardinality(clockR) = Cardinality(Wakes!Owing(settle.ticks))
  <2> HIDE DEF clockR, clockM, clockU
  <2> QED BY <1>1, <1>9, <1>11, <1>12
<1> QED BY <1>2, <1>7, <1>12, <1>13 DEF Reported, M, U

LEMMA RecordedBooks ==
  ASSUME NEW k, NEW u
  PROVE  Wakes!Recorded(k, u) <=> InBooks(tries, k, u)
  BY DEF Wakes!Recorded, InBooks

LEMMA BookStarts ==
  ASSUME Wakes!Init
  PROVE  BookInv
<1>1. ClaimInv
  BY ClaimStarts
<1>2. /\ tries = {} /\ reports = {} /\ settles = <<>> /\ Settled = {}
      /\ \A s \in Twins : settler[s].pc = "idle"
  BY DEF Wakes!Init, Wakes!Idle, Settled
<1>3. IsFiniteSet(tries)
  BY <1>2, FS_EmptySet
<1> QED BY <1>1, <1>2, <1>3 DEF BookInv

\* A step that runs no try.
LEMMA BookRests ==
  ASSUME BookInv, ClaimInv', UNCHANGED <<tries, settles, reports>>,
         \A s \in Twins : settler'[s].pc = "running" => settler'[s] = settler[s]
  PROVE  BookInv'
<1>1. Settled' = Settled
  BY DEF Settled
<1>2. ASSUME NEW s \in Twins, settler'[s].pc = "running"
      PROVE  settler'[s] = settler[s] /\ settler[s].pc = "running"
  BY <1>2
<1>3. \A s \in Twins : settler'[s].pc = "running" =>
        settler'[s].settle \in Settled /\ Keeps(tries, settler'[s], settles[settler'[s].settle].units)
  BY <1>2 DEF BookInv
<1>4. \A s, u \in Twins :
        settler'[s].pc = "running" /\ settler'[u].pc = "running" /\ settler'[s].settle = settler'[u].settle
          => s = u
  BY <1>2 DEF BookInv
<1>5. \A r \in reports :
        /\ r.settle \in Settled /\ Reported(tries, settles[r.settle], r)
        /\ \A s \in Twins : settler'[s].pc = "running" => settler'[s].settle # r.settle
  BY <1>2 DEF BookInv
<1>6. /\ tries \in SUBSET WakeTry /\ IsFiniteSet(tries)
      /\ \A k \in Settled : ClaimCounts(settles[k])
      /\ \A t \in tries : t.settle \in Settled /\ UnitOf(t) \in settles[t.settle].units
      /\ \A t, x \in tries : t.settle = x.settle /\ UnitOf(t) = UnitOf(x) => t = x
  BY DEF BookInv
<1> QED BY <1>1, <1>3, <1>4, <1>5, <1>6 DEF BookInv

\* A settler passes to another stage that runs nothing.
LEMMA BookPasses ==
  ASSUME BookInv, ClaimInv', NEW s \in Twins, UNCHANGED <<tries, settles, reports>>,
         NEW c, settler' = [settler EXCEPT ![s] = c], c.pc # "running"
  PROVE  BookInv'
<1>1. settler \in [Twins -> SettlerState]
  BY DEF BookInv, ClaimInv, WakeTyped
<1>2. settler'[s] = c /\ \A u \in Twins \ {s} : settler'[u] = settler[u]
  BY <1>1
<1> QED BY <1>2, BookRests

\* What stays of a report when a settle it does not report writes.
LEMMA ReportStays ==
  ASSUME NEW T, NEW N, NEW settle, NEW r, Reported(T, settle, r),
         MineIn(N, r.settle) = MineIn(T, r.settle)
  PROVE  Reported(N, settle, r)
<1>1. RanIn(N, r.settle) = RanIn(T, r.settle) /\ WokeIn(N, r.settle) = WokeIn(T, r.settle)
  BY DEF RanIn, WokeIn
<1>2. \A u : InBooks(T, r.settle, u) => InBooks(N, r.settle, u)
  BY DEF InBooks, MineIn
<1> QED BY <1>1, <1>2 DEF Reported

LEMMA KeptStays ==
  ASSUME NEW T, NEW N, NEW U, NEW c, Keeps(T, c, U), MineIn(N, c.settle) = MineIn(T, c.settle)
  PROVE  Keeps(N, c, U)
<1>1. /\ RanIn(N, c.settle) = RanIn(T, c.settle) /\ WokeIn(N, c.settle) = WokeIn(T, c.settle)
      /\ StoppedIn(N, c.settle) = StoppedIn(T, c.settle)
  BY DEF RanIn, WokeIn, StoppedIn
<1>2. \A u : InBooks(T, c.settle, u) <=> InBooks(N, c.settle, u)
  BY DEF InBooks, MineIn
<1>3. Accounted(T, c, U) => Accounted(N, c, U)
  BY <1>1, <1>2 DEF Accounted
<1> QED BY <1>2, <1>3 DEF Keeps

\* What a settler that runs knows of its settle.
LEMMA BookOf ==
  ASSUME BookInv, NEW s \in Twins, settler[s].pc = "running"
  PROVE  LET b == settler[s]
             U == settles[b.settle].units
         IN  /\ b \in Running /\ b.settle \in Settled /\ Keeps(tries, b, U)
             /\ U \in SUBSET WakeUnit /\ Distinct(U) /\ IsFiniteSet(tries)
             /\ \A t \in MineIn(tries, b.settle) : UnitOf(t) \in U
<1>1. settler[s] \in Running /\ IsFiniteSet(tries)
  BY SettlerStages DEF BookInv, ClaimInv, WakeTyped
<1>2. settler[s].settle \in Settled /\ Keeps(tries, settler[s], settles[settler[s].settle].units)
  BY DEF BookInv
<1>3. ClaimCounts(settles[settler[s].settle])
  BY <1>2 DEF BookInv
<1>4. \A t \in MineIn(tries, settler[s].settle) : UnitOf(t) \in settles[settler[s].settle].units
  BY DEF BookInv, MineIn
<1> QED BY <1>1, <1>2, <1>3, <1>4 DEF ClaimCounts

\* A new record leaves those of the other settles alone.
LEMMA LedgerRest ==
  ASSUME NEW T \in SUBSET WakeTry, IsFiniteSet(T), NEW k \in Nat, NEW u \in WakeUnit,
         NEW status \in TryStatus, ~InBooks(T, k, u),
         NEW t, t = Wakes!TryOf(k, u, status), NEW N, N = T \cup {t}
  PROVE  /\ UnitOf(t) = u /\ t.settle = k /\ N \in SUBSET WakeTry /\ IsFiniteSet(N)
         /\ \A j : j # k => MineIn(N, j) = MineIn(T, j)
<1>1. /\ t.settle = k /\ t.thing = u.thing /\ t.unit = u.unit /\ t.reason = u.reason
      /\ t \in WakeTry
  BY DEF Wakes!TryOf, WakeTry, WakeUnit
<1>2. \A j : j # k => MineIn(N, j) = MineIn(T, j)
  BY <1>1 DEF MineIn
<1>3. IsFiniteSet(N)
  BY FS_AddElement
<1>4. UnitOf(t) = u
  BY <1>1 DEF UnitOf, WakeUnit
<1> QED BY <1>1, <1>2, <1>3, <1>4

\* A settler writes a record of its own settle, or none.
LEMMA BookWrites ==
  ASSUME BookInv, ClaimInv', NEW s \in Twins, settler[s].pc = "running",
         UNCHANGED <<settles, reports>>,
         NEW c, settler' = [settler EXCEPT ![s] = c], c.pc = "running", c.settle = settler[s].settle,
         Keeps(tries', c, settles[c.settle].units),
         \/ tries' = tries
         \/ \E u \in settles[c.settle].units, status \in TryStatus :
              ~InBooks(tries, c.settle, u) /\ tries' = tries \cup {Wakes!TryOf(c.settle, u, status)}
  PROVE  BookInv'
<1> DEFINE k == c.settle
<1>1. /\ Settled' = Settled /\ k \in Settled /\ k \in Nat /\ settler \in [Twins -> SettlerState]
      /\ settles[k].units \in SUBSET WakeUnit /\ IsFiniteSet(tries) /\ tries \in SUBSET WakeTry
  BY BookOf DEF BookInv, ClaimInv, WakeTyped, Settled
<1>2. settler'[s] = c /\ \A u \in Twins \ {s} : settler'[u] = settler[u]
  BY <1>1
<1>3. /\ tries' \in SUBSET WakeTry /\ IsFiniteSet(tries') /\ \A j : j # k => MineIn(tries', j) = MineIn(tries, j)
      /\ \A t \in tries' \ tries :
           /\ t.settle = k /\ UnitOf(t) \in settles[k].units /\ ~InBooks(tries, k, UnitOf(t))
           /\ tries' = tries \cup {t}
  <2>1. CASE tries' = tries
    BY <1>1, <2>1
  <2>2. ASSUME NEW u \in settles[k].units, NEW status \in TryStatus, ~InBooks(tries, k, u),
               tries' = tries \cup {Wakes!TryOf(k, u, status)}
        PROVE  <1>3!:
    <3>1. PICK t : t = Wakes!TryOf(k, u, status)
      OBVIOUS
    <3>2. u \in WakeUnit /\ tries' = tries \cup {t}
      BY <1>1, <2>2, <3>1
    <3>3. PICK T, N : T \in SUBSET WakeTry /\ T = tries /\ N = tries'
      BY <1>1
    <3>4. k \in Nat /\ IsFiniteSet(T) /\ ~InBooks(T, k, u) /\ N = T \cup {t}
      BY <1>1, <2>2, <3>2, <3>3
    <3> HIDE DEF k
    <3>5. /\ UnitOf(t) = u /\ t.settle = k /\ N \in SUBSET WakeTry /\ IsFiniteSet(N)
          /\ \A j : j # k => MineIn(N, j) = MineIn(T, j)
      BY <3>1, <3>2, <3>3, <3>4, LedgerRest
    <3> QED BY <2>2, <3>2, <3>3, <3>4, <3>5
  <2> QED BY <2>1, <2>2
<1>4. \A t \in tries' : t.settle \in Settled /\ UnitOf(t) \in settles[t.settle].units
  BY <1>1, <1>3 DEF BookInv
<1>5. ASSUME NEW t \in tries', NEW x \in tries', t.settle = x.settle, UnitOf(t) = UnitOf(x)
      PROVE  t = x
  <2>1. CASE t \in tries /\ x \in tries
    BY <1>5, <2>1 DEF BookInv
  <2>2. ASSUME NEW y \in tries, NEW z \in tries' \ tries, y.settle = z.settle, UnitOf(y) = UnitOf(z)
        PROVE  FALSE
    <3>1. z.settle = k /\ ~InBooks(tries, k, UnitOf(z))
      BY <1>3
    <3>2. y.thing = UnitOf(z).thing /\ y.unit = UnitOf(z).unit
      BY <2>2 DEF UnitOf
    <3> QED BY <2>2, <3>1, <3>2 DEF InBooks
  <2>3. CASE t \notin tries /\ x \notin tries
    BY <1>3, <2>3
  <2> QED BY <1>5, <2>1, <2>2, <2>3
<1>6. ASSUME NEW u \in Twins, settler'[u].pc = "running"
      PROVE  settler'[u].settle \in Settled /\ Keeps(tries', settler'[u], settles[settler'[u].settle].units)
  <2>1. CASE u = s
    BY <1>1, <1>2, <2>1
  <2>2. CASE u # s
    <3>1. settler'[u] = settler[u] /\ settler[u].pc = "running" /\ settler[u].settle # k
      BY <1>2, <1>6, <2>2 DEF BookInv
    <3>2. settler[u].settle \in Settled /\ Keeps(tries, settler[u], settles[settler[u].settle].units)
      BY <3>1 DEF BookInv
    <3> QED BY <1>3, <3>1, <3>2, KeptStays
  <2> QED BY <2>1, <2>2
<1>7. \A u, v \in Twins :
        settler'[u].pc = "running" /\ settler'[v].pc = "running" /\ settler'[u].settle = settler'[v].settle
          => u = v
  BY <1>2 DEF BookInv
<1>8. ASSUME NEW r \in reports
      PROVE  /\ r.settle \in Settled /\ Reported(tries', settles[r.settle], r)
             /\ \A u \in Twins : settler'[u].pc = "running" => settler'[u].settle # r.settle
  <2>1. /\ r.settle \in Settled /\ Reported(tries, settles[r.settle], r) /\ r.settle # k
        /\ \A u \in Twins : settler[u].pc = "running" => settler[u].settle # r.settle
    BY DEF BookInv
  <2>2. Reported(tries', settles[r.settle], r)
    BY <1>3, <2>1, ReportStays
  <2> QED BY <1>2, <2>1, <2>2
<1>9. \A j \in Settled : ClaimCounts(settles[j])
  BY DEF BookInv
<1> QED BY <1>1, <1>3, <1>4, <1>5, <1>6, <1>7, <1>8, <1>9 DEF BookInv

\* A claim accounts for what it claims.
LEMMA ClaimAccounts ==
  ASSUME NEW c \in Claiming, NEW run \in SUBSET Wakes!planUnits(c)
  PROVE  ClaimCounts(Claimed(c, run))
<1> DEFINE row(u) == [thing |-> u.thing, unit |-> u.unit, reason |-> Wakes!Reason(u, c)]
           U == UnitsRun(c, run)
           S == {u \in run : Wakes!Reason(u, c) = "clock"}
           C == {u \in U : u.reason = "clock"}
           f == [u \in run |-> row(u)]
           g == [u \in S |-> row(u)]
<1>1. U = {row(u) : u \in run} /\ U \in SUBSET WakeUnit
  BY ClaimTyped DEF UnitsRun
<1>2. \A u \in run : u = [thing |-> u.thing, unit |-> u.unit]
  BY UnitsPlanned
<1>3. \A u \in run : row(u).thing = u.thing /\ row(u).unit = u.unit /\ row(u).reason = Wakes!Reason(u, c)
  OBVIOUS
<1>4. \A u, v \in run : u.thing = v.thing /\ u.unit = v.unit => u = v
  <2> SUFFICES ASSUME NEW u \in run, NEW v \in run, u.thing = v.thing, u.unit = v.unit PROVE u = v
    OBVIOUS
  <2>1. u = [thing |-> u.thing, unit |-> u.unit] /\ v = [thing |-> v.thing, unit |-> v.unit]
    BY <1>2
  <2> QED BY <2>1
<1> HIDE DEF row, U
<1>5. f \in Bijection(run, U) /\ g \in Bijection(S, C)
  <2>1. f \in [run -> U] /\ g \in [S -> C]
    BY <1>1, <1>3
  <2>2. (\A u, v \in run : f[u] = f[v] => u = v) /\ (\A u, v \in S : g[u] = g[v] => u = v)
    BY <1>3, <1>4
  <2>3. (\A x \in U : \E u \in run : f[u] = x) /\ (\A x \in C : \E u \in S : g[u] = x)
    BY <1>1, <1>3
  <2> QED BY <2>1, <2>2, <2>3 DEF Bijection, Injection, Surjection, IsInjective
<1>6. ExistsBijection(run, U) /\ ExistsBijection(S, C)
  BY <1>5 DEF ExistsBijection
<1>7. /\ IsFiniteSet(run) /\ IsFiniteSet(S)
      /\ Wakes!Forfeited(c, run) + Cardinality(S) = Cardinality(Wakes!Owing(OwedTicks(c)))
  BY ForfeitedCounts
<1>8. IsFiniteSet(U) /\ Cardinality(C) = Cardinality(S)
  <2> HIDE DEF f, g, S, C
  <2> QED BY <1>6, <1>7, FS_Bijection
<1>9. Distinct(U)
  <2> SUFFICES ASSUME NEW x \in U, NEW y \in U, x.thing = y.thing, x.unit = y.unit PROVE x = y
    BY DEF Distinct
  <2>1. PICK u \in run, v \in run : x = row(u) /\ y = row(v)
    BY <1>1
  <2>2. u = v
    BY <1>3, <1>4, <2>1
  <2> QED BY <2>1, <2>2
<1>10. /\ Claimed(c, run).units = U /\ Claimed(c, run).ticks = OwedTicks(c)
       /\ Claimed(c, run).forfeited = Wakes!Forfeited(c, run)
  BY DEF Claimed, U
<1>11. Wakes!Forfeited(c, run) + Cardinality(C) = Cardinality(Wakes!Owing(OwedTicks(c)))
  BY <1>7, <1>8
<1> HIDE DEF f, g, S
<1> QED BY <1>1, <1>8, <1>9, <1>10, <1>11 DEF ClaimCounts

\* A settle that was just claimed has no records yet.
LEMMA BookOpens ==
  ASSUME NEW T, NEW n, MineIn(T, n) = {}, NEW U, None \notin U
  PROVE  Keeps(T, Starts(n, U), U)
<1> DEFINE c == Starts(n, U)
<1>1. /\ c.settle = n /\ c.todo = U /\ c.failing = None
      /\ c.tried = 0 /\ c.woke = 0 /\ c.stopped = 0
  BY DEF Starts
<1>2. RanIn(T, n) = {} /\ WokeIn(T, n) = {} /\ StoppedIn(T, n) = {}
  BY DEF RanIn, WokeIn, StoppedIn
<1>3. Cardinality({}) = 0
  BY FS_EmptySet
<1> HIDE DEF c
<1>4. Accounted(T, c, U)
  BY <1>1, <1>2, <1>3 DEF Accounted
<1> QED BY <1>1, <1>4 DEF Keeps, c

LEMMA BookClaims ==
  ASSUME BookInv, ClaimInv', NEW s \in Twins, Wakes!claimSettle(s)
  PROVE  BookInv'
<1> DEFINE c == settler[s]
<1>1. /\ WakeTyped /\ Len(settles) \in Nat /\ settles \in Seq(Settle)
      /\ settler \in [Twins -> SettlerState]
  BY SettledDomain DEF BookInv, ClaimInv, WakeTyped
<1>2. c \in Claiming /\ UNCHANGED <<tries, reports>>
  BY <1>1, ClaimWrites
<1>3. CASE settles' = settles /\ settler' = [settler EXCEPT ![s] = Wakes!Idle]
  <2>1. Wakes!Idle.pc # "running"
    BY DEF Wakes!Idle
  <2> QED BY <1>2, <1>3, <2>1, BookPasses
<1>4. ASSUME NEW run \in SUBSET Wakes!planUnits(c), settles' = Append(settles, Claimed(c, run)),
             settler' = [settler EXCEPT ![s] = Starts(Len(settles) + 1, UnitsRun(c, run))]
      PROVE  BookInv'
  <2>0. PICK n, x, d :
          /\ n = Len(settles) + 1 /\ n \in Nat /\ x = Claimed(c, run)
          /\ d = Starts(n, UnitsRun(c, run)) /\ settler' = [settler EXCEPT ![s] = d]
    <3>1. PICK n : n = Len(settles) + 1
      OBVIOUS
    <3>2. PICK x, d : x = Claimed(c, run) /\ d = Starts(n, UnitsRun(c, run))
      OBVIOUS
    <3>3. n \in Nat /\ settler' = [settler EXCEPT ![s] = d]
      BY <1>1, <1>4, <3>1, <3>2
    <3> HIDE DEF c
    <3> QED BY <3>1, <3>2, <3>3
  <2>1. /\ Settled' = Settled \cup {n} /\ n \notin Settled /\ settles'[n] = x
        /\ \A i \in Settled : settles'[i] = settles[i]
    BY <1>1, <1>4, <2>0 DEF Settled
  <2>2. x.units = UnitsRun(c, run) /\ ClaimCounts(x) /\ None \notin x.units
    <3>1. x.units = UnitsRun(c, run)
      BY <2>0 DEF Claimed
    <3>2. ClaimCounts(x) /\ UnitsRun(c, run) \in SUBSET WakeUnit
      BY <1>2, <2>0, ClaimAccounts, ClaimTyped
    <3> QED BY <3>1, <3>2, WakeClock
  <2>3. d.pc = "running" /\ d.settle = n
    BY <2>0 DEF Starts
  <2>4. settler'[s] = d /\ \A u \in Twins \ {s} : settler'[u] = settler[u]
    BY <1>1, <2>0
  <2>5. /\ \A t \in tries : t.settle \in Settled /\ UnitOf(t) \in settles[t.settle].units
        /\ tries \in SUBSET WakeTry /\ IsFiniteSet(tries)
        /\ \A t, y \in tries : t.settle = y.settle /\ UnitOf(t) = UnitOf(y) => t = y
    BY DEF BookInv
  <2>6. MineIn(tries, n) = {}
    BY <2>1, <2>5 DEF MineIn
  <2>7. Keeps(tries, d, x.units)
    BY <2>0, <2>2, <2>6, BookOpens
  <2>8. ASSUME NEW u \in Twins, settler'[u].pc = "running"
        PROVE  /\ settler'[u].settle \in Settled \cup {n}
               /\ Keeps(tries, settler'[u], settles'[settler'[u].settle].units)
    <3>1. CASE u = s
      BY <2>1, <2>3, <2>4, <2>7, <3>1
    <3>2. CASE u # s
      <4>1. settler'[u] = settler[u]
        BY <2>4, <3>2
      <4>2. /\ settler[u].settle \in Settled
            /\ Keeps(tries, settler[u], settles[settler[u].settle].units)
        BY <2>8, <4>1 DEF BookInv
      <4> QED BY <2>1, <4>1, <4>2
    <3> QED BY <3>1, <3>2
  <2>9. ASSUME NEW u \in Twins, NEW v \in Twins, settler'[u].pc = "running", settler'[v].pc = "running",
               settler'[u].settle = settler'[v].settle
        PROVE  u = v
    <3>1. \A y \in Twins : settler[y].pc = "running" => settler[y].settle # n
      BY <2>1 DEF BookInv
    <3> QED BY <2>3, <2>4, <2>9, <3>1 DEF BookInv
  <2>10. ASSUME NEW r \in reports
         PROVE  /\ r.settle \in Settled \cup {n} /\ Reported(tries, settles'[r.settle], r)
                /\ \A u \in Twins : settler'[u].pc = "running" => settler'[u].settle # r.settle
    <3>1. /\ r.settle \in Settled /\ Reported(tries, settles[r.settle], r)
          /\ \A u \in Twins : settler[u].pc = "running" => settler[u].settle # r.settle
      BY DEF BookInv
    <3> QED BY <2>1, <2>3, <2>4, <3>1
  <2>11. \A k \in Settled \cup {n} : ClaimCounts(settles'[k])
    BY <2>1, <2>2 DEF BookInv
  <2>12. \A t \in tries : t.settle \in Settled \cup {n} /\ UnitOf(t) \in settles'[t.settle].units
    BY <2>1, <2>5
  <2> QED BY <1>2, <2>1, <2>5, <2>8, <2>9, <2>10, <2>11, <2>12 DEF BookInv
<1> QED BY <1>1, <1>3, <1>4, ClaimWrites

\* The settle ends with its report.
LEMMA BookEnds ==
  ASSUME BookInv, ClaimInv', NEW s \in Twins, Wakes!settleWake(s)
  PROVE  BookInv'
<1> DEFINE b == settler[s]
           r == [settle |-> b.settle, tried |-> b.tried, woke |-> b.woke,
                 forfeited |-> settles[b.settle].forfeited + b.stopped]
<1>1. /\ b.pc = "running" /\ b.failing = None /\ b.todo = {}
      /\ reports' = reports \cup {r} /\ settler' = [settler EXCEPT ![s] = Wakes!Idle]
      /\ UNCHANGED <<tries, settles>>
  BY DEF Wakes!settleWake
<1>2. /\ b \in Running /\ b.settle \in Settled /\ Keeps(tries, b, settles[b.settle].units)
      /\ IsFiniteSet(tries) /\ \A t \in MineIn(tries, b.settle) : UnitOf(t) \in settles[b.settle].units
      /\ ClaimCounts(settles[b.settle]) /\ settles[b.settle].forfeited \in Nat
      /\ MineIn(tries, b.settle) \subseteq WakeTry
      /\ \A t, x \in MineIn(tries, b.settle) : UnitOf(t) = UnitOf(x) => t = x
      /\ settler \in [Twins -> SettlerState]
  <2>1. /\ b \in Running /\ b.settle \in Settled /\ Keeps(tries, b, settles[b.settle].units)
        /\ IsFiniteSet(tries) /\ \A t \in MineIn(tries, b.settle) : UnitOf(t) \in settles[b.settle].units
    BY <1>1, BookOf
  <2>2. settles[b.settle] \in Settle /\ settler \in [Twins -> SettlerState]
    BY <2>1, SettledDomain DEF BookInv, ClaimInv, WakeTyped
  <2>3. MineIn(tries, b.settle) \subseteq WakeTry
    BY DEF BookInv, MineIn
  <2>4. \A t, x \in MineIn(tries, b.settle) : UnitOf(t) = UnitOf(x) => t = x
    BY DEF BookInv, MineIn
  <2>5. ClaimCounts(settles[b.settle]) /\ settles[b.settle].forfeited \in Nat
    BY <2>1, <2>2 DEF BookInv, Settle
  <2> QED BY <2>1, <2>2, <2>3, <2>4, <2>5
<1>3. Reported(tries, settles[b.settle], r) /\ r.settle = b.settle
  <2>1. /\ r.settle = b.settle /\ r.tried = b.tried /\ r.woke = b.woke
        /\ r.forfeited = settles[b.settle].forfeited + b.stopped
    OBVIOUS
  <2> HIDE DEF r, b
  <2> QED BY <1>1, <1>2, <2>1, BooksReport
<1>4. settler'[s].pc = "idle" /\ \A u \in Twins \ {s} : settler'[u] = settler[u]
  BY <1>1, <1>2 DEF Wakes!Idle
<1>5. Settled' = Settled
  BY <1>1 DEF Settled
<1> HIDE DEF r
<1>6. ASSUME NEW x \in reports'
      PROVE  /\ x.settle \in Settled /\ Reported(tries, settles[x.settle], x)
             /\ \A u \in Twins : settler'[u].pc = "running" => settler'[u].settle # x.settle
  <2>1. CASE x \in reports
    BY <1>4, <2>1 DEF BookInv
  <2>2. CASE x = r
    <3>1. \A u \in Twins \ {s} : settler[u].pc = "running" => settler[u].settle # b.settle
      BY <1>1 DEF BookInv
    <3> QED BY <1>2, <1>3, <1>4, <2>2, <3>1
  <2> QED BY <1>1, <2>1, <2>2
<1>7. \A u \in Twins : settler'[u].pc = "running" =>
        settler'[u].settle \in Settled /\ Keeps(tries, settler'[u], settles[settler'[u].settle].units)
  BY <1>4 DEF BookInv
<1>8. \A u, v \in Twins :
        settler'[u].pc = "running" /\ settler'[v].pc = "running" /\ settler'[u].settle = settler'[v].settle
          => u = v
  BY <1>4 DEF BookInv
<1>9. /\ tries \in SUBSET WakeTry /\ IsFiniteSet(tries)
      /\ \A k \in Settled : ClaimCounts(settles[k])
      /\ \A t \in tries : t.settle \in Settled /\ UnitOf(t) \in settles[t.settle].units
      /\ \A t, x \in tries : t.settle = x.settle /\ UnitOf(t) = UnitOf(x) => t = x
  BY DEF BookInv
<1> QED BY <1>1, <1>5, <1>6, <1>7, <1>8, <1>9 DEF BookInv

\* The tries of a settle, one action at a time.
LEMMA BookRuns ==
  ASSUME BookInv, ClaimInv', NEW s \in Twins, NEW u \in settler[s].todo, NEW effects \in 0 .. 1,
         Wakes!runTry(s, u, effects)
  PROVE  BookInv'
<1>1. settler[s].pc = "running" /\ settler[s].failing = None /\ settler \in [Twins -> SettlerState]
  BY DEF Wakes!runTry, Wakes!Turn, BookInv, ClaimInv, WakeTyped
<1> DEFINE b == settler[s]
           U == settles[b.settle].units
<1>2. PICK status : status = IF effects > 0 THEN "woke" ELSE "quiet"
  OBVIOUS
<1>3. tries' = tries \cup {Wakes!TryOf(b.settle, u, status)}
  BY <1>2 DEF Wakes!runTry
<1>4. PICK c : c = Books(b, b.todo \ {u}, b.failing, b.applied + effects, b.tried + 1,
                         b.woke + (IF effects > 0 THEN 1 ELSE 0), b.stopped)
  OBVIOUS
<1>5. b \in Running /\ settler' = [settler EXCEPT ![s] = c] /\ UNCHANGED <<settles, reports>>
  BY <1>1, <1>4, RunsOn
<1>6. /\ Keeps(tries, b, U) /\ U \in SUBSET WakeUnit /\ Distinct(U) /\ IsFiniteSet(tries)
      /\ \A t \in MineIn(tries, b.settle) : UnitOf(t) \in U
  BY <1>1, BookOf
<1>7. u \in U /\ ~InBooks(tries, b.settle, u)
  <2> HIDE DEF b, U
  <2> QED BY <1>5, <1>6, TodoUnbooked DEF b
<1>8. /\ c.pc = "running" /\ c.settle = b.settle /\ c.todo = b.todo \ {u} /\ c.failing = None
      /\ c.tried = b.tried + (IF status = "stopped" THEN 0 ELSE 1)
      /\ c.woke = b.woke + (IF status = "woke" THEN 1 ELSE 0)
      /\ c.stopped = b.stopped + (IF status = "stopped" /\ u.reason = "clock" THEN 1 ELSE 0)
      /\ status \in TryStatus
  <2>1. /\ c.pc = "running" /\ c.settle = b.settle /\ c.todo = b.todo \ {u} /\ c.failing = b.failing
        /\ c.tried = b.tried + 1 /\ c.woke = b.woke + (IF effects > 0 THEN 1 ELSE 0)
        /\ c.stopped = b.stopped
    BY <1>4 DEF Books
  <2>2. b.stopped + 0 = b.stopped
    BY <1>5 DEF Running
  <2>3. status \in TryStatus /\ status # "stopped" /\ (status = "woke" <=> effects > 0)
    BY <1>2 DEF TryStatus
  <2> HIDE DEF b
  <2> QED BY <1>1, <2>1, <2>2, <2>3 DEF b
<1>9. Keeps(tries', c, U)
  <2> HIDE DEF b, U
  <2> QED BY <1>1, <1>3, <1>5, <1>6, <1>8, KeepsTry DEF b
<1>10. \E v \in settles[c.settle].units, x \in TryStatus :
         ~InBooks(tries, c.settle, v) /\ tries' = tries \cup {Wakes!TryOf(c.settle, v, x)}
  BY <1>3, <1>7, <1>8
<1> QED BY <1>1, <1>5, <1>8, <1>9, <1>10, BookWrites

LEMMA BookStops ==
  ASSUME BookInv, ClaimInv', NEW s \in Twins, NEW u \in settler[s].todo, Wakes!StopTry(s, u)
  PROVE  BookInv'
<1>1. settler[s].pc = "running" /\ settler[s].failing = None /\ settler \in [Twins -> SettlerState]
  BY DEF Wakes!StopTry, Wakes!Turn, BookInv, ClaimInv, WakeTyped
<1> DEFINE b == settler[s]
           U == settles[b.settle].units
<1>2. tries' = tries \cup {Wakes!TryOf(b.settle, u, "stopped")} /\ "stopped" \in TryStatus
  BY DEF Wakes!StopTry, TryStatus
<1>3. PICK c : c = Books(b, b.todo \ {u}, b.failing, b.applied, b.tried, b.woke,
                         b.stopped + (IF u.reason = "clock" THEN 1 ELSE 0))
  OBVIOUS
<1>4. b \in Running /\ settler' = [settler EXCEPT ![s] = c] /\ UNCHANGED <<settles, reports>>
  BY <1>1, <1>3, StopsOn
<1>5. /\ Keeps(tries, b, U) /\ U \in SUBSET WakeUnit /\ Distinct(U) /\ IsFiniteSet(tries)
      /\ \A t \in MineIn(tries, b.settle) : UnitOf(t) \in U
  BY <1>1, BookOf
<1>6. u \in U /\ ~InBooks(tries, b.settle, u)
  <2> HIDE DEF b, U
  <2> QED BY <1>4, <1>5, TodoUnbooked DEF b
<1>7. /\ c.pc = "running" /\ c.settle = b.settle /\ c.todo = b.todo \ {u} /\ c.failing = None
      /\ c.tried = b.tried + (IF "stopped" = "stopped" THEN 0 ELSE 1)
      /\ c.woke = b.woke + (IF "stopped" = "woke" THEN 1 ELSE 0)
      /\ c.stopped = b.stopped + (IF "stopped" = "stopped" /\ u.reason = "clock" THEN 1 ELSE 0)
  <2>1. /\ c.pc = "running" /\ c.settle = b.settle /\ c.todo = b.todo \ {u} /\ c.failing = b.failing
        /\ c.tried = b.tried /\ c.woke = b.woke
        /\ c.stopped = b.stopped + (IF u.reason = "clock" THEN 1 ELSE 0)
    BY <1>3 DEF Books
  <2>2. b.tried + 0 = b.tried /\ b.woke + 0 = b.woke
    BY <1>4 DEF Running
  <2> HIDE DEF b
  <2> QED BY <1>1, <2>1, <2>2 DEF b
<1>8. Keeps(tries', c, U)
  <2> HIDE DEF b, U
  <2> QED BY <1>1, <1>2, <1>4, <1>5, <1>7, KeepsTry DEF b
<1>9. \E v \in settles[c.settle].units, x \in TryStatus :
        ~InBooks(tries, c.settle, v) /\ tries' = tries \cup {Wakes!TryOf(c.settle, v, x)}
  BY <1>2, <1>6, <1>7
<1> QED BY <1>1, <1>4, <1>7, <1>8, <1>9, BookWrites

LEMMA BookThrows ==
  ASSUME BookInv, ClaimInv', NEW s \in Twins, NEW u \in settler[s].todo, NEW committed \in BOOLEAN,
         Wakes!TryThrows(s, u, committed)
  PROVE  BookInv'
<1>1. settler[s].pc = "running" /\ settler[s].failing = None /\ settler \in [Twins -> SettlerState]
  BY DEF Wakes!TryThrows, Wakes!Turn, BookInv, ClaimInv, WakeTyped
<1> DEFINE b == settler[s]
           U == settles[b.settle].units
<1>2. /\ tries' = tries \/ tries' = tries \cup {Wakes!TryOf(b.settle, u, "woke")}
      /\ "woke" \in TryStatus
  BY DEF Wakes!TryThrows, TryStatus
<1>3. PICK c : c = Books(b, b.todo \ {u}, u, b.applied, b.tried + 1, b.woke, b.stopped)
  OBVIOUS
<1>4. b \in Running /\ settler' = [settler EXCEPT ![s] = c] /\ UNCHANGED <<settles, reports>>
  BY <1>1, <1>3, ThrowsOn
<1>5. /\ Keeps(tries, b, U) /\ U \in SUBSET WakeUnit /\ Distinct(U) /\ IsFiniteSet(tries)
      /\ \A t \in MineIn(tries, b.settle) : UnitOf(t) \in U
  BY <1>1, BookOf
<1>6. u \in U /\ ~InBooks(tries, b.settle, u)
  <2> HIDE DEF b, U
  <2> QED BY <1>4, <1>5, TodoUnbooked DEF b
<1>7. /\ c.pc = "running" /\ c.settle = b.settle /\ c.todo = b.todo \ {u} /\ c.failing = u
      /\ c.tried = b.tried + 1 /\ c.woke = b.woke /\ c.stopped = b.stopped
  BY <1>3 DEF Books
<1>8. Keeps(tries', c, U)
  <2>1. Keeps(tries, c, U) /\ Keeps(tries \cup {Wakes!TryOf(b.settle, u, "woke")}, c, U)
    <3> HIDE DEF b, U
    <3> QED BY <1>1, <1>4, <1>5, <1>7, KeepsThrow DEF b
  <2> QED BY <1>2, <2>1
<1>9. \/ tries' = tries
      \/ \E v \in settles[c.settle].units, x \in TryStatus :
           ~InBooks(tries, c.settle, v) /\ tries' = tries \cup {Wakes!TryOf(c.settle, v, x)}
  BY <1>2, <1>6, <1>7
<1> QED BY <1>1, <1>4, <1>7, <1>8, <1>9, BookWrites

LEMMA BookRecords ==
  ASSUME BookInv, ClaimInv', NEW s \in Twins, Wakes!recordTry(s)
  PROVE  BookInv'
<1>1. settler[s].pc = "running" /\ settler[s].failing # None /\ settler \in [Twins -> SettlerState]
  BY DEF Wakes!recordTry, BookInv, ClaimInv, WakeTyped
<1> DEFINE b == settler[s]
           U == settles[b.settle].units
<1>2. PICK c : c = Books(b, b.todo, None, b.applied, b.tried, b.woke, b.stopped)
  OBVIOUS
<1>3. /\ b \in Running /\ UNCHANGED <<settles, reports>>
      /\ settler' = [settler EXCEPT ![s] = IF Wakes!Recorded(b.settle, b.failing) THEN Wakes!Idle ELSE c]
  BY <1>1, <1>2, RecordsOn
<1>4. CASE Wakes!Recorded(b.settle, b.failing)
  <2>1. settler' = [settler EXCEPT ![s] = Wakes!Idle] /\ tries' = tries
    BY <1>3, <1>4 DEF Wakes!recordTry
  <2>2. Wakes!Idle.pc # "running"
    BY DEF Wakes!Idle
  <2> QED BY <1>3, <2>1, <2>2, BookPasses
<1>5. CASE ~Wakes!Recorded(b.settle, b.failing)
  <2>1. /\ settler' = [settler EXCEPT ![s] = c] /\ "failed" \in TryStatus
        /\ tries' = tries \cup {Wakes!TryOf(b.settle, b.failing, "failed")}
    BY <1>3, <1>5 DEF Wakes!recordTry, TryStatus
  <2>2. ~InBooks(tries, b.settle, b.failing)
    BY <1>5, RecordedBooks
  <2>3. /\ Keeps(tries, b, U) /\ U \in SUBSET WakeUnit /\ Distinct(U) /\ IsFiniteSet(tries)
        /\ \A t \in MineIn(tries, b.settle) : UnitOf(t) \in U
    BY <1>1, BookOf
  <2>4. /\ c.pc = "running" /\ c.settle = b.settle /\ c.todo = b.todo /\ c.failing = None
        /\ c.tried = b.tried /\ c.woke = b.woke /\ c.stopped = b.stopped
    BY <1>2 DEF Books
  <2>5. b.failing \in U /\ Keeps(tries \cup {Wakes!TryOf(b.settle, b.failing, "failed")}, c, U)
    <3>1. b.failing # None
      BY <1>1
    <3> HIDE DEF b, U
    <3> QED BY <1>3, <2>2, <2>3, <2>4, <3>1, KeepsRecord
  <2>6. \E v \in settles[c.settle].units, x \in TryStatus :
          ~InBooks(tries, c.settle, v) /\ tries' = tries \cup {Wakes!TryOf(c.settle, v, x)}
    BY <2>1, <2>2, <2>4, <2>5
  <2> QED BY <1>1, <1>3, <2>1, <2>4, <2>5, <2>6, BookWrites
<1> QED BY <1>4, <1>5

LEMMA BookSteps ==
  ASSUME BookInv, ClaimInv', Wakes!Next
  PROVE  BookInv'
<1>0. settler \in [Twins -> SettlerState]
  BY DEF BookInv, ClaimInv, WakeTyped
<1>1. ASSUME NEW s \in Twins, NEW p \in Rooms, NEW trigger \in {"arrive", "act"}, Wakes!settleRoom(s, p, trigger)
      PROVE  BookInv'
  <2> DEFINE c == [pc |-> "begun", place |-> p, trigger |-> trigger, at |-> now]
  <2>1. /\ UNCHANGED <<tries, settles, reports>>
        /\ settler' = [settler EXCEPT ![s] = c] /\ c.pc # "running"
    BY <1>1 DEF Wakes!settleRoom
  <2> HIDE DEF c
  <2> QED BY <2>1, BookPasses
<1>2. ASSUME NEW s \in Twins, Wakes!ReadCandidates(s)
      PROVE  BookInv'
  <2>1. /\ UNCHANGED <<tries, settles, reports>>
        /\ \E c : settler' = [settler EXCEPT ![s] = c] /\ c.pc # "running"
    <3>1. Wakes!Idle.pc # "running"
      BY DEF Wakes!Idle
    <3>2. UNCHANGED <<tries, settles, reports>>
      BY <1>2 DEF Wakes!ReadCandidates
    <3>3. CASE Wakes!InQuiet(settler[s].place, settler[s].at)
      BY <1>2, <3>1, <3>2, <3>3 DEF Wakes!ReadCandidates
    <3>4. CASE ~Wakes!InQuiet(settler[s].place, settler[s].at)
      <4> DEFINE here == {th \in Things : at[th] = settler[s].place /\ wakes[th]}
                 c == [pc |-> "claiming", place |-> settler[s].place, trigger |-> settler[s].trigger,
                       at |-> settler[s].at, seen |-> [th \in here |-> wakeState[th]]]
      <4>1. settler' = [settler EXCEPT ![s] = c] /\ c.pc # "running"
        BY <1>2, <3>4 DEF Wakes!ReadCandidates
      <4> HIDE DEF c
      <4> QED BY <3>2, <4>1
    <3> QED BY <3>3, <3>4
  <2> QED BY <2>1, BookPasses
<1>3. ASSUME NEW s \in Twins, Wakes!claimSettle(s)
      PROVE  BookInv'
  BY <1>3, BookClaims
<1>4. ASSUME NEW s \in Twins, NEW u \in (IF settler[s].pc = "running" THEN settler[s].todo ELSE {}),
             \/ \E effects \in 0 .. 1 : Wakes!runTry(s, u, effects)
             \/ \E committed \in BOOLEAN : Wakes!TryThrows(s, u, committed)
             \/ Wakes!StopTry(s, u)
      PROVE  BookInv'
  <2>1. u \in settler[s].todo
    OBVIOUS
  <2> QED BY <1>4, <2>1, BookRuns, BookThrows, BookStops
<1>5. ASSUME NEW s \in Twins, Wakes!recordTry(s)
      PROVE  BookInv'
  BY <1>5, BookRecords
<1>6. ASSUME NEW s \in Twins, Wakes!settleWake(s)
      PROVE  BookInv'
  BY <1>6, BookEnds
<1>7. ASSUME NEW s \in Twins, Wakes!Dies(s)
      PROVE  BookInv'
  <2>1. Wakes!Idle.pc # "running"
    BY DEF Wakes!Idle
  <2>2. settler' = [settler EXCEPT ![s] = Wakes!Idle] /\ UNCHANGED <<tries, settles, reports>>
    BY <1>7 DEF Wakes!Dies
  <2> QED BY <2>1, <2>2, BookPasses
<1>8. ASSUME \/ \E th \in Things : Wakes!Switch(th)
             \/ \E th \in Things, p \in Rooms : Wakes!Move(th, p)
             \/ Wakes!Tick
      PROVE  BookInv'
  <2>1. UNCHANGED <<tries, settles, reports, settler>>
    BY <1>8 DEF Wakes!Switch, Wakes!Move, Wakes!Tick
  <2> QED BY <2>1, BookRests
<1> QED BY <1>1, <1>2, <1>3, <1>4, <1>5, <1>6, <1>7, <1>8 DEF Wakes!Next

LEMMA BookMeans ==
  ASSUME BookInv
  PROVE  Wakes!SettleReport /\ Wakes!TypeOK
<1>1. WakeTyped /\ DOMAIN settles = Settled
  BY SettledDomain DEF BookInv, ClaimInv
<1>2. Wakes!SettleReport
  <2> SUFFICES ASSUME NEW r \in reports
               PROVE  LET settle == settles[r.settle]
                          mine == {t \in tries : t.settle = r.settle}
                          tried == {t \in mine : t.status # "stopped"}
                      IN  /\ Cardinality(mine) = Cardinality(settle.units)
                          /\ \A u \in settle.units : Wakes!Recorded(r.settle, u)
                          /\ r.tried = Cardinality(tried)
                          /\ r.woke = Cardinality({t \in mine : t.status = "woke"})
                          /\ r.forfeited + Cardinality({t \in tried : t.reason = "clock"})
                               = Cardinality(Wakes!Owing(settle.ticks))
    BY WakeCounts DEF Wakes!SettleReport
  <2>1. Reported(tries, settles[r.settle], r)
    BY DEF BookInv
  <2> QED BY <2>1, RecordedBooks DEF Reported, MineIn, RanIn, WokeIn
<1>3. \A th \in Things : /\ wakeState[th].last \in {None} \cup 0 .. now
                         /\ wakeState[th].clock \in {None} \cup 0 .. now
                         /\ wakeState[th] = [last |-> wakeState[th].last, clock |-> wakeState[th].clock]
  <2> SUFFICES ASSUME NEW th \in Things
               PROVE  /\ wakeState[th].last \in {None} \cup 0 .. now
                      /\ wakeState[th].clock \in {None} \cup 0 .. now
                      /\ wakeState[th] = [last |-> wakeState[th].last, clock |-> wakeState[th].clock]
    OBVIOUS
  <2>1. wakeState[th] \in Anchor /\ AnchorOK(th) /\ now \in Nat
    BY <1>1, SettledDomain DEF BookInv, ClaimInv, WakeTyped
  <2> QED BY <2>1 DEF Anchor, AnchorOK
<1>4. wakeState \in [Things -> [last : {None} \cup 0 .. now, clock : {None} \cup 0 .. now]]
  BY <1>1, <1>3 DEF WakeTyped
<1>5. \A i \in DOMAIN settles : settles[i].place \in Rooms /\ settles[i].forfeited \in Nat
  <2>1. \A i \in Settled : settles[i] \in Settle
    BY <1>1, SettledDomain
  <2> QED BY <1>1, <2>1 DEF Settle
<1>6. \A t \in tries : t.settle \in DOMAIN settles /\ t.status \in {"woke", "quiet", "failed", "stopped"}
  BY <1>1 DEF BookInv, WakeTry, TryStatus
<1>7. \A s \in Twins : settler[s].pc \in {"idle", "begun", "claiming", "running"}
  <2> SUFFICES ASSUME NEW s \in Twins PROVE settler[s].pc \in {"idle", "begun", "claiming", "running"}
    OBVIOUS
  <2>1. settler[s] \in SettlerState
    BY <1>1 DEF WakeTyped
  <2> QED BY <2>1 DEF SettlerState, Wakes!Idle, Begun, Claiming, Running
<1>8. Wakes!TypeOK
  BY <1>1, <1>4, <1>5, <1>6, <1>7 DEF Wakes!TypeOK, WakeTyped
<1> QED BY <1>2, <1>8

ReportInv == part = "wakes" => BookInv

LEMMA ReportHolds == RoomsSpec => []ReportInv
<1>1. RoomsInit => ReportInv
  BY BookStarts DEF RoomsInit, TalkInit, WorkInit, ReportInv
<1>2. ReportInv /\ SettleInv' /\ [RoomsNext]_roomVars => ReportInv'
  <2> SUFFICES ASSUME ReportInv, SettleInv', [RoomsNext]_roomVars, part' = "wakes"
               PROVE  BookInv'
    BY DEF ReportInv
  <2>1. part = "wakes" /\ BookInv /\ ClaimInv'
    BY DEF RoomsNext, roomVars, ReportInv, SettleInv
  <2>2. CASE Wakes!Next
    BY <2>1, <2>2, BookSteps
  <2>3. CASE UNCHANGED <<now, wakeVars>>
    <3>1. UNCHANGED <<tries, settles, reports, settler>>
      BY <2>3 DEF wakeVars
    <3> QED BY <2>1, <3>1, BookRests
  <2> QED BY <2>1, <2>2, <2>3 DEF RoomsNext, TalkNext, WorkNext, roomVars
<1> QED BY <1>1, <1>2, SettleHolds, PTL DEF RoomsSpec

\* What a settle reports is what its records say: every claimed try has one outcome, and
\* the ticks that were owed and not tried are those it reports as forfeited.
THEOREM ReportIsTrue == RoomsSpec => []SettleReport
<1>1. ReportInv => SettleReport
  BY BookMeans DEF ReportInv, SettleReport
<1> QED BY <1>1, ReportHolds, PTL

-----------------------------------------------------------------------------
(* ShowingRoom: a question closes once                                     *)

Note == [author : Twins, kind : {"entry", "vote", "withdraw"}, entry : Nat \cup {None},
         at : Nat, removed : BOOLEAN]
Waiting == [state : {"queued", "cancelled"}]
Opened == [state : {"open", "completed"}, opened : Nat, rules : Nat, entries : Nat, votes : Nat]
Count == [read : SUBSET Nat, entries : SUBSET Nat, ballots : SUBSET Nat, winners : SUBSET Nat]
RunOutcome == [slot : Nat, contest : SUBSET Nat, next : SUBSET Nat, late : BOOLEAN]
RunResult == [outcome : RunOutcome, count : {None} \cup Count, recovery : BOOLEAN]
Counting ==
  [pc : {"counting"}, slot : Contest!Slots, retry : Nat, forced : BOOLEAN, late : BOOLEAN]
Retrying == [pc : {"retry"}, retry : Nat, forced : BOOLEAN, slot : Contest!Slots]
Failed == [pc : {"failing"}, slot : Contest!Slots, code : {"unavailable", "room"}]
CallState == {Contest!Idle} \cup Counting \cup Retrying \cup Failed
Failure == [slot : Contest!Slots, code : {"unavailable", "room"}]
Asked == 1 .. Len(contests)

ContestTyped ==
  /\ now \in 0 .. ContestTime /\ controls \in 0 .. ControlLimit /\ open \in BOOLEAN
  /\ notes \in Seq(Note) /\ Len(notes) <= NoteLimit
  /\ draft # None => draft \in Note /\ Len(notes) < NoteLimit
  /\ contests \in Seq(Waiting \cup Opened) /\ Len(contests) <= QuestionLimit
  /\ runs \in [Contest!Slots -> RunResult \cup {None}]
  /\ credits \in [1 .. QuestionLimit -> [Twins -> Nat]]
  /\ control \in [paused : BOOLEAN, failure : Failure \cup {None}]
  /\ call \in [Runs -> CallState]
  /\ answers \in [Contest!Slots -> SUBSET RunOutcome]

\* The notes of a question, from its opening to its close.
NotesOf(N, q) == {n \in DOMAIN N : n > q.rules /\ N[n].at >= q.opened /\ N[n].at < q.votes}

\* A question i that is over has one result, over its notes, and its credits.
Closed(R, N, i, q, credit) ==
  \E s \in Contest!Slots :
    /\ R[s] # None /\ R[s].outcome.contest = {i} /\ ~R[s].recovery
    /\ \A t \in Contest!Slots \ {s} : R[t] # None /\ R[t].outcome.contest = {i} => R[t].recovery
    /\ R[s].count.winners \subseteq DOMAIN N
    /\ R[s].count.read = NotesOf(N, q)
    /\ \A r \in Twins : credit[r] = Cardinality({e \in R[s].count.winners : N[e].author = r})

\* A question that is open closes at a slot; one that is over will have no other note.
QuestionOK(i) ==
  /\ contests[i].state = "open" => \E k \in Nat : contests[i].votes = Week * k
  /\ contests[i].state = "completed" =>
       /\ contests[i].votes <= now /\ (draft # None => draft.at >= contests[i].votes)
       /\ Closed(runs, notes, i, contests[i], credits[i])

\* A run that counts holds the locks, and its slot has no result.
LocksOK ==
  /\ \A w \in Runs : call[w].pc = "counting" =>
       draft = None /\ runs[call[w].slot] = None /\ call[w].slot <= now
  /\ \A w, v \in Runs : call[w].pc = "counting" /\ call[v].pc = "counting" => w = v

\* What is known of a slot.
SlotOK(s) ==
  /\ runs[s] = None => answers[s] = {}
  /\ runs[s] # None =>
       /\ \A i \in runs[s].outcome.contest : i \in Asked /\ contests[i].state = "completed"
       /\ answers[s] \subseteq {runs[s].outcome}
       /\ control.failure # None => control.failure.slot # s

ContestInv ==
  /\ ContestTyped
  /\ LocksOK
  /\ \A i \in Asked : QuestionOK(i)
  /\ \A i, j \in Asked : contests[i].state = "open" /\ contests[j].state = "open" => i = j
  /\ \A i \in 1 .. QuestionLimit :
       (i \in Asked => contests[i].state # "completed") => \A r \in Twins : credits[i][r] = 0
  /\ \A s \in Contest!Slots : SlotOK(s)

LEMMA ContestCounts == \A S : Contest!Cardinality(S) = Cardinality(S)
  BY DEF Contest!Cardinality, Cardinality

LEMMA ContestClock ==
  /\ Week \in Nat \ {0} /\ Entering \in Nat /\ ContestTime \in Nat
  /\ QuestionLimit \in Nat \ {0} /\ NoteLimit \in Nat /\ ControlLimit \in Nat
  /\ None \notin RunResult
  BY ContestAssumption DEF RunResult, RunOutcome, Count

LEMMA SlotNumbers ==
  /\ Contest!Slots \subseteq Nat
  /\ \A t \in 0 .. ContestTime :
       Contest!latestShowingRoomSlot(t) \in Contest!Slots /\ Contest!latestShowingRoomSlot(t) <= t
  /\ \A k \in Nat : \A s \in Contest!Slots : Week * k <= s => Week * k \in Contest!Slots
<1> DEFINE m == ContestTime \div Week
<1>1. m \in Nat
  BY ContestClock, DivNatural
<1>2. Contest!Slots = {Week * k : k \in 0 .. m}
  BY DEF Contest!Slots
<1> HIDE DEF m
<1>3. Contest!Slots \subseteq Nat
  BY <1>1, <1>2, ContestClock
<1>4. ASSUME NEW t \in 0 .. ContestTime
      PROVE  Contest!latestShowingRoomSlot(t) \in Contest!Slots /\ Contest!latestShowingRoomSlot(t) <= t
  <2>1. t \in Nat /\ ContestTime \in Nat /\ t <= ContestTime
    BY ContestClock
  <2>2. t \div Week \in Nat /\ t \div Week <= m
    BY <2>1, ContestClock, DivNatural, DivMonotone DEF m
  <2>3. (t \div Week) * Week <= t /\ Week * (t \div Week) = (t \div Week) * Week
    BY <2>1, ContestClock, DayBegins
  <2>4. Contest!latestShowingRoomSlot(t) = Week * (t \div Week)
    BY DEF Contest!latestShowingRoomSlot
  <2>5. t \div Week \in 0 .. m
    BY <1>1, <2>2
  <2> QED BY <1>2, <2>3, <2>4, <2>5
<1>5. ASSUME NEW k \in Nat, NEW s \in Contest!Slots, Week * k <= s
      PROVE  Week * k \in Contest!Slots
  <2>1. PICK j \in 0 .. m : s = Week * j
    BY <1>2
  <2>2. ~(k > j)
    <3> SUFFICES ASSUME k > j PROVE FALSE
      OBVIOUS
    <3>1. j \in Nat /\ k - j \in Nat \ {0} /\ k = j + (k - j)
      BY <1>1, <2>1
    <3>2. (j + (k - j)) * Week > j * Week
      BY <3>1, TimesGrow, ContestClock
    <3>3. k * Week > j * Week /\ k * Week = Week * k /\ j * Week = Week * j
      BY <3>1, <3>2, ContestClock
    <3>4. Week * k \in Int /\ Week * j \in Int
      BY <3>1, ContestClock
    <3> QED BY <1>5, <2>1, <3>3, <3>4
  <2>3. k \in 0 .. m
    BY <1>1, <2>2
  <2> QED BY <1>2, <2>3
<1> QED BY <1>3, <1>4, <1>5

LEMMA AskedDomain ==
  ASSUME ContestTyped
  PROVE  /\ DOMAIN contests = Asked /\ Len(contests) \in Nat /\ Asked \subseteq 1 .. QuestionLimit
         /\ \A i \in Asked : contests[i] \in Waiting \cup Opened
         /\ \A i \in Asked : contests[i].state \in {"open", "completed"} => contests[i] \in Opened
         /\ \A i \in Asked : contests[i].state \in {"queued", "cancelled"} => contests[i] \in Waiting
         /\ DOMAIN notes = 1 .. Len(notes) /\ Len(notes) \in Nat
         /\ \A n \in DOMAIN notes : notes[n] \in Note
         /\ now \in Nat
<1>1. /\ DOMAIN contests = Asked /\ Len(contests) \in Nat /\ Len(contests) <= QuestionLimit
      /\ \A i \in Asked : contests[i] \in Waiting \cup Opened
      /\ DOMAIN notes = 1 .. Len(notes) /\ Len(notes) \in Nat
      /\ \A n \in DOMAIN notes : notes[n] \in Note
  BY DEF ContestTyped, Asked
<1>2. \A q \in Waiting : q.state \in {"queued", "cancelled"}
  BY DEF Waiting
<1>3. \A q \in Opened : q.state \in {"open", "completed"}
  BY DEF Opened
<1>4. now \in Nat /\ Asked \subseteq 1 .. QuestionLimit
  BY <1>1, ContestClock DEF ContestTyped, Asked
<1> QED BY <1>1, <1>2, <1>3, <1>4

\* What a cron call in each stage carries.
LEMMA CallStages ==
  ASSUME call \in [Runs -> CallState], NEW w \in Runs
  PROVE  /\ call[w].pc \in {"idle", "counting", "retry", "failing"}
         /\ call[w].pc = "counting" => call[w] \in Counting
         /\ call[w].pc = "retry" => call[w] \in Retrying
         /\ call[w].pc = "failing" => call[w] \in Failed
<1>1. call[w] \in CallState
  OBVIOUS
<1>2. call[w] \in {Contest!Idle} => call[w].pc = "idle"
  BY DEF Contest!Idle
<1>3. /\ call[w] \in Counting => call[w].pc = "counting"
      /\ call[w] \in Retrying => call[w].pc = "retry"
      /\ call[w] \in Failed => call[w].pc = "failing"
  BY DEF Counting, Retrying, Failed
<1> QED BY <1>1, <1>2, <1>3 DEF CallState

LEMMA ContestStarts ==
  ASSUME Contest!Init
  PROVE  ContestInv
<1>1. /\ now = 0 /\ notes = <<>> /\ draft = None /\ contests = <<Contest!Queued>>
      /\ runs = [s \in Contest!Slots |-> None]
      /\ credits = [c \in 1 .. QuestionLimit |-> [r \in Twins |-> 0]]
      /\ control = [paused |-> FALSE, failure |-> None] /\ controls = 0 /\ open = TRUE
      /\ call = [w \in Runs |-> Contest!Idle] /\ answers = [s \in Contest!Slots |-> {}]
  BY DEF Contest!Init
<1>2. Asked = {1} /\ Contest!Queued \in Waiting /\ contests[1].state = "queued" /\ Len(contests) = 1
  BY <1>1 DEF Asked, Contest!Queued, Waiting
<1>3. \A w \in Runs : call[w].pc = "idle"
  BY <1>1 DEF Contest!Idle
<1>4. ContestTyped
  <2>1. contests \in Seq(Waiting \cup Opened)
    BY <1>1, <1>2
  <2>2. call \in [Runs -> CallState] /\ control \in [paused : BOOLEAN, failure : Failure \cup {None}]
    BY <1>1 DEF CallState
  <2>3. notes \in Seq(Note) /\ Len(notes) = 0
    BY <1>1
  <2>4. /\ runs \in [Contest!Slots -> RunResult \cup {None}]
        /\ credits \in [1 .. QuestionLimit -> [Twins -> Nat]]
        /\ answers \in [Contest!Slots -> SUBSET RunOutcome]
    BY <1>1
  <2> QED BY <1>1, <1>2, <2>1, <2>2, <2>3, <2>4, ContestClock DEF ContestTyped
<1>5. LocksOK
  BY <1>3 DEF LocksOK
<1>6. \A i \in Asked : QuestionOK(i)
  BY <1>2 DEF QuestionOK
<1>7. \A s \in Contest!Slots : SlotOK(s)
  BY <1>1 DEF SlotOK
<1>8. \A i \in 1 .. QuestionLimit : \A r \in Twins : credits[i][r] = 0
  BY <1>1
<1> QED BY <1>2, <1>4, <1>5, <1>6, <1>7, <1>8 DEF ContestInv

\* What was counted stays as it was: the notes keep their time and author, those that
\* come are later, and a result is never overwritten.
LEMMA ClosedStays ==
  ASSUME NEW R, NEW N, NEW i, NEW q \in Opened, NEW credit, Closed(R, N, i, q, credit),
         NEW S, NEW M, NEW p, p.rules = q.rules, p.opened = q.opened, p.votes = q.votes,
         DOMAIN N \subseteq DOMAIN M,
         \A n \in DOMAIN N : M[n].at = N[n].at /\ M[n].author = N[n].author,
         \A n \in DOMAIN M \ DOMAIN N : M[n].at \in Nat /\ M[n].at >= q.votes,
         \A s \in Contest!Slots : R[s] # None => S[s] = R[s],
         \A s \in Contest!Slots : R[s] = None /\ S[s] # None => S[s].outcome.contest # {i}
  PROVE  Closed(S, M, i, p, credit)
<1>1. PICK s \in Contest!Slots :
        /\ R[s] # None /\ R[s].outcome.contest = {i} /\ ~R[s].recovery
        /\ \A t \in Contest!Slots \ {s} : R[t] # None /\ R[t].outcome.contest = {i} => R[t].recovery
        /\ R[s].count.winners \subseteq DOMAIN N
        /\ R[s].count.read = NotesOf(N, q)
        /\ \A r \in Twins : credit[r] = Cardinality({e \in R[s].count.winners : N[e].author = r})
  BY DEF Closed
<1>2. S[s] = R[s] /\ S[s] # None
  BY <1>1
<1>3. NotesOf(M, p) = NotesOf(N, q)
  <2>1. q.votes \in Nat
    BY DEF Opened
  <2>2. \A n \in DOMAIN M \ DOMAIN N : ~(M[n].at < q.votes)
    BY <2>1
  <2> QED BY <2>2 DEF NotesOf
<1>4. \A t \in Contest!Slots \ {s} : S[t] # None /\ S[t].outcome.contest = {i} => S[t].recovery
  BY <1>1
<1>5. \A r \in Twins : {e \in R[s].count.winners : M[e].author = r} = {e \in R[s].count.winners : N[e].author = r}
  BY <1>1
<1>6. \A r \in Twins : credit[r] = Cardinality({e \in S[s].count.winners : M[e].author = r})
  BY <1>1, <1>2, <1>5
<1>7. S[s].count.winners \subseteq DOMAIN M
  BY <1>1, <1>2
<1> QED BY <1>1, <1>2, <1>3, <1>4, <1>6, <1>7 DEF Closed

LEMMA QuestionStays ==
  ASSUME ContestTyped, NEW i \in Asked, QuestionOK(i), contests[i].state = "completed"
  PROVE  contests[i] \in Opened /\ contests[i].votes \in Nat
<1>1. contests[i] \in Opened
  BY AskedDomain
<1> QED BY <1>1 DEF Opened

\* A slot is answered with its result; a failure waits where there is none; and a count
\* begins when nobody holds the locks and its slot has no result.
AnswersStand ==
  \A s \in Contest!Slots :
    answers'[s] = answers[s] \/ (runs[s] # None /\ answers'[s] = answers[s] \cup {runs[s].outcome})
FailureStands ==
  control'.failure # None =>
    control'.failure = control.failure \/ runs[control'.failure.slot] = None
CountsAlone ==
  \A w \in Runs : call'[w].pc = "counting" =>
    \/ call'[w] = call[w]
    \/ /\ \A v \in Runs : call[v].pc # "counting" /\ (v # w => call'[v] = call[v])
       /\ draft = None /\ runs[call'[w].slot] = None /\ call'[w].slot <= now

\* A step of a call or the founder that leaves notes, questions and results alone.
LEMMA ContestRests ==
  ASSUME ContestInv, UNCHANGED <<notes, draft, contests, runs, credits>>,
         now' \in 0 .. ContestTime, now' >= now, controls' \in 0 .. ControlLimit, open' \in BOOLEAN,
         control' \in [paused : BOOLEAN, failure : Failure \cup {None}],
         call' \in [Runs -> CallState], answers' \in [Contest!Slots -> SUBSET RunOutcome],
         FailureStands, AnswersStand, CountsAlone
  PROVE  ContestInv'
<1>1. ContestTyped /\ now \in Nat /\ now' \in Nat
  BY AskedDomain, ContestClock DEF ContestInv
<1>2. ContestTyped' /\ Asked' = Asked
  BY <1>1 DEF ContestTyped, Asked
<1>3. ASSUME NEW w \in Runs, call'[w].pc = "counting"
      PROVE  draft = None /\ runs[call'[w].slot] = None /\ call'[w].slot <= now'
  <2>1. draft = None /\ runs[call'[w].slot] = None /\ call'[w].slot <= now
    BY <1>3 DEF ContestInv, LocksOK, CountsAlone
  <2>2. call'[w].slot \in Nat
    <3>1. call'[w] \in CallState
      OBVIOUS
    <3>2. call'[w] \in Counting
      BY <1>3, <3>1 DEF CallState, Contest!Idle, Counting, Retrying, Failed
    <3> QED BY <3>2, SlotNumbers DEF Counting
  <2> QED BY <1>1, <2>1, <2>2
<1>4. ASSUME NEW w \in Runs, NEW v \in Runs, call'[w].pc = "counting", call'[v].pc = "counting"
      PROVE  w = v
  <2>1. CASE call'[w] = call[w] /\ call'[v] = call[v]
    BY <1>4, <2>1 DEF ContestInv, LocksOK
  <2>2. CASE call'[w] # call[w]
    BY <1>4, <2>2 DEF CountsAlone
  <2>3. CASE call'[v] # call[v]
    BY <1>4, <2>3 DEF CountsAlone
  <2> QED BY <2>1, <2>2, <2>3
<1>5. LocksOK'
  BY <1>3, <1>4 DEF LocksOK
<1>6. ASSUME NEW i \in Asked
      PROVE  QuestionOK(i)'
  <2>1. QuestionOK(i)
    BY DEF ContestInv
  <2>2. contests[i].state = "completed" => contests[i].votes \in Nat
    BY <1>1, <2>1, QuestionStays
  <2> QED BY <1>1, <2>1, <2>2 DEF QuestionOK
<1>7. ASSUME NEW s \in Contest!Slots
      PROVE  SlotOK(s)'
  <2>1. SlotOK(s)
    BY DEF ContestInv
  <2>2. (runs[s] # None /\ control'.failure # None) => control'.failure.slot # s
    BY <2>1 DEF SlotOK, FailureStands
  <2> QED BY <1>2, <2>1, <2>2 DEF SlotOK, AnswersStand
<1>8. \A i \in 1 .. QuestionLimit :
        (i \in Asked => contests[i].state # "completed") => \A r \in Twins : credits[i][r] = 0
  BY DEF ContestInv
<1>9. \A i, j \in Asked : contests[i].state = "open" /\ contests[j].state = "open" => i = j
  BY DEF ContestInv
<1> QED BY <1>2, <1>5, <1>6, <1>7, <1>8, <1>9 DEF ContestInv

\* A call that ends, fails or tries again.
LEMMA CallPasses ==
  ASSUME ContestInv, NEW w \in Runs, NEW c \in CallState, c.pc # "counting",
         call' = [call EXCEPT ![w] = c],
         UNCHANGED <<now, notes, draft, contests, runs, credits, controls, open, answers>>,
         control' \in [paused : BOOLEAN, failure : Failure \cup {None}],
         FailureStands
  PROVE  ContestInv'
<1>1. ContestTyped /\ now \in Nat
  BY AskedDomain DEF ContestInv
<1>2. call' \in [Runs -> CallState] /\ call'[w] = c /\ \A v \in Runs : v # w => call'[v] = call[v]
  BY <1>1 DEF ContestTyped
<1>3. \A v \in Runs : call'[v].pc = "counting" => call'[v] = call[v]
  BY <1>2
<1>4. /\ now' \in 0 .. ContestTime /\ now' >= now /\ controls' \in 0 .. ControlLimit /\ open' \in BOOLEAN
      /\ answers' \in [Contest!Slots -> SUBSET RunOutcome]
  BY <1>1 DEF ContestTyped
<1>5. CountsAlone /\ AnswersStand
  BY <1>3 DEF CountsAlone, AnswersStand
<1> QED BY <1>2, <1>4, <1>5, ContestRests

LEMMA CallAgain ==
  ASSUME call \in [Runs -> CallState], NEW w \in Runs, call[w].pc = "counting"
  PROVE  /\ \A forceLate \in BOOLEAN : Contest!Again(w, forceLate) =>
              \E c \in CallState : call' = [call EXCEPT ![w] = c] /\ c.pc # "counting"
         /\ \A code \in {"unavailable", "room"} : Contest!Failing(w, code) =>
              \E c \in CallState : call' = [call EXCEPT ![w] = c] /\ c.pc # "counting"
         /\ call[w] \in Counting /\ Contest!Idle \in CallState /\ Contest!Idle.pc # "counting"
<1>1. call[w] \in Counting
  BY CallStages
<1>2. ASSUME NEW forceLate \in BOOLEAN, Contest!Again(w, forceLate)
      PROVE  \E c \in CallState : call' = [call EXCEPT ![w] = c] /\ c.pc # "counting"
  <2> DEFINE c == [pc |-> "retry", retry |-> call[w].retry + 1, forced |-> forceLate, slot |-> call[w].slot]
  <2>1. call' = [call EXCEPT ![w] = c]
    BY <1>2 DEF Contest!Again
  <2>2. c \in Retrying /\ c.pc = "retry"
    BY <1>1 DEF Counting, Retrying
  <2> HIDE DEF c
  <2> QED BY <2>1, <2>2 DEF CallState
<1>3. ASSUME NEW code \in {"unavailable", "room"}, Contest!Failing(w, code)
      PROVE  \E c \in CallState : call' = [call EXCEPT ![w] = c] /\ c.pc # "counting"
  <2> DEFINE c == [pc |-> "failing", slot |-> call[w].slot, code |-> code]
  <2>1. call' = [call EXCEPT ![w] = c]
    BY <1>3 DEF Contest!Failing
  <2>2. c \in Failed /\ c.pc = "failing"
    BY <1>1 DEF Counting, Failed
  <2> HIDE DEF c
  <2> QED BY <2>1, <2>2 DEF CallState
<1>4. Contest!Idle \in CallState /\ Contest!Idle.pc # "counting"
  BY DEF CallState, Contest!Idle
<1> QED BY <1>1, <1>2, <1>3, <1>4

\* An attempt under the locks.
LEMMA ContestAttempts ==
  ASSUME ContestInv, NEW w \in Runs, Contest!runShowingRoomClose(w) \/ Contest!Retry(w)
  PROVE  ContestInv'
<1>1. ContestTyped /\ now \in Nat /\ call \in [Runs -> CallState]
  BY AskedDomain DEF ContestInv, ContestTyped
<1>2. PICK retry \in Nat, forced \in BOOLEAN : Contest!attempt(w, retry, forced)
  <2>1. CASE Contest!runShowingRoomClose(w)
    BY <2>1 DEF Contest!runShowingRoomClose
  <2>2. CASE Contest!Retry(w)
    <3>1. call[w] \in Retrying /\ Contest!attempt(w, call[w].retry, call[w].forced)
      BY <1>1, <2>2, CallStages DEF Contest!Retry
    <3> QED BY <3>1 DEF Retrying
  <2> QED BY <2>1, <2>2
<1>3. PICK slot : slot = Contest!latestShowingRoomSlot(now)
  OBVIOUS
<1>4. slot \in Contest!Slots /\ slot <= now
  BY <1>1, <1>3, SlotNumbers DEF ContestTyped
<1>5. /\ draft = None /\ \A v \in Runs : call[v].pc # "counting"
      /\ UNCHANGED <<now, notes, draft, contests, runs, credits, control, controls, open>>
  BY <1>2 DEF Contest!attempt, Contest!LocksFree
<1>6. /\ now' \in 0 .. ContestTime /\ now' >= now /\ controls' \in 0 .. ControlLimit /\ open' \in BOOLEAN
      /\ control' \in [paused : BOOLEAN, failure : Failure \cup {None}] /\ FailureStands
  BY <1>1, <1>5 DEF ContestTyped, FailureStands
<1>7. Contest!Idle \in CallState /\ Contest!Idle.pc # "counting"
  BY DEF CallState, Contest!Idle
<1>8. CASE runs[slot] # None /\ Contest!Answer(w, slot, runs[slot].outcome)
  <2>1. /\ call' = [call EXCEPT ![w] = Contest!Idle]
        /\ answers' = [answers EXCEPT ![slot] = answers[slot] \cup {runs[slot].outcome}]
    BY <1>8 DEF Contest!Answer
  <2>2. call' \in [Runs -> CallState] /\ \A v \in Runs : call'[v].pc # "counting"
    BY <1>1, <1>5, <1>7, <2>1
  <2>3. runs[slot].outcome \in RunOutcome
    BY <1>1, <1>4, <1>8 DEF ContestTyped, RunResult
  <2>4. answers' \in [Contest!Slots -> SUBSET RunOutcome]
    BY <1>1, <1>4, <2>1, <2>3 DEF ContestTyped
  <2>5. AnswersStand
    BY <1>1, <1>4, <1>8, <2>1 DEF ContestTyped, AnswersStand
  <2>6. CountsAlone
    BY <2>2 DEF CountsAlone
  <2> QED BY <1>5, <1>6, <2>2, <2>4, <2>5, <2>6, ContestRests
<1>9. CASE Contest!NoResult(w)
  <2>1. call' = [call EXCEPT ![w] = Contest!Idle] /\ UNCHANGED answers
    BY <1>9 DEF Contest!NoResult
  <2> QED BY <1>5, <1>6, <1>7, <2>1, CallPasses
<1>10. CASE \E late \in BOOLEAN :
              /\ runs[slot] = None /\ UNCHANGED answers
              /\ call' = [call EXCEPT ![w] =
                   [pc |-> "counting", slot |-> slot, retry |-> retry, forced |-> forced, late |-> late]]
  <2>1. PICK late \in BOOLEAN :
          /\ runs[slot] = None /\ UNCHANGED answers
          /\ call' = [call EXCEPT ![w] =
               [pc |-> "counting", slot |-> slot, retry |-> retry, forced |-> forced, late |-> late]]
    BY <1>10
  <2> DEFINE c == [pc |-> "counting", slot |-> slot, retry |-> retry, forced |-> forced, late |-> late]
  <2>2. c \in Counting /\ c.slot = slot
    BY <1>4 DEF Counting
  <2>3. c \in CallState
    BY <2>2 DEF CallState
  <2> HIDE DEF c
  <2>4. call' \in [Runs -> CallState] /\ call'[w] = c /\ \A v \in Runs : v # w => call'[v] = call[v]
    BY <1>1, <2>1, <2>3 DEF c
  <2>5. answers' \in [Contest!Slots -> SUBSET RunOutcome]
    BY <1>1, <2>1 DEF ContestTyped
  <2>6. CountsAlone
    BY <1>4, <1>5, <2>1, <2>2, <2>4 DEF CountsAlone
  <2>7. AnswersStand
    BY <2>1 DEF AnswersStand
  <2> QED BY <1>5, <1>6, <2>4, <2>5, <2>6, <2>7, ContestRests
<1>11. \/ runs[slot] # None /\ Contest!Answer(w, slot, runs[slot].outcome)
       \/ Contest!NoResult(w)
       \/ \E late \in BOOLEAN :
            /\ runs[slot] = None /\ UNCHANGED answers
            /\ call' = [call EXCEPT ![w] =
                 [pc |-> "counting", slot |-> slot, retry |-> retry, forced |-> forced, late |-> late]]
  BY <1>2, <1>3 DEF Contest!attempt
<1> QED BY <1>8, <1>9, <1>10, <1>11

\* A call that gives up, in whichever way.
LEMMA ContestFails ==
  ASSUME ContestInv, NEW w \in Runs,
         \/ Contest!DeadlineCrossed(w) \/ Contest!CountFails(w) \/ Contest!CommitLost(w)
         \/ Contest!RetryFails(w) \/ Contest!recordFailure(w) \/ Contest!Dies(w)
  PROVE  ContestInv'
<1>1. call \in [Runs -> CallState] /\ control \in [paused : BOOLEAN, failure : Failure \cup {None}]
  BY DEF ContestInv, ContestTyped
<1>2. Contest!Idle \in CallState /\ Contest!Idle.pc # "counting"
  BY DEF CallState, Contest!Idle
<1>3. CASE Contest!recordFailure(w)
  <2>1. /\ call' = [call EXCEPT ![w] = Contest!Idle] /\ call[w].pc = "failing"
        /\ UNCHANGED <<now, notes, draft, contests, runs, credits, controls, open, answers>>
        /\ \/ control' = control
           \/ /\ runs[call[w].slot] = None
              /\ control' = [control EXCEPT !.failure = [slot |-> call[w].slot, code |-> call[w].code]]
    BY <1>3 DEF Contest!recordFailure, Contest!HasResult
  <2>2. call[w] \in Failed
    BY <1>1, <2>1, CallStages
  <2>3. [slot |-> call[w].slot, code |-> call[w].code] \in Failure
    BY <2>2 DEF Failed, Failure
  <2>4. control' \in [paused : BOOLEAN, failure : Failure \cup {None}] /\ FailureStands
    BY <1>1, <2>1, <2>3 DEF FailureStands
  <2> QED BY <1>2, <2>1, <2>4, CallPasses
<1>4. CASE Contest!Dies(w)
  <2>1. /\ call' = [call EXCEPT ![w] = Contest!Idle]
        /\ UNCHANGED <<now, notes, draft, contests, runs, credits, control, controls, open, answers>>
    BY <1>4 DEF Contest!Dies
  <2>2. FailureStands
    BY <2>1 DEF FailureStands
  <2> QED BY <2>2, <1>1, <1>2, <2>1, CallPasses
<1>5. CASE Contest!DeadlineCrossed(w) \/ Contest!CountFails(w) \/ Contest!CommitLost(w)
  <2>1. /\ call[w].pc = "counting"
        /\ UNCHANGED <<now, notes, draft, contests, runs, credits, control, controls, open, answers>>
        /\ \/ call' = [call EXCEPT ![w] = Contest!Idle]
           \/ Contest!Again(w, TRUE) \/ Contest!Again(w, call[w].forced)
           \/ Contest!Failing(w, "unavailable") \/ Contest!Failing(w, "room")
    BY <1>5 DEF Contest!DeadlineCrossed, Contest!CountFails, Contest!CommitLost, Contest!InTime
  <2>2. call[w] \in Counting
    BY <1>1, <2>1, CallAgain
  <2>3. call[w].forced \in BOOLEAN
    BY <2>2 DEF Counting
  <2>4. \E c \in CallState : call' = [call EXCEPT ![w] = c] /\ c.pc # "counting"
    BY <1>1, <1>2, <2>1, <2>3, CallAgain
  <2>5. FailureStands
    BY <2>1 DEF FailureStands
  <2> QED BY <1>1, <2>1, <2>4, <2>5, CallPasses
<1>6. CASE Contest!RetryFails(w)
  <2>1. /\ call[w].pc = "retry" /\ Contest!Failing(w, "unavailable")
        /\ UNCHANGED <<now, notes, draft, contests, runs, credits, control, controls, open, answers>>
    BY <1>6 DEF Contest!RetryFails
  <2>2. call[w].slot \in Contest!Slots
    BY <1>1, <2>1, CallStages DEF Retrying
  <2> DEFINE failing == [pc |-> "failing", slot |-> call[w].slot, code |-> "unavailable"]
  <2>3. failing \in CallState /\ failing.pc # "counting"
    BY <2>2 DEF CallState, Failed
  <2>4. call' = [call EXCEPT ![w] = failing]
    BY <1>1, <2>1 DEF Contest!Failing
  <2>5. FailureStands
    BY <2>1 DEF FailureStands
  <2> HIDE DEF failing
  <2> QED BY <1>1, <2>1, <2>3, <2>4, <2>5, CallPasses
<1> QED BY <1>3, <1>4, <1>5, <1>6

\* The founder, and the clock.
LEMMA ContestControls ==
  ASSUME ContestInv, Contest!controlShowingRoom \/ Contest!EditRoom \/ Contest!Tick
  PROVE  ContestInv'
<1>1. /\ ContestTyped /\ now \in Nat /\ ControlLimit \in Nat /\ ContestTime \in Nat /\ controls \in Nat
      /\ open \in BOOLEAN /\ control.paused \in BOOLEAN
  BY AskedDomain, ContestClock DEF ContestInv, ContestTyped
<1>2. UNCHANGED <<notes, draft, contests, runs, credits, call, answers>>
  BY DEF Contest!controlShowingRoom, Contest!EditRoom, Contest!Tick
<1>3. /\ now' \in 0 .. ContestTime /\ now' >= now /\ controls' \in 0 .. ControlLimit /\ open' \in BOOLEAN
      /\ control' \in [paused : BOOLEAN, failure : Failure \cup {None}]
      /\ FailureStands
  <2>1. CASE Contest!controlShowingRoom
    <3>1. /\ UNCHANGED <<now, open>> /\ controls < ControlLimit /\ controls' = controls + 1
          /\ control' = [control EXCEPT !.paused = ~control.paused]
      BY <2>1 DEF Contest!controlShowingRoom
    <3>2. control \in [paused : BOOLEAN, failure : Failure \cup {None}]
      BY <1>1 DEF ContestTyped
    <3>3. control' \in [paused : BOOLEAN, failure : Failure \cup {None}]
      BY <3>1, <3>2, Zenon
    <3>4. control'.failure = control.failure
      BY <3>1, <3>2
    <3> QED BY <1>1, <3>1, <3>3, <3>4 DEF ContestTyped, FailureStands
  <2>2. CASE Contest!EditRoom
    BY <1>1, <2>2 DEF Contest!EditRoom, ContestTyped, FailureStands
  <2>3. CASE Contest!Tick
    BY <1>1, <2>3 DEF Contest!Tick, ContestTyped, FailureStands
  <2> QED BY <2>1, <2>2, <2>3
<1>4. call' \in [Runs -> CallState] /\ answers' \in [Contest!Slots -> SUBSET RunOutcome]
  BY <1>1, <1>2 DEF ContestTyped
<1>5. CountsAlone /\ AnswersStand
  BY <1>2 DEF CountsAlone, AnswersStand
<1> QED BY <1>2, <1>3, <1>4, <1>5, ContestRests

\* A step that writes notes: a note is admitted now, under the locks, or a draft becomes
\* the newest note, or a note is removed.
LEMMA ContestNotes ==
  ASSUME ContestInv, UNCHANGED <<now, contests, runs, credits, control, open, call, answers>>,
         controls' \in 0 .. ControlLimit, notes' \in Seq(Note), Len(notes') <= NoteLimit,
         draft' # None => draft' \in Note /\ Len(notes') < NoteLimit,
         draft' = draft \/ draft' = None \/ (draft'.at = now /\ Contest!LocksFree),
         \A n \in DOMAIN notes :
           n \in DOMAIN notes' /\ notes'[n].at = notes[n].at /\ notes'[n].author = notes[n].author,
         \A n \in DOMAIN notes' \ DOMAIN notes : draft # None /\ notes'[n] = draft
  PROVE  ContestInv'
<1>1. ContestTyped /\ now \in Nat
  BY AskedDomain DEF ContestInv
<1>2. ContestTyped' /\ Asked' = Asked
  BY <1>1 DEF ContestTyped, Asked
<1>3. LocksOK'
  BY DEF ContestInv, LocksOK, Contest!LocksFree
<1>4. ASSUME NEW i \in Asked
      PROVE  QuestionOK(i)'
  <2>1. QuestionOK(i)
    BY DEF ContestInv
  <2>2. ASSUME contests[i].state = "completed"
        PROVE  /\ contests[i].votes <= now /\ (draft' # None => draft'.at >= contests[i].votes)
               /\ Closed(runs, notes', i, contests[i], credits[i])
    <3>1. /\ contests[i] \in Opened /\ contests[i].votes \in Nat /\ contests[i].votes <= now
          /\ (draft # None => draft.at >= contests[i].votes /\ draft.at \in Nat)
          /\ Closed(runs, notes, i, contests[i], credits[i])
      BY <1>1, <2>1, <2>2, QuestionStays DEF QuestionOK, ContestTyped, Note
    <3>2. draft' # None => draft'.at >= contests[i].votes
      BY <3>1
    <3>3. PICK N, M, R, q, credit :
            N = notes /\ M = notes' /\ R = runs /\ q = contests[i] /\ credit = credits[i]
      OBVIOUS
    <3>4. /\ DOMAIN N \subseteq DOMAIN M
          /\ \A n \in DOMAIN N : M[n].at = N[n].at /\ M[n].author = N[n].author
          /\ \A n \in DOMAIN M \ DOMAIN N : M[n].at \in Nat /\ M[n].at >= q.votes
          /\ q \in Opened /\ Closed(R, N, i, q, credit)
      BY <3>1, <3>3
    <3>5. \A s \in Contest!Slots : R[s] = None /\ R[s] # None => R[s].outcome.contest # {i}
      OBVIOUS
    <3>6. Closed(R, M, i, q, credit)
      BY <3>4, <3>5, ClosedStays
    <3> QED BY <3>1, <3>2, <3>3, <3>6
  <2> QED BY <2>1, <2>2 DEF QuestionOK
<1>5. \A s \in Contest!Slots : SlotOK(s)'
  BY <1>2 DEF ContestInv, SlotOK
<1>6. /\ \A i, j \in Asked : contests[i].state = "open" /\ contests[j].state = "open" => i = j
      /\ \A i \in 1 .. QuestionLimit :
           (i \in Asked => contests[i].state # "completed") => \A r \in Twins : credits[i][r] = 0
  BY DEF ContestInv
<1> QED BY <1>2, <1>3, <1>4, <1>5, <1>6 DEF ContestInv

LEMMA NoteAdmitted ==
  ASSUME ContestInv, NEW author \in Twins, NEW kind \in {"entry", "vote", "withdraw"},
         NEW entry \in Nat \cup {None}, Contest!validate_showing_room_note(author, kind, entry)
  PROVE  ContestInv'
<1>1. ContestTyped /\ now \in Nat
  BY AskedDomain DEF ContestInv
<1> DEFINE d == [author |-> author, kind |-> kind, entry |-> entry, at |-> now, removed |-> FALSE]
<1>2. /\ Contest!LocksFree /\ Len(notes) < NoteLimit /\ draft' = d
      /\ UNCHANGED <<now, notes, contests, runs, credits, control, controls, open, call, answers>>
  BY DEF Contest!validate_showing_room_note
<1>3. d \in Note /\ d.at = now
  BY <1>1 DEF Note
<1> HIDE DEF d
<1>4. controls' \in 0 .. ControlLimit /\ notes' \in Seq(Note) /\ Len(notes') <= NoteLimit
  BY <1>1, <1>2 DEF ContestTyped
<1> QED BY <1>2, <1>3, <1>4, ContestNotes

LEMMA NoteCommits ==
  ASSUME ContestInv, NEW commits \in BOOLEAN, Contest!NoteEnds(commits)
  PROVE  ContestInv'
<1>1. /\ ContestTyped /\ notes \in Seq(Note) /\ Len(notes) \in Nat /\ NoteLimit \in Nat
      /\ DOMAIN notes = 1 .. Len(notes)
  BY AskedDomain, ContestClock DEF ContestInv, ContestTyped
<1>2. /\ draft # None /\ draft' = None /\ notes' = IF commits THEN Append(notes, draft) ELSE notes
      /\ UNCHANGED <<now, contests, runs, credits, control, controls, open, call, answers>>
  BY DEF Contest!NoteEnds
<1>3. draft \in Note /\ Len(notes) < NoteLimit
  BY <1>1, <1>2 DEF ContestTyped
<1>4. /\ notes' \in Seq(Note) /\ Len(notes') <= NoteLimit
      /\ \A n \in DOMAIN notes : n \in DOMAIN notes' /\ notes'[n] = notes[n]
      /\ \A n \in DOMAIN notes' \ DOMAIN notes : draft # None /\ notes'[n] = draft
  BY <1>1, <1>2, <1>3
<1>5. controls' \in 0 .. ControlLimit
  BY <1>1, <1>2 DEF ContestTyped
<1> QED BY <1>2, <1>4, <1>5, ContestNotes

LEMMA NoteRemoved ==
  ASSUME ContestInv, NEW n \in DOMAIN notes, Contest!Remove(n)
  PROVE  ContestInv'
<1>1. /\ ContestTyped /\ notes \in Seq(Note) /\ controls \in Nat /\ ControlLimit \in Nat
      /\ notes[n] \in Note
  BY AskedDomain, ContestClock DEF ContestInv, ContestTyped
<1>2. /\ controls < ControlLimit /\ controls' = controls + 1
      /\ UNCHANGED <<now, draft, contests, runs, credits, control, open, call, answers>>
  BY DEF Contest!Remove
<1> DEFINE d == [notes[n] EXCEPT !.removed = TRUE]
<1>3. notes' = [notes EXCEPT ![n] = d]
  BY DEF Contest!Remove
<1>4. d \in Note
  BY <1>1, Zenon DEF Note
<1>5. d.at = notes[n].at /\ d.author = notes[n].author
  BY <1>1 DEF Note
<1> HIDE DEF d
<1>6. /\ notes' \in Seq(Note) /\ Len(notes') = Len(notes) /\ DOMAIN notes' = DOMAIN notes
      /\ \A m \in DOMAIN notes : notes'[m].at = notes[m].at /\ notes'[m].author = notes[m].author
  BY <1>1, <1>3, <1>4, <1>5
<1>7. /\ controls' \in 0 .. ControlLimit /\ Len(notes') <= NoteLimit
      /\ draft' # None => draft' \in Note /\ Len(notes') < NoteLimit
  BY <1>1, <1>2, <1>6 DEF ContestTyped
<1> QED BY <1>2, <1>6, <1>7, ContestNotes

\* The queue changes under the locks: a question is added, or one that waits is cancelled.
LEMMA ContestQueue ==
  ASSUME ContestInv, Contest!addShowingRoomContest \/ \E i \in DOMAIN contests : Contest!editShowingRoomContest(i)
  PROVE  ContestInv'
<1>1. /\ ContestTyped /\ contests \in Seq(Waiting \cup Opened) /\ Len(contests) \in Nat
      /\ QuestionLimit \in Nat /\ controls \in Nat /\ ControlLimit \in Nat /\ now \in Nat
      /\ DOMAIN contests = Asked
      /\ \A i \in Asked : contests[i] \in Waiting \cup Opened
      /\ \A i \in Asked : contests[i].state = "queued" => contests[i] \in Waiting
  BY AskedDomain, ContestClock DEF ContestInv, ContestTyped
<1>2. UNCHANGED <<now, notes, draft, runs, credits, control, open, call, answers>>
  BY DEF Contest!addShowingRoomContest, Contest!editShowingRoomContest
<1>3. /\ contests' \in Seq(Waiting \cup Opened) /\ Len(contests') <= QuestionLimit
      /\ controls' \in 0 .. ControlLimit
      /\ \A j \in Asked : (contests'[j] = contests[j])
                           \/ (contests[j].state = "queued" /\ contests'[j].state = "cancelled")
      /\ Asked \subseteq Asked'
      /\ \A i \in Asked' \ Asked : contests'[i].state = "queued"
  <2>1. CASE Contest!addShowingRoomContest
    <3>1. /\ Len(contests) < QuestionLimit /\ contests' = Append(contests, Contest!Queued) /\ controls' = controls
      BY <2>1 DEF Contest!addShowingRoomContest
    <3>2. Contest!Queued \in Waiting \cup Opened /\ Contest!Queued.state = "queued"
      BY DEF Contest!Queued, Waiting
    <3>3. /\ contests' \in Seq(Waiting \cup Opened) /\ Len(contests') = Len(contests) + 1
          /\ contests'[Len(contests) + 1] = Contest!Queued
          /\ \A i \in 1 .. Len(contests) : contests'[i] = contests[i]
      BY <1>1, <3>1, <3>2
    <3>4. Asked' = 1 .. (Len(contests) + 1) /\ Asked = 1 .. Len(contests)
      BY <3>3 DEF Asked
    <3>5. \A i \in Asked' \ Asked : i = Len(contests) + 1
      BY <1>1, <3>4
    <3>6. Len(contests') <= QuestionLimit /\ controls' \in 0 .. ControlLimit /\ Asked \subseteq Asked'
      BY <1>1, <3>1, <3>3, <3>4 DEF ContestTyped
    <3> QED BY <3>2, <3>3, <3>4, <3>5, <3>6
  <2>2. ASSUME NEW i \in DOMAIN contests, Contest!editShowingRoomContest(i)
        PROVE  <1>3!:
    <3>1. /\ controls < ControlLimit /\ controls' = controls + 1 /\ contests[i].state = "queued"
          /\ contests' = [contests EXCEPT ![i].state = "cancelled"]
      BY <2>2 DEF Contest!editShowingRoomContest, Contest!QueuedQuestion
    <3>2. PICK q : q = [contests[i] EXCEPT !.state = "cancelled"]
      OBVIOUS
    <3>3. contests' = [contests EXCEPT ![i] = q]
      BY <3>1, <3>2
    <3>4. q \in Waiting /\ q.state = "cancelled"
      BY <1>1, <3>1, <3>2 DEF Waiting
    <3>5. /\ contests' \in Seq(Waiting \cup Opened) /\ Len(contests') = Len(contests)
          /\ contests'[i] = q /\ \A j \in Asked : j # i => contests'[j] = contests[j]
      BY <1>1, <3>3, <3>4
    <3>6. Asked' = Asked
      BY <3>5 DEF Asked
    <3>7. Len(contests') <= QuestionLimit /\ controls' \in 0 .. ControlLimit
      BY <1>1, <3>1, <3>5 DEF ContestTyped
    <3> QED BY <3>1, <3>4, <3>5, <3>6, <3>7
  <2> QED BY <2>1, <2>2
<1>4. ContestTyped'
  BY <1>1, <1>2, <1>3 DEF ContestTyped
<1>5. LocksOK'
  BY <1>2 DEF ContestInv, LocksOK
<1>6. ASSUME NEW i \in Asked'
      PROVE  QuestionOK(i)'
  <2>1. CASE i \in Asked /\ contests'[i] = contests[i]
    <3>1. QuestionOK(i)
      BY <2>1 DEF ContestInv
    <3> QED BY <1>2, <2>1, <3>1 DEF QuestionOK
  <2>2. CASE contests'[i].state \in {"queued", "cancelled"}
    BY <2>2 DEF QuestionOK
  <2> QED BY <1>3, <2>1, <2>2
<1>7. ASSUME NEW s \in Contest!Slots
      PROVE  SlotOK(s)'
  <2>1. SlotOK(s)
    BY DEF ContestInv
  <2>2. \A i \in Asked : contests[i].state = "completed" => i \in Asked' /\ contests'[i].state = "completed"
    BY <1>3
  <2> QED BY <1>2, <2>1, <2>2 DEF SlotOK
<1>8. \A i, j \in Asked' : contests'[i].state = "open" /\ contests'[j].state = "open" => i = j
  BY <1>3 DEF ContestInv
<1>9. \A i \in 1 .. QuestionLimit :
        (i \in Asked' => contests'[i].state # "completed") => \A r \in Twins : credits'[i][r] = 0
  BY <1>2, <1>3 DEF ContestInv
<1> QED BY <1>4, <1>5, <1>6, <1>7, <1>8, <1>9 DEF ContestInv


\* The count of a question reads its notes; an author wins with one entry at most.
LEMMA CountedOnce ==
  ASSUME ContestTyped, NEW c \in Opened, NEW count, count = Contest!countShowingRoom(c)
  PROVE  /\ count \in Count /\ count.read = NotesOf(notes, c) /\ count.winners \subseteq DOMAIN notes
         /\ \A r \in Twins : Cardinality({e \in count.winners : notes[e].author = r})
                               = IF r \in {notes[e].author : e \in count.winners} THEN 1 ELSE 0
<1>1. DOMAIN notes \subseteq Nat
  BY AskedDomain
<1>2. Contest!Eligible(c) \subseteq DOMAIN notes /\ Contest!ballotRecords(c) \subseteq DOMAIN notes
  BY DEF Contest!Eligible, Contest!selectEntries, Contest!Latest, Contest!Of, Contest!ballotRecords
<1>3. Contest!Winners(c) \subseteq Contest!Eligible(c)
  BY DEF Contest!Winners
<1>4. {n \in DOMAIN notes : Contest!InScope(c, n, c.votes)} = NotesOf(notes, c)
  BY DEF Contest!InScope, NotesOf
<1>5. /\ count = [read |-> NotesOf(notes, c), entries |-> Contest!Eligible(c),
                  ballots |-> Contest!ballotRecords(c), winners |-> Contest!Winners(c)]
      /\ NotesOf(notes, c) \subseteq DOMAIN notes
  BY <1>4 DEF Contest!countShowingRoom, NotesOf
<1>6. count \in Count /\ count.read = NotesOf(notes, c) /\ count.winners = Contest!Winners(c)
  BY <1>1, <1>2, <1>3, <1>5 DEF Count
<1>7. \A e, f \in count.winners : notes[e].author = notes[f].author => e = f
  <2> SUFFICES ASSUME NEW e \in count.winners, NEW f \in count.winners, notes[e].author = notes[f].author
               PROVE  e = f
    OBVIOUS
  <2>1. e \in Contest!selectEntries(c) /\ f \in Contest!selectEntries(c)
    BY <1>3, <1>6 DEF Contest!Eligible
  <2>2. e <= f /\ f <= e
    BY <2>1 DEF Contest!selectEntries, Contest!Latest
  <2>3. e \in Nat /\ f \in Nat
    BY <1>1, <1>2, <1>3, <1>6
  <2> QED BY <2>2, <2>3
<1>8. ASSUME NEW r \in Twins
      PROVE  Cardinality({e \in count.winners : notes[e].author = r})
               = IF r \in {notes[e].author : e \in count.winners} THEN 1 ELSE 0
  <2>1. CASE r \in {notes[e].author : e \in count.winners}
    <3>1. PICK e \in count.winners : notes[e].author = r
      BY <2>1
    <3>2. {f \in count.winners : notes[f].author = r} = {e}
      BY <1>7, <3>1
    <3> QED BY <2>1, <3>2, FS_Singleton
  <2>2. CASE r \notin {notes[e].author : e \in count.winners}
    <3>1. {f \in count.winners : notes[f].author = r} = {}
      BY <2>2
    <3> QED BY <2>2, <3>1, FS_EmptySet
  <2> QED BY <2>1, <2>2
<1> QED BY <1>2, <1>3, <1>6, <1>8

\* What a run at a slot leaves when it commits: it closes what is open, for the slot
\* where that question ends, and may open a question that waits.
RunDone(slot, original, closing, next, late, count, paid) ==
  LET outcome == [slot |-> original, contest |-> closing, next |-> next, late |-> late]
  IN  /\ closing = {i \in Asked : contests[i].state = "open"}
      /\ closing = {} => original = slot /\ count = None
      /\ \A i \in closing : /\ closing = {i} /\ original = contests[i].votes /\ original <= slot
                            /\ count = Contest!countShowingRoom(contests[i])
                            /\ paid = {notes[e].author : e \in count.winners}
      /\ \A i \in next : next = {i} /\ contests[i].state = "queued"
      /\ runs[slot] = None /\ runs[original] = None /\ slot <= now
      /\ contests' = [i \in Asked |->
           IF i \in closing THEN [contests[i] EXCEPT !.state = "completed"]
           ELSE IF i \in next
                THEN [state |-> "open", opened |-> now, rules |-> Len(notes),
                      entries |-> slot + Entering, votes |-> slot + Week]
                ELSE contests[i]]
      /\ credits' = [i \in DOMAIN credits |-> [r \in Twins |->
           IF i \in closing /\ r \in paid THEN credits[i][r] + 1 ELSE credits[i][r]]]
      /\ runs' = [s \in Contest!Slots |-> IF s \in {slot, original}
           THEN [outcome |-> outcome, count |-> count, recovery |-> s # original] ELSE runs[s]]
      /\ control' = [control EXCEPT !.failure = None]

LEMMA RunPerforms ==
  ASSUME ContestInv, NEW w \in Runs, Contest!InTime(w), Contest!performRun(w)
  PROVE  \E original \in Contest!Slots : \E closing, next \in SUBSET Asked : \E late \in BOOLEAN :
           \E count, paid : RunDone(call[w].slot, original, closing, next, late, count, paid)
<1>1. /\ ContestTyped /\ call[w].pc = "counting" /\ call[w] \in Counting
      /\ runs[call[w].slot] = None /\ call[w].slot <= now
  BY CallStages DEF ContestInv, ContestTyped, LocksOK, Contest!InTime
<1>2. /\ DOMAIN contests = Asked /\ Asked \subseteq Nat
  BY <1>1, AskedDomain, ContestClock
<1>3. PICK slot, late, closing, queued :
        /\ slot = call[w].slot /\ late = call[w].late
        /\ closing = Contest!OpenQuestion /\ queued = Contest!QueuedQuestion
  OBVIOUS
<1>4. PICK next : next = IF late \/ queued = {} THEN {} ELSE {Contest!Min(queued)}
  OBVIOUS
<1>5. PICK original : original = IF closing = {} THEN slot ELSE contests[Contest!Min(closing)].votes
  OBVIOUS
<1>6. PICK count : count = IF closing = {} THEN None
                           ELSE Contest!countShowingRoom(contests[Contest!Min(closing)])
  OBVIOUS
<1>7. PICK paid : paid = IF closing = {} THEN {} ELSE {notes[e].author : e \in count.winners}
  OBVIOUS
<1>8. /\ slot \in Contest!Slots /\ slot \in Nat /\ late \in BOOLEAN
      /\ runs[slot] = None /\ slot <= now
  BY <1>1, <1>3, SlotNumbers DEF Counting
<1>9. /\ closing = {i \in Asked : contests[i].state = "open"}
      /\ queued = {i \in Asked : contests[i].state = "queued"}
  BY <1>2, <1>3 DEF Contest!OpenQuestion, Contest!QueuedQuestion
<1>10. \A i \in next : next = {i} /\ i \in Asked /\ contests[i].state = "queued"
  <2> SUFFICES ASSUME NEW i \in next
               PROVE  next = {i} /\ i \in Asked /\ contests[i].state = "queued"
    OBVIOUS
  <2>1. queued # {} /\ i = Contest!Min(queued) /\ next = {i}
    BY <1>4
  <2>2. \E x \in queued : \A y \in queued : x <= y
    BY <1>2, <1>9, <2>1, LeastNat
  <2>3. i \in queued
    BY <2>1, <2>2 DEF Contest!Min
  <2> QED BY <1>9, <2>1, <2>3
<1>11. ASSUME NEW i \in closing
       PROVE  /\ closing = {i} /\ original = contests[i].votes /\ original \in Contest!Slots /\ original <= slot
              /\ count = Contest!countShowingRoom(contests[i])
              /\ paid = {notes[e].author : e \in count.winners}
  <2>1. i \in Asked /\ contests[i].state = "open" /\ i \in Nat
    BY <1>2, <1>9
  <2>2. closing = {i}
    BY <1>9, <2>1 DEF ContestInv
  <2>3. Contest!Min({i}) = i
    BY <2>1 DEF Contest!Min
  <2>4. original = contests[i].votes /\ count = Contest!countShowingRoom(contests[i])
        /\ paid = {notes[e].author : e \in count.winners}
    BY <1>5, <1>6, <1>7, <2>2, <2>3
  <2>5. PICK k \in Nat : contests[i].votes = Week * k
    BY <2>1 DEF ContestInv, QuestionOK
  <2>6. contests[i].votes <= slot
    <3>1. ~(contests[i].votes > slot)
      BY <1>3 DEF Contest!InTime, Contest!ClosesLater
    <3>2. contests[i].votes \in Nat
      BY <1>1, <2>1, AskedDomain DEF Opened
    <3> QED BY <1>8, <3>1, <3>2
  <2>7. original \in Contest!Slots
    BY <1>8, <2>4, <2>5, <2>6, SlotNumbers
  <2> QED BY <2>2, <2>4, <2>6, <2>7
<1>12. original \in Contest!Slots /\ (closing = {} => original = slot /\ count = None)
  BY <1>5, <1>6, <1>8, <1>11
<1>13. /\ runs[original] = None
       /\ contests' = [i \in Asked |->
            IF i \in closing THEN [contests[i] EXCEPT !.state = "completed"]
            ELSE IF i \in next
                 THEN [state |-> "open", opened |-> now, rules |-> Len(notes),
                       entries |-> slot + Entering, votes |-> slot + Week]
                 ELSE contests[i]]
       /\ credits' = [i \in DOMAIN credits |-> [r \in Twins |->
            IF i \in closing /\ r \in paid THEN credits[i][r] + 1 ELSE credits[i][r]]]
       /\ runs' = [s \in Contest!Slots |-> IF s \in {slot, original}
            THEN [outcome |-> [slot |-> original, contest |-> closing, next |-> next, late |-> late],
                  count |-> count, recovery |-> s # original] ELSE runs[s]]
       /\ control' = [control EXCEPT !.failure = None]
  BY <1>2, <1>3, <1>4, <1>5, <1>6, <1>7 DEF Contest!performRun
<1>14. closing \in SUBSET Asked /\ next \in SUBSET Asked
  BY <1>9, <1>10
<1>15. RunDone(slot, original, closing, next, late, count, paid)
  BY <1>8, <1>9, <1>10, <1>11, <1>12, <1>13 DEF RunDone
<1> QED BY <1>3, <1>8, <1>12, <1>14, <1>15


\* Where such a run leaves the questions.
RunTurns(slot, closing, next) ==
  /\ contests' \in Seq(Waiting \cup Opened) /\ Len(contests') = Len(contests)
  /\ \A i \in Asked :
       /\ i \in closing =>
            /\ contests[i].state = "open" /\ contests'[i].state = "completed"
            /\ contests[i] \in Opened /\ contests'[i].rules = contests[i].rules
            /\ contests'[i].opened = contests[i].opened /\ contests'[i].votes = contests[i].votes
       /\ i \in next =>
            /\ next = {i} /\ contests[i].state = "queued" /\ contests'[i].state = "open"
            /\ contests'[i].votes = slot + Week
       /\ i \notin closing \cup next => contests'[i] = contests[i] /\ contests[i].state # "open"

LEMMA RunQuestions ==
  ASSUME ContestInv, NEW slot \in Contest!Slots, NEW original \in Contest!Slots,
         NEW closing \in SUBSET Asked, NEW next \in SUBSET Asked, NEW late \in BOOLEAN,
         NEW count, NEW paid, RunDone(slot, original, closing, next, late, count, paid)
  PROVE  RunTurns(slot, closing, next)
<1>1. /\ ContestTyped /\ Len(contests) \in Nat /\ now \in Nat /\ slot \in Nat
      /\ Len(notes) \in Nat /\ Week \in Nat /\ Entering \in Nat
      /\ \A i \in Asked : contests[i] \in Waiting \cup Opened
  BY AskedDomain, SlotNumbers, ContestClock DEF ContestInv
<1> DEFINE q == [state |-> "open", opened |-> now, rules |-> Len(notes),
                 entries |-> slot + Entering, votes |-> slot + Week]
           C == [i \in Asked |-> IF i \in closing THEN [contests[i] EXCEPT !.state = "completed"]
                                 ELSE IF i \in next THEN q ELSE contests[i]]
<1>2. /\ contests' = C /\ closing = {i \in Asked : contests[i].state = "open"}
      /\ \A i \in next : next = {i} /\ contests[i].state = "queued"
  BY DEF RunDone
<1>3. q \in Opened /\ q.state = "open" /\ q.votes = slot + Week
  BY <1>1 DEF Opened
<1> HIDE DEF q
<1>4. ASSUME NEW i \in Asked
      PROVE  /\ C[i] \in Waiting \cup Opened
             /\ i \in closing =>
                  /\ C[i].state = "completed" /\ contests[i] \in Opened /\ C[i].rules = contests[i].rules
                  /\ C[i].opened = contests[i].opened /\ C[i].votes = contests[i].votes
             /\ i \in next => C[i] = q
             /\ i \notin closing \cup next => C[i] = contests[i]
  <2>1. CASE i \in closing
    <3>1. contests[i] \in Opened /\ C[i] = [contests[i] EXCEPT !.state = "completed"] /\ i \notin next
      BY <1>1, <1>2, <2>1, AskedDomain
    <3>2. C[i] \in Opened
      BY <3>1, Zenon DEF Opened
    <3>3. /\ C[i].state = "completed" /\ C[i].rules = contests[i].rules
          /\ C[i].opened = contests[i].opened /\ C[i].votes = contests[i].votes
      BY <3>1 DEF Opened
    <3> QED BY <2>1, <3>1, <3>2, <3>3
  <2>2. CASE i \notin closing
    BY <1>1, <1>3, <2>2
  <2> QED BY <2>1, <2>2
<1>5. C \in [1 .. Len(contests) -> Waiting \cup Opened]
  BY <1>4 DEF Asked
<1> HIDE DEF C
<1>6. C \in Seq(Waiting \cup Opened) /\ Len(C) = Len(contests)
  BY <1>1, <1>5
<1>7. \A i \in next : i \in Asked /\ i \notin closing
  BY <1>2
<1> QED BY <1>2, <1>3, <1>4, <1>6, <1>7 DEF RunTurns

LEMMA RunResults ==
  ASSUME ContestInv, NEW slot \in Contest!Slots, NEW original \in Contest!Slots,
         NEW closing \in SUBSET Asked, NEW next \in SUBSET Asked, NEW late \in BOOLEAN,
         NEW count, NEW paid, RunDone(slot, original, closing, next, late, count, paid)
  PROVE  /\ runs' \in [Contest!Slots -> RunResult \cup {None}]
         /\ \A s \in Contest!Slots : runs[s] # None => runs'[s] = runs[s]
         /\ \A s \in Contest!Slots : runs[s] = None /\ runs'[s] # None =>
              /\ s \in {slot, original} /\ runs'[s].outcome.contest = closing
              /\ runs'[s].recovery = (s # original) /\ runs'[s].count = count
         /\ runs'[slot] # None /\ runs'[original] # None
<1>1. /\ ContestTyped /\ Asked \subseteq Nat /\ Contest!Slots \subseteq Nat /\ None \notin RunResult
  BY AskedDomain, SlotNumbers, ContestClock DEF ContestInv
<1>2. count \in {None} \cup Count
  <2>1. CASE closing = {}
    BY <2>1 DEF RunDone
  <2>2. CASE closing # {}
    <3>1. PICK i \in closing : TRUE
      BY <2>2
    <3>2. i \in Asked /\ contests[i].state = "open" /\ count = Contest!countShowingRoom(contests[i])
      BY <3>1 DEF RunDone
    <3>3. contests[i] \in Opened
      BY <1>1, <3>2, AskedDomain
    <3> QED BY <1>1, <3>2, <3>3, CountedOnce
  <2> QED BY <2>1, <2>2
<1> DEFINE outcome == [slot |-> original, contest |-> closing, next |-> next, late |-> late]
           result(s) == [outcome |-> outcome, count |-> count, recovery |-> s # original]
<1>3. /\ runs' = [s \in Contest!Slots |-> IF s \in {slot, original} THEN result(s) ELSE runs[s]]
      /\ runs[slot] = None /\ runs[original] = None
  BY DEF RunDone
<1>4. outcome \in RunOutcome /\ outcome.contest = closing
  BY <1>1 DEF RunOutcome
<1> HIDE DEF outcome
<1>5. \A s \in Contest!Slots :
        /\ result(s) \in RunResult /\ result(s).outcome.contest = closing
        /\ result(s).recovery = (s # original) /\ result(s).count = count
  BY <1>2, <1>4 DEF RunResult
<1> HIDE DEF result
<1> QED BY <1>1, <1>3, <1>5 DEF ContestTyped


\* A run commits under the locks, and its call ends or tries again.
LEMMA RunCommits ==
  ASSUME ContestInv, NEW slot \in Contest!Slots, NEW original \in Contest!Slots,
         NEW closing \in SUBSET Asked, NEW next \in SUBSET Asked, NEW late \in BOOLEAN,
         NEW count, NEW paid, RunDone(slot, original, closing, next, late, count, paid),
         UNCHANGED <<now, notes, draft, controls, open>>, draft = None,
         call' \in [Runs -> CallState], \A v \in Runs : call'[v].pc # "counting",
         \/ answers' = answers
         \/ answers' = [answers EXCEPT ![slot] = answers[slot] \cup {runs'[slot].outcome}]
  PROVE  ContestInv'
<1>1. /\ ContestTyped /\ Asked' = Asked /\ slot \in Nat /\ now \in Nat /\ Week \in Nat
      /\ original \in Nat /\ Asked \subseteq 1 .. QuestionLimit
      /\ runs[slot] = None /\ runs[original] = None /\ slot <= now
      /\ closing = {i \in Asked : contests[i].state = "open"}
      /\ \A i \in closing : closing = {i} /\ original = contests[i].votes /\ original <= slot
  BY RunQuestions, AskedDomain, SlotNumbers, ContestClock DEF ContestInv, Asked, RunDone
<1>2. /\ contests' \in Seq(Waiting \cup Opened) /\ Len(contests') = Len(contests)
      /\ \A i \in closing :
           /\ contests'[i].state = "completed" /\ contests[i] \in Opened
           /\ contests'[i].rules = contests[i].rules /\ contests'[i].opened = contests[i].opened
           /\ contests'[i].votes = contests[i].votes
      /\ \A i \in next : /\ next = {i} /\ contests[i].state = "queued" /\ contests'[i].state = "open"
                         /\ contests'[i].votes = slot + Week
      /\ \A i \in Asked : i \notin closing \cup next => contests'[i] = contests[i] /\ contests[i].state # "open"
  <2>1. RunTurns(slot, closing, next)
    BY RunQuestions
  <2>2. \A i \in closing \cup next : i \in Asked
    OBVIOUS
  <2> HIDE DEF Asked
  <2> QED BY <2>1, <2>2 DEF RunTurns
<1>3. /\ runs' \in [Contest!Slots -> RunResult \cup {None}]
      /\ \A s \in Contest!Slots : runs[s] # None => runs'[s] = runs[s]
      /\ \A s \in Contest!Slots : runs[s] = None /\ runs'[s] # None =>
           /\ s \in {slot, original} /\ runs'[s].outcome.contest = closing
           /\ runs'[s].recovery = (s # original) /\ runs'[s].count = count
      /\ runs'[slot] # None /\ runs'[original] # None
  BY RunResults
<1>4. control' \in [paused : BOOLEAN, failure : Failure \cup {None}] /\ control'.failure = None
  <2>1. control \in [paused : BOOLEAN, failure : Failure \cup {None}]
    BY <1>1 DEF ContestTyped
  <2>2. control' = [control EXCEPT !.failure = None]
    BY DEF RunDone
  <2> QED BY <2>1, <2>2
<1>5. /\ credits' \in [1 .. QuestionLimit -> [Twins -> Nat]]
      /\ \A i \in 1 .. QuestionLimit : \A r \in Twins :
           credits'[i][r] = IF i \in closing /\ r \in paid THEN credits[i][r] + 1 ELSE credits[i][r]
      /\ \A i \in 1 .. QuestionLimit : i \notin closing => credits'[i] = credits[i]
  <2>1. credits \in [1 .. QuestionLimit -> [Twins -> Nat]]
    BY <1>1 DEF ContestTyped
  <2>2. credits' = [i \in 1 .. QuestionLimit |-> [r \in Twins |->
          IF i \in closing /\ r \in paid THEN credits[i][r] + 1 ELSE credits[i][r]]]
    BY <2>1 DEF RunDone
  <2> QED BY <2>1, <2>2
<1>6. answers' \in [Contest!Slots -> SUBSET RunOutcome]
  <2>1. answers \in [Contest!Slots -> SUBSET RunOutcome]
    BY <1>1 DEF ContestTyped
  <2>2. runs'[slot] \in RunResult
    BY <1>3
  <2>3. runs'[slot].outcome \in RunOutcome
    BY <2>2 DEF RunResult
  <2> QED BY <2>1, <2>3
<1>7. ContestTyped'
  <2>1. /\ now \in 0 .. ContestTime /\ controls \in 0 .. ControlLimit /\ open \in BOOLEAN
        /\ notes \in Seq(Note) /\ Len(notes) <= NoteLimit /\ Len(contests) <= QuestionLimit
    BY <1>1 DEF ContestTyped
  <2> QED BY <1>2, <1>3, <1>4, <1>5, <1>6, <2>1 DEF ContestTyped
<1>8. LocksOK'
  BY DEF LocksOK
<1>9. ASSUME NEW i \in Asked
      PROVE  QuestionOK(i)'
  <2>1. CASE i \in closing
    <3>1. contests'[i].votes <= now /\ contests'[i].state = "completed"
      BY <1>1, <1>2, <2>1
    <3>2. Closed(runs', notes, i, contests'[i], credits'[i])
      <4>1. runs'[original] # None /\ runs'[original].outcome.contest = {i} /\ ~runs'[original].recovery
        BY <1>1, <1>3, <2>1
      <4>2. \A s \in Contest!Slots : runs[s] # None => runs[s].outcome.contest # {i}
        <5>1. contests[i].state = "open"
          BY <1>1, <2>1
        <5> QED BY <5>1 DEF ContestInv, SlotOK
      <4>3. \A t \in Contest!Slots \ {original} :
              runs'[t] # None /\ runs'[t].outcome.contest = {i} => runs'[t].recovery
        BY <1>3, <4>2
      <4>4. /\ runs'[original].count = count /\ count = Contest!countShowingRoom(contests[i])
            /\ paid = {notes[e].author : e \in count.winners}
        BY <1>1, <1>3, <2>1 DEF RunDone
      <4>5. /\ count.winners \subseteq DOMAIN notes /\ count.read = NotesOf(notes, contests[i])
            /\ \A r \in Twins : Cardinality({e \in count.winners : notes[e].author = r})
                                  = IF r \in {notes[e].author : e \in count.winners} THEN 1 ELSE 0
        BY <1>1, <1>2, <2>1, <4>4, CountedOnce
      <4>6. \A r \in Twins : credits[i][r] = 0
        BY <1>1, <2>1 DEF ContestInv
      <4>7. \A r \in Twins :
              credits'[i][r] = Cardinality({e \in count.winners : notes[e].author = r})
        BY <1>1, <1>5, <2>1, <4>4, <4>5, <4>6
      <4>8. NotesOf(notes, contests'[i]) = NotesOf(notes, contests[i])
        BY <1>2, <2>1 DEF NotesOf
      <4> QED BY <4>1, <4>3, <4>4, <4>5, <4>7, <4>8 DEF Closed
    <3> QED BY <1>1, <3>1, <3>2 DEF QuestionOK
  <2>2. CASE i \in next
    <3>1. \E k \in Nat : contests'[i].votes = Week * k
      <4>1. slot + Week \in Nat /\ \E k \in Nat : slot = Week * k
        <5>1. PICK k \in 0 .. (ContestTime \div Week) : slot = Week * k
          BY DEF Contest!Slots
        <5> QED BY <1>1, <5>1
      <4>2. PICK k \in Nat : slot = Week * k
        BY <4>1
      <4>3. slot + Week = Week * (k + 1) /\ k + 1 \in Nat
        BY <1>1, <4>2
      <4> QED BY <1>2, <2>2, <4>3
    <3>2. contests'[i].state = "open"
      BY <1>2, <2>2
    <3> QED BY <3>1, <3>2 DEF QuestionOK
  <2>3. CASE i \notin closing \cup next
    <3>1. contests'[i] = contests[i] /\ contests[i].state # "open" /\ QuestionOK(i)
      BY <1>2, <2>3 DEF ContestInv
    <3>2. ASSUME contests[i].state = "completed"
          PROVE  contests[i].votes <= now /\ Closed(runs', notes, i, contests[i], credits'[i])
      <4>1. contests[i] \in Opened /\ contests[i].votes <= now /\ Closed(runs, notes, i, contests[i], credits[i])
        BY <1>1, <3>1, <3>2, QuestionStays DEF QuestionOK
      <4>2. credits'[i] = credits[i]
        BY <1>1, <1>5, <2>3
      <4>3. PICK R, S, q, credit : R = runs /\ S = runs' /\ q = contests[i] /\ credit = credits[i]
        OBVIOUS
      <4>4. closing # {i}
        BY <2>3
      <4>5. /\ \A s \in Contest!Slots : R[s] # None => S[s] = R[s]
            /\ \A s \in Contest!Slots : R[s] = None /\ S[s] # None => S[s].outcome.contest # {i}
        BY <1>3, <4>3, <4>4
      <4>6. q \in Opened /\ Closed(R, notes, i, q, credit)
        BY <4>1, <4>3
      <4>7. Closed(S, notes, i, q, credit)
        BY <4>5, <4>6, ClosedStays
      <4> QED BY <4>1, <4>2, <4>3, <4>7
    <3> QED BY <3>1, <3>2 DEF QuestionOK
  <2> QED BY <2>1, <2>2, <2>3
<1>10. ASSUME NEW i \in Asked, NEW j \in Asked, contests'[i].state = "open", contests'[j].state = "open"
       PROVE  i = j
  <2>1. i \in next /\ j \in next
    BY <1>2, <1>10
  <2> QED BY <1>2, <2>1
<1>11. ASSUME NEW i \in 1 .. QuestionLimit, i \in Asked => contests'[i].state # "completed", NEW r \in Twins
       PROVE  credits'[i][r] = 0
  <2>1. i \notin closing
    BY <1>2, <1>11
  <2>2. i \in Asked => contests[i].state # "completed"
    BY <1>2, <1>11, <2>1
  <2>3. credits[i][r] = 0
    BY <2>2 DEF ContestInv
  <2> QED BY <1>5, <2>1, <2>3
<1>12. ASSUME NEW s \in Contest!Slots
       PROVE  SlotOK(s)'
  <2>1. SlotOK(s) /\ answers[s] \in SUBSET RunOutcome
    BY <1>1 DEF ContestInv, ContestTyped
  <2>2. \A i \in Asked : contests[i].state = "completed" => contests'[i].state = "completed"
    BY <1>1, <1>2
  <2>3. runs'[s] = None => answers'[s] = {}
    <3>1. s # slot \/ runs'[s] # None
      BY <1>3
    <3>2. s # slot => answers'[s] = answers[s]
      BY <1>1 DEF ContestTyped
    <3>3. runs'[s] = None => runs[s] = None
      BY <1>3
    <3> QED BY <2>1, <3>1, <3>2, <3>3 DEF SlotOK
  <2>4. runs'[s] # None => \A i \in runs'[s].outcome.contest : i \in Asked /\ contests'[i].state = "completed"
    <3>1. runs[s] # None => \A i \in runs[s].outcome.contest : i \in Asked /\ contests'[i].state = "completed"
      BY <2>1, <2>2 DEF SlotOK
    <3>2. runs[s] = None /\ runs'[s] # None => \A i \in runs'[s].outcome.contest : i \in Asked /\ contests'[i].state = "completed"
      BY <1>2, <1>3
    <3> QED BY <1>3, <3>1, <3>2
  <2>5. runs'[s] # None => answers'[s] \subseteq {runs'[s].outcome}
    <3>1. answers[s] \subseteq {runs'[s].outcome}
      BY <1>3, <2>1 DEF SlotOK
    <3>2. answers'[s] \subseteq answers[s] \cup {runs'[s].outcome}
      <4>1. s = slot => answers'[s] \subseteq answers[s] \cup {runs'[s].outcome}
        BY <1>1 DEF ContestTyped
      <4>2. s # slot => answers'[s] = answers[s]
        BY <1>1 DEF ContestTyped
      <4> QED BY <4>1, <4>2
    <3> QED BY <3>1, <3>2
  <2> QED BY <1>1, <1>4, <2>3, <2>4, <2>5 DEF SlotOK
<1> QED BY <1>1, <1>7, <1>8, <1>9, <1>10, <1>11, <1>12 DEF ContestInv


LEMMA RunCompletes ==
  ASSUME ContestInv, NEW w \in Runs, NEW answered \in BOOLEAN, Contest!CompleteRun(w, answered)
  PROVE  ContestInv'
<1>1. /\ Contest!InTime(w) /\ Contest!performRun(w) /\ UNCHANGED <<now, notes, draft, controls, open>>
      /\ \/ Contest!Answer(w, call[w].slot, runs'[call[w].slot].outcome)
         \/ (Contest!Again(w, call[w].forced) \/ Contest!Failing(w, "unavailable")) /\ answers' = answers
  BY DEF Contest!CompleteRun
<1>2. /\ call \in [Runs -> CallState] /\ call[w].pc = "counting" /\ draft = None
      /\ \A v \in Runs : v # w => call[v].pc # "counting"
  BY <1>1 DEF ContestInv, ContestTyped, LocksOK, Contest!InTime
<1>3. call[w] \in Counting /\ Contest!Idle \in CallState /\ Contest!Idle.pc # "counting"
  BY <1>2, CallAgain
<1>4. call[w].slot \in Contest!Slots /\ call[w].forced \in BOOLEAN
  BY <1>3 DEF Counting
<1>5. \E c \in CallState : call' = [call EXCEPT ![w] = c] /\ c.pc # "counting"
  <2>1. CASE Contest!Answer(w, call[w].slot, runs'[call[w].slot].outcome)
    BY <1>3, <2>1 DEF Contest!Answer
  <2>2. CASE Contest!Again(w, call[w].forced) \/ Contest!Failing(w, "unavailable")
    BY <1>2, <1>4, <2>2, CallAgain
  <2> QED BY <1>1, <2>1, <2>2
<1>6. call' \in [Runs -> CallState] /\ \A v \in Runs : call'[v].pc # "counting"
  BY <1>2, <1>5
<1>7. PICK slot : slot = call[w].slot
  OBVIOUS
<1>8. \/ answers' = answers
      \/ answers' = [answers EXCEPT ![slot] = answers[slot] \cup {runs'[slot].outcome}]
  BY <1>1, <1>7 DEF Contest!Answer
<1>9. PICK original \in Contest!Slots : \E closing, next \in SUBSET Asked : \E late \in BOOLEAN :
        \E count, paid : RunDone(slot, original, closing, next, late, count, paid)
  BY <1>1, <1>7, RunPerforms
<1>10. PICK closing \in SUBSET Asked, next \in SUBSET Asked, late \in BOOLEAN :
         \E count, paid : RunDone(slot, original, closing, next, late, count, paid)
  BY <1>9
<1>11. PICK count, paid : RunDone(slot, original, closing, next, late, count, paid)
  BY <1>10
<1> QED BY <1>1, <1>2, <1>4, <1>6, <1>7, <1>8, <1>11, RunCommits

LEMMA ContestSteps ==
  ASSUME ContestInv, Contest!Next
  PROVE  ContestInv'
<1>1. CASE \E r \in Twins :
             \/ Contest!validate_showing_room_note(r, "entry", None)
             \/ \E n \in {m \in DOMAIN notes : notes[m].kind = "entry"} : \E kind \in {"vote", "withdraw"} :
                  Contest!validate_showing_room_note(r, kind, n)
  <2>1. DOMAIN notes \subseteq Nat
    BY AskedDomain DEF ContestInv
  <2>2. PICK r \in Twins : \E kind \in {"entry", "vote", "withdraw"}, entry \in Nat \cup {None} :
          Contest!validate_showing_room_note(r, kind, entry)
    BY <1>1, <2>1
  <2> QED BY <2>2, NoteAdmitted
<1>2. CASE \E commits \in BOOLEAN : Contest!NoteEnds(commits)
  BY <1>2, NoteCommits
<1>3. CASE \E n \in DOMAIN notes : Contest!Remove(n)
  BY <1>3, NoteRemoved
<1>4. CASE \E w \in Runs : Contest!runShowingRoomClose(w) \/ Contest!Retry(w)
  BY <1>4, ContestAttempts
<1>5. CASE \E w \in Runs : \/ Contest!DeadlineCrossed(w) \/ Contest!CountFails(w) \/ Contest!CommitLost(w)
                           \/ Contest!RetryFails(w) \/ Contest!recordFailure(w) \/ Contest!Dies(w)
  BY <1>5, ContestFails
<1>6. CASE \E w \in Runs : \E answered \in BOOLEAN : Contest!CompleteRun(w, answered)
  BY <1>6, RunCompletes
<1>7. CASE Contest!addShowingRoomContest \/ \E i \in DOMAIN contests : Contest!editShowingRoomContest(i)
  BY <1>7, ContestQueue
<1>8. CASE Contest!controlShowingRoom \/ Contest!EditRoom \/ Contest!Tick
  BY <1>8, ContestControls
<1> QED BY <1>1, <1>2, <1>3, <1>4, <1>5, <1>6, <1>7, <1>8 DEF Contest!Next

LEMMA ContestMeans ==
  ASSUME ContestInv
  PROVE  Contest!ClosedExactly /\ Contest!TypeOK
<1>1. /\ ContestTyped /\ DOMAIN contests = Asked
      /\ \A i \in Asked : contests[i] \in Waiting \cup Opened
  BY AskedDomain DEF ContestInv
<1>2. ASSUME NEW i \in DOMAIN contests, contests[i].state = "completed"
      PROVE  \E s \in Contest!Slots :
               /\ runs[s] # None /\ runs[s].outcome.contest = {i} /\ ~runs[s].recovery
               /\ \A t \in Contest!Slots \ {s} : runs[t] # None /\ runs[t].outcome.contest = {i} => runs[t].recovery
               /\ runs[s].count.read = {n \in DOMAIN notes : Contest!InScope(contests[i], n, contests[i].votes)}
               /\ \A r \in Twins : credits[i][r] = Contest!Cardinality({e \in runs[s].count.winners : notes[e].author = r})
  <2>1. Closed(runs, notes, i, contests[i], credits[i])
    BY <1>1, <1>2 DEF ContestInv, QuestionOK
  <2>2. NotesOf(notes, contests[i]) = {n \in DOMAIN notes : Contest!InScope(contests[i], n, contests[i].votes)}
    BY DEF NotesOf, Contest!InScope
  <2> QED BY <2>1, <2>2, ContestCounts DEF Closed
<1>3. \A s \in Contest!Slots : runs[s] # None =>
        /\ answers[s] \subseteq {runs[s].outcome}
        /\ control.failure # None => control.failure.slot # s
  BY DEF ContestInv, SlotOK
<1>4. Contest!ClosedExactly
  BY <1>2, <1>3 DEF Contest!ClosedExactly
<1>5. Contest!Cardinality(Contest!OpenQuestion) <= 1
  <2>1. \A i, j \in Contest!OpenQuestion : i = j
    BY <1>1 DEF ContestInv, Contest!OpenQuestion
  <2>2. CASE Contest!OpenQuestion = {}
    BY <2>2, FS_EmptySet, ContestCounts
  <2>3. CASE \E i : Contest!OpenQuestion = {i}
    <3>1. PICK i : Contest!OpenQuestion = {i}
      BY <2>3
    <3>2. Contest!Cardinality({i}) = 1
      BY FS_Singleton, ContestCounts
    <3> QED BY <3>1, <3>2
  <2> QED BY <2>1, <2>2, <2>3
<1>6. \A i \in DOMAIN contests : contests[i].state \in {"queued", "open", "completed", "cancelled"}
  BY <1>1 DEF Waiting, Opened
<1>7. \A w \in Runs : call[w].pc \in {"idle", "counting", "retry", "failing"}
  BY <1>1, CallStages DEF ContestTyped
<1>8. control.paused \in BOOLEAN
  BY <1>1 DEF ContestTyped
<1>9. Contest!TypeOK
  BY <1>1, <1>5, <1>6, <1>7, <1>8 DEF Contest!TypeOK, ContestTyped
<1> QED BY <1>4, <1>9

CloseInv == part = "contest" => ContestInv

LEMMA CloseHolds == RoomsSpec => []CloseInv
<1>1. RoomsInit => CloseInv
  BY ContestStarts DEF RoomsInit, TalkInit, WorkInit, CloseInv
<1>2. CloseInv /\ [RoomsNext]_roomVars => CloseInv'
  <2> SUFFICES ASSUME CloseInv, [RoomsNext]_roomVars, part' = "contest"
               PROVE  ContestInv'
    BY DEF CloseInv
  <2>1. part = "contest" /\ ContestInv
    BY DEF RoomsNext, roomVars, CloseInv
  <2>2. CASE Contest!Next
    BY <2>1, <2>2, ContestSteps
  <2>3. CASE UNCHANGED <<now, contestVars>>
    <3>1. /\ UNCHANGED <<notes, draft, contests, runs, credits>>
          /\ UNCHANGED <<now, control, controls, open, call, answers>>
      BY <2>3 DEF contestVars
    <3>2. /\ ContestTyped /\ now \in 0 .. ContestTime /\ now \in Nat /\ controls \in 0 .. ControlLimit
          /\ open \in BOOLEAN /\ control \in [paused : BOOLEAN, failure : Failure \cup {None}]
          /\ call \in [Runs -> CallState] /\ answers \in [Contest!Slots -> SUBSET RunOutcome]
      BY <2>1, AskedDomain DEF ContestInv, ContestTyped
    <3>3. FailureStands /\ AnswersStand /\ CountsAlone
      BY <3>1 DEF FailureStands, AnswersStand, CountsAlone
    <3>4. now' \in 0 .. ContestTime /\ now' >= now /\ controls' \in 0 .. ControlLimit /\ open' \in BOOLEAN
      BY <3>1, <3>2
    <3> QED BY <2>1, <3>1, <3>2, <3>3, <3>4, ContestRests
  <2> QED BY <2>1, <2>2, <2>3 DEF RoomsNext, TalkNext, WorkNext, roomVars
<1> QED BY <1>1, <1>2, PTL DEF RoomsSpec

\* A question that closed has one result over exactly its notes and pays its winners
\* once; a slot with a result gives that answer and hides no failure.
THEOREM ClosedHolds == RoomsSpec => []ClosedExactly
<1>1. CloseInv => ClosedExactly
  BY ContestMeans DEF CloseInv, ClosedExactly
<1> QED BY <1>1, CloseHolds, PTL

-----------------------------------------------------------------------------
(* The types of the components                                             *)

Longest == IF HoldTicks > CueTicks THEN HoldTicks ELSE CueTicks
WaitCuts(n) == [line : 0 .. n, ping : 0 .. n]
WaitRecord(k, n) ==
  [pc : {"idle", "open", "read", "release", "answer", "done", "dead"},
   lease : 0 .. k, place : Rooms \cup {None}, left : 0 .. Longest, start : WaitCuts(n),
   line : 0 .. n, ping : 0 .. n, nextLine : 0 .. n, nextPing : 0 .. n,
   todo : SUBSET {"lines", "pings", "lease"}, lines : SUBSET (1 .. n), pings : SUBSET (1 .. n),
   still : {"here", "moved", "replaced"}, shut : BOOLEAN, stayed : BOOLEAN,
   reason : {"none", "moved", "replaced", "change", "closed", "timeout", "failed", "refused"}]
LeaseRecord(k, m) ==
  [id : 0 .. k, place : Rooms \cup {None}, arrived : 0 .. m + 1, left : 0 .. Longest]
WriteRecord(n) == [id : 0 .. n, entry : Reading!Entries \cup {Reading!NoEntry}]
Taken(W) == {c \in W : wait[c].lease # 0}

\* The waits W of a resident who moves m times among writers V of n changes: a wait takes
\* one lease, when it opens.
WaitsTyped(W, V, n, m) ==
  /\ presence \in [place : Rooms, arrived : 1 .. m + 1]
  /\ change \in 0 .. n
  /\ log \in [1 .. n -> Reading!Entries \cup {Reading!NoEntry}]
  /\ writing \in [V -> WriteRecord(n)]
  /\ lease \in LeaseRecord(Cardinality(W), m)
  /\ nextLease = Cardinality(Taken(W)) + 1
  /\ wait \in [W -> WaitRecord(Cardinality(W), n)]
  /\ \A c \in W : wait[c].pc \in {"idle", "open"} => wait[c].lease = 0
  /\ client \in WaitCuts(n)

\* The edits of a wait keep its type.
LEMMA WaitEdits ==
  ASSUME NEW k \in Nat, NEW n \in Nat, NEW w \in WaitRecord(k, n)
  PROVE  /\ \A from \in WaitCuts(n) :
              [w EXCEPT !.pc = "open", !.start = from, !.line = from.line, !.ping = from.ping]
                \in WaitRecord(k, n)
         /\ [w EXCEPT !.pc = "done", !.reason = "refused"] \in WaitRecord(k, n)
         /\ \A l \in 0 .. k : \A p \in Rooms :
              [w EXCEPT !.pc = "read", !.lease = l, !.place = p, !.left = HoldTicks,
                        !.todo = {"lines", "pings", "lease"}] \in WaitRecord(k, n)
         /\ \A S \in SUBSET (1 .. n) : \A b \in 0 .. n :
              /\ [w EXCEPT !.todo = w.todo \ {"lines"}, !.lines = S, !.nextLine = b] \in WaitRecord(k, n)
              /\ [w EXCEPT !.todo = w.todo \ {"pings"}, !.pings = S, !.nextPing = b] \in WaitRecord(k, n)
         /\ \A s \in {"here", "moved", "replaced"} :
              [w EXCEPT !.todo = w.todo \ {"lease"}, !.still = s] \in WaitRecord(k, n)
         /\ [w EXCEPT !.line = w.nextLine, !.ping = w.nextPing, !.nextLine = 0, !.nextPing = 0,
                      !.todo = {"lines", "pings", "lease"}] \in WaitRecord(k, n)
         /\ \A r \in {"moved", "replaced", "change", "closed", "timeout", "failed"} :
              [w EXCEPT !.pc = "release", !.reason = r] \in WaitRecord(k, n)
         /\ [w EXCEPT !.pc = "answer"] \in WaitRecord(k, n)
         /\ [w EXCEPT !.shut = TRUE] \in WaitRecord(k, n)
         /\ [w EXCEPT !.stayed = FALSE] \in WaitRecord(k, n)
         /\ \A t \in 0 .. Longest : [w EXCEPT !.left = t] \in WaitRecord(k, n)
<1>1. HoldTicks \in 0 .. Longest
  BY WaitAssumption DEF Longest
<1>2. ASSUME NEW from \in WaitCuts(n)
      PROVE  [w EXCEPT !.pc = "open", !.start = from, !.line = from.line, !.ping = from.ping]
               \in WaitRecord(k, n)
  <2>1. from.line \in 0 .. n /\ from.ping \in 0 .. n
    BY DEF WaitCuts
  <2> QED BY <2>1 DEF WaitRecord
<1>3. [w EXCEPT !.pc = "done", !.reason = "refused"] \in WaitRecord(k, n)
  BY DEF WaitRecord
<1>4. ASSUME NEW l \in 0 .. k, NEW p \in Rooms
      PROVE  [w EXCEPT !.pc = "read", !.lease = l, !.place = p, !.left = HoldTicks,
                       !.todo = {"lines", "pings", "lease"}] \in WaitRecord(k, n)
  BY <1>1 DEF WaitRecord
<1>5. ASSUME NEW S \in SUBSET (1 .. n), NEW b \in 0 .. n
      PROVE  /\ [w EXCEPT !.todo = w.todo \ {"lines"}, !.lines = S, !.nextLine = b] \in WaitRecord(k, n)
             /\ [w EXCEPT !.todo = w.todo \ {"pings"}, !.pings = S, !.nextPing = b] \in WaitRecord(k, n)
  BY DEF WaitRecord
<1>6. ASSUME NEW s \in {"here", "moved", "replaced"}
      PROVE  [w EXCEPT !.todo = w.todo \ {"lease"}, !.still = s] \in WaitRecord(k, n)
  BY DEF WaitRecord
<1>7. [w EXCEPT !.line = w.nextLine, !.ping = w.nextPing, !.nextLine = 0, !.nextPing = 0,
                !.todo = {"lines", "pings", "lease"}] \in WaitRecord(k, n)
  <2>1. w.nextLine \in 0 .. n /\ w.nextPing \in 0 .. n /\ 0 \in 0 .. n
    BY DEF WaitRecord
  <2> QED BY <2>1 DEF WaitRecord
<1>8. ASSUME NEW r \in {"moved", "replaced", "change", "closed", "timeout", "failed"}
      PROVE  [w EXCEPT !.pc = "release", !.reason = r] \in WaitRecord(k, n)
  BY DEF WaitRecord
<1>9. /\ [w EXCEPT !.pc = "answer"] \in WaitRecord(k, n)
      /\ [w EXCEPT !.shut = TRUE] \in WaitRecord(k, n)
      /\ [w EXCEPT !.stayed = FALSE] \in WaitRecord(k, n)
      /\ \A t \in 0 .. Longest : [w EXCEPT !.left = t] \in WaitRecord(k, n)
  BY DEF WaitRecord
<1> QED BY Zenon, <1>2, <1>3, <1>4, <1>5, <1>6, <1>7, <1>8, <1>9

\* A step of one wait that takes no lease.
LEMMA WaitsTurn ==
  ASSUME NEW W, NEW V, NEW n, NEW m, WaitsTyped(W, V, n, m), NEW c \in W, NEW w,
         w \in WaitRecord(Cardinality(W), n), w.lease = wait[c].lease,
         w.pc \in {"idle", "open"} => wait[c].pc \in {"idle", "open"},
         wait' = [wait EXCEPT ![c] = w],
         lease' \in LeaseRecord(Cardinality(W), m), client' \in WaitCuts(n),
         UNCHANGED <<presence, change, log, writing, nextLease>>
  PROVE  WaitsTyped(W, V, n, m)'
<1>1. wait \in [W -> WaitRecord(Cardinality(W), n)]
  BY DEF WaitsTyped
<1>2. /\ wait' \in [W -> WaitRecord(Cardinality(W), n)] /\ wait'[c] = w
      /\ \A e \in W : e # c => wait'[e] = wait[e]
  BY <1>1
<1>3. \A e \in W : wait'[e].lease = wait[e].lease
  BY <1>2
<1>4. Taken(W)' = Taken(W)
  BY <1>3 DEF Taken
<1>5. \A e \in W : wait'[e].pc \in {"idle", "open"} => wait'[e].lease = 0
  BY <1>2, <1>3 DEF WaitsTyped
<1> QED BY <1>2, <1>4, <1>5 DEF WaitsTyped

\* A wait opens and takes the next lease; no more are taken than there are waits.
LEMMA WaitsTake ==
  ASSUME NEW W, NEW V, NEW n \in Nat, NEW m \in Nat, IsFiniteSet(W), WaitsTyped(W, V, n, m), NEW c \in W,
         wait[c].pc = "open", UNCHANGED <<presence, change, log, writing, client>>,
         lease' = [id |-> nextLease, place |-> presence.place, arrived |-> presence.arrived, left |-> HoldTicks],
         nextLease' = nextLease + 1,
         wait' = [wait EXCEPT ![c] = [wait[c] EXCEPT !.pc = "read", !.lease = nextLease,
                    !.place = presence.place, !.left = HoldTicks, !.todo = {"lines", "pings", "lease"}]]
  PROVE  WaitsTyped(W, V, n, m)'
<1> DEFINE k == Cardinality(W)
           w == [wait[c] EXCEPT !.pc = "read", !.lease = nextLease, !.place = presence.place,
                   !.left = HoldTicks, !.todo = {"lines", "pings", "lease"}]
<1>1. /\ wait \in [W -> WaitRecord(k, n)] /\ wait[c].lease = 0 /\ nextLease = Cardinality(Taken(W)) + 1
      /\ presence \in [place : Rooms, arrived : 1 .. m + 1] /\ wait[c] \in WaitRecord(k, n)
  BY DEF WaitsTyped
<1>2. /\ IsFiniteSet(Taken(W)) /\ Cardinality(Taken(W)) \in Nat /\ k \in Nat
      /\ Cardinality(Taken(W) \cup {c}) = Cardinality(Taken(W)) + 1
      /\ Cardinality(Taken(W) \cup {c}) <= k
  <2>1. c \notin Taken(W) /\ Taken(W) \subseteq W /\ Taken(W) \cup {c} \subseteq W
    BY <1>1 DEF Taken
  <2> QED BY <2>1, FS_Subset, FS_AddElement, FS_CardinalityType
<1>3. nextLease \in 0 .. k /\ nextLease # 0
  BY <1>1, <1>2
<1>4. presence.place \in Rooms /\ presence.arrived \in 0 .. m + 1 /\ HoldTicks \in 0 .. Longest
  BY <1>1, WaitAssumption DEF Longest
<1>5. lease' \in LeaseRecord(k, m)
  BY <1>3, <1>4 DEF LeaseRecord
<1>6. w \in WaitRecord(k, n)
  <2>1. PICK v, l, p : v = wait[c] /\ l = nextLease /\ p = presence.place
    OBVIOUS
  <2>2. v \in WaitRecord(k, n) /\ l \in 0 .. k /\ p \in Rooms
    BY <1>1, <1>3, <1>4, <2>1
  <2>3. [v EXCEPT !.pc = "read", !.lease = l, !.place = p, !.left = HoldTicks,
                  !.todo = {"lines", "pings", "lease"}] \in WaitRecord(k, n)
    BY Zenon, <1>2, <2>2, WaitEdits
  <2> QED BY <2>1, <2>3
<1>7. w.lease = nextLease /\ w.pc = "read"
  BY <1>1 DEF WaitRecord
<1> HIDE DEF k, w
<1>8. /\ wait' \in [W -> WaitRecord(k, n)] /\ wait'[c] = w
      /\ \A e \in W : e # c => wait'[e] = wait[e]
  BY <1>1, <1>6 DEF w
<1>9. Taken(W)' = Taken(W) \cup {c}
  BY <1>3, <1>7, <1>8 DEF Taken
<1>10. nextLease' = Cardinality(Taken(W)') + 1
  BY <1>1, <1>2, <1>9
<1>11. \A e \in W : wait'[e].pc \in {"idle", "open"} => wait'[e].lease = 0
  BY <1>7, <1>8 DEF WaitsTyped
<1> QED BY <1>5, <1>8, <1>10, <1>11 DEF WaitsTyped, k

\* The resident moves, or a tick passes: every wait of it is edited.
LEMMA WaitsAll ==
  ASSUME NEW W, NEW V, NEW n, NEW m, WaitsTyped(W, V, n, m),
         DOMAIN wait' = W, wait' = [c \in W |-> wait'[c]],
         \A c \in W : /\ wait'[c] \in WaitRecord(Cardinality(W), n)
                      /\ wait'[c].lease = wait[c].lease /\ wait'[c].pc = wait[c].pc,
         presence' \in [place : Rooms, arrived : 1 .. m + 1],
         lease' \in LeaseRecord(Cardinality(W), m),
         UNCHANGED <<change, log, writing, nextLease, client>>
  PROVE  WaitsTyped(W, V, n, m)'
<1>1. wait' \in [W -> WaitRecord(Cardinality(W), n)]
  OBVIOUS
<1>2. Taken(W)' = Taken(W)
  BY DEF Taken
<1> QED BY <1>1, <1>2 DEF WaitsTyped

\* A writer draws a change, commits it or gives it up.
LEMMA WaitsWrite ==
  ASSUME NEW W, NEW V, NEW n, NEW m, WaitsTyped(W, V, n, m), NEW v \in V, NEW r \in WriteRecord(n),
         writing' = [writing EXCEPT ![v] = r], change' \in 0 .. n,
         log' \in [1 .. n -> Reading!Entries \cup {Reading!NoEntry}],
         UNCHANGED <<presence, lease, nextLease, wait, client>>
  PROVE  WaitsTyped(W, V, n, m)'
<1>1. Taken(W)' = Taken(W)
  BY DEF Taken
<1>2. writing' \in [V -> WriteRecord(n)]
  BY DEF WaitsTyped
<1> QED BY <1>1, <1>2 DEF WaitsTyped


ReadTyped == WaitsTyped(Alone, Twins, ChangeLimit, 0)
LeaseTyped == WaitsTyped(Twins, Alone, 0, WalkLimit)

\* A page holds changes there are, and the next cursor is one of them.
LEMMA ReadFinds ==
  ASSUME ReadTyped, ReadInv, NEW c \in Alone, wait[c].pc = "read"
  PROVE  /\ Reading!Page(wait[c].line, Reading!LinesAt(wait[c].place), LinePage)
              \ Reading!Muted(Reading!LinesAt(wait[c].place)) \in SUBSET (1 .. ChangeLimit)
         /\ Reading!NextCursor(wait[c].line, Reading!LinesAt(wait[c].place), LinePage) \in 0 .. ChangeLimit
         /\ Reading!Page(wait[c].ping, Reading!PingsToMe, PingPage) \in SUBSET (1 .. ChangeLimit)
         /\ Reading!NextCursor(wait[c].ping, Reading!PingsToMe, PingPage) \in 0 .. ChangeLimit
<1>1. /\ wait[c].line \in 0 .. change /\ wait[c].ping \in 0 .. change /\ change \in Nat
      /\ change \in 0 .. ChangeLimit /\ ChangeLimit \in Nat
  BY WaitAssumption DEF ReadInv, ReadOK, TurnOK, LogInv, ReadTyped, WaitsTyped
<1>2. PICK a, e, p : a = wait[c].line /\ e = wait[c].ping /\ p = wait[c].place
  OBVIOUS
<1>3. a \in 0 .. change /\ e \in 0 .. change
  BY <1>1, <1>2
<1>4. Reading!NextCursor(a, Reading!LinesAt(p), LinePage) \in a .. change
  BY <1>1, <1>3, LinesRead
<1>5. Reading!NextCursor(e, Reading!PingsToMe, PingPage) \in e .. change
  BY <1>1, <1>3, PingsRead
<1>6. /\ Reading!Page(a, Reading!LinesAt(p), LinePage) \subseteq 1 .. ChangeLimit
      /\ Reading!Page(e, Reading!PingsToMe, PingPage) \subseteq 1 .. ChangeLimit
  BY DEF Reading!Page, Reading!After, Reading!LinesAt, Reading!PingsToMe, Reading!Ids
<1>7. \A x \in 0 .. change : \A b \in x .. change : b \in 0 .. ChangeLimit
  BY <1>1
<1> QED BY <1>2, <1>3, <1>4, <1>5, <1>6, <1>7

\* Without changes there is nothing to find.
LEMMA LeaseFinds ==
  ASSUME LeaseTyped, NEW c \in Twins, wait[c].pc = "read"
  PROVE  /\ Leases!Page(wait[c].line, Leases!LinesAt(wait[c].place), LinePage)
              \ Leases!Muted(Leases!LinesAt(wait[c].place)) \in SUBSET (1 .. 0)
         /\ Leases!NextCursor(wait[c].line, Leases!LinesAt(wait[c].place), LinePage) \in 0 .. 0
         /\ Leases!Page(wait[c].ping, Leases!PingsToMe, PingPage) \in SUBSET (1 .. 0)
         /\ Leases!NextCursor(wait[c].ping, Leases!PingsToMe, PingPage) \in 0 .. 0
<1>1. Leases!Cardinality({}) = 0
  BY FS_EmptySet DEF Leases!Cardinality, Cardinality
<1>2. \A p : Leases!LinesAt(p) = {} /\ Leases!PingsToMe = {}
  BY DEF Leases!LinesAt, Leases!PingsToMe, Leases!Ids
<1>3. \A a : Leases!After(a, {}) = {}
  BY DEF Leases!After
<1>4. \A a, max : Leases!Page(a, {}, max) = {}
  BY <1>3 DEF Leases!Page
<1>5. \A a : \A max \in Nat : Leases!NextCursor(a, {}, max) = change
  BY <1>1, <1>3 DEF Leases!NextCursor
<1>6. change \in 0 .. 0 /\ LinePage \in Nat /\ PingPage \in Nat
  BY WaitAssumption DEF LeaseTyped, WaitsTyped
<1> QED BY <1>2, <1>4, <1>5, <1>6

LEMMA ReadBlank ==
  ASSUME NEW k \in Nat, NEW n \in Nat
  PROVE  Reading!NoWait \in WaitRecord(k, n)
<1>1. PICK zero : zero = [line |-> 0, ping |-> 0]
  OBVIOUS
<1>2. zero \in WaitCuts(n)
  BY <1>1 DEF WaitCuts
<1>3. Reading!NoWait = [pc |-> "idle", lease |-> 0, place |-> None, left |-> 0, start |-> zero,
        line |-> 0, ping |-> 0, nextLine |-> 0, nextPing |-> 0, todo |-> {}, lines |-> {}, pings |-> {},
        still |-> "here", shut |-> FALSE, stayed |-> TRUE, reason |-> "none"]
  BY <1>1, SMT DEF Reading!NoWait
<1>4. 0 \in 0 .. k /\ 0 \in 0 .. n /\ 0 \in 0 .. Longest
  BY WaitAssumption DEF Longest
<1> QED BY <1>2, <1>3, <1>4 DEF WaitRecord

\* A request of one wait among writers keeps the types.
LEMMA ReadEdits ==
  ASSUME ReadTyped, ReadInv, NEW c \in Alone,
         \/ Reading!WaitHere(c) \/ Reading!Step(c)
         \/ Reading!ReadFails(c) \/ Reading!ConnectionCloses(c) \/ Reading!Dies(c)
  PROVE  ReadTyped'
<1> DEFINE k == Cardinality(Alone)
<1>1. /\ k \in Nat /\ IsFiniteSet(Alone) /\ ChangeLimit \in Nat /\ 0 \in Nat
      /\ wait \in [Alone -> WaitRecord(k, ChangeLimit)] /\ wait[c] \in WaitRecord(k, ChangeLimit)
      /\ lease \in LeaseRecord(k, 0) /\ client \in WaitCuts(ChangeLimit)
      /\ change \in 0 .. ChangeLimit /\ HoldTicks \in 0 .. Longest /\ CueTicks \in 0 .. Longest
      /\ WaitsTyped(Alone, Twins, ChangeLimit, 0)
  BY WaitAssumption, FS_CardinalityType DEF ReadTyped, WaitsTyped, Longest
<1>2. PICK v : v = wait[c]
  OBVIOUS
<1>3. v \in WaitRecord(k, ChangeLimit)
  BY <1>1, <1>2
<1> HIDE DEF k
\* An edit that leaves all but the wait, its lease and the cursors of the client.
<1>4. ASSUME NEW w, w \in WaitRecord(k, ChangeLimit), w.lease = v.lease,
             w.pc \in {"idle", "open"} => v.pc \in {"idle", "open"},
             wait' = [wait EXCEPT ![c] = w],
             lease' \in LeaseRecord(k, 0), client' \in WaitCuts(ChangeLimit),
             UNCHANGED <<presence, change, log, writing, nextLease>>
      PROVE  ReadTyped'
  BY <1>1, <1>2, <1>4, WaitsTurn DEF ReadTyped, k
<1>5. CASE Reading!WaitHere(c)
  <2>1. PICK from \in {[line |-> change, ping |-> change], client} :
          wait' = [wait EXCEPT ![c].pc = "open", ![c].start = from, ![c].line = from.line, ![c].ping = from.ping]
    BY Zenon, <1>5 DEF Reading!WaitHere
  <2> DEFINE w == [v EXCEPT !.pc = "open", !.start = from, !.line = from.line, !.ping = from.ping]
  <2>2. from \in WaitCuts(ChangeLimit)
    BY <1>1 DEF WaitCuts
  <2>3. w \in WaitRecord(k, ChangeLimit)
    BY Zenon, <1>1, <1>3, <2>2, WaitEdits
  <2>4. wait' = [wait EXCEPT ![c] = w] /\ w.lease = v.lease /\ v.pc = "idle"
    BY <1>1, <1>2, <1>3, <1>5, <2>1 DEF Reading!WaitHere, WaitRecord
  <2> HIDE DEF w
  <2> QED BY <1>1, <1>4, <1>5, <2>3, <2>4 DEF Reading!WaitHere
<1>6. CASE Reading!openWait(c)
  <2>1. CASE wait' = [wait EXCEPT ![c].pc = "done", ![c].reason = "refused"] /\ UNCHANGED <<lease, nextLease>>
    <3> DEFINE w == [v EXCEPT !.pc = "done", !.reason = "refused"]
    <3>1. w \in WaitRecord(k, ChangeLimit)
      BY Zenon, <1>1, <1>3, WaitEdits
    <3>2. wait' = [wait EXCEPT ![c] = w] /\ w.lease = v.lease /\ w.pc = "done"
      BY <1>1, <1>2, <1>3, <2>1 DEF WaitRecord
    <3> HIDE DEF w
    <3> QED BY <1>1, <1>4, <1>6, <2>1, <3>1, <3>2 DEF Reading!openWait
  <2>2. CASE ~(wait' = [wait EXCEPT ![c].pc = "done", ![c].reason = "refused"] /\ UNCHANGED <<lease, nextLease>>)
    <3>1. /\ wait[c].pc = "open" /\ UNCHANGED <<presence, change, log, writing, client>>
          /\ lease' = [id |-> nextLease, place |-> presence.place, arrived |-> presence.arrived, left |-> HoldTicks]
          /\ nextLease' = nextLease + 1
          /\ wait' = [wait EXCEPT ![c].pc = "read", ![c].lease = nextLease, ![c].place = presence.place,
                        ![c].left = HoldTicks, ![c].todo = {"lines", "pings", "lease"}]
      BY <1>6, <2>2 DEF Reading!openWait
    <3>2. wait' = [wait EXCEPT ![c] = [wait[c] EXCEPT !.pc = "read", !.lease = nextLease,
                     !.place = presence.place, !.left = HoldTicks, !.todo = {"lines", "pings", "lease"}]]
      BY <1>1, <3>1
    <3> QED BY Zenon, <1>1, <3>1, <3>2, WaitsTake DEF ReadTyped
  <2> QED BY <2>1, <2>2
<1>7. CASE Reading!ReadLines(c)
  <2> DEFINE S == Reading!LinesAt(v.place)
             found == Reading!Page(v.line, S, LinePage) \ Reading!Muted(S)
             b == Reading!NextCursor(v.line, S, LinePage)
             w == [v EXCEPT !.todo = v.todo \ {"lines"}, !.lines = found, !.nextLine = b]
  <2>1. found \in SUBSET (1 .. ChangeLimit) /\ b \in 0 .. ChangeLimit
    BY <1>2, <1>7, ReadFinds DEF Reading!ReadLines
  <2>2. w \in WaitRecord(k, ChangeLimit)
    <3> HIDE DEF S, found, b
    <3> QED BY Zenon, <1>1, <1>3, <2>1, WaitEdits
  <2>3. wait' = [wait EXCEPT ![c].todo = v.todo \ {"lines"}, ![c].lines = found, ![c].nextLine = b]
    BY <1>2, <1>7 DEF Reading!ReadLines
  <2> HIDE DEF S, found, b
  <2>4. wait' = [wait EXCEPT ![c] = w] /\ w.lease = v.lease /\ w.pc = v.pc
    BY <1>1, <1>2, <1>3, <2>3 DEF WaitRecord
  <2> HIDE DEF w
  <2> QED BY <1>1, <1>4, <1>7, <2>2, <2>4 DEF Reading!ReadLines
<1>8. CASE Reading!ReadPings(c)
  <2> DEFINE found == Reading!Page(v.ping, Reading!PingsToMe, PingPage)
             b == Reading!NextCursor(v.ping, Reading!PingsToMe, PingPage)
             w == [v EXCEPT !.todo = v.todo \ {"pings"}, !.pings = found, !.nextPing = b]
  <2>1. found \in SUBSET (1 .. ChangeLimit) /\ b \in 0 .. ChangeLimit
    BY <1>2, <1>8, ReadFinds DEF Reading!ReadPings
  <2>2. w \in WaitRecord(k, ChangeLimit)
    <3> HIDE DEF found, b
    <3> QED BY Zenon, <1>1, <1>3, <2>1, WaitEdits
  <2>3. wait' = [wait EXCEPT ![c].todo = v.todo \ {"pings"}, ![c].pings = found, ![c].nextPing = b]
    BY <1>2, <1>8 DEF Reading!ReadPings
  <2> HIDE DEF found, b
  <2>4. wait' = [wait EXCEPT ![c] = w] /\ w.lease = v.lease /\ w.pc = v.pc
    BY <1>1, <1>2, <1>3, <2>3 DEF WaitRecord
  <2> HIDE DEF w
  <2> QED BY <1>1, <1>4, <1>8, <2>2, <2>4 DEF Reading!ReadPings
<1>9. CASE Reading!ReadLease(c)
  <2> DEFINE s == Reading!Still(c)
             w == [v EXCEPT !.todo = v.todo \ {"lease"}, !.still = s]
  <2>1. s \in {"here", "moved", "replaced"}
    BY DEF Reading!Still
  <2>2. wait' = [wait EXCEPT ![c].todo = v.todo \ {"lease"}, ![c].still = s]
    BY <1>2, <1>9 DEF Reading!ReadLease
  <2> HIDE DEF s
  <2>3. w \in WaitRecord(k, ChangeLimit)
    BY Zenon, <1>1, <1>3, <2>1, WaitEdits
  <2>4. wait' = [wait EXCEPT ![c] = w] /\ w.lease = v.lease /\ w.pc = v.pc
    BY <1>1, <1>2, <1>3, <2>2 DEF WaitRecord
  <2> HIDE DEF w
  <2> QED BY <1>1, <1>4, <1>9, <2>3, <2>4 DEF Reading!ReadLease
<1>10. CASE Reading!holdWait(c)
  <2> DEFINE r == Reading!Reason(c)
             w == IF r = "none"
                  THEN [v EXCEPT !.line = v.nextLine, !.ping = v.nextPing, !.nextLine = 0, !.nextPing = 0,
                                 !.todo = {"lines", "pings", "lease"}]
                  ELSE [v EXCEPT !.pc = "release", !.reason = r]
  <2>1. r = "none" \/ r \in {"moved", "replaced", "change", "closed", "timeout", "failed"}
    BY <1>2, <1>3 DEF Reading!Reason, WaitRecord
  <2>2. wait' = [wait EXCEPT ![c] = w] /\ v.pc = "read"
    BY <1>2, <1>10 DEF Reading!holdWait
  <2> HIDE DEF r
  <2>3. w \in WaitRecord(k, ChangeLimit)
    BY Zenon, <1>1, <1>3, <2>1, WaitEdits
  <2>4. w.lease = v.lease /\ w.pc \in {"read", "release"}
    BY <1>3, <2>2 DEF WaitRecord
  <2> HIDE DEF w
  <2> QED BY <1>1, <1>4, <1>10, <2>2, <2>3, <2>4 DEF Reading!holdWait
<1>11. ASSUME NEW pc \in {"done", "dead"}
       PROVE  /\ Reading!Ended(c, pc) \in WaitRecord(k, ChangeLimit) /\ Reading!Ended(c, pc).pc = pc
              /\ Reading!Ended(c, pc).lease = v.lease
  <2>1. v.lease \in 0 .. k /\ v.stayed \in BOOLEAN
        /\ v.reason \in {"none", "moved", "replaced", "change", "closed", "timeout", "failed", "refused"}
    BY <1>3 DEF WaitRecord
  <2>2. Reading!NoWait \in WaitRecord(k, ChangeLimit)
    BY <1>1, ReadBlank
  <2>3. [Reading!NoWait EXCEPT !.pc = pc, !.lease = v.lease, !.stayed = v.stayed, !.reason = v.reason]
          \in WaitRecord(k, ChangeLimit)
    BY <2>1, <2>2 DEF WaitRecord
  <2> QED BY <1>2, <2>2, <2>3 DEF Reading!Ended, WaitRecord
<1>12. CASE Reading!releaseWait(c)
  <2> DEFINE w == IF v.reason = "failed" THEN Reading!Ended(c, "done") ELSE [v EXCEPT !.pc = "answer"]
  <2>1. w \in WaitRecord(k, ChangeLimit) /\ w.lease = v.lease /\ w.pc \in {"done", "answer"}
    <3>1. [v EXCEPT !.pc = "answer"] \in WaitRecord(k, ChangeLimit)
      BY Zenon, <1>1, <1>3, WaitEdits
    <3>2. [v EXCEPT !.pc = "answer"].lease = v.lease /\ [v EXCEPT !.pc = "answer"].pc = "answer"
      BY <1>3 DEF WaitRecord
    <3> QED BY <1>11, <3>1, <3>2
  <2>2. wait' = [wait EXCEPT ![c] = w]
    BY <1>2, <1>12 DEF Reading!releaseWait
  <2> HIDE DEF w
  <2>3. lease' \in LeaseRecord(k, 0)
    <3>1. lease' = lease \/ lease' = [lease EXCEPT !.left = CueTicks] \/ lease' = Reading!NoLease
      BY <1>12 DEF Reading!releaseWait
    <3>2. Reading!NoLease \in LeaseRecord(k, 0)
      BY <1>1 DEF Reading!NoLease, LeaseRecord, Longest
    <3>3. [lease EXCEPT !.left = CueTicks] \in LeaseRecord(k, 0)
      BY <1>1 DEF LeaseRecord
    <3> QED BY <1>1, <3>1, <3>2, <3>3
  <2> QED BY <1>1, <1>4, <1>12, <2>1, <2>2, <2>3 DEF Reading!releaseWait
<1>13. CASE Reading!Answer(c)
  <2>1. client' \in WaitCuts(ChangeLimit)
    <3>1. client' = client \/ client' = [line |-> v.nextLine, ping |-> v.nextPing]
      BY <1>2, <1>13 DEF Reading!Answer
    <3>2. v.nextLine \in 0 .. ChangeLimit /\ v.nextPing \in 0 .. ChangeLimit
      BY <1>3 DEF WaitRecord
    <3> QED BY <1>1, <3>1, <3>2 DEF WaitCuts
  <2>2. wait' = [wait EXCEPT ![c] = Reading!Ended(c, "done")] /\ UNCHANGED <<presence, change, log, writing, lease, nextLease>>
    BY <1>13 DEF Reading!Answer
  <2> QED BY <1>1, <1>4, <1>11, <2>1, <2>2
<1>14. CASE Reading!Dies(c)
  <2>1. /\ wait' = [wait EXCEPT ![c] = Reading!Ended(c, "dead")]
        /\ UNCHANGED <<presence, change, log, writing, lease, nextLease, client>>
    BY <1>14 DEF Reading!Dies
  <2> QED BY <1>1, <1>4, <1>11, <2>1
<1>15. CASE Reading!ReadFails(c)
  <2> DEFINE w == [v EXCEPT !.pc = "release", !.reason = "failed"]
  <2>1. w \in WaitRecord(k, ChangeLimit)
    BY Zenon, <1>1, <1>3, WaitEdits
  <2>2. wait' = [wait EXCEPT ![c] = w] /\ w.lease = v.lease /\ w.pc = "release"
    BY <1>1, <1>2, <1>3, <1>15 DEF Reading!ReadFails, WaitRecord
  <2> HIDE DEF w
  <2> QED BY Zenon, <1>1, <1>4, <1>15, <2>1, <2>2 DEF Reading!ReadFails
<1>16. CASE Reading!ConnectionCloses(c)
  <2> DEFINE w == [v EXCEPT !.shut = TRUE]
  <2>1. w \in WaitRecord(k, ChangeLimit)
    BY Zenon, <1>1, <1>3, WaitEdits
  <2>2. wait' = [wait EXCEPT ![c] = w] /\ w.lease = v.lease /\ w.pc = v.pc
    BY <1>1, <1>2, <1>3, <1>16 DEF Reading!ConnectionCloses, WaitRecord
  <2> HIDE DEF w
  <2> QED BY <1>1, <1>4, <1>16, <2>1, <2>2 DEF Reading!ConnectionCloses
<1> QED BY <1>5, <1>6, <1>7, <1>8, <1>9, <1>10, <1>12, <1>13, <1>14, <1>15, <1>16 DEF Reading!Step

LEMMA LeaseBlank ==
  ASSUME NEW k \in Nat, NEW n \in Nat
  PROVE  Leases!NoWait \in WaitRecord(k, n)
<1>1. PICK zero : zero = [line |-> 0, ping |-> 0]
  OBVIOUS
<1>2. zero \in WaitCuts(n)
  BY <1>1 DEF WaitCuts
<1>3. Leases!NoWait = [pc |-> "idle", lease |-> 0, place |-> None, left |-> 0, start |-> zero,
        line |-> 0, ping |-> 0, nextLine |-> 0, nextPing |-> 0, todo |-> {}, lines |-> {}, pings |-> {},
        still |-> "here", shut |-> FALSE, stayed |-> TRUE, reason |-> "none"]
  BY <1>1, SMT DEF Leases!NoWait
<1>4. 0 \in 0 .. k /\ 0 \in 0 .. n /\ 0 \in 0 .. Longest
  BY WaitAssumption DEF Longest
<1> QED BY <1>2, <1>3, <1>4 DEF WaitRecord

\* A request of the two waits of a resident who moves does too.
LEMMA LeaseEdits ==
  ASSUME LeaseTyped, NEW c \in Twins,
         \/ Leases!WaitHere(c) \/ Leases!Step(c)
         \/ Leases!ReadFails(c) \/ Leases!ConnectionCloses(c) \/ Leases!Dies(c)
  PROVE  LeaseTyped'
<1> DEFINE k == Cardinality(Twins)
<1>1. /\ k \in Nat /\ IsFiniteSet(Twins) /\ 0 \in Nat /\ WalkLimit \in Nat
      /\ wait \in [Twins -> WaitRecord(k, 0)] /\ wait[c] \in WaitRecord(k, 0)
      /\ lease \in LeaseRecord(k, WalkLimit) /\ client \in WaitCuts(0)
      /\ change \in 0 .. 0 /\ HoldTicks \in 0 .. Longest /\ CueTicks \in 0 .. Longest
      /\ WaitsTyped(Twins, Alone, 0, WalkLimit)
  BY WaitAssumption, FS_CardinalityType DEF LeaseTyped, WaitsTyped, Longest
<1>2. PICK v : v = wait[c]
  OBVIOUS
<1>3. v \in WaitRecord(k, 0)
  BY <1>1, <1>2
<1> HIDE DEF k
\* An edit that leaves all but the wait, its lease and the cursors of the client.
<1>4. ASSUME NEW w, w \in WaitRecord(k, 0), w.lease = v.lease,
             w.pc \in {"idle", "open"} => v.pc \in {"idle", "open"},
             wait' = [wait EXCEPT ![c] = w],
             lease' \in LeaseRecord(k, WalkLimit), client' \in WaitCuts(0),
             UNCHANGED <<presence, change, log, writing, nextLease>>
      PROVE  LeaseTyped'
  BY <1>1, <1>2, <1>4, WaitsTurn DEF LeaseTyped, k
<1>5. CASE Leases!WaitHere(c)
  <2>1. PICK from \in {[line |-> change, ping |-> change], client} :
          wait' = [wait EXCEPT ![c].pc = "open", ![c].start = from, ![c].line = from.line, ![c].ping = from.ping]
    BY Zenon, <1>5 DEF Leases!WaitHere
  <2> DEFINE w == [v EXCEPT !.pc = "open", !.start = from, !.line = from.line, !.ping = from.ping]
  <2>2. from \in WaitCuts(0)
    BY <1>1 DEF WaitCuts
  <2>3. w \in WaitRecord(k, 0)
    BY Zenon, <1>1, <1>3, <2>2, WaitEdits
  <2>4. wait' = [wait EXCEPT ![c] = w] /\ w.lease = v.lease /\ v.pc = "idle"
    BY <1>1, <1>2, <1>3, <1>5, <2>1 DEF Leases!WaitHere, WaitRecord
  <2> HIDE DEF w
  <2> QED BY <1>1, <1>4, <1>5, <2>3, <2>4 DEF Leases!WaitHere
<1>6. CASE Leases!openWait(c)
  <2>1. CASE wait' = [wait EXCEPT ![c].pc = "done", ![c].reason = "refused"] /\ UNCHANGED <<lease, nextLease>>
    <3> DEFINE w == [v EXCEPT !.pc = "done", !.reason = "refused"]
    <3>1. w \in WaitRecord(k, 0)
      BY Zenon, <1>1, <1>3, WaitEdits
    <3>2. wait' = [wait EXCEPT ![c] = w] /\ w.lease = v.lease /\ w.pc = "done"
      BY <1>1, <1>2, <1>3, <2>1 DEF WaitRecord
    <3> HIDE DEF w
    <3> QED BY Zenon, <1>1, <1>4, <1>6, <2>1, <3>1, <3>2 DEF Leases!openWait
  <2>2. CASE ~(wait' = [wait EXCEPT ![c].pc = "done", ![c].reason = "refused"] /\ UNCHANGED <<lease, nextLease>>)
    <3>1. /\ wait[c].pc = "open" /\ UNCHANGED <<presence, change, log, writing, client>>
          /\ lease' = [id |-> nextLease, place |-> presence.place, arrived |-> presence.arrived, left |-> HoldTicks]
          /\ nextLease' = nextLease + 1
          /\ wait' = [wait EXCEPT ![c].pc = "read", ![c].lease = nextLease, ![c].place = presence.place,
                        ![c].left = HoldTicks, ![c].todo = {"lines", "pings", "lease"}]
      BY <1>6, <2>2 DEF Leases!openWait
    <3>2. wait' = [wait EXCEPT ![c] = [wait[c] EXCEPT !.pc = "read", !.lease = nextLease,
                     !.place = presence.place, !.left = HoldTicks, !.todo = {"lines", "pings", "lease"}]]
      BY <1>1, <3>1
    <3> QED BY Zenon, <1>1, <3>1, <3>2, WaitsTake DEF LeaseTyped
  <2> QED BY <2>1, <2>2
<1>7. CASE Leases!ReadLines(c)
  <2> DEFINE S == Leases!LinesAt(v.place)
             found == Leases!Page(v.line, S, LinePage) \ Leases!Muted(S)
             b == Leases!NextCursor(v.line, S, LinePage)
             w == [v EXCEPT !.todo = v.todo \ {"lines"}, !.lines = found, !.nextLine = b]
  <2>1. found \in SUBSET (1 .. 0) /\ b \in 0 .. 0
    BY <1>2, <1>7, LeaseFinds DEF Leases!ReadLines
  <2>2. w \in WaitRecord(k, 0)
    <3> HIDE DEF S, found, b
    <3> QED BY Zenon, <1>1, <1>3, <2>1, WaitEdits
  <2>3. wait' = [wait EXCEPT ![c].todo = v.todo \ {"lines"}, ![c].lines = found, ![c].nextLine = b]
    BY <1>2, <1>7 DEF Leases!ReadLines
  <2> HIDE DEF S, found, b
  <2>4. wait' = [wait EXCEPT ![c] = w] /\ w.lease = v.lease /\ w.pc = v.pc
    BY <1>1, <1>2, <1>3, <2>3 DEF WaitRecord
  <2> HIDE DEF w
  <2> QED BY <1>1, <1>4, <1>7, <2>2, <2>4 DEF Leases!ReadLines
<1>8. CASE Leases!ReadPings(c)
  <2> DEFINE found == Leases!Page(v.ping, Leases!PingsToMe, PingPage)
             b == Leases!NextCursor(v.ping, Leases!PingsToMe, PingPage)
             w == [v EXCEPT !.todo = v.todo \ {"pings"}, !.pings = found, !.nextPing = b]
  <2>1. found \in SUBSET (1 .. 0) /\ b \in 0 .. 0
    BY <1>2, <1>8, LeaseFinds DEF Leases!ReadPings
  <2>2. w \in WaitRecord(k, 0)
    <3> HIDE DEF found, b
    <3> QED BY Zenon, <1>1, <1>3, <2>1, WaitEdits
  <2>3. wait' = [wait EXCEPT ![c].todo = v.todo \ {"pings"}, ![c].pings = found, ![c].nextPing = b]
    BY <1>2, <1>8 DEF Leases!ReadPings
  <2> HIDE DEF found, b
  <2>4. wait' = [wait EXCEPT ![c] = w] /\ w.lease = v.lease /\ w.pc = v.pc
    BY <1>1, <1>2, <1>3, <2>3 DEF WaitRecord
  <2> HIDE DEF w
  <2> QED BY <1>1, <1>4, <1>8, <2>2, <2>4 DEF Leases!ReadPings
<1>9. CASE Leases!ReadLease(c)
  <2> DEFINE s == Leases!Still(c)
             w == [v EXCEPT !.todo = v.todo \ {"lease"}, !.still = s]
  <2>1. s \in {"here", "moved", "replaced"}
    BY DEF Leases!Still
  <2>2. wait' = [wait EXCEPT ![c].todo = v.todo \ {"lease"}, ![c].still = s]
    BY <1>2, <1>9 DEF Leases!ReadLease
  <2> HIDE DEF s
  <2>3. w \in WaitRecord(k, 0)
    BY Zenon, <1>1, <1>3, <2>1, WaitEdits
  <2>4. wait' = [wait EXCEPT ![c] = w] /\ w.lease = v.lease /\ w.pc = v.pc
    BY <1>1, <1>2, <1>3, <2>2 DEF WaitRecord
  <2> HIDE DEF w
  <2> QED BY <1>1, <1>4, <1>9, <2>3, <2>4 DEF Leases!ReadLease
<1>10. CASE Leases!holdWait(c)
  <2> DEFINE r == Leases!Reason(c)
             w == IF r = "none"
                  THEN [v EXCEPT !.line = v.nextLine, !.ping = v.nextPing, !.nextLine = 0, !.nextPing = 0,
                                 !.todo = {"lines", "pings", "lease"}]
                  ELSE [v EXCEPT !.pc = "release", !.reason = r]
  <2>1. r = "none" \/ r \in {"moved", "replaced", "change", "closed", "timeout", "failed"}
    BY <1>2, <1>3 DEF Leases!Reason, WaitRecord
  <2>2. wait' = [wait EXCEPT ![c] = w] /\ v.pc = "read"
    BY <1>2, <1>10 DEF Leases!holdWait
  <2> HIDE DEF r
  <2>3. w \in WaitRecord(k, 0)
    BY Zenon, <1>1, <1>3, <2>1, WaitEdits
  <2>4. w.lease = v.lease /\ w.pc \in {"read", "release"}
    BY <1>3, <2>2 DEF WaitRecord
  <2> HIDE DEF w
  <2> QED BY <1>1, <1>4, <1>10, <2>2, <2>3, <2>4 DEF Leases!holdWait
<1>11. ASSUME NEW pc \in {"done", "dead"}
       PROVE  /\ Leases!Ended(c, pc) \in WaitRecord(k, 0) /\ Leases!Ended(c, pc).pc = pc
              /\ Leases!Ended(c, pc).lease = v.lease
  <2>1. v.lease \in 0 .. k /\ v.stayed \in BOOLEAN
        /\ v.reason \in {"none", "moved", "replaced", "change", "closed", "timeout", "failed", "refused"}
    BY <1>3 DEF WaitRecord
  <2>2. Leases!NoWait \in WaitRecord(k, 0)
    BY <1>1, LeaseBlank
  <2>3. [Leases!NoWait EXCEPT !.pc = pc, !.lease = v.lease, !.stayed = v.stayed, !.reason = v.reason]
          \in WaitRecord(k, 0)
    BY <2>1, <2>2 DEF WaitRecord
  <2> QED BY <1>2, <2>2, <2>3 DEF Leases!Ended, WaitRecord
<1>12. CASE Leases!releaseWait(c)
  <2> DEFINE w == IF v.reason = "failed" THEN Leases!Ended(c, "done") ELSE [v EXCEPT !.pc = "answer"]
  <2>1. w \in WaitRecord(k, 0) /\ w.lease = v.lease /\ w.pc \in {"done", "answer"}
    <3>1. [v EXCEPT !.pc = "answer"] \in WaitRecord(k, 0)
      BY Zenon, <1>1, <1>3, WaitEdits
    <3>2. [v EXCEPT !.pc = "answer"].lease = v.lease /\ [v EXCEPT !.pc = "answer"].pc = "answer"
      BY <1>3 DEF WaitRecord
    <3> QED BY <1>11, <3>1, <3>2
  <2>2. wait' = [wait EXCEPT ![c] = w]
    BY <1>2, <1>12 DEF Leases!releaseWait
  <2> HIDE DEF w
  <2>3. lease' \in LeaseRecord(k, WalkLimit)
    <3>1. lease' = lease \/ lease' = [lease EXCEPT !.left = CueTicks] \/ lease' = Leases!NoLease
      BY <1>12 DEF Leases!releaseWait
    <3>2. Leases!NoLease \in LeaseRecord(k, WalkLimit)
      BY <1>1 DEF Leases!NoLease, LeaseRecord, Longest
    <3>3. [lease EXCEPT !.left = CueTicks] \in LeaseRecord(k, WalkLimit)
      BY <1>1 DEF LeaseRecord
    <3> QED BY <1>1, <3>1, <3>2, <3>3
  <2> QED BY <1>1, <1>4, <1>12, <2>1, <2>2, <2>3 DEF Leases!releaseWait
<1>13. CASE Leases!Answer(c)
  <2>1. client' \in WaitCuts(0)
    <3>1. client' = client \/ client' = [line |-> v.nextLine, ping |-> v.nextPing]
      BY <1>2, <1>13 DEF Leases!Answer
    <3>2. v.nextLine \in 0 .. 0 /\ v.nextPing \in 0 .. 0
      BY <1>3 DEF WaitRecord
    <3> QED BY <1>1, <3>1, <3>2 DEF WaitCuts
  <2>2. wait' = [wait EXCEPT ![c] = Leases!Ended(c, "done")] /\ UNCHANGED <<presence, change, log, writing, lease, nextLease>>
    BY <1>13 DEF Leases!Answer
  <2> QED BY <1>1, <1>4, <1>11, <2>1, <2>2
<1>14. CASE Leases!Dies(c)
  <2>1. /\ wait' = [wait EXCEPT ![c] = Leases!Ended(c, "dead")]
        /\ UNCHANGED <<presence, change, log, writing, lease, nextLease, client>>
    BY <1>14 DEF Leases!Dies
  <2> QED BY <1>1, <1>4, <1>11, <2>1
<1>15. CASE Leases!ReadFails(c)
  <2> DEFINE w == [v EXCEPT !.pc = "release", !.reason = "failed"]
  <2>1. w \in WaitRecord(k, 0)
    BY Zenon, <1>1, <1>3, WaitEdits
  <2>2. wait' = [wait EXCEPT ![c] = w] /\ w.lease = v.lease /\ w.pc = "release"
    BY <1>1, <1>2, <1>3, <1>15 DEF Leases!ReadFails, WaitRecord
  <2> HIDE DEF w
  <2> QED BY Zenon, <1>1, <1>4, <1>15, <2>1, <2>2 DEF Leases!ReadFails
<1>16. CASE Leases!ConnectionCloses(c)
  <2> DEFINE w == [v EXCEPT !.shut = TRUE]
  <2>1. w \in WaitRecord(k, 0)
    BY Zenon, <1>1, <1>3, WaitEdits
  <2>2. wait' = [wait EXCEPT ![c] = w] /\ w.lease = v.lease /\ w.pc = v.pc
    BY <1>1, <1>2, <1>3, <1>16 DEF Leases!ConnectionCloses, WaitRecord
  <2> HIDE DEF w
  <2> QED BY <1>1, <1>4, <1>16, <2>1, <2>2 DEF Leases!ConnectionCloses
<1> QED BY <1>5, <1>6, <1>7, <1>8, <1>9, <1>10, <1>12, <1>13, <1>14, <1>15, <1>16 DEF Leases!Step


LEMMA ReadOthers ==
  ASSUME ReadTyped,
         \/ \E v \in Twins : Reading!WriterCommits(v) \/ Reading!WriterAborts(v)
         \/ \E v \in Twins, e \in Reading!Entries : Reading!record_public_change(v, e)
         \/ \E p \in Rooms : Reading!Move(p)
         \/ Reading!Tick
  PROVE  ReadTyped'
<1>1. /\ ChangeLimit \in Nat /\ 0 \in Nat /\ Cardinality(Alone) \in Nat
      /\ WaitsTyped(Alone, Twins, ChangeLimit, 0) /\ wait \in [Alone -> WaitRecord(Cardinality(Alone), ChangeLimit)]
      /\ writing \in [Twins -> WriteRecord(ChangeLimit)] /\ change \in 0 .. ChangeLimit
      /\ log \in [1 .. ChangeLimit -> Reading!Entries \cup {Reading!NoEntry}]
      /\ presence \in [place : Rooms, arrived : 1 .. 0 + 1]
      /\ lease \in LeaseRecord(Cardinality(Alone), 0)
  BY WaitAssumption, FS_CardinalityType DEF ReadTyped, WaitsTyped
<1>2. Reading!Entries = Reading!Entries /\ Reading!NoEntry = Reading!NoEntry
  BY DEF Reading!Entries, Reading!Entries, Reading!NoEntry, Reading!NoEntry
<1>3. Reading!NoWrite \in WriteRecord(ChangeLimit)
  BY <1>1, <1>2 DEF Reading!NoWrite, WriteRecord
<1>4. ASSUME NEW v \in Twins, Reading!WriterCommits(v)
      PROVE  ReadTyped'
  <2>1. /\ writing' = [writing EXCEPT ![v] = Reading!NoWrite]
        /\ log' = [log EXCEPT ![writing[v].id] = writing[v].entry]
        /\ change' = Reading!Max2({change, writing[v].id})
        /\ UNCHANGED <<presence, lease, nextLease, wait, client>>
    BY <1>4 DEF Reading!WriterCommits
  <2>2. writing[v].id \in 0 .. ChangeLimit /\ writing[v].entry \in Reading!Entries \cup {Reading!NoEntry}
    BY <1>1 DEF WriteRecord
  <2>3. log' \in [1 .. ChangeLimit -> Reading!Entries \cup {Reading!NoEntry}]
    BY <1>1, <2>1, <2>2
  <2>4. PICK a, b : a = change /\ b = writing[v].id
    OBVIOUS
  <2>5. Reading!Max2({a, b}) \in {a, b}
    <3>1. a \in Int /\ b \in Int
      BY <1>1, <2>2, <2>4
    <3>2. \E i \in {a, b} : \A j \in {a, b} : i >= j
      BY <3>1
    <3> QED BY <3>2 DEF Reading!Max2
  <2>6. change' \in 0 .. ChangeLimit
    BY <1>1, <2>1, <2>2, <2>4, <2>5
  <2> QED BY <1>1, <1>3, <2>1, <2>3, <2>6, WaitsWrite DEF ReadTyped
<1>5. ASSUME NEW v \in Twins, Reading!WriterAborts(v)
      PROVE  ReadTyped'
  <2>1. /\ writing' = [writing EXCEPT ![v] = Reading!NoWrite]
        /\ UNCHANGED <<presence, change, log, lease, nextLease, wait, client>>
    BY <1>5 DEF Reading!WriterAborts
  <2> QED BY <1>1, <1>3, <2>1, WaitsWrite DEF ReadTyped
<1>6. ASSUME NEW v \in Twins, NEW e \in Reading!Entries, Reading!record_public_change(v, e)
      PROVE  ReadTyped'
  <2>1. /\ writing' = [writing EXCEPT ![v] = [id |-> Reading!NextChange(v), entry |-> e]]
        /\ Reading!NextChange(v) \in 1 .. ChangeLimit
        /\ UNCHANGED <<presence, change, log, lease, nextLease, wait, client>>
    BY <1>6 DEF Reading!record_public_change, Reading!Ids
  <2>2. [id |-> Reading!NextChange(v), entry |-> e] \in WriteRecord(ChangeLimit)
    BY <1>1, <1>2, <2>1 DEF WriteRecord
  <2> QED BY <1>1, <2>1, <2>2, WaitsWrite DEF ReadTyped
<1>7. ASSUME NEW p \in Rooms, Reading!Move(p)
      PROVE  ReadTyped'
  <2>1. /\ presence.arrived <= 0 /\ presence' = [place |-> p, arrived |-> presence.arrived + 1]
        /\ wait' = [c \in Alone |-> IF wait[c].lease # 0 THEN [wait[c] EXCEPT !.stayed = FALSE] ELSE wait[c]]
        /\ UNCHANGED <<change, log, writing, lease, nextLease, client>>
    BY <1>7 DEF Reading!Move
  <2>2. presence' \in [place : Rooms, arrived : 1 .. 0 + 1]
    <3>1. presence.arrived \in 1 .. 0 + 1
      BY <1>1
    <3>2. presence.arrived + 1 \in 1 .. 0 + 1
      BY <1>1, <2>1, <3>1
    <3> QED BY <2>1, <3>2
  <2>3. ASSUME NEW c \in Alone
        PROVE  /\ wait'[c] \in WaitRecord(Cardinality(Alone), ChangeLimit)
               /\ wait'[c].lease = wait[c].lease /\ wait'[c].pc = wait[c].pc
    <3>1. wait[c] \in WaitRecord(Cardinality(Alone), ChangeLimit)
      BY <1>1
    <3>2. [wait[c] EXCEPT !.stayed = FALSE] \in WaitRecord(Cardinality(Alone), ChangeLimit)
      BY Zenon, <1>1, <3>1, WaitEdits
    <3>3. wait'[c] = wait[c] \/ wait'[c] = [wait[c] EXCEPT !.stayed = FALSE]
      BY <2>1
    <3> QED BY <3>1, <3>2, <3>3 DEF WaitRecord
  <2>4. DOMAIN wait' = Alone /\ wait' = [c \in Alone |-> wait'[c]]
    BY <2>1
  <2> QED BY <1>1, <2>1, <2>2, <2>3, <2>4, WaitsAll DEF ReadTyped
<1>8. CASE Reading!Tick
  <2>1. /\ lease' = [lease EXCEPT !.left = Reading!Less(lease.left)]
        /\ wait' = [c \in Alone |-> [wait[c] EXCEPT !.left = Reading!Less(wait[c].left)]]
        /\ UNCHANGED <<presence, change, log, writing, nextLease, client>>
    BY <1>8 DEF Reading!Tick
  <2>2. \A t \in 0 .. Longest : Reading!Less(t) \in 0 .. Longest
    BY WaitAssumption DEF Reading!Less, Longest
  <2>3. ASSUME NEW c \in Alone
        PROVE  /\ wait'[c] \in WaitRecord(Cardinality(Alone), ChangeLimit)
               /\ wait'[c].lease = wait[c].lease /\ wait'[c].pc = wait[c].pc
    <3>1. wait[c] \in WaitRecord(Cardinality(Alone), ChangeLimit)
      BY <1>1
    <3>2. wait[c].left \in 0 .. Longest
      BY <3>1 DEF WaitRecord
    <3>3. PICK t : t = Reading!Less(wait[c].left)
      OBVIOUS
    <3>4. t \in 0 .. Longest
      BY <2>2, <3>2, <3>3
    <3>5. [wait[c] EXCEPT !.left = t] \in WaitRecord(Cardinality(Alone), ChangeLimit)
      BY Zenon, <1>1, <3>1, <3>4, WaitEdits
    <3>6. wait'[c] = [wait[c] EXCEPT !.left = t]
      BY <2>1, <3>3
    <3> QED BY <3>1, <3>5, <3>6 DEF WaitRecord
  <2>4. DOMAIN wait' = Alone /\ wait' = [c \in Alone |-> wait'[c]]
    BY <2>1
  <2>5. lease' \in LeaseRecord(Cardinality(Alone), 0)
    <3>1. lease.left \in 0 .. Longest
      BY <1>1 DEF LeaseRecord
    <3>2. PICK t : t = Reading!Less(lease.left)
      OBVIOUS
    <3>3. t \in 0 .. Longest /\ lease' = [lease EXCEPT !.left = t]
      BY <2>1, <2>2, <3>1, <3>2
    <3> QED BY <1>1, <3>3 DEF LeaseRecord
  <2> QED BY <1>1, <2>1, <2>3, <2>4, <2>5, WaitsAll DEF ReadTyped
<1> QED BY <1>4, <1>5, <1>6, <1>7, <1>8

LEMMA ReadTypesStart ==
  ASSUME Reading!Init
  PROVE  ReadTyped
<1>1. /\ change = 0 /\ log = [i \in 1 .. ChangeLimit |-> Reading!NoEntry]
      /\ writing = [v \in Twins |-> Reading!NoWrite] /\ lease = Reading!NoLease /\ nextLease = 1
      /\ wait = [c \in Alone |-> Reading!NoWait] /\ client = [line |-> 0, ping |-> 0]
      /\ \E p \in Rooms : presence = [place |-> p, arrived |-> 1]
  BY DEF Reading!Init, Reading!Ids
<1>2. ChangeLimit \in Nat /\ 0 \in Nat /\ Cardinality(Alone) \in Nat
  BY WaitAssumption, FS_CardinalityType
<1>3. /\ Reading!NoEntry = Reading!NoEntry /\ Reading!NoWrite \in WriteRecord(ChangeLimit)
  BY <1>2 DEF Reading!NoEntry, Reading!NoEntry, Reading!NoWrite, WriteRecord
<1>4. lease \in LeaseRecord(Cardinality(Alone), 0)
  BY <1>1, <1>2, WaitAssumption DEF Reading!NoLease, LeaseRecord, Longest
<1>5. wait \in [Alone -> WaitRecord(Cardinality(Alone), ChangeLimit)]
  BY <1>1, <1>2, ReadBlank
<1>6. Reading!NoWait.lease = 0
  BY SMT DEF Reading!NoWait
<1>7. Taken(Alone) = {} /\ Cardinality({}) = 0
  BY <1>1, <1>6, FS_EmptySet DEF Taken
<1>8. \A c \in Alone : wait[c].lease = 0
  BY <1>1, <1>6
<1>9. presence \in [place : Rooms, arrived : 1 .. 0 + 1]
  BY <1>1, <1>2
<1> QED BY <1>1, <1>2, <1>3, <1>4, <1>5, <1>7, <1>8, <1>9 DEF ReadTyped, WaitsTyped, WaitCuts

LEMMA ReadTypesMean ==
  ASSUME ReadTyped
  PROVE  Reading!TypeOK
<1> DEFINE k == Cardinality(Alone)
<1>1. /\ k \in Nat /\ Reading!Cardinality(Alone) = k /\ WaitsTyped(Alone, Twins, ChangeLimit, 0)
      /\ Taken(Alone) \subseteq Alone /\ IsFiniteSet(Alone)
  BY WaitAssumption, FS_CardinalityType DEF ReadTyped, Taken, Reading!Cardinality, Cardinality
<1>2. Cardinality(Taken(Alone)) \in Nat /\ Cardinality(Taken(Alone)) <= k
  BY <1>1, FS_Subset, FS_CardinalityType
<1>3. nextLease \in 1 .. k + 1
  BY <1>1, <1>2 DEF WaitsTyped
<1>4. /\ Reading!Ticks = 0 .. Longest /\ Reading!Cursors = 0 .. ChangeLimit /\ Reading!Ids = 1 .. ChangeLimit /\ Reading!Cuts = WaitCuts(ChangeLimit)
      /\ Reading!Entries = Reading!Entries /\ Reading!NoEntry = Reading!NoEntry
      /\ Reading!Reasons = {"none", "moved", "replaced", "change", "closed", "timeout", "failed", "refused"}
  BY DEF Reading!Ticks, Reading!Cursors, Reading!Ids, Reading!Cuts, Reading!Entries, Reading!NoEntry, Reading!Entries, Reading!NoEntry,
     Reading!Reasons, Longest, WaitCuts
<1> HIDE DEF k
<1> QED BY <1>1, <1>3, <1>4, Zenon DEF Reading!TypeOK, WaitsTyped, WaitRecord, LeaseRecord, WriteRecord, k

LEMMA LeaseOthers ==
  ASSUME LeaseTyped,
         \/ \E v \in Alone : Leases!WriterCommits(v) \/ Leases!WriterAborts(v)
         \/ \E v \in Alone, e \in Leases!Entries : Leases!record_public_change(v, e)
         \/ \E p \in Rooms : Leases!Move(p)
         \/ Leases!Tick
  PROVE  LeaseTyped'
<1>1. /\ 0 \in Nat /\ WalkLimit \in Nat /\ Cardinality(Twins) \in Nat
      /\ WaitsTyped(Twins, Alone, 0, WalkLimit) /\ wait \in [Twins -> WaitRecord(Cardinality(Twins), 0)]
      /\ writing \in [Alone -> WriteRecord(0)] /\ change \in 0 .. 0
      /\ log \in [1 .. 0 -> Reading!Entries \cup {Reading!NoEntry}]
      /\ presence \in [place : Rooms, arrived : 1 .. WalkLimit + 1]
      /\ lease \in LeaseRecord(Cardinality(Twins), WalkLimit)
  BY WaitAssumption, FS_CardinalityType DEF LeaseTyped, WaitsTyped
<1>2. Leases!Entries = Reading!Entries /\ Leases!NoEntry = Reading!NoEntry
  BY DEF Leases!Entries, Reading!Entries, Leases!NoEntry, Reading!NoEntry
<1>3. Leases!NoWrite \in WriteRecord(0)
  BY <1>1, <1>2 DEF Leases!NoWrite, WriteRecord
<1>4. ASSUME NEW v \in Alone, Leases!WriterCommits(v)
      PROVE  LeaseTyped'
  <2>1. /\ writing' = [writing EXCEPT ![v] = Leases!NoWrite]
        /\ log' = [log EXCEPT ![writing[v].id] = writing[v].entry]
        /\ change' = Leases!Max2({change, writing[v].id})
        /\ UNCHANGED <<presence, lease, nextLease, wait, client>>
    BY <1>4 DEF Leases!WriterCommits
  <2>2. writing[v].id \in 0 .. 0 /\ writing[v].entry \in Reading!Entries \cup {Reading!NoEntry}
    BY <1>1 DEF WriteRecord
  <2>3. log' \in [1 .. 0 -> Reading!Entries \cup {Reading!NoEntry}]
    BY <1>1, <2>1, <2>2
  <2>4. PICK a, b : a = change /\ b = writing[v].id
    OBVIOUS
  <2>5. Leases!Max2({a, b}) \in {a, b}
    <3>1. a \in Int /\ b \in Int
      BY <1>1, <2>2, <2>4
    <3>2. \E i \in {a, b} : \A j \in {a, b} : i >= j
      BY <3>1
    <3> QED BY <3>2 DEF Leases!Max2
  <2>6. change' \in 0 .. 0
    BY <1>1, <2>1, <2>2, <2>4, <2>5
  <2> QED BY <1>1, <1>3, <2>1, <2>3, <2>6, WaitsWrite DEF LeaseTyped
<1>5. ASSUME NEW v \in Alone, Leases!WriterAborts(v)
      PROVE  LeaseTyped'
  <2>1. /\ writing' = [writing EXCEPT ![v] = Leases!NoWrite]
        /\ UNCHANGED <<presence, change, log, lease, nextLease, wait, client>>
    BY <1>5 DEF Leases!WriterAborts
  <2> QED BY <1>1, <1>3, <2>1, WaitsWrite DEF LeaseTyped
<1>6. ASSUME NEW v \in Alone, NEW e \in Leases!Entries, Leases!record_public_change(v, e)
      PROVE  LeaseTyped'
  <2>1. /\ writing' = [writing EXCEPT ![v] = [id |-> Leases!NextChange(v), entry |-> e]]
        /\ Leases!NextChange(v) \in 1 .. 0
        /\ UNCHANGED <<presence, change, log, lease, nextLease, wait, client>>
    BY <1>6 DEF Leases!record_public_change, Leases!Ids
  <2>2. [id |-> Leases!NextChange(v), entry |-> e] \in WriteRecord(0)
    BY <1>1, <1>2, <2>1 DEF WriteRecord
  <2> QED BY <1>1, <2>1, <2>2, WaitsWrite DEF LeaseTyped
<1>7. ASSUME NEW p \in Rooms, Leases!Move(p)
      PROVE  LeaseTyped'
  <2>1. /\ presence.arrived <= WalkLimit /\ presence' = [place |-> p, arrived |-> presence.arrived + 1]
        /\ wait' = [c \in Twins |-> IF wait[c].lease # 0 THEN [wait[c] EXCEPT !.stayed = FALSE] ELSE wait[c]]
        /\ UNCHANGED <<change, log, writing, lease, nextLease, client>>
    BY <1>7 DEF Leases!Move
  <2>2. presence' \in [place : Rooms, arrived : 1 .. WalkLimit + 1]
    <3>1. presence.arrived \in 1 .. WalkLimit + 1
      BY <1>1
    <3>2. presence.arrived + 1 \in 1 .. WalkLimit + 1
      BY <1>1, <2>1, <3>1
    <3> QED BY <2>1, <3>2
  <2>3. ASSUME NEW c \in Twins
        PROVE  /\ wait'[c] \in WaitRecord(Cardinality(Twins), 0)
               /\ wait'[c].lease = wait[c].lease /\ wait'[c].pc = wait[c].pc
    <3>1. wait[c] \in WaitRecord(Cardinality(Twins), 0)
      BY <1>1
    <3>2. [wait[c] EXCEPT !.stayed = FALSE] \in WaitRecord(Cardinality(Twins), 0)
      BY Zenon, <1>1, <3>1, WaitEdits
    <3>3. wait'[c] = wait[c] \/ wait'[c] = [wait[c] EXCEPT !.stayed = FALSE]
      BY <2>1
    <3> QED BY <3>1, <3>2, <3>3 DEF WaitRecord
  <2>4. DOMAIN wait' = Twins /\ wait' = [c \in Twins |-> wait'[c]]
    BY <2>1
  <2> QED BY <1>1, <2>1, <2>2, <2>3, <2>4, WaitsAll DEF LeaseTyped
<1>8. CASE Leases!Tick
  <2>1. /\ lease' = [lease EXCEPT !.left = Leases!Less(lease.left)]
        /\ wait' = [c \in Twins |-> [wait[c] EXCEPT !.left = Leases!Less(wait[c].left)]]
        /\ UNCHANGED <<presence, change, log, writing, nextLease, client>>
    BY <1>8 DEF Leases!Tick
  <2>2. \A t \in 0 .. Longest : Leases!Less(t) \in 0 .. Longest
    BY WaitAssumption DEF Leases!Less, Longest
  <2>3. ASSUME NEW c \in Twins
        PROVE  /\ wait'[c] \in WaitRecord(Cardinality(Twins), 0)
               /\ wait'[c].lease = wait[c].lease /\ wait'[c].pc = wait[c].pc
    <3>1. wait[c] \in WaitRecord(Cardinality(Twins), 0)
      BY <1>1
    <3>2. wait[c].left \in 0 .. Longest
      BY <3>1 DEF WaitRecord
    <3>3. PICK t : t = Leases!Less(wait[c].left)
      OBVIOUS
    <3>4. t \in 0 .. Longest
      BY <2>2, <3>2, <3>3
    <3>5. [wait[c] EXCEPT !.left = t] \in WaitRecord(Cardinality(Twins), 0)
      BY Zenon, <1>1, <3>1, <3>4, WaitEdits
    <3>6. wait'[c] = [wait[c] EXCEPT !.left = t]
      BY <2>1, <3>3
    <3> QED BY <3>1, <3>5, <3>6 DEF WaitRecord
  <2>4. DOMAIN wait' = Twins /\ wait' = [c \in Twins |-> wait'[c]]
    BY <2>1
  <2>5. lease' \in LeaseRecord(Cardinality(Twins), WalkLimit)
    <3>1. lease.left \in 0 .. Longest
      BY <1>1 DEF LeaseRecord
    <3>2. PICK t : t = Leases!Less(lease.left)
      OBVIOUS
    <3>3. t \in 0 .. Longest /\ lease' = [lease EXCEPT !.left = t]
      BY <2>1, <2>2, <3>1, <3>2
    <3> QED BY <1>1, <3>3 DEF LeaseRecord
  <2> QED BY <1>1, <2>1, <2>3, <2>4, <2>5, WaitsAll DEF LeaseTyped
<1> QED BY <1>4, <1>5, <1>6, <1>7, <1>8

LEMMA LeaseTypesStart ==
  ASSUME Leases!Init
  PROVE  LeaseTyped
<1>1. /\ change = 0 /\ log = [i \in 1 .. 0 |-> Leases!NoEntry]
      /\ writing = [v \in Alone |-> Leases!NoWrite] /\ lease = Leases!NoLease /\ nextLease = 1
      /\ wait = [c \in Twins |-> Leases!NoWait] /\ client = [line |-> 0, ping |-> 0]
      /\ \E p \in Rooms : presence = [place |-> p, arrived |-> 1]
  BY DEF Leases!Init, Leases!Ids
<1>2. 0 \in Nat /\ WalkLimit \in Nat /\ Cardinality(Twins) \in Nat
  BY WaitAssumption, FS_CardinalityType
<1>3. /\ Leases!NoEntry = Reading!NoEntry /\ Leases!NoWrite \in WriteRecord(0)
  BY <1>2 DEF Leases!NoEntry, Reading!NoEntry, Leases!NoWrite, WriteRecord
<1>4. lease \in LeaseRecord(Cardinality(Twins), WalkLimit)
  BY <1>1, <1>2, WaitAssumption DEF Leases!NoLease, LeaseRecord, Longest
<1>5. wait \in [Twins -> WaitRecord(Cardinality(Twins), 0)]
  BY <1>1, <1>2, LeaseBlank
<1>6. Leases!NoWait.lease = 0
  BY SMT DEF Leases!NoWait
<1>7. Taken(Twins) = {} /\ Cardinality({}) = 0
  BY <1>1, <1>6, FS_EmptySet DEF Taken
<1>8. \A c \in Twins : wait[c].lease = 0
  BY <1>1, <1>6
<1>9. presence \in [place : Rooms, arrived : 1 .. WalkLimit + 1]
  BY <1>1, <1>2
<1> QED BY <1>1, <1>2, <1>3, <1>4, <1>5, <1>7, <1>8, <1>9 DEF LeaseTyped, WaitsTyped, WaitCuts

LEMMA LeaseTypesMean ==
  ASSUME LeaseTyped
  PROVE  Leases!TypeOK
<1> DEFINE k == Cardinality(Twins)
<1>1. /\ k \in Nat /\ Leases!Cardinality(Twins) = k /\ WaitsTyped(Twins, Alone, 0, WalkLimit)
      /\ Taken(Twins) \subseteq Twins /\ IsFiniteSet(Twins)
  BY WaitAssumption, FS_CardinalityType DEF LeaseTyped, Taken, Leases!Cardinality, Cardinality
<1>2. Cardinality(Taken(Twins)) \in Nat /\ Cardinality(Taken(Twins)) <= k
  BY <1>1, FS_Subset, FS_CardinalityType
<1>3. nextLease \in 1 .. k + 1
  BY <1>1, <1>2 DEF WaitsTyped
<1>4. /\ Leases!Ticks = 0 .. Longest /\ Leases!Cursors = 0 .. 0 /\ Leases!Ids = 1 .. 0 /\ Leases!Cuts = WaitCuts(0)
      /\ Leases!Entries = Reading!Entries /\ Leases!NoEntry = Reading!NoEntry
      /\ Leases!Reasons = {"none", "moved", "replaced", "change", "closed", "timeout", "failed", "refused"}
  BY DEF Leases!Ticks, Leases!Cursors, Leases!Ids, Leases!Cuts, Leases!Entries, Leases!NoEntry, Reading!Entries, Reading!NoEntry,
     Leases!Reasons, Longest, WaitCuts
<1> HIDE DEF k
<1> QED BY <1>1, <1>3, <1>4, Zenon DEF Leases!TypeOK, WaitsTyped, WaitRecord, LeaseRecord, WriteRecord, k


\* What a request may answer beside its lines: the ping and its receipt.
TalkKept ==
  /\ now \in 0 .. TalkTime /\ Len(lines) <= LineLimit
  /\ ping \in {None, "offered", "expired", "yes", "no"}
  /\ receipt \in {None, "pending", "seen", "dismissed"}
  /\ ping = None <=> receipt = None

LEMMA TalkKeeps ==
  ASSUME TalkKept, OnceInv, Talk!Next
  PROVE  TalkKept'
<1>1. /\ lines \in Seq(Line) /\ Len(lines) \in Nat /\ LineLimit \in Nat /\ TalkTime \in Nat
      /\ None \notin {"offered", "expired", "yes", "no", "pending", "seen", "dismissed"}
  BY SaidDomain, TalkAssumption DEF OnceInv, TalkTyped
<1>2. CASE \/ \E id \in Requests, body \in Twins : Talk!ReplayLine(id, body)
           \/ \E id \in Requests, request \in Talk!Operations : Talk!ReplayOperation(id, request)
           \/ \E id \in Requests : Talk!invitePing(id)
           \/ Talk!Hold
  <2>1. UNCHANGED <<now, lines, ping, receipt>>
    BY <1>2 DEF Talk!ReplayLine, Talk!ReplayOperation, Talk!invitePing, Talk!Hold
  <2> QED BY <2>1 DEF TalkKept
<1>3. ASSUME NEW id \in Requests, NEW body \in Twins, NEW here \in BOOLEAN, Talk!sayLine(id, body, here)
      PROVE  TalkKept'
  <2>1. /\ UNCHANGED <<now, ping, receipt>>
        /\ lines' = lines \/ (/\ Len(lines) < LineLimit
                              /\ lines' = Append(lines, [id |-> id, body |-> body, at |-> now, held |-> held]))
    BY <1>3 DEF Talk!sayLine
  <2>2. Len(lines') <= LineLimit
    BY <1>1, <2>1 DEF TalkKept
  <2> QED BY <2>1, <2>2 DEF TalkKept
<1>4. CASE \E id \in Requests, a \in {"yes", "no"} : Talk!answerPing(id, a)
  <2>1. /\ UNCHANGED <<now, lines, receipt>>
        /\ ping' = ping \/ (ping = "offered" /\ ping' \in {"yes", "no"})
    BY <1>4 DEF Talk!answerPing
  <2> QED BY <1>1, <2>1 DEF TalkKept
<1>5. CASE \E id \in Requests : Talk!dismissPing(id)
  <2>1. /\ UNCHANGED <<now, lines, ping>>
        /\ receipt' = receipt \/ (ping # None /\ receipt' = "dismissed")
    BY <1>5 DEF Talk!dismissPing
  <2> QED BY <1>1, <2>1 DEF TalkKept
<1>6. CASE Talk!markReceiptsSeen \/ Talk!PingArrives \/ Talk!PingExpires
  BY <1>1, <1>6 DEF TalkKept, Talk!markReceiptsSeen, Talk!PingArrives, Talk!PingExpires
<1>7. CASE Talk!Tick
  <2>1. now < TalkTime /\ now' = now + 1 /\ UNCHANGED <<lines, ping, receipt>>
    BY <1>7 DEF Talk!Tick
  <2> QED BY <1>1, <2>1 DEF TalkKept
<1> QED BY <1>2, <1>3, <1>4, <1>5, <1>6, <1>7 DEF Talk!Next

LEMMA TalkKeptMeans ==
  ASSUME TalkKept, OnceInv
  PROVE  Talk!TypeOK
<1>1. /\ held \in BOOLEAN /\ DOMAIN lines = Said /\ \A k \in Said : lines[k] \in Line
      /\ op \in [Requests -> Outcome \cup {None}]
  BY SaidDomain DEF OnceInv, TalkTyped
<1>2. \A k \in DOMAIN lines : lines[k].id \in Requests /\ lines[k].body \in Twins
  BY <1>1 DEF Line
<1>3. \A id \in Requests : op[id] # None => op[id].request \in Talk!Operations /\ op[id].outcome \in Talk!Outcomes
  <2> SUFFICES ASSUME NEW id \in Requests, op[id] # None
               PROVE  op[id].request \in Talk!Operations /\ op[id].outcome \in Talk!Outcomes
    OBVIOUS
  <2>1. op[id] \in Outcome
    BY <1>1
  <2> QED BY <2>1 DEF Outcome
<1> QED BY <1>1, <1>2, <1>3 DEF TalkKept, Talk!TypeOK

TypesInv ==
  /\ part = "reading" => ReadTyped
  /\ part = "leases" => LeaseTyped
  /\ part = "talk" => TalkKept

LEMMA TypesHold == RoomsSpec => []TypesInv
<1>1. RoomsInit => TypesInv
  <2> SUFFICES ASSUME RoomsInit PROVE TypesInv
    OBVIOUS
  <2>1. Talk!Init => TalkKept
    BY TalkAssumption DEF Talk!Init, TalkKept
  <2> QED BY <2>1, ReadTypesStart, LeaseTypesStart DEF RoomsInit, TalkInit, WorkInit, TypesInv
<1>2. TypesInv /\ ReadingInv /\ TalkInv /\ [RoomsNext]_roomVars => TypesInv'
  <2> SUFFICES ASSUME TypesInv, ReadingInv, TalkInv, [RoomsNext]_roomVars
               PROVE  TypesInv'
    OBVIOUS
  <2>1. part' = part
    BY DEF RoomsNext, roomVars
  <2>2. ASSUME part = "reading"
        PROVE  ReadTyped'
    <3>1. ReadTyped /\ ReadInv
      BY <2>2 DEF TypesInv, ReadingInv
    <3>2. CASE Reading!Next
      BY <3>1, <3>2, ReadEdits, ReadOthers DEF Reading!Next
    <3>3. CASE UNCHANGED <<presence, waitVars>>
      BY <3>1, <3>3 DEF ReadTyped, WaitsTyped, Taken, waitVars
    <3> QED BY <2>1, <2>2, <3>2, <3>3 DEF RoomsNext, TalkNext, WorkNext, roomVars, pingVars
  <2>3. ASSUME part = "leases"
        PROVE  LeaseTyped'
    <3>1. LeaseTyped
      BY <2>3 DEF TypesInv
    <3>2. CASE Leases!Next
      BY <3>1, <3>2, LeaseEdits, LeaseOthers DEF Leases!Next
    <3>3. CASE UNCHANGED <<presence, waitVars>>
      BY <3>1, <3>3 DEF LeaseTyped, WaitsTyped, Taken, waitVars
    <3> QED BY <2>1, <2>3, <3>2, <3>3 DEF RoomsNext, TalkNext, WorkNext, roomVars, pingVars
  <2>4. ASSUME part = "talk"
        PROVE  TalkKept'
    <3>1. TalkKept /\ OnceInv
      BY <2>4 DEF TypesInv, TalkInv
    <3>2. CASE Talk!Next
      BY <3>1, <3>2, TalkKeeps
    <3>3. CASE UNCHANGED <<now, lines, ping, receipt>>
      BY <3>1, <3>3 DEF TalkKept
    <3> QED BY <2>1, <2>4, <3>2, <3>3 DEF RoomsNext, TalkNext, WorkNext, roomVars, talkVars, pingVars
  <2> QED BY <2>1, <2>2, <2>3, <2>4 DEF TypesInv
<1> QED BY <1>1, <1>2, ReadingHolds, RequestsHold, PTL DEF RoomsSpec

\* Every component of the rooms keeps its types: cursors are changes there are, a wait takes
\* one lease, a ping has its receipt, clocks and statuses are in range, one question is open.
THEOREM RoomsTyped == RoomsSpec => []RoomsTypeOK
<1>1. TypesInv /\ TalkInv /\ PairInv /\ ReportInv /\ DueInv /\ CloseInv => RoomsTypeOK
  <2> SUFFICES ASSUME TypesInv, TalkInv, PairInv, ReportInv, DueInv, CloseInv
               PROVE  RoomsTypeOK
    OBVIOUS
  <2>1. part = "reading" => Reading!TypeOK
    BY ReadTypesMean DEF TypesInv
  <2>2. part = "leases" => Leases!TypeOK
    BY LeaseTypesMean DEF TypesInv
  <2>3. part = "pings" => Pings!TypeOK
    BY PingMeans DEF PairInv
  <2>4. part = "talk" => Talk!TypeOK
    BY TalkKeptMeans DEF TypesInv, TalkInv
  <2>5. part = "wakes" => Wakes!TypeOK
    BY BookMeans DEF ReportInv
  <2>6. part = "timers" => Timers!TypeOK
    BY TimerMeans DEF DueInv
  <2>7. part = "contest" => Contest!TypeOK
    BY ContestMeans DEF CloseInv
  <2> QED BY <2>1, <2>2, <2>3, <2>4, <2>5, <2>6, <2>7 DEF RoomsTypeOK
<1> QED BY <1>1, TypesHold, RequestsHold, PairHolds, ReportHolds, DueHolds, CloseHolds, PTL
===============================================================================

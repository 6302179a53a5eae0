--------------------------------- MODULE MCRooms ---------------------------------
(***************************************************************************)
(* The components of the rooms for TLC: talk, waits, pings, wake tries,    *)
(* timers and the weekly contest.  They share no state, so a behaviour     *)
(* moves one of them, chosen at the start.                                 *)
(* RoomWaits is instantiated twice: one wait among overlapping writers,    *)
(* and two waits of a resident who moves.  FewRoomsSpec is how far TLC      *)
(* explores the others; RoomsSpec, and what is proved about it, does not   *)
(* have that limit.  PingRules is explored with a long history of a pair   *)
(* that stays and a short one of a pair that moves; WakeSettling with two  *)
(* settles of one room, and one settle of things that move and are         *)
(* switched; ShowingRoom with two calls over three slots without notes,    *)
(* and one call among the notes of two residents.                          *)
(***************************************************************************)
EXTENDS Integers, Sequences, FiniteSets, TLC

CONSTANTS
  Alone,                     \* the one process of an instance
  Twins,                     \* two processes that overlap, two residents or two texts
  Rooms,
  Requests,
  ChangeLimit, WalkLimit,    \* changes of a room, moves of a resident who waits
  LinePage, PingPage, HoldTicks, CueTicks,
  LineLimit, TalkTime,       \* lines said, ticks
  MinuteTicks, DayTicks, MinuteLines, DayLines, HeldLines,
  None

\* The pings of a pair.
CONSTANTS
  Shut, PingLimit, MoveLimit, PingTime, ShortTime,
  Offer, AfterAnswer, AfterMiss, AfterNo, Misses, PingDay

\* The wake tries and the timers of a room.
CONSTANTS
  Lobby, Things, Pinned, RandomCap, Every, Quiet, TriesMax, EffectsMax,
  WakeTime, SettleLimit, DialLimit,
  WaitTicks, Repeats, PendingMax, Generations, EffectLimit, TimerTime

\* The weekly contest.
CONSTANTS
  Runs,                      \* cron calls
  Week, Cutoff, Entering, QuestionLimit, NoteLimit, ControlLimit, ContestTime, CountTime

VARIABLES
  part,
  presence,
  change, log, writing, lease, nextLease, wait, client,
  now, closed, ping,
  held, lines, used, op, receipt, told,
  at, wakes, dials, moved, wakeState, settles, tries, reports, settler,
  pending, resolution, ran, visit,
  notes, draft, contests, runs, credits, control, controls, open, call, answers

Reading == INSTANCE RoomWaits WITH
  Waits <- Alone, Writers <- Twins, Places <- Rooms, MaxChange <- ChangeLimit, MaxMoves <- 0,
  Seconds <- HoldTicks, Linger <- CueTicks, LinesMax <- LinePage, PingsMax <- PingPage

Leases == INSTANCE RoomWaits WITH
  Waits <- Twins, Writers <- Alone, Places <- Rooms, MaxChange <- 0, MaxMoves <- WalkLimit,
  Seconds <- HoldTicks, Linger <- CueTicks, LinesMax <- LinePage, PingsMax <- PingPage

\* A page has room for a line or a ping, and requests are finitely many.
ASSUME WaitAssumption ==
  /\ IsFiniteSet(Alone) /\ IsFiniteSet(Twins)
  /\ ChangeLimit \in Nat /\ WalkLimit \in Nat /\ HoldTicks \in Nat /\ CueTicks \in Nat
  /\ LinePage \in Nat \ {0} /\ PingPage \in Nat \ {0}

Pings == INSTANCE PingRules WITH
  Residents <- Twins, Places <- Rooms, Closable <- Shut, MaxPings <- PingLimit,
  MaxMoves <- MoveLimit, MaxTime <- PingTime, Day <- PingDay

\* The day after a no is longer than the waits after a miss and after an answer.
ASSUME PingAssumption ==
  /\ Offer \in Nat /\ AfterAnswer \in Nat /\ AfterMiss \in Nat /\ AfterNo \in Nat
  /\ Misses \in Nat /\ PingDay \in Nat \ {0}
  /\ PingLimit \in Nat /\ MoveLimit \in Nat /\ PingTime \in Nat
  /\ AfterMiss <= AfterNo /\ AfterAnswer <= AfterNo

\* A long history of a pair that stays, or a short one of a pair that moves.
FewPings ==
  \/ closed = {} /\ \A r \in Twins : presence[r].arrived = 1
  \/ Len(ping) < PingLimit /\ now <= ShortTime

Talk == INSTANCE TalkRequests WITH
  Ids <- Requests, Bodies <- Twins, MaxLines <- LineLimit, MaxTime <- TalkTime,
  Minute <- MinuteTicks, Day <- DayTicks, PerMinute <- MinuteLines, PerDay <- DayLines,
  HoldPerDay <- HeldLines

\* Minutes and days last, the allowances are numbers, and None is no outcome and no state.
ASSUME TalkAssumption ==
  /\ MinuteTicks \in Nat \ {0} /\ DayTicks \in Nat \ {0} /\ TalkTime \in Nat
  /\ MinuteLines \in Nat /\ DayLines \in Nat /\ HeldLines \in Nat /\ LineLimit \in Nat
  /\ None \notin {"offered", "expired", "yes", "no", "pending", "seen", "dismissed"}
  /\ None \notin [request : Talk!Operations, outcome : Talk!Outcomes]

Wakes == INSTANCE WakeSettling WITH
  Settlers <- Twins, Places <- Rooms, Pins <- Pinned, MaxTime <- WakeTime,
  MaxSettles <- SettleLimit, MaxDials <- DialLimit

\* There are finitely many things, programs repeat after some time, a thing may try,
\* and None is no time and no try.
ASSUME WakeAssumption ==
  /\ IsFiniteSet(Things) /\ Every \in Nat \ {0} /\ Quiet \in Nat /\ TriesMax \in Nat \ {0}
  /\ WakeTime \in Nat /\ DialLimit \in Nat
  /\ None \notin 0 .. WakeTime
  /\ None \notin [thing : Things, unit : Nat, reason : {"arrive", "clock"}]

\* Settles of one room whose things rest, while what is pinned is elsewhere; or one
\* settle, of any room.
Apart == \A th \in Things : at[th] = Lobby <=> th \notin Pinned
SettlesOfOne ==
  /\ dials = 0 /\ Apart
  /\ \A s \in Twins : settler[s].pc \in {"begun", "claiming"} => settler[s].place = Lobby
  /\ \A i \in DOMAIN settles : settles[i].place = Lobby
OneSettle ==
  /\ dials = 0 => ~Apart
  /\ Len(settles) <= 1
  /\ \A s, u \in Twins : settler[s].pc # "idle" /\ settler[u].pc # "idle" => s = u
FewSettles == (SettlesOfOne /\ SettlesOfOne') \/ (OneSettle /\ OneSettle')

Timers == INSTANCE DueTimers WITH
  Visits <- Twins, Seconds <- WaitTicks, MaxEffects <- EffectLimit, MaxTime <- TimerTime

\* Waits, turns and the queue are counted, and None is no row and no status.
ASSUME TimerAssumption ==
  /\ WaitTicks \in Nat /\ Repeats \in Nat /\ PendingMax \in Nat /\ Generations \in Nat
  /\ EffectLimit \in Nat /\ TimerTime \in Nat
  /\ None \notin 1 .. EffectLimit /\ None \notin {"applied", "skipped", "failed"}

Contest == INSTANCE ShowingRoom WITH
  Residents <- Twins, Calls <- Runs, MaxQuestions <- QuestionLimit, MaxNotes <- NoteLimit,
  MaxControls <- ControlLimit, MaxTime <- ContestTime

\* Slots are some time apart, what is bounded is counted, and None is no result.
ASSUME ContestAssumption ==
  /\ Week \in Nat \ {0} /\ Entering \in Nat /\ ContestTime \in Nat
  /\ QuestionLimit \in Nat \ {0} /\ NoteLimit \in Nat /\ ControlLimit \in Nat
  /\ None \notin [outcome : [slot : Nat, contest : SUBSET Nat, next : SUBSET Nat, late : BOOLEAN],
                  count : {None} \cup [read : SUBSET Nat, entries : SUBSET Nat,
                                       ballots : SUBSET Nat, winners : SUBSET Nat],
                  recovery : BOOLEAN]

\* A contest without notes, or one call, one question and notes; the founder acts where
\* there are fewer of them.
FewNotes ==
  \/ notes = <<>> /\ draft = None
  \/ /\ Len(contests) <= 1 /\ now <= CountTime
     /\ \A w, v \in Runs : call[w].pc # "idle" /\ call[v].pc # "idle" => w = v
     /\ controls > 0 => Len(notes) < NoteLimit /\ (draft # None => Len(notes) + 1 < NoteLimit)

waitVars == <<change, log, writing, lease, nextLease, wait, client>>
talkVars == <<held, lines, used, op, receipt, told>>
wakeVars == <<at, wakes, dials, moved, wakeState, settles, tries, reports, settler>>
timerVars == <<pending, resolution, ran, visit>>
contestVars == <<notes, draft, contests, runs, credits, control, controls, open, call, answers>>
pingVars == <<presence, closed, ping>>
roomVars == <<part, now, waitVars, pingVars, talkVars, wakeVars, timerVars, contestVars>>

\* The variables of a component that does not move.
NoWaits ==
  /\ change = None /\ log = None /\ writing = None /\ lease = None
  /\ nextLease = None /\ wait = None /\ client = None
NoPings == closed = None /\ ping = None
NoTalk == held = None /\ lines = None /\ used = None /\ op = None /\ receipt = None /\ told = None
NoWakes ==
  /\ at = None /\ wakes = None /\ dials = None /\ moved = None /\ wakeState = None
  /\ settles = None /\ tries = None /\ reports = None /\ settler = None
NoTimers == pending = None /\ resolution = None /\ ran = None /\ visit = None
NoContest ==
  /\ notes = None /\ draft = None /\ contests = None /\ runs = None /\ credits = None
  /\ control = None /\ controls = None /\ open = None /\ call = None /\ answers = None
Silent == presence = None /\ NoWaits /\ NoPings /\ NoTalk
Workless == NoWakes /\ NoTimers /\ NoContest

TalkInit ==
  \/ part = "reading" /\ Reading!Init /\ now = None /\ NoPings /\ NoTalk
  \/ part = "leases" /\ Leases!Init /\ now = None /\ NoPings /\ NoTalk
  \/ part = "pings" /\ Pings!Init /\ NoWaits /\ NoTalk
  \/ part = "talk" /\ Talk!Init /\ NoWaits /\ presence = None /\ closed = None

WorkInit ==
  \/ part = "wakes" /\ Wakes!Init /\ NoTimers /\ NoContest
  \/ part = "timers" /\ Timers!Init /\ NoWakes /\ NoContest
  \/ part = "contest" /\ Contest!Init /\ NoWakes /\ NoTimers

RoomsInit == (TalkInit /\ Workless) \/ (WorkInit /\ Silent)

TalkNext ==
  \/ part = "reading" /\ Reading!Next /\ UNCHANGED <<now, closed, ping, talkVars>>
  \/ part = "leases" /\ Leases!Next /\ UNCHANGED <<now, closed, ping, talkVars>>
  \/ part = "pings" /\ Pings!Next /\ UNCHANGED <<waitVars, talkVars>>
  \/ part = "talk" /\ Talk!Next /\ UNCHANGED <<waitVars, presence, closed>>

WorkNext ==
  \/ part = "wakes" /\ Wakes!Next /\ UNCHANGED <<timerVars, contestVars>>
  \/ part = "timers" /\ Timers!Next /\ UNCHANGED <<wakeVars, contestVars>>
  \/ part = "contest" /\ Contest!Next /\ UNCHANGED <<wakeVars, timerVars>>

RoomsNext ==
  \/ TalkNext /\ UNCHANGED <<part, wakeVars, timerVars, contestVars>>
  \/ WorkNext /\ UNCHANGED <<part, waitVars, pingVars, talkVars>>

\* The processes, residents or texts of an instance are alike, and so are the cron
\* calls.  They are one set of values, so that one permutation exchanges them in
\* whichever component moves.
RoomSymmetry == Permutations(Twins) \cup Permutations(Runs)

RoomsSpec == RoomsInit /\ [][RoomsNext]_roomVars

\* The steps that TLC explores.
FewRoomsNext ==
  \/ TalkNext /\ (part = "pings" => FewPings') /\ UNCHANGED <<part, wakeVars, timerVars, contestVars>>
  \/ /\ WorkNext /\ UNCHANGED <<part, waitVars, pingVars, talkVars>>
     /\ part = "wakes" => FewSettles
     /\ part = "contest" => FewNotes'

FewRoomsSpec == RoomsInit /\ [][FewRoomsNext]_roomVars

-----------------------------------------------------------------------------
(* Properties                                                              *)

\* The types of the components.
RoomsTypeOK ==
  /\ part = "reading" => Reading!TypeOK
  /\ part = "leases" => Leases!TypeOK
  /\ part = "pings" => Pings!TypeOK
  /\ part = "talk" => Talk!TypeOK
  /\ part = "wakes" => Wakes!TypeOK
  /\ part = "timers" => Timers!TypeOK
  /\ part = "contest" => Contest!TypeOK

\* No line or ping is lost between two cursors (RoomWaits).
AnswerComplete == part = "reading" => Reading!AnswerComplete

\* The newest wait of a resident keeps the lease, and who is shown to listen, listens
\* or has just listened (RoomWaits).
LeaseIsTrue == part = "leases" => Leases!NewestKeepsLease /\ Leases!CueIsTrue

\* The published rule of pings holds over the whole history (PingRules).
PingManners == part = "pings" => Pings!PingManners

\* An id does one thing and is told so, and the lines said agree with the allowance
\* (TalkRequests).
TalkIsExact == part = "talk" => Talk!RequestOnce /\ Talk!QuotaExact

\* What a room owes, a tick of a thing or a timer that is due, is claimed once and runs
\* at most once (WakeSettling, DueTimers).
OwedOnce ==
  /\ part = "wakes" => Wakes!OwedOnce
  /\ part = "timers" => Timers!TimerRunsOnce

\* The report of a settle is what its records say (WakeSettling).
SettleReport == part = "wakes" => Wakes!SettleReport

\* A question closes once, over all its notes, and pays its winners once (ShowingRoom).
ClosedExactly == part = "contest" => Contest!ClosedExactly
=============================================================================

------------------------------ MODULE WakeSettling ------------------------------
(***************************************************************************)
(* The wake tries of a room (engine-settle.ts).  A resident's act settles   *)
(* the room: under the room's advisory lock one transaction claims what the *)
(* things there are owed and writes the claim; then every claimed try runs  *)
(* in a transaction of its own, and a report closes the settle.  Things     *)
(* move, fall asleep and wake while a settle is under way, and an           *)
(* invocation may die at any step: what it had claimed is forfeited.        *)
(***************************************************************************)
EXTENDS Integers, Sequences, FiniteSets, FiniteSetsExt

CONSTANTS
  Settlers,     \* invocations that settle a room
  Places,
  Things,       \* things whose kind carries a wake program (arrive and clock)
  Pins,         \* the things the room owners pinned
  RandomCap,    \* wake_random_cap
  Every,        \* every_seconds of the programs
  Quiet,        \* WAKE_SETTLE_MIN_INTERVAL_SECONDS
  TriesMax,     \* MAX_WAKE_TRIES_PER_THING_PER_SETTLE
  EffectsMax,   \* MAX_WAKE_EFFECTS_PER_SETTLE
  MaxTime,      \* bound on the clock
  MaxSettles,   \* bound on the settles that claim
  MaxDials,     \* bound on moves and switches of things
  None

VARIABLES
  now,
  at,         \* things.place_id
  wakes,      \* may wake: switched on, not withdrawn, held or offered, allowed by the room
  dials,      \* how many things were moved or switched
  moved,      \* the things that have changed room
  wakeState,  \* thing_wake_state: last_try_at, clock_at
  settles,    \* wake_settles, with the ticks each one claimed
  tries,      \* wake_tries
  reports,    \* the room_settled events
  settler     \* the invocations

vars == <<now, at, wakes, dials, moved, wakeState, settles, tries, reports, settler>>

Idle == [pc |-> "idle"]

Init ==
  /\ now = 0
  /\ at \in [Things -> Places]
  /\ wakes = [th \in Things |-> TRUE]
  /\ dials = 0 /\ moved = {}
  /\ wakeState = [th \in Things |-> [last |-> None, clock |-> None]]
  /\ settles = <<>> /\ tries = {} /\ reports = {}
  /\ settler = [s \in Settlers |-> Idle]

-----------------------------------------------------------------------------
(* The claim                                                               *)

\* An act of a resident begins to settle the room: now() of the claim is the
\* start of its transaction.
settleRoom(s, p, trigger) ==
  /\ settler[s] = Idle
  /\ \E th \in Things : at[th] = p /\ wakes[th]
  /\ settler' = [settler EXCEPT ![s] = [pc |-> "begun", place |-> p, trigger |-> trigger, at |-> now]]
  /\ UNCHANGED <<now, at, wakes, dials, moved, wakeState, settles, tries, reports>>

\* No settle waits for the one that holds the room.
MutantLockFree(p) == p \in Places

\* The advisory lock of the room, held from the read of the claim to its commit.
LockFree(p) == \A s \in Settlers : settler[s].pc = "claiming" => settler[s].place # p

InQuiet(p, time) == \E i \in DOMAIN settles : settles[i].place = p /\ settles[i].at > time - Quiet

\* Under the lock: the room is quiet after a recent settle, or its candidates are read.
ReadCandidates(s) ==
  LET c == settler[s]
      here == {th \in Things : at[th] = c.place /\ wakes[th]}
  IN  /\ c.pc = "begun"
      /\ LockFree(c.place)
      /\ settler' = [settler EXCEPT ![s] =
           IF InQuiet(c.place, c.at) THEN Idle
           ELSE [pc |-> "claiming", place |-> c.place, trigger |-> c.trigger, at |-> c.at,
                 seen |-> [th \in here |-> wakeState[th]]]]
      /\ UNCHANGED <<now, at, wakes, dials, moved, wakeState, settles, tries, reports>>

\* How many clock tries a thing is owed at a time, and the ticks they stand for.
Owed(seen, time) ==
  IF seen.clock = None \/ time < seen.clock THEN 0 ELSE (time - seen.clock) \div Every

Ticks(seen, time) == {seen.clock + k * Every : k \in 1..Owed(seen, time)}

\* The pairs of a thing and a tick it is owed.
Owing(ticks) == UNION {{th} \X ticks[th] : th \in DOMAIN ticks}

Arrives(seen, c) == c.trigger = "arrive" /\ (seen.last = None \/ c.at - seen.last >= Every)

\* The tries planned for a thing: one for the arrival, then clock tries up to the limit.
UnitsOf(th, seen, c) ==
  LET first == IF Arrives(seen, c) THEN 1 ELSE 0
      run == Min({Owed(seen, c.at), TriesMax - first})
  IN  [thing : {th}, unit : 0..(first + run - 1)]

planUnits(c) == UNION {UnitsOf(th, c.seen[th], c) : th \in DOMAIN c.seen}

Reason(u, c) == IF u.unit = 0 /\ Arrives(c.seen[u.thing], c) THEN "arrive" ELSE "clock"

\* The clock tries owed that will not run: beyond the limit of a thing, or not picked.
Forfeited(c, run) ==
  Cardinality(Owing([th \in DOMAIN c.seen |-> Ticks(c.seen[th], c.at)]))
    - Cardinality({u \in run : Reason(u, c) = "clock"})

\* The claim commits: anchors, the settle with its picked tries, and the advance of
\* the things' anchors.  A public roll picks among the tries that are not pinned.
claimSettle(s) ==
  LET c == settler[s]
      units == planUnits(c)
      pinned == {u \in units : u.thing \in Pins}
      anchored == {th \in DOMAIN c.seen : c.seen[th].clock = None}
      Clock(th) ==
        IF th \in anchored
        THEN IF wakeState[th].clock = None THEN c.at ELSE wakeState[th].clock
        ELSE IF th \in DOMAIN c.seen /\ Owed(c.seen[th], c.at) > 0
             THEN c.seen[th].clock + Owed(c.seen[th], c.at) * Every
             ELSE wakeState[th].clock
      Write(tried) ==
        wakeState' = [th \in Things |->
          [last |-> IF th \in tried THEN c.at ELSE wakeState[th].last, clock |-> Clock(th)]]
  IN  /\ c.pc = "claiming"
      /\ IF units = {}
         THEN /\ Write({})
              /\ settler' = [settler EXCEPT ![s] = Idle]
              /\ UNCHANGED settles
         ELSE /\ Len(settles) < MaxSettles
              /\ \E picked \in kSubset(Min({RandomCap, Cardinality(units \ pinned)}), units \ pinned) :
                   LET run == pinned \union picked IN
                   /\ Write({u.thing : u \in run})
                   /\ settles' = Append(settles,
                        [place |-> c.place, at |-> c.at,
                         ticks |-> [th \in DOMAIN c.seen |-> Ticks(c.seen[th], c.at)],
                         units |-> {[thing |-> u.thing, unit |-> u.unit, reason |-> Reason(u, c)] : u \in run},
                         forfeited |-> Forfeited(c, run)])
                   /\ settler' = [settler EXCEPT ![s] =
                        [pc |-> "running", settle |-> Len(settles) + 1, todo |-> settles'[Len(settles')].units,
                         failing |-> None, applied |-> 0, tried |-> 0, woke |-> 0, stopped |-> 0]]
      /\ UNCHANGED <<now, at, wakes, dials, moved, tries, reports>>

-----------------------------------------------------------------------------
(* The tries                                                               *)

\* A unit that settler s may run now: pinned things try first.
Turn(s, u) ==
  /\ settler[s].pc = "running" /\ settler[s].failing = None
  /\ u \in settler[s].todo
  /\ u.thing \notin Pins => \A v \in settler[s].todo : v.thing \notin Pins

TryOf(k, u, status) ==
  [settle |-> k, thing |-> u.thing, unit |-> u.unit, reason |-> u.reason, status |-> status]

\* The recheck inside the try: the thing is still here and may wake.  A thing that
\* changed hands sleeps until its new owner wakes it.
stillEligible(s, u) == at[u.thing] = settles[settler[s].settle].place /\ wakes[u.thing]

\* A try commits.  The recheck, the effects and the record are one transaction that
\* holds the thing's row; a thing no longer eligible is recorded as quiet.
runTry(s, u, effects) ==
  /\ Turn(s, u) /\ settler[s].applied < EffectsMax
  /\ effects > 0 => stillEligible(s, u)
  /\ tries' = tries \union {TryOf(settler[s].settle, u, IF effects > 0 THEN "woke" ELSE "quiet")}
  /\ settler' = [settler EXCEPT ![s].todo = @ \ {u}, ![s].applied = @ + effects, ![s].tried = @ + 1,
                                ![s].woke = @ + (IF effects > 0 THEN 1 ELSE 0)]
  /\ UNCHANGED <<now, at, wakes, dials, moved, wakeState, settles, reports>>

\* A try throws: it was rolled back, or it committed and only the answer was lost.
TryThrows(s, u, committed) ==
  /\ Turn(s, u) /\ settler[s].applied < EffectsMax
  /\ committed => stillEligible(s, u)
  /\ tries' = IF committed THEN tries \union {TryOf(settler[s].settle, u, "woke")} ELSE tries
  /\ settler' = [settler EXCEPT ![s].todo = @ \ {u}, ![s].tried = @ + 1, ![s].failing = u]
  /\ UNCHANGED <<now, at, wakes, dials, moved, wakeState, settles, reports>>

\* Nothing keeps a second record of one try out.
MutantRecorded(k, u) == k \notin DOMAIN settles

\* The unique key of wake_tries.
Recorded(k, u) == \E t \in tries : t.settle = k /\ t.thing = u.thing /\ t.unit = u.unit

\* The failure is recorded in a transaction of its own.  When the try had committed,
\* the unique key refuses the record and the error ends the whole settle.
recordTry(s) ==
  LET u == settler[s].failing IN
  /\ settler[s].pc = "running" /\ u # None
  /\ IF Recorded(settler[s].settle, u)
     THEN settler' = [settler EXCEPT ![s] = Idle] /\ UNCHANGED tries
     ELSE /\ tries' = tries \union {TryOf(settler[s].settle, u, "failed")}
          /\ settler' = [settler EXCEPT ![s].failing = None]
  /\ UNCHANGED <<now, at, wakes, dials, moved, wakeState, settles, reports>>

\* The settle has applied its effects: the rest of its tries are stopped.
StopTry(s, u) ==
  /\ Turn(s, u) /\ settler[s].applied >= EffectsMax
  /\ tries' = tries \union {TryOf(settler[s].settle, u, "stopped")}
  /\ settler' = [settler EXCEPT ![s].todo = @ \ {u},
                                ![s].stopped = @ + (IF u.reason = "clock" THEN 1 ELSE 0)]
  /\ UNCHANGED <<now, at, wakes, dials, moved, wakeState, settles, reports>>

\* The room_settled event.
settleWake(s) ==
  LET c == settler[s] IN
  /\ c.pc = "running" /\ c.failing = None /\ c.todo = {}
  /\ reports' = reports \union {[settle |-> c.settle, tried |-> c.tried, woke |-> c.woke,
                                 forfeited |-> settles[c.settle].forfeited + c.stopped]}
  /\ settler' = [settler EXCEPT ![s] = Idle]
  /\ UNCHANGED <<now, at, wakes, dials, moved, wakeState, settles, tries>>

\* The invocation, or a transaction of it outside a try, fails.
Dies(s) ==
  /\ settler[s] # Idle
  /\ settler' = [settler EXCEPT ![s] = Idle]
  /\ UNCHANGED <<now, at, wakes, dials, moved, wakeState, settles, tries, reports>>

-----------------------------------------------------------------------------
(* The things and the clock                                                *)

\* An act moves a thing to another room.
Move(th, p) ==
  /\ dials < MaxDials /\ at[th] # p
  /\ at' = [at EXCEPT ![th] = p] /\ moved' = moved \union {th} /\ dials' = dials + 1
  /\ UNCHANGED <<now, wakes, wakeState, settles, tries, reports, settler>>

\* A thing is put to sleep, given away, held or offered, or its room blocks it; or
\* its owner wakes it again.
Switch(th) ==
  /\ dials < MaxDials
  /\ wakes' = [wakes EXCEPT ![th] = ~@] /\ dials' = dials + 1
  /\ UNCHANGED <<now, at, moved, wakeState, settles, tries, reports, settler>>

Tick ==
  /\ now < MaxTime
  /\ now' = now + 1
  /\ UNCHANGED <<at, wakes, dials, moved, wakeState, settles, tries, reports, settler>>

Next ==
  \/ \E s \in Settlers :
       \/ \E p \in Places, trigger \in {"arrive", "act"} : settleRoom(s, p, trigger)
       \/ ReadCandidates(s)
       \/ claimSettle(s)
       \/ \E u \in (IF settler[s].pc = "running" THEN settler[s].todo ELSE {}) :
            \/ \E effects \in 0..1 : runTry(s, u, effects)
            \/ \E committed \in BOOLEAN : TryThrows(s, u, committed)
            \/ StopTry(s, u)
       \/ recordTry(s)
       \/ settleWake(s)
       \/ Dies(s)
  \/ \E th \in Things : Switch(th) \/ \E p \in Places : Move(th, p)
  \/ Tick

Spec == Init /\ [][Next]_vars

-----------------------------------------------------------------------------
(* Properties                                                              *)

\* Types; anchors are never ahead of the clock.
TypeOK ==
  /\ now \in 0..MaxTime /\ at \in [Things -> Places] /\ wakes \in [Things -> BOOLEAN]
  /\ dials \in 0..MaxDials /\ moved \subseteq Things
  /\ wakeState \in [Things -> [last : {None} \union 0..now, clock : {None} \union 0..now]]
  /\ \A i \in DOMAIN settles : settles[i].place \in Places /\ settles[i].forfeited \in Nat
  /\ \A t \in tries : t.settle \in DOMAIN settles /\ t.status \in {"woke", "quiet", "failed", "stopped"}
  /\ \A s \in Settlers : settler[s].pc \in {"idle", "begun", "claiming", "running"}

\* No two settles claim the same owed interval of a thing, and a room settles only
\* after its quiet time, so that a thing tries not more often than it may.  A thing
\* that changed room is left out: the claims of two rooms hold two locks.
OwedOnce ==
  \A i, j \in DOMAIN settles : i # j =>
    /\ settles[i].place = settles[j].place =>
         settles[i].at - settles[j].at >= Quiet \/ settles[j].at - settles[i].at >= Quiet
    /\ \A th \in (DOMAIN settles[i].ticks \intersect DOMAIN settles[j].ticks) \ moved :
         settles[i].ticks[th] \intersect settles[j].ticks[th] = {}

\* What a settle reports is what the records say: every claimed try has one outcome,
\* the tries and wakes are those, and the owed ticks that were not tried are forfeited.
SettleReport ==
  \A r \in reports :
    LET settle == settles[r.settle]
        mine == {t \in tries : t.settle = r.settle}
        ran == {t \in mine : t.status # "stopped"}
    IN  /\ Cardinality(mine) = Cardinality(settle.units)
        /\ \A u \in settle.units : Recorded(r.settle, u)
        /\ r.tried = Cardinality(ran)
        /\ r.woke = Cardinality({t \in mine : t.status = "woke"})
        /\ r.forfeited + Cardinality({t \in ran : t.reason = "clock"})
             = Cardinality(Owing(settle.ticks))
=============================================================================

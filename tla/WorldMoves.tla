------------------------------- MODULE WorldMoves -------------------------------
(***************************************************************************)
(* Residents, places and things: moving, carrying, going home, building,   *)
(* giving, retiring (src/src/engine.ts, engine-effects.ts, engine-place-   *)
(* plan.ts, place-lifecycle-operation.ts, actions.ts, society.ts,          *)
(* withdrawal.ts, thing-making.ts, world.ts and the triggers of            *)
(* db/schema.sql).                                                         *)
(*                                                                         *)
(* Every call is one transaction that locks rows one at a time: the acting *)
(* resident, the planned rooms from the top of the tree down, the actor's  *)
(* presence, and then, late, other presences and things.  What it read     *)
(* before a lock is checked again after it.  Its writes become visible     *)
(* when it commits; the answer to the COMMIT may be lost, and an action    *)
(* then asks its stored resolution what happened.                          *)
(*                                                                         *)
(* Laws, recipes, offers, holds, names and room 454 are left out; an       *)
(* effect that moves another resident is the call "send".                  *)
(***************************************************************************)
EXTENDS Naturals, FiniteSets

CONSTANTS
  Residents, Things, Handlers,
  Places,          \* numbers: the ids places have, or will have once built
  World,           \* the root, which has no owner
  Parent,          \* of every place but the root; never changes
  OpenToBuilding,  \* places where visitors may build
  Partner,         \* the place a hinge edit names
  Requests,        \* the calls residents make: act, who, to, item, other
  Starts,          \* the cities the calls begin in
  MaxLost,         \* how many answers of the database get lost
  None

Acts == {"move", "go_home", "send", "send_home", "give_place", "hand_place", "give_thing", "make"}
Edits == {"set_home", "retire", "restore", "open", "close", "hinge", "build", "withdraw"}

VARIABLES
  place,  \* owner, open to things, state and hinge of every place
  at,     \* resident_presence.current_place_id
  home,   \* resident_presence.home_place_id
  thing,  \* owner, place, holder and state of every thing
  tx,     \* what every request handler does
  lost    \* how many answers got lost

world == <<place, at, home, thing>>
vars == <<place, at, home, thing, tx, lost>>

Above[p \in Places] == IF p = World THEN {p} ELSE {p} \cup Above[Parent[p]]
Depth(p) == Cardinality(Above[p])

Row ==
  ({"resident", "presence"} \X Residents) \cup ({"place"} \X Places) \cup ({"thing"} \X Things)

Idle ==
  [pc |-> "idle", act |-> None, who |-> None, to |-> None, item |-> None, other |-> None,
   sawAt |-> None, sawHome |-> None, rooms |-> {}, has |-> {}, verdict |-> None,
   stored |-> None, done |-> FALSE, answer |-> None]

PlaceRecord ==
  [owner : Residents \cup {None}, open : BOOLEAN,
   state : {"unbuilt", "active", "retired"}, hinge : Places \cup {None}]
ThingRecord ==
  [owner : Residents \cup {None}, place : Places \cup {None}, held : Residents \cup {None},
   state : {"unmade", "active", "gone"}]
Verdicts == {None, "applied", "blocked"}

\* Types.
TypeOK ==
  /\ place \in [Places -> PlaceRecord]
  /\ at \in [Residents -> Places]
  /\ home \in [Residents -> Places \cup {None}]
  /\ thing \in [Things -> ThingRecord]
  /\ lost \in 0 .. MaxLost
  /\ \A h \in Handlers :
       /\ tx[h].pc \in {"idle", "locking", "commit", "unknown", "insert", "done"}
       /\ tx[h].has \subseteq Row /\ tx[h].rooms \subseteq Places
       /\ tx[h].verdict \in Verdicts /\ tx[h].stored \in Verdicts \cup {"failed"}
       /\ tx[h].answer \in Verdicts \cup {"failed", "refused", "unconfirmed"}

Init ==
  /\ \E s \in Starts : place = s.place /\ at = s.at /\ home = s.home /\ thing = s.thing
  /\ tx = [h \in Handlers |-> Idle]
  /\ lost = 0

-----------------------------------------------------------------------------
(* Reading the city                                                        *)

Built(p) == place[p].state # "unbuilt"
Active(p) == place[p].state = "active"
Here(p) == {t \in Things : thing[t].state = "active" /\ thing[t].place = p}
Held(r) == {t \in Things : thing[t].held = r}
Subtree(p) == {q \in Places : Built(q) /\ p \in Above[q]}

\* placePermission: a place takes the things of its owner, or of everybody.
Permits(p, r) == place[p].owner = r \/ place[p].open

\* The tree's edges, and hinges that both sides name.
Adjacent(p, q) ==
  \/ q # World /\ Parent[q] = p
  \/ p # World /\ Parent[p] = q
  \/ place[p].hinge = q /\ place[q].hinge = p

-----------------------------------------------------------------------------
(* What each call may do, read from the current city; q is the call.       *)

\* A move that trusts the route: where it goes may have been retired since.
MutantCanGo(r, d) ==
  /\ d = at[r] \/ Adjacent(at[r], d)
  /\ \A t \in Held(r) : thing[t].place = at[r]

\* moveResident, for the resident r that a call moves to d.
CanGo(r, d) ==
  /\ Active(d)
  /\ d = at[r] \/ Adjacent(at[r], d)
  /\ \A t \in Held(r) : thing[t].place = at[r]

\* moveResidentWithCarry: luggage already held, or a thing of one's own here.
CanCarry(q) ==
  \/ q.item = None
  \/ q.to # at[q.who] /\ Held(q.who) = {q.item}
  \/ q.to # at[q.who] /\ Held(q.who) = {} /\ q.item \in Here(at[q.who])
       /\ thing[q.item].owner = q.who

\* goHome: a home is of use while it is one's own and active.
CanReturn(r) ==
  /\ home[r] # None /\ place[home[r]].owner = r /\ Active(home[r])
  /\ \A t \in Held(r) : thing[t].place = at[r]

\* moveEffectTarget: the other resident stands in the actor's room, and where
\* it goes has been reserved.
CanSend(q, d) == at[q.other] = q.sawAt /\ d \in q.rooms

\* COMPLETE_PLACE_LIFECYCLE_SQL, its decision.
CanRetire(q) ==
  /\ place[q.to].owner = q.who /\ Active(q.to)
  /\ \A p \in Places \ {World} : Parent[p] = q.to => ~Active(p)
  /\ Here(q.to) = {}
  /\ \A r \in Residents : at[r] # q.to
CanRestore(q) ==
  place[q.to].owner = q.who /\ place[q.to].state = "retired" /\ Active(Parent[q.to])

CanEdit(q) == place[q.to].owner = q.who /\ Active(q.to)
CanBuild(q) ==
  /\ ~Built(q.to) /\ Active(Parent[q.to]) /\ Parent[q.to] # World
  /\ place[Parent[q.to]].owner = q.who \/ Parent[q.to] \in OpenToBuilding
CanSetHome(q) == at[q.who] = q.to /\ place[q.to].owner = q.who /\ Active(q.to)
CanGivePlace(q) == \A p \in Subtree(q.to) : place[p].owner = q.who
CanGiveThing(q) ==
  /\ q.item \in Here(q.sawAt) /\ thing[q.item].owner = q.who /\ thing[q.item].held = None
CanMake(q) ==
  /\ thing[q.item].state = "unmade" /\ q.sawAt # World
  /\ Active(q.sawAt) /\ Permits(q.sawAt, q.who)
CanWithdraw(q) ==
  /\ thing[q.item].state = "active" /\ thing[q.item].owner = q.who
  /\ thing[q.item].place \in q.rooms

\* The checks of a call under its locks.
Can(q) ==
  CASE q.act = "move" -> CanGo(q.who, q.to) /\ CanCarry(q)
    [] q.act = "go_home" -> CanReturn(q.who)
    [] q.act = "send" -> CanSend(q, q.to) /\ CanGo(q.other, q.to)
    [] q.act = "send_home" -> CanSend(q, home[q.other]) /\ CanReturn(q.other)
    [] q.act = "give_place" -> CanGivePlace(q)
    [] q.act = "hand_place" -> place[q.to].owner = q.who
    [] q.act = "give_thing" -> CanGiveThing(q)
    [] q.act = "make" -> CanMake(q)
    [] q.act = "set_home" -> CanSetHome(q)
    [] q.act = "retire" -> CanRetire(q)
    [] q.act = "restore" -> CanRestore(q)
    [] q.act = "build" -> CanBuild(q)
    [] q.act = "withdraw" -> CanWithdraw(q)
    [] OTHER -> CanEdit(q)

\* What a route reads and refuses before the transaction.
Admitted(q) ==
  CASE q.act \in {"move", "send"} -> Built(q.to)
    [] q.act = "give_place" -> place[q.to].owner = q.who
    [] q.act = "give_thing" -> thing[q.item].owner = q.who /\ thing[q.item].held = None
    [] q.act = "withdraw" -> thing[q.item].owner = q.who /\ thing[q.item].state = "active"
    [] q.act = "hinge" -> CanEdit(q) /\ Active(Partner[q.to])
    [] q.act \in {"retire", "restore", "build", "open", "close"} -> Can(q)
    [] OTHER -> TRUE

-----------------------------------------------------------------------------
(* Which rows a call locks                                                 *)

\* The rooms a recipe that moves a resident or hands over a place may touch.
effectPlaceIds(q) == {at[q.who], q.to, home[q.who], home[q.other]}

\* prepareActionRooms, lockMoveRows, PAYMENT_ACTIVITY_LOCK_CTES: the rooms the
\* call plans, once it holds its resident.
Rooms(q) ==
  (CASE q.act = "move" -> {at[q.who], q.to, home[q.who]}
     [] q.act = "go_home" -> {at[q.who], home[q.who]}
     [] q.act \in {"send", "send_home", "hand_place"} -> effectPlaceIds(q)
     [] q.act = "give_place" -> Subtree(q.to) \cup {at[q.who], home[q.who]}
     [] q.act = "give_thing" -> {at[q.who], thing[q.item].place}
     [] q.act = "make" -> {at[q.who]}
     [] q.act \in {"retire", "restore"} -> {Parent[q.to], q.to}
     [] q.act = "build" -> {Parent[q.to]}
     [] q.act = "withdraw" -> q.rooms
     [] OTHER -> {q.to}) \ {None}

\* An owner or permission change that releases nothing.
MutantFreed(q) == {}

\* Whose luggage the triggers of an owner or permission change release.
Freed(q) ==
  CASE q.act = "open" -> {t \in Here(q.to) : thing[t].held # None}
    [] q.act = "hand_place" -> {t \in Here(q.to) : thing[t].held = q.other}
    [] q.act = "give_place" -> {t \in UNION {Here(p) : p \in Subtree(q.to)} : thing[t].held = q.other}
    [] OTHER -> {}

\* Homes a call clears: their own owner's, and stale ones of others.
Cleared(q) ==
  CASE q.act = "retire" -> {r \in Residents : home[r] = q.to}
    [] q.act = "give_place" -> {r \in Residents : home[r] \in Subtree(q.to)}
    [] OTHER -> {}

\* Presence rows a call locks: its own in its turn, others late.
OwnPresence(q) == IF q.act \in Acts \cup {"set_home", "retire", "restore"} THEN {q.who} ELSE {}
LatePresence(q) ==
  IF q.act \in {"send", "send_home"} THEN {q.other}
  ELSE IF Can(q) THEN Cleared(q) ELSE {}

\* lockActionThings takes the thing a move names, unless it is held;
\* moveResidentWithCarry the luggage or, without any, the thing again.
MoveThings(q) ==
  {t \in {q.item} \ {None} : thing[t].held = None}
  \cup (IF q.item # None /\ q.to = at[q.who] THEN {}
        ELSE IF Held(q.who) # {} THEN Held(q.who) ELSE {q.item} \ {None})

\* Things a call locks, after its rooms and presences.
LateThings(q) ==
  CASE q.act = "move" -> MoveThings(q)
    [] q.act = "go_home" -> Held(q.who)
    [] q.act \in {"send", "send_home"} -> IF at[q.other] = q.sawAt THEN Held(q.other) ELSE {}
    [] q.act \in {"give_thing", "withdraw"} -> {q.item}
    [] OTHER -> IF Can(q) THEN Freed(q) ELSE {}

Lacks(q, kind, ids) == {<<kind, i>> : i \in ids} \ q.has

\* Room locks without an ORDER BY.
MutantTopOf(rows) == rows

\* lockSharedPlaceRows: a parent before its child, rows at one depth by id.
TopDown(p, q) == Depth(p) < Depth(q) \/ (Depth(p) = Depth(q) /\ p < q)
TopOf(rows) == {x \in rows : \A y \in rows \ {x} : TopDown(x[2], y[2])}

\* The rows a call may ask for next; none when it holds all it needs.
Wants(q) ==
  LET actor == Lacks(q, "resident", {q.who})
      rooms == Lacks(q, "place", q.rooms)
      own == Lacks(q, "presence", OwnPresence(q))
      late == Lacks(q, "presence", LatePresence(q))
  IN  IF q.pc # "locking" THEN {}
      ELSE IF actor # {} THEN actor
      ELSE IF rooms # {} THEN TopOf(rooms)
      ELSE IF own # {} THEN own
      ELSE IF late # {} THEN late
      ELSE Lacks(q, "thing", LateThings(q))

Free(row) == \A h \in Handlers : row \notin tx[h].has

-----------------------------------------------------------------------------
(* What a call writes, all of it when it commits                           *)

\* writeResidentLocation, moveHeldThing and the carry: the luggage goes along
\* and is let go where the place permits things.
Go(r, d, luggage) ==
  /\ at' = [at EXCEPT ![r] = d]
  /\ thing' = [t \in Things |-> IF t \in luggage /\ d # at[r]
       THEN [thing[t] EXCEPT !.place = d, !.held = IF Permits(d, r) THEN None ELSE r]
       ELSE thing[t]]
  /\ UNCHANGED <<place, home>>

\* Owners change: hinges close, and luggage is released where its holder now
\* owns the room (close_place_hinge_on_owner_change,
\* release_held_luggage_on_place_access).
ChangeOwner(q, places) ==
  /\ place' = [p \in Places |-> IF p \in places
       THEN [place[p] EXCEPT !.owner = q.other, !.hinge = None] ELSE place[p]]
  /\ thing' = [t \in Things |-> IF t \in Freed(q) THEN [thing[t] EXCEPT !.held = None] ELSE thing[t]]
  /\ home' = [r \in Residents |-> IF r \in Cleared(q) THEN None ELSE home[r]]
  /\ UNCHANGED at

SetState(q, state) ==
  /\ place' = [place EXCEPT ![q.to].state = state,
                            ![q.to].hinge = IF state = "retired" THEN None ELSE @]
  /\ home' = [r \in Residents |-> IF r \in Cleared(q) THEN None ELSE home[r]]
  /\ UNCHANGED <<at, thing>>

Open(q) ==
  /\ place' = [place EXCEPT ![q.to].open = TRUE]
  /\ thing' = [t \in Things |-> IF t \in Freed(q) THEN [thing[t] EXCEPT !.held = None] ELSE thing[t]]
  /\ UNCHANGED <<at, home>>

Made(q) == [owner |-> q.who, place |-> q.sawAt, held |-> None, state |-> "active"]
BuiltPlace(q) == [owner |-> q.who, open |-> FALSE, state |-> "active", hinge |-> None]

SetPlace(q, record) == place' = [place EXCEPT ![q.to] = record] /\ UNCHANGED <<at, home, thing>>
SetThing(q, record) == thing' = [thing EXCEPT ![q.item] = record] /\ UNCHANGED <<place, at, home>>

Apply(q) ==
  \/ q.verdict = "blocked" /\ UNCHANGED world
  \/ /\ q.verdict = "applied"
     /\ \/ q.act = "move" /\ Go(q.who, q.to, Held(q.who) \cup {q.item})
        \/ q.act = "go_home" /\ Go(q.who, home[q.who], Held(q.who))
        \/ q.act = "send" /\ Go(q.other, q.to, Held(q.other))
        \/ q.act = "send_home" /\ Go(q.other, home[q.other], Held(q.other))
        \/ q.act = "give_place" /\ ChangeOwner(q, Subtree(q.to))
        \/ q.act = "hand_place" /\ ChangeOwner(q, {q.to})
        \/ q.act = "give_thing" /\ SetThing(q, [thing[q.item] EXCEPT !.owner = q.other])
        \/ q.act = "make" /\ SetThing(q, Made(q))
        \/ q.act = "withdraw" /\ SetThing(q, [thing[q.item] EXCEPT !.state = "gone", !.held = None])
        \/ q.act = "set_home" /\ home' = [home EXCEPT ![q.who] = q.to] /\ UNCHANGED <<place, at, thing>>
        \/ q.act = "retire" /\ SetState(q, "retired")
        \/ q.act = "restore" /\ SetState(q, "active")
        \/ q.act = "open" /\ Open(q)
        \/ q.act = "close" /\ SetPlace(q, [place[q.to] EXCEPT !.open = FALSE])
        \/ q.act = "hinge" /\ SetPlace(q, [place[q.to] EXCEPT !.hinge = Partner[q.to]])
        \/ q.act = "build" /\ SetPlace(q, BuiltPlace(q))

-----------------------------------------------------------------------------
(* The steps of a handler                                                  *)

\* A route admits the call; an action reads where its actor stands, and
\* withdrawThing the room of the thing.  What is made gets a number of its own.
Start(h, q) ==
  /\ q.other # q.who /\ Admitted(q)
  /\ q.act = "make" => \A g \in Handlers : tx[g].act = "make" => tx[g].item # q.item
  /\ tx' = [tx EXCEPT ![h] =
       [Idle EXCEPT !.pc = "locking", !.act = q.act, !.who = q.who, !.to = q.to,
                    !.item = q.item, !.other = q.other, !.sawAt = at[q.who],
                    !.rooms = IF q.act = "withdraw" THEN {thing[q.item].place} ELSE {}]]
  /\ UNCHANGED <<world, lost>>

\* A handler answers; without a transaction in doubt nothing else remains.
Done(q, answer) ==
  LET rest == IF q.has # {} THEN q
              ELSE [Idle EXCEPT !.act = q.act, !.stored = q.stored, !.done = q.done]
  IN  [rest EXCEPT !.pc = "done", !.answer = answer]

\* The transaction is undone.  An action records its failure next
\* (recordFailedExecution); another call answers its refusal.
Undone(q) ==
  IF q.act \in Acts THEN [q EXCEPT !.has = {}, !.pc = "insert"]
  ELSE Done([q EXCEPT !.has = {}], "refused")

Refuse(h) == tx' = [tx EXCEPT ![h] = Undone(@)] /\ UNCHANGED <<world, lost>>

\* An action is refused when its actor has moved since; otherwise it sees the
\* presence it plans with.
StillStands(q) == q.act \in Acts \ {"go_home"} => at[q.who] = q.sawAt

LockResident(h) ==
  LET q == tx[h]
      row == <<"resident", q.who>> IN
  /\ row \in Wants(q) /\ Free(row)
  /\ \/ ~StillStands(q) /\ Refuse(h)
     \/ /\ StillStands(q)
        /\ tx' = [tx EXCEPT ![h].has = {row}, ![h].sawAt = at[q.who],
                            ![h].sawHome = home[q.who], ![h].rooms = Rooms(q)]
        /\ UNCHANGED <<world, lost>>

\* An active block on the action (never on go_home) is the whole outcome.
Block(h) ==
  /\ tx[h].pc = "locking" /\ tx[h].act \in Acts \ {"go_home"}
  /\ tx[h].has = {<<"resident", tx[h].who>>}
  /\ tx' = [tx EXCEPT ![h].pc = "commit", ![h].verdict = "blocked"]
  /\ UNCHANGED <<world, lost>>

LockRoom(h) ==
  \E row \in Wants(tx[h]) :
    /\ row[1] = "place" /\ Free(row)
    /\ tx' = [tx EXCEPT ![h].has = @ \cup {row}]
    /\ UNCHANGED <<world, lost>>

\* Under its presence row an action checks what it planned with: where it
\* stood, its home, and the places it gives.
PlanHolds(q) ==
  q.act \in Acts =>
    /\ at[q.who] = q.sawAt /\ home[q.who] = q.sawHome
    /\ q.act = "give_place" => Subtree(q.to) \subseteq q.rooms

LockPresence(h) ==
  LET q == tx[h]
      row == <<"presence", q.who>> IN
  /\ row \in Wants(q) /\ Free(row)
  /\ \/ ~PlanHolds(q) /\ Refuse(h)
     \/ /\ PlanHolds(q)
        /\ tx' = [tx EXCEPT ![h].has = @ \cup {row}]
        /\ UNCHANGED <<world, lost>>

\* Another resident's presence, luggage, and what triggers release.
LockLate(h) ==
  \E row \in Wants(tx[h]) :
    /\ row[1] = "thing" \/ (row[1] = "presence" /\ row[2] # tx[h].who)
    /\ Free(row)
    /\ tx' = [tx EXCEPT ![h].has = @ \cup {row}]
    /\ UNCHANGED <<world, lost>>

\* With all rows held, the call checks and writes; it is ready to commit.
Execute(h) ==
  /\ tx[h].pc = "locking" /\ Wants(tx[h]) = {}
  /\ \/ ~Can(tx[h]) /\ Refuse(h)
     \/ /\ Can(tx[h])
        /\ tx' = [tx EXCEPT ![h].pc = "commit", ![h].verdict = "applied"]
        /\ UNCHANGED <<world, lost>>

\* What the database keeps of a commit: the writes and, of an action, its
\* resolution row.
Committed(q) ==
  [q EXCEPT !.has = {}, !.done = (q.verdict = "applied"),
            !.stored = IF q.act \in Acts THEN q.verdict ELSE None]

Commit(h) ==
  /\ tx[h].pc = "commit"
  /\ Apply(tx[h])
  /\ tx' = [tx EXCEPT ![h] = Done(Committed(@), @.verdict)]
  /\ UNCHANGED lost

\* The answer to COMMIT is lost (CommitOutcomeUnknownError): the transaction
\* was kept, was undone, or is still in doubt and holds its rows.
LoseCommit(h) ==
  /\ tx[h].pc = "commit" /\ lost < MaxLost
  /\ lost' = lost + 1
  /\ \/ Apply(tx[h]) /\ tx' = [tx EXCEPT ![h] = [Committed(@) EXCEPT !.pc = "unknown"]]
     \/ tx' = [tx EXCEPT ![h].has = {}, ![h].pc = "unknown"] /\ UNCHANGED world
     \/ tx' = [tx EXCEPT ![h].pc = "unknown"] /\ UNCHANGED world

InDoubt(q) == q.pc \notin {"locking", "commit"} /\ q.has # {}

\* The database ends a transaction in doubt.
Settle(h) ==
  /\ InDoubt(tx[h])
  /\ \/ Apply(tx[h]) /\ tx' = [tx EXCEPT ![h] = Committed(@)]
     \/ tx' = [tx EXCEPT ![h].has = {}] /\ UNCHANGED world
  /\ UNCHANGED lost

Answer(h, answer) == tx' = [tx EXCEPT ![h] = Done(@, answer)]

\* resolveUncertainCommit: a stored resolution answers; without one the
\* failure is inserted.  A call that is no action just reports the error.
ReadResolution(h) ==
  /\ tx[h].pc = "unknown"
  /\ \/ tx[h].act \notin Acts /\ Answer(h, "unconfirmed")
     \/ tx[h].act \in Acts /\ tx[h].stored # None /\ Answer(h, tx[h].stored)
     \/ tx[h].act \in Acts /\ tx[h].stored = None /\ tx' = [tx EXCEPT ![h].pc = "insert"]
  /\ UNCHANGED <<world, lost>>

\* A failure recorded beside a transaction in doubt.
MutantRecordFailure(h) ==
  /\ tx[h].pc = "insert"
  /\ \/ tx[h].stored # None /\ Answer(h, tx[h].stored)
     \/ /\ tx[h].stored = None
        /\ tx' = [tx EXCEPT ![h] = Done([@ EXCEPT !.stored = "failed"], "failed")]
  /\ UNCHANGED <<world, lost>>

\* recordActionResolution: the unique index makes the insert wait for a
\* transaction in doubt; whoever loses the conflict returns the stored row.
RecordFailure(h) ==
  /\ tx[h].pc = "insert" /\ ~InDoubt(tx[h])
  /\ \/ tx[h].stored # None /\ Answer(h, tx[h].stored)
     \/ /\ tx[h].stored = None
        /\ tx' = [tx EXCEPT ![h] = Done([@ EXCEPT !.stored = "failed"], "failed")]
  /\ UNCHANGED <<world, lost>>

\* The record cannot be read or written: the answer claims nothing.
GiveUp(h) ==
  /\ tx[h].pc \in {"unknown", "insert"} /\ lost < MaxLost
  /\ lost' = lost + 1
  /\ Answer(h, "unconfirmed")
  /\ UNCHANGED world

WaitsFor(g, h) == g # h /\ \E row \in Wants(tx[g]) : row \in tx[h].has
Circle(g, h) == WaitsFor(g, h) /\ WaitsFor(h, g)

\* PostgreSQL ends one of two transactions that wait for each other.
Victim(h) == (\E g \in Handlers : Circle(g, h)) /\ Refuse(h)

Step(h) ==
  \/ LockResident(h) \/ Block(h) \/ LockRoom(h) \/ LockPresence(h) \/ LockLate(h)
  \/ Execute(h) \/ Commit(h) \/ LoseCommit(h) \/ Settle(h)
  \/ ReadResolution(h) \/ RecordFailure(h) \/ GiveUp(h) \/ Victim(h)

Next ==
  \E h \in Handlers :
    \/ tx[h].pc = "idle" /\ \E q \in Requests : Start(h, q)
    \/ Step(h)

Spec == Init /\ [][Next]_vars

-----------------------------------------------------------------------------
(* Properties                                                              *)

\* Retired land is empty: nobody stands in it, no active thing and no active
\* place is in it, and nobody's home is there, whatever moved, was made, built
\* or set as a home while it was being retired, or restored.
RetiredIsEmpty ==
  \A p \in Places : place[p].state # "active" =>
    /\ \A r \in Residents : at[r] # p /\ home[r] # p
    /\ Here(p) = {}
    /\ \A c \in Places \ {World} : Parent[c] = p => ~Active(c)

\* Luggage is where its holder is, is the holder's own, and is let go as soon
\* as the place permits it; nothing is left lying in the world.
LuggageFollows ==
  \A t \in Things : thing[t].state = "active" =>
    /\ thing[t].held = None => thing[t].place # World
    /\ thing[t].held # None =>
         /\ thing[t].owner = thing[t].held
         /\ thing[t].place = at[thing[t].held]
         /\ ~Permits(thing[t].place, thing[t].held)

\* An action's answer is true and stays true: it was applied, or it was not
\* and no transaction of it is left that still could be.
AnswerIsTrue ==
  \A h \in Handlers : tx[h].act \in Acts =>
    /\ tx[h].stored = "applied" <=> tx[h].done
    /\ tx[h].answer = "applied" => tx[h].done
    /\ tx[h].answer \in {"failed", "blocked"} => ~tx[h].done /\ ~InDoubt(tx[h])
    /\ tx[h].pc = "done" /\ tx[h].stored = None => tx[h].answer = "unconfirmed"

\* Two calls wait for each other only where one of them asks late for the
\* presence of another resident: all other rows are asked for in one order.
OneLockOrder ==
  \A g, h \in Handlers : Circle(g, h) =>
    \E i \in {g, h} : \E row \in Wants(tx[i]) : row[1] = "presence" /\ row[2] # tx[i].who
=============================================================================

---------------------------- MODULE WorldMovesProofs ----------------------------
(***************************************************************************)
(* Proofs about WorldMoves, for every tree of places, every number of      *)
(* residents, things and concurrent calls, and every city to begin in.     *)
(*                                                                         *)
(* The argument is that of two-phase locking.  A call that is ready to     *)
(* commit still may do what it checked, and still holds every row that it  *)
(* will write, because every other call writes only rows that it holds     *)
(* itself.  What is not a row to lock (nobody in a room, nothing carried,  *)
(* no place built yet) is kept by the lock on the room.                    *)
(***************************************************************************)
EXTENDS WorldMoves, WellFoundedInduction, TLAPS

-----------------------------------------------------------------------------
(* What the proofs need of the constants                                   *)

RequestRecord ==
  [act : Acts \cup Edits, who : Residents, to : Places \cup {None},
   item : Things \cup {None}, other : Residents]
PlaceCalls == {"move", "send", "give_place", "hand_place"} \cup (Edits \ {"withdraw"})
ThingCalls == {"give_thing", "make", "withdraw"}

\* A call names a place or a thing where it needs one.
Fits(q) ==
  /\ q.act \in PlaceCalls => q.to \in Places
  /\ q.act \in ThingCalls => q.item \in Things

\* A city to begin in: nobody owns the world, retired land is empty, luggage is with its
\* one holder.
SoundCity(s) ==
  /\ s.place \in [Places -> PlaceRecord] /\ s.at \in [Residents -> Places]
  /\ s.home \in [Residents -> Places \cup {None}] /\ s.thing \in [Things -> ThingRecord]
  /\ s.place[World].owner = None /\ s.place[World].open = FALSE /\ s.place[World].state = "active"
  /\ \A p \in Places :
       /\ s.place[p].state = "unbuilt" => s.place[p].owner = None
       /\ s.place[p].state # "active" =>
            /\ \A r \in Residents : s.at[r] # p /\ s.home[r] # p
            /\ \A t \in Things : s.thing[t].state = "active" => s.thing[t].place # p
            /\ \A c \in Places \ {World} : Parent[c] = p => s.place[c].state # "active"
  /\ \A t \in Things :
       IF s.thing[t].state # "active" THEN s.thing[t].held = None
       ELSE /\ s.thing[t].place \in Places
            /\ IF s.thing[t].held = None THEN s.thing[t].place # World
               ELSE /\ s.thing[t].owner = s.thing[t].held
                    /\ s.thing[t].place = s.at[s.thing[t].held]
                    /\ s.place[s.thing[t].place].owner # s.thing[t].held
                    /\ s.place[s.thing[t].place].open = FALSE
                    /\ \A u \in Things : s.thing[u].held = s.thing[t].held => u = t

\* The places form a tree, whose function Above is as its definition says.
WorldAssumption ==
  /\ World \in Places /\ Places \subseteq Nat
  /\ \A p \in Places \ {World} : Parent[p] \in Places
  /\ \A p \in Places : /\ Above[p] = IF p = World THEN {p} ELSE {p} \cup Above[Parent[p]]
                       /\ Depth(p) \in Nat /\ Partner[p] \in Places
  /\ None \notin Residents \cup Places \cup Things /\ None \notin {"applied", "blocked", "failed"}
  /\ MaxLost \in Nat
  /\ \A q \in Requests : q \in RequestRecord /\ Fits(q)
  /\ \A s \in Starts : SoundCity(s)

-----------------------------------------------------------------------------
(* The inductive invariant                                                 *)

CityTyped ==
  /\ place \in [Places -> PlaceRecord] /\ at \in [Residents -> Places]
  /\ home \in [Residents -> Places \cup {None}] /\ thing \in [Things -> ThingRecord]

\* The world stays what it is, and what is not built is nobody's.
WorldStays ==
  /\ place[World].owner = None /\ place[World].open = FALSE /\ place[World].state = "active"
  /\ \A p \in Places : place[p].state = "unbuilt" => place[p].owner = None

\* Things that are not there are not held, and a resident holds one thing.
ThingsSound ==
  /\ \A t \in Things : /\ thing[t].state # "active" => thing[t].held = None
                       /\ thing[t].state = "active" => thing[t].place \in Places
  /\ \A t, u \in Things : thing[t].held = thing[u].held /\ thing[t].held # None => t = u

CityInv == CityTyped /\ WorldStays /\ ThingsSound /\ RetiredIsEmpty /\ LuggageFollows

TxRow ==
  [pc : {"idle", "locking", "commit", "unknown", "insert", "done"},
   act : Acts \cup Edits \cup {None}, who : Residents \cup {None}, to : Places \cup {None},
   item : Things \cup {None}, other : Residents \cup {None},
   sawAt : Places \cup {None}, sawHome : Places \cup {None},
   rooms : SUBSET Places, has : SUBSET Row, verdict : Verdicts,
   stored : Verdicts \cup {"failed"}, done : BOOLEAN,
   answer : Verdicts \cup {"failed", "refused", "unconfirmed"}]

\* A call whose transaction is open.
Live(q) == q.pc \in {"locking", "commit"} \/ q.has # {}

\* What was asked for and admitted.
Asked(q) ==
  /\ q.act \in Acts \cup Edits /\ q.who \in Residents /\ q.other \in Residents /\ q.other # q.who
  /\ Fits(q) /\ q.sawAt \in Places
  /\ q.act \in {"retire", "restore", "build"} => q.to # World
  /\ q.act = "give_place" => Built(q.to)

\* The rooms a call has planned once it holds its resident.
Planned(q) ==
  /\ q.act \in Acts => q.sawAt \in q.rooms
  /\ q.act \in {"move", "send", "hand_place", "set_home", "retire", "restore", "open", "close", "hinge"}
     => q.to \in q.rooms
  /\ q.act = "go_home" => q.sawHome = None \/ q.sawHome \in q.rooms
  /\ q.act \in {"retire", "restore", "build"} => Parent[q.to] \in q.rooms

HasRooms(q) == \A p \in q.rooms : <<"place", p>> \in q.has

\* Rows are locked in their order: resident, rooms, own presence, the rest.
InOrder(q) ==
  /\ q.has # {} => <<"resident", q.who>> \in q.has
  /\ \A r \in Residents : <<"resident", r>> \in q.has => r = q.who
  /\ \A p \in Places : <<"place", p>> \in q.has => p \in q.rooms
  /\ (\E r \in Residents : <<"presence", r>> \in q.has) => HasRooms(q)

\* What a call planned with still holds once it has locked its presence.
PlanStands(q) ==
  <<"presence", q.who>> \in q.has /\ q.act \in Acts =>
    /\ at[q.who] = q.sawAt /\ home[q.who] = q.sawHome
    /\ q.act = "give_place" => Subtree(q.to) \subseteq q.rooms

\* A call holds all that it reads and writes.
Holds(q) ==
  /\ <<"resident", q.who>> \in q.has /\ HasRooms(q)
  /\ \A r \in OwnPresence(q) \cup LatePresence(q) : <<"presence", r>> \in q.has
  /\ \A t \in LateThings(q) : <<"thing", t>> \in q.has

Prepared(q) == q.pc # "locking" /\ q.has # {} /\ q.verdict = "applied"

\* What is stored, done and answered.
Truthful(q) ==
  /\ q.pc = "locking" => q.verdict = None
  /\ q.pc = "commit" \/ InDoubt(q) => q.verdict # None
  /\ q.pc = "commit" => q.has # {}
  /\ q.pc = "idle" => q.has = {}
  /\ q.pc \in {"idle", "locking", "commit"} \/ q.has # {} => q.stored = None /\ ~q.done
  /\ q.pc # "done" => q.answer = None
  /\ q.act \in Acts =>
       /\ q.stored = "applied" <=> q.done
       /\ q.answer = "applied" => q.done
       /\ q.answer \in {"failed", "blocked"} => ~q.done /\ q.has = {}
       /\ q.pc = "done" /\ q.stored = None => q.answer = "unconfirmed"

\* The invariant of one call.
Good(q) ==
  /\ q \in TxRow /\ Truthful(q) /\ InOrder(q)
  /\ Live(q) => Asked(q)
  /\ q.has # {} => Planned(q)
  /\ PlanStands(q)
  /\ Prepared(q) => Can(q) /\ Holds(q)

AllCalls == {tx[h] : h \in Handlers}

\* No row is locked twice, and no two calls make the same thing.
Exclusive ==
  \A g, h \in Handlers : g # h =>
    /\ tx[g].has \cap tx[h].has = {}
    /\ tx[g].act = "make" /\ tx[h].act = "make" => tx[g].item = None \/ tx[g].item # tx[h].item

WorldInv ==
  /\ CityInv /\ tx = [h \in Handlers |-> tx[h]] /\ lost \in 0 .. MaxLost
  /\ \A q \in AllCalls : Good(q)
  /\ Exclusive

-----------------------------------------------------------------------------
(* Facts about the operators of the model                                  *)

LEMMA LeastNat ==
  ASSUME NEW T, T \subseteq Nat, T # {}
  PROVE  \E x \in T : \A y \in T : x <= y
<1>1. PICK x \in T : \A y \in T : ~(<<y, x>> \in OpToRel(<, Nat))
  BY NatLessThanWellFounded, WFMin, Zenon
<1>2. \A y \in T : ~(y < x)
  BY <1>1 DEF OpToRel
<1> QED BY <1>2

\* Of places to lock one is at the top.
LEMMA TopExists ==
  ASSUME WorldAssumption, NEW S, S \subseteq Places, S # {}
  PROVE  \E p \in S : \A x \in S \ {p} : TopDown(p, x)
<1>0. Places \subseteq Nat /\ \A p \in Places : Depth(p) \in Nat
  BY DEF WorldAssumption
<1>1. PICK d \in {Depth(p) : p \in S} : \A e \in {Depth(p) : p \in S} : d <= e
  BY <1>0, LeastNat
<1> DEFINE D == {p \in S : Depth(p) = d}
<1>2. PICK p \in D : \A x \in D : p <= x
  BY <1>0, <1>1, LeastNat
<1>3. ASSUME NEW x \in S \ {p} PROVE TopDown(p, x)
  <2>1. Depth(p) = d /\ d \in Nat /\ d <= Depth(x) /\ p \in Nat /\ x \in Nat /\ Depth(x) \in Nat /\ p # x
    BY <1>0, <1>1, <1>2
  <2>2. Depth(x) = d => p <= x
    BY <1>2
  <2> QED BY <2>1, <2>2 DEF TopDown
<1> QED BY <1>2, <1>3

\* No room is above itself.
LEMMA TopDownIsStrict ==
  ASSUME WorldAssumption, NEW p \in Places, NEW x \in Places, TopDown(p, x)
  PROVE  ~TopDown(x, p) /\ p # x
<1>1. p \in Nat /\ x \in Nat /\ Depth(p) \in Nat /\ Depth(x) \in Nat
  BY DEF WorldAssumption
<1> QED BY <1>1 DEF TopDown

\* A handler without a call.
LEMMA IdleIs == Idle \in TxRow
  BY DEF Idle, TxRow, Verdicts

\* The checks of each call.
LEMMA CanIs ==
  ASSUME NEW q
  PROVE  /\ q.act = "move" => (Can(q) <=> CanGo(q.who, q.to) /\ CanCarry(q))
         /\ q.act = "go_home" => (Can(q) <=> CanReturn(q.who))
         /\ q.act = "send" => (Can(q) <=> CanSend(q, q.to) /\ CanGo(q.other, q.to))
         /\ q.act = "send_home" => (Can(q) <=> CanSend(q, home[q.other]) /\ CanReturn(q.other))
         /\ q.act = "give_place" => (Can(q) <=> CanGivePlace(q))
         /\ q.act = "hand_place" => (Can(q) <=> place[q.to].owner = q.who)
         /\ q.act = "give_thing" => (Can(q) <=> CanGiveThing(q))
         /\ q.act = "make" => (Can(q) <=> CanMake(q))
         /\ q.act = "set_home" => (Can(q) <=> CanSetHome(q))
         /\ q.act = "retire" => (Can(q) <=> CanRetire(q))
         /\ q.act = "restore" => (Can(q) <=> CanRestore(q))
         /\ q.act = "build" => (Can(q) <=> CanBuild(q))
         /\ q.act = "withdraw" => (Can(q) <=> CanWithdraw(q))
         /\ q.act \in {"open", "close", "hinge"} => (Can(q) <=> CanEdit(q))
  BY DEF Can

\* The late presences and things of each call.
LEMMA LateIs ==
  ASSUME NEW q
  PROVE  /\ q.act \in {"send", "send_home"} => LatePresence(q) = {q.other}
         /\ q.act = "retire" /\ Can(q) => LatePresence(q) = {r \in Residents : home[r] = q.to}
         /\ q.act = "give_place" /\ Can(q) =>
              LatePresence(q) = {r \in Residents : home[r] \in Subtree(q.to)}
         /\ q.act \notin {"send", "send_home", "retire", "give_place"} => LatePresence(q) = {}
         /\ q.act = "move" => LateThings(q) = MoveThings(q)
         /\ q.act = "go_home" => LateThings(q) = Held(q.who)
         /\ q.act \in {"send", "send_home"} =>
              LateThings(q) = IF at[q.other] = q.sawAt THEN Held(q.other) ELSE {}
         /\ q.act \in {"give_thing", "withdraw"} => LateThings(q) = {q.item}
         /\ q.act = "open" /\ Can(q) => LateThings(q) = {t \in Here(q.to) : thing[t].held # None}
         /\ q.act = "hand_place" /\ Can(q) => LateThings(q) = {t \in Here(q.to) : thing[t].held = q.other}
         /\ q.act = "give_place" /\ Can(q) =>
              LateThings(q) = {t \in UNION {Here(p) : p \in Subtree(q.to)} : thing[t].held = q.other}
         /\ q.act \in {"make", "set_home", "retire", "restore", "build", "close", "hinge"} =>
              LateThings(q) = {}
<1>1. /\ q.act \in {"send", "send_home"} => LatePresence(q) = {q.other}
      /\ q.act \notin {"send", "send_home"} => LatePresence(q) = IF Can(q) THEN Cleared(q) ELSE {}
  BY DEF LatePresence
<1>2. /\ q.act = "retire" => Cleared(q) = {r \in Residents : home[r] = q.to}
      /\ q.act = "give_place" => Cleared(q) = {r \in Residents : home[r] \in Subtree(q.to)}
      /\ q.act \notin {"retire", "give_place"} => Cleared(q) = {}
  BY DEF Cleared
<1>3. /\ q.act = "move" => LateThings(q) = MoveThings(q)
      /\ q.act = "go_home" => LateThings(q) = Held(q.who)
      /\ q.act \in {"send", "send_home"} =>
           LateThings(q) = IF at[q.other] = q.sawAt THEN Held(q.other) ELSE {}
      /\ q.act \in {"give_thing", "withdraw"} => LateThings(q) = {q.item}
      /\ q.act \notin {"move", "go_home", "send", "send_home", "give_thing", "withdraw"} =>
           LateThings(q) = IF Can(q) THEN Freed(q) ELSE {}
  BY DEF LateThings
<1>4. /\ q.act = "open" => Freed(q) = {t \in Here(q.to) : thing[t].held # None}
      /\ q.act = "hand_place" => Freed(q) = {t \in Here(q.to) : thing[t].held = q.other}
      /\ q.act = "give_place" =>
           Freed(q) = {t \in UNION {Here(p) : p \in Subtree(q.to)} : thing[t].held = q.other}
      /\ q.act \notin {"open", "hand_place", "give_place"} => Freed(q) = {}
  BY DEF Freed
<1> HIDE DEF MoveThings
<1> QED BY <1>1, <1>2, <1>3, <1>4

\* What depends on the city alone stays while the city does.
LEMMA SameCity ==
  ASSUME NEW q, UNCHANGED world
  PROVE  /\ Can(q)' = Can(q) /\ Holds(q)' = Holds(q) /\ PlanStands(q)' = PlanStands(q)
         /\ Asked(q)' = Asked(q)
<1> USE DEF world
<1>1. Can(q)' = Can(q)
  BY DEF Can, CanGo, CanCarry, CanReturn, CanSend, CanRetire, CanRestore, CanEdit, CanBuild, CanSetHome,
         CanGivePlace, CanGiveThing, CanMake, CanWithdraw, Built, Active, Here, Held, Subtree, Permits, Adjacent
<1>2. LatePresence(q)' = LatePresence(q) /\ LateThings(q)' = LateThings(q)
  <2>1. Cleared(q)' = Cleared(q) /\ Freed(q)' = Freed(q)
    BY DEF Cleared, Freed, Subtree, Built, Here
  <2>2. MoveThings(q)' = MoveThings(q) /\ Held(q.who)' = Held(q.who) /\ Held(q.other)' = Held(q.other)
    BY DEF MoveThings, Held
  <2> QED BY <1>1, <2>1, <2>2 DEF LatePresence, LateThings
<1>3. Holds(q)' = Holds(q)
  BY <1>2 DEF Holds, HasRooms, OwnPresence
<1>4. PlanStands(q)' = PlanStands(q) /\ Asked(q)' = Asked(q)
  BY DEF PlanStands, Asked, Fits, Subtree, Built
<1> QED BY <1>1, <1>3, <1>4

-----------------------------------------------------------------------------
(* What a call that is ready to commit does to the city                    *)

Ready(q) ==
  /\ q \in TxRow /\ Asked(q) /\ Planned(q) /\ PlanStands(q) /\ Can(q) /\ Holds(q)
  /\ q.verdict = "applied"

\* A call writes only rows that it holds; it needs the room of whatever comes or goes, and
\* the parent of what it builds.
PlacesTouched(q) ==
  \A p \in Places :
    /\ place'[p] # place[p] =>
         \/ Built(p) /\ <<"place", p>> \in q.has
         \/ ~Built(p) /\ p # World /\ Active(Parent[p]) /\ <<"place", Parent[p]>> \in q.has
    /\ place'[p].state = "active" /\ ~Active(p) => p # World /\ <<"place", Parent[p]>> \in q.has
    /\ Built(p) => place'[p].state # "unbuilt"

ResidentsTouched(q) ==
  \A r \in Residents :
    /\ at'[r] # at[r] => /\ <<"presence", r>> \in q.has
                         /\ <<"place", at[r]>> \in q.has /\ <<"place", at'[r]>> \in q.has
    /\ home'[r] # home[r] => /\ <<"presence", r>> \in q.has
                             /\ home'[r] # None => <<"place", home'[r]>> \in q.has

ThingsTouched(q) ==
  \A t \in Things : thing'[t] # thing[t] =>
    /\ <<"thing", t>> \in q.has \/ thing[t].state = "unmade"
    /\ thing[t].state = "unmade" => q.act = "make" /\ q.item = t /\ thing'[t].held = None
    /\ thing[t].state = "active" => <<"place", thing[t].place>> \in q.has
    /\ thing'[t].state = "active" => <<"place", thing'[t].place>> \in q.has
    /\ thing'[t].held \notin {None, thing[t].held} => <<"presence", thing'[t].held>> \in q.has

Footprint(q) == PlacesTouched(q) /\ ResidentsTouched(q) /\ ThingsTouched(q)

\* The rows a ready call holds.
LEMMA ReadyRows ==
  ASSUME WorldAssumption, NEW q, Ready(q)
  PROVE  /\ q.who \in Residents /\ q.other \in Residents /\ q.other # q.who
         /\ q.act \in Acts =>
              /\ at[q.who] = q.sawAt /\ home[q.who] = q.sawHome
              /\ <<"presence", q.who>> \in q.has /\ <<"place", q.sawAt>> \in q.has
         /\ q.act \in {"move", "send", "hand_place", "set_home", "retire", "restore", "open", "close", "hinge"}
            => q.to \in Places /\ <<"place", q.to>> \in q.has
         /\ q.act \in {"give_place", "build"} => q.to \in Places
         /\ q.act \in {"retire", "restore", "build"} =>
              /\ q.to # World /\ Parent[q.to] \in Places /\ <<"place", Parent[q.to]>> \in q.has
         /\ q.act = "set_home" => <<"presence", q.who>> \in q.has
         /\ q.act = "give_place" => \A p \in Subtree(q.to) : <<"place", p>> \in q.has
         /\ q.act = "go_home" => q.sawHome = None \/ <<"place", q.sawHome>> \in q.has
         /\ q.act \in {"give_thing", "make", "withdraw"} => q.item \in Things
<1>1. q.act \in Acts \cup {"set_home"} => <<"presence", q.who>> \in q.has
  BY DEF Ready, Holds, OwnPresence
<1>2. q.who \in Residents /\ q.other \in Residents /\ q.other # q.who /\ Fits(q) /\ Planned(q) /\ HasRooms(q)
  BY DEF Ready, Asked, Holds
<1>3. q.act \in {"retire", "restore", "build"} => q.to # World
  BY DEF Ready, Asked
<1>4. q.act \in Acts => /\ at[q.who] = q.sawAt /\ home[q.who] = q.sawHome
                        /\ q.act = "give_place" => Subtree(q.to) \subseteq q.rooms
  BY <1>1 DEF Ready, PlanStands
<1> USE DEF Planned, HasRooms, Fits, PlaceCalls, ThingCalls, Edits
<1>5. q.act \in {"retire", "restore", "build"} => Parent[q.to] \in Places
  BY <1>2, <1>3 DEF WorldAssumption
<1>6. "give_place" \in Acts
  BY DEF Acts
<1> QED BY <1>1, <1>2, <1>3, <1>4, <1>5, <1>6

\* A resident r goes to d with luggage.
LEMMA GoKeeps ==
  ASSUME WorldAssumption, CityInv, NEW q, NEW r \in Residents, NEW d \in Places, NEW L, Active(d), Go(r, d, L),
         Held(r) \subseteq L,
         \A t \in L \cap Things :
           d # at[r] => thing[t].state = "active" /\ thing[t].owner = r /\ thing[t].place = at[r],
         \A t, u \in L \cap Things : t = u,
         <<"presence", r>> \in q.has, <<"place", at[r]>> \in q.has, <<"place", d>> \in q.has,
         \A t \in L \cap Things : d # at[r] => <<"thing", t>> \in q.has
  PROVE  CityInv' /\ Footprint(q)
<1> DEFINE moves(t) == t \in L /\ d # at[r]
           held == IF Permits(d, r) THEN None ELSE r
<1>1. /\ place' = place /\ home' = home
      /\ at' \in [Residents -> Places] /\ at'[r] = d /\ \A s \in Residents \ {r} : at'[s] = at[s]
  BY DEF Go, CityInv, CityTyped
<1>2. held \in {None, r}
  OBVIOUS
<1>3. held = None => d # World
  BY DEF Permits, CityInv, WorldStays, WorldAssumption
<1>4. held = r => ~Permits(d, r)
  BY DEF WorldAssumption
<1>5. \A t \in Things :
        /\ moves(t) => thing'[t] = [thing[t] EXCEPT !.place = d, !.held = held]
        /\ ~moves(t) => thing'[t] = thing[t]
  BY DEF Go
<1>6. thing' = [t \in Things |-> thing'[t]]
  BY DEF Go
<1> HIDE DEF held
<1>7. \A t \in Things : thing[t] \in ThingRecord
  BY DEF CityInv, CityTyped
<1>8. ASSUME NEW t \in Things, moves(t)
      PROVE  /\ thing'[t] \in ThingRecord /\ thing'[t].place = d /\ thing'[t].held = held
             /\ thing'[t].state = "active" /\ thing'[t].owner = r
             /\ thing[t].state = "active" /\ thing[t].place = at[r] /\ <<"thing", t>> \in q.has
  <2>1. thing[t].state = "active" /\ thing[t].owner = r /\ thing[t].place = at[r] /\ <<"thing", t>> \in q.has
    BY <1>8
  <2>2. thing'[t] = [thing[t] EXCEPT !.place = d, !.held = held] /\ thing[t] \in ThingRecord
    BY <1>5, <1>7, <1>8
  <2>3. held \in Residents \cup {None}
    BY <1>2
  <2>4. thing'[t] \in ThingRecord
    BY <2>2, <2>3, ZenonT(40) DEF ThingRecord
  <2>5. thing'[t].place = d /\ thing'[t].held = held /\ thing'[t].state = thing[t].state /\ thing'[t].owner = thing[t].owner
    BY <2>2, ZenonT(40) DEF ThingRecord
  <2> QED BY <2>1, <2>4, <2>5
<1>9. ASSUME NEW t \in Things, ~moves(t)
      PROVE  thing'[t] = thing[t] /\ (thing[t].held = r => d = at[r])
  BY <1>5, <1>9 DEF Held
<1> HIDE DEF moves
<1>10. CityTyped'
  <2>1. \A t \in Things : thing'[t] \in ThingRecord
    BY <1>7, <1>8, <1>9
  <2> QED BY <1>1, <1>6, <2>1 DEF CityInv, CityTyped
<1>11. WorldStays'
  BY <1>1 DEF CityInv, WorldStays
<1>12. ThingsSound'
  <2>1. \A t \in Things : /\ thing'[t].state # "active" => thing'[t].held = None
                          /\ thing'[t].state = "active" => thing'[t].place \in Places
    BY <1>8, <1>9 DEF CityInv, ThingsSound
  <2>2. ASSUME NEW t \in Things, NEW u \in Things, thing'[t].held = thing'[u].held, thing'[t].held # None
        PROVE  t = u
    <3>1. CASE moves(t) /\ moves(u)
      BY <3>1 DEF moves
    <3>2. CASE ~moves(t) /\ ~moves(u)
      BY <3>2, <1>9, <2>2 DEF CityInv, ThingsSound
    <3>3. CASE moves(t) /\ ~moves(u)
      BY <3>3, <1>2, <1>8, <1>9, <2>2 DEF moves
    <3>4. CASE ~moves(t) /\ moves(u)
      BY <3>4, <1>2, <1>8, <1>9, <2>2 DEF moves
    <3> QED BY <3>1, <3>2, <3>3, <3>4
  <2> QED BY <2>1, <2>2 DEF ThingsSound
<1>13. RetiredIsEmpty'
  <2> SUFFICES ASSUME NEW p \in Places, place'[p].state # "active"
               PROVE  /\ \A s \in Residents : at'[s] # p /\ home'[s] # p
                      /\ \A t \in Things : thing'[t].state = "active" => thing'[t].place # p
                      /\ \A c \in Places \ {World} : Parent[c] = p => place'[c].state # "active"
    BY DEF RetiredIsEmpty, Here, Active
  <2>1. d # p
    BY <1>1 DEF Active
  <2>2. /\ \A s \in Residents : at[s] # p /\ home[s] # p
        /\ \A t \in Things : thing[t].state = "active" => thing[t].place # p
        /\ \A c \in Places \ {World} : Parent[c] = p => place[c].state # "active"
    BY <1>1 DEF CityInv, RetiredIsEmpty, Here, Active
  <2> QED BY <1>1, <1>8, <1>9, <2>1, <2>2
<1>14. LuggageFollows'
  <2> SUFFICES ASSUME NEW t \in Things, thing'[t].state = "active"
               PROVE  /\ thing'[t].held = None => thing'[t].place # World
                      /\ thing'[t].held # None =>
                           /\ thing'[t].owner = thing'[t].held
                           /\ thing'[t].place = at'[thing'[t].held]
                           /\ ~Permits(thing'[t].place, thing'[t].held)
    BY <1>1 DEF LuggageFollows, Permits
  <2>1. CASE moves(t)
    BY <2>1, <1>1, <1>2, <1>3, <1>4, <1>8 DEF WorldAssumption
  <2>2. CASE ~moves(t)
    <3>1. /\ thing[t].held = None => thing[t].place # World
          /\ thing[t].held # None =>
               /\ thing[t].owner = thing[t].held
               /\ thing[t].place = at[thing[t].held]
               /\ ~Permits(thing[t].place, thing[t].held)
      BY <1>9, <2>2 DEF CityInv, LuggageFollows
    <3>2. thing[t].held # None => thing[t].held \in Residents
      BY <1>7 DEF ThingRecord
    <3> QED BY <1>1, <1>9, <2>2, <3>1, <3>2
  <2> QED BY <2>1, <2>2
<1>15. Footprint(q)
  <2>1. PlacesTouched(q)
    BY <1>1 DEF PlacesTouched, Built, Active
  <2>2. ResidentsTouched(q)
    BY <1>1 DEF ResidentsTouched
  <2>3. ThingsTouched(q)
    BY <1>2, <1>8, <1>9 DEF ThingsTouched
  <2> QED BY <2>1, <2>2, <2>3 DEF Footprint
<1> QED BY <1>10, <1>11, <1>12, <1>13, <1>14, <1>15 DEF CityInv

\* What a resident holds is there, is his own, and is one thing.
LEMMA HeldIsOwn ==
  ASSUME WorldAssumption, CityInv, NEW r \in Residents
  PROVE  /\ \A t \in Held(r) : /\ t \in Things /\ thing[t].state = "active" /\ thing[t].owner = r
                               /\ thing[t].place = at[r] /\ thing[t].held = r
         /\ \A t, u \in Held(r) : t = u
  BY DEF WorldAssumption, CityInv, ThingsSound, LuggageFollows, Held

LEMMA MoveKeeps ==
  ASSUME WorldAssumption, CityInv, NEW q, Ready(q), q.act = "move",
         Go(q.who, q.to, Held(q.who) \cup {q.item})
  PROVE  CityInv' /\ Footprint(q)
<1> DEFINE L == Held(q.who) \cup {q.item}
<1>0. "move" \in Acts
  BY DEF Acts
<1>1. /\ q.who \in Residents /\ at[q.who] = q.sawAt /\ <<"presence", q.who>> \in q.has
      /\ <<"place", at[q.who]>> \in q.has /\ q.to \in Places /\ <<"place", q.to>> \in q.has
  BY <1>0, ReadyRows
<1>2. CanGo(q.who, q.to) /\ CanCarry(q)
  BY CanIs DEF Ready
<1>3. None \notin Things
  BY DEF WorldAssumption
<1>4. /\ q.item \in Things => q.to # at[q.who]
      /\ q.item \in Things /\ Held(q.who) # {} => Held(q.who) = {q.item}
      /\ q.item \in Things /\ Held(q.who) = {} => /\ thing[q.item].state = "active"
           /\ thing[q.item].owner = q.who /\ thing[q.item].place = at[q.who]
  BY <1>2, <1>3 DEF CanCarry, Here
<1>5. \A t \in MoveThings(q) : <<"thing", t>> \in q.has
  BY LateIs DEF Ready, Holds
<1>6. \A t \in L \cap Things : q.to # at[q.who] => t \in MoveThings(q)
  BY <1>3, <1>4 DEF MoveThings
<1>7. \A t \in L \cap Things : q.to # at[q.who] =>
        thing[t].state = "active" /\ thing[t].owner = q.who /\ thing[t].place = at[q.who]
  BY <1>1, <1>4, HeldIsOwn
<1>8. \A t, u \in L \cap Things : t = u
  BY <1>1, <1>3, <1>4, HeldIsOwn
<1>9. Active(q.to)
  BY <1>2 DEF CanGo
<1> QED BY <1>1, <1>5, <1>6, <1>7, <1>8, <1>9, GoKeeps

\* Going home, and being sent: only the luggage goes along.
LEMMA LuggageKeeps ==
  ASSUME WorldAssumption, CityInv, NEW q, NEW r \in Residents, NEW d \in Places, Active(d),
         Go(r, d, Held(r)), <<"presence", r>> \in q.has, <<"place", at[r]>> \in q.has,
         <<"place", d>> \in q.has, \A t \in Held(r) : <<"thing", t>> \in q.has
  PROVE  CityInv' /\ Footprint(q)
  BY HeldIsOwn, GoKeeps

LEMMA GoHomeKeeps ==
  ASSUME WorldAssumption, CityInv, NEW q, Ready(q), q.act = "go_home", Go(q.who, home[q.who], Held(q.who))
  PROVE  CityInv' /\ Footprint(q)
<1>0. "go_home" \in Acts
  BY DEF Acts
<1>1. /\ q.who \in Residents /\ at[q.who] = q.sawAt /\ <<"presence", q.who>> \in q.has
      /\ <<"place", at[q.who]>> \in q.has /\ home[q.who] = q.sawHome
      /\ q.sawHome = None \/ <<"place", q.sawHome>> \in q.has
  BY <1>0, ReadyRows
<1>2. CanReturn(q.who)
  BY CanIs DEF Ready
<1>3. home[q.who] \in Places /\ Active(home[q.who]) /\ home[q.who] # None
  BY <1>1, <1>2 DEF CanReturn, CityInv, CityTyped
<1>4. \A t \in Held(q.who) : <<"thing", t>> \in q.has
  BY LateIs DEF Ready, Holds
<1> QED BY <1>1, <1>3, <1>4, LuggageKeeps

LEMMA SendKeeps ==
  ASSUME WorldAssumption, CityInv, NEW q, Ready(q), q.act \in {"send", "send_home"},
         NEW d, d = (IF q.act = "send" THEN q.to ELSE home[q.other]), Go(q.other, d, Held(q.other))
  PROVE  CityInv' /\ Footprint(q)
<1>0. q.act \in Acts
  BY DEF Acts
<1>1. q.other \in Residents /\ <<"place", q.sawAt>> \in q.has
  BY <1>0, ReadyRows
<1>2. CanSend(q, d) /\ Active(d) /\ d # None
  <2>1. CASE q.act = "send"
    <3>1. q.to \in Places
      BY <2>1, ReadyRows
    <3> QED BY <2>1, <3>1, CanIs DEF Ready, CanGo, WorldAssumption
  <2>2. CASE q.act = "send_home"
    BY <2>2, CanIs DEF Ready, CanReturn
  <2> QED BY <2>1, <2>2
<1>3. at[q.other] = q.sawAt /\ d \in q.rooms
  BY <1>2 DEF CanSend
<1>4. d \in Places /\ <<"place", d>> \in q.has
  BY <1>3 DEF Ready, TxRow, Holds, HasRooms
<1>5. <<"presence", q.other>> \in q.has
  BY LateIs DEF Ready, Holds
<1>6. \A t \in Held(q.other) : <<"thing", t>> \in q.has
  BY <1>3, LateIs DEF Ready, Holds
<1> QED BY <1>1, <1>2, <1>3, <1>4, <1>5, <1>6, LuggageKeeps

\* The owner of the places S becomes another resident.
LEMMA OwnerKeeps ==
  ASSUME WorldAssumption, CityInv, NEW q, NEW S, S \subseteq Places, q.other \in Residents, ChangeOwner(q, S),
         \A p \in S : p # World /\ Built(p) /\ <<"place", p>> \in q.has,
         \A t \in Things : t \in Freed(q) <=>
           thing[t].state = "active" /\ thing[t].place \in S /\ thing[t].held = q.other,
         \A t \in Things : t \in Freed(q) => <<"thing", t>> \in q.has,
         \A r \in Residents : r \in Cleared(q) => <<"presence", r>> \in q.has
  PROVE  CityInv' /\ Footprint(q)
<1> DEFINE F == Freed(q)
<1>1. /\ at' = at /\ place' = [p \in Places |-> place'[p]] /\ thing' = [t \in Things |-> thing'[t]]
      /\ home' = [r \in Residents |-> home'[r]]
      /\ \A r \in Residents : home'[r] = home[r] \/ (home'[r] = None /\ r \in Cleared(q))
  BY DEF ChangeOwner
<1>2. \A p \in Places : place[p] \in PlaceRecord
  BY DEF CityInv, CityTyped
<1>3. \A t \in Things : thing[t] \in ThingRecord
  BY DEF CityInv, CityTyped
<1>4. ASSUME NEW p \in Places
      PROVE  /\ p \notin S => place'[p] = place[p]
             /\ p \in S => /\ place'[p] \in PlaceRecord /\ place'[p].owner = q.other
                           /\ place'[p].open = place[p].open /\ place'[p].state = place[p].state
  <2>1. p \notin S => place'[p] = place[p]
    BY DEF ChangeOwner
  <2>2. p \in S => place'[p] = [place[p] EXCEPT !.owner = q.other, !.hinge = None]
    BY DEF ChangeOwner
  <2> QED BY <1>2, <2>1, <2>2 DEF PlaceRecord
<1>5. ASSUME NEW t \in Things
      PROVE  /\ t \notin F => thing'[t] = thing[t]
             /\ t \in F => /\ thing'[t] \in ThingRecord /\ thing'[t].held = None
                           /\ thing'[t].owner = thing[t].owner
                           /\ thing'[t].place = thing[t].place /\ thing'[t].state = thing[t].state
  <2>1. t \notin F => thing'[t] = thing[t]
    BY DEF ChangeOwner
  <2>2. t \in F => thing'[t] = [thing[t] EXCEPT !.held = None]
    BY DEF ChangeOwner
  <2> QED BY <1>3, <2>1, <2>2 DEF ThingRecord
<1>6. \A p \in Places : place'[p].state = place[p].state /\ place'[p].open = place[p].open
  BY <1>4
<1>7. \A t \in Things : /\ thing'[t].state = thing[t].state /\ thing'[t].place = thing[t].place
                        /\ thing'[t].owner = thing[t].owner
                        /\ thing'[t].held = IF t \in F THEN None ELSE thing[t].held
  BY <1>5
<1>8. CityTyped'
  <2>1. \A p \in Places : place'[p] \in PlaceRecord
    BY <1>2, <1>4
  <2>2. \A t \in Things : thing'[t] \in ThingRecord
    BY <1>3, <1>5
  <2> QED BY <1>1, <2>1, <2>2 DEF CityInv, CityTyped
<1>9. WorldStays'
  <2>1. World \in Places /\ World \notin S
    BY DEF WorldAssumption
  <2>2. place'[World] = place[World]
    BY <1>4, <2>1
  <2>3. ASSUME NEW p \in Places, place'[p].state = "unbuilt"
        PROVE  place'[p].owner = None
    <3>1. place[p].state = "unbuilt" /\ p \notin S
      BY <1>6, <2>3 DEF Built
    <3> QED BY <1>4, <3>1 DEF CityInv, WorldStays
  <2> QED BY <2>2, <2>3 DEF CityInv, WorldStays
<1>10. ThingsSound'
  BY <1>7 DEF CityInv, ThingsSound
<1>11. RetiredIsEmpty'
  BY <1>1, <1>6, <1>7 DEF CityInv, RetiredIsEmpty, Here, Active, WorldAssumption
<1>12. LuggageFollows'
  <2> SUFFICES ASSUME NEW t \in Things, thing'[t].state = "active"
               PROVE  /\ thing'[t].held = None => thing'[t].place # World
                      /\ thing'[t].held # None =>
                           /\ thing'[t].owner = thing'[t].held
                           /\ thing'[t].place = at'[thing'[t].held]
                           /\ place'[thing'[t].place].owner # thing'[t].held
                           /\ ~place'[thing'[t].place].open
    BY DEF LuggageFollows, Permits
  <2>1. /\ thing[t].held = None => thing[t].place # World
        /\ thing[t].held # None =>
             /\ thing[t].owner = thing[t].held
             /\ thing[t].place = at[thing[t].held]
             /\ place[thing[t].place].owner # thing[t].held
             /\ ~place[thing[t].place].open
    BY <1>7 DEF CityInv, LuggageFollows, Permits
  <2>2. thing[t].place \in Places
    BY <1>7 DEF CityInv, ThingsSound
  <2>3. CASE t \in F
    BY <1>7, <2>3
  <2>4. CASE t \notin F
    <3>1. thing'[t].held = thing[t].held
      BY <1>7, <2>4
    <3>2. CASE thing[t].place \in S
      BY <1>1, <1>4, <1>6, <1>7, <2>1, <2>2, <2>4, <3>1, <3>2
    <3>3. CASE thing[t].place \notin S
      BY <1>1, <1>4, <1>6, <1>7, <2>1, <2>2, <3>1, <3>3
    <3> QED BY <3>2, <3>3
  <2> QED BY <2>3, <2>4
<1>13. PlacesTouched(q)
  BY <1>4, <1>6 DEF PlacesTouched, Built, Active
<1>14. ResidentsTouched(q)
  BY <1>1 DEF ResidentsTouched
<1>15. ThingsTouched(q)
  BY <1>5, <1>7 DEF ThingsTouched
<1> QED BY <1>8, <1>9, <1>10, <1>11, <1>12, <1>13, <1>14, <1>15 DEF CityInv, Footprint

LEMMA GivePlaceKeeps ==
  ASSUME WorldAssumption, CityInv, NEW q, Ready(q), q.act = "give_place", ChangeOwner(q, Subtree(q.to))
  PROVE  CityInv' /\ Footprint(q)
<1> DEFINE S == Subtree(q.to)
<1>1. CanGivePlace(q)
  BY CanIs DEF Ready
<1>2. q.who \in Residents /\ q.other \in Residents /\ \A p \in S : <<"place", p>> \in q.has
  BY ReadyRows
<1>3. S \subseteq Places /\ \A p \in S : p # World /\ Built(p)
  BY <1>1, <1>2 DEF Subtree, CanGivePlace, CityInv, WorldStays, WorldAssumption
<1>4. Freed(q) = {t \in UNION {Here(p) : p \in S} : thing[t].held = q.other}
  BY DEF Freed
<1>5. LateThings(q) = Freed(q)
  BY <1>4, LateIs DEF Ready
<1>6. \A t \in Things : t \in Freed(q) <=>
           thing[t].state = "active" /\ thing[t].place \in S /\ thing[t].held = q.other
  BY <1>3, <1>4 DEF Here
<1>7. \A r \in Cleared(q) : <<"presence", r>> \in q.has
  BY LateIs DEF Ready, Holds, Cleared
<1> HIDE DEF S
<1>8. \A t \in Things : t \in Freed(q) => <<"thing", t>> \in q.has
  BY <1>5 DEF Ready, Holds
<1>9. ChangeOwner(q, S)
  BY DEF S
<1> QED BY <1>2, <1>3, <1>6, <1>7, <1>8, <1>9, OwnerKeeps

LEMMA HandPlaceKeeps ==
  ASSUME WorldAssumption, CityInv, NEW q, Ready(q), q.act = "hand_place", ChangeOwner(q, {q.to})
  PROVE  CityInv' /\ Footprint(q)
<1>1. place[q.to].owner = q.who
  BY CanIs DEF Ready
<1>2. q.who \in Residents /\ q.other \in Residents /\ q.to \in Places /\ <<"place", q.to>> \in q.has
  BY ReadyRows
<1>3. q.to # World /\ Built(q.to)
  BY <1>1, <1>2 DEF Built, CityInv, WorldStays, WorldAssumption
<1>4. Freed(q) = {t \in Here(q.to) : thing[t].held = q.other} /\ Cleared(q) = {}
  BY DEF Freed, Cleared
<1>5. LateThings(q) = Freed(q)
  BY <1>4, LateIs DEF Ready
<1>6. \A t \in Things : t \in Freed(q) <=>
           thing[t].state = "active" /\ thing[t].place \in {q.to} /\ thing[t].held = q.other
  BY <1>4 DEF Here
<1>7. \A t \in Things : t \in Freed(q) => <<"thing", t>> \in q.has
  BY <1>5 DEF Ready, Holds
<1> QED BY <1>2, <1>3, <1>4, <1>6, <1>7, OwnerKeeps

\* The record of one thing changes, and nobody holds it afterwards.
LEMMA ThingKeeps ==
  ASSUME WorldAssumption, CityInv, NEW q, q.item \in Things, NEW new \in ThingRecord, SetThing(q, new),
         new.held = None, new.state = "active" => Active(new.place) /\ new.place \in Places \ {World}
  PROVE  CityInv'
<1> USE DEF SetThing
<1>1. /\ thing'[q.item] = new /\ \A t \in Things \ {q.item} : thing'[t] = thing[t]
      /\ thing' \in [Things -> ThingRecord] /\ UNCHANGED <<place, at, home>>
  BY DEF CityInv, CityTyped
<1> HIDE DEF SetThing
<1>2. CityTyped' /\ WorldStays' /\ ThingsSound'
  BY <1>1 DEF CityInv, CityTyped, WorldStays, ThingsSound
<1>3. RetiredIsEmpty'
  <2>1. \A p \in Places : place[p].state # "active" =>
          \A t \in Things : thing'[t].state = "active" => thing'[t].place # p
    BY <1>1 DEF CityInv, RetiredIsEmpty, Here, Active
  <2> QED BY <1>1, <2>1 DEF CityInv, RetiredIsEmpty, Here, Active
<1>4. LuggageFollows'
  BY <1>1 DEF CityInv, LuggageFollows, Permits
<1> QED BY <1>2, <1>3, <1>4 DEF CityInv

LEMMA ThingTouched ==
  ASSUME NEW q, NEW new, CityTyped, SetThing(q, new),
         q.item \in Things => ThingsTouched(q)
  PROVE  q.item \in Things => Footprint(q)
  BY DEF SetThing, Footprint, PlacesTouched, ResidentsTouched, Built, Active

LEMMA GiveThingKeeps ==
  ASSUME WorldAssumption, CityInv, NEW q, Ready(q), q.act = "give_thing",
         SetThing(q, [thing[q.item] EXCEPT !.owner = q.other])
  PROVE  CityInv' /\ Footprint(q)
<1>0. "give_thing" \in Acts
  BY DEF Acts
<1>1. q.item \in Things /\ q.other \in Residents /\ <<"place", q.sawAt>> \in q.has
  BY <1>0, ReadyRows
<1>2. CanGiveThing(q)
  BY CanIs DEF Ready
<1>3. thing[q.item].state = "active" /\ thing[q.item].place = q.sawAt /\ thing[q.item].held = None
  BY <1>2 DEF CanGiveThing, Here
<1>4. PICK new : new = [thing[q.item] EXCEPT !.owner = q.other]
  OBVIOUS
<1>5. /\ new \in ThingRecord /\ new.held = None /\ new.state = "active" /\ new.place = thing[q.item].place
  <2>1. thing[q.item] \in ThingRecord
    BY <1>1 DEF CityInv, CityTyped
  <2> QED BY <1>1, <1>3, <1>4, <2>1 DEF ThingRecord
<1>6. SetThing(q, new)
  BY <1>4
<1>7. new.place \in Places \ {World} /\ Active(new.place)
  BY <1>1, <1>3, <1>5 DEF CityInv, ThingsSound, LuggageFollows, RetiredIsEmpty, Here, Active
<1>8. CityInv'
  BY <1>1, <1>5, <1>6, <1>7, ThingKeeps
<1>9. <<"thing", q.item>> \in q.has
  BY LateIs DEF Ready, Holds
<1>10. ThingsTouched(q)
  BY <1>1, <1>3, <1>5, <1>6, <1>9 DEF ThingsTouched, SetThing, CityInv, CityTyped
<1> QED BY <1>1, <1>6, <1>8, <1>10, ThingTouched DEF CityInv

LEMMA MakeKeeps ==
  ASSUME WorldAssumption, CityInv, NEW q, Ready(q), q.act = "make", SetThing(q, Made(q))
  PROVE  CityInv' /\ Footprint(q)
<1>0. "make" \in Acts
  BY DEF Acts
<1>1. q.item \in Things /\ q.who \in Residents /\ <<"place", q.sawAt>> \in q.has /\ q.sawAt \in Places
  BY <1>0, ReadyRows DEF Ready, Asked
<1>2. thing[q.item].state = "unmade" /\ q.sawAt # World /\ Active(q.sawAt)
  BY CanIs DEF Ready, CanMake
<1>3. /\ Made(q) \in ThingRecord /\ Made(q).held = None /\ Made(q).state = "active"
      /\ Made(q).place = q.sawAt
  BY <1>1 DEF Made, ThingRecord
<1>4. CityInv'
  BY <1>1, <1>2, <1>3, ThingKeeps
<1>5. ThingsTouched(q)
  BY <1>1, <1>2, <1>3 DEF ThingsTouched, SetThing, CityInv, CityTyped
<1> QED BY <1>1, <1>4, <1>5, ThingTouched DEF CityInv

LEMMA WithdrawKeeps ==
  ASSUME WorldAssumption, CityInv, NEW q, Ready(q), q.act = "withdraw",
         SetThing(q, [thing[q.item] EXCEPT !.state = "gone", !.held = None])
  PROVE  CityInv' /\ Footprint(q)
<1>1. q.item \in Things
  BY ReadyRows
<1>2. thing[q.item].state = "active" /\ thing[q.item].place \in q.rooms
  BY CanIs DEF Ready, CanWithdraw
<1>3. PICK new : new = [thing[q.item] EXCEPT !.state = "gone", !.held = None]
  OBVIOUS
<1>4. new \in ThingRecord /\ new.held = None /\ new.state = "gone"
  <2>1. thing[q.item] \in ThingRecord
    BY <1>1 DEF CityInv, CityTyped
  <2> QED BY <1>3, <2>1 DEF ThingRecord
<1>5. SetThing(q, new)
  BY <1>3
<1>6. CityInv'
  BY <1>1, <1>4, <1>5, ThingKeeps
<1>7. <<"thing", q.item>> \in q.has /\ <<"place", thing[q.item].place>> \in q.has
  BY <1>2, LateIs DEF Ready, Holds, HasRooms
<1>8. ThingsTouched(q)
  BY <1>1, <1>2, <1>4, <1>5, <1>7 DEF ThingsTouched, SetThing, CityInv, CityTyped
<1> QED BY <1>1, <1>5, <1>6, <1>8, ThingTouched DEF CityInv

LEMMA SetHomeKeeps ==
  ASSUME WorldAssumption, CityInv, NEW q, Ready(q), q.act = "set_home",
         home' = [home EXCEPT ![q.who] = q.to], UNCHANGED <<place, at, thing>>
  PROVE  CityInv' /\ Footprint(q)
<1>1. /\ q.who \in Residents /\ q.to \in Places /\ <<"place", q.to>> \in q.has
      /\ <<"presence", q.who>> \in q.has
  BY ReadyRows
<1>2. Active(q.to)
  BY CanIs DEF Ready, CanSetHome
<1>3. home' \in [Residents -> Places \cup {None}] /\ home'[q.who] = q.to
      /\ \A r \in Residents \ {q.who} : home'[r] = home[r]
  BY <1>1 DEF CityInv, CityTyped
<1>4. CityTyped' /\ WorldStays' /\ ThingsSound' /\ LuggageFollows'
  BY <1>3 DEF CityInv, CityTyped, WorldStays, ThingsSound, LuggageFollows, Permits
<1>5. RetiredIsEmpty'
  BY <1>1, <1>2, <1>3 DEF CityInv, RetiredIsEmpty, Here, Active
<1>6. Footprint(q)
  BY <1>1, <1>3 DEF Footprint, PlacesTouched, ResidentsTouched, ThingsTouched, Built, Active
<1> QED BY <1>4, <1>5, <1>6 DEF CityInv

\* A place is retired or restored.
LEMMA StateKeeps ==
  ASSUME WorldAssumption, CityInv, NEW q, Ready(q), q.act \in {"retire", "restore"},
         NEW state, state = (IF q.act = "retire" THEN "retired" ELSE "active"), SetState(q, state)
  PROVE  CityInv' /\ Footprint(q)
<1>1. /\ q.who \in Residents /\ q.to \in Places /\ <<"place", q.to>> \in q.has /\ q.to # World
      /\ Parent[q.to] \in Places /\ <<"place", Parent[q.to]>> \in q.has
  BY ReadyRows
<1>2. /\ q.act = "retire" => CanRetire(q)
      /\ q.act = "restore" => CanRestore(q)
  BY CanIs DEF Ready
<1>3. /\ at' = at /\ thing' = thing /\ home' = [r \in Residents |-> home'[r]]
      /\ \A r \in Residents : home'[r] = IF r \in Cleared(q) THEN None ELSE home[r]
      /\ \A p \in Places \ {q.to} : place'[p] = place[p]
  BY <1>1 DEF SetState, CityInv, CityTyped
<1>4. /\ place' \in [Places -> PlaceRecord]
      /\ place'[q.to].state = state /\ place'[q.to].owner = place[q.to].owner
      /\ place'[q.to].open = place[q.to].open
  <2>1. PICK hinge : hinge = (IF state = "retired" THEN None ELSE place[q.to].hinge)
    OBVIOUS
  <2>2. place' = [place EXCEPT ![q.to] = [place[q.to] EXCEPT !.state = state, !.hinge = hinge]]
    BY <2>1, <1>1 DEF SetState, CityInv, CityTyped
  <2>3. place[q.to] \in PlaceRecord /\ place \in [Places -> PlaceRecord]
    BY <1>1 DEF CityInv, CityTyped
  <2>4. hinge \in Places \cup {None} /\ state \in {"active", "retired"}
    BY <2>1, <2>3 DEF PlaceRecord
  <2> QED BY <1>1, <2>2, <2>3, <2>4 DEF PlaceRecord
<1>5. Built(q.to) /\ place[q.to].owner = q.who
  BY <1>2 DEF CanRetire, CanRestore, Active, Built
<1>6. CityTyped'
  BY <1>3, <1>4 DEF CityInv, CityTyped
<1>7. WorldStays'
  BY <1>1, <1>3, <1>4, <1>5 DEF CityInv, WorldStays, WorldAssumption, Built
<1>8. ThingsSound'
  BY <1>3 DEF CityInv, ThingsSound
<1>9. LuggageFollows'
  <2>1. \A p \in Places : place'[p].owner = place[p].owner /\ place'[p].open = place[p].open
    BY <1>3, <1>4
  <2> QED BY <1>3, <2>1 DEF CityInv, LuggageFollows, ThingsSound, Permits
<1>10. RetiredIsEmpty'
  <2> SUFFICES ASSUME NEW p \in Places, place'[p].state # "active"
               PROVE  /\ \A s \in Residents : at[s] # p /\ home'[s] # p
                      /\ \A t \in Things : thing[t].state = "active" => thing[t].place # p
                      /\ \A c \in Places \ {World} : Parent[c] = p => place'[c].state # "active"
    BY <1>3 DEF RetiredIsEmpty, Here, Active
  <2>0. None \notin Places
    BY DEF WorldAssumption
  <2>1. CASE p = q.to
    <3>1. q.act = "retire" /\ CanRetire(q)
      BY <1>2, <1>4, <2>1
    <3>2. \A c \in Places \ {World} : Parent[c] = p => c # q.to
      BY <2>1, <3>1 DEF CanRetire, Active
    <3>3. \A s \in Residents : home'[s] # p
      BY <1>3, <2>0, <2>1, <3>1 DEF Cleared
    <3> QED BY <1>3, <2>1, <3>1, <3>2, <3>3 DEF CanRetire, Active, Here
  <2>2. CASE p # q.to
    <3>1. place[p].state # "active"
      BY <1>3, <2>2
    <3>2. /\ \A s \in Residents : at[s] # p /\ home[s] # p
          /\ \A t \in Things : thing[t].state = "active" => thing[t].place # p
          /\ \A c \in Places \ {World} : Parent[c] = p => place[c].state # "active"
      BY <3>1 DEF CityInv, RetiredIsEmpty, Here, Active
    <3>3. place'[q.to].state = "active" => Parent[q.to] # p
      BY <1>2, <1>4, <3>1 DEF CanRestore, Active
    <3> QED BY <1>3, <2>0, <3>2, <3>3
  <2> QED BY <2>1, <2>2
<1>11. Footprint(q)
  <2>1. PlacesTouched(q)
    BY <1>1, <1>3, <1>4, <1>5 DEF PlacesTouched, Built, Active
  <2>2. ResidentsTouched(q)
    <3>1. \A r \in Cleared(q) : <<"presence", r>> \in q.has
      BY LateIs DEF Ready, Holds, Cleared
    <3> QED BY <1>3, <3>1 DEF ResidentsTouched
  <2> QED BY <1>3, <2>1, <2>2 DEF Footprint, ThingsTouched
<1> QED BY <1>6, <1>7, <1>8, <1>9, <1>10, <1>11 DEF CityInv

LEMMA OpenKeeps ==
  ASSUME WorldAssumption, CityInv, NEW q, Ready(q), q.act = "open", Open(q)
  PROVE  CityInv' /\ Footprint(q)
<1> DEFINE F == Freed(q)
<1>1. q.who \in Residents /\ q.to \in Places /\ <<"place", q.to>> \in q.has
  BY ReadyRows
<1>2. place[q.to].owner = q.who /\ Active(q.to)
  BY CanIs DEF Ready, CanEdit
<1>3. q.to # World /\ Built(q.to)
  BY <1>1, <1>2 DEF Built, Active, CityInv, WorldStays, WorldAssumption
<1>4. /\ at' = at /\ home' = home /\ thing' = [t \in Things |-> thing'[t]]
      /\ \A p \in Places \ {q.to} : place'[p] = place[p]
  BY DEF Open, CityInv, CityTyped
<1>5. /\ place' \in [Places -> PlaceRecord]
      /\ place'[q.to].state = place[q.to].state /\ place'[q.to].owner = place[q.to].owner
      /\ place'[q.to].open = TRUE
  <2>1. place[q.to] \in PlaceRecord /\ place \in [Places -> PlaceRecord]
    BY <1>1 DEF CityInv, CityTyped
  <2> QED BY <1>1, <2>1 DEF Open, PlaceRecord
<1>6. \A t \in Things : t \in F <=> thing[t].state = "active" /\ thing[t].place = q.to /\ thing[t].held # None
  BY DEF Freed, Here
<1>7. ASSUME NEW t \in Things
      PROVE  /\ t \notin F => thing'[t] = thing[t]
             /\ thing'[t] \in ThingRecord /\ thing'[t].held = IF t \in F THEN None ELSE thing[t].held
             /\ thing'[t].owner = thing[t].owner
             /\ thing'[t].place = thing[t].place /\ thing'[t].state = thing[t].state
  <2>1. t \notin F => thing'[t] = thing[t]
    BY DEF Open
  <2>2. t \in F => thing'[t] = [thing[t] EXCEPT !.held = None]
    BY DEF Open
  <2>3. thing[t] \in ThingRecord
    BY DEF CityInv, CityTyped
  <2> QED BY <2>1, <2>2, <2>3 DEF ThingRecord
<1>8. \A t \in F : <<"thing", t>> \in q.has
  BY LateIs DEF Ready, Holds, Freed
<1> HIDE DEF F
<1>9. CityTyped'
  BY <1>4, <1>5, <1>7 DEF CityInv, CityTyped
<1>10. \A p \in Places : place'[p].state = place[p].state /\ place'[p].owner = place[p].owner
  BY <1>4, <1>5
<1>11. WorldStays'
  BY <1>3, <1>4, <1>10 DEF CityInv, WorldStays, WorldAssumption
<1>12. ThingsSound'
  BY <1>7 DEF CityInv, ThingsSound
<1>13. RetiredIsEmpty'
  BY <1>4, <1>7, <1>10 DEF CityInv, RetiredIsEmpty, Here, Active
<1>14. LuggageFollows'
  <2> SUFFICES ASSUME NEW t \in Things, thing'[t].state = "active"
               PROVE  /\ thing'[t].held = None => thing'[t].place # World
                      /\ thing'[t].held # None =>
                           /\ thing'[t].owner = thing'[t].held
                           /\ thing'[t].place = at'[thing'[t].held]
                           /\ place'[thing'[t].place].owner # thing'[t].held
                           /\ ~place'[thing'[t].place].open
    BY DEF LuggageFollows, Permits
  <2>1. /\ thing[t].held = None => thing[t].place # World
        /\ thing[t].held # None =>
             /\ thing[t].owner = thing[t].held
             /\ thing[t].place = at[thing[t].held]
             /\ place[thing[t].place].owner # thing[t].held
             /\ ~place[thing[t].place].open
    BY <1>7 DEF CityInv, LuggageFollows, Permits
  <2>2. thing[t].place \in Places
    BY <1>7 DEF CityInv, ThingsSound
  <2>3. CASE t \in F
    BY <1>3, <1>6, <1>7, <2>3
  <2>4. CASE t \notin F
    BY <1>4, <1>6, <1>7, <2>1, <2>2, <2>4
  <2> QED BY <2>3, <2>4
<1>15. Footprint(q)
  <2>1. PlacesTouched(q)
    BY <1>1, <1>3, <1>4, <1>10 DEF PlacesTouched, Built, Active
  <2>2. ThingsTouched(q)
    BY <1>1, <1>6, <1>7, <1>8 DEF ThingsTouched
  <2> QED BY <1>4, <2>1, <2>2 DEF Footprint, ResidentsTouched
<1> QED BY <1>9, <1>11, <1>12, <1>13, <1>14, <1>15 DEF CityInv

\* The record of one place changes and lets nothing in: it is closed, or its hinge is set,
\* or it is built.
LEMMA PlaceKeeps ==
  ASSUME WorldAssumption, CityInv, NEW q, q.to \in Places \ {World}, NEW new \in PlaceRecord, SetPlace(q, new),
         new.state = "active", new.open => place[q.to].open,
         \/ Active(q.to) /\ new.owner = place[q.to].owner
         \/ ~Active(q.to) /\ Active(Parent[q.to]) /\ new.open = FALSE
  PROVE  CityInv'
<1>1. /\ place'[q.to] = new /\ \A p \in Places \ {q.to} : place'[p] = place[p]
      /\ place' \in [Places -> PlaceRecord] /\ UNCHANGED <<at, home, thing>>
  BY DEF CityInv, CityTyped, SetPlace
<1>2. CityTyped' /\ ThingsSound'
  BY <1>1 DEF CityInv, CityTyped, ThingsSound
<1>3. WorldStays'
  BY <1>1 DEF CityInv, WorldStays, WorldAssumption
<1>4. RetiredIsEmpty'
  <2> SUFFICES ASSUME NEW p \in Places, place'[p].state # "active"
               PROVE  /\ \A s \in Residents : at[s] # p /\ home[s] # p
                      /\ \A t \in Things : thing[t].state = "active" => thing[t].place # p
                      /\ \A c \in Places \ {World} : Parent[c] = p => place'[c].state # "active"
    BY <1>1 DEF RetiredIsEmpty, Here, Active
  <2>1. p # q.to /\ place[p].state # "active"
    BY <1>1
  <2>2. /\ \A s \in Residents : at[s] # p /\ home[s] # p
        /\ \A t \in Things : thing[t].state = "active" => thing[t].place # p
        /\ \A c \in Places \ {World} : Parent[c] = p => place[c].state # "active"
    BY <2>1 DEF CityInv, RetiredIsEmpty, Here, Active
  <2>3. Parent[q.to] # p
    BY <2>1, <2>2 DEF Active
  <2> QED BY <1>1, <2>2, <2>3
<1>5. LuggageFollows'
  <2>1. ASSUME NEW t \in Things, thing[t].state = "active", thing[t].held # None
        PROVE  /\ place'[thing[t].place].owner # thing[t].held
               /\ ~place'[thing[t].place].open
    <3>1. thing[t].place \in Places /\ Active(thing[t].place)
      BY <2>1 DEF CityInv, ThingsSound, RetiredIsEmpty, Here, Active
    <3>2. ~Permits(thing[t].place, thing[t].held)
      BY <2>1 DEF CityInv, LuggageFollows
    <3> QED BY <1>1, <3>1, <3>2 DEF Permits
  <2> QED BY <1>1, <2>1 DEF CityInv, LuggageFollows, Permits
<1> QED BY <1>2, <1>3, <1>4, <1>5 DEF CityInv

LEMMA EditKeeps ==
  ASSUME WorldAssumption, CityInv, NEW q, Ready(q), q.act \in {"close", "hinge"}, NEW new,
         new = (IF q.act = "close" THEN [place[q.to] EXCEPT !.open = FALSE]
                ELSE [place[q.to] EXCEPT !.hinge = Partner[q.to]]),
         SetPlace(q, new)
  PROVE  CityInv' /\ Footprint(q)
<1>1. q.who \in Residents /\ q.to \in Places /\ <<"place", q.to>> \in q.has
  BY ReadyRows
<1>2. place[q.to].owner = q.who /\ Active(q.to)
  BY CanIs DEF Ready, CanEdit
<1>3. q.to # World
  BY <1>1, <1>2 DEF CityInv, WorldStays, WorldAssumption
<1>4. /\ new \in PlaceRecord /\ new.state = place[q.to].state /\ new.owner = place[q.to].owner
      /\ new.open => place[q.to].open
  <2>1. place[q.to] \in PlaceRecord /\ Partner[q.to] \in Places
    BY <1>1 DEF CityInv, CityTyped, WorldAssumption
  <2>2. CASE q.act = "close"
    <3>1. new = [place[q.to] EXCEPT !.open = FALSE]
      BY <2>2
    <3> QED BY <2>1, <3>1 DEF PlaceRecord
  <2>3. CASE q.act = "hinge"
    <3>1. new = [place[q.to] EXCEPT !.hinge = Partner[q.to]]
      BY <2>3
    <3> QED BY <2>1, <3>1 DEF PlaceRecord
  <2> QED BY <2>2, <2>3
<1>5. CityInv'
  BY <1>1, <1>2, <1>3, <1>4, PlaceKeeps DEF Active
<1>6. Footprint(q)
  BY <1>1, <1>2, <1>4 DEF SetPlace, Footprint, PlacesTouched, ResidentsTouched, ThingsTouched, Built, Active,
     CityInv, CityTyped
<1> QED BY <1>5, <1>6

LEMMA BuildKeeps ==
  ASSUME WorldAssumption, CityInv, NEW q, Ready(q), q.act = "build", SetPlace(q, BuiltPlace(q))
  PROVE  CityInv' /\ Footprint(q)
<1>1. /\ q.who \in Residents /\ q.to \in Places /\ q.to # World
      /\ Parent[q.to] \in Places /\ <<"place", Parent[q.to]>> \in q.has
  BY ReadyRows
<1>2. ~Built(q.to) /\ Active(Parent[q.to])
  BY CanIs DEF Ready, CanBuild
<1>3. BuiltPlace(q) \in PlaceRecord /\ BuiltPlace(q).state = "active" /\ BuiltPlace(q).open = FALSE
  BY <1>1 DEF BuiltPlace, PlaceRecord
<1>4. ~Active(q.to)
  BY <1>2 DEF Built, Active
<1>5. CityInv'
  BY <1>1, <1>2, <1>3, <1>4, PlaceKeeps
<1>6. Footprint(q)
  BY <1>1, <1>2, <1>3 DEF SetPlace, Footprint, PlacesTouched, ResidentsTouched, ThingsTouched, Built, Active,
     CityInv, CityTyped
<1> QED BY <1>5, <1>6

\* A commit keeps the city sound and stays within the rows of its call.
LEMMA ApplyKeeps ==
  ASSUME WorldAssumption, CityInv, NEW q, Ready(q), Apply(q)
  PROVE  CityInv' /\ Footprint(q)
<1>0. q.verdict = "applied"
  BY DEF Ready
<1>1. CASE q.act = "move" /\ Go(q.who, q.to, Held(q.who) \cup {q.item})
  BY <1>1, MoveKeeps
<1>2. CASE q.act = "go_home" /\ Go(q.who, home[q.who], Held(q.who))
  BY <1>2, GoHomeKeeps
<1>3. CASE q.act = "send" /\ Go(q.other, q.to, Held(q.other))
  BY <1>3, SendKeeps
<1>4. CASE q.act = "send_home" /\ Go(q.other, home[q.other], Held(q.other))
  BY <1>4, SendKeeps
<1>5. CASE q.act = "give_place" /\ ChangeOwner(q, Subtree(q.to))
  BY <1>5, GivePlaceKeeps
<1>6. CASE q.act = "hand_place" /\ ChangeOwner(q, {q.to})
  BY <1>6, HandPlaceKeeps
<1>7. CASE q.act = "give_thing" /\ SetThing(q, [thing[q.item] EXCEPT !.owner = q.other])
  BY <1>7, GiveThingKeeps
<1>8. CASE q.act = "make" /\ SetThing(q, Made(q))
  BY <1>8, MakeKeeps
<1>9. CASE q.act = "withdraw" /\ SetThing(q, [thing[q.item] EXCEPT !.state = "gone", !.held = None])
  BY <1>9, WithdrawKeeps
<1>10. CASE q.act = "set_home" /\ home' = [home EXCEPT ![q.who] = q.to] /\ UNCHANGED <<place, at, thing>>
  BY <1>10, SetHomeKeeps
<1>11. CASE q.act = "retire" /\ SetState(q, "retired")
  BY <1>11, StateKeeps
<1>12. CASE q.act = "restore" /\ SetState(q, "active")
  BY <1>12, StateKeeps
<1>13. CASE q.act = "open" /\ Open(q)
  BY <1>13, OpenKeeps
<1>14. CASE q.act = "close" /\ SetPlace(q, [place[q.to] EXCEPT !.open = FALSE])
  BY <1>14, EditKeeps
<1>15. CASE q.act = "hinge" /\ SetPlace(q, [place[q.to] EXCEPT !.hinge = Partner[q.to]])
  BY <1>15, EditKeeps
<1>16. CASE q.act = "build" /\ SetPlace(q, BuiltPlace(q))
  BY <1>16, BuildKeeps
<1> QED BY <1>0, <1>1, <1>2, <1>3, <1>4, <1>5, <1>6, <1>7, <1>8, <1>9, <1>10, <1>11, <1>12, <1>13, <1>14,
           <1>15, <1>16 DEF Apply

-----------------------------------------------------------------------------
(* What a commit leaves to the other calls                                 *)

\* Another call g, none of whose rows the commit of q holds.
Beside(q, g) ==
  /\ Footprint(q) /\ g.has \cap q.has = {}
  /\ q.act = "make" /\ g.act = "make" => q.item = None \/ q.item # g.item

\* What a row keeps as it is while g holds it: the row itself and, for a room, who and what
\* is in it and what is built in it.
RoomStays(p) ==
  /\ Built(p) => place'[p] = place[p]
  /\ \A t \in Things :
       \/ thing[t].state = "active" /\ thing[t].place = p
       \/ thing'[t].state = "active" /\ thing'[t].place = p
       => thing'[t] = thing[t]
  /\ \A r \in Residents : /\ at'[r] = p <=> at[r] = p
                          /\ home'[r] = p => home[r] = p
  /\ \A c \in Places \ {World} : Parent[c] = p =>
       /\ place'[c].state = "active" => Active(c)
       /\ ~Built(c) => place'[c] = place[c]

LEMMA RoomsStay ==
  ASSUME WorldAssumption, CityTyped, NEW q, NEW g, Beside(q, g), NEW p \in Places, <<"place", p>> \in g.has
  PROVE  RoomStays(p)
<1>0. <<"place", p>> \notin q.has /\ PlacesTouched(q) /\ ResidentsTouched(q) /\ ThingsTouched(q)
  BY DEF Beside, Footprint
<1>1. Built(p) => place'[p] = place[p]
  BY <1>0 DEF PlacesTouched
<1>2. ASSUME NEW t \in Things,
             \/ thing[t].state = "active" /\ thing[t].place = p
             \/ thing'[t].state = "active" /\ thing'[t].place = p
      PROVE  thing'[t] = thing[t]
  BY <1>0, <1>2 DEF ThingsTouched
<1>3. ASSUME NEW r \in Residents
      PROVE  (at'[r] = p <=> at[r] = p) /\ (home'[r] = p => home[r] = p)
  <2>1. p # None
    BY DEF WorldAssumption
  <2> QED BY <1>0, <2>1 DEF ResidentsTouched
<1>4. ASSUME NEW c \in Places \ {World}, Parent[c] = p
      PROVE  /\ place'[c].state = "active" => Active(c)
             /\ ~Built(c) => place'[c] = place[c]
  BY <1>0, <1>4 DEF PlacesTouched
<1> QED BY <1>1, <1>2, <1>3, <1>4 DEF RoomStays

LEMMA RowsStay ==
  ASSUME NEW q, NEW g, Beside(q, g)
  PROVE  /\ \A r \in Residents : <<"presence", r>> \in g.has => at'[r] = at[r] /\ home'[r] = home[r]
         /\ \A p \in Places : Built(p) => place'[p].state # "unbuilt"
  BY DEF Beside, Footprint, ResidentsTouched, PlacesTouched

\* Whoever is locked with his room keeps his luggage.
LEMMA LuggageStays ==
  ASSUME WorldAssumption, CityInv, CityInv', NEW q, NEW g, Beside(q, g), NEW r \in Residents,
         <<"presence", r>> \in g.has, <<"place", at[r]>> \in g.has
  PROVE  /\ at'[r] = at[r] /\ home'[r] = home[r] /\ Held(r)' = Held(r)
         /\ \A t \in Held(r) : thing'[t] = thing[t]
         /\ Active(at[r]) /\ place'[at[r]] = place[at[r]]
<1>1. at'[r] = at[r] /\ home'[r] = home[r] /\ at[r] \in Places
  BY RowsStay DEF CityInv, CityTyped
<1>2. RoomStays(at[r])
  BY <1>1, RoomsStay DEF CityInv
<1>3. ASSUME NEW t \in Things, thing[t].held = r \/ thing'[t].held = r
      PROVE  thing'[t] = thing[t]
  <2>0. r # None
    BY DEF WorldAssumption
  <2>1. CASE thing[t].held = r
    <3>1. thing[t].state = "active" /\ thing[t].place = at[r]
      BY <2>0, <2>1 DEF CityInv, ThingsSound, LuggageFollows
    <3> QED BY <1>2, <3>1 DEF RoomStays
  <2>2. CASE thing'[t].held = r
    <3>1. thing'[t].state = "active" /\ thing'[t].place = at'[r]
      BY <2>0, <2>2 DEF CityInv, ThingsSound, LuggageFollows
    <3> QED BY <1>1, <1>2, <3>1 DEF RoomStays
  <2> QED BY <1>3, <2>1, <2>2
<1>4. Held(r)' = Held(r) /\ \A t \in Held(r) : thing'[t] = thing[t]
  BY <1>3 DEF Held
<1>5. Active(at[r])
  BY <1>1 DEF CityInv, RetiredIsEmpty, Active
<1>6. place'[at[r]] = place[at[r]]
  BY <1>2, <1>5 DEF RoomStays, Active, Built
<1> QED BY <1>1, <1>4, <1>5, <1>6

\* Nobody builds below a place whose whole subtree is locked.
LEMMA SubtreeStays ==
  ASSUME WorldAssumption, CityTyped, NEW q, NEW g, Beside(q, g), NEW p \in Places, Built(p),
         \A x \in Subtree(p) : <<"place", x>> \in g.has
  PROVE  /\ Subtree(p)' = Subtree(p)
         /\ \A x \in Subtree(p) : x \in Places /\ Built(x) /\ RoomStays(x) /\ place'[x] = place[x]
<1>1. ASSUME NEW x \in Places, p \in Above[x]
      PROVE  Built(x)' <=> Built(x)
  <2>1. Built(x) => Built(x)'
    BY RowsStay DEF Built
  <2>2. ASSUME Built(x)', ~Built(x) PROVE FALSE
    <3>1. place'[x] # place[x]
      BY <2>2 DEF Built
    <3>2. x # World /\ Active(Parent[x]) /\ <<"place", Parent[x]>> \in q.has
      BY <2>2, <3>1 DEF Beside, Footprint, PlacesTouched
    <3>3. p # x /\ Parent[x] \in Places /\ p \in Above[Parent[x]]
      BY <1>1, <2>2, <3>2 DEF WorldAssumption
    <3>4. Parent[x] \in Subtree(p)
      BY <3>2, <3>3 DEF Subtree, Built, Active
    <3> QED BY <3>2, <3>4 DEF Beside
  <2> QED BY <2>1, <2>2
<1>2. Subtree(p)' = Subtree(p)
  BY <1>1 DEF Subtree
<1>3. ASSUME NEW x \in Subtree(p)
      PROVE  x \in Places /\ Built(x) /\ RoomStays(x) /\ place'[x] = place[x]
  <2>1. x \in Places /\ Built(x)
    BY DEF Subtree
  <2>2. RoomStays(x)
    BY <2>1, RoomsStay
  <2> QED BY <2>1, <2>2 DEF RoomStays
<1> QED BY <1>2, <1>3

\* The checks and the late rows of each call after a step.
LEMMA CanNext ==
  ASSUME NEW g
  PROVE  /\ g.act = "move" => (Can(g)' <=> CanGo(g.who, g.to)' /\ CanCarry(g)')
         /\ g.act = "go_home" => (Can(g)' <=> CanReturn(g.who)')
         /\ g.act = "give_place" => (Can(g)' <=> CanGivePlace(g)')
         /\ g.act = "hand_place" => (Can(g)' <=> place'[g.to].owner = g.who)
         /\ g.act = "give_thing" => (Can(g)' <=> CanGiveThing(g)')
         /\ g.act = "make" => (Can(g)' <=> CanMake(g)')
         /\ g.act = "set_home" => (Can(g)' <=> CanSetHome(g)')
         /\ g.act = "retire" => (Can(g)' <=> CanRetire(g)')
         /\ g.act = "restore" => (Can(g)' <=> CanRestore(g)')
         /\ g.act = "build" => (Can(g)' <=> CanBuild(g)')
         /\ g.act = "withdraw" => (Can(g)' <=> CanWithdraw(g)')
         /\ g.act \in {"open", "close", "hinge"} => (Can(g)' <=> CanEdit(g)')
  BY DEF Can

\* A call keeps what it has checked and holds.
Kept(g) ==
  Can(g)' /\ LatePresence(g)' \subseteq LatePresence(g) /\ LateThings(g)' \subseteq LateThings(g)

LEMMA MoveStays ==
  ASSUME WorldAssumption, CityInv, CityInv', NEW q, NEW g, Beside(q, g), Ready(g), g.act = "move"
  PROVE  Kept(g)
<1>0. g.act \in Acts
  BY DEF Acts
<1>1. /\ g.who \in Residents /\ <<"presence", g.who>> \in g.has /\ <<"place", at[g.who]>> \in g.has
      /\ g.to \in Places /\ <<"place", g.to>> \in g.has
  BY <1>0, ReadyRows
<1>2. CanGo(g.who, g.to) /\ CanCarry(g)
  BY CanIs DEF Ready
<1>3. /\ at'[g.who] = at[g.who] /\ Held(g.who)' = Held(g.who)
      /\ \A t \in Held(g.who) : thing'[t] = thing[t]
      /\ place'[at[g.who]] = place[at[g.who]] /\ RoomStays(at[g.who])
  <2>1. at[g.who] \in Places
    BY <1>1 DEF CityInv, CityTyped
  <2> QED BY <1>1, <2>1, LuggageStays, RoomsStay DEF CityInv
<1>4. place'[g.to] = place[g.to]
  BY <1>1, <1>2, RoomsStay DEF CityInv, CanGo, Active, Built, RoomStays
<1>5. CanGo(g.who, g.to)'
  <2>1. Active(g.to)' = Active(g.to) /\ Adjacent(at[g.who], g.to)' = Adjacent(at[g.who], g.to)
    BY <1>3, <1>4 DEF Active, Adjacent
  <2>2. \A t \in Held(g.who) : thing'[t].place = at[g.who]
    BY <1>2, <1>3 DEF CanGo
  <2> QED BY <1>2, <1>3, <2>1, <2>2 DEF CanGo, Active, Adjacent
<1>6. g.item # None => g.item \in Things /\ thing'[g.item] = thing[g.item]
  <2>1. g.item # None => g.item \in Things
    BY DEF Ready, TxRow
  <2> QED BY <1>2, <1>3, <2>1 DEF CanCarry, Here, RoomStays
<1>7. CanCarry(g)'
  <2>1. g.item # None /\ g.item \in Here(at[g.who]) => g.item \in Here(at[g.who])'
    BY <1>3, <1>6 DEF Here
  <2> QED BY <1>2, <1>3, <1>6, <2>1 DEF CanCarry, Here
<1>8. Can(g)'
  BY <1>5, <1>7, CanNext
<1>9. MoveThings(g)' = MoveThings(g)
  BY <1>3, <1>6 DEF MoveThings
<1>10. LateThings(g)' = LateThings(g)
  BY <1>9 DEF LateThings
<1>11. LatePresence(g)' = {}
  BY DEF LatePresence, Cleared
<1> QED BY <1>8, <1>10, <1>11 DEF Kept

LEMMA GoHomeStays ==
  ASSUME WorldAssumption, CityInv, CityInv', NEW q, NEW g, Beside(q, g), Ready(g), g.act = "go_home"
  PROVE  Kept(g)
<1>0. g.act \in Acts
  BY DEF Acts
<1>1. /\ g.who \in Residents /\ <<"presence", g.who>> \in g.has /\ <<"place", at[g.who]>> \in g.has
      /\ home[g.who] = None \/ <<"place", home[g.who]>> \in g.has
  BY <1>0, ReadyRows
<1>2. CanReturn(g.who)
  BY CanIs DEF Ready
<1>3. /\ at'[g.who] = at[g.who] /\ Held(g.who)' = Held(g.who) /\ home'[g.who] = home[g.who]
      /\ \A t \in Held(g.who) : thing'[t] = thing[t]
  BY <1>1, LuggageStays
<1>4. place'[home[g.who]] = place[home[g.who]]
  <2>1. home[g.who] \in Places /\ <<"place", home[g.who]>> \in g.has
    BY <1>1, <1>2 DEF CanReturn, CityInv, CityTyped
  <2> QED BY <1>2, <2>1, RoomsStay DEF CityInv, CanReturn, Active, Built, RoomStays
<1>5. CanReturn(g.who)'
  BY <1>2, <1>3, <1>4 DEF CanReturn, Active
<1>6. Can(g)'
  BY <1>5, CanNext
<1>7. LateThings(g)' = LateThings(g)
  BY <1>3 DEF LateThings
<1>8. LatePresence(g)' = {}
  BY DEF LatePresence, Cleared
<1> QED BY <1>6, <1>7, <1>8 DEF Kept

LEMMA SendStays ==
  ASSUME WorldAssumption, CityInv, CityInv', NEW q, NEW g, Beside(q, g), Ready(g),
         g.act \in {"send", "send_home"}
  PROVE  Kept(g)
<1>0. g.act \in Acts
  BY DEF Acts
<1>1. g.other \in Residents /\ <<"place", g.sawAt>> \in g.has
  BY <1>0, ReadyRows
<1>2. <<"presence", g.other>> \in g.has
  BY LateIs DEF Ready, Holds
<1>3. at[g.other] = g.sawAt
  BY CanIs DEF Ready, CanSend
<1>4. /\ at'[g.other] = at[g.other] /\ Held(g.other)' = Held(g.other) /\ home'[g.other] = home[g.other]
      /\ \A t \in Held(g.other) : thing'[t] = thing[t]
      /\ place'[at[g.other]] = place[at[g.other]]
  BY <1>1, <1>2, <1>3, LuggageStays
<1>5. \A p \in g.rooms : Active(p) => p \in Places /\ place'[p] = place[p]
  <2>1. \A p \in g.rooms : p \in Places /\ <<"place", p>> \in g.has
    BY DEF Ready, TxRow, Holds, HasRooms
  <2>2. ASSUME NEW p \in g.rooms, Active(p) PROVE place'[p] = place[p]
    <3>1. RoomStays(p)
      BY <2>1, RoomsStay DEF CityInv
    <3> QED BY <2>2, <3>1 DEF Active, Built, RoomStays
  <2> QED BY <2>1, <2>2
<1>6. Can(g)'
  <2>1. CASE g.act = "send"
    <3>1. CanSend(g, g.to) /\ CanGo(g.other, g.to)
      BY <2>1, CanIs DEF Ready
    <3>2. place'[g.to] = place[g.to]
      BY <1>5, <3>1 DEF CanSend, CanGo
    <3>3. CanGo(g.other, g.to)'
      BY <1>4, <3>1, <3>2 DEF CanGo, Active, Adjacent
    <3> QED BY <1>4, <2>1, <3>1, <3>3 DEF Can, CanSend
  <2>2. CASE g.act = "send_home"
    <3>1. CanSend(g, home[g.other]) /\ CanReturn(g.other)
      BY <2>2, CanIs DEF Ready
    <3>2. place'[home[g.other]] = place[home[g.other]]
      BY <1>5, <3>1 DEF CanSend, CanReturn
    <3>3. CanReturn(g.other)'
      BY <1>4, <3>1, <3>2 DEF CanReturn, Active
    <3>4. at'[g.other] = g.sawAt /\ home'[g.other] \in g.rooms
      BY <1>4, <3>1 DEF CanSend
    <3> QED BY <2>2, <3>3, <3>4 DEF Can, CanSend
  <2> QED BY <2>1, <2>2
<1>7. LateThings(g)' = LateThings(g)
  BY <1>4 DEF LateThings
<1>8. LatePresence(g)' = LatePresence(g)
  BY DEF LatePresence
<1> QED BY <1>6, <1>7, <1>8 DEF Kept

LEMMA GivePlaceStays ==
  ASSUME WorldAssumption, CityInv, CityInv', NEW q, NEW g, Beside(q, g), Ready(g), g.act = "give_place"
  PROVE  Kept(g)
<1>1. g.to \in Places /\ Built(g.to) /\ \A x \in Subtree(g.to) : <<"place", x>> \in g.has
  BY ReadyRows DEF Ready, Asked
<1>2. CanGivePlace(g)
  BY CanIs DEF Ready
<1>3. /\ Subtree(g.to)' = Subtree(g.to)
      /\ \A x \in Subtree(g.to) : x \in Places /\ Built(x) /\ RoomStays(x) /\ place'[x] = place[x]
  BY <1>1, SubtreeStays DEF CityInv
<1>4. Can(g)'
  BY <1>2, <1>3, CanNext DEF CanGivePlace
<1>5. LatePresence(g)' \subseteq LatePresence(g)
  <2>1. LatePresence(g) = {r \in Residents : home[r] \in Subtree(g.to)}
    BY LateIs DEF Ready
  <2>2. LatePresence(g)' = {r \in Residents : home'[r] \in Subtree(g.to)}
    BY <1>3, <1>4 DEF LatePresence, Cleared
  <2> QED BY <1>3, <2>1, <2>2 DEF RoomStays
<1>6. LateThings(g)' \subseteq LateThings(g)
  <2> DEFINE S == Subtree(g.to)
  <2>1. LateThings(g) = {t \in UNION {Here(p) : p \in S} : thing[t].held = g.other}
    BY LateIs DEF Ready
  <2>2. LateThings(g)' = {t \in UNION {Here(p)' : p \in S} : thing'[t].held = g.other}
    BY <1>3, <1>4 DEF LateThings, Freed
  <2>3. ASSUME NEW p \in S, NEW t \in Here(p)' PROVE t \in Here(p) /\ thing'[t] = thing[t]
    BY <1>3 DEF Here, RoomStays
  <2> QED BY <2>1, <2>2, <2>3
<1> QED BY <1>4, <1>5, <1>6 DEF Kept

LEMMA RetireStays ==
  ASSUME WorldAssumption, CityInv, CityInv', NEW q, NEW g, Beside(q, g), Ready(g), g.act = "retire"
  PROVE  Kept(g)
<1>1. g.to \in Places /\ <<"place", g.to>> \in g.has
  BY ReadyRows
<1>2. CanRetire(g)
  BY CanIs DEF Ready
<1>3. RoomStays(g.to)
  BY <1>1, RoomsStay DEF CityInv
<1>4. place'[g.to] = place[g.to]
  BY <1>2, <1>3 DEF RoomStays, CanRetire, Active, Built
<1>5. Here(g.to)' = {}
  BY <1>2, <1>3 DEF RoomStays, CanRetire, Here
<1>6. CanRetire(g)'
  BY <1>2, <1>3, <1>4, <1>5 DEF RoomStays, CanRetire, Active
<1>7. Can(g)'
  BY <1>6, CanNext
<1>8. LatePresence(g)' \subseteq LatePresence(g)
  <2>1. LatePresence(g) = {r \in Residents : home[r] = g.to}
    BY LateIs DEF Ready
  <2>2. LatePresence(g)' = {r \in Residents : home'[r] = g.to}
    BY <1>7 DEF LatePresence, Cleared
  <2> QED BY <1>3, <2>1, <2>2 DEF RoomStays
<1>9. LateThings(g)' = {}
  BY DEF LateThings, Freed
<1> QED BY <1>7, <1>8, <1>9 DEF Kept

\* Calls on one place: handing it over, opening, closing, hinging, restoring, living there.
LEMMA PlaceStays ==
  ASSUME WorldAssumption, CityInv, CityInv', NEW q, NEW g, Beside(q, g), Ready(g),
         g.act \in {"hand_place", "open", "close", "hinge", "restore", "set_home"}
  PROVE  Kept(g)
<1>1. g.to \in Places /\ <<"place", g.to>> \in g.has /\ g.who \in Residents
  BY ReadyRows
<1>2. RoomStays(g.to)
  BY <1>1, RoomsStay DEF CityInv
<1>3. place[g.to].owner = g.who
  BY CanIs DEF Ready, CanEdit, CanRestore, CanSetHome
<1>4. place'[g.to] = place[g.to]
  BY <1>1, <1>2, <1>3 DEF RoomStays, Built, CityInv, WorldStays, WorldAssumption
<1>5. g.act = "restore" => place'[Parent[g.to]] = place[Parent[g.to]] /\ CanRestore(g)
  <2>1. g.act = "restore" => Parent[g.to] \in Places /\ <<"place", Parent[g.to]>> \in g.has /\ CanRestore(g)
    BY ReadyRows, CanIs DEF Ready
  <2> QED BY <2>1, RoomsStay DEF CityInv, CanRestore, Active, Built, RoomStays
<1>6. g.act = "set_home" => at'[g.who] = at[g.who] /\ CanSetHome(g)
  BY ReadyRows, RowsStay, CanIs DEF Ready
<1>7. Can(g)'
  <2>1. CASE g.act = "hand_place"
    BY <1>3, <1>4, <2>1, CanNext
  <2>2. CASE g.act = "restore"
    BY <1>4, <1>5, <2>2, CanNext DEF CanRestore, Active
  <2>3. CASE g.act = "set_home"
    BY <1>4, <1>6, <2>3, CanNext DEF CanSetHome, Active
  <2>4. CASE g.act \in {"open", "close", "hinge"}
    <3>1. CanEdit(g)
      BY <2>4, CanIs DEF Ready
    <3> QED BY <1>4, <2>4, <3>1, CanNext DEF CanEdit, Active
  <2> QED BY <2>1, <2>2, <2>3, <2>4
<1>8. LatePresence(g)' = {}
  BY DEF LatePresence, Cleared
<1>9. ASSUME NEW t \in Here(g.to)' PROVE t \in Here(g.to) /\ thing'[t] = thing[t]
  BY <1>2 DEF Here, RoomStays
<1>10. LateThings(g)' \subseteq LateThings(g)
  <2>1. CASE g.act = "open"
    <3>1. LateThings(g) = {t \in Here(g.to) : thing[t].held # None}
      BY <2>1, LateIs DEF Ready
    <3>2. LateThings(g)' = {t \in Here(g.to)' : thing'[t].held # None}
      BY <1>7, <2>1 DEF LateThings, Freed
    <3> QED BY <1>9, <3>1, <3>2
  <2>2. CASE g.act = "hand_place"
    <3>1. LateThings(g) = {t \in Here(g.to) : thing[t].held = g.other}
      BY <2>2, LateIs DEF Ready
    <3>2. LateThings(g)' = {t \in Here(g.to)' : thing'[t].held = g.other}
      BY <1>7, <2>2 DEF LateThings, Freed
    <3> QED BY <1>9, <3>1, <3>2
  <2>3. CASE g.act \notin {"open", "hand_place"}
    BY <2>3 DEF LateThings, Freed
  <2> QED BY <2>1, <2>2, <2>3
<1> QED BY <1>7, <1>8, <1>10 DEF Kept

\* Calls on one thing, and building.
LEMMA ThingStays ==
  ASSUME WorldAssumption, CityInv, CityInv', NEW q, NEW g, Beside(q, g), Ready(g),
         g.act \in {"give_thing", "make", "withdraw", "build"}
  PROVE  Kept(g)
<1>1. g.act = "give_thing" => CanGiveThing(g)'
  <2> HAVE g.act = "give_thing"
  <2>0. g.act \in Acts
    BY DEF Acts
  <2>1. <<"place", g.sawAt>> \in g.has /\ g.item \in Things /\ CanGiveThing(g) /\ g.sawAt \in Places
    BY <2>0, ReadyRows, CanIs DEF Ready, Asked
  <2>2. thing'[g.item] = thing[g.item]
    BY <2>1, RoomsStay DEF CityInv, RoomStays, CanGiveThing, Here
  <2> QED BY <2>1, <2>2 DEF CanGiveThing, Here
<1>2. g.act = "make" => CanMake(g)'
  <2> HAVE g.act = "make"
  <2>0. g.act \in Acts
    BY DEF Acts
  <2>1. <<"place", g.sawAt>> \in g.has /\ g.item \in Things /\ CanMake(g) /\ g.sawAt \in Places
    BY <2>0, ReadyRows, CanIs DEF Ready, Asked
  <2>2. thing'[g.item] = thing[g.item]
    <3>1. g.item # None
      BY <2>1 DEF WorldAssumption
    <3> QED BY <2>1, <3>1 DEF CanMake, Beside, Footprint, ThingsTouched
  <2>3. place'[g.sawAt] = place[g.sawAt]
    BY <2>1, RoomsStay DEF CityInv, RoomStays, CanMake, Active, Built
  <2> QED BY <2>1, <2>2, <2>3 DEF CanMake, Active, Permits
<1>3. g.act = "withdraw" => CanWithdraw(g)'
  <2> HAVE g.act = "withdraw"
  <2>1. CanWithdraw(g) /\ g.item \in Things
    BY ReadyRows, CanIs DEF Ready
  <2>2. thing[g.item].place \in Places /\ <<"place", thing[g.item].place>> \in g.has
    BY <2>1 DEF CanWithdraw, Ready, TxRow, Holds, HasRooms
  <2>3. thing'[g.item] = thing[g.item]
    BY <2>1, <2>2, RoomsStay DEF CityInv, RoomStays, CanWithdraw
  <2> QED BY <2>1, <2>3 DEF CanWithdraw
<1>4. g.act = "build" => CanBuild(g)'
  <2> HAVE g.act = "build"
  <2>1. /\ CanBuild(g) /\ g.to \in Places /\ g.to # World /\ Parent[g.to] \in Places
        /\ <<"place", Parent[g.to]>> \in g.has
    BY ReadyRows, CanIs DEF Ready
  <2>2. place'[g.to] = place[g.to] /\ place'[Parent[g.to]] = place[Parent[g.to]]
    BY <2>1, RoomsStay DEF CityInv, RoomStays, CanBuild, Active, Built
  <2> QED BY <2>1, <2>2 DEF CanBuild, Built, Active
<1>5. Can(g)'
  BY <1>1, <1>2, <1>3, <1>4, CanNext
<1>6. LatePresence(g)' = {}
  BY DEF LatePresence, Cleared
<1>7. LateThings(g)' = LateThings(g)
  <2>1. CASE g.act \in {"give_thing", "withdraw"}
    BY <2>1 DEF LateThings
  <2>2. CASE g.act \in {"make", "build"}
    BY <2>2 DEF LateThings, Freed
  <2> QED BY <2>1, <2>2
<1> QED BY <1>5, <1>6, <1>7 DEF Kept

\* A call that is ready to commit still may do what it checked, and holds what that takes,
\* after the commit of another.
LEMMA ReadyStays ==
  ASSUME WorldAssumption, CityInv, CityInv', NEW q, NEW g, Beside(q, g), Ready(g)
  PROVE  Can(g)' /\ Holds(g)'
<1>1. Kept(g)
  <2>1. g.act \in Acts \cup Edits
    BY DEF Ready, Asked
  <2> QED BY <2>1, MoveStays, GoHomeStays, SendStays, GivePlaceStays, RetireStays, PlaceStays, ThingStays
          DEF Acts, Edits
<1>2. <<"resident", g.who>> \in g.has /\ HasRooms(g)
  BY DEF Ready, Holds
<1>3. /\ \A r \in OwnPresence(g) \cup LatePresence(g)' : <<"presence", r>> \in g.has
      /\ \A t \in LateThings(g)' : <<"thing", t>> \in g.has
  BY <1>1 DEF Kept, Ready, Holds
<1>4. Holds(g)'
  BY <1>2, <1>3 DEF Holds, HasRooms, OwnPresence
<1> QED BY <1>1, <1>4 DEF Kept

LEMMA PreparedIsReady ==
  ASSUME NEW q, Good(q), Prepared(q)
  PROVE  Ready(q)
  BY DEF Good, Prepared, Ready, Live

\* The invariant of a call survives the commit of another.
LEMMA GoodStays ==
  ASSUME WorldAssumption, CityInv, CityInv', NEW q, NEW g, Beside(q, g), Good(g)
  PROVE  Good(g)'
<1>1. /\ g \in TxRow /\ Truthful(g) /\ InOrder(g)
      /\ g.has # {} => Planned(g)
  BY DEF Good
<1>2. Live(g) => Asked(g)'
  <2>1. Live(g) => Asked(g)
    BY DEF Good
  <2>2. Asked(g) /\ g.act = "give_place" => g.to \in Places /\ Built(g.to)
    BY DEF Asked, Fits, PlaceCalls
  <2>3. Asked(g) /\ g.act = "give_place" => Built(g.to)'
    BY <2>2, RowsStay DEF Built
  <2> QED BY <2>1, <2>3 DEF Asked, Fits
<1>3. PlanStands(g)'
  <2> SUFFICES ASSUME <<"presence", g.who>> \in g.has, g.act \in Acts
               PROVE  /\ at'[g.who] = g.sawAt /\ home'[g.who] = g.sawHome
                      /\ g.act = "give_place" => Subtree(g.to)' \subseteq g.rooms
    BY DEF PlanStands
  <2>1. g.who \in Residents /\ HasRooms(g) /\ Asked(g)
    BY DEF Good, Live, Asked, InOrder
  <2>2. /\ at[g.who] = g.sawAt /\ home[g.who] = g.sawHome
        /\ g.act = "give_place" => Subtree(g.to) \subseteq g.rooms
    BY DEF Good, PlanStands
  <2>3. at'[g.who] = g.sawAt /\ home'[g.who] = g.sawHome
    BY <2>1, <2>2, RowsStay
  <2>4. ASSUME g.act = "give_place" PROVE Subtree(g.to)' \subseteq g.rooms
    <3>1. g.to \in Places /\ Built(g.to) /\ \A x \in Subtree(g.to) : <<"place", x>> \in g.has
      BY <2>1, <2>2, <2>4 DEF Asked, Fits, PlaceCalls, HasRooms
    <3>2. Subtree(g.to)' = Subtree(g.to)
      BY <3>1, SubtreeStays DEF CityInv
    <3> QED BY <2>2, <2>4, <3>2
  <2> QED BY <2>3, <2>4
<1>4. Prepared(g) => Can(g)' /\ Holds(g)'
  BY PreparedIsReady, ReadyStays
<1>5. Live(g)' = Live(g) /\ Prepared(g)' = Prepared(g)
  BY DEF Live, Prepared
<1>6. /\ Truthful(g)' /\ InOrder(g)'
      /\ g.has # {} => Planned(g)'
  BY <1>1 DEF Truthful, InDoubt, InOrder, HasRooms, Planned
<1> QED BY <1>1, <1>2, <1>3, <1>4, <1>5, <1>6 DEF Good

-----------------------------------------------------------------------------
(* Steps that leave the city alone                                         *)

\* A handler's record becomes n.
Becomes(h, n) ==
  /\ tx' = [tx EXCEPT ![h] = n] /\ lost' \in 0 .. MaxLost
  /\ \A g \in Handlers \ {h} :
       /\ n.has \cap tx[g].has = {}
       /\ n.act = "make" /\ tx[g].act = "make" => n.item = None \/ n.item # tx[g].item

LEMMA CallMoves ==
  ASSUME WorldInv, NEW h \in Handlers, NEW n, Becomes(h, n), CityInv', Good(n)',
         \A g \in {tx[i] : i \in Handlers \ {h}} : Good(g)'
  PROVE  WorldInv'
<1>1. /\ tx'[h] = n /\ tx' = [i \in Handlers |-> tx'[i]]
      /\ \A i \in Handlers \ {h} : tx'[i] = tx[i]
  BY DEF WorldInv, Becomes
<1>2. AllCalls' = {tx'[i] : i \in Handlers}
  BY DEF AllCalls
<1>3. ASSUME NEW g \in AllCalls' PROVE Good(g)'
  BY <1>1, <1>2
<1>4. Exclusive'
  <2>1. ASSUME NEW g \in Handlers, NEW i \in Handlers, g # i
        PROVE  /\ tx'[g].has \cap tx'[i].has = {}
               /\ tx'[g].act = "make" /\ tx'[i].act = "make" => tx'[g].item = None \/ tx'[g].item # tx'[i].item
    <3>1. CASE g # h /\ i # h
      BY <1>1, <2>1, <3>1 DEF WorldInv, Exclusive
    <3>2. CASE g = h
      BY <1>1, <2>1, <3>2 DEF Becomes
    <3>3. CASE i = h
      BY <1>1, <2>1, <3>3 DEF Becomes
    <3> QED BY <3>1, <3>2, <3>3
  <2> QED BY <2>1 DEF Exclusive
<1> QED BY <1>1, <1>3, <1>4 DEF WorldInv, Becomes

LEMMA SameGood ==
  ASSUME NEW q, UNCHANGED world, Good(q)
  PROVE  Good(q)'
<1>1. /\ q \in TxRow /\ Truthful(q)' /\ InOrder(q)'
      /\ q.has # {} => Planned(q)'
  BY DEF Good, Truthful, InDoubt, InOrder, HasRooms, Planned
<1>2. (Live(q) => Asked(q)') /\ PlanStands(q)' /\ (Prepared(q) => Can(q)' /\ Holds(q)')
  BY SameCity DEF Good
<1>3. Live(q)' = Live(q) /\ Prepared(q)' = Prepared(q)
  BY DEF Live, Prepared
<1> QED BY <1>1, <1>2, <1>3 DEF Good

LEMMA QuietMove ==
  ASSUME WorldInv, UNCHANGED world, NEW h \in Handlers, NEW n, Becomes(h, n), Good(n)
  PROVE  WorldInv'
<1>1. CityInv'
  BY DEF world, WorldInv, CityInv, CityTyped, WorldStays, ThingsSound, RetiredIsEmpty, LuggageFollows, Permits,
         Here, Active
<1>2. \A g \in {tx[i] : i \in Handlers \ {h}} : Good(g)
  BY DEF WorldInv, AllCalls
<1>3. \A g \in {tx[i] : i \in Handlers \ {h}} : Good(g)'
  BY <1>2, SameGood
<1>4. Good(n)'
  BY SameGood
<1> QED BY <1>1, <1>3, <1>4, CallMoves

\* A call that has ended.
LEMMA Rests ==
  ASSUME NEW n \in TxRow, n.has = {}, n.pc \notin {"locking", "commit"}, Truthful(n)
  PROVE  Good(n) /\ Good(n)'
<1>1. ~Live(n) /\ ~Live(n)' /\ ~Prepared(n) /\ ~Prepared(n)' /\ PlanStands(n) /\ PlanStands(n)'
  BY DEF Live, Prepared, PlanStands
<1>2. InOrder(n) /\ InOrder(n)' /\ Truthful(n)'
  BY DEF InOrder, Truthful, InDoubt
<1> QED BY <1>1, <1>2 DEF Good

\* The call as it was asked for.
SameCall(q, n) ==
  /\ n.act = q.act /\ n.who = q.who /\ n.to = q.to /\ n.item = q.item /\ n.other = q.other
  /\ n.sawAt = q.sawAt /\ n.sawHome = q.sawHome /\ n.rooms = q.rooms

LEMMA SameChecks ==
  ASSUME NEW q, NEW n, SameCall(q, n)
  PROVE  /\ Can(n) = Can(q) /\ Asked(n) = Asked(q) /\ Planned(n) = Planned(q)
         /\ LatePresence(n) = LatePresence(q) /\ LateThings(n) = LateThings(q)
         /\ n.has = q.has => Holds(n) = Holds(q) /\ InOrder(n) = InOrder(q) /\ PlanStands(n) = PlanStands(q)
<1> USE DEF SameCall
<1>1. Can(n) = Can(q)
  BY DEF Can, CanGo, CanCarry, CanReturn, CanSend, CanRetire, CanRestore, CanEdit, CanBuild, CanSetHome,
         CanGivePlace, CanGiveThing, CanMake, CanWithdraw
<1>2. Asked(n) = Asked(q) /\ Planned(n) = Planned(q)
  BY DEF Asked, Fits, Planned
<1>3. Cleared(n) = Cleared(q) /\ Freed(n) = Freed(q) /\ MoveThings(n) = MoveThings(q)
  BY DEF Cleared, Freed, MoveThings
<1>4. LatePresence(n) = LatePresence(q) /\ LateThings(n) = LateThings(q)
  BY <1>1, <1>3 DEF LatePresence, LateThings
<1>5. n.has = q.has => Holds(n) = Holds(q) /\ InOrder(n) = InOrder(q) /\ PlanStands(n) = PlanStands(q)
  BY <1>4 DEF Holds, HasRooms, OwnPresence, InOrder, PlanStands
<1> QED BY <1>1, <1>2, <1>4, <1>5

\* A call keeps its rows and goes on.
LEMMA GoesOn ==
  ASSUME NEW q, Good(q), NEW n \in TxRow, SameCall(q, n), n.has = q.has, Truthful(n), q.has # {},
         Prepared(n) => Prepared(q) \/ (Can(q) /\ Holds(q))
  PROVE  Good(n)
<1>1. Live(q)
  BY DEF Live
<1>2. Asked(n) /\ Planned(n) /\ InOrder(n) /\ PlanStands(n)
  BY <1>1, SameChecks DEF Good
<1>3. Prepared(n) => Can(n) /\ Holds(n)
  BY SameChecks DEF Good
<1> QED BY <1>2, <1>3 DEF Good

\* What a call waits for.
LEMMA WantsIs ==
  ASSUME NEW q, NEW row \in Wants(q)
  PROVE  /\ q.pc = "locking" /\ row \notin q.has
         /\ \/ row = <<"resident", q.who>>
            \/ /\ <<"resident", q.who>> \in q.has
               /\ \E p \in q.rooms : row = <<"place", p>>
            \/ /\ <<"resident", q.who>> \in q.has /\ HasRooms(q)
               /\ \E r \in OwnPresence(q) : row = <<"presence", r>>
            \/ /\ <<"resident", q.who>> \in q.has /\ HasRooms(q)
               /\ \A r \in OwnPresence(q) : <<"presence", r>> \in q.has
               /\ \E r \in LatePresence(q) : row = <<"presence", r>>
            \/ /\ <<"resident", q.who>> \in q.has /\ HasRooms(q)
               /\ \A r \in OwnPresence(q) \cup LatePresence(q) : <<"presence", r>> \in q.has
               /\ \E t \in LateThings(q) : row = <<"thing", t>>
<1> DEFINE actor == Lacks(q, "resident", {q.who})
           rooms == Lacks(q, "place", q.rooms)
           own == Lacks(q, "presence", OwnPresence(q))
           late == Lacks(q, "presence", LatePresence(q))
           things == Lacks(q, "thing", LateThings(q))
<1>1. q.pc = "locking"
  BY DEF Wants
<1>2. /\ actor # {} => row \in actor
      /\ actor = {} /\ rooms # {} => row \in TopOf(rooms)
      /\ actor = {} /\ rooms = {} /\ own # {} => row \in own
      /\ actor = {} /\ rooms = {} /\ own = {} /\ late # {} => row \in late
      /\ actor = {} /\ rooms = {} /\ own = {} /\ late = {} => row \in things
  BY <1>1 DEF Wants
<1>3. /\ actor = {} => <<"resident", q.who>> \in q.has
      /\ rooms = {} => HasRooms(q)
      /\ own = {} => \A r \in OwnPresence(q) : <<"presence", r>> \in q.has
      /\ late = {} => \A r \in LatePresence(q) : <<"presence", r>> \in q.has
  BY DEF Lacks, HasRooms
<1>4. /\ row \in actor => row = <<"resident", q.who>> /\ row \notin q.has
      /\ row \in TopOf(rooms) => (\E p \in q.rooms : row = <<"place", p>>) /\ row \notin q.has
      /\ row \in own => (\E r \in OwnPresence(q) : row = <<"presence", r>>) /\ row \notin q.has
      /\ row \in late => (\E r \in LatePresence(q) : row = <<"presence", r>>) /\ row \notin q.has
      /\ row \in things => (\E t \in LateThings(q) : row = <<"thing", t>>) /\ row \notin q.has
  BY DEF Lacks, TopOf
<1> HIDE DEF actor, rooms, own, late, things
<1> QED BY <1>1, <1>2, <1>3, <1>4

\* A call that waits for nothing holds all it needs.
LEMMA NothingWanted ==
  ASSUME WorldAssumption, NEW q, q \in TxRow, q.pc = "locking", Wants(q) = {}
  PROVE  Holds(q)
<1> DEFINE actor == Lacks(q, "resident", {q.who})
           rooms == Lacks(q, "place", q.rooms)
           own == Lacks(q, "presence", OwnPresence(q))
           late == Lacks(q, "presence", LatePresence(q))
           things == Lacks(q, "thing", LateThings(q))
<1>1. rooms # {} => TopOf(rooms) # {}
  <2> HAVE rooms # {}
  <2> DEFINE S == {p \in q.rooms : <<"place", p>> \notin q.has}
  <2>1. rooms = {<<"place", p>> : p \in S}
    BY DEF Lacks
  <2>2. S \subseteq Places /\ S # {}
    <3>1. q.rooms \subseteq Places
      BY DEF TxRow
    <3>2. S # {}
      BY <2>1
    <3> QED BY <3>1, <3>2
  <2> HIDE DEF S
  <2>3. PICK p \in S : \A x \in S \ {p} : TopDown(p, x)
    BY <2>2, TopExists
  <2>4. \A y \in rooms \ {<<"place", p>>} : TopDown(<<"place", p>>[2], y[2])
    <3> TAKE y \in rooms \ {<<"place", p>>}
    <3>1. PICK x \in S \ {p} : y = <<"place", x>>
      BY <2>1
    <3>2. TopDown(p, x)
      BY <2>3
    <3>3. <<"place", p>>[2] = p /\ y[2] = x
      BY <3>1
    <3> QED BY <3>2, <3>3 DEF TopDown, Depth
  <2>5. <<"place", p>> \in TopOf(rooms)
    BY <2>1, <2>4 DEF TopOf
  <2> QED BY <2>5
<1>2. actor = {} /\ rooms = {} /\ own = {} /\ late = {} /\ things = {}
  BY <1>1 DEF Wants
<1> QED BY <1>2 DEF Lacks, Holds, HasRooms

\* Rows that calls lock are rows.
LEMMA LateRows ==
  ASSUME WorldAssumption, NEW q, q \in TxRow, Asked(q)
  PROVE  LatePresence(q) \subseteq Residents /\ LateThings(q) \subseteq Things
<1>1. q.other \in Residents
  BY DEF Asked
<1>2. Cleared(q) \subseteq Residents /\ Freed(q) \subseteq Things
  BY DEF Cleared, Freed, Here
<1>3. MoveThings(q) \subseteq Things /\ Held(q.who) \subseteq Things /\ Held(q.other) \subseteq Things
  BY DEF MoveThings, Held, TxRow
<1>4. q.act \in {"give_thing", "withdraw"} => q.item \in Things
  BY DEF Asked, Fits, ThingCalls
<1> QED BY <1>1, <1>2, <1>3, <1>4 DEF LatePresence, LateThings

\* The record of a handler.
LEMMA CallIs ==
  ASSUME WorldInv, NEW h \in Handlers
  PROVE  Good(tx[h]) /\ tx[h] \in TxRow /\ lost \in 0 .. MaxLost
  BY DEF WorldInv, AllCalls, Good

\* A call that locks nothing new leaves the locks apart.
LEMMA StaysApart ==
  ASSUME WorldInv, NEW h \in Handlers, NEW n, tx' = [tx EXCEPT ![h] = n], lost' \in 0 .. MaxLost,
         n.has \subseteq tx[h].has,
         n.act = "make" => n.item = None \/ (tx[h].act = "make" /\ n.item = tx[h].item)
  PROVE  Becomes(h, n)
  BY DEF WorldInv, Exclusive, Becomes

\* Neither does one that locks a free row.
LEMMA LocksApart ==
  ASSUME WorldInv, NEW h \in Handlers, NEW n, NEW row, tx' = [tx EXCEPT ![h] = n], lost' \in 0 .. MaxLost,
         Free(row), n.has \subseteq tx[h].has \cup {row}, n.act = tx[h].act, n.item = tx[h].item
  PROVE  Becomes(h, n)
  BY DEF WorldInv, Exclusive, Becomes, Free

LEMMA RefuseKeeps ==
  ASSUME WorldAssumption, WorldInv, NEW h \in Handlers, tx[h].pc = "locking", Refuse(h)
  PROVE  WorldInv'
<1>1. PICK q : q = tx[h]
  OBVIOUS
<1>2. PICK n : n = Undone(q)
  OBVIOUS
<1>3. tx' = [tx EXCEPT ![h] = n] /\ UNCHANGED world /\ lost' = lost
  BY <1>1, <1>2 DEF Refuse
<1>4. Good(q) /\ q \in TxRow /\ q.pc = "locking" /\ lost \in 0 .. MaxLost
  BY <1>1, CallIs
<1>5. q.verdict = None /\ q.stored = None /\ ~q.done /\ q.answer = None
  BY <1>4 DEF Good, Truthful
<1>6. /\ n \in TxRow /\ n.has = {} /\ n.pc \in {"insert", "done"} /\ Truthful(n) /\ n.act = q.act
      /\ (n.item = None \/ n.item = q.item)
  <2>1. CASE q.act \in Acts
    <3>1. n = [q EXCEPT !.has = {}, !.pc = "insert"]
      BY <1>2, <2>1 DEF Undone
    <3>2. n \in TxRow /\ n.item = q.item /\ n.act = q.act
      BY <1>4, <3>1 DEF TxRow
    <3>3. n.has = {} /\ n.pc = "insert" /\ n.stored = None /\ ~n.done /\ n.answer = None
      BY <1>4, <1>5, <3>1 DEF TxRow
    <3>4. Truthful(n)
      BY <3>3 DEF Truthful, InDoubt, WorldAssumption
    <3> QED BY <3>2, <3>3, <3>4
  <2>2. CASE q.act \notin Acts
    <3>1. n = [[Idle EXCEPT !.act = q.act, !.stored = q.stored, !.done = q.done] EXCEPT !.pc = "done", !.answer = "refused"]
      BY <1>2, <1>4, <2>2 DEF Undone, Done, TxRow
    <3>2. n \in TxRow /\ n.item = None /\ n.act = q.act
      <4>1. n \in TxRow
        <5>1. /\ q.act \in Acts \cup Edits \cup {None} /\ q.done \in BOOLEAN
              /\ q.stored \in Verdicts \cup {"failed"}
          BY <1>4 DEF TxRow
        <5> QED BY <3>1, <5>1, IdleIs, ZenonT(40) DEF TxRow
      <4> QED BY <3>1, <4>1 DEF Idle
    <3>3. n.has = {} /\ n.pc = "done" /\ n.stored = None /\ ~n.done
      BY <1>5, <3>1 DEF Idle
    <3>4. Truthful(n)
      BY <2>2, <3>2, <3>3 DEF Truthful, InDoubt
    <3> QED BY <3>2, <3>3, <3>4
  <2> QED BY <2>1, <2>2
<1>7. Good(n)
  BY <1>6, Rests
<1>8. Becomes(h, n)
  BY <1>1, <1>3, <1>4, <1>6, StaysApart
<1> QED BY <1>3, <1>7, <1>8, QuietMove

LEMMA StartKeeps ==
  ASSUME WorldAssumption, WorldInv, NEW h \in Handlers, NEW q \in Requests, tx[h].pc = "idle", Start(h, q)
  PROVE  WorldInv'
<1>1. q \in RequestRecord /\ Fits(q) /\ q.other # q.who /\ Admitted(q)
  BY DEF WorldAssumption, Start
<1>2. PICK n : n = [Idle EXCEPT !.pc = "locking", !.act = q.act, !.who = q.who, !.to = q.to,
                    !.item = q.item, !.other = q.other, !.sawAt = at[q.who],
                    !.rooms = IF q.act = "withdraw" THEN {thing[q.item].place} ELSE {}]
  OBVIOUS
<1>3. tx' = [tx EXCEPT ![h] = n] /\ UNCHANGED world /\ lost' = lost
  BY <1>2 DEF Start
<1>4. /\ n.pc = "locking" /\ n.act = q.act /\ n.who = q.who /\ n.to = q.to /\ n.item = q.item
      /\ n.other = q.other /\ n.sawAt = at[q.who] /\ n.has = {} /\ n.verdict = None /\ n.stored = None
      /\ n.done = FALSE /\ n.answer = None
  BY <1>2 DEF Idle
<1>5. at[q.who] \in Places
  BY <1>1 DEF RequestRecord, WorldInv, CityInv, CityTyped
<1>6. q.act = "withdraw" => thing[q.item].place \in Places
  BY <1>1 DEF Admitted, Fits, ThingCalls, WorldInv, CityInv, ThingsSound
<1>7. n \in TxRow
  <2>1. PICK S : S = IF q.act = "withdraw" THEN {thing[q.item].place} ELSE {}
    OBVIOUS
  <2>2. S \in SUBSET Places
    BY <1>6, <2>1
  <2>3. n = [Idle EXCEPT !.pc = "locking", !.act = q.act, !.who = q.who, !.to = q.to,
                         !.item = q.item, !.other = q.other, !.sawAt = at[q.who], !.rooms = S]
    BY <1>2, <2>1
  <2>4. /\ q.act \in Acts \cup Edits /\ q.who \in Residents /\ q.to \in Places \cup {None}
        /\ q.item \in Things \cup {None} /\ q.other \in Residents
    BY <1>1 DEF RequestRecord
  <2> QED BY <1>5, <2>2, <2>3, <2>4, IdleIs, ZenonT(40) DEF TxRow
<1>8. /\ q.act \in {"retire", "restore", "build"} => q.to # World
      /\ q.act = "give_place" => Built(q.to)
  <2>0. q.who \in Residents /\ None \notin Residents /\ q.act \in PlaceCalls => q.to \in Places
    BY <1>1 DEF RequestRecord, Fits, WorldAssumption
  <2>1. q.act \in {"retire", "restore", "build"} => Can(q)
    BY <1>1 DEF Admitted
  <2>2. /\ q.act = "retire" => place[q.to].owner = q.who
        /\ q.act = "restore" => place[q.to].owner = q.who
        /\ q.act = "build" => ~Built(q.to)
    BY <2>1, CanIs DEF CanRetire, CanRestore, CanBuild
  <2>3. q.act = "give_place" => place[q.to].owner = q.who
    BY <1>1 DEF Admitted
  <2>4. q.act \in {"retire", "restore", "build"} => q.to # World
    BY <2>0, <2>2, <1>1 DEF RequestRecord, WorldAssumption, WorldInv, CityInv, WorldStays, Built
  <2>5. q.act = "give_place" => Built(q.to)
    BY <2>3, <1>1 DEF RequestRecord, Fits, PlaceCalls, WorldAssumption, WorldInv, CityInv, WorldStays, Built
  <2> QED BY <2>4, <2>5
<1>9. Asked(n)
  BY <1>1, <1>4, <1>5, <1>8 DEF Asked, Fits, RequestRecord
<1>10. Good(n)
  <2>1. Truthful(n) /\ InOrder(n) /\ PlanStands(n) /\ ~Prepared(n)
    BY <1>4 DEF Truthful, InDoubt, InOrder, PlanStands, Prepared, WorldAssumption
  <2> QED BY <1>4, <1>7, <1>9, <2>1 DEF Good
<1>11. Becomes(h, n)
  <2>1. lost \in 0 .. MaxLost
    BY DEF WorldInv
  <2>2. q.act = "make" => \A g \in Handlers : tx[g].act = "make" => tx[g].item # q.item
    BY DEF Start
  <2> QED BY <1>3, <1>4, <2>1, <2>2 DEF Becomes
<1> QED BY <1>3, <1>10, <1>11, QuietMove

\* The rooms a call plans with.
LEMMA RoomsAre ==
  ASSUME WorldAssumption, CityTyped, NEW q, q \in TxRow, Asked(q)
  PROVE  /\ Rooms(q) \subseteq Places
         /\ q.act \in Acts => at[q.who] \in Rooms(q)
         /\ q.act \in {"move", "send", "hand_place", "set_home", "retire", "restore", "open", "close", "hinge"}
            => q.to \in Rooms(q)
         /\ q.act = "go_home" => home[q.who] = None \/ home[q.who] \in Rooms(q)
         /\ q.act \in {"retire", "restore", "build"} => Parent[q.to] \in Rooms(q)
<1>1. /\ at[q.who] \in Places /\ home[q.who] \in Places \cup {None} /\ home[q.other] \in Places \cup {None}
      /\ None \notin Places /\ Subtree(q.to) \subseteq Places /\ q.rooms \subseteq Places
  BY DEF Asked, CityTyped, Subtree, TxRow, WorldAssumption
<1>2. /\ q.act \in PlaceCalls => q.to \in Places
      /\ q.act \in ThingCalls => thing[q.item].place \in Places \cup {None}
      /\ q.act \in {"retire", "restore", "build"} => Parent[q.to] \in Places
  <2>1. /\ q.act \in PlaceCalls => q.to \in Places
        /\ q.act \in ThingCalls => q.item \in Things
        /\ q.act \in {"retire", "restore", "build"} => q.to # World
    BY DEF Asked, Fits
  <2>2. q.item \in Things => thing[q.item] \in ThingRecord
    BY DEF CityTyped
  <2>3. q.act \in {"retire", "restore", "build"} => q.act \in PlaceCalls
    BY DEF PlaceCalls, Edits
  <2> QED BY <2>1, <2>2, <2>3 DEF ThingRecord, WorldAssumption
<1>3. /\ q.act = "move" => Rooms(q) = {at[q.who], q.to, home[q.who]} \ {None}
      /\ q.act = "go_home" => Rooms(q) = {at[q.who], home[q.who]} \ {None}
      /\ q.act \in {"send", "send_home", "hand_place"} => Rooms(q) = effectPlaceIds(q) \ {None}
      /\ q.act = "give_place" => Rooms(q) = (Subtree(q.to) \cup {at[q.who], home[q.who]}) \ {None}
      /\ q.act = "give_thing" => Rooms(q) = {at[q.who], thing[q.item].place} \ {None}
      /\ q.act = "make" => Rooms(q) = {at[q.who]} \ {None}
      /\ q.act \in {"retire", "restore"} => Rooms(q) = {Parent[q.to], q.to} \ {None}
      /\ q.act = "build" => Rooms(q) = {Parent[q.to]} \ {None}
      /\ q.act = "withdraw" => Rooms(q) = q.rooms \ {None}
      /\ q.act \in {"set_home", "open", "close", "hinge"} => Rooms(q) = {q.to} \ {None}
  BY DEF Rooms
<1>4. effectPlaceIds(q) = {at[q.who], q.to, home[q.who], home[q.other]} /\ q.to \in Places \cup {None}
  BY DEF effectPlaceIds, TxRow
<1>5. q.act \in Acts \cup Edits
  BY DEF Asked
<1> QED BY <1>1, <1>2, <1>3, <1>4, <1>5 DEF Acts, Edits, PlaceCalls, ThingCalls

LEMMA LockResidentKeeps ==
  ASSUME WorldAssumption, WorldInv, NEW h \in Handlers, LockResident(h)
  PROVE  WorldInv'
<1>1. PICK q : q = tx[h]
  OBVIOUS
<1>2. PICK row : row = <<"resident", q.who>>
  OBVIOUS
<1>3. row \in Wants(q) /\ Free(row) /\ q.pc = "locking" /\ row \notin q.has
  BY <1>1, <1>2, WantsIs DEF LockResident
<1>4. CASE Refuse(h)
  BY <1>1, <1>3, <1>4, RefuseKeeps
<1>5. CASE tx' = [tx EXCEPT ![h].has = {row}, ![h].sawAt = at[q.who], ![h].sawHome = home[q.who],
                            ![h].rooms = Rooms(q)] /\ UNCHANGED <<world, lost>>
  <2>1. PICK n : n = [q EXCEPT !.has = {row}, !.sawAt = at[q.who], !.sawHome = home[q.who], !.rooms = Rooms(q)]
    OBVIOUS
  <2>2. tx' = [tx EXCEPT ![h] = n] /\ UNCHANGED world /\ lost' = lost
    BY <1>1, <1>5, <2>1 DEF WorldInv
  <2>3. Good(q) /\ q \in TxRow /\ lost \in 0 .. MaxLost
    BY <1>1, CallIs
  <2>4. Asked(q) /\ CityTyped /\ q.verdict = None /\ q.stored = None /\ ~q.done /\ q.answer = None
    BY <1>3, <2>3 DEF Good, Live, Truthful, WorldInv, CityInv
  <2>5. at[q.who] \in Places /\ home[q.who] \in Places \cup {None} /\ row \in Row
    BY <1>2, <2>4 DEF Asked, CityTyped, Row
  <2>6. n \in TxRow
    BY <2>1, <2>3, <2>4, <2>5, RoomsAre DEF TxRow
  <2>7. /\ n.pc = "locking" /\ n.act = q.act /\ n.who = q.who /\ n.to = q.to /\ n.item = q.item
        /\ n.other = q.other /\ n.sawAt = at[q.who] /\ n.sawHome = home[q.who] /\ n.rooms = Rooms(q)
        /\ n.has = {row} /\ n.verdict = None /\ n.stored = None /\ n.answer = None /\ n.done = q.done
    BY <1>3, <2>1, <2>3, <2>4 DEF TxRow
  <2>8. Asked(n)
    BY <2>4, <2>5, <2>7 DEF Asked, Fits
  <2>9. Planned(n)
    BY <2>3, <2>4, <2>7, RoomsAre DEF Planned
  <2>10. InOrder(n) /\ PlanStands(n)
    BY <1>2, <2>7 DEF InOrder, PlanStands
  <2>11. Truthful(n) /\ ~Prepared(n)
    BY <2>4, <2>7 DEF Truthful, Prepared, InDoubt, WorldAssumption
  <2>12. Good(n)
    BY <2>6, <2>8, <2>9, <2>10, <2>11 DEF Good
  <2>13. Becomes(h, n)
    BY <1>1, <1>3, <2>2, <2>3, <2>7, LocksApart
  <2> QED BY <2>2, <2>12, <2>13, QuietMove
<1> QED BY <1>1, <1>2, <1>4, <1>5 DEF LockResident

LEMMA BlockKeeps ==
  ASSUME WorldAssumption, WorldInv, NEW h \in Handlers, Block(h)
  PROVE  WorldInv'
<1>1. PICK q : q = tx[h]
  OBVIOUS
<1>2. PICK n : n = [q EXCEPT !.pc = "commit", !.verdict = "blocked"]
  OBVIOUS
<1>3. tx' = [tx EXCEPT ![h] = n] /\ UNCHANGED world /\ lost' = lost
  BY <1>1, <1>2 DEF Block, WorldInv
<1>4. Good(q) /\ q \in TxRow /\ lost \in 0 .. MaxLost /\ q.pc = "locking" /\ q.has # {}
  BY <1>1, CallIs DEF Block
<1>5. n \in TxRow /\ SameCall(q, n) /\ n.has = q.has /\ n.pc = "commit" /\ n.verdict = "blocked"
      /\ n.stored = q.stored /\ n.done = q.done /\ n.answer = q.answer
  BY <1>2, <1>4 DEF TxRow, SameCall, Verdicts
<1>6. q.stored = None /\ ~q.done /\ q.answer = None
  BY <1>4 DEF Good, Truthful
<1>7. Truthful(n) /\ ~Prepared(n)
  BY <1>4, <1>5, <1>6 DEF Truthful, InDoubt, Prepared, WorldAssumption
<1>8. Good(n)
  BY <1>4, <1>5, <1>7, GoesOn
<1>9. Becomes(h, n)
  BY <1>1, <1>3, <1>4, <1>5, StaysApart DEF SameCall
<1> QED BY <1>3, <1>8, <1>9, QuietMove

\* A call locks one more row.
LEMMA LockKeeps ==
  ASSUME WorldAssumption, WorldInv, NEW h \in Handlers, NEW q, q = tx[h], NEW row \in Row,
         q.pc = "locking", q.has # {}, Free(row),
         tx' = [tx EXCEPT ![h].has = @ \cup {row}], UNCHANGED <<world, lost>>,
         \A r \in Residents : row # <<"resident", r>>,
         \A p \in Places : row = <<"place", p>> => p \in q.rooms,
         (\E r \in Residents : row = <<"presence", r>>) => HasRooms(q),
         row = <<"presence", q.who>> => PlanHolds(q)
  PROVE  WorldInv'
<1>1. PICK n : n = [q EXCEPT !.has = q.has \cup {row}]
  OBVIOUS
<1>2. tx' = [tx EXCEPT ![h] = n] /\ UNCHANGED world /\ lost' = lost
  BY <1>1 DEF WorldInv
<1>3. Good(q) /\ q \in TxRow /\ lost \in 0 .. MaxLost
  BY CallIs
<1>4. n \in TxRow /\ n.has = q.has \cup {row} /\ SameCall(q, n) /\ n.pc = "locking"
      /\ n.verdict = q.verdict /\ n.stored = q.stored /\ n.done = q.done /\ n.answer = q.answer
  BY <1>1, <1>3 DEF TxRow, SameCall
<1>5. Asked(n) /\ Planned(n)
  BY <1>3, <1>4, SameChecks DEF Good, Live
<1>6. InOrder(n)
  <2>1. InOrder(q)
    BY <1>3 DEF Good
  <2> QED BY <1>4, <2>1 DEF InOrder, SameCall, HasRooms
<1>7. PlanStands(n)
  <2>1. PlanStands(q)
    BY <1>3 DEF Good
  <2> QED BY <1>4, <2>1 DEF PlanStands, PlanHolds, SameCall
<1>8. Truthful(n) /\ ~Prepared(n)
  <2>1. Truthful(q)
    BY <1>3 DEF Good
  <2>2. q.stored = None /\ ~q.done /\ q.answer = None /\ q.verdict = None
    BY <2>1 DEF Truthful
  <2> QED BY <1>4, <2>2 DEF Truthful, InDoubt, Prepared, WorldAssumption
<1>9. Good(n)
  BY <1>4, <1>5, <1>6, <1>7, <1>8 DEF Good
<1>10. n.has \subseteq tx[h].has \cup {row} /\ n.act = tx[h].act /\ n.item = tx[h].item /\ lost' \in 0 .. MaxLost
  BY <1>2, <1>3, <1>4 DEF SameCall
<1>11. Becomes(h, n)
  BY <1>2, <1>10, LocksApart
<1> QED BY <1>2, <1>9, <1>11, QuietMove

LEMMA LockRoomKeeps ==
  ASSUME WorldAssumption, WorldInv, NEW h \in Handlers, LockRoom(h)
  PROVE  WorldInv'
<1>1. PICK q : q = tx[h]
  OBVIOUS
<1>2. PICK row \in Wants(q) :
        /\ row[1] = "place" /\ Free(row)
        /\ tx' = [tx EXCEPT ![h].has = @ \cup {row}]
        /\ UNCHANGED <<world, lost>>
  BY <1>1 DEF LockRoom
<1>3. /\ q.pc = "locking" /\ <<"resident", q.who>> \in q.has
      /\ \E p \in q.rooms : row = <<"place", p>>
  BY <1>2, WantsIs
<1>4. q \in TxRow
  BY <1>1, CallIs
<1>5. row \in Row
  BY <1>3, <1>4 DEF TxRow, Row
<1>6. /\ \A r \in Residents : row # <<"resident", r>> /\ row # <<"presence", r>>
      /\ \A p \in Places : row = <<"place", p>> => p \in q.rooms
      /\ row # <<"presence", q.who>> /\ q.has # {}
  BY <1>3
<1> QED BY <1>1, <1>2, <1>3, <1>5, <1>6, LockKeeps

LEMMA LockPresenceKeeps ==
  ASSUME WorldAssumption, WorldInv, NEW h \in Handlers, LockPresence(h)
  PROVE  WorldInv'
<1>1. PICK q : q = tx[h]
  OBVIOUS
<1>2. PICK row : row = <<"presence", q.who>>
  OBVIOUS
<1>3. /\ row \in Wants(q) /\ Free(row)
      /\ q.pc = "locking" /\ <<"resident", q.who>> \in q.has /\ HasRooms(q)
  BY <1>1, <1>2, WantsIs DEF LockPresence
<1>4. CASE Refuse(h)
  BY <1>1, <1>3, <1>4, RefuseKeeps
<1>5. CASE PlanHolds(q) /\ tx' = [tx EXCEPT ![h].has = @ \cup {row}] /\ UNCHANGED <<world, lost>>
  <2>1. Good(q)
    BY <1>1, CallIs
  <2>2. q.who \in Residents
    BY <1>3, <2>1 DEF Good, Live, Asked
  <2>3. row \in Row
    BY <1>2, <2>2 DEF Row
  <2> QED BY <1>1, <1>2, <1>3, <1>5, <2>3, LockKeeps
<1> QED BY <1>1, <1>2, <1>4, <1>5 DEF LockPresence

LEMMA LockLateKeeps ==
  ASSUME WorldAssumption, WorldInv, NEW h \in Handlers, LockLate(h)
  PROVE  WorldInv'
<1>1. PICK q : q = tx[h]
  OBVIOUS
<1>2. PICK row \in Wants(q) :
        /\ row[1] = "thing" \/ (row[1] = "presence" /\ row[2] # q.who)
        /\ Free(row)
        /\ tx' = [tx EXCEPT ![h].has = @ \cup {row}]
        /\ UNCHANGED <<world, lost>>
  BY <1>1 DEF LockLate
<1>3. /\ q.pc = "locking" /\ <<"resident", q.who>> \in q.has /\ HasRooms(q)
      /\ \/ \E r \in OwnPresence(q) \cup LatePresence(q) : row = <<"presence", r>> /\ r # q.who
         \/ \E t \in LateThings(q) : row = <<"thing", t>>
  BY <1>2, WantsIs
<1>4. q \in TxRow /\ Asked(q)
  BY <1>1, <1>3, CallIs DEF Good, Live
<1>5. row \in Row
  <2>1. \A r \in OwnPresence(q) \cup LatePresence(q) : r # q.who => r \in Residents
    BY <1>4, LateRows DEF OwnPresence
  <2>2. \A t \in LateThings(q) : t \in Things
    BY <1>4, LateRows
  <2> QED BY <1>3, <2>1, <2>2 DEF Row
<1>6. /\ \A r \in Residents : row # <<"resident", r>>
      /\ \A p \in Places : row # <<"place", p>>
      /\ row # <<"presence", q.who>> /\ q.has # {}
  BY <1>3
<1> QED BY <1>1, <1>2, <1>3, <1>5, <1>6, LockKeeps

LEMMA ExecuteKeeps ==
  ASSUME WorldAssumption, WorldInv, NEW h \in Handlers, Execute(h)
  PROVE  WorldInv'
<1>1. PICK q : q = tx[h]
  OBVIOUS
<1>2. q.pc = "locking" /\ Wants(q) = {}
  BY <1>1 DEF Execute
<1>3. CASE Refuse(h)
  BY <1>1, <1>2, <1>3, RefuseKeeps
<1>4. CASE Can(q) /\ tx' = [tx EXCEPT ![h].pc = "commit", ![h].verdict = "applied"] /\ UNCHANGED <<world, lost>>
  <2>1. PICK n : n = [q EXCEPT !.pc = "commit", !.verdict = "applied"]
    OBVIOUS
  <2>2. tx' = [tx EXCEPT ![h] = n] /\ UNCHANGED world /\ lost' = lost
    BY <1>1, <1>4, <2>1 DEF WorldInv
  <2>3. Good(q) /\ q \in TxRow /\ lost \in 0 .. MaxLost
    BY <1>1, CallIs
  <2>4. Holds(q)
    BY <1>2, <2>3, NothingWanted
  <2>5. q.has # {}
    BY <2>4 DEF Holds
  <2>6. n \in TxRow /\ SameCall(q, n) /\ n.has = q.has /\ n.pc = "commit" /\ n.verdict = "applied"
        /\ n.stored = q.stored /\ n.done = q.done /\ n.answer = q.answer
    BY <2>1, <2>3 DEF TxRow, SameCall, Verdicts
  <2>7. q.stored = None /\ ~q.done /\ q.answer = None
    BY <1>2, <2>3 DEF Good, Truthful
  <2>8. Truthful(n)
    BY <2>5, <2>6, <2>7 DEF Truthful, InDoubt, WorldAssumption
  <2>9. Good(n)
    BY <1>4, <2>3, <2>4, <2>5, <2>6, <2>8, GoesOn
  <2>10. Becomes(h, n)
    BY <1>1, <2>2, <2>3, <2>6, StaysApart DEF SameCall
  <2> QED BY <2>2, <2>9, <2>10, QuietMove
<1> QED BY <1>1, <1>3, <1>4 DEF Execute

-----------------------------------------------------------------------------
(* Steps that end a transaction, and answers                               *)

\* A transaction is kept: its writes are made and its rows are free.
LEMMA ApplyStep ==
  ASSUME WorldAssumption, WorldInv, NEW h \in Handlers, NEW q, q = tx[h], q.has # {}, q.pc # "locking",
         Apply(q), NEW n \in TxRow, n.has = {}, n.pc \notin {"locking", "commit"}, Truthful(n),
         Becomes(h, n)
  PROVE  WorldInv'
<1>1. Good(q) /\ CityInv
  BY CallIs DEF WorldInv
<1>2. Good(n) /\ Good(n)'
  BY Rests
<1>3. CASE UNCHANGED world
  BY <1>2, <1>3, QuietMove
<1>4. CASE q.verdict = "applied"
  <2>1. Ready(q)
    BY <1>1, <1>4, PreparedIsReady DEF Prepared
  <2>2. CityInv' /\ Footprint(q)
    BY <1>1, <2>1, ApplyKeeps
  <2>3. ASSUME NEW g \in {tx[i] : i \in Handlers \ {h}} PROVE Good(g)'
    <3>1. Good(g)
      BY <1>1 DEF WorldInv, AllCalls
    <3>2. Beside(q, g)
      BY <2>2 DEF Beside, WorldInv, Exclusive
    <3> QED BY <1>1, <2>2, <3>1, <3>2, GoodStays
  <2> QED BY <1>2, <2>2, <2>3, CallMoves
<1> QED BY <1>3, <1>4 DEF Apply

\* What the database keeps of a transaction.
LEMMA CommittedIs ==
  ASSUME WorldAssumption, NEW q, q \in TxRow, Truthful(q), q.has # {}, q.pc # "locking"
  PROVE  LET c == Committed(q)
         IN  /\ c \in TxRow /\ c.has = {} /\ c.act = q.act /\ c.item = q.item /\ c.pc = q.pc
             /\ c.answer = q.answer /\ c.verdict = q.verdict /\ c.verdict \in {"applied", "blocked"}
             /\ c.done <=> c.verdict = "applied"
             /\ c.act \in Acts => c.stored = c.verdict
             /\ c.act \notin Acts => c.stored = None
<1>1. PICK c : c = Committed(q)
  OBVIOUS
<1>2. q.verdict \in {"applied", "blocked"}
  BY DEF Truthful, InDoubt, TxRow, Verdicts
<1>3. PICK s : s = IF q.act \in Acts THEN q.verdict ELSE None
  OBVIOUS
<1>0. PICK b \in BOOLEAN : b = (q.verdict = "applied")
  OBVIOUS
<1>4. c = [q EXCEPT !.has = {}, !.done = b, !.stored = s]
  BY <1>0, <1>1, <1>3 DEF Committed
<1>5. s \in Verdicts
  BY <1>2, <1>3 DEF Verdicts
<1>6. c \in TxRow
  <2>1. CASE b = TRUE
    <3>1. c = [q EXCEPT !.has = {}, !.done = TRUE, !.stored = s]
      BY <1>4, <2>1
    <3> QED BY <1>5, <3>1 DEF TxRow
  <2>2. CASE b = FALSE
    <3>1. c = [q EXCEPT !.has = {}, !.done = FALSE, !.stored = s]
      BY <1>4, <2>2
    <3> QED BY <1>5, <3>1 DEF TxRow
  <2> QED BY <1>0, <2>1, <2>2
<1>7. /\ c.has = {} /\ c.act = q.act /\ c.item = q.item /\ c.pc = q.pc
      /\ c.answer = q.answer /\ c.verdict = q.verdict /\ c.stored = s
  BY <1>4 DEF TxRow
<1>8. c.done <=> q.verdict = "applied"
  BY <1>0, <1>4 DEF TxRow
<1> QED BY <1>1, <1>2, <1>3, <1>6, <1>7, <1>8

\* A handler that answers.
LEMMA DoneIs ==
  ASSUME NEW q, q \in TxRow, NEW answer, answer \in Verdicts \cup {"failed", "refused", "unconfirmed"}
  PROVE  LET d == Done(q, answer)
         IN  /\ d \in TxRow /\ d.pc = "done" /\ d.answer = answer /\ d.act = q.act /\ d.has = q.has
             /\ d.stored = q.stored /\ d.done = q.done
             /\ q.has # {} => SameCall(q, d) /\ d.verdict = q.verdict
             /\ d.item = None \/ d.item = q.item
<1>1. PICK d : d = Done(q, answer)
  OBVIOUS
<1>2. CASE q.has # {}
  <2>1. d = [q EXCEPT !.pc = "done", !.answer = answer]
    BY <1>1, <1>2 DEF Done
  <2>2. d \in TxRow
    BY <2>1 DEF TxRow
  <2>3. /\ d.pc = "done" /\ d.answer = answer /\ d.act = q.act /\ d.has = q.has
        /\ d.stored = q.stored /\ d.done = q.done /\ SameCall(q, d) /\ d.verdict = q.verdict
    BY <2>1 DEF TxRow, SameCall
  <2> QED BY <1>1, <2>2, <2>3 DEF SameCall
<1>3. CASE q.has = {}
  <2>1. d = [[Idle EXCEPT !.act = q.act, !.stored = q.stored, !.done = q.done] EXCEPT !.pc = "done", !.answer = answer]
    BY <1>1, <1>3 DEF Done
  <2>2. d \in TxRow
    <3>1. /\ q.act \in Acts \cup Edits \cup {None} /\ q.done \in BOOLEAN
          /\ q.stored \in Verdicts \cup {"failed"}
      BY DEF TxRow
    <3> QED BY <2>1, <3>1, IdleIs, ZenonT(40) DEF TxRow
  <2>3. /\ d.pc = "done" /\ d.answer = answer /\ d.act = q.act /\ d.has = {}
        /\ d.stored = q.stored /\ d.done = q.done /\ d.item = None
    BY <2>1 DEF Idle
  <2> QED BY <1>1, <1>3, <2>2, <2>3
<1> QED BY <1>2, <1>3

LEMMA CommitKeeps ==
  ASSUME WorldAssumption, WorldInv, NEW h \in Handlers, Commit(h)
  PROVE  WorldInv'
<1>1. PICK q : q = tx[h]
  OBVIOUS
<1>2. PICK c : c = Committed(q)
  OBVIOUS
<1>3. PICK n : n = Done(c, q.verdict)
  OBVIOUS
<1>4. tx' = [tx EXCEPT ![h] = n] /\ lost' = lost /\ q.pc = "commit" /\ Apply(q)
  BY <1>1, <1>2, <1>3 DEF Commit
<1>5. Good(q) /\ q \in TxRow /\ lost \in 0 .. MaxLost /\ Truthful(q)
  BY <1>1, CallIs DEF Good
<1>6. q.has # {}
  BY <1>4, <1>5 DEF Truthful
<1>7. /\ c \in TxRow /\ c.has = {} /\ c.act = q.act /\ c.item = q.item
      /\ c.verdict = q.verdict /\ c.verdict \in {"applied", "blocked"}
      /\ c.done <=> c.verdict = "applied"
      /\ c.act \in Acts => c.stored = c.verdict
  BY <1>2, <1>4, <1>5, <1>6, CommittedIs
<1>8. /\ n \in TxRow /\ n.pc = "done" /\ n.answer = q.verdict /\ n.act = q.act /\ n.has = {}
      /\ n.stored = c.stored /\ n.done = c.done
      /\ n.item = None \/ n.item = q.item
  BY <1>3, <1>7, DoneIs DEF Verdicts
<1>9. Truthful(n)
  BY <1>7, <1>8 DEF Truthful, InDoubt, WorldAssumption
<1>10. Becomes(h, n)
  BY <1>1, <1>4, <1>5, <1>8, StaysApart
<1> QED BY <1>1, <1>4, <1>6, <1>8, <1>9, <1>10, ApplyStep

LEMMA LoseCommitKeeps ==
  ASSUME WorldAssumption, WorldInv, NEW h \in Handlers, LoseCommit(h)
  PROVE  WorldInv'
<1>1. PICK q : q = tx[h]
  OBVIOUS
<1>2. Good(q) /\ q \in TxRow /\ lost \in 0 .. MaxLost /\ Truthful(q) /\ q.pc = "commit"
  BY <1>1, CallIs DEF Good, LoseCommit
<1>3. lost' \in 0 .. MaxLost
  BY <1>2 DEF LoseCommit, WorldAssumption
<1>4. q.has # {} /\ q.stored = None /\ ~q.done /\ q.answer = None /\ q.verdict # None
  BY <1>2 DEF Truthful
<1>5. CASE Apply(q) /\ tx' = [tx EXCEPT ![h] = [Committed(q) EXCEPT !.pc = "unknown"]]
  <2>1. PICK c : c = Committed(q)
    OBVIOUS
  <2>2. PICK n : n = [c EXCEPT !.pc = "unknown"]
    OBVIOUS
  <2>3. /\ c \in TxRow /\ c.has = {} /\ c.act = q.act /\ c.item = q.item /\ c.answer = q.answer
        /\ c.verdict = q.verdict /\ c.verdict \in {"applied", "blocked"}
        /\ c.done <=> c.verdict = "applied"
        /\ c.act \in Acts => c.stored = c.verdict
    BY <1>2, <1>4, <2>1, CommittedIs
  <2>4. /\ n \in TxRow /\ n.pc = "unknown" /\ n.has = {} /\ n.act = q.act /\ n.item = q.item
        /\ n.answer = q.answer /\ n.stored = c.stored /\ n.done = c.done
    BY <2>2, <2>3 DEF TxRow
  <2>5. Truthful(n)
    BY <1>4, <2>3, <2>4 DEF Truthful, InDoubt, WorldAssumption
  <2>6. tx' = [tx EXCEPT ![h] = n]
    BY <1>5, <2>1, <2>2
  <2>7. Becomes(h, n)
    BY <1>1, <1>3, <2>4, <2>6, StaysApart
  <2> QED BY <1>1, <1>2, <1>4, <1>5, <2>4, <2>5, <2>7, ApplyStep
<1>6. CASE tx' = [tx EXCEPT ![h].has = {}, ![h].pc = "unknown"] /\ UNCHANGED world
  <2>1. PICK n : n = [q EXCEPT !.has = {}, !.pc = "unknown"]
    OBVIOUS
  <2>2. tx' = [tx EXCEPT ![h] = n]
    BY <1>1, <1>6, <2>1 DEF WorldInv
  <2>3. /\ n \in TxRow /\ n.pc = "unknown" /\ n.has = {} /\ n.act = q.act /\ n.item = q.item
        /\ n.answer = q.answer /\ n.stored = q.stored /\ n.done = q.done
    BY <1>2, <2>1 DEF TxRow
  <2>4. Truthful(n)
    BY <1>4, <2>3 DEF Truthful, InDoubt, WorldAssumption
  <2>5. Good(n)
    BY <2>3, <2>4, Rests
  <2>6. Becomes(h, n)
    BY <1>1, <1>3, <2>2, <2>3, StaysApart
  <2> QED BY <1>6, <2>5, <2>6, QuietMove
<1>7. CASE tx' = [tx EXCEPT ![h].pc = "unknown"] /\ UNCHANGED world
  <2>1. PICK n : n = [q EXCEPT !.pc = "unknown"]
    OBVIOUS
  <2>2. tx' = [tx EXCEPT ![h] = n]
    BY <1>1, <1>7, <2>1 DEF WorldInv
  <2>3. /\ n \in TxRow /\ n.pc = "unknown" /\ n.has = q.has /\ SameCall(q, n) /\ n.verdict = q.verdict
        /\ n.answer = q.answer /\ n.stored = q.stored /\ n.done = q.done
    BY <1>2, <2>1 DEF TxRow, SameCall
  <2>4. Truthful(n)
    BY <1>4, <2>3 DEF Truthful, InDoubt, WorldAssumption
  <2>5. Prepared(n) => Prepared(q)
    BY <1>2, <2>3 DEF Prepared
  <2>6. Good(n)
    BY <1>2, <1>4, <2>3, <2>4, <2>5, GoesOn
  <2>7. Becomes(h, n)
    BY <1>1, <1>3, <2>2, <2>3, StaysApart DEF SameCall
  <2> QED BY <1>7, <2>6, <2>7, QuietMove
<1> QED BY <1>1, <1>5, <1>6, <1>7 DEF LoseCommit

LEMMA SettleKeeps ==
  ASSUME WorldAssumption, WorldInv, NEW h \in Handlers, Settle(h)
  PROVE  WorldInv'
<1>1. PICK q : q = tx[h]
  OBVIOUS
<1>2. /\ Good(q) /\ q \in TxRow /\ lost \in 0 .. MaxLost /\ Truthful(q) /\ q.has # {} /\ lost' = lost
      /\ q.pc \notin {"locking", "commit"}
  BY <1>1, CallIs DEF Good, Settle, InDoubt
<1>3. q.pc \in {"unknown", "insert", "done"} /\ q.stored = None /\ ~q.done
  BY <1>2 DEF Truthful, TxRow
<1>4. /\ q.pc # "done" => q.answer = None
      /\ q.act \in Acts => q.answer # "applied" /\ q.answer \notin {"failed", "blocked"}
  BY <1>2, <1>3 DEF Truthful
<1>5. CASE Apply(q) /\ tx' = [tx EXCEPT ![h] = Committed(q)]
  <2>1. PICK n : n = Committed(q)
    OBVIOUS
  <2>2. /\ n \in TxRow /\ n.has = {} /\ n.act = q.act /\ n.item = q.item /\ n.answer = q.answer
        /\ n.pc = q.pc /\ n.verdict = q.verdict /\ n.verdict \in {"applied", "blocked"}
        /\ n.done <=> n.verdict = "applied"
        /\ n.act \in Acts => n.stored = n.verdict
    BY <1>2, <2>1, CommittedIs
  <2>3. Truthful(n)
    BY <1>3, <1>4, <2>2 DEF Truthful, InDoubt, WorldAssumption
  <2>4. tx' = [tx EXCEPT ![h] = n]
    BY <1>5, <2>1
  <2>5. Becomes(h, n)
    BY <1>1, <1>2, <2>2, <2>4, StaysApart
  <2> QED BY <1>1, <1>2, <1>5, <2>2, <2>3, <2>5, ApplyStep
<1>6. CASE tx' = [tx EXCEPT ![h].has = {}] /\ UNCHANGED world
  <2>1. PICK n : n = [q EXCEPT !.has = {}]
    OBVIOUS
  <2>2. tx' = [tx EXCEPT ![h] = n]
    BY <1>1, <1>6, <2>1 DEF WorldInv
  <2>3. /\ n \in TxRow /\ n.pc = q.pc /\ n.has = {} /\ n.act = q.act /\ n.item = q.item
        /\ n.answer = q.answer /\ n.stored = q.stored /\ n.done = q.done
    BY <1>2, <2>1 DEF TxRow
  <2>4. Truthful(n)
    BY <1>2, <1>3, <1>4, <2>3 DEF Truthful, InDoubt, WorldAssumption
  <2>5. Good(n)
    BY <1>3, <2>3, <2>4, Rests
  <2>6. Becomes(h, n)
    BY <1>1, <1>2, <2>2, <2>3, StaysApart
  <2> QED BY <1>6, <2>5, <2>6, QuietMove
<1> QED BY <1>1, <1>5, <1>6 DEF Settle

\* A handler answers what is true, and its rows stay as they are.
LEMMA AnswerKeeps ==
  ASSUME WorldAssumption, WorldInv, NEW h \in Handlers, NEW q, NEW answer, q \in TxRow,
         answer \in Verdicts \cup {"failed", "refused", "unconfirmed"},
         q.has = tx[h].has, SameCall(tx[h], q), q.verdict = tx[h].verdict, q.done = tx[h].done,
         tx[h].pc \notin {"locking", "commit"},
         q.has # {} => q.stored = None /\ ~q.done /\ q.verdict # None,
         q.act \in Acts =>
           /\ q.stored = "applied" <=> q.done
           /\ answer = "applied" => q.done
           /\ answer \in {"failed", "blocked"} => ~q.done /\ q.has = {}
           /\ q.stored = None => answer = "unconfirmed",
         tx' = [tx EXCEPT ![h] = Done(q, answer)], UNCHANGED world, lost' \in 0 .. MaxLost
  PROVE  WorldInv'
<1>1. PICK n : n = Done(q, answer)
  OBVIOUS
<1>2. /\ n \in TxRow /\ n.pc = "done" /\ n.answer = answer /\ n.act = q.act /\ n.has = q.has
      /\ n.stored = q.stored /\ n.done = q.done
      /\ q.has # {} => SameCall(q, n) /\ n.verdict = q.verdict
      /\ n.item = None \/ n.item = q.item
  BY <1>1, DoneIs
<1>3. Truthful(n)
  BY <1>2 DEF Truthful, InDoubt
<1>4. PICK o : o = tx[h]
  OBVIOUS
<1>5. Good(o)
  BY <1>4, CallIs
<1>6. Good(n)
  <2>1. CASE q.has = {}
    BY <1>2, <1>3, <2>1, Rests
  <2>2. CASE q.has # {}
    <3>1. SameCall(o, n) /\ n.has = o.has /\ o.has # {}
      BY <1>2, <1>4, <2>2 DEF SameCall
    <3>2. Prepared(n) => Prepared(o)
      BY <1>2, <1>4, <2>2 DEF Prepared
    <3> QED BY <1>2, <1>3, <1>5, <3>1, <3>2, GoesOn
  <2> QED BY <2>1, <2>2
<1>7. Becomes(h, n)
  <2>1. n.has \subseteq tx[h].has /\ (n.act = "make" => n.item = None \/ (tx[h].act = "make" /\ n.item = tx[h].item))
    BY <1>2 DEF SameCall
  <2> QED BY <1>1, <2>1, StaysApart
<1> QED BY <1>6, <1>7, QuietMove

\* What is true of a call that waits for no row and has not answered.
LEMMA OpenCall ==
  ASSUME WorldInv, NEW h \in Handlers, tx[h].pc \in {"unknown", "insert"}
  PROVE  LET q == tx[h]
         IN  /\ q \in TxRow /\ SameCall(q, q)
             /\ q.has # {} => q.stored = None /\ ~q.done /\ q.verdict # None
             /\ q.act \in Acts => (q.stored = "applied" <=> q.done)
             /\ q.answer = None
<1>1. PICK q : q = tx[h]
  OBVIOUS
<1>2. q \in TxRow /\ Truthful(q) /\ q.pc \in {"unknown", "insert"}
  BY <1>1, CallIs DEF Good
<1> QED BY <1>1, <1>2 DEF Truthful, InDoubt, SameCall

LEMMA ReadResolutionKeeps ==
  ASSUME WorldAssumption, WorldInv, NEW h \in Handlers, ReadResolution(h)
  PROVE  WorldInv'
<1>1. PICK q : q = tx[h]
  OBVIOUS
<1>2. q.pc = "unknown" /\ UNCHANGED world /\ lost' \in 0 .. MaxLost
  BY <1>1, CallIs DEF ReadResolution
<1>3. /\ q \in TxRow /\ SameCall(q, q)
      /\ q.has # {} => q.stored = None /\ ~q.done /\ q.verdict # None
      /\ q.act \in Acts => (q.stored = "applied" <=> q.done)
      /\ q.answer = None
  BY <1>1, <1>2, OpenCall
<1>4. CASE q.act \notin Acts /\ Answer(h, "unconfirmed")
  <2>1. tx' = [tx EXCEPT ![h] = Done(q, "unconfirmed")]
    BY <1>1, <1>4 DEF Answer
  <2> QED BY <1>1, <1>2, <1>3, <1>4, <2>1, AnswerKeeps
<1>5. CASE q.act \in Acts /\ q.stored # None /\ Answer(h, q.stored)
  <2>1. tx' = [tx EXCEPT ![h] = Done(q, q.stored)] /\ q.has = {}
    BY <1>1, <1>3, <1>5 DEF Answer
  <2>2. q.stored \in Verdicts \cup {"failed", "refused", "unconfirmed"}
    BY <1>3 DEF TxRow
  <2> QED BY <1>1, <1>2, <1>3, <1>5, <2>1, <2>2, AnswerKeeps
<1>6. CASE q.act \in Acts /\ q.stored = None /\ tx' = [tx EXCEPT ![h].pc = "insert"]
  <2>1. PICK n : n = [q EXCEPT !.pc = "insert"]
    OBVIOUS
  <2>2. tx' = [tx EXCEPT ![h] = n]
    BY <1>1, <1>6, <2>1 DEF WorldInv
  <2>3. /\ n \in TxRow /\ n.pc = "insert" /\ n.has = q.has /\ SameCall(q, n) /\ n.verdict = q.verdict
        /\ n.answer = q.answer /\ n.stored = q.stored /\ n.done = q.done
    BY <1>3, <2>1 DEF TxRow, SameCall
  <2>4. Truthful(n)
    BY <1>3, <1>6, <2>3 DEF Truthful, InDoubt, WorldAssumption, SameCall
  <2>5. Good(q)
    BY <1>1, CallIs
  <2>6. Good(n)
    <3>1. CASE q.has = {}
      BY <2>3, <2>4, <3>1, Rests
    <3>2. CASE q.has # {}
      <4>1. Prepared(n) => Prepared(q)
        BY <1>2, <2>3 DEF Prepared
      <4> QED BY <2>3, <2>4, <2>5, <3>2, <4>1, GoesOn
    <3> QED BY <3>1, <3>2
  <2>7. Becomes(h, n)
    BY <1>1, <1>2, <2>2, <2>3, StaysApart DEF SameCall
  <2> QED BY <1>2, <2>6, <2>7, QuietMove
<1> QED BY <1>1, <1>4, <1>5, <1>6 DEF ReadResolution

LEMMA RecordFailureKeeps ==
  ASSUME WorldAssumption, WorldInv, NEW h \in Handlers, RecordFailure(h)
  PROVE  WorldInv'
<1>1. PICK q : q = tx[h]
  OBVIOUS
<1>2. q.pc = "insert" /\ q.has = {} /\ UNCHANGED world /\ lost' \in 0 .. MaxLost
  BY <1>1, CallIs DEF RecordFailure, InDoubt
<1>3. /\ q \in TxRow /\ SameCall(q, q)
      /\ q.act \in Acts => (q.stored = "applied" <=> q.done)
  BY <1>1, <1>2, OpenCall
<1>4. CASE q.stored # None /\ Answer(h, q.stored)
  <2>1. tx' = [tx EXCEPT ![h] = Done(q, q.stored)]
    BY <1>1, <1>4 DEF Answer
  <2>2. q.stored \in Verdicts \cup {"failed", "refused", "unconfirmed"}
    BY <1>3 DEF TxRow
  <2> QED BY <1>1, <1>2, <1>3, <1>4, <2>1, <2>2, AnswerKeeps
<1>5. CASE q.stored = None /\ tx' = [tx EXCEPT ![h] = Done([q EXCEPT !.stored = "failed"], "failed")]
  <2>1. PICK s : s = [q EXCEPT !.stored = "failed"]
    OBVIOUS
  <2>2. s \in TxRow /\ SameCall(q, s) /\ s.has = q.has /\ s.verdict = q.verdict /\ s.done = q.done
        /\ s.stored = "failed" /\ s.act = q.act
    BY <1>3, <2>1 DEF TxRow, SameCall
  <2>3. tx' = [tx EXCEPT ![h] = Done(s, "failed")]
    BY <1>5, <2>1
  <2>4. q.act \in Acts => ~q.done
    BY <1>3, <1>5 DEF WorldAssumption
  <2> QED BY <1>1, <1>2, <2>2, <2>3, <2>4, AnswerKeeps DEF WorldAssumption
<1> QED BY <1>1, <1>4, <1>5 DEF RecordFailure

LEMMA GiveUpKeeps ==
  ASSUME WorldAssumption, WorldInv, NEW h \in Handlers, GiveUp(h)
  PROVE  WorldInv'
<1>1. PICK q : q = tx[h]
  OBVIOUS
<1>2. q.pc \in {"unknown", "insert"} /\ UNCHANGED world /\ tx' = [tx EXCEPT ![h] = Done(q, "unconfirmed")]
  BY <1>1 DEF GiveUp, Answer
<1>3. lost' \in 0 .. MaxLost
  <2>1. lost \in 0 .. MaxLost
    BY CallIs
  <2> QED BY <2>1 DEF GiveUp, WorldAssumption
<1>4. /\ q \in TxRow /\ SameCall(q, q)
      /\ q.has # {} => q.stored = None /\ ~q.done /\ q.verdict # None
      /\ q.act \in Acts => (q.stored = "applied" <=> q.done)
  BY <1>1, <1>2, OpenCall
<1> QED BY <1>1, <1>2, <1>3, <1>4, AnswerKeeps

LEMMA VictimKeeps ==
  ASSUME WorldAssumption, WorldInv, NEW h \in Handlers, Victim(h)
  PROVE  WorldInv'
<1>1. PICK g \in Handlers : WaitsFor(h, g)
  BY DEF Victim, Circle
<1>2. \E row \in Wants(tx[h]) : TRUE
  BY <1>1 DEF WaitsFor
<1>3. tx[h].pc = "locking"
  BY <1>2, WantsIs
<1> QED BY <1>3, RefuseKeeps DEF Victim

-----------------------------------------------------------------------------
(* The theorems                                                            *)

LEMMA WorldInit ==
  ASSUME WorldAssumption, Init
  PROVE  WorldInv
<1>1. PICK s \in Starts : place = s.place /\ at = s.at /\ home = s.home /\ thing = s.thing
  BY DEF Init
<1>2. SoundCity(s)
  BY DEF WorldAssumption
<1>3. CityTyped /\ WorldStays /\ ThingsSound
  BY <1>1, <1>2 DEF SoundCity, CityTyped, WorldStays, ThingsSound
<1>4. RetiredIsEmpty
  BY <1>1, <1>2 DEF SoundCity, RetiredIsEmpty, Here, Active
<1>5. LuggageFollows
  BY <1>1, <1>2 DEF SoundCity, LuggageFollows, Permits
<1>6. Idle \in TxRow /\ Idle.has = {} /\ Idle.pc = "idle" /\ Truthful(Idle)
  BY IdleIs DEF Idle, Truthful, InDoubt, WorldAssumption
<1>7. Good(Idle)
  BY <1>6, Rests
<1>8. tx = [h \in Handlers |-> Idle] /\ lost \in 0 .. MaxLost
  BY DEF Init, WorldAssumption
<1>9. (\A q \in AllCalls : Good(q)) /\ Exclusive
  BY <1>6, <1>7, <1>8 DEF AllCalls, Exclusive, Idle
<1> QED BY <1>3, <1>4, <1>5, <1>8, <1>9 DEF WorldInv, CityInv

LEMMA WorldStep ==
  ASSUME WorldAssumption, WorldInv, [Next]_vars
  PROVE  WorldInv'
<1>1. CASE UNCHANGED vars
  <2>1. UNCHANGED world /\ tx' = tx /\ lost' = lost
    BY <1>1 DEF vars, world
  <2>2. CityInv'
    BY <2>1 DEF world, WorldInv, CityInv, CityTyped, WorldStays, ThingsSound, RetiredIsEmpty, LuggageFollows,
                Permits, Here, Active
  <2>3. \A q \in AllCalls : Good(q)'
    BY <2>1, SameGood DEF WorldInv
  <2>4. AllCalls' = AllCalls /\ Exclusive'
    BY <2>1 DEF AllCalls, WorldInv, Exclusive
  <2> QED BY <2>1, <2>2, <2>3, <2>4 DEF WorldInv
<1>2. ASSUME NEW h \in Handlers, tx[h].pc = "idle", NEW q \in Requests, Start(h, q) PROVE WorldInv'
  BY <1>2, StartKeeps
<1>3. ASSUME NEW h \in Handlers, Step(h) PROVE WorldInv'
  BY <1>3, LockResidentKeeps, BlockKeeps, LockRoomKeeps, LockPresenceKeeps, LockLateKeeps, ExecuteKeeps,
     CommitKeeps, LoseCommitKeeps, SettleKeeps, ReadResolutionKeeps, RecordFailureKeeps, GiveUpKeeps, VictimKeeps
     DEF Step
<1> QED BY <1>1, <1>2, <1>3 DEF Next

\* The invariant implies the properties of the city and of its answers.
LEMMA WorldSafety ==
  ASSUME WorldAssumption, WorldInv
  PROVE  TypeOK /\ RetiredIsEmpty /\ LuggageFollows /\ AnswerIsTrue
<1>1. RetiredIsEmpty /\ LuggageFollows /\ CityTyped /\ lost \in 0 .. MaxLost
  BY DEF WorldInv, CityInv
<1>2. ASSUME NEW h \in Handlers
      PROVE  tx[h] \in TxRow /\ Truthful(tx[h])
  BY CallIs DEF Good
<1>3. TypeOK
  BY <1>1, <1>2 DEF TypeOK, CityTyped, TxRow
<1>4. AnswerIsTrue
  BY <1>2 DEF AnswerIsTrue, Truthful, InDoubt
<1> QED BY <1>1, <1>3, <1>4

\* A call that has checked and is about to commit could check again with the same result,
\* and holds every row that its writes touch: no commit in between takes that away.
ChecksHold ==
  \A h \in Handlers :
    tx[h].pc = "commit" /\ tx[h].verdict = "applied" => Can(tx[h]) /\ Holds(tx[h])

\* In every city and for any number of calls at a time retired land is empty, luggage follows
\* its holder, an action's answer is true, and a check made under locks still holds at the commit.
THEOREM WorldCorrect ==
  ASSUME WorldAssumption
  PROVE  Spec => [](TypeOK /\ RetiredIsEmpty /\ LuggageFollows /\ AnswerIsTrue /\ ChecksHold)
<1>1. WorldInv => ChecksHold
  <2> SUFFICES ASSUME WorldInv, NEW h \in Handlers, tx[h].pc = "commit", tx[h].verdict = "applied"
               PROVE  Can(tx[h]) /\ Holds(tx[h])
    BY DEF ChecksHold
  <2>1. Good(tx[h])
    BY CallIs
  <2>2. Prepared(tx[h])
    BY <2>1 DEF Good, Truthful, Prepared
  <2> QED BY <2>1, <2>2 DEF Good
<1>2. WorldInv => TypeOK /\ RetiredIsEmpty /\ LuggageFollows /\ AnswerIsTrue
  BY WorldSafety
<1> QED BY <1>1, <1>2, WorldInit, WorldStep, PTL DEF Spec

-----------------------------------------------------------------------------
(* The order of locks                                                      *)

\* Why a call has locked a thing.
LateLocked(q, t) ==
  /\ q.act = "move" => t \in MoveThings(q)
  /\ q.act = "go_home" => thing[t].held = q.who
  /\ q.act \in {"send", "send_home", "hand_place", "give_place"} => thing[t].held = q.other
  /\ q.act \in {"give_thing", "withdraw"} => t = q.item
  /\ q.act = "open" => t \in Here(q.to) /\ thing[t].held # None

\* Rooms are locked from the top down, presences of others and things after the rooms and the
\* own presence.
Ordered(q) ==
  q.pc = "locking" =>
    /\ \A p, x \in q.rooms : <<"place", p>> \in q.has /\ <<"place", x>> \notin q.has => TopDown(p, x)
    /\ \/ \E r \in Residents \ {q.who} : <<"presence", r>> \in q.has
       \/ \E t \in Things : <<"thing", t>> \in q.has
       => HasRooms(q) /\ \A r \in OwnPresence(q) : <<"presence", r>> \in q.has
    /\ \A t \in Things : <<"thing", t>> \in q.has => LateLocked(q, t)

OrderInv == \A q \in AllCalls : Ordered(q)

LEMMA WantedRoom ==
  ASSUME NEW q, NEW p, <<"place", p>> \in Wants(q)
  PROVE  \A x \in q.rooms : <<"place", x>> \notin q.has /\ x # p => TopDown(p, x)
<1> DEFINE rooms == Lacks(q, "place", q.rooms)
<1>1. <<"place", p>> \in TopOf(rooms)
  BY DEF Wants, Lacks
<1>2. \A y \in rooms \ {<<"place", p>>} : TopDown(<<"place", p>>[2], y[2])
  BY <1>1 DEF TopOf
<1>3. ASSUME NEW x \in q.rooms, <<"place", x>> \notin q.has, x # p PROVE TopDown(p, x)
  <2>1. PICK y : y = <<"place", x>>
    OBVIOUS
  <2>2. y \in rooms \ {<<"place", p>>} /\ y[2] = x /\ <<"place", p>>[2] = p
    BY <1>3, <2>1 DEF Lacks
  <2>3. TopDown(<<"place", p>>[2], y[2])
    BY <1>2, <2>2
  <2> QED BY <2>2, <2>3 DEF TopDown, Depth
<1> QED BY <1>3

\* What a call waits for, without a wait for another's presence.
LEMMA WantsEarly ==
  ASSUME NEW q, Asked(q), NEW row \in Wants(q), ~(row[1] = "presence" /\ row[2] # q.who)
  PROVE  \/ row = <<"resident", q.who>>
         \/ \E p \in q.rooms : row = <<"place", p>> /\ row \notin q.has
         \/ row = <<"presence", q.who>> /\ q.who \in OwnPresence(q) /\ row \notin q.has
         \/ /\ \E t \in LateThings(q) : row = <<"thing", t>> /\ row \notin q.has
            /\ HasRooms(q)
<1>1. ASSUME NEW r \in LatePresence(q) PROVE r # q.who \/ q.who \in OwnPresence(q)
  <2>1. q.act \in {"send", "send_home", "retire", "give_place"}
    BY LateIs
  <2>2. OwnPresence(q) = {q.who}
    BY <2>1 DEF OwnPresence, Acts
  <2> QED BY <2>2
<1>2. \A r \in OwnPresence(q) : r = q.who
  BY DEF OwnPresence
<1>3. CASE \E r \in OwnPresence(q) : row = <<"presence", r>>
  BY <1>2, <1>3, WantsIs
<1>4. CASE /\ \A r \in OwnPresence(q) : <<"presence", r>> \in q.has
           /\ \E r \in LatePresence(q) : row = <<"presence", r>>
  <2>1. PICK r \in LatePresence(q) : row = <<"presence", r>>
    BY <1>4
  <2>2. row[1] = "presence" /\ row[2] = r
    BY <2>1
  <2>3. r = q.who /\ row \in q.has
    BY <1>1, <1>4, <2>1, <2>2
  <2> QED BY <2>3, WantsIs
<1> QED BY <1>3, <1>4, WantsIs

\* A call that holds one thing and waits for another is a move that carries one thing while
\* it names another, or opens a room in which both are carried.
LEMMA TwoThings ==
  ASSUME WorldAssumption, CityInv, NEW q, Asked(q), NEW t \in Things, NEW u \in Things, t # u,
         LateLocked(q, t), u \in LateThings(q)
  PROVE  \/ /\ q.act = "move"
            /\ \/ thing[t].held = None /\ thing[u].held = q.who
               \/ thing[u].held = None /\ thing[t].held = q.who
         \/ /\ q.act = "open" /\ t \in Here(q.to) /\ u \in Here(q.to)
            /\ thing[t].held # None /\ thing[u].held # None
<1>0. /\ \A r \in Residents : thing[t].held = r /\ thing[u].held = r => t = u
      /\ q.who \in Residents /\ q.other \in Residents /\ None \notin Residents
  BY DEF CityInv, ThingsSound, WorldAssumption, Asked
<1>1. CASE q.act = "move"
  <2>1. t \in MoveThings(q) /\ u \in MoveThings(q)
    BY <1>1, LateIs DEF LateLocked
  <2> QED BY <1>0, <1>1, <2>1 DEF MoveThings, Held
<1>2. CASE q.act = "go_home"
  BY <1>0, <1>2, LateIs DEF LateLocked, Held
<1>3. CASE q.act \in {"send", "send_home"}
  BY <1>0, <1>3, LateIs DEF LateLocked, Held
<1>4. CASE q.act \in {"give_thing", "withdraw"}
  BY <1>4, LateIs DEF LateLocked
<1>5. CASE q.act \in {"hand_place", "give_place", "open"}
  <2>1. u \in Freed(q)
    BY <1>5 DEF LateThings
  <2>2. CASE q.act = "open"
    BY <2>1, <2>2 DEF Freed, LateLocked
  <2>3. CASE q.act # "open"
    <3>1. thing[u].held = q.other
      BY <1>5, <2>1, <2>3 DEF Freed
    <3> QED BY <1>0, <1>5, <2>3, <3>1 DEF LateLocked
  <2> QED BY <2>2, <2>3
<1>6. CASE q.act \in {"make", "set_home", "retire", "restore", "build", "close", "hinge"}
  BY <1>6, LateIs
<1>7. q.act \in Acts \cup Edits
  BY DEF Asked
<1> QED BY <1>1, <1>2, <1>3, <1>4, <1>5, <1>6, <1>7 DEF Acts, Edits

\* Two calls that wait for each other: what the one waits for when it waits for no other's
\* presence.
LEMMA NoEarlyCircle ==
  ASSUME WorldAssumption, CityInv, NEW a, NEW b, Good(a), Good(b), Ordered(a), Ordered(b),
         a.has \cap b.has = {},
         NEW x \in Wants(a), x \in b.has, NEW y \in Wants(b), y \in a.has,
         ~(x[1] = "presence" /\ x[2] # a.who), ~(y[1] = "presence" /\ y[2] # b.who)
  PROVE  FALSE
<1>1. a.pc = "locking" /\ b.pc = "locking"
  BY WantsIs
<1>2. Asked(a) /\ Asked(b) /\ Planned(a) /\ Planned(b) /\ InOrder(a) /\ InOrder(b) /\ a \in TxRow /\ b \in TxRow
  BY <1>1 DEF Good, Live
<1>3. <<"resident", a.who>> \in a.has /\ <<"resident", b.who>> \in b.has /\ a.who # b.who
  BY <1>2 DEF InOrder
<1>4. a.who \in Residents /\ b.who \in Residents
  BY <1>2 DEF Asked
<1>5. x # <<"resident", a.who>> /\ y # <<"resident", b.who>>
  BY <1>2, <1>3, <1>4 DEF InOrder
<1>6. \/ \E p \in a.rooms : x = <<"place", p>> /\ x \notin a.has
      \/ x = <<"presence", a.who>> /\ a.who \in OwnPresence(a) /\ x \notin a.has
      \/ (\E t \in LateThings(a) : x = <<"thing", t>> /\ x \notin a.has) /\ HasRooms(a)
  BY <1>2, <1>5, WantsEarly
<1>7. \/ \E p \in b.rooms : y = <<"place", p>> /\ y \notin b.has
      \/ y = <<"presence", b.who>> /\ b.who \in OwnPresence(b) /\ y \notin b.has
      \/ (\E t \in LateThings(b) : y = <<"thing", t>> /\ y \notin b.has) /\ HasRooms(b)
  BY <1>2, <1>5, WantsEarly
<1>8. a.rooms \subseteq Places /\ b.rooms \subseteq Places /\ LateThings(a) \subseteq Things /\ LateThings(b) \subseteq Things
  BY <1>2, LateRows DEF TxRow
<1>9. ASSUME NEW p \in a.rooms, x = <<"place", p>>, x \notin a.has PROVE FALSE
  <2>1. /\ \A r \in Residents : <<"presence", r>> \notin a.has
        /\ \A t \in Things : <<"thing", t>> \notin a.has
    BY <1>1, <1>2, <1>9 DEF InOrder, Ordered, HasRooms
  <2>2. PICK z \in b.rooms : y = <<"place", z>> /\ y \notin b.has
    BY <1>4, <1>7, <1>8, <2>1
  <2>3. z \in a.rooms /\ p \in b.rooms
    BY <1>2, <1>8, <1>9, <2>2 DEF InOrder
  <2>4. TopDown(z, p) /\ TopDown(p, z)
    BY <1>1, <1>9, <2>2, <2>3 DEF Ordered
  <2> QED BY <1>8, <1>9, <2>2, <2>4, TopDownIsStrict
<1>10. ASSUME NEW p \in b.rooms, y = <<"place", p>>, y \notin b.has PROVE FALSE
  <2>1. /\ \A r \in Residents : <<"presence", r>> \notin b.has
        /\ \A t \in Things : <<"thing", t>> \notin b.has
    BY <1>1, <1>2, <1>10 DEF InOrder, Ordered, HasRooms
  <2> QED BY <1>4, <1>6, <1>8, <1>9, <2>1
<1>11. ASSUME x = <<"presence", a.who>>, a.who \in OwnPresence(a), x \notin a.has PROVE FALSE
  <2>1. /\ \A r \in Residents \ {a.who} : <<"presence", r>> \notin a.has
        /\ \A t \in Things : <<"thing", t>> \notin a.has
    BY <1>1, <1>11 DEF Ordered
  <2> QED BY <1>3, <1>4, <1>7, <1>8, <1>10, <2>1
<1>12. ASSUME y = <<"presence", b.who>>, b.who \in OwnPresence(b), y \notin b.has PROVE FALSE
  <2>1. /\ \A r \in Residents \ {b.who} : <<"presence", r>> \notin b.has
        /\ \A t \in Things : <<"thing", t>> \notin b.has
    BY <1>1, <1>12 DEF Ordered
  <2> QED BY <1>3, <1>4, <1>6, <1>8, <1>9, <1>11, <2>1
<1>13. PICK u \in Things : x = <<"thing", u>> /\ u \in LateThings(a) /\ x \notin a.has /\ HasRooms(a)
  BY <1>6, <1>8, <1>9, <1>11
<1>14. PICK t \in Things : y = <<"thing", t>> /\ t \in LateThings(b) /\ y \notin b.has /\ HasRooms(b)
  BY <1>7, <1>8, <1>10, <1>12
<1>15. t # u /\ LateLocked(a, t) /\ LateLocked(b, u)
  BY <1>1, <1>13, <1>14 DEF Ordered
<1>16. /\ \/ /\ a.act = "move"
             /\ \/ thing[t].held = None /\ thing[u].held = a.who
                \/ thing[u].held = None /\ thing[t].held = a.who
          \/ /\ a.act = "open" /\ t \in Here(a.to)
             /\ thing[t].held # None /\ thing[u].held # None
       /\ \/ /\ b.act = "move"
             /\ \/ thing[t].held = None /\ thing[u].held = b.who
                \/ thing[u].held = None /\ thing[t].held = b.who
          \/ /\ b.act = "open" /\ t \in Here(b.to)
             /\ thing[t].held # None /\ thing[u].held # None
  BY <1>2, <1>13, <1>14, <1>15, TwoThings
<1>17. None \notin Residents
  BY DEF WorldAssumption
<1>18. a.act = "open" /\ b.act = "open" /\ t \in Here(a.to) /\ t \in Here(b.to)
  BY <1>3, <1>4, <1>16, <1>17
<1>19. a.to = b.to
  BY <1>18 DEF Here
<1>20. a.to \in a.rooms /\ b.to \in b.rooms
  BY <1>2, <1>18 DEF Planned
<1>21. <<"place", a.to>> \in a.has /\ <<"place", b.to>> \in b.has
  BY <1>13, <1>14, <1>20 DEF HasRooms
<1> QED BY <1>19, <1>21

\* Two calls that wait for each other: one of them waits late for another's presence.
LEMMA OrderSafety ==
  ASSUME WorldAssumption, WorldInv, OrderInv
  PROVE  OneLockOrder
<1> SUFFICES ASSUME NEW g \in Handlers, NEW h \in Handlers, Circle(g, h),
                    \A i \in {g, h} : \A row \in Wants(tx[i]) : ~(row[1] = "presence" /\ row[2] # tx[i].who)
             PROVE  FALSE
  BY DEF OneLockOrder
<1>1. PICK a : a = tx[g]
  OBVIOUS
<1>2. PICK b : b = tx[h]
  OBVIOUS
<1>3. g # h /\ (\E x \in Wants(a) : x \in b.has) /\ (\E y \in Wants(b) : y \in a.has)
  BY <1>1, <1>2 DEF Circle, WaitsFor
<1>4. PICK x \in Wants(a) : x \in b.has
  BY <1>3
<1>5. PICK y \in Wants(b) : y \in a.has
  BY <1>3
<1>6. Good(a) /\ Good(b) /\ CityInv /\ Ordered(a) /\ Ordered(b)
  BY <1>1, <1>2, CallIs DEF WorldInv, OrderInv, AllCalls
<1>7. a.has \cap b.has = {}
  BY <1>1, <1>2, <1>3 DEF WorldInv, Exclusive
<1>8. ~(x[1] = "presence" /\ x[2] # a.who) /\ ~(y[1] = "presence" /\ y[2] # b.who)
  BY <1>1, <1>2
<1> QED BY <1>4, <1>5, <1>6, <1>7, <1>8, NoEarlyCircle

\* The order of a call's locks survives the commit of another.
LEMMA OrderedStays ==
  ASSUME WorldAssumption, CityInv, CityInv', NEW q, NEW g, Beside(q, g), Good(g), Ordered(g)
  PROVE  Ordered(g)'
<1> SUFFICES ASSUME g.pc = "locking", NEW t \in Things, <<"thing", t>> \in g.has
             PROVE  LateLocked(g, t)'
  BY DEF Ordered, HasRooms, OwnPresence, TopDown, Depth
<1>1. LateLocked(g, t) /\ HasRooms(g) /\ \A r \in OwnPresence(g) : <<"presence", r>> \in g.has
  BY DEF Ordered
<1>2. /\ thing[t].state # "unmade" => thing'[t] = thing[t]
      /\ thing'[t] # thing[t] => thing'[t].held = None
  BY DEF Beside, Footprint, ThingsTouched
<1>3. thing[t].held # None => thing'[t] = thing[t]
  BY <1>2 DEF CityInv, ThingsSound
<1>4. g.who \in Residents /\ g.other \in Residents /\ None \notin Residents
  BY DEF Good, Live, Asked, WorldAssumption
<1>5. g.act = "move" => t \in MoveThings(g)'
  <2> HAVE g.act = "move"
  <2>1. t \in MoveThings(g)
    BY <1>1 DEF LateLocked
  <2>2. <<"presence", g.who>> \in g.has /\ g.act \in Acts
    BY <1>1 DEF OwnPresence, Acts
  <2>3. <<"place", at[g.who]>> \in g.has
    BY <1>1, <2>2 DEF Good, PlanStands, Planned, HasRooms
  <2>4. at'[g.who] = at[g.who] /\ Held(g.who)' = Held(g.who)
    BY <1>4, <2>2, <2>3, LuggageStays
  <2>5. thing[t].held = None => thing'[t].held = None
    BY <1>2
  <2> QED BY <2>1, <2>4, <2>5 DEF MoveThings
<1> QED BY <1>1, <1>3, <1>4, <1>5 DEF LateLocked, Here

LEMMA SameOrder ==
  ASSUME NEW g, UNCHANGED world, Ordered(g)
  PROVE  Ordered(g)'
<1>1. \A t \in Things : LateLocked(g, t)' = LateLocked(g, t)
  BY DEF world, LateLocked, MoveThings, Held, Here
<1> QED BY <1>1 DEF Ordered, HasRooms, OwnPresence, TopDown, Depth

\* One more row in its turn.
LEMMA LockOrdered ==
  ASSUME NEW q, q \in TxRow, Good(q), Ordered(q), NEW row \in Wants(q), NEW n,
         n = [q EXCEPT !.has = q.has \cup {row}], row # <<"resident", q.who>>
  PROVE  Ordered(n)
<1>1. SameCall(q, n) /\ n.has = q.has \cup {row} /\ q.pc = "locking" /\ row \notin q.has
  BY WantsIs DEF TxRow, SameCall
<1>2. \/ \E p \in q.rooms : row = <<"place", p>>
      \/ /\ HasRooms(q)
         /\ \E r \in OwnPresence(q) : row = <<"presence", r>>
      \/ /\ HasRooms(q)
         /\ \A r \in OwnPresence(q) : <<"presence", r>> \in q.has
         /\ \E r \in LatePresence(q) : row = <<"presence", r>>
      \/ /\ HasRooms(q)
         /\ \A r \in OwnPresence(q) : <<"presence", r>> \in q.has
         /\ \E t \in LateThings(q) : row = <<"thing", t>>
  BY WantsIs
<1>3. ASSUME NEW p \in q.rooms, NEW x \in q.rooms, <<"place", p>> \in n.has, <<"place", x>> \notin n.has
      PROVE  TopDown(p, x)
  <2>1. CASE <<"place", p>> \in q.has
    BY <1>1, <1>3, <2>1 DEF Ordered
  <2>2. CASE row = <<"place", p>>
    <3>1. <<"place", x>> \notin q.has /\ x # p
      BY <1>1, <1>3, <2>2
    <3> QED BY <2>2, <3>1, WantedRoom
  <2> QED BY <1>1, <1>3, <2>1, <2>2
<1>4. \A r \in OwnPresence(q) : r = q.who
  BY DEF OwnPresence
<1>5. ASSUME \/ \E r \in Residents \ {q.who} : <<"presence", r>> \in n.has
             \/ \E t \in Things : <<"thing", t>> \in n.has
      PROVE  HasRooms(q) /\ \A r \in OwnPresence(q) : <<"presence", r>> \in q.has
  <2>1. CASE \/ \E r \in Residents \ {q.who} : <<"presence", r>> \in q.has
             \/ \E t \in Things : <<"thing", t>> \in q.has
    BY <1>1, <2>1 DEF Ordered
  <2>2. CASE \/ \E r \in Residents \ {q.who} : row = <<"presence", r>>
             \/ \E t \in Things : row = <<"thing", t>>
    BY <1>2, <1>4, <2>2
  <2> QED BY <1>1, <1>5, <2>1, <2>2
<1>6. ASSUME NEW t \in Things, <<"thing", t>> \in n.has
      PROVE  LateLocked(n, t)
  <2>1. LateLocked(q, t)
    <3>1. CASE <<"thing", t>> \in q.has
      BY <1>1, <3>1 DEF Ordered
    <3>2. CASE row = <<"thing", t>>
      <4>1. t \in LateThings(q)
        BY <1>2, <3>2
      <4> QED BY <4>1 DEF LateThings, LateLocked, Freed, Held
    <3> QED BY <1>1, <1>6, <3>1, <3>2
  <2>2. MoveThings(n) = MoveThings(q)
    BY <1>1 DEF SameCall, MoveThings
  <2> QED BY <1>1, <2>1, <2>2 DEF LateLocked, SameCall
<1>7. n.rooms = q.rooms /\ n.who = q.who /\ OwnPresence(n) = OwnPresence(q)
  BY <1>1 DEF SameCall, OwnPresence
<1>8. HasRooms(q) => HasRooms(n)
  BY <1>1, <1>7 DEF HasRooms
<1> QED BY <1>1, <1>3, <1>5, <1>6, <1>7, <1>8 DEF Ordered

LEMMA OrderMoves ==
  ASSUME WorldInv, NEW h \in Handlers, NEW n, tx' = [tx EXCEPT ![h] = n], Ordered(n)',
         \A g \in {tx[i] : i \in Handlers \ {h}} : Ordered(g)'
  PROVE  OrderInv'
<1>1. AllCalls' \subseteq {n} \cup {tx[i] : i \in Handlers \ {h}}
  BY DEF WorldInv, AllCalls
<1>2. \A g \in {n} \cup {tx[i] : i \in Handlers \ {h}} : Ordered(g)'
  OBVIOUS
<1> QED BY <1>1, <1>2 DEF OrderInv

LEMMA OrderQuiet ==
  ASSUME WorldInv, OrderInv, NEW h \in Handlers, NEW n, tx' = [tx EXCEPT ![h] = n], UNCHANGED world,
         n.pc # "locking" \/ Ordered(n)
  PROVE  OrderInv'
<1>1. Ordered(n)
  BY DEF Ordered
<1>2. \A g \in {tx[i] : i \in Handlers \ {h}} : Ordered(g)
  BY DEF OrderInv, AllCalls
<1>3. Ordered(n)' /\ \A g \in {tx[i] : i \in Handlers \ {h}} : Ordered(g)'
  BY <1>1, <1>2, SameOrder
<1> QED BY <1>3, OrderMoves

LEMMA OrderApply ==
  ASSUME WorldAssumption, WorldInv, OrderInv, NEW h \in Handlers, NEW q, q = tx[h], q.has # {}, q.pc # "locking",
         Apply(q), NEW n, tx' = [tx EXCEPT ![h] = n], n.pc # "locking"
  PROVE  OrderInv'
<1>1. Good(q) /\ CityInv
  BY CallIs DEF WorldInv
<1>2. CASE UNCHANGED world
  BY <1>2, OrderQuiet
<1>3. CASE q.verdict = "applied"
  <2>1. Ready(q)
    BY <1>1, <1>3, PreparedIsReady DEF Prepared
  <2>2. CityInv' /\ Footprint(q)
    BY <1>1, <2>1, ApplyKeeps
  <2>3. ASSUME NEW g \in {tx[i] : i \in Handlers \ {h}} PROVE Ordered(g)'
    <3>1. Good(g) /\ Ordered(g)
      BY DEF WorldInv, AllCalls, OrderInv
    <3>2. Beside(q, g)
      BY <2>2 DEF Beside, WorldInv, Exclusive
    <3> QED BY <1>1, <2>2, <3>1, <3>2, OrderedStays
  <2>4. Ordered(n)'
    BY DEF Ordered
  <2> QED BY <2>3, <2>4, OrderMoves
<1> QED BY <1>2, <1>3 DEF Apply

LEMMA OrderRefuse ==
  ASSUME WorldInv, OrderInv, NEW h \in Handlers, Refuse(h)
  PROVE  OrderInv'
<1>1. PICK q : q = tx[h]
  OBVIOUS
<1>2. PICK n : n = Undone(q)
  OBVIOUS
<1>3. q \in TxRow
  BY <1>1, CallIs
<1>4. n.pc # "locking"
  <2>1. PICK z : z = [q EXCEPT !.has = {}]
    OBVIOUS
  <2>2. z \in TxRow
    BY <1>3, <2>1 DEF TxRow
  <2>3. Done(z, "refused").pc = "done"
    BY <2>2, DoneIs
  <2>4. q.act \in Acts => n.pc = "insert"
    BY <1>2, <1>3 DEF Undone, TxRow
  <2> QED BY <1>2, <2>1, <2>3, <2>4 DEF Undone
<1> QED BY <1>1, <1>2, <1>4, OrderQuiet DEF Refuse

\* A handler locks a row in its turn.
LEMMA OrderLock ==
  ASSUME WorldInv, OrderInv, NEW h \in Handlers, NEW row \in Wants(tx[h]), row # <<"resident", tx[h].who>>,
         tx' = [tx EXCEPT ![h].has = @ \cup {row}], UNCHANGED world
  PROVE  OrderInv'
<1>1. PICK q : q = tx[h]
  OBVIOUS
<1>2. PICK n : n = [q EXCEPT !.has = q.has \cup {row}]
  OBVIOUS
<1>3. tx' = [tx EXCEPT ![h] = n]
  BY <1>1, <1>2 DEF WorldInv
<1>4. q \in TxRow /\ Good(q) /\ Ordered(q)
  BY <1>1, CallIs DEF OrderInv, AllCalls
<1>5. Ordered(n)
  BY <1>1, <1>2, <1>4, LockOrdered
<1> QED BY <1>3, <1>5, OrderQuiet

LEMMA OrderEarly ==
  ASSUME WorldInv, OrderInv, NEW h \in Handlers,
         \/ \E q \in Requests : Start(h, q)
         \/ LockResident(h) \/ Block(h)
  PROVE  OrderInv'
<1>1. ASSUME NEW q \in Requests, Start(h, q) PROVE OrderInv'
  <2>1. PICK n : n = [Idle EXCEPT !.pc = "locking", !.act = q.act, !.who = q.who, !.to = q.to,
                    !.item = q.item, !.other = q.other, !.sawAt = at[q.who],
                    !.rooms = IF q.act = "withdraw" THEN {thing[q.item].place} ELSE {}]
    OBVIOUS
  <2>2. n.has = {}
    BY <2>1 DEF Idle
  <2>3. Ordered(n)
    BY <2>2 DEF Ordered
  <2> QED BY <1>1, <2>1, <2>3, OrderQuiet DEF Start
<1>2. ASSUME LockResident(h) PROVE OrderInv'
  <2>1. PICK q : q = tx[h]
    OBVIOUS
  <2>2. PICK row : row = <<"resident", q.who>>
    OBVIOUS
  <2>3. CASE Refuse(h)
    BY <2>3, OrderRefuse
  <2>4. CASE tx' = [tx EXCEPT ![h].has = {row}, ![h].sawAt = at[q.who], ![h].sawHome = home[q.who],
                              ![h].rooms = Rooms(q)] /\ UNCHANGED <<world, lost>>
    <3>1. PICK n : n = [q EXCEPT !.has = {row}, !.sawAt = at[q.who], !.sawHome = home[q.who], !.rooms = Rooms(q)]
      OBVIOUS
    <3>2. tx' = [tx EXCEPT ![h] = n]
      BY <2>1, <2>4, <3>1 DEF WorldInv
    <3>3. q \in TxRow
      BY <2>1, CallIs
    <3>4. n.has = {row}
      BY <3>1, <3>3 DEF TxRow
    <3>5. Ordered(n)
      BY <2>2, <3>4 DEF Ordered
    <3> QED BY <2>4, <3>2, <3>5, OrderQuiet
  <2> QED BY <1>2, <2>1, <2>2, <2>3, <2>4 DEF LockResident
<1>3. ASSUME Block(h) PROVE OrderInv'
  <2>1. PICK n : n = [tx[h] EXCEPT !.pc = "commit", !.verdict = "blocked"]
    OBVIOUS
  <2>2. tx' = [tx EXCEPT ![h] = n] /\ UNCHANGED world
    BY <1>3, <2>1 DEF WorldInv, Block
  <2>3. n.pc = "commit"
    <3>1. tx[h] \in TxRow
      BY CallIs
    <3> QED BY <2>1, <3>1 DEF TxRow
  <2> QED BY <2>2, <2>3, OrderQuiet
<1> QED BY <1>1, <1>2, <1>3

LEMMA OrderLocks ==
  ASSUME WorldInv, OrderInv, NEW h \in Handlers, LockRoom(h) \/ LockPresence(h) \/ LockLate(h)
  PROVE  OrderInv'
<1>1. CASE LockRoom(h)
  <2>1. PICK row \in Wants(tx[h]) :
          row[1] = "place" /\ tx' = [tx EXCEPT ![h].has = @ \cup {row}] /\ UNCHANGED world
    BY <1>1 DEF LockRoom
  <2>2. row # <<"resident", tx[h].who>>
    BY <2>1
  <2> QED BY <2>1, <2>2, OrderLock
<1>2. CASE LockPresence(h)
  <2>1. PICK row : row = <<"presence", tx[h].who>>
    OBVIOUS
  <2>2. CASE Refuse(h)
    BY <2>2, OrderRefuse
  <2>3. CASE tx' = [tx EXCEPT ![h].has = @ \cup {row}] /\ UNCHANGED world
    <3>1. row # <<"resident", tx[h].who>> /\ row \in Wants(tx[h])
      BY <1>2, <2>1 DEF LockPresence
    <3> QED BY <2>3, <3>1, OrderLock
  <2> QED BY <1>2, <2>1, <2>2, <2>3 DEF LockPresence
<1>3. CASE LockLate(h)
  <2>1. PICK row \in Wants(tx[h]) :
          /\ row[1] = "thing" \/ row[1] = "presence"
          /\ tx' = [tx EXCEPT ![h].has = @ \cup {row}] /\ UNCHANGED world
    BY <1>3 DEF LockLate
  <2>2. row # <<"resident", tx[h].who>>
    BY <2>1
  <2> QED BY <2>1, <2>2, OrderLock
<1> QED BY <1>1, <1>2, <1>3

LEMMA OrderEnds ==
  ASSUME WorldAssumption, WorldInv, OrderInv, NEW h \in Handlers,
         \/ Execute(h) \/ Commit(h) \/ LoseCommit(h) \/ Settle(h)
         \/ ReadResolution(h) \/ RecordFailure(h) \/ GiveUp(h) \/ Victim(h)
  PROVE  OrderInv'
<1>1. PICK q : q = tx[h]
  OBVIOUS
<1>2. q \in TxRow /\ Truthful(q)
  BY <1>1, CallIs DEF Good
<1>3. ASSUME NEW n, tx' = [tx EXCEPT ![h] = n], UNCHANGED world, n.pc # "locking" PROVE OrderInv'
  BY <1>3, OrderQuiet
<1>4. ASSUME NEW n, tx' = [tx EXCEPT ![h] = n], n.pc # "locking", Apply(q), q.pc # "locking", q.has # {}
      PROVE  OrderInv'
  BY <1>1, <1>4, OrderApply
<1>5. CASE Execute(h)
  <2>1. CASE Refuse(h)
    BY <2>1, OrderRefuse
  <2>2. CASE tx' = [tx EXCEPT ![h].pc = "commit", ![h].verdict = "applied"] /\ UNCHANGED world
    <3>1. PICK n : n = [q EXCEPT !.pc = "commit", !.verdict = "applied"]
      OBVIOUS
    <3>2. tx' = [tx EXCEPT ![h] = n] /\ n.pc # "locking"
      BY <1>1, <1>2, <2>2, <3>1 DEF WorldInv, TxRow
    <3> QED BY <1>3, <2>2, <3>2
  <2> QED BY <1>5, <2>1, <2>2 DEF Execute
<1>6. ASSUME q.has # {}, q.pc # "locking" PROVE Committed(q) \in TxRow /\ Committed(q).pc = q.pc /\ q.verdict \in Verdicts
  BY <1>2, <1>6, CommittedIs DEF TxRow
<1>7. CASE Commit(h)
  <2>1. q.has # {} /\ q.pc = "commit" /\ Apply(q)
    BY <1>1, <1>2, <1>7 DEF Commit, Truthful
  <2>2. PICK n : n = Done(Committed(q), q.verdict)
    OBVIOUS
  <2>3. n.pc = "done"
    BY <1>6, <2>1, <2>2, DoneIs
  <2>4. tx' = [tx EXCEPT ![h] = n]
    BY <1>1, <1>7, <2>2 DEF Commit
  <2> QED BY <1>4, <2>1, <2>3, <2>4
<1>8. CASE LoseCommit(h)
  <2>1. q.has # {} /\ q.pc = "commit"
    BY <1>1, <1>2, <1>8 DEF LoseCommit, Truthful
  <2>2. CASE Apply(q) /\ tx' = [tx EXCEPT ![h] = [Committed(q) EXCEPT !.pc = "unknown"]]
    <3>1. PICK n : n = [Committed(q) EXCEPT !.pc = "unknown"]
      OBVIOUS
    <3>2. n.pc = "unknown"
      BY <1>6, <2>1, <3>1 DEF TxRow
    <3> QED BY <1>4, <2>1, <2>2, <3>1, <3>2
  <2>3. CASE tx' = [tx EXCEPT ![h].has = {}, ![h].pc = "unknown"] /\ UNCHANGED world
    <3>1. PICK n : n = [q EXCEPT !.has = {}, !.pc = "unknown"]
      OBVIOUS
    <3>2. tx' = [tx EXCEPT ![h] = n] /\ n.pc # "locking"
      BY <1>1, <1>2, <2>3, <3>1 DEF WorldInv, TxRow
    <3> QED BY <1>3, <2>3, <3>2
  <2>4. CASE tx' = [tx EXCEPT ![h].pc = "unknown"] /\ UNCHANGED world
    <3>1. PICK n : n = [q EXCEPT !.pc = "unknown"]
      OBVIOUS
    <3>2. tx' = [tx EXCEPT ![h] = n] /\ n.pc # "locking"
      BY <1>1, <1>2, <2>4, <3>1 DEF WorldInv, TxRow
    <3> QED BY <1>3, <2>4, <3>2
  <2> QED BY <1>1, <1>8, <2>2, <2>3, <2>4 DEF LoseCommit
<1>9. CASE Settle(h)
  <2>1. q.has # {} /\ q.pc # "locking"
    BY <1>1, <1>9 DEF Settle, InDoubt
  <2>2. CASE Apply(q) /\ tx' = [tx EXCEPT ![h] = Committed(q)]
    <3>1. PICK n : n = Committed(q)
      OBVIOUS
    <3> QED BY <1>4, <1>6, <2>1, <2>2, <3>1
  <2>3. CASE tx' = [tx EXCEPT ![h].has = {}] /\ UNCHANGED world
    <3>1. PICK n : n = [q EXCEPT !.has = {}]
      OBVIOUS
    <3>2. tx' = [tx EXCEPT ![h] = n] /\ n.pc # "locking"
      BY <1>1, <1>2, <2>1, <2>3, <3>1 DEF WorldInv, TxRow
    <3> QED BY <1>3, <2>3, <3>2
  <2> QED BY <1>1, <1>9, <2>2, <2>3 DEF Settle
<1>10. ASSUME NEW s, NEW answer, s \in TxRow, answer \in Verdicts \cup {"failed", "refused", "unconfirmed"},
              tx' = [tx EXCEPT ![h] = Done(s, answer)], UNCHANGED world
       PROVE  OrderInv'
  <2>1. PICK n : n = Done(s, answer)
    OBVIOUS
  <2>2. n.pc = "done"
    BY <1>10, <2>1, DoneIs
  <2> QED BY <1>3, <1>10, <2>1, <2>2
<1>11. q.stored \in Verdicts \cup {"failed", "refused", "unconfirmed"}
  BY <1>2 DEF TxRow
<1>12. CASE ReadResolution(h)
  <2>1. CASE Answer(h, "unconfirmed") \/ Answer(h, q.stored)
    BY <1>1, <1>2, <1>10, <1>11, <1>12, <2>1 DEF ReadResolution, Answer
  <2>2. CASE tx' = [tx EXCEPT ![h].pc = "insert"] /\ UNCHANGED world
    <3>1. PICK n : n = [q EXCEPT !.pc = "insert"]
      OBVIOUS
    <3>2. tx' = [tx EXCEPT ![h] = n] /\ n.pc # "locking"
      BY <1>1, <1>2, <2>2, <3>1 DEF WorldInv, TxRow
    <3> QED BY <1>3, <2>2, <3>2
  <2> QED BY <1>1, <1>12, <2>1, <2>2 DEF ReadResolution
<1>13. CASE RecordFailure(h)
  <2>1. CASE Answer(h, q.stored)
    BY <1>1, <1>2, <1>10, <1>11, <1>13, <2>1 DEF RecordFailure, Answer
  <2>2. CASE tx' = [tx EXCEPT ![h] = Done([q EXCEPT !.stored = "failed"], "failed")] /\ UNCHANGED world
    <3>1. [q EXCEPT !.stored = "failed"] \in TxRow
      BY <1>2 DEF TxRow
    <3>2. PICK s : s = [q EXCEPT !.stored = "failed"]
      OBVIOUS
    <3> QED BY <1>10, <2>2, <3>1, <3>2
  <2> QED BY <1>1, <1>13, <2>1, <2>2 DEF RecordFailure
<1>14. CASE GiveUp(h)
  BY <1>1, <1>2, <1>10, <1>14 DEF GiveUp, Answer
<1>15. CASE Victim(h)
  BY <1>15, OrderRefuse DEF Victim
<1> QED BY <1>5, <1>7, <1>8, <1>9, <1>12, <1>13, <1>14, <1>15

LEMMA OrderStep ==
  ASSUME WorldAssumption, WorldInv, OrderInv, [Next]_vars
  PROVE  OrderInv'
<1>1. CASE UNCHANGED vars
  <2>1. AllCalls' = AllCalls /\ UNCHANGED world
    BY <1>1 DEF vars, world, AllCalls
  <2>2. \A g \in AllCalls : Ordered(g)'
    BY <2>1, SameOrder DEF OrderInv
  <2> QED BY <2>1, <2>2 DEF OrderInv
<1>2. ASSUME NEW h \in Handlers, (\E q \in Requests : Start(h, q)) \/ Step(h) PROVE OrderInv'
  BY <1>2, OrderEarly, OrderLocks, OrderEnds DEF Step
<1> QED BY <1>1, <1>2 DEF Next

LEMMA OrderInit ==
  ASSUME Init
  PROVE  OrderInv
<1>1. \A q \in AllCalls : q.pc = "idle"
  BY DEF Init, AllCalls, Idle
<1> QED BY <1>1 DEF OrderInv, Ordered

\* Two calls wait for each other only where one asks late for another resident's presence.
THEOREM LocksInOrder ==
  ASSUME WorldAssumption
  PROVE  Spec => []OneLockOrder
<1>1. WorldInv /\ OrderInv => OneLockOrder
  BY OrderSafety
<1>2. WorldInv /\ OrderInv /\ [Next]_vars => WorldInv' /\ OrderInv'
  BY WorldStep, OrderStep
<1>3. Init => WorldInv /\ OrderInv
  BY WorldInit, OrderInit
<1> QED BY <1>1, <1>2, <1>3, PTL DEF Spec
=============================================================================

-------------------------------- MODULE MCMarket --------------------------------
(***************************************************************************)
(* Buying credit, its gifts and disputes, sales, and the land they are     *)
(* about, for TLC.  They share no state, so a behaviour moves one of them, *)
(* chosen at the start.                                                    *)
(* FewMarketSpec is how far TLC explores them; MarketSpec, and what is     *)
(* proved about it, does not have that limit.  CreditGifts is explored with *)
(* two disputes over one gift and with one dispute over two purchases;     *)
(* WorldSales with one kind at a time that comes twice: two payments of one *)
(* offer, two reservations of one offer, or two offers of one thing, the   *)
(* first and the last with one buyer; WorldMoves with two calls at a time  *)
(* in five cities of four places, and one answer of the database lost.     *)
(***************************************************************************)
EXTENDS CreditGifts, TLC

CONSTANTS
  FirstCapture,
  Bought, Presented, Weekly, OrderLimit, SaleLimit, Hands,
  OfferLimit, AttemptLimit, ReserveLimit,
  Vendor, Lister, Visitor, Box, LostLimit

VARIABLES
  part,
  intent, made, known, offered, keyed, approved, charges, credits,
  call,
  owner, lock, offer, att,
  place, at, home, thing, tx, lost

\* Two disputes over the first capture, or two events of the first dispute over all
\* captures, of one buyer.
FewGifts ==
  \/ credited \subseteq {FirstCapture} /\ \A i \in DOMAIN history : history[i].captures = {FirstCapture}
  \/ /\ \A i \in DOMAIN history : i <= 2 /\ history[i].dispute = 1
     /\ moved = {} /\ \A c, e \in credited \cap GiftCaptures : gift[c].recipient = gift[e].recipient

Buying == INSTANCE PayPalOrders WITH
  Intents <- Bought, Gifts <- Presented, Allowances <- Weekly, Handlers <- Hands,
  MaxOrders <- OrderLimit, MaxSales <- SaleLimit

\* Gifts and allowances are kinds of intents, and no order, row or request is the absent one.
ASSUME BuyingAssumption ==
  /\ OrderLimit \in Nat /\ SaleLimit \in Nat
  /\ Presented \subseteq Bought /\ Weekly \subseteq Bought
  /\ None \notin 1 .. OrderLimit
  /\ None \notin [status : {"created", "approval_pending", "captured", "active"},
                  remote : 1 .. OrderLimit \cup {None}]

Sales == INSTANCE WorldSalesProofs WITH
  Residents <- Residents \cup {Vendor}, Channels <- {"direct", "world"}, MaxOffers <- OfferLimit,
  MaxAttempts <- AttemptLimit, MaxReserve <- ReserveLimit, Handlers <- Hands, Seller <- Vendor

\* Channels, residents and rows are as the proofs about WorldSales take them.
ASSUME SaleAssumption == Sales!SalesAssumption

OneOffer == \A o \in Sales!Offers : o > 1 => offer[o] = None
OneAttempt == \A a \in Sales!Attempts : a > 1 => att[a] = None
OneReservation == \A o \in Sales!Offers : offer[o] # None => offer[o].rid <= 1
OneBuyer ==
  \E b \in Residents :
    /\ owner \in {b, Vendor}
    /\ \A o \in Sales!Offers : offer[o] # None => {offer[o].seller, offer[o].buyer} \subseteq {b, Vendor, None}
    /\ \A a \in Sales!Attempts : att[a] # None => att[a].buyer \in {b, Vendor}
TwoOfOne ==
  \/ OneOffer /\ OneReservation /\ OneBuyer
  \/ OneOffer /\ OneAttempt
  \/ OneAttempt /\ OneReservation /\ OneBuyer

-----------------------------------------------------------------------------
(* The land: place 1 is the world, 2 and 4 stand on it, 3 stands in 2; so  *)
(* the order of locks is 1, 2, 4, 3.                                       *)

Land == 1 .. 4
Traders == {Lister, Visitor}
Plot(holder, isOpen, state) == [owner |-> holder, open |-> isOpen, state |-> state, hinge |-> None]
Closed(holder) == Plot(holder, FALSE, "active")
City(second, third, fourth) == <<Closed(None), second, third, fourth>>
Lone(holder, where, carrier) ==
  Box :> [owner |-> holder, place |-> where, held |-> carrier, state |-> "active"]
Both(x, y) == Lister :> x @@ Visitor :> y
Scene(places, standing, homes, things) ==
  [place |-> places, at |-> standing, home |-> homes, thing |-> things]

\* Luggage in a room of another resident, and in the world; a retired place; one not
\* built yet, a thing not made and nobody with a home; an open hinge, an open place and
\* a home that was handed to another resident.
Cities ==
  LET quiet == City(Closed(Lister), Closed(Lister), Closed(Visitor)) IN
  { Scene(quiet, Both(2, 2), Both(3, 4), Lone(Visitor, 2, Visitor)),
    Scene(quiet, Both(1, 4), Both(3, 4), Lone(Lister, 1, Lister)),
    Scene(City(Closed(Lister), Plot(Lister, FALSE, "retired"), Plot(Visitor, TRUE, "active")),
          Both(2, 1), Both(2, 4), Lone(Lister, 2, None)),
    Scene(City(Closed(Lister), Plot(None, FALSE, "unbuilt"), Closed(Visitor)),
          Both(2, 4), Both(None, None),
          Box :> [owner |-> None, place |-> None, held |-> None, state |-> "unmade"]),
    Scene([City(Closed(Lister), Closed(Visitor), Plot(Visitor, TRUE, "active"))
             EXCEPT ![3].hinge = 4, ![4].hinge = 3],
          Both(3, 3), Both(3, 3), Lone(Lister, 3, Lister)) }

Ask(r, act, p, item) ==
  [act |-> act, who |-> r, to |-> p, item |-> item,
   other |-> IF r = Lister THEN Visitor ELSE Lister]
Each(r, acts, places) == {Ask(r, act, p, None) : act \in acts, p \in places}

Errands ==
  UNION {Each(r, {"move"}, Land) \cup Each(r, {"go_home", "send_home"}, {None}) : r \in Traders}

Calls ==
  Errands
  \cup UNION {{Ask(r, "move", p, Box) : p \in Land}
              \cup {Ask(r, act, None, Box) : act \in {"give_thing", "make", "withdraw"}} : r \in Traders}
  \cup Each(Lister, {"send", "set_home", "open", "give_place", "hand_place"}, {2, 3})
  \cup Each(Lister, {"retire", "restore", "build", "hinge"}, {3})
  \cup Each(Visitor, {"set_home", "open", "give_place", "retire"}, {3, 4})
  \cup Each(Visitor, {"send", "hand_place", "close", "hinge"}, {4})
  \cup Each(Visitor, {"restore", "build"}, {3})

Moves == INSTANCE WorldMovesProofs WITH
  Residents <- Traders, Things <- {Box}, Handlers <- Hands, Places <- Land, World <- 1,
  Parent <- <<0, 1, 2, 1>>, OpenToBuilding <- {2}, Partner <- <<4, 4, 4, 3>>,
  Requests <- Calls, Starts <- Cities, MaxLost <- LostLimit

\* The answer that gets lost is to one of these calls, where each resident has a home
\* of his own.
DoubtfulCalls ==
  Errands \cup Each(Lister, {"retire"}, {3}) \cup Each(Lister, {"open", "give_place"}, {2})
  \cup Each(Visitor, {"hand_place"}, {4}) \cup {Ask(Visitor, "withdraw", None, Box)}

Asked(t) == [act |-> t.act, who |-> t.who, to |-> t.to, item |-> t.item, other |-> t.other]

FewLost == lost' > 0 =>
  /\ lost = 0 => home' = Both(3, 4)
  /\ \A h \in Hands : tx'[h].act # None => Asked(tx'[h]) \in DoubtfulCalls

\* The tree, the calls and the cities are as the proofs about WorldMoves take them.
ASSUME LandAssumption == Moves!WorldAssumption

-----------------------------------------------------------------------------
buyVars == <<intent, made, known, offered, keyed, approved, charges, credits>>
saleVars == <<owner, lock, offer, att>>
landVars == <<place, at, home, thing, tx, lost>>
marketVars == <<part, vars, buyVars, call, saleVars, landVars>>

\* The variables of a component that does not move; CreditGifts rests at its start.
NoBuying ==
  /\ intent = None /\ made = None /\ known = None /\ offered = None
  /\ keyed = None /\ approved = None /\ charges = None /\ credits = None
NoSales == owner = None /\ lock = None /\ offer = None /\ att = None
NoLand ==
  place = None /\ at = None /\ home = None /\ thing = None /\ tx = None /\ lost = None

MarketInit ==
  /\ Init
  /\ \/ part = "gifts" /\ NoBuying /\ NoSales /\ NoLand /\ call = None
     \/ part = "buying" /\ Buying!Init /\ NoSales /\ NoLand
     \/ part = "sales" /\ Sales!Init /\ NoBuying /\ NoLand
     \/ part = "land" /\ Moves!Init /\ NoBuying /\ NoSales /\ call = None

GiftsMove == part = "gifts" /\ Next /\ UNCHANGED <<part, buyVars, call, saleVars, landVars>>
BuyingMoves == part = "buying" /\ Buying!Next /\ UNCHANGED <<part, vars, saleVars, landVars>>
SalesMove == part = "sales" /\ Sales!Next /\ UNCHANGED <<part, vars, buyVars, landVars>>
LandMoves == part = "land" /\ Moves!Next /\ UNCHANGED <<part, vars, buyVars, call, saleVars>>

MarketNext == GiftsMove \/ BuyingMoves \/ SalesMove \/ LandMoves

MarketSpec == MarketInit /\ [][MarketNext]_marketVars

\* The steps that TLC explores.
FewMarketNext ==
  \/ GiftsMove /\ FewGifts'
  \/ BuyingMoves
  \/ SalesMove /\ TwoOfOne'
  \/ LandMoves /\ FewLost

FewMarketSpec == MarketInit /\ [][FewMarketNext]_marketVars

\* Handlers are alike, and so are the residents who are given gifts and buy.
Alike == Permutations(Hands) \cup Permutations(Residents)

-----------------------------------------------------------------------------
(* Properties                                                              *)

\* The types of the components.
MarketTypeOK ==
  /\ TypeOK
  /\ part = "buying" => Buying!TypeOK
  /\ part = "sales" => Sales!TypeOK
  /\ part = "land" => Moves!TypeOK

\* An intent is charged through one order, the attached one (PayPalOrders).
ChargedAsOffered == part = "buying" => Buying!ChargedAsOffered

\* A payment made in time keeps its offer and its thing, and a thing is sold exactly as
\* it was paid for (WorldSales).
SoldAsPaid == part = "sales" => Sales!PaidKeepsTarget /\ Sales!SoldAsPaid

\* Retired land is empty, whatever arrives while it is retired (WorldMoves).
RetiredIsEmpty == part = "land" => Moves!RetiredIsEmpty

\* Luggage goes with its holder until a place permits it (WorldMoves).
LuggageFollows == part = "land" => Moves!LuggageFollows

\* The answer of an action is true, lost commits included (WorldMoves).
AnswerIsTrue == part = "land" => Moves!AnswerIsTrue

\* Rows are locked in one order, but for the presence of others (WorldMoves).
OneLockOrder == part = "land" => Moves!OneLockOrder
=============================================================================

----------------------------- MODULE WorldSalesProofs -----------------------------
(***************************************************************************)
(* Proofs about WorldSales: a sale follows its payment, for any number of  *)
(* residents, offers, reservations, attempts and handlers.                 *)
(***************************************************************************)
EXTENDS WorldSales, TLAPS

OfferRow ==
  [ch : Channels, seller : Residents, buyer : Residents \cup {None},
   st : {"open", "claimed", "canceled"}, rid : 0 .. MaxReserve, active : BOOLEAN,
   evid : {"none", "pending"} \cup Final, by : Attempts \cup {0}]
AttemptRow ==
  [offer : Offers, buyer : Residents, rid : 1 .. MaxReserve,
   st : LiveStates \cup Final \cup {"completed"}, paid : {"no", "in", "out"},
   tx : BOOLEAN, final : BOOLEAN, due : BOOLEAN, lease : Handlers \cup {None}]
CallRow ==
  [at : {"create", "lease", "settle", "closeInvalid", "park", "parkWrite", "complete",
         "completeWrite", "close", "expire"},
   offer : Offers, rid : 1 .. MaxReserve, buyer : Residents, att : Attempts \cup {0},
   next : {None, "answer", "complete"}]

\* There are two channels, the first owner is a resident, and no row, offer or resident
\* is the absent one.
SalesAssumption ==
  /\ MaxOffers \in Nat /\ MaxAttempts \in Nat /\ MaxReserve \in Nat
  /\ Channels \subseteq {"direct", "world"} /\ Seller \in Residents
  /\ None \notin Residents /\ None \notin Offers
  /\ None \notin OfferRow /\ None \notin AttemptRow

-----------------------------------------------------------------------------
(* The inductive invariant                                                 *)

SaleTyped ==
  /\ owner \in Residents /\ lock \in Offers \cup {None}
  /\ offer \in [Offers -> OfferRow \cup {None}]
  /\ att \in [Attempts -> AttemptRow \cup {None}]
  /\ call \in [Handlers -> CallRow \cup {None}]

\* A buyer b read of offer o as its r-th reservation still is that reservation's buyer.
Reserved(o, r, b) ==
  /\ offer[o] # None /\ r <= offer[o].rid
  /\ r = offer[o].rid => offer[o].buyer = b
  /\ offer[o].ch = "direct" => offer[o].buyer = b

\* The open offer, and no other, locks its seller's thing.
OpenLocks ==
  \A o \in Offers : offer[o] # None =>
    /\ offer[o].buyer # offer[o].seller
    /\ offer[o].st = "open" => Locked(o)
    /\ lock = o => offer[o].st = "open"

\* The evidence of an offer is that of the attempt it names, which is the reservation's
\* while it is pending.
EvidenceFollows(o) ==
  /\ offer[o].by = 0 <=> offer[o].evid = "none"
  /\ offer[o].by # 0 =>
       LET a == offer[o].by IN
       /\ offer[o].ch = "world" /\ att[a] # None /\ att[a].offer = o
       /\ \/ offer[o].evid = "pending" /\ att[a].st \in LiveStates \cup {"invalid", "completed"}
          \/ offer[o].evid = att[a].st
          \/ offer[o].evid = "expired" /\ att[a].st = "founder_review"
       /\ offer[o].evid = "pending" => /\ att[a].tx /\ att[a].rid = offer[o].rid
                                       /\ IsLive(a) => offer[o].st = "open"

\* An attempt and its offer.
AttemptFollows(a) ==
  /\ Reserved(att[a].offer, att[a].rid, att[a].buyer)
  /\ IsLive(a) /\ att[a].paid = "in" =>
       offer[att[a].offer].st = "open" /\ offer[att[a].offer].rid = att[a].rid
  /\ IsLive(a) /\ att[a].final => att[a].paid = "in"
  /\ att[a].st = "completed" =>
       /\ att[a].paid = "in" /\ offer[att[a].offer].st = "claimed"
       /\ offer[att[a].offer].rid = att[a].rid
       /\ offer[att[a].offer].ch = "world" => offer[att[a].offer].by = a
  /\ att[a].st \in Final /\ offer[att[a].offer].ch = "direct" => offer[att[a].offer].st # "open"

\* Of one offer one attempt is live and one is completed.
OneEach ==
  \A a, b \in Attempts :
    /\ att[a] # None /\ att[b] # None /\ att[a].offer = att[b].offer
    /\ (IsLive(a) /\ IsLive(b)) \/ (att[a].st = "completed" /\ att[b].st = "completed")
    => a = b

\* A claimed offer was completed.
ClaimedIsPaid ==
  \A o \in Offers : offer[o] # None /\ offer[o].st = "claimed" =>
    \E a \in Attempts : att[a] # None /\ att[a].offer = o /\ att[a].st = "completed"

\* Where a handler stands, and what it has checked of what it locks.
CallFollows(c) ==
  /\ Reserved(c.offer, c.rid, c.buyer)
  /\ c.at # "create" => c.att \in Attempts /\ att[c.att] # None /\ att[c.att].offer = c.offer
  /\ c.at = "closeInvalid" => att[c.att].st = "invalid"
  /\ c.at = "parkWrite" =>
       /\ offer[c.offer].ch = "world" /\ offer[c.offer].st = "open"
       /\ offer[c.offer].evid = "none" /\ offer[c.offer].rid = att[c.att].rid
       /\ att[c.att].tx /\ att[c.att].st \in LiveStates \cup {"invalid"}

\* One UPDATE at a time parks on an offer.
OneParks ==
  \A g, h \in Handlers : At(g, "parkWrite") /\ At(h, "parkWrite") /\ call[g].offer = call[h].offer
    => g = h

RowsInv ==
  /\ OpenLocks
  /\ \A o \in Offers : offer[o] # None => EvidenceFollows(o)
  /\ \A a \in Attempts : att[a] # None => AttemptFollows(a)
  /\ OneEach /\ ClaimedIsPaid

CallsInv ==
  /\ \A h \in Handlers : call[h] # None => CallFollows(call[h])
  /\ OneParks

SalesInv == SaleTyped /\ RowsInv /\ CallsInv

LEMMA SalesInit ==
  ASSUME SalesAssumption, Init
  PROVE  SalesInv
<1>1. SaleTyped
  BY DEF SalesAssumption, Init, SaleTyped
<1>2. RowsInv
  BY DEF SalesAssumption, Init, RowsInv, OpenLocks, OneEach, ClaimedIsPaid
<1>3. CallsInv
  BY DEF Init, CallsInv, OneParks, At
<1> QED BY <1>1, <1>2, <1>3 DEF SalesInv

-----------------------------------------------------------------------------
(* The shapes of a step                                                    *)

LEMMA RowsSame ==
  ASSUME RowsInv, UNCHANGED <<owner, lock, offer, att>>
  PROVE  RowsInv'
  BY DEF RowsInv, OpenLocks, Locked, EvidenceFollows, AttemptFollows, Reserved, IsLive, OneEach,
         ClaimedIsPaid

\* A handler moves, and what the others have checked stays true.
LEMMA CallMoves ==
  ASSUME SalesInv, NEW h \in Handlers, NEW n \in CallRow \cup {None},
         call' = [call EXCEPT ![h] = n],
         n # None => CallFollows(n)',
         n # None /\ n.at = "parkWrite" => RowFree(n.offer),
         \A c \in CallRow : CallFollows(c) => CallFollows(c)'
  PROVE  CallsInv' /\ call' \in [Handlers -> CallRow \cup {None}]
<1>1. /\ call' \in [Handlers -> CallRow \cup {None}]
      /\ \A g \in Handlers : call'[g] = IF g = h THEN n ELSE call[g]
  BY DEF SalesInv, SaleTyped
<1>2. ASSUME NEW g \in Handlers, call'[g] # None PROVE CallFollows(call[g])'
  <2>1. CASE g = h
    BY <1>1, <1>2, <2>1 DEF CallFollows, Reserved
  <2>2. CASE g # h
    <3>1. call[g] \in CallRow /\ CallFollows(call[g]) /\ call'[g] = call[g]
      BY <1>1, <1>2, <2>2 DEF SalesInv, SaleTyped, CallsInv
    <3>2. PICK c \in CallRow : c = call[g]
      BY <3>1
    <3>3. CallFollows(c)'
      BY <3>1, <3>2
    <3> QED BY <3>1, <3>2, <3>3 DEF CallFollows, Reserved
  <2> QED BY <2>1, <2>2
<1>3. OneParks'
  <2> SUFFICES ASSUME NEW g \in Handlers, NEW k \in Handlers,
                      At(g, "parkWrite")', At(k, "parkWrite")', call'[g].offer = call'[k].offer
               PROVE  g = k
    BY DEF OneParks
  <2>1. CASE g # h /\ k # h
    BY <1>1, <2>1 DEF At, SalesInv, CallsInv, OneParks
  <2>2. CASE g = h /\ k # h
    BY <1>1, <2>2 DEF At, RowFree
  <2>3. CASE g # h /\ k = h
    BY <1>1, <2>3 DEF At, RowFree
  <2> QED BY <2>1, <2>2, <2>3
<1> QED BY <1>1, <1>2, <1>3 DEF CallsInv

\* A handler moves and no row does.
LEMMA OnlyCall ==
  ASSUME SalesInv, NEW h \in Handlers, NEW n \in CallRow \cup {None},
         call' = [call EXCEPT ![h] = n],
         n # None => CallFollows(n),
         n # None /\ n.at = "parkWrite" => RowFree(n.offer),
         UNCHANGED <<owner, lock, offer, att>>
  PROVE  SalesInv'
<1>1. RowsInv'
  BY RowsSame DEF SalesInv
<1>2. ASSUME NEW c, CallFollows(c) PROVE CallFollows(c)'
  BY <1>2 DEF CallFollows, Reserved
<1>3. CallsInv' /\ call' \in [Handlers -> CallRow \cup {None}]
  BY <1>2, CallMoves
<1> QED BY <1>1, <1>3 DEF SalesInv, SaleTyped

\* What changes in an attempt without closing it, or from expired to founder review.
Stays(a, n) ==
  /\ n \in AttemptRow
  /\ n.offer = att[a].offer /\ n.buyer = att[a].buyer /\ n.rid = att[a].rid
  /\ att[a].tx => n.tx
  /\ att[a].st \in LiveStates => n.st \in LiveStates
  /\ att[a].st \notin LiveStates =>
       /\ n.paid = att[a].paid
       /\ n.st = att[a].st \/ (att[a].st = "expired" /\ n.st = "founder_review")
  /\ n.st \in LiveStates /\ n.paid = "in" =>
       offer[n.offer].st = "open" /\ offer[n.offer].rid = n.rid
  /\ n.st \in LiveStates /\ n.final => n.paid = "in"

LEMMA AttemptStays ==
  ASSUME SalesAssumption, SalesInv, NEW a \in Attempts, att[a] # None, NEW n, Stays(a, n),
         att' = [att EXCEPT ![a] = n], UNCHANGED <<owner, lock, offer>>
  PROVE  /\ RowsInv' /\ att' \in [Attempts -> AttemptRow \cup {None}]
         /\ \A c \in CallRow : CallFollows(c) => CallFollows(c)'
<1>1. /\ att' \in [Attempts -> AttemptRow \cup {None}] /\ n # None /\ att[a] \in AttemptRow
      /\ \A b \in Attempts : att'[b] = IF b = a THEN n ELSE att[b]
  BY DEF Stays, SalesAssumption, SalesInv, SaleTyped
<1>2. \A b \in Attempts : /\ att[b] # None <=> att'[b] # None
                          /\ att[b] # None => /\ att'[b].offer = att[b].offer
                                              /\ att'[b].rid = att[b].rid
                                              /\ att'[b].buyer = att[b].buyer
                                              /\ att[b].tx => att'[b].tx
                          /\ IsLive(b)' <=> IsLive(b)
                          /\ att[b] # None => (att[b].st = "completed" <=> att'[b].st = "completed")
  BY <1>1 DEF Stays, IsLive, LiveStates, AttemptRow, Final
<1>3. OpenLocks'
  BY DEF SalesInv, RowsInv, OpenLocks, Locked
<1>4. ASSUME NEW o \in Offers, offer'[o] # None PROVE EvidenceFollows(o)'
  <2>1. EvidenceFollows(o) /\ offer[o] \in OfferRow
    BY <1>4 DEF SalesInv, SaleTyped, RowsInv
  <2>2. CASE offer[o].by = 0
    BY <2>1, <2>2 DEF EvidenceFollows
  <2>3. CASE offer[o].by # 0
    <3> DEFINE b == offer[o].by
    <3>1. b \in Attempts /\ att[b] # None
      BY <2>1, <2>3 DEF EvidenceFollows, OfferRow
    <3>2. \/ offer[o].evid = "pending" /\ att'[b].st \in LiveStates \cup {"invalid", "completed"}
          \/ offer[o].evid = att'[b].st
          \/ offer[o].evid = "expired" /\ att'[b].st = "founder_review"
      <4>1. CASE b # a
        BY <1>1, <2>1, <2>3, <3>1, <4>1 DEF EvidenceFollows
      <4>2. CASE b = a
        <5>1. att'[b] = n
          BY <1>1, <4>2
        <5>2. \/ offer[o].evid = "pending" /\ att[a].st \in LiveStates \cup {"invalid", "completed"}
              \/ offer[o].evid = att[a].st
              \/ offer[o].evid = "expired" /\ att[a].st = "founder_review"
          BY <2>1, <2>3, <4>2 DEF EvidenceFollows
        <5>3. offer[o].evid \notin LiveStates
          BY <2>1 DEF OfferRow, LiveStates, Final
        <5> QED BY <5>1, <5>2, <5>3 DEF Stays, LiveStates
      <4> QED BY <4>1, <4>2
    <3> QED BY <1>2, <2>1, <2>3, <3>1, <3>2 DEF EvidenceFollows
  <2> QED BY <2>2, <2>3
<1>5. ASSUME NEW b \in Attempts, att'[b] # None PROVE AttemptFollows(b)'
  <2>1. AttemptFollows(b)
    BY <1>2, <1>5 DEF SalesInv, RowsInv
  <2>2. CASE b # a
    BY <1>1, <2>1, <2>2 DEF AttemptFollows, Reserved, IsLive
  <2>3. CASE b = a
    <3>1. att'[b] = n
      BY <1>1, <2>3
    <3>2. n.st \in Final => att[a].st \in Final
      BY <1>1 DEF Stays, AttemptRow, Final, LiveStates
    <3>3. n.st = "completed" => att[a].st = "completed" /\ n.paid = att[a].paid
      BY <1>1 DEF Stays, LiveStates
    <3>4. Reserved(n.offer, n.rid, n.buyer)'
      BY <2>1, <2>3 DEF AttemptFollows, Reserved, Stays
    <3>5. n.st = "completed" => /\ n.paid = "in" /\ offer[n.offer].st = "claimed"
                                /\ offer[n.offer].rid = n.rid
                                /\ offer[n.offer].ch = "world" => offer[n.offer].by = b
      BY <2>1, <2>3, <3>3 DEF AttemptFollows, Stays
    <3>6. n.st \in Final /\ offer[n.offer].ch = "direct" => offer[n.offer].st # "open"
      BY <2>1, <2>3, <3>2 DEF AttemptFollows, Stays
    <3> QED BY <3>1, <3>4, <3>5, <3>6 DEF AttemptFollows, Stays, IsLive
  <2> QED BY <2>2, <2>3
<1>6. OneEach'
  BY <1>2 DEF SalesInv, RowsInv, OneEach
<1>7. ClaimedIsPaid'
  BY <1>2 DEF SalesInv, RowsInv, ClaimedIsPaid
<1>8. ASSUME NEW c \in CallRow, CallFollows(c) PROVE CallFollows(c)'
  <2>1. CASE c.at = "create"
    BY <1>8, <2>1 DEF CallFollows, Reserved
  <2>2. CASE c.at # "create"
    <3>1. c.att \in Attempts /\ att[c.att] # None
      BY <1>8, <2>2 DEF CallFollows
    <3>2. att[c.att].st = "invalid" => att'[c.att].st = "invalid"
      BY <1>1, <3>1 DEF Stays, LiveStates
    <3>3. att[c.att].st \in LiveStates => att'[c.att].st \in LiveStates
      BY <1>1, <3>1 DEF Stays
    <3> QED BY <1>2, <1>8, <2>2, <3>1, <3>2, <3>3 DEF CallFollows, Reserved
  <2> QED BY <2>1, <2>2
<1> QED BY <1>1, <1>3, <1>4, <1>5, <1>6, <1>7, <1>8 DEF RowsInv

-----------------------------------------------------------------------------
(* Steps of a handler                                                      *)

\* What a handler that has begun knows.
LEMMA Begun ==
  ASSUME SalesInv, NEW h \in Handlers, call[h] # None
  PROVE  /\ call[h] \in CallRow /\ CallFollows(call[h])
         /\ call[h].at # "create" => /\ call[h].att \in Attempts /\ att[call[h].att] \in AttemptRow
                                     /\ att[call[h].att] # None /\ att[call[h].att].offer = call[h].offer
                                     /\ AttemptFollows(call[h].att)
  BY DEF SalesInv, SaleTyped, RowsInv, CallsInv, CallFollows

\* Idle and Go, as the replacement of one row.
LEMMA GoMoves ==
  ASSUME SalesInv, NEW h \in Handlers, call[h] # None, NEW step \in {"lease", "settle",
           "closeInvalid", "park", "parkWrite", "complete", "completeWrite", "close"}
  PROVE  /\ Idle(h) = [call EXCEPT ![h] = None]
         /\ \E n \in CallRow : /\ Go(h, step) = [call EXCEPT ![h] = n]
                               /\ n.at = step /\ n.offer = call[h].offer /\ n.rid = call[h].rid
                               /\ n.buyer = call[h].buyer /\ n.att = call[h].att
                               /\ n.next = call[h].next
<1>1. PICK n : n = [call[h] EXCEPT !.at = step]
  OBVIOUS
<1>2. /\ n \in CallRow /\ n.at = step /\ n.offer = call[h].offer /\ n.rid = call[h].rid
      /\ n.buyer = call[h].buyer /\ n.att = call[h].att /\ n.next = call[h].next
  BY <1>1, Begun DEF CallRow
<1>3. Go(h, step) = [call EXCEPT ![h] = n]
  BY <1>1 DEF Go, SalesInv, SaleTyped
<1> QED BY <1>2, <1>3 DEF Idle

\* A handler that goes on, or ends, with no row changed.
LEMMA GoStep ==
  ASSUME SalesInv, NEW h \in Handlers, call[h] # None, call[h].at # "create",
         UNCHANGED <<owner, lock, offer, att>>,
         \/ call' = Idle(h)
         \/ \E step \in {"lease", "settle", "park", "complete", "completeWrite", "close"} :
              call' = Go(h, step)
         \/ call' = Go(h, "closeInvalid") /\ att[call[h].att].st = "invalid"
  PROVE  SalesInv'
<1>1. CASE call' = Idle(h)
  BY <1>1, OnlyCall DEF Idle
<1>2. ASSUME NEW step \in {"lease", "settle", "park", "complete", "completeWrite", "close",
                           "closeInvalid"},
             call' = Go(h, step), step = "closeInvalid" => att[call[h].att].st = "invalid"
      PROVE  SalesInv'
  <2>1. PICK n \in CallRow : /\ Go(h, step) = [call EXCEPT ![h] = n]
                             /\ n.at = step /\ n.offer = call[h].offer /\ n.rid = call[h].rid
                             /\ n.buyer = call[h].buyer /\ n.att = call[h].att
    BY GoMoves
  <2>2. CallFollows(n)
    BY <1>2, <2>1, Begun DEF CallFollows
  <2> QED BY <1>2, <2>1, <2>2, OnlyCall
<1> QED BY <1>1, <1>2

LEMMA ClaimStep ==
  ASSUME SalesAssumption, SalesInv, NEW h \in Handlers, NEW b \in Residents, NEW o \in Offers, claim(h, b, o)
  PROVE  SalesInv'
<1>1. PICK n : n = [at |-> "create", offer |-> o, rid |-> offer[o].rid,
                    buyer |-> b, att |-> 0, next |-> None]
  OBVIOUS
<1>2. offer[o] \in OfferRow /\ offer[o].rid > 0 /\ offer[o].buyer = b
  BY DEF claim, IsOpen, SalesInv, SaleTyped
<1>3. n \in CallRow
  BY <1>1, <1>2 DEF CallRow, OfferRow, SalesAssumption
<1>4. CallFollows(n)
  <2>1. offer[o] # None /\ offer[o].rid \in Nat
    BY <1>2 DEF claim, IsOpen, OfferRow
  <2> QED BY <1>1, <1>2, <2>1 DEF CallFollows, Reserved
<1> QED BY <1>1, <1>3, <1>4, OnlyCall DEF claim

LEMMA ResumeRow ==
  ASSUME SalesInv, NEW a \in Attempts, att[a] # None, NEW step \in {"lease", "expire"},
         NEW n, n = [at |-> step, offer |-> att[a].offer, rid |-> att[a].rid,
                     buyer |-> att[a].buyer, att |-> a, next |-> None]
  PROVE  n \in CallRow /\ CallFollows(n)
<1>1. att[a] \in AttemptRow /\ AttemptFollows(a)
  BY DEF SalesInv, SaleTyped, RowsInv
<1>2. n \in CallRow
  BY <1>1 DEF CallRow, AttemptRow
<1> QED BY <1>1, <1>2 DEF CallFollows, AttemptFollows

LEMMA ResumeStep ==
  ASSUME SalesInv, NEW h \in Handlers, NEW a \in Attempts, resume(h, a)
  PROVE  SalesInv'
<1>1. PICK n : n = [at |-> "lease", offer |-> att[a].offer, rid |-> att[a].rid,
                    buyer |-> att[a].buyer, att |-> a, next |-> None]
  OBVIOUS
<1>2. n \in CallRow /\ CallFollows(n) /\ n.at = "lease"
  BY <1>1, ResumeRow DEF resume
<1> QED BY <1>1, <1>2, OnlyCall DEF resume

LEMMA CrashStep ==
  ASSUME SalesInv, NEW h \in Handlers, crash(h)
  PROVE  SalesInv'
  BY OnlyCall DEF crash, Idle

LEMMA CompleteStep ==
  ASSUME SalesInv, NEW h \in Handlers, complete(h)
  PROVE  SalesInv'
<1>1. call[h] # None /\ call[h].at = "complete" /\ UNCHANGED <<owner, lock, offer, att>>
  BY DEF complete, At
<1>2. CASE call' = Idle(h) \/ call' = Go(h, "close") \/ call' = Go(h, "completeWrite")
  BY <1>1, <1>2, GoStep
<1>3. CASE call' = [call EXCEPT ![h].at = "park", ![h].next = "complete"]
  <2>1. PICK n : n = [call[h] EXCEPT !.at = "park", !.next = "complete"]
    OBVIOUS
  <2>2. /\ n \in CallRow /\ n.at = "park" /\ n.offer = call[h].offer /\ n.rid = call[h].rid
        /\ n.buyer = call[h].buyer /\ n.att = call[h].att
    BY <1>1, <2>1, Begun DEF CallRow
  <2>3. call' = [call EXCEPT ![h] = n]
    BY <1>3, <2>1 DEF SalesInv, SaleTyped
  <2>4. CallFollows(n)
    BY <1>1, <2>2, Begun DEF CallFollows
  <2> QED BY <1>1, <2>2, <2>3, <2>4, OnlyCall
<1> QED BY <1>2, <1>3 DEF complete

LEMMA ParkStep ==
  ASSUME SalesInv, NEW h \in Handlers, park(h)
  PROVE  SalesInv'
<1>1. call[h] # None /\ call[h].at = "park" /\ UNCHANGED <<owner, lock, offer, att>>
  BY DEF park, At
<1>2. CASE call' = Idle(h) \/ call' = Go(h, "close") \/ call' = Go(h, "completeWrite")
  BY <1>1, <1>2, GoStep
<1>3. CASE /\ Parkable(call[h].att, call[h].offer) /\ RowFree(call[h].offer)
           /\ call' = Go(h, "parkWrite")
  <2>1. PICK n \in CallRow : /\ Go(h, "parkWrite") = [call EXCEPT ![h] = n]
                             /\ n.at = "parkWrite" /\ n.offer = call[h].offer /\ n.rid = call[h].rid
                             /\ n.buyer = call[h].buyer /\ n.att = call[h].att
    BY <1>1, GoMoves
  <2>2. CallFollows(n)
    BY <1>1, <1>3, <2>1, Begun DEF CallFollows, Parkable, IsLive, IsOpen
  <2> QED BY <1>1, <1>3, <2>1, <2>2, OnlyCall
<1> QED BY <1>2, <1>3 DEF park

-----------------------------------------------------------------------------
(* Steps of an attempt that stays as it is                                 *)

\* A row of an attempt with some fields changed.
LEMMA LeaseRow ==
  ASSUME SalesInv, NEW a \in Attempts, att[a] # None, NEW l \in Handlers \cup {None},
         NEW n, n = [att[a] EXCEPT !.lease = l]
  PROVE  Stays(a, n) /\ [att EXCEPT ![a].lease = l] = [att EXCEPT ![a] = n]
<1>1. att[a] \in AttemptRow /\ AttemptFollows(a)
  BY DEF SalesInv, SaleTyped, RowsInv
<1>2. n \in AttemptRow
  BY <1>1 DEF AttemptRow
<1>3. /\ n.offer = att[a].offer /\ n.buyer = att[a].buyer /\ n.rid = att[a].rid
      /\ n.tx = att[a].tx /\ n.st = att[a].st /\ n.paid = att[a].paid /\ n.final = att[a].final
  BY <1>1 DEF AttemptRow
<1>4. Stays(a, n)
  BY <1>1, <1>2, <1>3 DEF Stays, AttemptFollows, IsLive
<1> QED BY <1>4 DEF SalesInv, SaleTyped

\* An attempt stays while a handler goes on or ends.
LEMMA AttemptStep ==
  ASSUME SalesAssumption, SalesInv, NEW a \in Attempts, att[a] # None,
         NEW n, Stays(a, n), att' = [att EXCEPT ![a] = n], UNCHANGED <<owner, lock, offer>>,
         \/ call' = call
         \/ \E h \in Handlers, c \in CallRow \cup {None} :
              /\ call' = [call EXCEPT ![h] = c]
              /\ c # None => CallFollows(c) /\ c.at # "parkWrite"
  PROVE  SalesInv'
<1>1. /\ RowsInv' /\ att' \in [Attempts -> AttemptRow \cup {None}]
      /\ \A c \in CallRow : CallFollows(c) => CallFollows(c)'
  BY AttemptStays
<1>2. CASE call' = call
  <2>1. ASSUME NEW g \in Handlers, call'[g] # None PROVE CallFollows(call[g])'
    <3>1. PICK k \in CallRow : k = call[g] /\ CallFollows(k)
      BY <1>2, <2>1 DEF SalesInv, SaleTyped, CallsInv
    <3>2. CallFollows(k)'
      BY <1>1, <3>1
    <3> QED BY <1>2, <3>1, <3>2 DEF CallFollows, Reserved
  <2>2. CallsInv'
    BY <1>2, <2>1 DEF SalesInv, CallsInv, OneParks, At
  <2> QED BY <1>1, <1>2, <2>2 DEF SalesInv, SaleTyped
<1>3. ASSUME NEW h \in Handlers, NEW c \in CallRow \cup {None}, call' = [call EXCEPT ![h] = c],
             c # None => CallFollows(c) /\ c.at # "parkWrite"
      PROVE  SalesInv'
  <2>1. CallsInv' /\ call' \in [Handlers -> CallRow \cup {None}]
    BY <1>1, <1>3, CallMoves
  <2> QED BY <1>1, <2>1 DEF SalesInv, SaleTyped
<1> QED BY <1>2, <1>3

\* A handler that holds the lease of a live attempt.
LEMMA HolderSees ==
  ASSUME SalesInv, NEW h \in Handlers, NEW step \in {"settle", "completeWrite", "close", "expire"},
         At(h, step), Holds(h)
  PROVE  LET a == call[h].att IN
         /\ call[h] \in CallRow /\ call[h].at = step /\ CallFollows(call[h])
         /\ a \in Attempts /\ att[a] # None /\ att[a] \in AttemptRow /\ att[a].offer = call[h].offer
         /\ AttemptFollows(a) /\ att[a].st \in LiveStates
         /\ offer[att[a].offer] \in OfferRow /\ offer[att[a].offer] # None
<1>1. call[h] # None /\ call[h].at = step
  BY DEF At
<1>2. /\ call[h] \in CallRow /\ CallFollows(call[h]) /\ call[h].att \in Attempts
      /\ att[call[h].att] # None /\ att[call[h].att] \in AttemptRow
      /\ att[call[h].att].offer = call[h].offer /\ AttemptFollows(call[h].att)
  BY <1>1, Begun
<1>3. att[call[h].att].st \in LiveStates
  BY DEF Holds, IsLive
<1>4. offer[call[h].offer] \in OfferRow /\ offer[call[h].offer] # None
  BY <1>2 DEF CallFollows, Reserved, CallRow, SalesInv, SaleTyped
<1> QED BY <1>1, <1>2, <1>3, <1>4

LEMMA LeaseStep ==
  ASSUME SalesAssumption, SalesInv, NEW h \in Handlers, acquireLease(h)
  PROVE  SalesInv'
<1> DEFINE a == call[h].att
<1>1. call[h] # None /\ call[h].at = "lease" /\ UNCHANGED <<owner, lock, offer>>
  BY DEF acquireLease, At
<1>2. CASE IsLive(a) /\ att' = [att EXCEPT ![a].lease = h] /\ call' = Go(h, "settle")
  <2>1. a \in Attempts /\ att[a] # None
    BY <1>1, Begun
  <2>2. PICK n : n = [att[a] EXCEPT !.lease = h]
    OBVIOUS
  <2>3. Stays(a, n) /\ att' = [att EXCEPT ![a] = n]
    BY <1>2, <2>1, <2>2, LeaseRow
  <2>4. PICK c \in CallRow : /\ Go(h, "settle") = [call EXCEPT ![h] = c]
                             /\ c.at = "settle" /\ c.offer = call[h].offer /\ c.rid = call[h].rid
                             /\ c.buyer = call[h].buyer /\ c.att = call[h].att
    BY <1>1, GoMoves
  <2>5. CallFollows(c)
    BY <1>1, <2>4, Begun DEF CallFollows
  <2> HIDE DEF a
  <2> QED BY <1>1, <1>2, <2>1, <2>3, <2>4, <2>5, AttemptStep
<1>3. CASE /\ UNCHANGED att
           /\ \/ att[a].st = "invalid" /\ call' = Go(h, "closeInvalid")
              \/ call' = Idle(h)
  BY <1>1, <1>3, GoStep
<1> QED BY <1>2, <1>3 DEF acquireLease

LEMMA AnswerStep ==
  ASSUME SalesAssumption, SalesInv, NEW h \in Handlers, answerPending(h)
  PROVE  SalesInv'
<1> DEFINE a == call[h].att
<1>1. /\ At(h, "settle") /\ Holds(h) /\ UNCHANGED <<owner, lock, offer>>
      /\ att' = [att EXCEPT ![a].lease = None]
      /\ \/ call' = [call EXCEPT ![h].at = "park", ![h].next = "answer"]
         \/ call' = Idle(h)
  BY DEF answerPending
<1>2. /\ a \in Attempts /\ att[a] # None /\ call[h] \in CallRow /\ CallFollows(call[h])
      /\ call[h].at = "settle"
  BY <1>1, HolderSees
<1>3. PICK n : n = [att[a] EXCEPT !.lease = None]
  OBVIOUS
<1>4. Stays(a, n) /\ att' = [att EXCEPT ![a] = n]
  BY <1>1, <1>2, <1>3, LeaseRow
<1>5. PICK c : c = [call[h] EXCEPT !.at = "park", !.next = "answer"]
  OBVIOUS
<1>6. /\ c \in CallRow /\ c.at = "park" /\ c.offer = call[h].offer /\ c.rid = call[h].rid
      /\ c.buyer = call[h].buyer /\ c.att = call[h].att
  BY <1>2, <1>5 DEF CallRow
<1>7. CallFollows(c)
  BY <1>2, <1>6 DEF CallFollows
<1>8. call' = [call EXCEPT ![h] = c] \/ call' = [call EXCEPT ![h] = None]
  BY <1>1, <1>5 DEF Idle, SalesInv, SaleTyped
<1> HIDE DEF a
<1> QED BY <1>1, <1>2, <1>4, <1>6, <1>7, <1>8, AttemptStep

LEMMA SettleStep ==
  ASSUME SalesAssumption, SalesInv, NEW h \in Handlers, settle(h)
  PROVE  SalesInv'
<1> DEFINE a == call[h].att
           o == offer[att[a].offer]
           how == IF o.st = "open" /\ o.rid = att[a].rid /\ o.active THEN "in" ELSE "out"
<1>1. /\ At(h, "settle") /\ Holds(h) /\ UNCHANGED <<owner, lock, offer, call>>
      /\ att[a].paid = "no" /\ att' = [att EXCEPT ![a].paid = how]
  BY DEF settle
<1>2. /\ a \in Attempts /\ att[a] # None /\ att[a] \in AttemptRow /\ AttemptFollows(a)
      /\ att[a].st \in LiveStates
  BY <1>1, HolderSees
<1>3. PICK n : n = [att[a] EXCEPT !.paid = how]
  OBVIOUS
<1>4. /\ n \in AttemptRow /\ n.offer = att[a].offer /\ n.buyer = att[a].buyer /\ n.rid = att[a].rid
      /\ n.tx = att[a].tx /\ n.st = att[a].st /\ n.paid = how /\ n.final = att[a].final
  BY <1>2, <1>3 DEF AttemptRow
<1>5. n.st \in LiveStates /\ ~n.final
  BY <1>1, <1>2, <1>4 DEF AttemptFollows, IsLive
<1>6. n.paid = "in" => offer[n.offer].st = "open" /\ offer[n.offer].rid = n.rid
  BY <1>4
<1>7. Stays(a, n)
  BY <1>2, <1>4, <1>5, <1>6 DEF Stays
<1>8. att' = [att EXCEPT ![a] = n]
  BY <1>1, <1>3 DEF SalesInv, SaleTyped
<1> HIDE DEF a, o, how
<1> QED BY <1>1, <1>2, <1>7, <1>8, AttemptStep

LEMMA BindStep ==
  ASSUME SalesAssumption, SalesInv, NEW h \in Handlers, bindEvidence(h)
  PROVE  SalesInv'
<1> DEFINE a == call[h].att
<1>1. /\ At(h, "settle") /\ Holds(h) /\ UNCHANGED <<owner, lock, offer, call>>
      /\ att' = [att EXCEPT ![a].tx = TRUE, ![a].st = "payment_pending"]
  BY DEF bindEvidence
<1>2. /\ a \in Attempts /\ att[a] # None /\ att[a] \in AttemptRow /\ AttemptFollows(a)
      /\ att[a].st \in LiveStates
  BY <1>1, HolderSees
<1>3. PICK n : n = [att[a] EXCEPT !.tx = TRUE, !.st = "payment_pending"]
  OBVIOUS
<1>4. /\ n \in AttemptRow /\ n.offer = att[a].offer /\ n.buyer = att[a].buyer /\ n.rid = att[a].rid
      /\ n.tx = TRUE /\ n.st = "payment_pending" /\ n.paid = att[a].paid /\ n.final = att[a].final
  BY <1>2, <1>3 DEF AttemptRow, LiveStates
<1>5. Stays(a, n)
  BY <1>2, <1>4 DEF Stays, AttemptFollows, IsLive, LiveStates
<1>6. att' = [att EXCEPT ![a] = n]
  BY <1>1, <1>3 DEF SalesInv, SaleTyped
<1> HIDE DEF a
<1> QED BY <1>1, <1>2, <1>5, <1>6, AttemptStep

LEMMA ClassifyStep ==
  ASSUME SalesAssumption, SalesInv, NEW h \in Handlers, classifyFinal(h)
  PROVE  SalesInv'
<1> DEFINE a == call[h].att
<1>1. /\ At(h, "settle") /\ Holds(h) /\ UNCHANGED <<owner, lock, offer>> /\ att[a].paid = "in"
      /\ att' = [att EXCEPT ![a].final = TRUE] /\ call' = Go(h, "complete")
  BY DEF classifyFinal
<1>2. /\ a \in Attempts /\ att[a] # None /\ att[a] \in AttemptRow /\ AttemptFollows(a)
      /\ att[a].st \in LiveStates /\ call[h] # None /\ CallFollows(call[h]) /\ call[h].at = "settle"
  BY <1>1, HolderSees DEF At
<1>3. PICK n : n = [att[a] EXCEPT !.final = TRUE]
  OBVIOUS
<1>4. /\ n \in AttemptRow /\ n.offer = att[a].offer /\ n.buyer = att[a].buyer /\ n.rid = att[a].rid
      /\ n.tx = att[a].tx /\ n.st = att[a].st /\ n.paid = att[a].paid
  BY <1>2, <1>3 DEF AttemptRow
<1>5. Stays(a, n)
  BY <1>1, <1>2, <1>4 DEF Stays, AttemptFollows, IsLive
<1>6. att' = [att EXCEPT ![a] = n]
  BY <1>1, <1>3 DEF SalesInv, SaleTyped
<1>7. PICK c \in CallRow : /\ Go(h, "complete") = [call EXCEPT ![h] = c]
                           /\ c.at = "complete" /\ c.offer = call[h].offer /\ c.rid = call[h].rid
                           /\ c.buyer = call[h].buyer /\ c.att = call[h].att
  BY <1>2, GoMoves
<1>8. CallFollows(c)
  BY <1>2, <1>7 DEF CallFollows
<1> HIDE DEF a
<1> QED BY <1>1, <1>2, <1>5, <1>6, <1>7, <1>8, AttemptStep

LEMMA DeadlineStep ==
  ASSUME SalesAssumption, SalesInv, NEW a \in Attempts, deadlinePasses(a)
  PROVE  SalesInv'
<1>1. att[a] # None /\ att[a] \in AttemptRow /\ AttemptFollows(a)
  BY DEF deadlinePasses, IsLive, SalesInv, SaleTyped, RowsInv
<1>2. PICK n : n = [att[a] EXCEPT !.due = TRUE]
  OBVIOUS
<1>3. /\ n \in AttemptRow /\ n.offer = att[a].offer /\ n.buyer = att[a].buyer /\ n.rid = att[a].rid
      /\ n.tx = att[a].tx /\ n.st = att[a].st /\ n.paid = att[a].paid /\ n.final = att[a].final
  BY <1>1, <1>2 DEF AttemptRow
<1>4. Stays(a, n)
  BY <1>1, <1>3 DEF Stays, AttemptFollows, IsLive
<1>5. att' = [att EXCEPT ![a] = n]
  BY <1>2 DEF deadlinePasses, SalesInv, SaleTyped
<1> QED BY <1>1, <1>4, <1>5, AttemptStep DEF deadlinePasses

LEMMA LateStep ==
  ASSUME SalesAssumption, SalesInv, NEW a \in Attempts, lateFinality(a)
  PROVE  SalesInv'
<1>1. att[a] # None /\ att[a] \in AttemptRow /\ AttemptFollows(a) /\ att[a].st = "expired"
  BY DEF lateFinality, SalesInv, SaleTyped, RowsInv
<1>2. PICK n : n = [att[a] EXCEPT !.st = "founder_review", !.tx = TRUE, !.final = TRUE]
  OBVIOUS
<1>3. /\ n \in AttemptRow /\ n.offer = att[a].offer /\ n.buyer = att[a].buyer /\ n.rid = att[a].rid
      /\ n.tx = TRUE /\ n.st = "founder_review" /\ n.paid = att[a].paid
  BY <1>1, <1>2 DEF AttemptRow, Final
<1>4. Stays(a, n)
  BY <1>1, <1>3 DEF Stays, LiveStates
<1>5. att' = [att EXCEPT ![a] = n]
  BY <1>2 DEF lateFinality, SalesInv, SaleTyped
<1> QED BY <1>1, <1>4, <1>5, AttemptStep DEF lateFinality

LEMMA DueStep ==
  ASSUME SalesAssumption, SalesInv, NEW h \in Handlers, NEW a \in Attempts, acquireDue(h, a)
  PROVE  SalesInv'
<1>1. att[a] # None
  BY DEF acquireDue, IsLive
<1>2. PICK n : n = [att[a] EXCEPT !.lease = h]
  OBVIOUS
<1>3. Stays(a, n) /\ att' = [att EXCEPT ![a] = n]
  BY <1>1, <1>2, LeaseRow DEF acquireDue
<1>4. PICK c : c = [at |-> "expire", offer |-> att[a].offer, rid |-> att[a].rid,
                    buyer |-> att[a].buyer, att |-> a, next |-> None]
  OBVIOUS
<1>5. c \in CallRow /\ CallFollows(c) /\ c.at = "expire"
  BY <1>1, <1>4, ResumeRow
<1>6. call' = [call EXCEPT ![h] = c] /\ UNCHANGED <<owner, lock, offer>>
  BY <1>4 DEF acquireDue
<1> QED BY <1>1, <1>3, <1>5, <1>6, AttemptStep

\* A new attempt, or the live one of the offer.
LEMMA CreateStep ==
  ASSUME SalesAssumption, SalesInv, NEW h \in Handlers, createAttempt(h)
  PROVE  SalesInv'
<1> DEFINE o == call[h].offer
<1>1. call[h] # None /\ call[h].at = "create" /\ UNCHANGED <<owner, lock, offer>>
  BY DEF createAttempt, At
<1>2. call[h] \in CallRow /\ CallFollows(call[h])
  BY <1>1, Begun
<1>3. o \in Offers /\ call[h].rid \in 1 .. MaxReserve /\ call[h].buyer \in Residents
      /\ Reserved(o, call[h].rid, call[h].buyer)
  BY <1>2 DEF CallRow, CallFollows
<1>4. CASE UNCHANGED att /\ call' = Idle(h)
  BY <1>1, <1>4, OnlyCall DEF Idle
<1>5. ASSUME NEW a \in Attempts, att'[a] # None, att'[a].offer = o,
             call' = [call EXCEPT ![h].at = "lease", ![h].att = a]
      PROVE  \E n \in CallRow : /\ call' = [call EXCEPT ![h] = n]
                                /\ CallFollows(n)' /\ n.at = "lease"
  <2>1. PICK n : n = [call[h] EXCEPT !.at = "lease", !.att = a]
    OBVIOUS
  <2>2. /\ n \in CallRow /\ n.at = "lease" /\ n.offer = o /\ n.rid = call[h].rid
        /\ n.buyer = call[h].buyer /\ n.att = a
    BY <1>2, <2>1 DEF CallRow
  <2>3. call' = [call EXCEPT ![h] = n]
    BY <1>5, <2>1 DEF SalesInv, SaleTyped
  <2>4. CallFollows(n)'
    BY <1>1, <1>3, <1>5, <2>2 DEF CallFollows, Reserved
  <2> QED BY <2>2, <2>3, <2>4
<1>6. ASSUME NEW a \in Live(o), UNCHANGED att, call' = [call EXCEPT ![h].at = "lease", ![h].att = a]
      PROVE  SalesInv'
  <2>1. a \in Attempts /\ att'[a] # None /\ att'[a].offer = o
    BY <1>6 DEF Live, IsLive
  <2>2. PICK n \in CallRow : call' = [call EXCEPT ![h] = n] /\ CallFollows(n)' /\ n.at = "lease"
    BY <1>5, <1>6, <2>1
  <2>3. CallFollows(n)
    BY <1>1, <1>6, <2>2 DEF CallFollows, Reserved
  <2> QED BY <1>1, <1>6, <2>2, <2>3, OnlyCall
<1>7. ASSUME Live(o) = {}, NEW a \in Attempts, att[a] = None,
             att' = [att EXCEPT ![a] = [offer |-> o, buyer |-> call[h].buyer,
               rid |-> call[h].rid, st |-> "settling", paid |-> "no", tx |-> FALSE,
               final |-> FALSE, due |-> FALSE, lease |-> None]],
             call' = [call EXCEPT ![h].at = "lease", ![h].att = a]
      PROVE  SalesInv'
  <2>1. PICK r : r = [offer |-> o, buyer |-> call[h].buyer, rid |-> call[h].rid,
                      st |-> "settling", paid |-> "no", tx |-> FALSE,
                      final |-> FALSE, due |-> FALSE, lease |-> None]
    OBVIOUS
  <2>2. /\ r \in AttemptRow /\ r.offer = o /\ r.buyer = call[h].buyer /\ r.rid = call[h].rid
        /\ r.st = "settling" /\ r.paid = "no" /\ r.final = FALSE
    BY <1>3, <2>1 DEF AttemptRow, LiveStates
  <2>3. /\ att' \in [Attempts -> AttemptRow \cup {None}] /\ r # None
        /\ \A b \in Attempts : att'[b] = IF b = a THEN r ELSE att[b]
    BY <1>7, <2>1, <2>2 DEF SalesAssumption, SalesInv, SaleTyped
  <2>4. \A b \in Attempts : att[b] # None => att'[b] = att[b] /\ b # a
    BY <1>7, <2>3
  <2>5. OpenLocks'
    BY <1>1 DEF SalesInv, RowsInv, OpenLocks, Locked
  <2>6. ASSUME NEW x \in Offers, offer'[x] # None PROVE EvidenceFollows(x)'
    <3>1. EvidenceFollows(x) /\ offer[x] \in OfferRow /\ offer' = offer
      BY <1>1, <2>6 DEF SalesInv, SaleTyped, RowsInv
    <3>2. offer[x].by # 0 => offer[x].by \in Attempts /\ att'[offer[x].by] = att[offer[x].by]
      BY <2>4, <3>1 DEF EvidenceFollows, OfferRow
    <3> QED BY <3>1, <3>2 DEF EvidenceFollows, IsLive
  <2>7. ASSUME NEW b \in Attempts, att'[b] # None PROVE AttemptFollows(b)'
    <3>1. CASE b = a
      BY <1>1, <1>3, <2>2, <2>3, <3>1 DEF AttemptFollows, Reserved, IsLive, Final
    <3>2. CASE b # a
      <4>1. att'[b] = att[b] /\ AttemptFollows(b)
        BY <2>3, <2>7, <3>2 DEF SalesInv, RowsInv
      <4> QED BY <1>1, <4>1 DEF AttemptFollows, Reserved, IsLive
    <3> QED BY <3>1, <3>2
  <2>8. OneEach'
    <3>1. ASSUME NEW b \in Attempts, b # a, att[b] # None, att[b].offer = o PROVE ~IsLive(b)
      BY <1>7, <3>1 DEF Live
    <3> QED BY <2>2, <2>3, <3>1 DEF SalesInv, RowsInv, OneEach, IsLive
  <2>9. ClaimedIsPaid'
    BY <1>1, <2>4 DEF SalesInv, RowsInv, ClaimedIsPaid
  <2>10. ASSUME NEW c \in CallRow, CallFollows(c) PROVE CallFollows(c)'
    BY <1>1, <2>4, <2>10 DEF CallFollows, Reserved
  <2>11. PICK n \in CallRow : call' = [call EXCEPT ![h] = n] /\ CallFollows(n)' /\ n.at = "lease"
    BY <1>5, <1>7, <2>2, <2>3
  <2>12. CallsInv' /\ call' \in [Handlers -> CallRow \cup {None}]
    BY <2>10, <2>11, CallMoves
  <2> QED BY <1>1, <2>3, <2>5, <2>6, <2>7, <2>8, <2>9, <2>12 DEF SalesInv, SaleTyped, RowsInv
<1> QED BY <1>1, <1>4, <1>6, <1>7 DEF createAttempt

-----------------------------------------------------------------------------
(* Steps of an offer                                                       *)

\* An offer that is open is the one that locks the thing.
LEMMA OneOpen ==
  ASSUME SalesInv, NEW o \in Offers, NEW x \in Offers, IsOpen(o), IsOpen(x)
  PROVE  x = o
  BY DEF SalesInv, RowsInv, OpenLocks, IsOpen, Locked

LEMMA OfferStep ==
  ASSUME SalesAssumption, SalesInv, NEW o \in Offers, NEW ch \in Channels,
         NEW to \in Residents \cup {None}, createOffer(o, ch, to)
  PROVE  SalesInv'
<1>1. PICK m : m = [ch |-> ch, seller |-> owner, buyer |-> to, st |-> "open",
                    rid |-> 0, active |-> FALSE, evid |-> "none", by |-> 0]
  OBVIOUS
<1>2. /\ m \in OfferRow /\ m.buyer # m.seller /\ m.seller = owner /\ m.st = "open" /\ m.rid = 0
      /\ m.evid = "none" /\ m.by = 0
  BY <1>1 DEF createOffer, OfferRow, SalesInv, SaleTyped, SalesAssumption
<1>3. /\ offer' \in [Offers -> OfferRow \cup {None}] /\ m # None /\ offer[o] = None
      /\ \A x \in Offers : offer'[x] = IF x = o THEN m ELSE offer[x]
      /\ lock' = o /\ UNCHANGED <<owner, att, call>>
  BY <1>1, <1>2 DEF createOffer, SalesInv, SaleTyped, SalesAssumption
<1>4. \A x \in Offers : offer[x] # None => offer'[x] = offer[x] /\ x # o
  BY <1>3
<1>5. \A x \in Offers : ~IsOpen(x)
  BY DEF createOffer
<1>6. OpenLocks'
  BY <1>2, <1>3, <1>5 DEF OpenLocks, Locked, IsOpen, SalesInv, RowsInv
<1>7. ASSUME NEW x \in Offers, offer'[x] # None PROVE EvidenceFollows(x)'
  <2>1. CASE x = o
    BY <1>2, <1>3, <2>1 DEF EvidenceFollows
  <2>2. CASE x # o
    BY <1>3, <1>7, <2>2 DEF EvidenceFollows, IsLive, SalesInv, RowsInv
  <2> QED BY <2>1, <2>2
<1>8. ASSUME NEW a \in Attempts, att'[a] # None PROVE AttemptFollows(a)'
  <2>1. att[a] # None /\ att'[a] = att[a] /\ AttemptFollows(a) /\ att[a].offer \in Offers
    BY <1>3, <1>8 DEF SalesInv, SaleTyped, RowsInv, AttemptRow
  <2>2. offer'[att[a].offer] = offer[att[a].offer] /\ offer[att[a].offer] # None
    BY <1>4, <2>1 DEF AttemptFollows, Reserved
  <2> QED BY <2>1, <2>2 DEF AttemptFollows, Reserved, IsLive
<1>9. OneEach'
  BY <1>3 DEF SalesInv, RowsInv, OneEach, IsLive
<1>10. ClaimedIsPaid'
  BY <1>2, <1>3 DEF SalesInv, RowsInv, ClaimedIsPaid
<1>11. CallsInv'
  <2>1. ASSUME NEW h \in Handlers, call'[h] # None PROVE CallFollows(call[h])'
    <3>1. call'[h] = call[h] /\ call[h] \in CallRow /\ CallFollows(call[h])
      BY <1>3, <2>1 DEF SalesInv, SaleTyped, CallsInv
    <3>2. offer'[call[h].offer] = offer[call[h].offer]
      BY <1>4, <3>1 DEF CallFollows, Reserved, CallRow
    <3> QED BY <1>3, <3>1, <3>2 DEF CallFollows, Reserved
  <2> QED BY <1>3, <2>1 DEF SalesInv, CallsInv, OneParks, At
<1> QED BY <1>3, <1>6, <1>7, <1>8, <1>9, <1>10, <1>11 DEF SalesInv, SaleTyped, RowsInv

LEMMA GiveStep ==
  ASSUME SalesInv, NEW to \in Residents, giveProperty(to)
  PROVE  SalesInv'
<1>1. owner' \in Residents /\ UNCHANGED <<lock, offer, att, call>> /\ \A x \in Offers : ~IsOpen(x)
  BY DEF giveProperty
<1>2. OpenLocks'
  BY <1>1 DEF SalesInv, RowsInv, OpenLocks, Locked, IsOpen
<1>3. RowsInv'
  BY <1>1, <1>2 DEF SalesInv, RowsInv, EvidenceFollows, AttemptFollows, Reserved, IsLive, OneEach,
         ClaimedIsPaid
<1>4. CallsInv'
  BY <1>1 DEF SalesInv, CallsInv, CallFollows, Reserved, OneParks, At
<1> QED BY <1>1, <1>3, <1>4 DEF SalesInv, SaleTyped

\* What changes in an offer while no attempt and no handler changes.
Reserves(o, m) ==
  /\ m \in OfferRow
  /\ m.ch = offer[o].ch /\ m.seller = offer[o].seller /\ m.buyer # m.seller
  /\ m.evid = offer[o].evid /\ m.by = offer[o].by
  /\ offer[o].rid <= m.rid
  /\ m.rid = offer[o].rid \/ m.ch = "direct" => m.buyer = offer[o].buyer
  /\ m.st = offer[o].st \/ m.st = "canceled"
  /\ m.st # offer[o].st \/ m.rid # offer[o].rid =>
       Live(o) = {} /\ RowFree(o) /\ offer[o].st = "open" /\ offer[o].evid # "pending"

LEMMA OfferMoves ==
  ASSUME SalesAssumption, SalesInv, NEW o \in Offers, offer[o] # None, NEW m, Reserves(o, m),
         offer' = [offer EXCEPT ![o] = m], UNCHANGED <<owner, att, call>>,
         \/ lock' = lock /\ m.st = offer[o].st
         \/ lock' = None /\ m.st = "canceled" /\ offer[o].st = "open"
  PROVE  SalesInv'
<1>1. /\ offer' \in [Offers -> OfferRow \cup {None}] /\ m # None
      /\ \A x \in Offers : offer'[x] = IF x = o THEN m ELSE offer[x]
  BY DEF Reserves, SalesAssumption, SalesInv, SaleTyped
<1>2. lock' \in Offers \cup {None}
  BY DEF SalesInv, SaleTyped
<1>3. OpenLocks'
  <2>1. CASE lock' = lock /\ m.st = offer[o].st
    BY <1>1, <2>1 DEF SalesInv, RowsInv, OpenLocks, Locked, Reserves
  <2>2. CASE lock' = None /\ m.st = "canceled" /\ offer[o].st = "open"
    <3>1. \A x \in Offers : offer[x] # None /\ offer[x].st = "open" => x = o
      BY <2>2 DEF SalesInv, RowsInv, OpenLocks, Locked
    <3> QED BY <1>1, <2>2, <3>1 DEF SalesInv, RowsInv, OpenLocks, SalesAssumption, Reserves
  <2> QED BY <2>1, <2>2
<1>4. ASSUME NEW x \in Offers, offer'[x] # None PROVE EvidenceFollows(x)'
  <2>1. EvidenceFollows(x)
    BY <1>1, <1>4 DEF SalesInv, RowsInv
  <2>2. CASE x # o
    BY <1>1, <2>1, <2>2 DEF EvidenceFollows, IsLive
  <2>3. CASE x = o
    <3>1. offer[o].evid = "pending" => m.st = offer[o].st /\ m.rid = offer[o].rid
      BY DEF Reserves
    <3>2. offer'[x] = m
      BY <1>1, <2>3
    <3> QED BY <2>1, <2>3, <3>1, <3>2 DEF EvidenceFollows, IsLive, Reserves
  <2> QED BY <2>2, <2>3
<1>5. \A x \in Offers, r \in Nat : \A b : Reserved(x, r, b) => Reserved(x, r, b)'
  BY <1>1 DEF Reserved, Reserves, OfferRow, SalesInv, SaleTyped
<1>6. ASSUME NEW a \in Attempts, att'[a] # None PROVE AttemptFollows(a)'
  <2>1. /\ att[a] # None /\ att'[a] = att[a] /\ AttemptFollows(a) /\ att[a].offer \in Offers
        /\ att[a].rid \in Nat
    BY <1>6 DEF SalesInv, SaleTyped, RowsInv, AttemptRow
  <2>2. Reserved(att[a].offer, att[a].rid, att[a].buyer)'
    BY <1>5, <2>1 DEF AttemptFollows, Reserved
  <2>3. CASE att[a].offer # o
    <3>1. offer'[att[a].offer] = offer[att[a].offer]
      BY <1>1, <2>1, <2>3
    <3> QED BY <2>1, <2>2, <3>1 DEF AttemptFollows, IsLive
  <2>4. CASE att[a].offer = o
    <3>1. offer'[o] = m
      BY <1>1
    <3>2. IsLive(a) \/ att[a].st = "completed" => m.st = offer[o].st /\ m.rid = offer[o].rid
      BY <2>1, <2>4 DEF Reserves, Live, AttemptFollows
    <3>3. m.st = "open" => offer[o].st = "open"
      BY DEF Reserves
    <3>4. m.ch = offer[o].ch /\ m.by = offer[o].by
      BY DEF Reserves
    <3> QED BY <2>1, <2>2, <2>4, <3>1, <3>2, <3>3, <3>4 DEF AttemptFollows, IsLive
  <2> QED BY <2>3, <2>4
<1>7. OneEach'
  BY DEF SalesInv, RowsInv, OneEach, IsLive
<1>8. ClaimedIsPaid'
  BY <1>1 DEF SalesInv, RowsInv, ClaimedIsPaid, Reserves
<1>9. CallsInv'
  <2>1. ASSUME NEW h \in Handlers, call'[h] # None PROVE CallFollows(call[h])'
    <3>1. /\ call'[h] = call[h] /\ call[h] \in CallRow /\ CallFollows(call[h])
          /\ call[h].offer \in Offers /\ call[h].rid \in Nat
      BY <2>1 DEF SalesInv, SaleTyped, CallsInv, CallRow
    <3>2. PICK c \in CallRow : c = call[h] /\ c = call'[h]
      BY <3>1
    <3>3. CallFollows(c) /\ c.offer \in Offers /\ c.rid \in Nat
      BY <3>1, <3>2
    <3>4. Reserved(c.offer, c.rid, c.buyer)'
      BY <1>5, <3>3 DEF CallFollows
    <3>5. CallFollows(c)'
      <4>1. CASE c.at = "parkWrite" /\ c.offer = o
        <5>1. ~RowFree(o)
          BY <2>1, <3>1, <3>2, <4>1 DEF RowFree
        <5>2. m.st = offer[o].st /\ m.rid = offer[o].rid /\ offer'[o] = m
          BY <1>1, <5>1 DEF Reserves
        <5> QED BY <3>3, <3>4, <4>1, <5>2 DEF CallFollows, Reserves
      <4>2. CASE ~(c.at = "parkWrite" /\ c.offer = o)
        BY <1>1, <3>3, <3>4, <4>2 DEF CallFollows
      <4> QED BY <4>1, <4>2
    <3> QED BY <3>2, <3>5 DEF CallFollows, Reserved
  <2> QED BY <2>1 DEF SalesInv, CallsInv, OneParks, At
<1> QED BY <1>1, <1>2, <1>3, <1>4, <1>6, <1>7, <1>8, <1>9 DEF SalesInv, SaleTyped, RowsInv

LEMMA ReserveStep ==
  ASSUME SalesAssumption, SalesInv, NEW b \in Residents, NEW o \in Offers, reserve(b, o)
  PROVE  SalesInv'
<1>1. /\ offer[o] # None /\ offer[o].st = "open" /\ RowFree(o) /\ MayBuy(b, o)
      /\ offer[o].evid = "none" /\ Live(o) = {} /\ offer[o].rid < MaxReserve
      /\ offer' = [offer EXCEPT ![o].buyer = b, ![o].rid = @ + 1, ![o].active = TRUE]
      /\ UNCHANGED <<owner, lock, att, call>>
  BY DEF reserve, IsOpen
<1>2. offer[o] \in OfferRow
  BY <1>1 DEF SalesInv, SaleTyped
<1>3. PICK m : m = [offer[o] EXCEPT !.buyer = b, !.rid = offer[o].rid + 1, !.active = TRUE]
  OBVIOUS
<1>4. /\ m.buyer = b /\ m.rid = offer[o].rid + 1 /\ m.ch = offer[o].ch /\ m.st = offer[o].st
      /\ m.seller = offer[o].seller /\ m.evid = offer[o].evid /\ m.by = offer[o].by
  BY <1>2, <1>3 DEF OfferRow
<1>5. m \in OfferRow
  <2>1. offer[o].rid + 1 \in 0 .. MaxReserve
    BY <1>1, <1>2 DEF OfferRow, SalesAssumption
  <2> QED BY <1>2, <1>3, <2>1 DEF OfferRow
<1>6. offer' = [offer EXCEPT ![o] = m]
  BY <1>1, <1>3 DEF SalesInv, SaleTyped
<1>7. Reserves(o, m)
  <2>1. m.ch = "direct" => b = offer[o].buyer
    BY <1>1, <1>4 DEF MayBuy
  <2>2. offer[o].rid <= m.rid /\ m.rid # offer[o].rid
    BY <1>2, <1>4 DEF OfferRow
  <2> QED BY <1>1, <1>4, <1>5, <2>1, <2>2 DEF Reserves, MayBuy
<1> QED BY <1>1, <1>4, <1>6, <1>7, OfferMoves

LEMMA EndsStep ==
  ASSUME SalesAssumption, SalesInv, NEW o \in Offers, reservationEnds(o)
  PROVE  SalesInv'
<1>1. offer[o] # None /\ offer[o] \in OfferRow /\ offer[o].buyer # offer[o].seller
  BY DEF reservationEnds, SalesInv, SaleTyped, RowsInv, OpenLocks
<1>2. PICK m : m = [offer[o] EXCEPT !.active = FALSE]
  OBVIOUS
<1>3. /\ m \in OfferRow /\ m.buyer = offer[o].buyer /\ m.rid = offer[o].rid /\ m.ch = offer[o].ch
      /\ m.st = offer[o].st /\ m.seller = offer[o].seller /\ m.evid = offer[o].evid
      /\ m.by = offer[o].by /\ m.rid \in Nat
  <2>1. m \in OfferRow
    BY <1>1, <1>2, ZenonT(60) DEF OfferRow
  <2> QED BY <1>1, <1>2, <2>1 DEF OfferRow
<1>4. offer' = [offer EXCEPT ![o] = m]
  BY <1>2 DEF reservationEnds, SalesInv, SaleTyped
<1>5. Reserves(o, m)
  BY <1>1, <1>3 DEF Reserves
<1> QED BY <1>1, <1>3, <1>4, <1>5, OfferMoves DEF reservationEnds

LEMMA CancelStep ==
  ASSUME SalesAssumption, SalesInv, NEW o \in Offers, cancel(o)
  PROVE  SalesInv'
<1>1. /\ offer[o] # None /\ offer[o] \in OfferRow /\ offer[o].buyer # offer[o].seller
      /\ offer[o].st = "open"
  BY DEF cancel, IsOpen, SalesInv, SaleTyped, RowsInv, OpenLocks
<1>2. PICK m : m = [offer[o] EXCEPT !.st = "canceled"]
  OBVIOUS
<1>3. /\ m \in OfferRow /\ m.buyer = offer[o].buyer /\ m.rid = offer[o].rid /\ m.ch = offer[o].ch
      /\ m.st = "canceled" /\ m.seller = offer[o].seller /\ m.evid = offer[o].evid
      /\ m.by = offer[o].by /\ m.rid \in Nat
  BY <1>1, <1>2 DEF OfferRow
<1>4. offer' = [offer EXCEPT ![o] = m]
  BY <1>2 DEF cancel, SalesInv, SaleTyped
<1>5. Reserves(o, m)
  BY <1>1, <1>3 DEF Reserves, cancel, Cancelable
<1> QED BY <1>1, <1>3, <1>4, <1>5, OfferMoves DEF cancel

-----------------------------------------------------------------------------
(* Steps that a handler takes with its offer and its attempt               *)

\* What another handler stands at.
Others(h) == {call[g] : g \in Handlers \ {h}} \ {None}

\* A handler moves or ends, and what the others have checked stays true.
LEMMA OthersStay ==
  ASSUME SalesInv, NEW h \in Handlers, NEW n \in CallRow \cup {None},
         call' = [call EXCEPT ![h] = n],
         n # None => CallFollows(n)' /\ n.at # "parkWrite",
         \A c \in Others(h) : c \in CallRow /\ CallFollows(c) => CallFollows(c)'
  PROVE  CallsInv' /\ call' \in [Handlers -> CallRow \cup {None}]
<1>1. /\ call' \in [Handlers -> CallRow \cup {None}]
      /\ \A g \in Handlers : call'[g] = IF g = h THEN n ELSE call[g]
  BY DEF SalesInv, SaleTyped
<1>2. ASSUME NEW g \in Handlers, call'[g] # None PROVE CallFollows(call[g])'
  <2>1. CASE g = h
    BY <1>1, <1>2, <2>1 DEF CallFollows, Reserved
  <2>2. CASE g # h
    <3>1. call[g] \in CallRow /\ CallFollows(call[g]) /\ call'[g] = call[g]
      BY <1>1, <1>2, <2>2 DEF SalesInv, SaleTyped, CallsInv
    <3>2. PICK c \in CallRow : c = call[g] /\ c = call'[g]
      BY <3>1
    <3>3. CallFollows(c)'
      BY <1>2, <2>2, <3>1, <3>2 DEF Others
    <3> QED BY <3>2, <3>3 DEF CallFollows, Reserved
  <2> QED BY <2>1, <2>2
<1>3. OneParks'
  <2> SUFFICES ASSUME NEW g \in Handlers, NEW k \in Handlers,
                      At(g, "parkWrite")', At(k, "parkWrite")', call'[g].offer = call'[k].offer
               PROVE  g = k
    BY DEF OneParks
  <2>1. g # h /\ k # h
    BY <1>1 DEF At
  <2> QED BY <1>1, <2>1 DEF At, SalesInv, CallsInv, OneParks
<1> QED BY <1>1, <1>2, <1>3 DEF CallsInv

\* The parking commits.
LEMMA ParkWriteStep ==
  ASSUME SalesAssumption, SalesInv, NEW h \in Handlers, parkWrite(h)
  PROVE  SalesInv'
<1>1. call[h] # None /\ call[h].at = "parkWrite" /\ UNCHANGED <<owner, lock, att>>
  BY DEF parkWrite, At
<1>2. PICK k \in CallRow : k = call[h]
  BY <1>1, Begun
<1> DEFINE a == k.att
           o == k.offer
<1>0. /\ CallFollows(k) /\ a \in Attempts /\ att[a] # None
      /\ att[a].offer = o /\ o \in Offers /\ k.rid \in Nat /\ k.at = "parkWrite"
  BY <1>1, <1>2, Begun DEF CallRow
<1>3. /\ offer[o] # None /\ offer[o] \in OfferRow /\ offer[o].ch = "world" /\ offer[o].st = "open"
      /\ offer[o].evid = "none" /\ offer[o].rid = att[a].rid /\ att[a].tx
      /\ att[a].st \in LiveStates \cup {"invalid"}
  BY <1>0 DEF CallFollows, Reserved, SalesInv, SaleTyped
<1>4. PICK m : m = [offer[o] EXCEPT !.evid = "pending", !.by = a]
  OBVIOUS
<1>5. /\ m \in OfferRow /\ m.ch = "world" /\ m.st = "open" /\ m.seller = offer[o].seller
      /\ m.buyer = offer[o].buyer /\ m.rid = offer[o].rid /\ m.evid = "pending" /\ m.by = a
  BY <1>0, <1>3, <1>4 DEF OfferRow
<1>6. offer' = [offer EXCEPT ![o] = m]
  BY <1>2, <1>4 DEF parkWrite, SalesInv, SaleTyped
<1>7. /\ offer' \in [Offers -> OfferRow \cup {None}] /\ m # None
      /\ \A x \in Offers : offer'[x] = IF x = o THEN m ELSE offer[x]
  BY <1>0, <1>5, <1>6 DEF SalesAssumption, SalesInv, SaleTyped
<1>8. PICK n \in CallRow \cup {None} :
         /\ call' = [call EXCEPT ![h] = n]
         /\ n # None => /\ n.at = "completeWrite" /\ n.offer = o /\ n.att = a
                        /\ n.rid = k.rid /\ n.buyer = k.buyer
  <2>1. call' = Idle(h) \/ call' = Go(h, "completeWrite")
    BY DEF parkWrite
  <2>2. /\ Idle(h) = [call EXCEPT ![h] = None]
        /\ \E n \in CallRow : /\ Go(h, "completeWrite") = [call EXCEPT ![h] = n]
                              /\ n.at = "completeWrite" /\ n.offer = o /\ n.att = a
                              /\ n.rid = k.rid /\ n.buyer = k.buyer
    BY <1>1, <1>2, GoMoves
  <2> QED BY <2>1, <2>2
<1> HIDE DEF a, o
<1>9. OpenLocks'
  BY <1>1, <1>3, <1>5, <1>7 DEF SalesInv, RowsInv, OpenLocks, Locked
<1>10. ASSUME NEW x \in Offers, offer'[x] # None PROVE EvidenceFollows(x)'
  <2>1. CASE x = o
    <3>1. a # 0
      BY <1>0 DEF Attempts
    <3> QED BY <1>0, <1>1, <1>3, <1>5, <1>7, <2>1, <3>1 DEF EvidenceFollows
  <2>2. CASE x # o
    BY <1>1, <1>7, <1>10, <2>2 DEF EvidenceFollows, IsLive, SalesInv, RowsInv
  <2> QED BY <2>1, <2>2
<1>11. \A x \in Offers, r \in Nat : \A b : Reserved(x, r, b) => Reserved(x, r, b)'
  BY <1>3, <1>5, <1>7 DEF Reserved
<1>12. ASSUME NEW b \in Attempts, att'[b] # None PROVE AttemptFollows(b)'
  <2>1. /\ att[b] # None /\ att'[b] = att[b] /\ AttemptFollows(b) /\ att[b].offer \in Offers
        /\ att[b].rid \in Nat
    BY <1>1, <1>12 DEF SalesInv, SaleTyped, RowsInv, AttemptRow
  <2>2. Reserved(att[b].offer, att[b].rid, att[b].buyer)'
    BY <1>11, <2>1 DEF AttemptFollows, Reserved
  <2>3. CASE att[b].offer # o
    <3>1. offer'[att[b].offer] = offer[att[b].offer]
      BY <1>7, <2>1, <2>3
    <3> QED BY <2>1, <2>2, <3>1 DEF AttemptFollows, IsLive
  <2>4. CASE att[b].offer = o
    BY <1>3, <1>5, <1>7, <2>1, <2>2, <2>4 DEF AttemptFollows, IsLive
  <2> QED BY <2>3, <2>4
<1>13. OneEach'
  BY <1>1 DEF SalesInv, RowsInv, OneEach, IsLive
<1>14. ClaimedIsPaid'
  BY <1>1, <1>5, <1>7 DEF SalesInv, RowsInv, ClaimedIsPaid
<1>15. ASSUME NEW c \in Others(h), c \in CallRow, CallFollows(c) PROVE CallFollows(c)'
  <2>1. PICK g \in Handlers : g # h /\ call[g] = c /\ c # None
    BY DEF Others
  <2>2. ~(c.at = "parkWrite" /\ c.offer = o)
    BY <1>1, <1>2, <2>1 DEF SalesInv, CallsInv, OneParks, At, o
  <2>3. Reserved(c.offer, c.rid, c.buyer)'
    BY <1>11, <1>15 DEF CallFollows, CallRow
  <2> QED BY <1>1, <1>7, <1>15, <2>2, <2>3 DEF CallFollows, CallRow
<1>16. CallsInv' /\ call' \in [Handlers -> CallRow \cup {None}]
  <2>1. n # None => CallFollows(n)' /\ n.at # "parkWrite"
    <3>1. Reserved(o, k.rid, k.buyer)'
      BY <1>0, <1>11 DEF CallFollows, o
    <3> QED BY <1>0, <1>1, <1>8, <3>1 DEF CallFollows
  <2>2. \A c \in Others(h) : c \in CallRow /\ CallFollows(c) => CallFollows(c)'
    BY <1>15
  <2> QED BY <1>8, <2>1, <2>2, OthersStay
<1> QED BY <1>1, <1>7, <1>9, <1>10, <1>12, <1>13, <1>14, <1>16 DEF SalesInv, SaleTyped, RowsInv

\* An attempt is closed, or is found closed.
Closes(a, n) ==
  /\ n \in AttemptRow /\ n.offer = att[a].offer /\ n.buyer = att[a].buyer /\ n.rid = att[a].rid
  /\ n.paid = att[a].paid /\ n.tx = att[a].tx /\ n.st \in Final
  /\ att[a].st \in LiveStates \/ n = att[a]

\* Its offer shows it.
Shows(a, n) ==
  LET o == att[a].offer IN
  /\ offer[o].ch = "world" /\ offer[o].st = "open" /\ offer[o].by \in {0, a}
  /\ offer[o].evid \in {"none", "pending"}
  /\ offer' = [offer EXCEPT ![o].evid = n.st, ![o].by = a] /\ lock' = lock
  /\ RowFree(o) \/ offer[o].evid # "none"

\* Or is released, or left.
Lets(a, n) ==
  LET o == att[a].offer IN
  /\ Release(o, att[a].buyer)
  /\ n = att[a] \/ ~(offer[o].evid = "pending" /\ offer[o].by = a)

\* What a closing leaves of the rows, whatever becomes of the offer.
LEMMA ClosedRows ==
  ASSUME SalesAssumption, SalesInv, NEW a \in Attempts, att[a] # None, NEW n, Closes(a, n),
         att' = [att EXCEPT ![a] = n]
  PROVE  /\ att' \in [Attempts -> AttemptRow \cup {None}] /\ n # None /\ att[a] \in AttemptRow
         /\ \A b \in Attempts : att'[b] = IF b = a THEN n ELSE att[b]
         /\ \A b \in Attempts : /\ att[b] # None <=> att'[b] # None
                                /\ att[b] # None => /\ att'[b].offer = att[b].offer
                                                    /\ att'[b].rid = att[b].rid
                                                    /\ att'[b].buyer = att[b].buyer
                                                    /\ att'[b].tx = att[b].tx
                                                    /\ att[b].st = "completed" <=> att'[b].st = "completed"
                                                    /\ att[b].st = "invalid" => att'[b].st = "invalid"
                                /\ IsLive(b)' => IsLive(b) /\ b # a
         /\ OneEach'
<1>1. /\ att' \in [Attempts -> AttemptRow \cup {None}] /\ n # None /\ att[a] \in AttemptRow
      /\ \A b \in Attempts : att'[b] = IF b = a THEN n ELSE att[b]
  BY DEF Closes, SalesAssumption, SalesInv, SaleTyped
<1>2. n.st \in Final /\ (att[a].st \in LiveStates \/ n = att[a])
      /\ n.offer = att[a].offer /\ n.rid = att[a].rid /\ n.buyer = att[a].buyer /\ n.tx = att[a].tx
  BY DEF Closes
<1>3. ASSUME NEW b \in Attempts
      PROVE  /\ att[b] # None <=> att'[b] # None
             /\ att[b] # None => /\ att'[b].offer = att[b].offer
                                 /\ att'[b].rid = att[b].rid
                                 /\ att'[b].buyer = att[b].buyer
                                 /\ att'[b].tx = att[b].tx
                                 /\ att[b].st = "completed" <=> att'[b].st = "completed"
                                 /\ att[b].st = "invalid" => att'[b].st = "invalid"
             /\ IsLive(b)' => IsLive(b) /\ b # a
  <2>1. CASE b # a
    BY <1>1, <2>1 DEF IsLive
  <2>2. CASE b = a
    <3>1. att'[b] = n
      BY <1>1, <2>2
    <3>2. n.st \notin LiveStates /\ n.st # "completed"
      BY <1>2 DEF LiveStates, Final
    <3>3. att[a].st = "completed" => n = att[a]
      BY <1>2 DEF LiveStates
    <3>4. att[a].st = "invalid" => n = att[a]
      BY <1>2 DEF LiveStates
    <3> QED BY <1>1, <1>2, <2>2, <3>1, <3>2, <3>3, <3>4 DEF IsLive
  <2> QED BY <2>1, <2>2
<1>4. OneEach'
  BY <1>3 DEF SalesInv, RowsInv, OneEach
<1> QED BY <1>1, <1>3, <1>4

\* The evidence of the offers that are not the closed attempt's.
LEMMA OtherEvidence ==
  ASSUME SalesInv, NEW a \in Attempts, att[a] # None, NEW x \in Offers, x # att[a].offer,
         offer[x] # None, offer'[x] = offer[x],
         \A b \in Attempts : b # a => att'[b] = att[b]
  PROVE  EvidenceFollows(x)'
<1>1. EvidenceFollows(x) /\ offer[x] \in OfferRow
  BY DEF SalesInv, SaleTyped, RowsInv
<1>2. offer[x].by # 0 => offer[x].by \in Attempts /\ offer[x].by # a
  BY <1>1 DEF EvidenceFollows, OfferRow
<1> QED BY <1>1, <1>2 DEF EvidenceFollows, IsLive

LEMMA ShowStep ==
  ASSUME SalesAssumption, SalesInv, NEW h \in Handlers, NEW a \in Attempts, att[a] # None,
         NEW n, Closes(a, n), att' = [att EXCEPT ![a] = n], Shows(a, n),
         RowFree(att[a].offer) \/ n.st = "invalid", owner' = owner, call' = Idle(h)
  PROVE  SalesInv'
<1>0. AttemptFollows(a) /\ att[a] \in AttemptRow /\ a # 0
  BY DEF SalesInv, SaleTyped, RowsInv, Attempts
<1>1. PICK o \in Offers : o = att[a].offer
  BY <1>0 DEF AttemptRow
<1>2. /\ offer[o] # None /\ offer[o] \in OfferRow /\ offer[o].ch = "world" /\ offer[o].st = "open"
      /\ offer' = [offer EXCEPT ![o].evid = n.st, ![o].by = a] /\ lock' = lock
      /\ RowFree(o) \/ offer[o].evid # "none"
      /\ n.st \in Final
  <2>1. offer[o] # None
    BY <1>0, <1>1 DEF AttemptFollows, Reserved
  <2> QED BY <1>1, <2>1 DEF SalesInv, SaleTyped, Shows, Closes
<1>3. PICK m : m = [offer[o] EXCEPT !.evid = n.st, !.by = a]
  OBVIOUS
<1>4. /\ m \in OfferRow /\ m.ch = "world" /\ m.st = "open" /\ m.seller = offer[o].seller
      /\ m.buyer = offer[o].buyer /\ m.rid = offer[o].rid /\ m.evid = n.st /\ m.by = a
  BY <1>1, <1>2, <1>3 DEF OfferRow
<1>5. offer' = [offer EXCEPT ![o] = m]
  BY <1>2, <1>3 DEF SalesInv, SaleTyped
<1>6. /\ offer' \in [Offers -> OfferRow \cup {None}] /\ m # None
      /\ \A x \in Offers : offer'[x] = IF x = o THEN m ELSE offer[x]
  BY <1>1, <1>4, <1>5 DEF SalesAssumption, SalesInv, SaleTyped
<1>7. /\ att' \in [Attempts -> AttemptRow \cup {None}]
      /\ \A b \in Attempts : att'[b] = IF b = a THEN n ELSE att[b]
      /\ OneEach'
  BY ClosedRows
<1>8. \A b \in Attempts : /\ att[b] # None <=> att'[b] # None
                          /\ att[b] # None => /\ att'[b].offer = att[b].offer
                                              /\ att'[b].rid = att[b].rid
                                              /\ att'[b].buyer = att[b].buyer
                                              /\ att'[b].tx = att[b].tx
                                              /\ att[b].st = "completed" <=> att'[b].st = "completed"
                                              /\ att[b].st = "invalid" => att'[b].st = "invalid"
                          /\ IsLive(b)' => IsLive(b) /\ b # a
  BY ClosedRows
<1>16. \A x \in Offers : /\ offer[x] # None <=> offer'[x] # None
                         /\ offer[x] # None => /\ offer'[x].ch = offer[x].ch
                                               /\ offer'[x].st = offer[x].st
                                               /\ offer'[x].rid = offer[x].rid
                                               /\ offer'[x].buyer = offer[x].buyer
                                               /\ offer'[x].seller = offer[x].seller
  <2>1. /\ offer[o] # None /\ m # None /\ m.ch = offer[o].ch /\ m.st = offer[o].st
        /\ m.rid = offer[o].rid /\ m.buyer = offer[o].buyer /\ m.seller = offer[o].seller
    BY <1>2, <1>4, <1>6
  <2>2. \A x \in Offers : offer'[x] = IF x = o THEN m ELSE offer[x]
    BY <1>6
  <2> QED BY <2>1, <2>2
<1>9. OpenLocks'
  <2>1. \A x \in Offers : offer[x] # None => /\ offer[x].buyer # offer[x].seller
                                             /\ offer[x].st = "open" => Locked(x)
                                             /\ lock = x => offer[x].st = "open"
    BY DEF SalesInv, RowsInv, OpenLocks
  <2>2. lock' = lock /\ owner' = owner
    BY <1>2
  <2>3. ASSUME NEW x \in Offers, offer'[x] # None
        PROVE  /\ offer'[x].buyer # offer'[x].seller
               /\ offer'[x].st = "open" => owner' = offer'[x].seller /\ lock' = x
               /\ lock' = x => offer'[x].st = "open"
    BY <1>16, <2>1, <2>2, <2>3 DEF Locked
  <2> QED BY <2>3 DEF OpenLocks, Locked
<1>10. ASSUME NEW x \in Offers, offer'[x] # None PROVE EvidenceFollows(x)'
  <2>1. CASE x = o
    <3>1. m.evid # "none" /\ m.evid # "pending"
      BY <1>2, <1>4 DEF Final
    <3>2. att'[a] = n /\ att'[a] # None /\ att'[a].offer = o
      BY <1>1, <1>7, <1>8
    <3> QED BY <1>0, <1>4, <1>6, <2>1, <3>1, <3>2 DEF EvidenceFollows
  <2>2. CASE x # o
    <3>1. \A b \in Attempts : b # a => att'[b] = att[b]
      BY <1>7
    <3>2. offer'[x] = offer[x] /\ offer[x] # None
      BY <1>6, <1>10, <2>2
    <3> QED BY <1>1, <2>2, <3>1, <3>2, OtherEvidence
  <2> QED BY <2>1, <2>2
<1>11. \A x \in Offers, r \in Nat : \A b : Reserved(x, r, b) => Reserved(x, r, b)'
  BY <1>16 DEF Reserved
<1>12. ASSUME NEW b \in Attempts, att'[b] # None PROVE AttemptFollows(b)'
  <2>1. /\ att[b] # None /\ att[b] \in AttemptRow /\ AttemptFollows(b) /\ att[b].offer \in Offers
        /\ att[b].rid \in Nat /\ att'[b].offer = att[b].offer
    BY <1>8, <1>12 DEF SalesInv, SaleTyped, RowsInv, AttemptRow
  <2>2. Reserved(att[b].offer, att[b].rid, att[b].buyer)'
    <3>1. PICK x \in Offers, r \in Nat, u \in Residents : x = att[b].offer /\ r = att[b].rid /\ u = att[b].buyer
      BY <2>1 DEF AttemptRow
    <3>2. Reserved(x, r, u)'
      BY <1>11, <2>1, <3>1 DEF AttemptFollows
    <3> QED BY <1>8, <2>1, <3>1, <3>2 DEF Reserved
  <2>4. CASE b # a
    <3>1. att'[b] = att[b]
      BY <1>7, <2>4
    <3>2. CASE att[b].offer # o
      <4>1. offer'[att[b].offer] = offer[att[b].offer]
        BY <1>6, <2>1, <3>2
      <4> QED BY <2>1, <2>2, <3>1, <4>1 DEF AttemptFollows, IsLive
    <3>3. CASE att[b].offer = o
      BY <1>2, <1>4, <1>6, <2>1, <2>2, <3>1, <3>3 DEF AttemptFollows, IsLive
    <3> QED BY <3>2, <3>3
  <2>5. CASE b = a
    <3>1. att'[b].st = n.st /\ ~IsLive(b)' /\ n.st # "completed"
      BY <1>2, <1>7, <1>8, <2>5 DEF Final, IsLive, LiveStates
    <3>2. offer'[att'[b].offer] = m
      BY <1>1, <1>6, <2>1, <2>5
    <3> QED BY <1>4, <2>2, <3>1, <3>2 DEF AttemptFollows
  <2> QED BY <2>4, <2>5
<1>13. ClaimedIsPaid'
  BY <1>4, <1>6, <1>8 DEF SalesInv, RowsInv, ClaimedIsPaid
<1>14. ASSUME NEW c \in Others(h), c \in CallRow, CallFollows(c) PROVE CallFollows(c)'
  <2>1. PICK g \in Handlers : g # h /\ call[g] = c /\ c # None
    BY DEF Others
  <2>2. ~(c.at = "parkWrite" /\ c.offer = o)
    <3> SUFFICES ASSUME c.at = "parkWrite", c.offer = o PROVE FALSE
      OBVIOUS
    <3>1. offer[o].evid = "none"
      BY <1>14 DEF CallFollows
    <3>2. ~RowFree(o)
      BY <2>1 DEF RowFree
    <3> QED BY <1>2, <3>1, <3>2
  <2>3. Reserved(c.offer, c.rid, c.buyer)'
    BY <1>11, <1>14 DEF CallFollows, CallRow
  <2>4. CASE c.at = "parkWrite"
    <3>1. c.att \in Attempts /\ att[c.att] # None /\ att[c.att].offer = c.offer /\ c.offer \in Offers
      BY <1>14, <2>4 DEF CallFollows, CallRow
    <3>2. c.offer # o /\ c.att # a
      BY <1>1, <2>2, <2>4, <3>1
    <3> QED BY <1>6, <1>7, <1>14, <2>3, <3>1, <3>2 DEF CallFollows
  <2>5. CASE c.at # "parkWrite"
    BY <1>8, <1>14, <2>3, <2>5 DEF CallFollows
  <2> QED BY <2>4, <2>5
<1>15. CallsInv' /\ call' \in [Handlers -> CallRow \cup {None}]
  <2>1. PICK k \in CallRow \cup {None} : k = None
    OBVIOUS
  <2>2. \A c \in Others(h) : c \in CallRow /\ CallFollows(c) => CallFollows(c)'
    BY <1>14
  <2>3. call' = [call EXCEPT ![h] = k]
    BY <2>1 DEF Idle
  <2> QED BY <2>1, <2>2, <2>3, OthersStay
<1> QED BY <1>2, <1>6, <1>7, <1>9, <1>10, <1>12, <1>13, <1>15 DEF SalesInv, SaleTyped, RowsInv

LEMMA LetStep ==
  ASSUME SalesAssumption, SalesInv, NEW h \in Handlers, NEW a \in Attempts, att[a] # None,
         NEW n, Closes(a, n), att' = [att EXCEPT ![a] = n], Lets(a, n),
         RowFree(att[a].offer) \/ n.st = "invalid", owner' = owner, call' = Idle(h)
  PROVE  SalesInv'
<1>0. AttemptFollows(a) /\ att[a] \in AttemptRow /\ a # 0
  BY DEF SalesInv, SaleTyped, RowsInv, Attempts
<1>1. PICK o \in Offers : o = att[a].offer
  BY <1>0 DEF AttemptRow
<1>2. /\ offer[o] # None /\ offer[o] \in OfferRow
      /\ n = att[a] \/ ~(offer[o].evid = "pending" /\ offer[o].by = a)
      /\ Release(o, att[a].buyer)
      /\ n.st \in Final /\ (att[a].st \in LiveStates \/ n = att[a])
  <2>1. offer[o] # None
    BY <1>0, <1>1 DEF AttemptFollows, Reserved
  <2> QED BY <1>1, <2>1 DEF SalesInv, SaleTyped, Lets, Closes
<1>3. PICK gone \in BOOLEAN :
         gone = (offer[o].ch = "direct" /\ offer[o].st = "open")
  OBVIOUS
<1>4. PICK m : m = [offer[o] EXCEPT !.st = IF gone THEN "canceled" ELSE offer[o].st]
  OBVIOUS
<1>5. /\ m.ch = offer[o].ch /\ m.seller = offer[o].seller /\ m.buyer = offer[o].buyer
      /\ m.rid = offer[o].rid /\ m.evid = offer[o].evid /\ m.by = offer[o].by
      /\ m.st = IF gone THEN "canceled" ELSE offer[o].st
  BY <1>2, <1>4 DEF OfferRow
<1>6. m \in OfferRow
  <2>1. (IF gone THEN "canceled" ELSE offer[o].st) \in {"open", "claimed", "canceled"}
    BY <1>2 DEF OfferRow
  <2> QED BY <1>2, <1>4, <2>1 DEF OfferRow
<1>7. /\ offer' \in [Offers -> OfferRow \cup {None}] /\ m # None
      /\ \A x \in Offers : offer'[x] = IF x = o THEN m ELSE offer[x]
      /\ lock' = IF gone THEN None ELSE lock
  <2>1. m # None
    BY <1>6 DEF SalesAssumption
  <2>2. offer[o].ch = "direct" => offer[o].buyer = att[a].buyer
    BY <1>0, <1>1 DEF AttemptFollows, Reserved
  <2>3. gone => lock = o
    BY <1>2, <1>3 DEF SalesInv, RowsInv, OpenLocks, Locked
  <2>4. CASE gone
    <3>1. offer' = [offer EXCEPT ![o].st = "canceled"] /\ lock' = None
      BY <1>2, <1>3, <2>2, <2>3, <2>4 DEF Release
    <3>2. offer' = [offer EXCEPT ![o] = m]
      BY <1>4, <2>4, <3>1 DEF SalesInv, SaleTyped
    <3> QED BY <1>6, <2>1, <2>4, <3>1, <3>2 DEF SalesInv, SaleTyped
  <2>5. CASE ~gone
    <3>1. UNCHANGED <<offer, lock>>
      BY <1>2, <1>3, <2>5 DEF Release
    <3>2. m = offer[o]
      BY <1>2, <1>4, <2>5 DEF OfferRow
    <3> QED BY <2>1, <2>5, <3>1, <3>2 DEF SalesInv, SaleTyped
  <2> QED BY <2>4, <2>5
<1>8. /\ att' \in [Attempts -> AttemptRow \cup {None}]
      /\ \A b \in Attempts : att'[b] = IF b = a THEN n ELSE att[b]
      /\ OneEach'
  BY ClosedRows
<1>9. \A b \in Attempts : /\ att[b] # None <=> att'[b] # None
                          /\ att[b] # None => /\ att'[b].offer = att[b].offer
                                              /\ att'[b].rid = att[b].rid
                                              /\ att'[b].buyer = att[b].buyer
                                              /\ att'[b].tx = att[b].tx
                                              /\ att[b].st = "completed" <=> att'[b].st = "completed"
                                              /\ att[b].st = "invalid" => att'[b].st = "invalid"
                          /\ IsLive(b)' => IsLive(b) /\ b # a
  BY ClosedRows
<1>10. OpenLocks'
  <2>1. gone => offer[o].st = "open" /\ lock = o
    BY <1>2, <1>3 DEF SalesInv, RowsInv, OpenLocks, Locked
  <2>2. \A x \in Offers : offer[x] # None /\ offer[x].st = "open" => lock = x
    BY DEF SalesInv, RowsInv, OpenLocks, Locked
  <2> QED BY <1>2, <1>5, <1>7, <2>1, <2>2 DEF SalesInv, RowsInv, OpenLocks, Locked, SalesAssumption
<1>11. ASSUME NEW x \in Offers, offer'[x] # None PROVE EvidenceFollows(x)'
  <2>1. CASE x = o
    <3>1. EvidenceFollows(o)
      BY <1>2 DEF SalesInv, RowsInv
    <3>2. offer'[o] = m
      BY <1>7
    <3>3. CASE offer[o].by = 0
      BY <1>5, <2>1, <3>1, <3>2, <3>3 DEF EvidenceFollows
    <3>4. CASE offer[o].by # 0
      <4>1. /\ offer[o].ch = "world" /\ offer[o].by \in Attempts /\ att[offer[o].by] # None
            /\ att[offer[o].by].offer = o /\ ~gone
        BY <1>2, <1>3, <3>1, <3>4 DEF EvidenceFollows, OfferRow
      <4>2. PICK b \in Attempts : b = offer[o].by
        BY <4>1
      <4>3. att'[b] = att[b]
        <5>1. CASE b # a
          BY <1>8, <5>1
        <5>2. CASE b = a /\ offer[o].evid = "pending"
          BY <1>2, <1>8, <4>2, <5>2
        <5>3. CASE b = a /\ offer[o].evid # "pending"
          <6>1. att[a].st \notin LiveStates
            BY <1>2, <3>1, <3>4, <4>2, <5>3 DEF EvidenceFollows, OfferRow, LiveStates, Final
          <6> QED BY <1>2, <1>8, <5>3, <6>1
        <5> QED BY <5>1, <5>2, <5>3
      <4>4. m.st = offer[o].st
        BY <1>5, <4>1
      <4> QED BY <1>5, <2>1, <3>1, <3>2, <3>4, <4>1, <4>2, <4>3, <4>4 DEF EvidenceFollows, IsLive
    <3> QED BY <3>3, <3>4
  <2>2. CASE x # o
    <3>1. \A b \in Attempts : b # a => att'[b] = att[b]
      BY <1>8
    <3>2. offer'[x] = offer[x] /\ offer[x] # None
      BY <1>7, <1>11, <2>2
    <3> QED BY <1>1, <2>2, <3>1, <3>2, OtherEvidence
  <2> QED BY <2>1, <2>2
<1>12. \A x \in Offers, r \in Nat : \A b : Reserved(x, r, b) => Reserved(x, r, b)'
  BY <1>2, <1>5, <1>7 DEF Reserved
<1>13. ASSUME NEW b \in Attempts, att'[b] # None PROVE AttemptFollows(b)'
  <2>1. /\ att[b] # None /\ att[b] \in AttemptRow /\ AttemptFollows(b) /\ att[b].offer \in Offers
        /\ att[b].rid \in Nat /\ att'[b].offer = att[b].offer
    BY <1>9, <1>13 DEF SalesInv, SaleTyped, RowsInv, AttemptRow
  <2>2. Reserved(att[b].offer, att[b].rid, att[b].buyer)'
    <3>1. PICK x \in Offers, r \in Nat, u \in Residents : x = att[b].offer /\ r = att[b].rid /\ u = att[b].buyer
      BY <2>1 DEF AttemptRow
    <3>2. Reserved(x, r, u)'
      BY <1>12, <2>1, <3>1 DEF AttemptFollows
    <3> QED BY <1>9, <2>1, <3>1, <3>2 DEF Reserved
  <2>3. CASE b # a
    <3>1. att'[b] = att[b]
      BY <1>8, <2>3
    <3>2. CASE att[b].offer # o
      <4>1. offer'[att[b].offer] = offer[att[b].offer]
        BY <1>7, <2>1, <3>2
      <4> QED BY <2>1, <2>2, <3>1, <4>1 DEF AttemptFollows, IsLive
    <3>3. CASE att[b].offer = o
      <4>1. ~(gone /\ IsLive(b))
        <5> SUFFICES ASSUME gone, IsLive(b) PROVE FALSE
          OBVIOUS
        <5>1. att[a].st \in LiveStates
          BY <1>0, <1>1, <1>2, <1>3 DEF AttemptFollows, Final
        <5> QED BY <1>1, <2>1, <2>3, <3>3, <5>1 DEF SalesInv, RowsInv, OneEach, IsLive
      <4>2. gone => offer[o].st = "open"
        BY <1>3
      <4> QED BY <1>5, <1>7, <2>1, <2>2, <3>1, <3>3, <4>1, <4>2 DEF AttemptFollows, IsLive
    <3> QED BY <3>2, <3>3
  <2>4. CASE b = a
    <3>1. att'[b].st = n.st /\ ~IsLive(b)' /\ n.st # "completed"
      BY <1>2, <1>8, <1>9, <2>4 DEF Final, IsLive, LiveStates
    <3>2. offer'[att'[b].offer] = m
      BY <1>1, <1>7, <2>1, <2>4
    <3>3. m.ch = "direct" => m.st # "open"
      BY <1>3, <1>5
    <3> QED BY <2>2, <3>1, <3>2, <3>3 DEF AttemptFollows
  <2> QED BY <2>3, <2>4
<1>14. ClaimedIsPaid'
  <2> SUFFICES ASSUME NEW x \in Offers, offer'[x] # None, offer'[x].st = "claimed"
               PROVE  \E b \in Attempts : att'[b] # None /\ att'[b].offer = x /\ att'[b].st = "completed"
    BY DEF ClaimedIsPaid
  <2>1. offer[x] # None /\ offer[x].st = "claimed"
    BY <1>2, <1>5, <1>7
  <2>2. PICK b \in Attempts : att[b] # None /\ att[b].offer = x /\ att[b].st = "completed"
    BY <2>1 DEF SalesInv, RowsInv, ClaimedIsPaid
  <2> QED BY <1>9, <2>2
<1>15. ASSUME NEW c \in Others(h), c \in CallRow, CallFollows(c) PROVE CallFollows(c)'
  <2>1. PICK g \in Handlers : g # h /\ call[g] = c /\ c # None
    BY DEF Others
  <2>2. Reserved(c.offer, c.rid, c.buyer)'
    BY <1>12, <1>15 DEF CallFollows, CallRow
  <2>3. CASE c.at = "parkWrite"
    <3>1. /\ c.att \in Attempts /\ att[c.att] # None /\ att[c.att].offer = c.offer /\ c.offer \in Offers
          /\ offer[c.offer].ch = "world"
      BY <1>15, <2>3 DEF CallFollows, CallRow
    <3>2. /\ offer'[c.offer].ch = offer[c.offer].ch /\ offer'[c.offer].st = offer[c.offer].st
          /\ offer'[c.offer].evid = offer[c.offer].evid /\ offer'[c.offer].rid = offer[c.offer].rid
      BY <1>3, <1>5, <1>7, <3>1
    <3>3. CASE c.att # a
      BY <1>8, <1>15, <2>2, <3>1, <3>2, <3>3 DEF CallFollows
    <3>4. CASE c.att = a
      <4>1. ~RowFree(o)
        BY <1>1, <2>1, <2>3, <3>1, <3>4 DEF RowFree
      <4>2. n.st = "invalid" /\ att'[a] = n
        BY <1>1, <1>8, <4>1
      <4> QED BY <1>9, <1>15, <2>2, <2>3, <3>1, <3>2, <3>4, <4>2 DEF CallFollows
    <3> QED BY <3>3, <3>4
  <2>4. CASE c.at # "parkWrite"
    BY <1>9, <1>15, <2>2, <2>4 DEF CallFollows
  <2> QED BY <2>3, <2>4
<1>16. CallsInv' /\ call' \in [Handlers -> CallRow \cup {None}]
  <2>1. PICK k \in CallRow \cup {None} : k = None
    OBVIOUS
  <2>2. \A c \in Others(h) : c \in CallRow /\ CallFollows(c) => CallFollows(c)'
    BY <1>15
  <2>3. call' = [call EXCEPT ![h] = k]
    BY <2>1 DEF Idle
  <2> QED BY <2>1, <2>2, <2>3, OthersStay
<1>17. lock' \in Offers \cup {None}
  BY <1>7 DEF SalesInv, SaleTyped
<1> QED BY <1>7, <1>8, <1>10, <1>11, <1>13, <1>14, <1>16, <1>17 DEF SalesInv, SaleTyped, RowsInv

LEMMA InvalidateStep ==
  ASSUME SalesAssumption, SalesInv, NEW h \in Handlers, invalidateSale(h)
  PROVE  SalesInv'
<1>1. /\ At(h, "settle") /\ Holds(h) /\ owner' = owner /\ call' = Idle(h)
      /\ att' = [att EXCEPT ![call[h].att].st = "invalid", ![call[h].att].lease = None]
  BY DEF invalidateSale
<1>2. PICK a \in Attempts : /\ a = call[h].att /\ att[a] # None /\ att[a] \in AttemptRow
                            /\ att[a].st \in LiveStates /\ AttemptFollows(a)
  BY <1>1, HolderSees
<1>3. PICK n : n = [att[a] EXCEPT !.st = "invalid", !.lease = None]
  OBVIOUS
<1>4. /\ n \in AttemptRow /\ n.offer = att[a].offer /\ n.buyer = att[a].buyer /\ n.rid = att[a].rid
      /\ n.tx = att[a].tx /\ n.paid = att[a].paid /\ n.st = "invalid"
  BY <1>2, <1>3 DEF AttemptRow, Final
<1>5. att' = [att EXCEPT ![a] = n] /\ Closes(a, n)
  <2>1. att' = [att EXCEPT ![a] = n]
    BY <1>1, <1>2, <1>3 DEF SalesInv, SaleTyped
  <2> QED BY <1>2, <1>4, <2>1 DEF Closes, Final
<1>6. PICK o \in Offers : o = att[a].offer
  BY <1>2 DEF AttemptRow
<1>7. offer[o] # None /\ offer[o] \in OfferRow /\ EvidenceFollows(o)
  BY <1>2, <1>6 DEF AttemptFollows, Reserved, SalesInv, SaleTyped, RowsInv
<1>8. CASE /\ offer[o].st = "open" /\ offer[o].evid = "pending" /\ offer[o].by = a
           /\ offer' = [offer EXCEPT ![o].evid = "invalid"] /\ UNCHANGED lock
  <2>1. [offer EXCEPT ![o].evid = "invalid"] = [offer EXCEPT ![o].evid = n.st, ![o].by = a]
    <3>1. PICK m : m = [offer[o] EXCEPT !.evid = "invalid", !.by = a]
      OBVIOUS
    <3>2. m = [offer[o] EXCEPT !.evid = "invalid"]
      BY <1>7, <1>8, <3>1 DEF OfferRow
    <3> QED BY <1>4, <3>1, <3>2 DEF SalesInv, SaleTyped
  <2>2. offer[o].ch = "world"
    BY <1>2, <1>7, <1>8 DEF EvidenceFollows, Attempts
  <2>3. Shows(a, n)
    BY <1>6, <1>8, <2>1, <2>2 DEF Shows
  <2> QED BY <1>1, <1>2, <1>4, <1>5, <2>3, ShowStep
<1>9. CASE /\ ~(offer[o].st = "open" /\ offer[o].evid = "pending" /\ offer[o].by = a)
           /\ Release(o, att[a].buyer)
  <2>1. offer[o].evid = "pending" /\ offer[o].by = a => offer[o].st = "open"
    BY <1>2, <1>7 DEF EvidenceFollows, IsLive, Attempts
  <2>2. Lets(a, n)
    BY <1>6, <1>9, <2>1 DEF Lets
  <2> QED BY <1>1, <1>2, <1>4, <1>5, <2>2, LetStep
<1> QED BY <1>2, <1>6, <1>8, <1>9 DEF invalidateSale

LEMMA CloseInvalidStep ==
  ASSUME SalesAssumption, SalesInv, NEW h \in Handlers, closeInvalid(h)
  PROVE  SalesInv'
<1>1. /\ call[h] # None /\ call[h].at = "closeInvalid" /\ owner' = owner /\ att' = att
      /\ call' = Idle(h)
  BY DEF closeInvalid, At
<1>2. PICK a \in Attempts : /\ a = call[h].att /\ att[a] # None /\ att[a] \in AttemptRow
                            /\ att[a].st = "invalid" /\ AttemptFollows(a)
  BY <1>1, Begun DEF CallFollows
<1>3. PICK n : n = att[a]
  OBVIOUS
<1>4. att' = [att EXCEPT ![a] = n] /\ Closes(a, n) /\ n.st = "invalid"
  <2>1. att' = [att EXCEPT ![a] = n]
    BY <1>1, <1>3 DEF SalesInv, SaleTyped
  <2> QED BY <1>2, <1>3, <2>1 DEF Closes, Final
<1>5. PICK o \in Offers : o = att[a].offer
  BY <1>2 DEF AttemptRow
<1>6. offer[o] # None /\ offer[o] \in OfferRow /\ EvidenceFollows(o)
  BY <1>2, <1>5 DEF AttemptFollows, Reserved, SalesInv, SaleTyped, RowsInv
<1>7. CASE /\ offer[o].st = "open" /\ offer[o].evid = "pending" /\ offer[o].by = a
           /\ offer' = [offer EXCEPT ![o].evid = "invalid"] /\ UNCHANGED lock
  <2>1. [offer EXCEPT ![o].evid = "invalid"] = [offer EXCEPT ![o].evid = n.st, ![o].by = a]
    <3>1. PICK m : m = [offer[o] EXCEPT !.evid = "invalid", !.by = a]
      OBVIOUS
    <3>2. m = [offer[o] EXCEPT !.evid = "invalid"]
      BY <1>6, <1>7, <3>1 DEF OfferRow
    <3> QED BY <1>4, <3>1, <3>2 DEF SalesInv, SaleTyped
  <2>2. offer[o].ch = "world"
    BY <1>2, <1>6, <1>7 DEF EvidenceFollows, Attempts
  <2>3. Shows(a, n)
    BY <1>5, <1>7, <2>1, <2>2 DEF Shows
  <2> QED BY <1>1, <1>2, <1>4, <2>3, ShowStep
<1>8. CASE Release(o, att[a].buyer)
  <2>1. Lets(a, n)
    BY <1>3, <1>5, <1>8 DEF Lets
  <2> QED BY <1>1, <1>2, <1>4, <2>1, LetStep
<1> QED BY <1>2, <1>5, <1>7, <1>8 DEF closeInvalid

\* By the founder's review or at the deadline.
LEMMA TargetStep ==
  ASSUME SalesAssumption, SalesInv, NEW h \in Handlers, NEW state \in {"founder_review", "expired"},
         NEW step \in {"close", "expire"}, At(h, step), closeTarget(h, state)
  PROVE  SalesInv'
<1>1. owner' = owner /\ call' = Idle(h) /\ call[h] # None /\ call[h].at # "create"
  BY DEF closeTarget, At
<1>2. CASE ~Holds(h)
  <2>1. UNCHANGED <<att, offer, lock>>
    BY <1>2 DEF closeTarget
  <2> QED BY <1>1, <2>1, GoStep
<1>3. CASE Holds(h)
  <2>1. PICK a \in Attempts : /\ a = call[h].att /\ att[a] # None /\ att[a] \in AttemptRow
                              /\ att[a].st \in LiveStates /\ AttemptFollows(a)
    BY <1>3, HolderSees
  <2>2. PICK o \in Offers : o = att[a].offer
    BY <2>1 DEF AttemptRow
  <2>3. offer[o] # None /\ offer[o] \in OfferRow /\ EvidenceFollows(o)
    BY <2>1, <2>2 DEF AttemptFollows, Reserved, SalesInv, SaleTyped, RowsInv
  <2>4. PICK n : n = [att[a] EXCEPT !.st = state, !.lease = None]
    OBVIOUS
  <2>5. /\ n \in AttemptRow /\ n.offer = att[a].offer /\ n.buyer = att[a].buyer /\ n.rid = att[a].rid
        /\ n.tx = att[a].tx /\ n.paid = att[a].paid /\ n.st = state
    BY <2>1, <2>4 DEF AttemptRow, Final
  <2>6. att' = [att EXCEPT ![a] = n] /\ Closes(a, n) /\ RowFree(o)
    <3>1. att' = [att EXCEPT ![a] = n]
      BY <1>3, <2>1, <2>4 DEF closeTarget, SalesInv, SaleTyped
    <3> QED BY <2>1, <2>2, <2>5, <3>1 DEF Closes, Final, closeTarget
  <2>7. CASE /\ offer[o].ch = "world" /\ offer[o].st = "open"
             /\ offer[o].evid \in {"none", "pending"} /\ offer[o].by \in {0, a}
             /\ offer' = [offer EXCEPT ![o].evid = state, ![o].by = a] /\ UNCHANGED lock
    <3>1. Shows(a, n)
      BY <2>2, <2>5, <2>6, <2>7 DEF Shows
    <3> QED BY <1>1, <2>1, <2>2, <2>6, <3>1, ShowStep
  <2>8. CASE /\ ~ /\ offer[o].ch = "world" /\ att[a].tx /\ offer[o].st = "open"
                  /\ offer[o].buyer = att[a].buyer
                  /\ offer[o].evid \in {"none", "pending"} /\ offer[o].by \in {0, a}
             /\ Release(o, att[a].buyer)
    <3>1. ~(offer[o].evid = "pending" /\ offer[o].by = a)
      <4> SUFFICES ASSUME offer[o].evid = "pending", offer[o].by = a PROVE FALSE
        OBVIOUS
      <4>1. /\ offer[o].ch = "world" /\ att[a].tx /\ offer[o].st = "open"
            /\ att[a].rid = offer[o].rid
        BY <2>1, <2>3 DEF EvidenceFollows, IsLive, Attempts
      <4>2. offer[o].buyer = att[a].buyer
        BY <2>1, <2>2, <4>1 DEF AttemptFollows, Reserved
      <4> QED BY <2>8, <4>1, <4>2
    <3>2. Lets(a, n)
      BY <2>2, <2>8, <3>1 DEF Lets
    <3> QED BY <1>1, <2>1, <2>2, <2>6, <3>2, LetStep
  <2> QED BY <1>3, <2>1, <2>2, <2>7, <2>8 DEF closeTarget
<1> QED BY <1>2, <1>3

\* The sale is completed: the thing, the offer and the attempt change together.
LEMMA WriteStep ==
  ASSUME SalesAssumption, SalesInv, NEW h \in Handlers, completeWrite(h)
  PROVE  SalesInv'
<1>1. call[h] # None /\ call[h].at = "completeWrite" /\ At(h, "completeWrite")
  BY DEF completeWrite, At
<1>2. CASE UNCHANGED <<owner, lock, offer, att>> /\ (call' = Idle(h) \/ call' = Go(h, "close"))
  BY <1>1, <1>2, GoStep
<1>3. CASE /\ Completes(h)
           /\ owner' = att[call[h].att].buyer /\ lock' = None
           /\ offer' = [offer EXCEPT ![call[h].offer].st = "claimed"]
           /\ att' = [att EXCEPT ![call[h].att].st = "completed", ![call[h].att].lease = None]
           /\ call' = Idle(h)
  <2>1. Holds(h)
    BY <1>3 DEF Completes
  <2>2. PICK a \in Attempts : /\ a = call[h].att /\ att[a] # None /\ att[a] \in AttemptRow
                              /\ att[a].st \in LiveStates /\ AttemptFollows(a)
                              /\ att[a].offer = call[h].offer
    BY <1>1, <2>1, HolderSees
  <2>3. PICK o \in Offers : o = call[h].offer /\ o = att[a].offer
    BY <2>2 DEF AttemptRow
  <2>4. /\ offer[o] # None /\ offer[o] \in OfferRow /\ EvidenceFollows(o)
        /\ offer[o].st = "open" /\ lock = o /\ offer[o].rid = att[a].rid
        /\ offer[o].evid = "none" \/ (offer[o].evid = "pending" /\ offer[o].by = a)
        /\ offer[o].ch = "world" => offer[o].evid = "pending"
        /\ att[a].final /\ RowFree(o)
    BY <1>3, <2>2, <2>3 DEF completeWrite, Completes, TargetMatches, IsOpen, Locked, SalesInv, SaleTyped, RowsInv
  <2>5. PICK m : m = [offer[o] EXCEPT !.st = "claimed"]
    OBVIOUS
  <2>6. /\ m \in OfferRow /\ m.ch = offer[o].ch /\ m.seller = offer[o].seller
        /\ m.buyer = offer[o].buyer /\ m.rid = offer[o].rid /\ m.evid = offer[o].evid
        /\ m.by = offer[o].by /\ m.st = "claimed"
    BY <2>4, <2>5 DEF OfferRow
  <2>7. PICK n : n = [att[a] EXCEPT !.st = "completed", !.lease = None]
    OBVIOUS
  <2>8. /\ n \in AttemptRow /\ n.offer = att[a].offer /\ n.buyer = att[a].buyer
        /\ n.rid = att[a].rid /\ n.tx = att[a].tx /\ n.paid = "in" /\ n.st = "completed"
    BY <2>2, <2>4, <2>7 DEF AttemptRow, AttemptFollows, IsLive
  <2>9. /\ offer' = [offer EXCEPT ![o] = m] /\ att' = [att EXCEPT ![a] = n]
        /\ owner' = att[a].buyer /\ lock' = None
    BY <1>3, <2>2, <2>3, <2>5, <2>7 DEF SalesInv, SaleTyped
  <2>10. /\ offer' \in [Offers -> OfferRow \cup {None}] /\ m # None
         /\ \A x \in Offers : offer'[x] = IF x = o THEN m ELSE offer[x]
         /\ att' \in [Attempts -> AttemptRow \cup {None}] /\ n # None
         /\ \A b \in Attempts : att'[b] = IF b = a THEN n ELSE att[b]
         /\ owner' \in Residents
    BY <2>2, <2>6, <2>8, <2>9 DEF SalesAssumption, SalesInv, SaleTyped, AttemptRow
  <2>11. \A b \in Attempts : att[b] # None /\ att[b].offer = o /\ b # a =>
           att[b].st \notin LiveStates \cup {"completed"}
    <3> SUFFICES ASSUME NEW b \in Attempts, att[b] # None, att[b].offer = o, b # a,
                        att[b].st \in LiveStates \cup {"completed"}
                 PROVE  FALSE
      OBVIOUS
    <3>1. att[b].st # "completed"
      BY <2>4 DEF SalesInv, RowsInv, AttemptFollows
    <3>2. IsLive(a) /\ IsLive(b)
      BY <2>2, <3>1 DEF IsLive
    <3> QED BY <2>2, <2>3, <3>2 DEF SalesInv, RowsInv, OneEach
  <2>12. \A b \in Attempts : /\ att[b] # None <=> att'[b] # None
                             /\ att[b] # None => /\ att'[b].offer = att[b].offer
                                                 /\ att'[b].rid = att[b].rid
                                                 /\ att'[b].buyer = att[b].buyer
                                                 /\ att'[b].tx = att[b].tx
                             /\ IsLive(b)' => IsLive(b) /\ b # a
    BY <2>2, <2>8, <2>10 DEF IsLive, LiveStates
  <2>13. OpenLocks'
    <3>1. \A x \in Offers : offer[x] # None /\ offer[x].st = "open" => x = o
      BY <2>4 DEF SalesInv, RowsInv, OpenLocks, Locked
    <3> QED BY <2>4, <2>6, <2>9, <2>10, <3>1 DEF SalesInv, RowsInv, OpenLocks, SalesAssumption
  <2>14. ASSUME NEW x \in Offers, offer'[x] # None PROVE EvidenceFollows(x)'
    <3>1. CASE x = o
      <4>1. CASE offer[o].evid = "none"
        BY <2>4, <2>6, <2>10, <3>1, <4>1 DEF EvidenceFollows
      <4>2. CASE offer[o].evid = "pending" /\ offer[o].by = a
        <5>1. /\ offer[o].ch = "world" /\ att[a].tx /\ a # 0
          BY <2>4, <4>2 DEF EvidenceFollows, Attempts
        <5>2. offer'[x] = m /\ att'[a] = n /\ ~IsLive(a)'
          BY <2>10, <2>12, <3>1
        <5>3. /\ m.ch = "world" /\ m.evid = "pending" /\ m.by = a /\ m.rid = n.rid
              /\ n.tx /\ n.offer = o /\ n # None /\ n.st = "completed"
          BY <2>3, <2>4, <2>6, <2>8, <2>10, <4>2, <5>1
        <5> QED BY <3>1, <5>1, <5>2, <5>3 DEF EvidenceFollows
      <4> QED BY <2>4, <4>1, <4>2
    <3>2. CASE x # o
      <4>1. \A b \in Attempts : b # a => att'[b] = att[b]
        BY <2>10
      <4>2. offer'[x] = offer[x] /\ offer[x] # None
        BY <2>10, <2>14, <3>2
      <4> QED BY <2>2, <2>3, <3>2, <4>1, <4>2, OtherEvidence
    <3> QED BY <3>1, <3>2
  <2>15. \A x \in Offers, r \in Nat : \A b : Reserved(x, r, b) => Reserved(x, r, b)'
    BY <2>4, <2>6, <2>10 DEF Reserved
  <2>16. ASSUME NEW b \in Attempts, att'[b] # None PROVE AttemptFollows(b)'
    <3>1. /\ att[b] # None /\ att[b] \in AttemptRow /\ AttemptFollows(b) /\ att[b].offer \in Offers
          /\ att[b].rid \in Nat /\ att'[b].offer = att[b].offer
      BY <2>12, <2>16 DEF SalesInv, SaleTyped, RowsInv, AttemptRow
    <3>2. Reserved(att[b].offer, att[b].rid, att[b].buyer)'
      <4>1. PICK x \in Offers, r \in Nat, u \in Residents : x = att[b].offer /\ r = att[b].rid /\ u = att[b].buyer
        BY <3>1 DEF AttemptRow
      <4>2. Reserved(x, r, u)'
        BY <2>15, <3>1, <4>1 DEF AttemptFollows
      <4> QED BY <2>12, <3>1, <4>1, <4>2 DEF Reserved
    <3>3. CASE b # a
      <4>1. att'[b] = att[b]
        BY <2>10, <3>3
      <4>2. CASE att[b].offer # o
        <5>1. offer'[att[b].offer] = offer[att[b].offer]
          BY <2>10, <3>1, <4>2
        <5> QED BY <3>1, <3>2, <4>1, <5>1 DEF AttemptFollows, IsLive
      <4>3. CASE att[b].offer = o
        <5>1. ~IsLive(b)' /\ att'[b].st # "completed" /\ offer'[att'[b].offer].st # "open"
          BY <2>6, <2>10, <2>11, <3>1, <3>3, <4>1, <4>3 DEF IsLive
        <5> QED BY <3>2, <5>1 DEF AttemptFollows
      <4> QED BY <4>2, <4>3
    <3>4. CASE b = a
      <4>1. att'[b] = n /\ offer'[att'[b].offer] = m /\ ~IsLive(b)'
        BY <2>3, <2>10, <2>12, <3>1, <3>4
      <4>2. m.ch = "world" => m.by = a
        BY <2>4, <2>6
      <4> QED BY <2>4, <2>6, <2>8, <3>2, <3>4, <4>1, <4>2 DEF AttemptFollows, Final
    <3> QED BY <3>3, <3>4
  <2>17. OneEach'
    <3> SUFFICES ASSUME NEW b \in Attempts, NEW c \in Attempts, att'[b] # None, att'[c] # None,
                        att'[b].offer = att'[c].offer, b # c,
                        (IsLive(b)' /\ IsLive(c)') \/ (att'[b].st = "completed" /\ att'[c].st = "completed")
                 PROVE  FALSE
      BY DEF OneEach
    <3>1. CASE b # a /\ c # a
      <4>1. att'[b] = att[b] /\ att'[c] = att[c]
        BY <2>10, <3>1
      <4> QED BY <4>1 DEF SalesInv, RowsInv, OneEach, IsLive
    <3>2. CASE b = a \/ c = a
      BY <2>3, <2>8, <2>10, <2>11, <2>12, <3>2
    <3> QED BY <3>1, <3>2
  <2>18. ClaimedIsPaid'
    <3> SUFFICES ASSUME NEW x \in Offers, offer'[x] # None, offer'[x].st = "claimed"
                 PROVE  \E b \in Attempts : att'[b] # None /\ att'[b].offer = x /\ att'[b].st = "completed"
      BY DEF ClaimedIsPaid
    <3>1. CASE x = o
      BY <2>3, <2>8, <2>10, <3>1
    <3>2. CASE x # o
      <4>1. PICK b \in Attempts : att[b] # None /\ att[b].offer = x /\ att[b].st = "completed"
        BY <2>10, <3>2 DEF SalesInv, RowsInv, ClaimedIsPaid
      <4>2. att'[b] = att[b]
        BY <2>3, <2>10, <3>2, <4>1
      <4> QED BY <4>1, <4>2
    <3> QED BY <3>1, <3>2
  <2>19. ASSUME NEW c \in Others(h), c \in CallRow, CallFollows(c) PROVE CallFollows(c)'
    <3>1. PICK g \in Handlers : g # h /\ call[g] = c /\ c # None
      BY DEF Others
    <3>2. Reserved(c.offer, c.rid, c.buyer)'
      BY <2>15, <2>19 DEF CallFollows, CallRow
    <3>3. CASE c.at = "create"
      BY <3>2, <3>3 DEF CallFollows
    <3>4. CASE c.at # "create"
      <4>1. c.att \in Attempts /\ att[c.att] # None /\ att[c.att].offer = c.offer /\ c.offer \in Offers
        BY <2>19, <3>4 DEF CallFollows, CallRow
      <4>2. ~(c.at = "parkWrite" /\ c.offer = o)
        BY <2>4, <3>1 DEF RowFree
      <4>3. c.at = "closeInvalid" => c.att # a
        BY <2>2, <2>19 DEF CallFollows, LiveStates
      <4>4. c.at = "parkWrite" => c.att # a /\ offer'[c.offer] = offer[c.offer]
        BY <2>3, <2>10, <4>1, <4>2
      <4> QED BY <2>10, <2>12, <2>19, <3>2, <4>1, <4>2, <4>3, <4>4 DEF CallFollows
    <3> QED BY <3>3, <3>4
  <2>20. CallsInv' /\ call' \in [Handlers -> CallRow \cup {None}]
    <3>1. PICK k \in CallRow \cup {None} : k = None
      OBVIOUS
    <3>2. \A c \in Others(h) : c \in CallRow /\ CallFollows(c) => CallFollows(c)'
      BY <2>19
    <3>3. call' = [call EXCEPT ![h] = k]
      BY <1>3, <3>1 DEF Idle
    <3> QED BY <3>1, <3>2, <3>3, OthersStay
  <2> QED BY <2>9, <2>10, <2>13, <2>14, <2>16, <2>17, <2>18, <2>20 DEF SalesInv, SaleTyped, RowsInv
<1> QED BY <1>2, <1>3 DEF completeWrite

-----------------------------------------------------------------------------
(* The theorem                                                             *)

LEMMA SalesStep ==
  ASSUME SalesAssumption, SalesInv, [Next]_vars
  PROVE  SalesInv'
<1>1. CASE UNCHANGED vars
  <2>1. UNCHANGED <<owner, lock, offer, att, call>>
    BY <1>1 DEF vars
  <2>2. RowsInv'
    BY <2>1, RowsSame DEF SalesInv
  <2>3. CallsInv'
    BY <2>1 DEF SalesInv, CallsInv, CallFollows, Reserved, OneParks, At
  <2> QED BY <2>1, <2>2, <2>3 DEF SalesInv, SaleTyped
<1>2. CASE \E o \in Offers, ch \in Channels, to \in Residents \cup {None} : createOffer(o, ch, to)
  BY <1>2, OfferStep
<1>3. CASE \E to \in Residents : giveProperty(to)
  BY <1>3, GiveStep
<1>4. CASE \E b \in Residents, o \in Offers : reserve(b, o)
  BY <1>4, ReserveStep
<1>5. CASE \E o \in Offers : reservationEnds(o) \/ cancel(o)
  BY <1>5, EndsStep, CancelStep
<1>6. CASE \E h \in Handlers, b \in Residents, o \in Offers : claim(h, b, o)
  BY <1>6, ClaimStep
<1>7. CASE \E h \in Handlers, a \in Attempts : resume(h, a) \/ acquireDue(h, a)
  BY <1>7, ResumeStep, DueStep
<1>8. CASE \E h \in Handlers :
             \/ createAttempt(h) \/ acquireLease(h) \/ settle(h) \/ bindEvidence(h)
             \/ answerPending(h) \/ classifyFinal(h) \/ invalidateSale(h) \/ closeInvalid(h)
             \/ park(h) \/ parkWrite(h) \/ complete(h) \/ completeWrite(h)
             \/ founderReview(h) \/ closeExpired(h) \/ crash(h)
  <2>1. PICK h \in Handlers :
             \/ createAttempt(h) \/ acquireLease(h) \/ settle(h) \/ bindEvidence(h)
             \/ answerPending(h) \/ classifyFinal(h) \/ invalidateSale(h) \/ closeInvalid(h)
             \/ park(h) \/ parkWrite(h) \/ complete(h) \/ completeWrite(h)
             \/ founderReview(h) \/ closeExpired(h) \/ crash(h)
    BY <1>8
  <2>2. founderReview(h) \/ closeExpired(h) => SalesInv'
    BY TargetStep DEF founderReview, closeExpired
  <2> QED BY <2>1, <2>2, CreateStep, LeaseStep, SettleStep, BindStep, AnswerStep, ClassifyStep,
             InvalidateStep, CloseInvalidStep, ParkStep, ParkWriteStep, CompleteStep, WriteStep,
             CrashStep
<1>9. CASE \E a \in Attempts : deadlinePasses(a) \/ lateFinality(a)
  BY <1>9, DeadlineStep, LateStep
<1> QED BY <1>1, <1>2, <1>3, <1>4, <1>5, <1>6, <1>7, <1>8, <1>9 DEF Next

\* A claimed offer has one completed attempt.
LEMMA OneCompleted ==
  ASSUME SalesInv, NEW o \in Offers, offer[o] # None, offer[o].st = "claimed"
  PROVE  \E a \in Attempts : {b \in Attempts : att[b] # None /\ att[b].offer = o
                                              /\ att[b].st = "completed"} = {a}
<1>1. PICK a \in Attempts : att[a] # None /\ att[a].offer = o /\ att[a].st = "completed"
  BY DEF SalesInv, RowsInv, ClaimedIsPaid
<1>2. \A b \in Attempts : att[b] # None /\ att[b].offer = o /\ att[b].st = "completed" => b = a
  BY <1>1 DEF SalesInv, RowsInv, OneEach
<1>3. {b \in Attempts : att[b] # None /\ att[b].offer = o /\ att[b].st = "completed"} = {a}
  BY <1>1, <1>2
<1> QED BY <1>3

LEMMA SalesSafety ==
  ASSUME SalesAssumption, SalesInv
  PROVE  TypeOK /\ PaidKeepsTarget /\ SoldAsPaid
<1>1. TypeOK
  <2>1. ASSUME NEW o \in Offers, offer[o] # None
        PROVE  /\ offer[o].ch \in Channels /\ offer[o].seller \in Residents
               /\ offer[o].buyer \in (Residents \ {offer[o].seller}) \cup {None}
               /\ offer[o].st \in {"open", "claimed", "canceled"} /\ offer[o].rid \in 0..MaxReserve
               /\ offer[o].evid \in {"none", "pending"} \cup Final /\ offer[o].by \in Attempts \cup {0}
               /\ offer[o].active \in BOOLEAN
    <3>1. offer[o] \in OfferRow /\ offer[o].buyer # offer[o].seller
      BY <2>1 DEF SalesInv, SaleTyped, RowsInv, OpenLocks
    <3> QED BY <3>1 DEF OfferRow
  <2>2. ASSUME NEW a \in Attempts, att[a] # None
        PROVE  /\ att[a].offer \in Offers /\ att[a].buyer \in Residents /\ att[a].rid \in 1..MaxReserve
               /\ att[a].st \in LiveStates \cup Final \cup {"completed"}
               /\ att[a].paid \in {"no", "in", "out"} /\ att[a].lease \in Handlers \cup {None}
    <3>1. att[a] \in AttemptRow
      BY <2>2 DEF SalesInv, SaleTyped
    <3> QED BY <3>1 DEF AttemptRow
  <2> QED BY <2>1, <2>2 DEF TypeOK, SalesInv, SaleTyped
<1>2. PaidKeepsTarget
  <2> SUFFICES ASSUME NEW a \in Attempts, IsLive(a), att[a].paid = "in"
               PROVE  LET o == att[a].offer IN
                      IsOpen(o) /\ Locked(o) /\ offer[o].buyer = att[a].buyer /\ offer[o].rid = att[a].rid
    BY DEF PaidKeepsTarget
  <2>1. AttemptFollows(a) /\ att[a].offer \in Offers
    BY DEF IsLive, SalesInv, SaleTyped, RowsInv, AttemptRow
  <2>2. offer[att[a].offer] # None /\ offer[att[a].offer].st = "open"
        /\ offer[att[a].offer].rid = att[a].rid /\ offer[att[a].offer].buyer = att[a].buyer
    BY <2>1 DEF AttemptFollows, Reserved
  <2> QED BY <2>1, <2>2 DEF SalesInv, RowsInv, OpenLocks, IsOpen
<1>3. SoldAsPaid
  <2>1. ASSUME NEW a \in Attempts, att[a] # None, att[a].st = "completed"
        PROVE  LET o == offer[att[a].offer] IN
               /\ att[a].paid = "in" /\ o.st = "claimed" /\ o.buyer = att[a].buyer /\ o.rid = att[a].rid
               /\ o.ch = "world" => o.by = a
    BY <2>1 DEF SalesInv, RowsInv, AttemptFollows, Reserved
  <2>2. ASSUME NEW o \in Offers, offer[o] # None, offer[o].by # 0
        PROVE  LET st == att[offer[o].by].st IN
               \/ offer[o].evid = "pending" /\ st \in LiveStates \cup {"invalid", "completed"}
               \/ offer[o].evid = st
               \/ offer[o].evid = "expired" /\ st = "founder_review"
    BY <2>2 DEF SalesInv, RowsInv, EvidenceFollows
  <2>3. \A o \in Offers : offer[o] # None =>
          /\ offer[o].st = "open" => Locked(o)
          /\ lock = o => offer[o].st = "open"
    BY DEF SalesInv, RowsInv, OpenLocks
  <2> QED BY <2>1, <2>2, <2>3, OneCompleted DEF SoldAsPaid
<1> QED BY <1>1, <1>2, <1>3

\* For any number of residents, offers, reservations, payment attempts and handlers, with
\* crashes, leases taken over and deadlines: from the moment a buyer's money moves inside
\* his reservation the offer stays open and his until the attempt is closed, and a thing is
\* sold exactly as it was paid for.
THEOREM SalesCorrect ==
  ASSUME SalesAssumption
  PROVE  Spec => [](TypeOK /\ PaidKeepsTarget /\ SoldAsPaid)
<1>1. Init => SalesInv
  BY SalesInit
<1>2. SalesInv /\ [Next]_vars => SalesInv'
  BY SalesStep
<1>3. SalesInv => TypeOK /\ PaidKeepsTarget /\ SoldAsPaid
  BY SalesSafety
<1> QED BY <1>1, <1>2, <1>3, PTL DEF Spec
=============================================================================

------------------------------- MODULE WorldSales -------------------------------
(***************************************************************************)
(* Sales of a thing for USDC: offers made in the city ("direct", to a      *)
(* named buyer) or listed at the market 1F3EA ("world"), the five-minute   *)
(* reservation, the payment attempt bound to it, and the statements that   *)
(* park, complete, close and invalidate a sale (src/src/world-market.ts,   *)
(* society.ts, payment-sale-operations.ts, payment-sale-operation-sql.ts,  *)
(* the triggers of transfer_offers).  The payment itself is PaymentAttempts *)
(* reduced to what a sale sees: a transfer on the chain in or out of its   *)
(* window, evidence bound and found final, a lease that another handler    *)
(* may take over, a recovery deadline.  A statement is one step, except    *)
(* parking, whose check of the attempt precedes its commit; the row of the *)
(* offer is locked in between.                                             *)
(***************************************************************************)
EXTENDS Integers

CONSTANTS
  Residents,
  Channels,     \* "direct", "world"
  MaxOffers,    \* bound: offers ever made of the thing
  MaxAttempts,  \* bound: payment attempts
  MaxReserve,   \* bound: reservations of one offer
  Handlers,     \* concurrent requests and recovery workers
  Seller,       \* the first owner
  None

VARIABLES
  owner,  \* things.owner_id of the thing
  lock,   \* things.active_offer_id
  offer,  \* transfer_offers
  att,    \* payment_attempts of sales
  call    \* per handler: None or where it stands

vars == <<owner, lock, offer, att, call>>

Offers == 1..MaxOffers
Attempts == 1..MaxAttempts
LiveStates == {"settling", "payment_pending"} \* needs_review counts as settling
Final == {"invalid", "expired", "founder_review"}

IsLive(a) == att[a] # None /\ att[a].st \in LiveStates
Live(o) == {a \in Attempts : IsLive(a) /\ att[a].offer = o}
\* findPaymentAttempt: the newest attempt of b for o, or 0.
Newest(o, b) ==
  LET mine == {a \in Attempts : att[a] # None /\ att[a].offer = o /\ att[a].buyer = b}
  IN  IF mine = {} THEN 0 ELSE CHOOSE a \in mine : \A x \in mine : x <= a

IsOpen(o) == offer[o] # None /\ offer[o].st = "open"
\* The thing is the seller's and locked by the offer.
Locked(o) == owner = offer[o].seller /\ lock = o
\* An open UPDATE holds the offer's row.
RowFree(o) == ~ \E h \in Handlers : call[h] # None /\ call[h].at = "parkWrite" /\ call[h].offer = o

\* Types.
TypeOK ==
  /\ owner \in Residents /\ lock \in Offers \cup {None}
  /\ \A o \in Offers : offer[o] # None =>
       /\ offer[o].ch \in Channels /\ offer[o].seller \in Residents
       /\ offer[o].buyer \in (Residents \ {offer[o].seller}) \cup {None}
       /\ offer[o].st \in {"open", "claimed", "canceled"} /\ offer[o].rid \in 0..MaxReserve
       /\ offer[o].evid \in {"none", "pending"} \cup Final /\ offer[o].by \in Attempts \cup {0}
       /\ offer[o].active \in BOOLEAN
  /\ \A a \in Attempts : att[a] # None =>
       /\ att[a].offer \in Offers /\ att[a].buyer \in Residents /\ att[a].rid \in 1..MaxReserve
       /\ att[a].st \in LiveStates \cup Final \cup {"completed"}
       /\ att[a].paid \in {"no", "in", "out"} /\ att[a].lease \in Handlers \cup {None}

Init ==
  /\ owner = Seller /\ lock = None
  /\ offer = [o \in Offers |-> None] /\ att = [a \in Attempts |-> None]
  /\ call = [h \in Handlers |-> None]

-----------------------------------------------------------------------------
(* Offers                                                                  *)

\* Listing, or a direct offer to one buyer: the thing must be free.
createOffer(o, ch, to) ==
  /\ offer[o] = None /\ \A x \in 1..(o - 1) : offer[x] # None
  /\ lock = None /\ ~ \E x \in Offers : IsOpen(x)
  /\ ch = "world" <=> to = None
  /\ to # owner
  /\ lock' = o
  /\ offer' = [offer EXCEPT ![o] = [ch |-> ch, seller |-> owner, buyer |-> to, st |-> "open",
        rid |-> 0, active |-> FALSE, evid |-> "none", by |-> 0]]
  /\ UNCHANGED <<owner, att, call>>

\* A gift of the thing: refused while an offer locks it.
giveProperty(to) ==
  /\ lock = None /\ ~ \E x \in Offers : IsOpen(x)
  /\ to # owner /\ owner' = to
  /\ UNCHANGED <<lock, offer, att, call>>

\* Mutant: a seller may claim his own listing.
MutantMayBuy(b, o) == offer[o].ch = "direct" => offer[o].buyer = b

\* Nobody buys from himself; a direct offer is for its buyer alone.
MayBuy(b, o) ==
  /\ offer[o].seller # b
  /\ offer[o].ch = "direct" => offer[o].buyer = b

\* The first call of a claim: five minutes for b, if no reservation, evidence or
\* live payment stands in the way; b has no earlier attempt under his own.
reserve(b, o) ==
  /\ IsOpen(o) /\ RowFree(o) /\ Locked(o) /\ MayBuy(b, o)
  /\ ~ offer[o].active /\ offer[o].evid = "none" /\ Live(o) = {}
  /\ offer[o].buyer = b => Newest(o, b) = 0
  /\ offer[o].rid < MaxReserve
  /\ offer' = [offer EXCEPT ![o].buyer = b, ![o].rid = @ + 1, ![o].active = TRUE]
  /\ UNCHANGED <<owner, lock, att, call>>

\* reserved_until passes.
reservationEnds(o) ==
  /\ offer[o] # None /\ offer[o].active
  /\ offer' = [offer EXCEPT ![o].active = FALSE]
  /\ UNCHANGED <<owner, lock, att, call>>

\* Mutant: an offer may be canceled as soon as its reservation is over.
MutantCancelable(o) == offer[o].evid # "pending" /\ (~ offer[o].active \/ offer[o].evid \in Final)

\* What the WHERE of a cancel and the trigger ask.
Cancelable(o) ==
  /\ offer[o].evid # "pending"
  /\ ~ offer[o].active \/ offer[o].evid \in Final
  /\ Live(o) = {}

\* By the seller; of a world offer once the market listing has ended.
cancel(o) ==
  /\ IsOpen(o) /\ RowFree(o) /\ Locked(o) /\ Cancelable(o)
  /\ offer' = [offer EXCEPT ![o].st = "canceled"]
  /\ lock' = None
  /\ UNCHANGED <<owner, att, call>>

-----------------------------------------------------------------------------
(* Paying: the claim handlers, reconcile and the recovery worker           *)

Go(h, step) == [call EXCEPT ![h].at = step]
Idle(h) == [call EXCEPT ![h] = None]
Holds(h) == att[call[h].att].lease = h /\ IsLive(call[h].att)
At(h, step) == call[h] # None /\ call[h].at = step

\* A claim with X-PAYMENT: the reservation is read here and used later.
claim(h, b, o) ==
  /\ call[h] = None
  /\ IsOpen(o) /\ Locked(o) /\ offer[o].buyer = b /\ offer[o].rid > 0
  /\ offer[o].active \/ Newest(o, b) # 0
  /\ offer[o].evid = "pending" => Newest(o, b) = offer[o].by
  /\ call' = [call EXCEPT ![h] = [at |-> "create", offer |-> o, rid |-> offer[o].rid,
        buyer |-> b, att |-> 0, next |-> None]]
  /\ UNCHANGED <<owner, lock, offer, att>>

\* A claim without payment, reconcile, or the recovery worker resumes attempt a.
resume(h, a) ==
  /\ call[h] = None /\ att[a] # None /\ att[a].st \in LiveStates \cup {"invalid"}
  /\ call' = [call EXCEPT ![h] = [at |-> "lease", offer |-> att[a].offer, rid |-> att[a].rid,
        buyer |-> att[a].buyer, att |-> a, next |-> None]]
  /\ UNCHANGED <<owner, lock, offer, att>>

\* createOrReadPaymentAttempt: the live attempt of the target if it has the same
\* terms, else a conflict; without one a new attempt.  The offer is not read.
createAttempt(h) ==
  /\ At(h, "create")
  /\ LET o == call[h].offer
         live == Live(o)
     IN  \/ /\ live # {}
            /\ \/ /\ \E a \in live : /\ att[a].buyer = call[h].buyer /\ att[a].rid = call[h].rid
                                     /\ call' = [call EXCEPT ![h].at = "lease", ![h].att = a]
               \/ call' = Idle(h)
            /\ UNCHANGED att
         \/ /\ live = {} /\ \A a \in Attempts : att[a] # None => ~ (att[a].offer = o /\ att[a].st = "completed")
            /\ \E a \in Attempts :
                 /\ att[a] = None /\ \A x \in 1..(a - 1) : att[x] # None
                 /\ att' = [att EXCEPT ![a] = [offer |-> o, buyer |-> call[h].buyer,
                      rid |-> call[h].rid, st |-> "settling", paid |-> "no", tx |-> FALSE,
                      final |-> FALSE, due |-> FALSE, lease |-> None]]
                 /\ call' = [call EXCEPT ![h].at = "lease", ![h].att = a]
  /\ UNCHANGED <<owner, lock, offer>>

\* The lease: free, or taken over when it has expired.  An attempt found invalid
\* has its sale synchronized (closeInvalidSalePaymentTarget).
acquireLease(h) ==
  /\ At(h, "lease")
  /\ LET a == call[h].att IN
     \/ /\ IsLive(a)
        /\ att' = [att EXCEPT ![a].lease = h]
        /\ call' = Go(h, "settle")
     \/ /\ att[a].st = "invalid"
        /\ call' = Go(h, "closeInvalid") /\ UNCHANGED att
     \/ /\ att[a].st \notin LiveStates \cup {"invalid"}
        /\ call' = Idle(h) /\ UNCHANGED att
  /\ UNCHANGED <<owner, lock, offer>>

\* The facilitator's transfer, in the window of the attempt's reservation or not.
settle(h) ==
  /\ At(h, "settle") /\ Holds(h)
  /\ LET a == call[h].att
         o == offer[att[a].offer]
     IN  /\ att[a].paid = "no"
         /\ att' = [att EXCEPT ![a].paid =
              IF o.st = "open" /\ o.rid = att[a].rid /\ o.active THEN "in" ELSE "out"]
  /\ UNCHANGED <<owner, lock, offer, call>>

\* bindPaymentEvidence of a transfer that is on the chain.
bindEvidence(h) ==
  /\ At(h, "settle") /\ Holds(h)
  /\ att[call[h].att].paid # "no" /\ ~ att[call[h].att].tx
  /\ att' = [att EXCEPT ![call[h].att].tx = TRUE, ![call[h].att].st = "payment_pending"]
  /\ UNCHANGED <<owner, lock, offer, call>>

\* Nothing is known yet: the lease is given back and the answer is 202; a claim
\* of a world offer then parks the bound transaction.
answerPending(h) ==
  /\ At(h, "settle") /\ Holds(h)
  /\ att' = [att EXCEPT ![call[h].att].lease = None]
  /\ call' = IF att[call[h].att].tx /\ offer[call[h].offer].ch = "world"
             THEN [call EXCEPT ![h].at = "park", ![h].next = "answer"] ELSE Idle(h)
  /\ UNCHANGED <<owner, lock, offer>>

\* A final transfer in the window: on to completion.
classifyFinal(h) ==
  /\ At(h, "settle") /\ Holds(h)
  /\ att[call[h].att].tx /\ att[call[h].att].paid = "in"
  /\ att' = [att EXCEPT ![call[h].att].final = TRUE]
  /\ call' = Go(h, "complete")
  /\ UNCHANGED <<owner, lock, offer>>

\* The release of a direct offer when its payment has failed or was closed.
Release(o, b) ==
  IF offer[o].ch = "direct" /\ offer[o].st = "open" /\ offer[o].buyer = b
  THEN /\ offer' = [offer EXCEPT ![o].st = "canceled"]
       /\ lock' = IF lock = o THEN None ELSE lock
  ELSE UNCHANGED <<offer, lock>>

\* INVALIDATE_SALE_TARGET_SQL: a transfer out of the window, a failed one, or
\* an authorization that can no longer be used; the sale follows at once.
invalidateSale(h) ==
  /\ At(h, "settle") /\ Holds(h)
  /\ LET a == call[h].att
         o == att[a].offer
     IN  /\ att[a].paid # "in"
         /\ att' = [att EXCEPT ![a].st = "invalid", ![a].lease = None]
         /\ IF offer[o].st = "open" /\ offer[o].evid = "pending" /\ offer[o].by = a
            THEN offer' = [offer EXCEPT ![o].evid = "invalid"] /\ UNCHANGED lock
            ELSE Release(o, att[a].buyer)
  /\ call' = Idle(h)
  /\ UNCHANGED owner

\* closeInvalidSalePaymentTarget for an attempt that already is invalid.
closeInvalid(h) ==
  /\ At(h, "closeInvalid")
  /\ LET a == call[h].att
         o == att[a].offer
     IN  /\ RowFree(o)
         /\ IF offer[o].st = "open" /\ offer[o].evid = "pending" /\ offer[o].by = a
            THEN offer' = [offer EXCEPT ![o].evid = "invalid"] /\ UNCHANGED lock
            ELSE Release(o, att[a].buyer)
  /\ call' = Idle(h)
  /\ UNCHANGED <<owner, att>>

-----------------------------------------------------------------------------
(* Parking, completing and closing                                         *)

\* WORLD_PARK_SQL and the trigger: the attempt's reservation is the current one.
Parkable(a, o) ==
  /\ IsLive(a) /\ att[a].tx /\ ~ att[a].due
  /\ IsOpen(o) /\ Locked(o) /\ offer[o].ch = "world"
  /\ offer[o].buyer = att[a].buyer /\ offer[o].rid = att[a].rid
  /\ offer[o].evid = "none"

\* parkWorldSalePayment: parked already, or the UPDATE opens, or the target has
\* changed or the deadline passed.
park(h) ==
  /\ At(h, "park")
  /\ LET a == call[h].att
         o == call[h].offer
         parked == IsLive(a) /\ IsOpen(o) /\ offer[o].evid = "pending" /\ offer[o].by = a
         after == IF call[h].next = "answer" THEN Idle(h) ELSE Go(h, "completeWrite")
         failed == IF call[h].next = "answer" THEN Idle(h) ELSE Go(h, "close")
     IN  \/ parked /\ call' = after
         \/ Parkable(a, o) /\ RowFree(o) /\ call' = Go(h, "parkWrite")
         \/ ~ parked /\ ~ Parkable(a, o) /\ call' = failed
  /\ UNCHANGED <<owner, lock, offer, att>>

parkWrite(h) ==
  /\ At(h, "parkWrite")
  /\ offer' = [offer EXCEPT ![call[h].offer].evid = "pending", ![call[h].offer].by = call[h].att]
  /\ call' = IF call[h].next = "answer" THEN Idle(h) ELSE Go(h, "completeWrite")
  /\ UNCHANGED <<owner, lock, att>>

\* What validateSaleAttempt and pendingTargetMatches let through.
TargetMatches(a, o) ==
  /\ IsOpen(o) /\ Locked(o)
  /\ offer[o].buyer = att[a].buyer /\ offer[o].rid = att[a].rid
  /\ offer[o].evid = "none" \/ (offer[o].evid = "pending" /\ offer[o].by = a)

\* completeWorldSalePayment, completeDirectSalePayment up to their statement.
complete(h) ==
  /\ At(h, "complete")
  /\ LET a == call[h].att
         o == call[h].offer
     IN  call' =
           IF att[a].st = "completed" THEN Idle(h)
           ELSE IF ~ TargetMatches(a, o) \/ att[a].due THEN Go(h, "close")
           ELSE IF offer[o].ch = "world" /\ offer[o].evid = "none"
                THEN [call EXCEPT ![h].at = "park", ![h].next = "complete"]
           ELSE Go(h, "completeWrite")
  /\ UNCHANGED <<owner, lock, offer, att>>

\* DIRECT_COMPLETION_SQL, WORLD_COMPLETION_SQL: the statement finds everything in place.
Completes(h) ==
  LET a == call[h].att
      o == call[h].offer
  IN  /\ Holds(h) /\ att[a].st = "payment_pending" /\ att[a].final /\ ~ att[a].due
      /\ TargetMatches(a, o)
      /\ offer[o].ch = "world" => offer[o].evid = "pending"

completeWrite(h) ==
  /\ At(h, "completeWrite") /\ RowFree(call[h].offer)
  /\ LET a == call[h].att
         o == call[h].offer
     IN  \/ /\ Completes(h)
            /\ owner' = att[a].buyer /\ lock' = None
            /\ offer' = [offer EXCEPT ![o].st = "claimed"]
            /\ att' = [att EXCEPT ![a].st = "completed", ![a].lease = None]
            /\ call' = Idle(h)
         \/ /\ ~ Completes(h)
            /\ call' = IF att[a].st = "completed" THEN Idle(h) ELSE Go(h, "close")
            /\ UNCHANGED <<owner, lock, offer, att>>

\* CLOSE_SALE_TARGET_SQL for the holder of the lease; a lost lease is a conflict.
closeTarget(h, state) ==
  LET a == call[h].att
      o == att[a].offer
  IN  /\ RowFree(o)
      /\ IF Holds(h)
         THEN /\ att' = [att EXCEPT ![a].st = state, ![a].lease = None]
              /\ IF offer[o].ch = "world" /\ att[a].tx /\ offer[o].st = "open"
                    /\ offer[o].buyer = att[a].buyer
                    /\ offer[o].evid \in {"none", "pending"} /\ offer[o].by \in {0, a}
                 THEN offer' = [offer EXCEPT ![o].evid = state, ![o].by = a] /\ UNCHANGED lock
                 ELSE Release(o, att[a].buyer)
         ELSE UNCHANGED <<att, offer, lock>>
      /\ call' = Idle(h)
      /\ UNCHANGED owner

founderReview(h) == At(h, "close") /\ closeTarget(h, "founder_review")

\* The recovery deadline of an attempt passes.
deadlinePasses(a) ==
  /\ IsLive(a) /\ ~ att[a].due
  /\ att' = [att EXCEPT ![a].due = TRUE]
  /\ UNCHANGED <<owner, lock, offer, call>>

\* closeExpiredX402: the recovery worker takes a due attempt and closes it.
acquireDue(h, a) ==
  /\ call[h] = None /\ IsLive(a) /\ att[a].due
  /\ att' = [att EXCEPT ![a].lease = h]
  /\ call' = [call EXCEPT ![h] = [at |-> "expire", offer |-> att[a].offer, rid |-> att[a].rid,
        buyer |-> att[a].buyer, att |-> a, next |-> None]]
  /\ UNCHANGED <<owner, lock, offer>>

closeExpired(h) == At(h, "expire") /\ closeTarget(h, "expired")

\* appendLateFinality: an expired attempt whose transfer turns up.
lateFinality(a) ==
  /\ att[a] # None /\ att[a].st = "expired" /\ att[a].paid # "no"
  /\ att' = [att EXCEPT ![a].st = "founder_review", ![a].tx = TRUE, ![a].final = TRUE]
  /\ UNCHANGED <<owner, lock, offer, call>>

\* A handler dies, or an answer or a lease is lost: an open UPDATE is undone.
crash(h) ==
  /\ call[h] # None
  /\ call' = Idle(h)
  /\ UNCHANGED <<owner, lock, offer, att>>

Next ==
  \/ \E o \in Offers, ch \in Channels, to \in Residents \cup {None} : createOffer(o, ch, to)
  \/ \E to \in Residents : giveProperty(to)
  \/ \E b \in Residents, o \in Offers : reserve(b, o)
  \/ \E o \in Offers : reservationEnds(o) \/ cancel(o)
  \/ \E h \in Handlers, b \in Residents, o \in Offers : claim(h, b, o)
  \/ \E h \in Handlers, a \in Attempts : resume(h, a) \/ acquireDue(h, a)
  \/ \E h \in Handlers :
       \/ createAttempt(h) \/ acquireLease(h) \/ settle(h) \/ bindEvidence(h)
       \/ answerPending(h) \/ classifyFinal(h) \/ invalidateSale(h) \/ closeInvalid(h)
       \/ park(h) \/ parkWrite(h) \/ complete(h) \/ completeWrite(h)
       \/ founderReview(h) \/ closeExpired(h) \/ crash(h)
  \/ \E a \in Attempts : deadlinePasses(a) \/ lateFinality(a)

Spec == Init /\ [][Next]_vars

-----------------------------------------------------------------------------
(* Properties                                                              *)

\* From the moment a buyer's money moves inside his reservation until the
\* attempt is completed or closed, whatever else is read, reserved, canceled,
\* parked or retried meanwhile: the offer stays open, his, under the same
\* reservation, and the thing stays the seller's and locked for it.
PaidKeepsTarget ==
  \A a \in Attempts : IsLive(a) /\ att[a].paid = "in" =>
    LET o == att[a].offer IN
    IsOpen(o) /\ Locked(o) /\ offer[o].buyer = att[a].buyer /\ offer[o].rid = att[a].rid

\* A thing is sold exactly as it was paid for: a claimed offer has one completed
\* attempt, of its buyer, paid inside the reservation, and no other attempt is
\* completed; an open offer, and no other, locks its seller's thing; and the
\* evidence shown on an offer agrees with the attempt it names (a parking that
\* commits beside an invalidation stays pending until it is synchronized).
SoldAsPaid ==
  /\ \A a \in Attempts : att[a] # None /\ att[a].st = "completed" =>
       LET o == offer[att[a].offer] IN
       /\ att[a].paid = "in" /\ o.st = "claimed" /\ o.buyer = att[a].buyer /\ o.rid = att[a].rid
       /\ o.ch = "world" => o.by = a
  /\ \A o \in Offers : offer[o] # None =>
       /\ offer[o].st = "claimed" =>
            \E a \in Attempts : {b \in Attempts : att[b] # None /\ att[b].offer = o
                                                 /\ att[b].st = "completed"} = {a}
       /\ offer[o].st = "open" => Locked(o)
       /\ lock = o => offer[o].st = "open"
       /\ offer[o].by # 0 =>
            LET st == att[offer[o].by].st IN
            \/ offer[o].evid = "pending" /\ st \in LiveStates \cup {"invalid", "completed"}
            \/ offer[o].evid = st
            \/ offer[o].evid = "expired" /\ st = "founder_review"
=============================================================================

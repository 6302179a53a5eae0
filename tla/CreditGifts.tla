------------------------------ MODULE CreditGifts ------------------------------
(***************************************************************************)
(* Credit bought through PayPal and the disputes over it: the custody of a *)
(* bought gift while it is accepted, refused or redirected and while       *)
(* PayPal reports disputes, repeated and in any order, before or after the *)
(* capture itself is credited (src/db/schema.sql deliver_paypal_credit,    *)
(* apply_paypal_credit_dispute, reconcile_paypal_credit_dispute,           *)
(* resolve_paypal_credit_dispute_review; src/src/prepaid-credit.ts).       *)
(* Each of them is one transaction under one advisory lock or the lock of  *)
(* the gift's row, so each is one step.  A dispute event whose terms       *)
(* change under its id is refused and leaves no trace: it is no step.      *)
(***************************************************************************)
EXTENDS Integers, Sequences, FiniteSets

CONSTANTS
  Captures,     \* PayPal captures of orders
  GiftCaptures, \* those whose order is a gift
  MaxDisputes,  \* disputes, numbered in the order of their ids
  MaxEvents,    \* bound: dispute events ever recorded
  Listed,       \* the sets of captures that an event may list
  Times,        \* resource_updated_at
  Residents,
  Requests,     \* request ids of redirects
  None

VARIABLES
  credited, \* captures with a purchase entry and a credited event
  gift,     \* city_credit_gifts, by the capture that funds it
  moved,    \* gift_redirect entries: <<capture, request, counterparty>>
  history,  \* paypal_credit_dispute_events in the order of event_sequence
  dispute,  \* paypal_credit_disputes
  receipts  \* dispute entries: <<event or 0 for the review, dispute, capture, outcome>>

vars == <<credited, gift, moved, history, dispute, receipts>>

Disputes == 1 .. MaxDisputes

Outcomes == {"seller", "against", "ambiguous"}
Terms ==
  [dispute : Disputes, kind : {"CREATED", "UPDATED"}, outcome : {None},
   time : Times, captures : Listed]
  \cup
  [dispute : Disputes, kind : {"RESOLVED"}, outcome : Outcomes,
   time : Times, captures : Listed]
States == {"open", "resolved_seller", "resolved_against_seller", "resolution_review"}
Decisions == {"seller_favour", "buyer_favour"}
Gifts == [status : {"pending", "accepted", "refused", "frozen", "revoked"},
          blocked : BOOLEAN, recipient : Residents]
Projections == [state : States, current : 1 .. MaxEvents, review : Decisions \cup {None}]

\* Times are numbers, and the absent row is not a row.
ASSUME GiftAssumption ==
  /\ MaxDisputes \in Nat /\ MaxEvents \in Nat /\ Times \subseteq Int
  /\ GiftCaptures \subseteq Captures
  /\ None \notin Gifts \cup Projections \cup Decisions \cup Outcomes

\* Types; a gift is of a credited capture, a dispute stands at an event.
TypeOK ==
  /\ credited \subseteq Captures
  /\ gift \in [Captures -> Gifts \cup {None}]
  /\ \A c \in Captures : gift[c] # None <=> c \in credited \cap GiftCaptures
  /\ moved \subseteq Captures \X Requests \X Residents
  /\ history \in Seq(Terms) /\ Len(history) <= MaxEvents
  /\ dispute \in [Disputes -> Projections \cup {None}]
  /\ \A d \in Disputes : dispute[d] # None => dispute[d].current \in DOMAIN history
  /\ receipts \subseteq (0 .. MaxEvents) \X Disputes \X Captures \X {"stale", "applied"}

Init ==
  /\ credited = {} /\ gift = [c \in Captures |-> None] /\ moved = {}
  /\ history = <<>> /\ dispute = [d \in Disputes |-> None] /\ receipts = {}

-----------------------------------------------------------------------------
(* The order of a dispute's events and the state each asks for             *)

lifecycleRank(kind) ==
  CASE kind = "CREATED" -> 1 [] kind = "UPDATED" -> 2 [] kind = "RESOLVED" -> 3

\* ROW(resource_updated_at, lifecycle rank, event_sequence) of i before that of j.
Before(h, i, j) ==
  \/ h[i].time < h[j].time
  \/ /\ h[i].time = h[j].time
     /\ \/ lifecycleRank(h[i].kind) < lifecycleRank(h[j].kind)
        \/ lifecycleRank(h[i].kind) = lifecycleRank(h[j].kind) /\ i < j

desiredState(e) ==
  CASE e.kind # "RESOLVED" -> "open"
    [] e.outcome = "seller" -> "resolved_seller"
    [] e.outcome = "against" -> "resolved_against_seller"
    [] OTHER -> "resolution_review"

EventsOf(h, d) == {i \in DOMAIN h : h[i].dispute = d}
\* durable_capture: every capture any event of the dispute listed.
DurableCaptures(h, d) == UNION {h[i].captures : i \in EventsOf(h, d)}

\* Disputes that block the gift of c.
Blocking(h, D, c) ==
  {d \in Disputes : /\ D[d] # None /\ D[d].state \in {"open", "resolution_review"}
                    /\ c \in DurableCaptures(h, d)}

-----------------------------------------------------------------------------
(* Reconciliation                                                          *)

\* Mutant: a dispute won frees the gift although another one is open.
MutantOther(h, D, d, c) == FALSE

\* has_other_open: another dispute over c is open or undecided.
OtherOpen(h, D, d, c) == Blocking(h, D, c) \ {d} # {}

\* What the state of a dispute does to a gift; other: another dispute blocks it.
Custody(state, g, other) ==
  IF g = None THEN g ELSE
  CASE state \in {"open", "resolution_review"} /\ g.status = "pending" ->
         [g EXCEPT !.status = "frozen", !.blocked = TRUE]
    [] state \in {"open", "resolution_review"} /\ g.status = "refused" ->
         [g EXCEPT !.blocked = TRUE]
    [] state = "resolved_seller" /\ ~other /\ g.status = "frozen" ->
         [g EXCEPT !.status = "pending", !.blocked = FALSE]
    [] state = "resolved_seller" /\ ~other /\ g.status = "refused" ->
         [g EXCEPT !.blocked = FALSE]
    [] state = "resolved_against_seller" /\ g.status \in {"pending", "refused", "frozen"} ->
         [g EXCEPT !.status = "revoked", !.blocked = TRUE]
    [] OTHER -> g

\* One loop over the bindings of dispute d that have no receipt, over the
\* state s = [gift, receipts]: an event older than the current one leaves the
\* gift alone; the current event and the founder's review apply the state.
reconcile(h, D, cred, s, d) ==
  LET purchases == DurableCaptures(h, d) \cap cred
      fresh(src, c) == ~ \E r \in s.receipts : r[1] = src /\ r[2] = d /\ r[3] = c
      current == D[d].current
      byEvent == [c \in Captures |->
        IF c \in purchases /\ fresh(current, c)
        THEN Custody(D[d].state, s.gift[c], OtherOpen(h, D, d, c)) ELSE s.gift[c]]
      byReview == [c \in Captures |->
        IF c \in purchases /\ D[d].review # None /\ fresh(0, c)
        THEN Custody(D[d].state, byEvent[c], OtherOpen(h, D, d, c)) ELSE byEvent[c]]
      event == {<<b[1], d, b[2], IF Before(h, b[1], current) THEN "stale" ELSE "applied">> :
                b \in {x \in EventsOf(h, d) \X purchases : fresh(x[1], x[2])}}
      review == IF D[d].review = None THEN {}
                ELSE {<<0, d, c, "applied">> : c \in {p \in purchases : fresh(0, p)}}
  IN  [gift |-> byReview, receipts |-> s.receipts \cup event \cup review]

-----------------------------------------------------------------------------
(* Steps                                                                   *)

\* The disputes that already list c are reconciled one after the other.
Staged(c, s) ==
  LET after[d \in 0 .. MaxDisputes] ==
        IF d = 0 THEN s
        ELSE IF c \in DurableCaptures(history, d)
             THEN reconcile(history, dispute, credited \cup {c}, after[d - 1], d)
             ELSE after[d - 1]
  IN  after[MaxDisputes]

\* deliver_paypal_credit for one capture, from the capture route or from the
\* webhook, again after a lost answer too: the purchase is recorded once.
deliver(c) ==
  LET g0 == IF c \in GiftCaptures /\ c \notin credited
            THEN {[status |-> "pending", blocked |-> FALSE, recipient |-> r] : r \in Residents}
            ELSE {gift[c]}
  IN  \E g \in g0 :
        LET s1 == Staged(c, [gift |-> [gift EXCEPT ![c] = g], receipts |-> receipts])
        IN  /\ gift' = s1.gift /\ receipts' = s1.receipts
            /\ credited' = credited \cup {c}
            /\ UNCHANGED <<moved, history, dispute>>

\* Mutant: the dispute follows the event that arrived last.
MutantProject(h, D, e) ==
  [D EXCEPT ![e.dispute] = [state |-> desiredState(e), current |-> Len(h), review |-> None]]

\* Mutant: the projection names the event before.
MutantProjectBefore(h, D, e) ==
  [D EXCEPT ![e.dispute] = [state |-> desiredState(e), current |-> Len(h) - 1, review |-> None]]

\* The projection after event e: moved only by an event that is later than its
\* current one, and an adverse outcome stays.
Project(h, D, e) ==
  LET d == e.dispute
      n == Len(h)
  IN  IF D[d] = None
      THEN [D EXCEPT ![d] = [state |-> desiredState(e), current |-> n, review |-> None]]
      ELSE IF ~ Before(h, D[d].current, n) THEN D
      ELSE IF D[d].state = "resolved_against_seller"
           THEN [D EXCEPT ![d].current = n]
           ELSE [D EXCEPT ![d].state = desiredState(e), ![d].current = n]

\* apply_paypal_credit_dispute: a first delivery of event e is recorded, unless
\* the founder has decided or another resolution of that time says otherwise.
applyDispute(e) ==
  LET h == Append(history, e)
      D == Project(h, dispute, e)
      s1 == reconcile(h, D, credited, [gift |-> gift, receipts |-> receipts], e.dispute)
  IN  /\ Len(history) < MaxEvents
      /\ dispute[e.dispute] # None => dispute[e.dispute].review = None
      /\ e.kind = "RESOLVED" =>
           ~ \E i \in EventsOf(history, e.dispute) :
                /\ history[i].kind = "RESOLVED" /\ history[i].time = e.time
                /\ history[i].outcome # e.outcome
      /\ history' = h /\ dispute' = D
      /\ gift' = s1.gift /\ receipts' = s1.receipts
      /\ UNCHANGED <<credited, moved>>

\* A repeated delivery only reconciles again.
repeatDispute(i) ==
  LET s1 == reconcile(history, dispute, credited, [gift |-> gift, receipts |-> receipts],
                      history[i].dispute)
  IN  /\ gift' = s1.gift /\ receipts' = s1.receipts
      /\ UNCHANGED <<credited, moved, history, dispute>>

\* resolve_paypal_credit_dispute_review; the same decision again changes
\* nothing, the opposite one is refused.
resolveReview(d, decision) ==
  /\ dispute[d] # None /\ dispute[d].review = None
  /\ dispute[d].state = "resolution_review"
  /\ LET D == [dispute EXCEPT
           ![d].state = IF decision = "seller_favour" THEN "resolved_seller"
                        ELSE "resolved_against_seller",
           ![d].review = decision]
         s1 == reconcile(history, D, credited, [gift |-> gift, receipts |-> receipts], d)
     IN  dispute' = D /\ gift' = s1.gift /\ receipts' = s1.receipts
  /\ UNCHANGED <<credited, moved, history>>

acceptCreditGift(c) ==
  /\ gift[c] # None /\ gift[c].status = "pending" /\ ~ gift[c].blocked
  /\ gift' = [gift EXCEPT ![c].status = "accepted"]
  /\ UNCHANGED <<credited, moved, history, dispute, receipts>>

\* A frozen gift may be refused; it stays blocked.
refuseCreditGift(c) ==
  /\ gift[c] # None /\ gift[c].status \in {"pending", "frozen"}
  /\ gift' = [gift EXCEPT ![c].status = "refused"]
  /\ UNCHANGED <<credited, moved, history, dispute, receipts>>

\* By the holder of the claim key; a request id moves the gift once.
redirectCreditGift(c, to, request) ==
  /\ gift[c] # None /\ gift[c].status \in {"pending", "refused"}
  /\ ~ gift[c].blocked /\ gift[c].recipient # to
  /\ ~ \E r \in Residents : <<c, request, r>> \in moved
  /\ gift[c].status = "refused" => Blocking(history, dispute, c) = {}
  /\ gift' = [gift EXCEPT ![c].recipient = to, ![c].status = "pending"]
  /\ moved' = moved \cup {<<c, request, to>>}
  /\ UNCHANGED <<credited, history, dispute, receipts>>

Next ==
  \/ \E c \in Captures : deliver(c)
  \/ \E e \in Terms : applyDispute(e)
  \/ \E i \in DOMAIN history : repeatDispute(i)
  \/ \E d \in Disputes, decision \in Decisions : resolveReview(d, decision)
  \/ \E c \in GiftCaptures : acceptCreditGift(c) \/ refuseCreditGift(c)
  \/ \E c \in GiftCaptures, to \in Residents, request \in Requests :
       redirectCreditGift(c, to, request)

Spec == Init /\ [][Next]_vars

-----------------------------------------------------------------------------
(* Properties                                                              *)

Adverse(c) ==
  \E d \in Disputes : /\ dispute[d] # None /\ dispute[d].state = "resolved_against_seller"
                      /\ c \in DurableCaptures(history, d)

\* Whatever the order in which captures, dispute events, reviews and the
\* resident's answers arrive: a gift that an open or undecided dispute is about
\* can be neither accepted nor redirected, one that no such dispute is about is
\* not held back, and a gift not yet accepted is revoked exactly when a dispute
\* over it was lost (require_city_credit_gift_purchase asks this in part, when
\* a transaction commits).
GiftFollowsDisputes ==
  \A c \in GiftCaptures \cap credited :
    LET g == gift[c] IN
    /\ Blocking(history, dispute, c) # {} =>
         \/ g.status \in {"frozen", "accepted", "revoked"}
         \/ g.status = "refused" /\ g.blocked
    /\ Blocking(history, dispute, c) = {} =>
         g.status # "frozen" /\ (g.status \in {"pending", "refused"} => ~ g.blocked)
    /\ g.status # "accepted" => (g.status = "revoked" <=> Adverse(c))

\* Every event and review of a dispute has one receipt for each purchase the
\* dispute is about, whichever came first; the dispute stands at its latest
\* event, and is in the state that event asks for unless it was lost or decided
\* before.
DisputeAccounted ==
  \A d \in Disputes : dispute[d] # None =>
    LET about == DurableCaptures(history, d) \cap credited
        sources == EventsOf(history, d)
                     \cup (IF dispute[d].review = None THEN {} ELSE {0})
        current == dispute[d].current
    IN  /\ \A src \in sources, c \in about :
             Cardinality({r \in receipts : r[1] = src /\ r[2] = d /\ r[3] = c}) = 1
        /\ \A i \in EventsOf(history, d) \ {current} : Before(history, i, current)
        /\ \/ dispute[d].review # None
           \/ dispute[d].state = "resolved_against_seller"
           \/ dispute[d].state = desiredState(history[current])
=============================================================================

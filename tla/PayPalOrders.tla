------------------------------ MODULE PayPalOrders ------------------------------
(***************************************************************************)
(* The buying of city credit through PayPal: handlers of POST .../orders,  *)
(* .../allowances and .../orders/:id/capture, and PayPal's webhooks        *)
(* (src/src/paypal-credit-routes.ts, paypal-credit-store.ts,               *)
(* paypal-credit-webhook.ts, schema.sql deliver_paypal_credit).  A handler *)
(* stops between its statements and its calls of PayPal; every answer, the *)
(* buyer's included, may be lost, and a request may be sent again or twice *)
(* at once.  PayPal answers a repeated request id with the order it made,  *)
(* but may forget it.  Only what one intent is charged and credited is     *)
(* kept; amounts, recipients and the catalog of plans are fixed.           *)
(***************************************************************************)
EXTENDS Integers, FiniteSets

CONSTANTS
  Intents,     \* request ids, each of one intent
  Gifts,       \* intents whose delivery is a gift
  Allowances,  \* intents of kind allowance; the rest are orders for the buyer himself
  Handlers,    \* concurrent requests
  MaxOrders,   \* bound: orders and subscriptions PayPal ever makes
  MaxSales,    \* bound: weekly sales of a subscription
  None

VARIABLES
  intent,   \* paypal_credit_intents: None or [status, remote]
  call,     \* per handler: None or where it stands
  made,     \* at PayPal: <<remote, intent>> of every order or subscription
  known,    \* at PayPal: the remote it answers a repeated request with
  offered,  \* <<intent, remote>>: approval URLs that reached a buyer
  keyed,    \* gifts whose claim key reached the buyer
  approved, \* remotes the buyer approved
  charges,  \* at PayPal: <<remote, n>>, captures (n = 1) and weekly sales
  credits   \* purchase entries: <<intent, remote, n>>

vars == <<intent, call, made, known, offered, keyed, approved, charges, credits>>

Remotes == 1..MaxOrders
Done(i) == IF i \in Allowances THEN "active" ELSE "captured"
Steps == {"create", "attach", "capture", "deliver"}

\* Types.
TypeOK ==
  /\ \A i \in Intents : intent[i] # None =>
       /\ intent[i].status \in {"created", "approval_pending", Done(i)}
       /\ intent[i].remote \in Remotes \cup {None}
       /\ intent[i].status = "created" <=> intent[i].remote = None
  /\ \A h \in Handlers : call[h] # None =>
       /\ call[h].at \in Steps /\ call[h].intent \in Intents
       /\ call[h].remote \in Remotes \cup {None} /\ call[h].key \in BOOLEAN
  /\ made \subseteq Remotes \X Intents /\ offered \subseteq Intents \X Remotes
  /\ keyed \subseteq Gifts /\ approved \subseteq Remotes
  /\ charges \subseteq Remotes \X (1..(MaxSales + 1))
  /\ credits \subseteq Intents \X Remotes \X (1..(MaxSales + 1))

Init ==
  /\ intent = [i \in Intents |-> None] /\ call = [h \in Handlers |-> None]
  /\ made = {} /\ known = [i \in Intents |-> None]
  /\ offered = {} /\ keyed = {} /\ approved = {} /\ charges = {} /\ credits = {}

-----------------------------------------------------------------------------
(* createOrder and createAllowance                                         *)

At(step, i, remote, key) == [at |-> step, intent |-> i, remote |-> remote, key |-> key]

\* beginPayPalCreditIntent inserts the intent or finds it.  A finished intent
\* and a gift whose key is gone are refused; an attached remote is offered
\* again; otherwise the handler goes on to PayPal.
beginIntent(h, i) ==
  /\ call[h] = None
  /\ \/ /\ intent[i] = None
        /\ intent' = [intent EXCEPT ![i] = [status |-> "created", remote |-> None]]
        /\ call' = [call EXCEPT ![h] = At("create", i, None, i \in Gifts)]
        /\ UNCHANGED offered
     \/ /\ intent[i] # None /\ i \notin Gifts
        /\ intent[i].status = "approval_pending"
        /\ offered' = offered \cup {<<i, intent[i].remote>>}
        /\ UNCHANGED <<intent, call>>
     \/ /\ intent[i] # None /\ i \notin Gifts
        /\ intent[i].status = "created"
        /\ call' = [call EXCEPT ![h] = At("create", i, None, FALSE)]
        /\ UNCHANGED <<intent, offered>>
  /\ UNCHANGED <<made, known, keyed, approved, charges, credits>>

\* createPayPalCreditOrder, createWeeklyAllowanceSubscription: PayPal makes the
\* remote or answers with the one it knows for this request id.
createRemote(h) ==
  /\ call[h] # None /\ call[h].at = "create"
  /\ LET i == call[h].intent
         new == Cardinality(made) + 1
         o == IF known[i] # None THEN known[i] ELSE new
     IN  /\ o \in Remotes
         /\ made' = made \cup {<<o, i>>}
         /\ known' = [known EXCEPT ![i] = o]
         /\ call' = [call EXCEPT ![h] = [@ EXCEPT !.at = "attach", !.remote = o]]
  /\ UNCHANGED <<intent, offered, keyed, approved, charges, credits>>

\* Mutant: the newest remote replaces the attached one.
MutantAttach(i, o) == intent[i].status \in {"created", "approval_pending"}

\* The WHERE of attachRemote.
Attachable(i, o) ==
  /\ intent[i].remote \in {None, o}
  /\ intent[i].status \in {"created", "approval_pending"}

\* attachRemote and the answer: URL and, to the creator of a gift, the key.
\* The answer reaches the buyer or is lost.
attachRemote(h) ==
  /\ call[h] # None /\ call[h].at = "attach"
  /\ LET i == call[h].intent
         o == call[h].remote
     IN  \/ /\ Attachable(i, o)
            /\ intent' = [intent EXCEPT ![i] = [status |-> "approval_pending", remote |-> o]]
            /\ \/ /\ offered' = offered \cup {<<i, o>>}
                  /\ keyed' = IF call[h].key THEN keyed \cup {i} ELSE keyed
               \/ UNCHANGED <<offered, keyed>>
         \/ /\ ~ Attachable(i, o)
            /\ UNCHANGED <<intent, offered, keyed>>
  /\ call' = [call EXCEPT ![h] = None]
  /\ UNCHANGED <<made, known, approved, charges, credits>>

-----------------------------------------------------------------------------
(* The buyer and PayPal                                                    *)

\* The buyer approves what he was offered; a subscription then runs by itself.
approve(i, o) ==
  /\ <<i, o>> \in offered
  /\ approved' = approved \cup {o}
  /\ UNCHANGED <<intent, call, made, known, offered, keyed, charges, credits>>

\* The week's sale of an approved subscription.
renew(o, n) ==
  /\ o \in approved /\ \E i \in Allowances : <<o, i>> \in made
  /\ n = Cardinality({c \in charges : c[1] = o}) + 1 /\ n <= MaxSales
  /\ charges' = charges \cup {<<o, n>>}
  /\ UNCHANGED <<intent, call, made, known, offered, keyed, approved, credits>>

\* PayPal's memory of request ids ends.
forget(i) ==
  /\ known[i] # None
  /\ known' = [known EXCEPT ![i] = None]
  /\ UNCHANGED <<intent, call, made, offered, keyed, approved, charges, credits>>

-----------------------------------------------------------------------------
(* captureOrder and the webhook                                            *)

\* captureOrder reads the intent: o must be its order; a captured one is only
\* answered with its receipt.
readCapture(h, i, o) ==
  /\ call[h] = None /\ i \notin Allowances
  /\ intent[i] # None /\ intent[i].remote = o /\ intent[i].status # "captured"
  /\ call' = [call EXCEPT ![h] = At("capture", i, o, FALSE)]
  /\ UNCHANGED <<intent, made, known, offered, keyed, approved, charges, credits>>

\* capturePayPalCreditOrder: PayPal charges an approved order once.
captureRemote(h) ==
  /\ call[h] # None /\ call[h].at = "capture"
  /\ call[h].remote \in approved
  /\ charges' = charges \cup {<<call[h].remote, 1>>}
  /\ call' = [call EXCEPT ![h] = [@ EXCEPT !.at = "deliver"]]
  /\ UNCHANGED <<intent, made, known, offered, keyed, approved, credits>>

\* deliver_paypal_credit of charge n of o for intent i: refused unless o is the
\* attached remote; the purchase and the event are recorded once (by source key).
Delivered(i, o, n) ==
  /\ intent[i].remote = o
  /\ credits' = credits \cup {<<i, o, n>>}
  /\ intent' = [intent EXCEPT ![i].status = Done(i)]

deliverCapture(h) ==
  /\ call[h] # None /\ call[h].at = "deliver"
  /\ \/ Delivered(call[h].intent, call[h].remote, 1)
     \/ intent[call[h].intent].remote # call[h].remote /\ UNCHANGED <<credits, intent>>
  /\ call' = [call EXCEPT ![h] = None]
  /\ UNCHANGED <<made, known, offered, keyed, approved, charges>>

\* applyCaptureEvent and applyRenewalEvent, at any time after the charge and
\* any number of times; 503 while no intent has the remote.
webhook(o, n) ==
  /\ <<o, n>> \in charges
  /\ \E i \in Intents : intent[i] # None /\ Delivered(i, o, n)
  /\ UNCHANGED <<call, made, known, offered, keyed, approved, charges>>

\* A handler dies, or the answer of PayPal or of the database is lost: what was
\* done stays done.
fail(h) ==
  /\ call[h] # None
  /\ call' = [call EXCEPT ![h] = None]
  /\ UNCHANGED <<intent, made, known, offered, keyed, approved, charges, credits>>

Next ==
  \/ \E h \in Handlers :
       createRemote(h) \/ attachRemote(h) \/ captureRemote(h) \/ deliverCapture(h) \/ fail(h)
  \/ \E h \in Handlers, i \in Intents : beginIntent(h, i)
  \/ \E h \in Handlers, i \in Intents, o \in Remotes : readCapture(h, i, o)
  \/ \E i \in Intents : forget(i)
  \/ \E i \in Intents, o \in Remotes : approve(i, o)
  \/ \E o \in Remotes, n \in 1..MaxSales : renew(o, n)
  \/ \E o \in Remotes, n \in 1..(MaxSales + 1) : webhook(o, n)

Spec == Init /\ [][Next]_vars

-----------------------------------------------------------------------------
(* Properties                                                              *)

\* Whatever is lost, repeated or forgotten, an intent is charged through one
\* order or subscription only, the one the city has attached, so that every
\* charge is credited or still can be by its webhook; every credit is of a
\* charge; a finished order has its credit; and a gift is charged only when its
\* buyer holds the claim key, without which nobody could redirect it.
ChargedAsOffered ==
  /\ \A c \in charges : \E i \in Intents :
       /\ <<c[1], i>> \in made
       /\ intent[i].remote = c[1]
       /\ i \in Gifts => i \in keyed
  /\ \A e \in credits : <<e[2], e[3]>> \in charges /\ <<e[2], e[1]>> \in made
  /\ \A i \in Intents \ Allowances :
       intent[i] # None /\ intent[i].status = "captured" =>
         Cardinality({e \in credits : e[1] = i}) = 1
=============================================================================

------------------------------ MODULE MarketProofs ------------------------------
(***************************************************************************)
(* Proofs about the market components of MCMarket.                         *)
(***************************************************************************)
EXTENDS MCMarket, FiniteSetTheorems, NaturalsInduction, TLAPS

-----------------------------------------------------------------------------
(* PayPalOrders: the inductive invariant                                   *)

Remotes == 1 .. OrderLimit
Intent == [status : {"created", "approval_pending", "captured", "active"},
           remote : Remotes \cup {None}]
Request == [at : Buying!Steps, intent : Bought, remote : Remotes \cup {None}, key : BOOLEAN]

\* The rows of the city, its requests and what PayPal answers with are of their types.
BuyTyped ==
  /\ Buying!TypeOK
  /\ intent \in [Bought -> Intent \cup {None}]
  /\ call \in [Hands -> Request \cup {None}]
  /\ known \in [Bought -> Remotes \cup {None}]

\* PayPal numbers what it makes, each for one intent, and remembers only what it made.
Numbered ==
  /\ IsFiniteSet(made)
  /\ \A p \in made : p[1] <= Cardinality(made)
  /\ \A p, q \in made : p[1] = q[1] => p = q
  /\ \A i \in Bought : known[i] # None => <<known[i], i>> \in made

\* The remote of an intent was made for it.
AttachedIsMade ==
  \A i \in Bought : intent[i] # None /\ intent[i].remote # None => <<intent[i].remote, i>> \in made

\* Where a request stands, and what it knows of its intent.
RequestFollows(q) ==
  /\ intent[q.intent] # None
  /\ q.at \in {"create", "attach"} /\ q.intent \in Presented => q.key
  /\ q.key => q.intent \in Presented
  /\ q.at = "attach" => <<q.remote, q.intent>> \in made
  /\ q.at \in {"capture", "deliver"} =>
       /\ q.intent \notin Weekly /\ q.remote # None
       /\ intent[q.intent].remote = q.remote
  /\ q.at = "deliver" => <<q.remote, 1>> \in charges

\* A buyer is offered only the attached remote, and that of a gift with its key; he
\* approves what he was offered.
OfferedIsAttached ==
  /\ \A x \in offered : /\ intent[x[1]] # None /\ intent[x[1]].remote = x[2]
                        /\ x[1] \in Presented => x[1] \in keyed
  /\ \A o \in approved : \E i \in Bought : <<i, o>> \in offered

\* Approved remotes are charged, an order once.
ChargedIsApproved ==
  /\ \A c \in charges : c[1] \in approved
  /\ \A c \in charges, i \in Bought \ Weekly : <<c[1], i>> \in made => c[2] = 1

\* A credit is of a charge of the attached remote, and a captured order has one.
CreditIsCharged ==
  /\ \A e \in credits : /\ <<e[2], e[3]>> \in charges
                        /\ intent[e[1]] # None /\ intent[e[1]].remote = e[2]
  /\ \A i \in Bought \ Weekly : intent[i] # None /\ intent[i].status = "captured" =>
       \E o \in Remotes : <<i, o, 1>> \in credits

BuyInv ==
  /\ BuyTyped /\ Numbered /\ AttachedIsMade
  /\ \A h \in Hands : call[h] # None => RequestFollows(call[h])
  /\ OfferedIsAttached /\ ChargedIsApproved /\ CreditIsCharged

-----------------------------------------------------------------------------
(* PayPalOrders: the steps                                                 *)

LEMMA BuyInit ==
  ASSUME Buying!Init
  PROVE  BuyInv
<1>1. BuyTyped
  BY DEF Buying!Init, BuyTyped, Buying!TypeOK
<1>2. Numbered
  BY FS_EmptySet DEF Buying!Init, Numbered
<1> QED BY <1>1, <1>2 DEF Buying!Init, BuyInv, AttachedIsMade, OfferedIsAttached,
                         ChargedIsApproved, CreditIsCharged

\* What a request at work knows.
LEMMA AtWork ==
  ASSUME BuyInv, NEW h \in Hands, call[h] # None
  PROVE  /\ call[h] \in Request /\ RequestFollows(call[h])
         /\ intent[call[h].intent] \in Intent
  BY DEF BuyInv, BuyTyped, RequestFollows, Request

\* A request that changes only itself.
LEMMA RequestMoves ==
  ASSUME BuyInv, NEW h \in Hands, NEW q \in Request \cup {None},
         call' = [call EXCEPT ![h] = q], q # None => RequestFollows(q),
         UNCHANGED <<intent, made, known, offered, keyed, approved, charges, credits>>
  PROVE  BuyInv'
<1>1. BuyTyped'
  BY BuyingAssumption DEF BuyInv, BuyTyped, Buying!TypeOK, Request, Buying!Remotes, Remotes
<1>2. \A g \in Hands : call'[g] # None => RequestFollows(call[g])'
  BY DEF BuyInv, BuyTyped, RequestFollows
<1> QED BY <1>1, <1>2 DEF BuyInv, Numbered, AttachedIsMade, OfferedIsAttached,
                         ChargedIsApproved, CreditIsCharged

LEMMA FailStep ==
  ASSUME BuyInv, NEW h \in Hands, Buying!fail(h)
  PROVE  BuyInv'
  BY RequestMoves DEF Buying!fail

LEMMA ReadStep ==
  ASSUME BuyInv, NEW h \in Hands, NEW i \in Bought, NEW o \in Remotes, Buying!readCapture(h, i, o)
  PROVE  BuyInv'
<1> DEFINE q == Buying!At("capture", i, o, FALSE)
<1>1. q \in Request
  BY DEF Buying!At, Request, Buying!Steps
<1>2. RequestFollows(q)
  BY BuyingAssumption DEF Buying!At, RequestFollows, Buying!readCapture, Remotes
<1> HIDE DEF q
<1> QED BY <1>1, <1>2, RequestMoves DEF Buying!readCapture, q

LEMMA ForgetStep ==
  ASSUME BuyInv, NEW i \in Bought, Buying!forget(i)
  PROVE  BuyInv'
<1>1. BuyTyped'
  BY DEF BuyInv, BuyTyped, Buying!TypeOK, Buying!forget
<1>2. Numbered'
  BY DEF BuyInv, BuyTyped, Numbered, Buying!forget
<1> QED BY <1>1, <1>2 DEF BuyInv, RequestFollows, AttachedIsMade, OfferedIsAttached,
                         ChargedIsApproved, CreditIsCharged, Buying!forget

LEMMA ApproveStep ==
  ASSUME BuyInv, NEW i \in Bought, NEW o \in Remotes, Buying!approve(i, o)
  PROVE  BuyInv'
<1>1. BuyTyped'
  BY DEF BuyInv, BuyTyped, Buying!TypeOK, Buying!approve, Buying!Remotes, Remotes
<1>2. OfferedIsAttached'
  BY DEF BuyInv, OfferedIsAttached, Buying!approve
<1>3. ChargedIsApproved'
  BY DEF BuyInv, ChargedIsApproved, Buying!approve
<1> QED BY <1>1, <1>2, <1>3 DEF BuyInv, RequestFollows, Numbered, AttachedIsMade,
                               CreditIsCharged, Buying!approve

\* A charge more, of an approved remote; charges of orders are the first.
LEMMA ChargeMore ==
  ASSUME BuyInv, NEW o \in approved, NEW n \in 1 .. (SaleLimit + 1),
         charges' = charges \cup {<<o, n>>},
         \A i \in Bought \ Weekly : <<o, i>> \in made => n = 1,
         UNCHANGED <<intent, made, known, offered, keyed, approved, credits>>
  PROVE  /\ call' = call => BuyInv'
         /\ BuyTyped' /\ (\A h \in Hands : call'[h] # None => RequestFollows(call[h])') => BuyInv'
<1>1. call' = call => BuyTyped'
  BY DEF BuyInv, BuyTyped, Buying!TypeOK, Buying!Remotes, Remotes
<1>2. ChargedIsApproved'
  BY DEF BuyInv, ChargedIsApproved
<1>3. CreditIsCharged'
  BY DEF BuyInv, CreditIsCharged
<1>4. call' = call => \A h \in Hands : call'[h] # None => RequestFollows(call[h])'
  BY DEF BuyInv, RequestFollows
<1>5. Numbered' /\ AttachedIsMade' /\ OfferedIsAttached'
  BY DEF BuyInv, Numbered, AttachedIsMade, OfferedIsAttached
<1> QED BY <1>1, <1>2, <1>3, <1>4, <1>5 DEF BuyInv

LEMMA RenewStep ==
  ASSUME BuyInv, NEW o \in Remotes, NEW n \in 1 .. SaleLimit, Buying!renew(o, n)
  PROVE  BuyInv'
<1>1. PICK w \in Weekly : <<o, w>> \in made
  BY DEF Buying!renew
<1>2. \A i \in Bought \ Weekly : <<o, i>> \in made => n = 1
  BY <1>1 DEF BuyInv, Numbered
<1>3. o \in approved /\ n \in 1 .. (SaleLimit + 1)
  BY BuyingAssumption DEF Buying!renew
<1> QED BY <1>2, <1>3, ChargeMore DEF Buying!renew

LEMMA CaptureStep ==
  ASSUME BuyInv, NEW h \in Hands, Buying!captureRemote(h)
  PROVE  BuyInv'
<1> DEFINE q == call[h]
<1>1. q # None /\ q.at = "capture" /\ q.remote \in approved
  BY DEF Buying!captureRemote
<1>2. q \in Request /\ RequestFollows(q)
  BY <1>1, AtWork
<1>3. PICK n : n = [q EXCEPT !.at = "deliver"]
  OBVIOUS
<1>4. n \in Request /\ n.at = "deliver" /\ n.intent = q.intent /\ n.remote = q.remote /\ n.key = q.key
  BY <1>2, <1>3 DEF Request, Buying!Steps
<1>5. /\ call' = [call EXCEPT ![h] = n] /\ charges' = charges \cup {<<q.remote, 1>>}
      /\ UNCHANGED <<intent, made, known, offered, keyed, approved, credits>>
  BY <1>3 DEF Buying!captureRemote
<1>6. 1 \in 1 .. (SaleLimit + 1)
  BY BuyingAssumption
<1>7. BuyTyped'
  <2>1. call' \in [Hands -> Request \cup {None}]
    BY <1>4, <1>5 DEF BuyInv, BuyTyped
  <2>2. q.remote \in Remotes
    BY <1>1, <1>2 DEF Request, RequestFollows
  <2>3. charges' \subseteq Remotes \X (1 .. (SaleLimit + 1))
    BY <1>5, <1>6, <2>2 DEF BuyInv, BuyTyped, Buying!TypeOK, Buying!Remotes, Remotes
  <2> QED BY <1>5, <2>1, <2>3
          DEF BuyInv, BuyTyped, Buying!TypeOK, Buying!Remotes, Remotes, Request
<1>8. \A g \in Hands : call'[g] # None => RequestFollows(call[g])'
  <2>1. RequestFollows(n)'
    BY <1>1, <1>2, <1>4, <1>5 DEF RequestFollows
  <2>2. ASSUME NEW g \in Hands, g # h, call[g] # None PROVE RequestFollows(call[g])'
    BY <1>5, <2>2 DEF BuyInv, BuyTyped, RequestFollows
  <2>3. \A g \in Hands : call'[g] = IF g = h THEN n ELSE call[g]
    BY <1>5 DEF BuyInv, BuyTyped
  <2> SUFFICES ASSUME NEW g \in Hands, call'[g] # None PROVE RequestFollows(call[g])'
    OBVIOUS
  <2>4. CASE g = h
    BY <2>1, <2>3, <2>4 DEF RequestFollows
  <2>5. CASE g # h
    BY <2>2, <2>3, <2>5
  <2> QED BY <2>4, <2>5
<1> QED BY <1>1, <1>5, <1>6, <1>7, <1>8, ChargeMore

\* The instance counts as this module does.
LEMMA OneCounting == \A S : Buying!Cardinality(S) = Cardinality(S)
  BY DEF Buying!Cardinality, Cardinality

\* PayPal makes a remote with the next number, or answers with one it made.
LEMMA CreateStep ==
  ASSUME BuyInv, NEW h \in Hands, Buying!createRemote(h)
  PROVE  BuyInv'
<1> DEFINE q == call[h]
           i == q.intent
           o == IF known[i] # None THEN known[i] ELSE Cardinality(made) + 1
<1>1. q # None /\ q.at = "create" /\ q \in Request /\ RequestFollows(q)
  BY AtWork DEF Buying!createRemote
<1>2. i \in Bought
  BY <1>1 DEF Request
<1>3. PICK n : n = [q EXCEPT !.at = "attach", !.remote = o]
  OBVIOUS
<1>4. /\ o \in Remotes /\ made' = made \cup {<<o, i>>} /\ known' = [known EXCEPT ![i] = o]
      /\ call' = [call EXCEPT ![h] = n]
      /\ UNCHANGED <<intent, offered, keyed, approved, charges, credits>>
  <2>1. o \in Remotes /\ made' = made \cup {<<o, i>>} /\ known' = [known EXCEPT ![i] = o]
    BY OneCounting DEF Buying!createRemote, Buying!Remotes, Remotes
  <2>2. call' = [call EXCEPT ![h] = [q EXCEPT !.at = "attach", !.remote = o]]
    BY OneCounting, Zenon DEF Buying!createRemote
  <2> QED BY <1>3, <2>1, <2>2 DEF Buying!createRemote
<1>5. n \in Request /\ n.at = "attach" /\ n.intent = i /\ n.remote = o /\ n.key = q.key
  BY <1>1, <1>3, <1>4 DEF Request, Buying!Steps
<1>6. BuyTyped'
  <2>1. call' \in [Hands -> Request \cup {None}]
    BY <1>4, <1>5 DEF BuyInv, BuyTyped
  <2>2. known' \in [Bought -> Remotes \cup {None}]
    BY <1>2, <1>4 DEF BuyInv, BuyTyped
  <2>3. made' \subseteq Remotes \X Bought
    BY <1>2, <1>4 DEF BuyInv, BuyTyped, Buying!TypeOK, Buying!Remotes, Remotes
  <2> QED BY <1>4, <2>1, <2>2, <2>3
          DEF BuyInv, BuyTyped, Buying!TypeOK, Buying!Remotes, Remotes, Request
<1>7. Numbered' /\ (\A p \in made, r \in made' : p[1] = r[1] => p = r)
  <2>1. CASE known[i] # None
    <3>1. made' = made
      BY <1>2, <1>4, <2>1 DEF BuyInv, Numbered
    <3>2. \A j \in Bought : known'[j] = known[j]
      BY <1>2, <1>4, <2>1 DEF BuyInv, BuyTyped
    <3> QED BY <3>1, <3>2 DEF BuyInv, Numbered
  <2>2. CASE known[i] = None
    <3>1. Cardinality(made) \in Nat
      BY FS_CardinalityType DEF BuyInv, Numbered
    <3>2. \A p \in made : p[1] <= Cardinality(made) /\ p[1] \in Remotes
      BY DEF BuyInv, BuyTyped, Numbered, Buying!TypeOK, Buying!Remotes, Remotes
    <3>3. \A p \in made : p[1] # o /\ p[1] <= o
      BY <2>2, <3>1, <3>2 DEF Remotes
    <3>4. <<o, i>> \notin made
      BY <3>3
    <3>5. IsFiniteSet(made') /\ Cardinality(made') = Cardinality(made) + 1
      BY <1>4, <3>4, FS_AddElement DEF BuyInv, Numbered
    <3>6. Cardinality(made') = o
      BY <2>2, <3>5
    <3>7. \A p \in made' : p[1] <= o
      BY <1>4, <3>1, <3>3, <2>2
    <3>8. \A p, r \in made' : p[1] = r[1] => p = r
      BY <1>4, <3>3 DEF BuyInv, Numbered
    <3>9. \A j \in Bought : known'[j] # None => <<known'[j], j>> \in made'
      BY <1>2, <1>4 DEF BuyInv, BuyTyped, Numbered
    <3> QED BY <1>4, <3>5, <3>6, <3>7, <3>8, <3>9 DEF Numbered
  <2> QED BY <2>1, <2>2
<1>8. AttachedIsMade'
  BY <1>4 DEF BuyInv, AttachedIsMade
<1>9. \A g \in Hands : call'[g] # None => RequestFollows(call[g])'
  <2>1. RequestFollows(n)'
    BY <1>1, <1>4, <1>5 DEF RequestFollows
  <2>2. ASSUME NEW g \in Hands, g # h, call[g] # None PROVE RequestFollows(call[g])'
    BY <1>4, <2>2 DEF BuyInv, BuyTyped, RequestFollows
  <2>3. \A g \in Hands : call'[g] = IF g = h THEN n ELSE call[g]
    BY <1>4 DEF BuyInv, BuyTyped
  <2> SUFFICES ASSUME NEW g \in Hands, call'[g] # None PROVE RequestFollows(call[g])'
    OBVIOUS
  <2>4. CASE g = h
    BY <2>1, <2>3, <2>4 DEF RequestFollows
  <2>5. CASE g # h
    BY <2>2, <2>3, <2>5
  <2> QED BY <2>4, <2>5
<1>10. ChargedIsApproved'
  <2>1. \A c \in charges : \E p \in made : p[1] = c[1]
    <3> SUFFICES ASSUME NEW c \in charges PROVE \E p \in made : p[1] = c[1]
      OBVIOUS
    <3>1. PICK j \in Bought : <<j, c[1]>> \in offered
      BY DEF BuyInv, ChargedIsApproved, OfferedIsAttached
    <3>2. intent[j] # None /\ intent[j].remote = c[1] /\ c[1] \in Remotes
      BY <3>1 DEF BuyInv, BuyTyped, Buying!TypeOK, Buying!Remotes, Remotes, OfferedIsAttached
    <3> QED BY <3>2, BuyingAssumption DEF BuyInv, AttachedIsMade, Remotes
  <2>2. \A c \in charges, j \in Bought : <<c[1], j>> \in made' => <<c[1], j>> \in made
    BY <1>7, <2>1
  <2> QED BY <1>4, <2>2 DEF BuyInv, ChargedIsApproved
<1> QED BY <1>4, <1>6, <1>7, <1>8, <1>9, <1>10 DEF BuyInv, OfferedIsAttached, CreditIsCharged

\* An intent is inserted, or an order that waits for approval is offered again.
LEMMA BeginStep ==
  ASSUME BuyInv, NEW h \in Hands, NEW i \in Bought, Buying!beginIntent(h, i)
  PROVE  BuyInv'
<1>1. call[h] = None /\ UNCHANGED <<made, known, keyed, approved, charges, credits>>
  BY DEF Buying!beginIntent
<1>2. CASE /\ intent[i] = None
           /\ intent' = [intent EXCEPT ![i] = [status |-> "created", remote |-> None]]
           /\ call' = [call EXCEPT ![h] = Buying!At("create", i, None, i \in Presented)]
           /\ UNCHANGED offered
  <2> DEFINE row == [status |-> "created", remote |-> None]
             q == Buying!At("create", i, None, i \in Presented)
  <2>1. row \in Intent /\ row # None /\ row.status = "created" /\ row.remote = None
    BY BuyingAssumption DEF Intent, Remotes
  <2>2. /\ q \in Request /\ q.at = "create" /\ q.intent = i /\ q.remote = None
        /\ q.key = (i \in Presented)
    BY DEF Buying!At, Request, Buying!Steps
  <2>3. /\ intent' \in [Bought -> Intent \cup {None}]
        /\ \A j \in Bought : intent'[j] = IF j = i THEN row ELSE intent[j]
    BY <1>2, <2>1 DEF BuyInv, BuyTyped
  <2>4. /\ call' \in [Hands -> Request \cup {None}]
        /\ \A g \in Hands : call'[g] = IF g = h THEN q ELSE call[g]
    BY <1>2, <2>2 DEF BuyInv, BuyTyped
  <2> HIDE DEF row, q
  <2>5. BuyTyped'
    <3>1. \A j \in Bought : intent'[j] # None =>
            /\ intent'[j].status \in {"created", "approval_pending", Buying!Done(j)}
            /\ intent'[j].remote \in Remotes \cup {None}
            /\ intent'[j].status = "created" <=> intent'[j].remote = None
      BY <2>1, <2>3 DEF BuyInv, BuyTyped, Buying!TypeOK, Buying!Remotes, Remotes
    <3>2. \A g \in Hands : call'[g] # None => call'[g] \in Request
      BY <2>4
    <3> QED BY <1>1, <1>2, <2>3, <2>4, <3>1, <3>2
            DEF BuyInv, BuyTyped, Buying!TypeOK, Buying!Remotes, Remotes, Request
  <2>6. \A j \in Bought : intent[j] # None => intent'[j] = intent[j]
    BY <1>2, <2>3
  <2>7. AttachedIsMade'
    BY <1>1, <2>1, <2>3 DEF BuyInv, AttachedIsMade
  <2>8. \A g \in Hands : call'[g] # None => RequestFollows(call[g])'
    <3>1. RequestFollows(q)'
      BY <2>1, <2>2, <2>3 DEF RequestFollows
    <3>2. ASSUME NEW g \in Hands, g # h, call[g] # None PROVE RequestFollows(call[g])'
      <4>1. call[g].intent \in Bought /\ RequestFollows(call[g])
        BY <3>2, AtWork DEF Request
      <4> QED BY <1>1, <2>4, <2>6, <3>2, <4>1 DEF RequestFollows
    <3> SUFFICES ASSUME NEW g \in Hands, call'[g] # None PROVE RequestFollows(call[g])'
      OBVIOUS
    <3>3. CASE g = h
      BY <2>4, <3>1, <3>3 DEF RequestFollows
    <3>4. CASE g # h
      BY <2>4, <3>2, <3>4
    <3> QED BY <3>3, <3>4
  <2>9. OfferedIsAttached'
    BY <1>1, <1>2, <2>6 DEF BuyInv, BuyTyped, Buying!TypeOK, OfferedIsAttached
  <2>10. CreditIsCharged'
    <3>1. \A e \in credits : e[1] \in Bought
      BY DEF BuyInv, BuyTyped, Buying!TypeOK
    <3> QED BY <1>1, <2>1, <2>3, <2>6, <3>1 DEF BuyInv, CreditIsCharged
  <2> QED BY <1>1, <2>5, <2>7, <2>8, <2>9, <2>10 DEF BuyInv, Numbered, ChargedIsApproved
<1>3. CASE /\ intent[i] # None /\ i \notin Presented
           /\ intent[i].status = "approval_pending"
           /\ offered' = offered \cup {<<i, intent[i].remote>>}
           /\ UNCHANGED <<intent, call>>
  <2>1. intent[i].remote \in Remotes
    BY <1>3 DEF BuyInv, BuyTyped, Buying!TypeOK, Buying!Remotes, Remotes
  <2>2. BuyTyped'
    BY <1>1, <1>3, <2>1 DEF BuyInv, BuyTyped, Buying!TypeOK, Buying!Remotes, Remotes
  <2>3. OfferedIsAttached'
    BY <1>1, <1>3, <2>1 DEF BuyInv, OfferedIsAttached
  <2> QED BY <1>1, <1>3, <2>2, <2>3
          DEF BuyInv, Numbered, AttachedIsMade, RequestFollows, ChargedIsApproved, CreditIsCharged
<1>4. CASE /\ intent[i] # None /\ i \notin Presented
           /\ intent[i].status = "created"
           /\ call' = [call EXCEPT ![h] = Buying!At("create", i, None, FALSE)]
           /\ UNCHANGED <<intent, offered>>
  <2>1. Buying!At("create", i, None, FALSE) \in Request
    BY DEF Buying!At, Request, Buying!Steps
  <2>2. RequestFollows(Buying!At("create", i, None, FALSE))
    BY <1>4 DEF Buying!At, RequestFollows
  <2> QED BY <1>1, <1>4, <2>1, <2>2, RequestMoves
<1> QED BY <1>2, <1>3, <1>4 DEF Buying!beginIntent

\* The row of an intent keeps its remote once it has one.
LEMMA RowKeeps ==
  ASSUME BuyInv, NEW i \in Bought, NEW row \in Intent, row # None, intent[i] # None,
         intent[i].remote # None => row.remote = intent[i].remote,
         intent' = [intent EXCEPT ![i] = row]
  PROVE  /\ intent' \in [Bought -> Intent \cup {None}]
         /\ \A j \in Bought : intent'[j] = IF j = i THEN row ELSE intent[j]
         /\ \A j \in Bought : intent[j] # None => intent'[j] # None
         /\ \A j \in Bought : intent[j] # None /\ intent[j].remote # None =>
              intent'[j].remote = intent[j].remote
  BY DEF BuyInv, BuyTyped

\* A row changes and requests end: the parts that do not follow the step.
LEMMA RowStep ==
  ASSUME BuyInv, NEW i \in Bought, NEW row \in Intent, row # None, intent[i] # None,
         intent[i].remote # None => row.remote = intent[i].remote,
         row.remote # None /\ row.status \in {"approval_pending", Buying!Done(i)},
         <<row.remote, i>> \in made,
         intent' = [intent EXCEPT ![i] = row],
         \A h \in Hands : call'[h] \in {call[h], None}, call' \in [Hands -> Request \cup {None}],
         charges' = charges, UNCHANGED <<made, known>>,
         offered' \subseteq Bought \X Remotes, keyed' \subseteq Presented, approved' \subseteq Remotes,
         credits' \subseteq Bought \X Remotes \X (1 .. (SaleLimit + 1))
  PROVE  /\ BuyTyped' /\ Numbered' /\ AttachedIsMade'
         /\ \A h \in Hands : call'[h] # None => RequestFollows(call[h])'
<1>1. BuyTyped'
  <2>1. \A j \in Bought : intent'[j] # None =>
          /\ intent'[j].status \in {"created", "approval_pending", Buying!Done(j)}
          /\ intent'[j].remote \in Remotes \cup {None}
          /\ intent'[j].status = "created" <=> intent'[j].remote = None
    <3> SUFFICES ASSUME NEW j \in Bought, intent'[j] # None
                 PROVE  /\ intent'[j].status \in {"created", "approval_pending", Buying!Done(j)}
                        /\ intent'[j].remote \in Remotes \cup {None}
                        /\ intent'[j].status = "created" <=> intent'[j].remote = None
      OBVIOUS
    <3>1. CASE j = i
      BY <3>1, RowKeeps DEF Intent, Buying!Done
    <3>2. CASE j # i
      BY <3>2, RowKeeps DEF BuyInv, BuyTyped, Buying!TypeOK, Buying!Remotes, Remotes
    <3> QED BY <3>1, <3>2
  <2>2. \A g \in Hands : call'[g] # None => call'[g] \in Request
    OBVIOUS
  <2>3. intent' \in [Bought -> Intent \cup {None}]
    BY RowKeeps
  <2> QED BY <2>1, <2>2, <2>3
          DEF BuyInv, BuyTyped, Buying!TypeOK, Buying!Remotes, Remotes, Request
<1>2. AttachedIsMade'
  BY RowKeeps DEF BuyInv, AttachedIsMade
<1>3. ASSUME NEW h \in Hands, call'[h] # None PROVE RequestFollows(call[h])'
  <2>1. call'[h] = call[h] /\ call[h] # None
    BY <1>3
  <2>2. call[h] \in Request /\ RequestFollows(call[h])
    BY <2>1, AtWork
  <2>3. call[h].intent \in Bought
    BY <2>2 DEF Request
  <2>4. /\ intent'[call[h].intent] # None
        /\ intent[call[h].intent].remote # None =>
             intent'[call[h].intent].remote = intent[call[h].intent].remote
    BY <2>2, <2>3, RowKeeps DEF RequestFollows
  <2> QED BY <2>1, <2>2, <2>3, <2>4 DEF RequestFollows
<1> QED BY <1>1, <1>2, <1>3 DEF BuyInv, Numbered

\* The remote is attached if the intent has no other, and then the answer arrives or not.
LEMMA AttachStep ==
  ASSUME BuyInv, NEW h \in Hands, Buying!attachRemote(h)
  PROVE  BuyInv'
<1> DEFINE q == call[h]
           i == q.intent
           o == q.remote
           row == [status |-> "approval_pending", remote |-> o]
<1>1. q # None /\ q.at = "attach" /\ q \in Request /\ RequestFollows(q)
  BY AtWork DEF Buying!attachRemote
<1>2. /\ call' = [call EXCEPT ![h] = None]
      /\ UNCHANGED <<made, known, approved, charges, credits>>
  BY DEF Buying!attachRemote
<1>3. i \in Bought /\ <<o, i>> \in made /\ o \in Remotes /\ o # None /\ intent[i] # None
  BY <1>1, BuyingAssumption
  DEF Request, RequestFollows, BuyInv, BuyTyped, Buying!TypeOK, Buying!Remotes, Remotes
<1>4. CASE ~Buying!Attachable(i, o)
  BY <1>1, <1>2, <1>4, RequestMoves DEF Buying!attachRemote
<1>5. CASE Buying!Attachable(i, o)
  <2>1. row \in Intent /\ row # None /\ row.remote = o /\ row.status = "approval_pending"
    BY <1>3, BuyingAssumption DEF Intent, Remotes
  <2>2. /\ intent' = [intent EXCEPT ![i] = row]
        /\ \/ /\ offered' = offered \cup {<<i, o>>}
              /\ keyed' = IF q.key THEN keyed \cup {i} ELSE keyed
           \/ UNCHANGED <<offered, keyed>>
    BY <1>5 DEF Buying!attachRemote
  <2> HIDE DEF row
  <2>3. intent[i].remote \in {None, o} /\ intent[i].status \in {"created", "approval_pending"}
    BY <1>5 DEF Buying!Attachable
  <2>4. /\ offered' \subseteq Bought \X Remotes /\ keyed' \subseteq Presented
        /\ approved' \subseteq Remotes /\ credits' \subseteq Bought \X Remotes \X (1 .. (SaleLimit + 1))
    <3>1. q.key => i \in Presented
      BY <1>1 DEF RequestFollows
    <3> QED BY <1>2, <1>3, <2>2, <3>1 DEF BuyInv, BuyTyped, Buying!TypeOK, Buying!Remotes, Remotes
  <2>5. /\ \A g \in Hands : call'[g] \in {call[g], None}
        /\ call' \in [Hands -> Request \cup {None}]
    BY <1>2 DEF BuyInv, BuyTyped
  <2>6. /\ BuyTyped' /\ Numbered' /\ AttachedIsMade'
        /\ \A g \in Hands : call'[g] # None => RequestFollows(call[g])'
    <3>1. /\ intent[i].remote # None => row.remote = intent[i].remote
          /\ row.remote # None /\ row.status \in {"approval_pending", Buying!Done(i)}
          /\ <<row.remote, i>> \in made
      BY <1>3, <2>1, <2>3
    <3>2. intent' = [intent EXCEPT ![i] = row] /\ charges' = charges /\ UNCHANGED <<made, known>>
      BY <1>2, <2>2
    <3> HIDE DEF i
    <3> QED BY <1>3, <2>1, <2>4, <2>5, <3>1, <3>2, RowStep
  <2>7. /\ \A j \in Bought : intent'[j] = IF j = i THEN row ELSE intent[j]
        /\ \A j \in Bought : intent[j] # None => intent'[j] # None
        /\ \A j \in Bought : intent[j] # None /\ intent[j].remote # None =>
              intent'[j].remote = intent[j].remote
    BY <1>3, <2>1, <2>2, <2>3, RowKeeps
  <2>8. OfferedIsAttached'
    <3>1. \A x \in offered : /\ x[1] \in Bought /\ intent'[x[1]] # None /\ intent'[x[1]].remote = x[2]
      <4>1. \A x \in offered : x[1] \in Bought /\ x[2] \in Remotes /\ x[2] # None
        BY BuyingAssumption DEF BuyInv, BuyTyped, Buying!TypeOK, Buying!Remotes, Remotes
      <4> QED BY <2>7, <4>1 DEF BuyInv, OfferedIsAttached
    <3>2. intent'[i] # None /\ intent'[i].remote = o
      BY <1>3, <2>1, <2>7
    <3>3. i \in Presented => q.key
      BY <1>1 DEF RequestFollows
    <3>4. keyed \subseteq keyed' /\ offered \subseteq offered'
      BY <2>2
    <3>5. \A x \in offered' : x[1] \in Presented => x[1] \in keyed'
      BY <2>2, <3>3 DEF BuyInv, OfferedIsAttached
    <3>6. \A x \in offered' : intent'[x[1]] # None /\ intent'[x[1]].remote = x[2]
      BY <2>2, <3>1, <3>2
    <3> QED BY <1>2, <3>4, <3>5, <3>6 DEF BuyInv, OfferedIsAttached
  <2>9. CreditIsCharged'
    <3>1. \A e \in credits : e[1] \in Bought /\ e[2] \in Remotes /\ e[2] # None
      BY BuyingAssumption DEF BuyInv, BuyTyped, Buying!TypeOK, Buying!Remotes, Remotes
    <3>2. \A e \in credits : intent'[e[1]] # None /\ intent'[e[1]].remote = e[2]
      BY <2>7, <3>1 DEF BuyInv, CreditIsCharged
    <3>3. \A j \in Bought : intent'[j].status = "captured" => intent'[j] = intent[j]
      BY <2>1, <2>7
    <3> QED BY <1>2, <3>2, <3>3 DEF BuyInv, CreditIsCharged
  <2> QED BY <1>2, <2>6, <2>8, <2>9 DEF BuyInv, ChargedIsApproved
<1> QED BY <1>4, <1>5

\* A charge of the attached remote is credited, once.
LEMMA DeliverStep ==
  ASSUME BuyInv, NEW i \in Bought, NEW o \in Remotes, NEW n \in 1 .. (SaleLimit + 1),
         <<o, n>> \in charges, intent[i] # None, Buying!Delivered(i, o, n),
         \A h \in Hands : call'[h] \in {call[h], None}, call' \in [Hands -> Request \cup {None}],
         UNCHANGED <<made, known, offered, keyed, approved, charges>>
  PROVE  BuyInv'
<1>1. intent[i] \in Intent /\ intent[i].remote = o /\ o # None
  BY BuyingAssumption DEF BuyInv, BuyTyped, Buying!Delivered, Remotes
<1>2. PICK row : row = [intent[i] EXCEPT !.status = Buying!Done(i)]
  OBVIOUS
<1>3. Buying!Done(i) \in {"captured", "active"} /\ (i \notin Weekly => Buying!Done(i) = "captured")
  BY DEF Buying!Done
<1>4. row \in Intent /\ row.remote = o /\ row.status = Buying!Done(i)
  BY <1>1, <1>2, <1>3 DEF Intent
<1>5. row # None
  BY <1>4, BuyingAssumption DEF Intent, Remotes
<1>6. intent' = [intent EXCEPT ![i] = row] /\ credits' = credits \cup {<<i, o, n>>}
  BY <1>2 DEF Buying!Delivered, BuyInv, BuyTyped
<1>7. <<o, i>> \in made
  BY <1>1 DEF BuyInv, AttachedIsMade
<1>8. /\ offered' \subseteq Bought \X Remotes /\ keyed' \subseteq Presented
      /\ approved' \subseteq Remotes /\ credits' \subseteq Bought \X Remotes \X (1 .. (SaleLimit + 1))
  BY <1>6 DEF BuyInv, BuyTyped, Buying!TypeOK, Buying!Remotes, Remotes
<1>9. /\ BuyTyped' /\ Numbered' /\ AttachedIsMade'
      /\ \A g \in Hands : call'[g] # None => RequestFollows(call[g])'
  BY <1>1, <1>4, <1>5, <1>6, <1>7, <1>8, RowStep
<1>10. /\ \A j \in Bought : intent'[j] = IF j = i THEN row ELSE intent[j]
       /\ \A j \in Bought : intent[j] # None => intent'[j] # None
       /\ \A j \in Bought : intent[j] # None /\ intent[j].remote # None =>
            intent'[j].remote = intent[j].remote
  BY <1>1, <1>4, <1>5, <1>6, RowKeeps
<1>11. OfferedIsAttached'
  <2>1. \A x \in offered : x[1] \in Bought /\ x[2] \in Remotes /\ x[2] # None
    BY BuyingAssumption DEF BuyInv, BuyTyped, Buying!TypeOK, Buying!Remotes, Remotes
  <2> QED BY <1>10, <2>1 DEF BuyInv, OfferedIsAttached
<1>12. CreditIsCharged'
  <2>1. \A e \in credits : e[1] \in Bought /\ e[2] \in Remotes /\ e[2] # None
    BY BuyingAssumption DEF BuyInv, BuyTyped, Buying!TypeOK, Buying!Remotes, Remotes
  <2>2. \A e \in credits : intent'[e[1]] # None /\ intent'[e[1]].remote = e[2]
    <3>1. \A e \in credits : intent[e[1]] # None /\ intent[e[1]].remote = e[2]
      BY DEF BuyInv, CreditIsCharged
    <3> QED BY <1>10, <2>1, <3>1
  <2>3. intent'[i] # None /\ intent'[i].remote = o
    BY <1>4, <1>5, <1>10
  <2>4. \A e \in credits' : <<e[2], e[3]>> \in charges'
    <3>1. charges' = charges /\ \A e \in credits : <<e[2], e[3]>> \in charges
      BY DEF BuyInv, CreditIsCharged
    <3>2. \A e \in credits' : e \in credits \/ e = <<i, o, n>>
      BY <1>6
    <3>3. \A e : e = <<i, o, n>> => <<e[2], e[3]>> = <<o, n>>
      OBVIOUS
    <3>4. <<o, n>> \in charges
      OBVIOUS
    <3> SUFFICES ASSUME NEW e \in credits' PROVE <<e[2], e[3]>> \in charges
      BY <3>1
    <3>5. CASE e \in credits
      BY <3>1, <3>5
    <3>6. CASE e = <<i, o, n>>
      BY <3>3, <3>4, <3>6, Zenon
    <3> QED BY <3>2, <3>5, <3>6
  <2>5. i \notin Weekly => <<i, o, 1>> \in credits'
    BY <1>6, <1>7 DEF BuyInv, ChargedIsApproved
  <2>6. \A e \in credits' : intent'[e[1]] # None /\ intent'[e[1]].remote = e[2]
    BY <1>6, <2>2, <2>3
  <2>7. \A j \in Bought \ Weekly : intent'[j] # None /\ intent'[j].status = "captured" =>
          \E r \in Remotes : <<j, r, 1>> \in credits'
    BY <1>6, <1>10, <2>5 DEF BuyInv, CreditIsCharged
  <2> QED BY <2>4, <2>6, <2>7 DEF CreditIsCharged
<1> QED BY <1>9, <1>11, <1>12 DEF BuyInv, ChargedIsApproved

LEMMA DeliverCaptureStep ==
  ASSUME BuyInv, NEW h \in Hands, Buying!deliverCapture(h)
  PROVE  BuyInv'
<1> DEFINE q == call[h]
<1>1. q # None /\ q.at = "deliver" /\ q \in Request /\ RequestFollows(q)
  BY AtWork DEF Buying!deliverCapture
<1>2. /\ call' = [call EXCEPT ![h] = None]
      /\ UNCHANGED <<made, known, offered, keyed, approved, charges>>
  BY DEF Buying!deliverCapture
<1>3. q.intent \in Bought /\ q.remote \in Remotes /\ <<q.remote, 1>> \in charges /\ intent[q.intent] # None
  BY <1>1 DEF Request, RequestFollows
<1>4. 1 \in 1 .. (SaleLimit + 1)
  BY BuyingAssumption
<1>5. CASE Buying!Delivered(q.intent, q.remote, 1)
  <2>1. /\ \A g \in Hands : call'[g] \in {call[g], None}
        /\ call' \in [Hands -> Request \cup {None}]
    BY <1>2 DEF BuyInv, BuyTyped
  <2> QED BY <1>2, <1>3, <1>4, <1>5, <2>1, DeliverStep
<1>6. CASE UNCHANGED <<credits, intent>>
  BY <1>2, <1>6, RequestMoves
<1> QED BY <1>5, <1>6 DEF Buying!deliverCapture

LEMMA WebhookStep ==
  ASSUME BuyInv, NEW o \in Remotes, NEW n \in 1 .. (SaleLimit + 1), Buying!webhook(o, n)
  PROVE  BuyInv'
<1>1. PICK i \in Bought : intent[i] # None /\ Buying!Delivered(i, o, n)
  BY DEF Buying!webhook
<1>2. <<o, n>> \in charges /\ UNCHANGED <<call, made, known, offered, keyed, approved, charges>>
  BY DEF Buying!webhook
<1>3. (\A h \in Hands : call'[h] \in {call[h], None}) /\ call' \in [Hands -> Request \cup {None}]
  BY <1>2 DEF BuyInv, BuyTyped
<1> QED BY <1>1, <1>2, <1>3, DeliverStep

LEMMA BuyStep ==
  ASSUME BuyInv, [Buying!Next]_Buying!vars
  PROVE  BuyInv'
<1>1. CASE UNCHANGED Buying!vars
  <2>1. UNCHANGED <<intent, call, made, known, offered, keyed, approved, charges, credits>>
    BY <1>1 DEF Buying!vars
  <2>2. BuyTyped'
    BY <2>1 DEF BuyInv, BuyTyped, Buying!TypeOK
  <2> QED BY <2>1, <2>2 DEF BuyInv, Numbered, AttachedIsMade, RequestFollows, OfferedIsAttached,
                           ChargedIsApproved, CreditIsCharged
<1>2. CASE \E h \in Hands : \/ Buying!createRemote(h) \/ Buying!attachRemote(h)
                            \/ Buying!captureRemote(h) \/ Buying!deliverCapture(h) \/ Buying!fail(h)
  BY <1>2, CreateStep, AttachStep, CaptureStep, DeliverCaptureStep, FailStep
<1>3. CASE \E h \in Hands, i \in Bought : Buying!beginIntent(h, i)
  BY <1>3, BeginStep
<1>4. CASE \E h \in Hands, i \in Bought, o \in Remotes : Buying!readCapture(h, i, o)
  BY <1>4, ReadStep
<1>5. CASE \E i \in Bought : Buying!forget(i)
  BY <1>5, ForgetStep
<1>6. CASE \E i \in Bought, o \in Remotes : Buying!approve(i, o)
  BY <1>6, ApproveStep
<1>7. CASE \E o \in Remotes, n \in 1 .. SaleLimit : Buying!renew(o, n)
  BY <1>7, RenewStep
<1>8. CASE \E o \in Remotes, n \in 1 .. (SaleLimit + 1) : Buying!webhook(o, n)
  BY <1>8, WebhookStep
<1> QED BY <1>1, <1>2, <1>3, <1>4, <1>5, <1>6, <1>7, <1>8 DEF Buying!Next, Buying!Remotes, Remotes

LEMMA BuySafety ==
  ASSUME BuyInv
  PROVE  Buying!TypeOK /\ Buying!ChargedAsOffered
<1>1. ASSUME NEW c \in charges
      PROVE  \E i \in Bought : /\ <<c[1], i>> \in made
                               /\ intent[i].remote = c[1]
                               /\ i \in Presented => i \in keyed
  <2>1. PICK i \in Bought : <<i, c[1]>> \in offered
    BY DEF BuyInv, ChargedIsApproved, OfferedIsAttached
  <2>2. /\ intent[i] # None /\ intent[i].remote = c[1] /\ c[1] \in Remotes
        /\ i \in Presented => i \in keyed
    BY <2>1 DEF BuyInv, BuyTyped, Buying!TypeOK, Buying!Remotes, Remotes, OfferedIsAttached
  <2> QED BY <2>2, BuyingAssumption DEF BuyInv, AttachedIsMade, Remotes
<1>2. ASSUME NEW e \in credits PROVE <<e[2], e[3]>> \in charges /\ <<e[2], e[1]>> \in made
  <2>1. e[1] \in Bought /\ e[2] \in Remotes /\ e[2] # None
    BY BuyingAssumption DEF BuyInv, BuyTyped, Buying!TypeOK, Buying!Remotes, Remotes
  <2> QED BY <2>1 DEF BuyInv, CreditIsCharged, AttachedIsMade
<1>3. ASSUME NEW i \in Bought \ Weekly, intent[i] # None, intent[i].status = "captured"
      PROVE  Buying!Cardinality({e \in credits : e[1] = i}) = 1
  <2>1. PICK o \in Remotes : <<i, o, 1>> \in credits
    BY <1>3 DEF BuyInv, CreditIsCharged
  <2>2. ASSUME NEW e \in credits, e[1] = i PROVE e = <<i, o, 1>>
    <3>1. e = <<e[1], e[2], e[3]>>
      BY DEF BuyInv, BuyTyped, Buying!TypeOK
    <3>2. intent[i].remote = e[2] /\ intent[i].remote = o
      BY <2>1, <2>2 DEF BuyInv, CreditIsCharged
    <3>3. <<e[2], e[3]>> \in charges /\ <<e[2], i>> \in made
      BY <1>2, <2>2
    <3>4. e[3] = 1
      BY <3>3 DEF BuyInv, ChargedIsApproved
    <3> QED BY <2>2, <3>1, <3>2, <3>4
  <2>3. {e \in credits : e[1] = i} = {<<i, o, 1>>}
    BY <2>1, <2>2
  <2> QED BY <2>3, FS_Singleton, OneCounting
<1> QED BY <1>1, <1>2, <1>3 DEF BuyInv, BuyTyped, Buying!ChargedAsOffered
-----------------------------------------------------------------------------
(* CreditGifts: the inductive invariant                                    *)

\* The sources of receipts of dispute d: its events, and the founder's review.
Sources(h, D, d) ==
  EventsOf(h, d) \cup (IF D[d] = None \/ D[d].review = None THEN {} ELSE {0})

\* What reconcile binds to each other.
Bindings(h, D, cred, d) ==
  {<<src, d, c>> : src \in Sources(h, D, d), c \in DurableCaptures(h, d) \cap cred}
AllBindings(h, D, cred) == UNION {Bindings(h, D, cred, d) : d \in Disputes}

\* The receipts R are one for each binding of S.
Exactly(R, S) ==
  /\ \A r \in R : <<r[1], r[2], r[3]>> \in S
  /\ \A b \in S : \E r \in R : <<r[1], r[2], r[3]>> = b
  /\ \A r, q \in R : r[1] = q[1] /\ r[2] = q[2] /\ r[3] = q[3] => r = q

Lost == "resolved_against_seller"
Undecided == {"open", "resolution_review"}

\* A dispute stands at its latest event, in the state which that event or the review asks for.
Standing(h, D, d) ==
  IF D[d] = None THEN EventsOf(h, d) = {}
  ELSE /\ D[d].current \in EventsOf(h, d)
       /\ \A i \in EventsOf(h, d) \ {D[d].current} : Before(h, i, D[d].current)
       /\ D[d].review = "seller_favour" => D[d].state = "resolved_seller"
       /\ D[d].review = "buyer_favour" => D[d].state = Lost
       /\ D[d].review = None /\ D[d].state # Lost => D[d].state = desiredState(h[D[d].current])

\* A gift that a dispute blocks or has lost.
Held(g, blocking, against) ==
  /\ g.status = "frozen" => g.blocked
  /\ blocking => \/ g.status \in {"frozen", "accepted", "revoked"}
                 \/ g.status = "refused" /\ g.blocked
  /\ ~ blocking => g.status # "frozen" /\ (g.status \in {"pending", "refused"} => ~ g.blocked)
  /\ g.status # "accepted" => (g.status = "revoked" <=> against)

GiftInv ==
  /\ TypeOK
  /\ \A d \in Disputes : Standing(history, dispute, d)
  /\ Exactly(receipts, AllBindings(history, dispute, credited))
  /\ \A c \in GiftCaptures \cap credited :
       Held(gift[c], Blocking(history, dispute, c) # {}, Adverse(c))

-----------------------------------------------------------------------------
(* What a state does to a gift                                             *)

LEMMA CustodyTyped ==
  ASSUME NEW g \in Gifts, NEW state, NEW other
  PROVE  Custody(state, g, other) \in Gifts
<1>1. g # None
  BY GiftAssumption
<1> QED BY <1>1 DEF Custody, Gifts

\* A dispute that had blocked or had lost the gift goes to another state; other disputes
\* block it still, or have lost it.
LEMMA CustodyAgain ==
  ASSUME NEW g \in Gifts, NEW state \in States, NEW other \in BOOLEAN, NEW b \in BOOLEAN,
         NEW was \in BOOLEAN, NEW l \in BOOLEAN,
         Held(g, other \/ b, was \/ l), l => state = Lost
  PROVE  Held(Custody(state, g, other), other \/ state \in Undecided, was \/ state = Lost)
<1>1. g # None
  BY GiftAssumption
<1> QED BY <1>1 DEF Custody, Gifts, States, Held, Lost, Undecided

\* A dispute is applied for the first time, after those that make up blocked and lost.
LEMMA CustodyFirst ==
  ASSUME NEW g \in Gifts, NEW state \in States, NEW other \in BOOLEAN, NEW b \in BOOLEAN,
         NEW was \in BOOLEAN, Held(g, b, was), b => other
  PROVE  Held(Custody(state, g, other), b \/ state \in Undecided, was \/ state = Lost)
<1>1. g # None
  BY GiftAssumption
<1> QED BY <1>1 DEF Custody, Gifts, States, Held, Lost, Undecided

\* A review right after an event changes nothing more.
LEMMA CustodyTwice ==
  ASSUME NEW g \in Gifts, NEW state \in States, NEW other \in BOOLEAN
  PROVE  Custody(state, Custody(state, g, other), other) = Custody(state, g, other)
<1>1. g # None
  BY GiftAssumption
<1> DEFINE g2 == Custody(state, g, other)
<1>2. g2 \in Gifts /\ g2 # None
  BY CustodyTyped, GiftAssumption
<1>3. CASE state \in Undecided
  <2>1. g2.status # "pending" /\ (g2.status = "refused" => g2.blocked)
    BY <1>1, <1>3 DEF Custody, Gifts, Undecided
  <2> QED BY <1>2, <1>3, <2>1 DEF Custody, Gifts, Undecided
<1>4. CASE state = "resolved_seller"
  <2>1. ~other => g2.status # "frozen" /\ (g2.status = "refused" => ~g2.blocked)
    BY <1>1, <1>4 DEF Custody, Gifts
  <2> QED BY <1>2, <1>4, <2>1 DEF Custody, Gifts
<1>5. CASE state = Lost
  <2>1. g2.status \notin {"pending", "refused", "frozen"}
    BY <1>1, <1>5 DEF Custody, Gifts, Lost
  <2> QED BY <1>2, <1>5, <2>1 DEF Custody, Gifts, Lost
<1> QED BY <1>3, <1>4, <1>5 DEF States, Undecided, Lost

-----------------------------------------------------------------------------
(* What reconcile does                                                     *)

Bound(R, src, d, c) == \E r \in R : r[1] = src /\ r[2] = d /\ r[3] = c

LEMMA BoundIs ==
  ASSUME NEW R, NEW S, Exactly(R, S), NEW src, NEW d, NEW c
  PROVE  Bound(R, src, d, c) <=> <<src, d, c>> \in S
<1>1. ASSUME NEW r \in R, r[1] = src, r[2] = d, r[3] = c PROVE <<src, d, c>> \in S
  BY <1>1 DEF Exactly
<1>2. ASSUME <<src, d, c>> \in S PROVE Bound(R, src, d, c)
  <2>1. PICK r \in R : <<r[1], r[2], r[3]>> = <<src, d, c>>
    BY <1>2 DEF Exactly
  <2>2. r[1] = src /\ r[2] = d /\ r[3] = c
    BY <2>1
  <2> QED BY <2>2 DEF Bound
<1> QED BY <1>1, <1>2 DEF Bound

\* A gift changes once, by the state of the dispute, where a receipt of its current event or
\* of its review is missing.
LEMMA ReconcileGift ==
  ASSUME NEW h, NEW D, NEW cred, NEW s, NEW d \in Disputes, NEW c \in Captures,
         s.gift[c] \in Gifts \cup {None}, D[d].state \in States
  PROVE  LET missing == \/ ~ Bound(s.receipts, D[d].current, d, c)
                        \/ D[d].review # None /\ ~ Bound(s.receipts, 0, d, c)
         IN  reconcile(h, D, cred, s, d).gift[c] =
               IF c \in DurableCaptures(h, d) \cap cred /\ missing
               THEN Custody(D[d].state, s.gift[c], OtherOpen(h, D, d, c)) ELSE s.gift[c]
<1> DEFINE purchases == DurableCaptures(h, d) \cap cred
           current == D[d].current
           other == OtherOpen(h, D, d, c)
           once == IF c \in purchases /\ ~ Bound(s.receipts, current, d, c)
                   THEN Custody(D[d].state, s.gift[c], other) ELSE s.gift[c]
           twice == IF c \in purchases /\ D[d].review # None /\ ~ Bound(s.receipts, 0, d, c)
                    THEN Custody(D[d].state, once, other) ELSE once
<1>1. reconcile(h, D, cred, s, d).gift[c] = twice
  BY DEF reconcile, Bound
<1>2. Custody(D[d].state, Custody(D[d].state, s.gift[c], other), other)
        = Custody(D[d].state, s.gift[c], other)
  <2>1. other \in BOOLEAN
    BY DEF OtherOpen
  <2>2. Custody(D[d].state, None, other) = None
    BY DEF Custody
  <2> HIDE DEF other
  <2>3. CASE s.gift[c] \in Gifts
    BY <2>1, <2>3, CustodyTwice
  <2>4. CASE s.gift[c] = None
    BY <2>2, <2>4
  <2> QED BY <2>3, <2>4
<1>3. twice = IF /\ c \in purchases
                 /\ \/ ~ Bound(s.receipts, current, d, c)
                    \/ D[d].review # None /\ ~ Bound(s.receipts, 0, d, c)
              THEN Custody(D[d].state, s.gift[c], other) ELSE s.gift[c]
  <2> HIDE DEF other, purchases, current
  <2> QED BY <1>2
<1> QED BY <1>1, <1>3

LEMMA ReconcileMap ==
  ASSUME NEW h, NEW D, NEW cred, NEW s, NEW d \in Disputes
  PROVE  /\ DOMAIN reconcile(h, D, cred, s, d).gift = Captures
         /\ reconcile(h, D, cred, s, d).gift
              = [c \in Captures |-> reconcile(h, D, cred, s, d).gift[c]]
BY DEF reconcile

\* Each binding has one receipt afterwards.
LEMMA ReconcileReceipts ==
  ASSUME NEW h \in Seq(Terms), NEW D, NEW cred, NEW s, NEW d \in Disputes, NEW S,
         D[d] # None, Exactly(s.receipts, S)
  PROVE  Exactly(reconcile(h, D, cred, s, d).receipts, S \cup Bindings(h, D, cred, d))
<1> DEFINE R == reconcile(h, D, cred, s, d).receipts
           purchases == DurableCaptures(h, d) \cap cred
           Kind(src) == IF src = 0 THEN "applied"
                        ELSE IF Before(h, src, D[d].current) THEN "stale" ELSE "applied"
<1>1. \A src \in EventsOf(h, d) : src # 0
  BY DEF EventsOf
<1>2. R = s.receipts
            \cup {<<b[1], d, b[2], IF Before(h, b[1], D[d].current) THEN "stale" ELSE "applied">> :
                    b \in {x \in EventsOf(h, d) \X purchases : ~ Bound(s.receipts, x[1], d, x[2])}}
            \cup (IF D[d].review = None THEN {}
                  ELSE {<<0, d, c, "applied">> : c \in {p \in purchases : ~ Bound(s.receipts, 0, d, p)}})
  BY DEF reconcile, Bound
<1>3. ASSUME NEW r \in R, r \notin s.receipts
      PROVE  /\ <<r[1], r[2], r[3]>> \in Bindings(h, D, cred, d)
             /\ r[2] = d /\ ~ Bound(s.receipts, r[1], d, r[3])
             /\ r = <<r[1], d, r[3], Kind(r[1])>>
  <2>1. CASE r \in {<<b[1], d, b[2], IF Before(h, b[1], D[d].current) THEN "stale" ELSE "applied">> :
                    b \in {x \in EventsOf(h, d) \X purchases : ~ Bound(s.receipts, x[1], d, x[2])}}
    <3>1. PICK b \in EventsOf(h, d) \X purchases :
            /\ ~ Bound(s.receipts, b[1], d, b[2])
            /\ r = <<b[1], d, b[2], IF Before(h, b[1], D[d].current) THEN "stale" ELSE "applied">>
      BY <2>1
    <3>2. b[1] \in EventsOf(h, d) /\ b[2] \in purchases /\ b[1] # 0
      BY <1>1
    <3>3. <<b[1], d, b[2]>> \in Bindings(h, D, cred, d)
      BY <3>2 DEF Bindings, Sources
    <3> QED BY <3>1, <3>2, <3>3
  <2>2. CASE D[d].review # None
             /\ r \in {<<0, d, c, "applied">> : c \in {p \in purchases : ~ Bound(s.receipts, 0, d, p)}}
    <3>1. PICK c \in purchases : ~ Bound(s.receipts, 0, d, c) /\ r = <<0, d, c, "applied">>
      BY <2>2
    <3>2. <<0, d, c>> \in Bindings(h, D, cred, d)
      BY <2>2 DEF Bindings, Sources
    <3> QED BY <3>1, <3>2
  <2> QED BY <1>2, <1>3, <2>1, <2>2
<1>4. ASSUME NEW b \in Bindings(h, D, cred, d)
      PROVE  \E r \in R : <<r[1], r[2], r[3]>> = b
  <2>1. PICK src \in Sources(h, D, d), c \in purchases : b = <<src, d, c>>
    BY DEF Bindings
  <2>2. CASE Bound(s.receipts, src, d, c)
    <3>1. PICK r \in s.receipts : r[1] = src /\ r[2] = d /\ r[3] = c
      BY <2>2 DEF Bound
    <3> QED BY <1>2, <2>1, <3>1
  <2>3. CASE ~ Bound(s.receipts, src, d, c) /\ src \in EventsOf(h, d)
    <3>1. PICK x : x = <<src, c>>
      OBVIOUS
    <3>2. x \in EventsOf(h, d) \X purchases /\ x[1] = src /\ x[2] = c
      BY <2>3, <3>1
    <3>3. <<x[1], d, x[2], IF Before(h, x[1], D[d].current) THEN "stale" ELSE "applied">> \in R
      BY <1>2, <2>3, <3>2
    <3> QED BY <2>1, <3>2, <3>3
  <2>4. CASE ~ Bound(s.receipts, src, d, c) /\ src \notin EventsOf(h, d)
    <3>1. src = 0 /\ D[d].review # None
      BY <2>4 DEF Sources
    <3>2. <<src, d, c, "applied">> \in R
      BY <1>2, <2>4, <3>1
    <3> QED BY <2>1, <3>2
  <2> QED BY <2>2, <2>3, <2>4
<1> HIDE DEF R
<1>5. ASSUME NEW r \in R, NEW q \in R, r[1] = q[1], r[2] = q[2], r[3] = q[3]
      PROVE  r = q
  <2>1. CASE r \in s.receipts /\ q \in s.receipts
    BY <1>5, <2>1 DEF Exactly
  <2>2. CASE r \notin s.receipts /\ q \in s.receipts
    BY <1>3, <1>5, <2>2 DEF Bound
  <2>3. CASE r \in s.receipts /\ q \notin s.receipts
    BY <1>3, <1>5, <2>3 DEF Bound
  <2>4. CASE r \notin s.receipts /\ q \notin s.receipts
    BY <1>3, <1>5, <2>4
  <2> QED BY <2>1, <2>2, <2>3, <2>4
<1>6. \A r \in R : <<r[1], r[2], r[3]>> \in S \cup Bindings(h, D, cred, d)
  BY <1>3 DEF Exactly
<1>7. s.receipts \subseteq R
  BY <1>2 DEF R
<1>8. \A b \in S \cup Bindings(h, D, cred, d) : \E r \in R : <<r[1], r[2], r[3]>> = b
  BY <1>4, <1>7 DEF Exactly
<1>9. Exactly(R, S \cup Bindings(h, D, cred, d))
  BY <1>5, <1>6, <1>8 DEF Exactly
<1> QED BY <1>9 DEF R

\* Receipts are of the events there are, or of a review.
LEMMA ReconcileTyped ==
  ASSUME NEW h \in Seq(Terms), NEW D, NEW cred \in SUBSET Captures, NEW s, NEW d \in Disputes,
         Len(h) <= MaxEvents,
         s.receipts \subseteq (0 .. MaxEvents) \X Disputes \X Captures \X {"stale", "applied"}
  PROVE  reconcile(h, D, cred, s, d).receipts
           \subseteq (0 .. MaxEvents) \X Disputes \X Captures \X {"stale", "applied"}
<1>1. EventsOf(h, d) \subseteq 0 .. MaxEvents /\ 0 \in 0 .. MaxEvents
  BY GiftAssumption DEF EventsOf
<1> QED BY <1>1 DEF reconcile

-----------------------------------------------------------------------------
(* A dispute is reconciled                                                 *)

ReceiptRows == (0 .. MaxEvents) \X Disputes \X Captures \X {"stale", "applied"}

\* Dispute d blocks the gift of c, or has taken it.
Blocks(h, D, d, c) == D[d] # None /\ D[d].state \in Undecided /\ c \in DurableCaptures(h, d)
Takes(h, D, d, c) == D[d] # None /\ D[d].state = Lost /\ c \in DurableCaptures(h, d)

LEMMA BlockingIs ==
  ASSUME NEW h, NEW D, NEW c
  PROVE  /\ Blocking(h, D, c) = {d \in Disputes : Blocks(h, D, d, c)}
         /\ \A d \in Disputes :
              /\ OtherOpen(h, D, d, c) <=> \E e \in Disputes \ {d} : Blocks(h, D, e, c)
              /\ OtherOpen(h, D, d, c) \in BOOLEAN
BY DEF Blocking, Blocks, OtherOpen, Undecided

LEMMA AdverseIs ==
  ASSUME NEW c PROVE Adverse(c) <=> \E d \in Disputes : Takes(history, dispute, d, c)
BY DEF Adverse, Takes, Lost

\* The gifts of credited gift purchases, and no others, are there.
LEMMA GiftThere ==
  ASSUME TypeOK, NEW c \in Captures
  PROVE  /\ gift[c] \in Gifts \cup {None}
         /\ c \in GiftCaptures \cap credited => gift[c] \in Gifts
  BY DEF TypeOK

\* Reconciling keeps the types of gifts, and makes none.
LEMMA ReconcileTypedGift ==
  ASSUME NEW h, NEW D, NEW cred, NEW s, NEW d \in Disputes,
         s.gift \in [Captures -> Gifts \cup {None}], D[d].state \in States
  PROVE  /\ reconcile(h, D, cred, s, d).gift \in [Captures -> Gifts \cup {None}]
         /\ \A c \in Captures : reconcile(h, D, cred, s, d).gift[c] # None <=> s.gift[c] # None
<1>1. \A c \in Captures : /\ s.gift[c] \in Gifts \cup {None}
                          /\ \/ reconcile(h, D, cred, s, d).gift[c] = s.gift[c]
                             \/ reconcile(h, D, cred, s, d).gift[c]
                                  = Custody(D[d].state, s.gift[c], OtherOpen(h, D, d, c))
  BY ReconcileGift
<1>2. \A state, other : Custody(state, None, other) = None
  BY DEF Custody
<1>3. \A c \in Captures : /\ reconcile(h, D, cred, s, d).gift[c] \in Gifts \cup {None}
                          /\ reconcile(h, D, cred, s, d).gift[c] # None <=> s.gift[c] # None
  BY <1>1, <1>2, CustodyTyped, GiftAssumption
<1>4. PICK G : G = reconcile(h, D, cred, s, d).gift
  OBVIOUS
<1>5. G = [c \in Captures |-> G[c]]
  BY <1>4, ReconcileMap
<1>6. G \in [Captures -> Gifts \cup {None}]
  BY <1>3, <1>4, <1>5
<1> QED BY <1>3, <1>4, <1>6

\* The gift g of c is held as the disputes D say.
Kept(g, h, D, c) == Held(g, Blocking(h, D, c) # {}, \E d \in Disputes : Takes(h, D, d, c))

\* The gift of c after dispute d went on, from (h, D) to (i, E), and was reconciled.
LEMMA HeldAfter ==
  ASSUME NEW h, NEW D, NEW i, NEW E, NEW g \in Gifts, NEW d \in Disputes, NEW c \in Captures,
         E[d].state \in States, E[d] # None,
         \A e \in Disputes \ {d} : E[e] = D[e] /\ DurableCaptures(i, e) = DurableCaptures(h, e),
         c \in DurableCaptures(h, d) => c \in DurableCaptures(i, d),
         Takes(h, D, d, c) => E[d].state = Lost,
         Kept(g, h, D, c),
         NEW k,
         \/ /\ c \in DurableCaptures(i, d)
            /\ k = Custody(E[d].state, g, OtherOpen(i, E, d, c))
         \/ k = g /\ c \notin DurableCaptures(i, d)
         \/ k = g /\ E[d] = D[d] /\ c \in DurableCaptures(h, d)
  PROVE  Kept(k, i, E, c)
<1> DEFINE other == \E e \in Disputes \ {d} : Blocks(i, E, e, c)
           was == \E e \in Disputes \ {d} : Takes(i, E, e, c)
<1>1. /\ Blocking(i, E, c) # {} <=> other \/ Blocks(i, E, d, c)
      /\ OtherOpen(i, E, d, c) = other
  <2>1. Blocking(i, E, c) = {e \in Disputes : Blocks(i, E, e, c)}
    BY BlockingIs
  <2>2. OtherOpen(i, E, d, c) <=> other
    BY BlockingIs
  <2>3. OtherOpen(i, E, d, c) \in BOOLEAN
    BY BlockingIs
  <2> QED BY <2>1, <2>2, <2>3
<1>2. Blocking(h, D, c) # {} <=> other \/ Blocks(h, D, d, c)
  <2>1. \A e \in Disputes \ {d} : Blocks(i, E, e, c) <=> Blocks(h, D, e, c)
    BY DEF Blocks
  <2> QED BY <2>1, BlockingIs
<1>3. (\E e \in Disputes : Takes(i, E, e, c)) <=> was \/ Takes(i, E, d, c)
  OBVIOUS
<1>4. (\E e \in Disputes : Takes(h, D, e, c)) <=> was \/ Takes(h, D, d, c)
  BY DEF Takes
<1>5. Held(g, other \/ Blocks(h, D, d, c), was \/ Takes(h, D, d, c))
  BY <1>2, <1>4 DEF Held, Kept
<1> DEFINE b == Blocks(h, D, d, c)
           l == Takes(h, D, d, c)
<1>6. b \in BOOLEAN /\ l \in BOOLEAN /\ other \in BOOLEAN /\ was \in BOOLEAN
  BY DEF Blocks, Takes
<1>7. Held(k, other \/ Blocks(i, E, d, c), was \/ Takes(i, E, d, c))
  <2>1. CASE c \in DurableCaptures(i, d) /\ k = Custody(E[d].state, g, OtherOpen(i, E, d, c))
    <3>1. Blocks(i, E, d, c) <=> E[d].state \in Undecided
      BY <2>1 DEF Blocks
    <3>2. Takes(i, E, d, c) <=> E[d].state = Lost
      BY <2>1 DEF Takes
    <3> HIDE DEF other, was, b, l
    <3>3. Held(Custody(E[d].state, g, other), other \/ E[d].state \in Undecided,
               was \/ E[d].state = Lost)
      BY <1>5, <1>6, CustodyAgain DEF b, l
    <3> QED BY <1>1, <2>1, <3>1, <3>2, <3>3 DEF Held
  <2>2. CASE k = g /\ c \notin DurableCaptures(i, d)
    BY <1>5, <2>2 DEF Blocks, Takes, Held
  <2>3. CASE k = g /\ E[d] = D[d] /\ c \in DurableCaptures(h, d)
    BY <1>5, <2>3 DEF Blocks, Takes, Held
  <2> QED BY <2>1, <2>2, <2>3
<1> QED BY <1>1, <1>3, <1>7 DEF Held, Kept

\* An event or a review of dispute d, or a repeated delivery: d goes on, and is reconciled.
LEMMA ReconcileOne ==
  ASSUME GiftInv, NEW d \in Disputes,
         gift' = reconcile(history', dispute', credited,
                           [gift |-> gift, receipts |-> receipts], d).gift,
         receipts' = reconcile(history', dispute', credited,
                               [gift |-> gift, receipts |-> receipts], d).receipts,
         UNCHANGED <<credited, moved>>,
         history' \in Seq(Terms), Len(history') <= MaxEvents,
         dispute' \in [Disputes -> Projections \cup {None}], dispute'[d] # None,
         \A e \in Disputes : Standing(history', dispute', e),
         \A e \in Disputes \ {d} :
           /\ dispute'[e] = dispute[e] /\ EventsOf(history', e) = EventsOf(history, e)
           /\ DurableCaptures(history', e) = DurableCaptures(history, e),
         EventsOf(history, d) \subseteq EventsOf(history', d),
         DurableCaptures(history, d) \subseteq DurableCaptures(history', d),
         dispute[d] # None /\ dispute[d].review # None => dispute'[d].review # None,
         dispute[d] # None /\ dispute[d].state = Lost => dispute'[d].state = Lost,
         \/ dispute'[d] = dispute[d]
         \/ dispute'[d].current \notin EventsOf(history, d)
         \/ dispute'[d].review # None /\ (dispute[d] = None \/ dispute[d].review = None)
  PROVE  GiftInv'
<1> DEFINE s == [gift |-> gift, receipts |-> receipts]
           h == history'
           D == dispute'
           S == AllBindings(history, dispute, credited)
<1>1. /\ s.gift = gift /\ s.receipts = receipts
      /\ gift' = reconcile(h, D, credited, s, d).gift
      /\ receipts' = reconcile(h, D, credited, s, d).receipts
  OBVIOUS
<1> HIDE DEF s
<1>2. D[d] \in Projections /\ D[d].state \in States /\ D[d] # None
  BY DEF Projections
<1>3. gift \in [Captures -> Gifts \cup {None}] /\ credited \in SUBSET Captures
  BY DEF GiftInv, TypeOK
<1>4. /\ gift' \in [Captures -> Gifts \cup {None}]
      /\ \A c \in Captures : gift'[c] # None <=> gift[c] # None
  BY <1>1, <1>2, <1>3, ReconcileTypedGift
<1>5. receipts' \subseteq ReceiptRows
  BY <1>1, <1>3, ReconcileTyped DEF GiftInv, TypeOK, ReceiptRows
<1>6. TypeOK'
  <2>1. \A e \in Disputes : D[e] # None => D[e].current \in DOMAIN h
    BY DEF Standing, EventsOf
  <2> QED BY <1>3, <1>4, <1>5, <2>1 DEF GiftInv, TypeOK, ReceiptRows
<1>7. Exactly(receipts', AllBindings(h, D, credited))
  <2>1. Exactly(receipts', S \cup Bindings(h, D, credited, d))
    <3>1. h \in Seq(Terms) /\ Exactly(s.receipts, S)
      BY <1>1 DEF GiftInv
    <3>2. \A R : R = reconcile(h, D, credited, s, d).receipts
                => Exactly(R, S \cup Bindings(h, D, credited, d))
      <4> HIDE DEF h, D, S
      <4> QED BY ONLY <1>2, <3>1, ReconcileReceipts, SMTT(30)
    <3> QED BY <1>1, <3>2
  <2>2. \A e \in Disputes \ {d} : Bindings(h, D, credited, e) = Bindings(history, dispute, credited, e)
    <3>1. \A e \in Disputes \ {d} : Sources(h, D, e) = Sources(history, dispute, e)
      BY DEF Sources
    <3> QED BY <3>1 DEF Bindings
  <2>3. Bindings(history, dispute, credited, d) \subseteq Bindings(h, D, credited, d)
    <3>1. Sources(history, dispute, d) \subseteq Sources(h, D, d)
      BY DEF Sources
    <3> QED BY <3>1 DEF Bindings
  <2>4. S \cup Bindings(h, D, credited, d) = AllBindings(h, D, credited)
    BY <2>2, <2>3 DEF AllBindings
  <2> QED BY <2>1, <2>4
<1>8. ASSUME NEW c \in GiftCaptures \cap credited
      PROVE  Kept(gift'[c], h, D, c)
  <2>0. c \in Captures /\ gift[c] \in Gifts
    BY <1>3, <1>8, GiftThere DEF GiftInv
  <2>1. Kept(gift[c], history, dispute, c)
    BY <1>8, AdverseIs DEF GiftInv, Kept, Held
  <2> DEFINE missing == \/ ~ Bound(receipts, D[d].current, d, c)
                        \/ D[d].review # None /\ ~ Bound(receipts, 0, d, c)
  <2>2. gift'[c] = IF c \in DurableCaptures(h, d) \cap credited /\ missing
                   THEN Custody(D[d].state, gift[c], OtherOpen(h, D, d, c)) ELSE gift[c]
    BY <1>1, <1>2, <2>0, ReconcileGift
  <2>3. ~missing => D[d] = dispute[d] /\ c \in DurableCaptures(history, d)
    <3> SUFFICES ASSUME ~missing PROVE D[d] = dispute[d] /\ c \in DurableCaptures(history, d)
      OBVIOUS
    <3>1. Exactly(receipts, S)
      BY DEF GiftInv
    <3>2. \A src : Bound(receipts, src, d, c) =>
            src \in Sources(history, dispute, d) /\ c \in DurableCaptures(history, d)
      <4> SUFFICES ASSUME NEW src, Bound(receipts, src, d, c)
                   PROVE  src \in Sources(history, dispute, d) /\ c \in DurableCaptures(history, d)
        OBVIOUS
      <4>1. <<src, d, c>> \in S
        BY <3>1, BoundIs
      <4>2. PICK e \in Disputes : <<src, d, c>> \in Bindings(history, dispute, credited, e)
        BY <4>1 DEF AllBindings
      <4> QED BY <4>2 DEF Bindings
    <3>3. D[d].current \in EventsOf(h, d) /\ 0 \notin EventsOf(h, d) /\ 0 \notin EventsOf(history, d)
      BY DEF Standing, EventsOf
    <3>4. D[d].current \in EventsOf(history, d)
      BY <3>2, <3>3 DEF Sources
    <3>5. D[d].review # None => dispute[d] # None /\ dispute[d].review # None
      BY <3>2, <3>3 DEF Sources
    <3> QED BY <3>2, <3>4, <3>5
  <2>4. Takes(history, dispute, d, c) => D[d].state = Lost
    BY DEF Takes
  <2>5. c \in DurableCaptures(history, d) => c \in DurableCaptures(h, d)
    OBVIOUS
  <2>6. \A e \in Disputes \ {d} : D[e] = dispute[e] /\ DurableCaptures(h, e) = DurableCaptures(history, e)
    OBVIOUS
  <2>7. \/ /\ c \in DurableCaptures(h, d)
           /\ gift'[c] = Custody(D[d].state, gift[c], OtherOpen(h, D, d, c))
        \/ gift'[c] = gift[c] /\ c \notin DurableCaptures(h, d)
        \/ gift'[c] = gift[c] /\ D[d] = dispute[d] /\ c \in DurableCaptures(history, d)
    <3> HIDE DEF missing
    <3> QED BY <1>8, <2>2, <2>3
  <2> HIDE DEF h, D
  <2>8. PICK k : k = gift'[c]
    OBVIOUS
  <2> QED BY <1>2, <2>0, <2>1, <2>4, <2>5, <2>6, <2>7, <2>8, HeldAfter
<1>9. ASSUME NEW c \in GiftCaptures \cap credited
      PROVE  Held(gift[c], Blocking(history, dispute, c) # {}, Adverse(c))'
  <2>1. (\E e \in Disputes : Takes(h, D, e, c)) <=> Adverse(c)'
    BY DEF Takes, Adverse, Lost
  <2> QED BY <1>8, <1>9, <2>1 DEF Held, Kept
<1> QED BY <1>6, <1>7, <1>9 DEF GiftInv

-----------------------------------------------------------------------------
(* The order of events                                                     *)

LEMMA BeforeTrans ==
  ASSUME NEW h \in Seq(Terms), NEW i \in DOMAIN h, NEW j \in DOMAIN h, NEW k \in DOMAIN h,
         Before(h, i, j), Before(h, j, k)
  PROVE  Before(h, i, k)
<1>1. \A x \in DOMAIN h : h[x].time \in Int /\ lifecycleRank(h[x].kind) \in Int /\ x \in Int
  BY GiftAssumption DEF Terms, lifecycleRank
<1> QED BY <1>1 DEF Before

LEMMA BeforeTotal ==
  ASSUME NEW h \in Seq(Terms), NEW i \in DOMAIN h, NEW j \in DOMAIN h, i # j, ~Before(h, i, j)
  PROVE  Before(h, j, i)
<1>1. \A x \in DOMAIN h : h[x].time \in Int /\ lifecycleRank(h[x].kind) \in Int /\ x \in Int
  BY GiftAssumption DEF Terms, lifecycleRank
<1> QED BY <1>1 DEF Before

\* A further event comes last.
LEMMA OneMore ==
  ASSUME NEW h \in Seq(Terms), NEW e \in Terms, NEW i, i = Append(h, e)
  PROVE  /\ i \in Seq(Terms) /\ Len(i) = Len(h) + 1 /\ Len(i) \in Nat /\ Len(h) \in Nat
         /\ Len(h) + 1 \in DOMAIN i /\ DOMAIN i = DOMAIN h \cup {Len(i)} /\ Len(i) \notin DOMAIN h
         /\ \A x \in DOMAIN h : i[x] = h[x]
         /\ i[Len(i)] = e
  OBVIOUS

\* Events and captures of a dispute remain, and of another dispute none are added.
LEMMA OtherEvents ==
  ASSUME NEW h \in Seq(Terms), NEW e \in Terms, NEW i, i = Append(h, e), NEW d
  PROVE  /\ EventsOf(h, d) \subseteq EventsOf(i, d)
         /\ DurableCaptures(h, d) \subseteq DurableCaptures(i, d)
         /\ d # e.dispute => EventsOf(i, d) = EventsOf(h, d) /\ DurableCaptures(i, d) = DurableCaptures(h, d)
<1>1. /\ DOMAIN i = DOMAIN h \cup {Len(i)} /\ Len(i) \notin DOMAIN h
      /\ \A x \in DOMAIN h : i[x] = h[x]
      /\ i[Len(i)] = e
  BY OneMore
<1>2. EventsOf(h, d) \subseteq EventsOf(i, d) /\ EventsOf(h, d) \subseteq DOMAIN h
  BY <1>1 DEF EventsOf
<1>3. d # e.dispute => EventsOf(i, d) = EventsOf(h, d)
  BY <1>1 DEF EventsOf
<1>4. DurableCaptures(h, d) \subseteq DurableCaptures(i, d)
  <2> SUFFICES ASSUME NEW c \in DurableCaptures(h, d)
               PROVE  c \in DurableCaptures(i, d)
    OBVIOUS
  <2>1. PICK x \in EventsOf(h, d) : c \in h[x].captures
    BY DEF DurableCaptures
  <2>2. x \in EventsOf(i, d) /\ i[x] = h[x]
    BY <1>1, <1>2
  <2> QED BY <2>1, <2>2 DEF DurableCaptures
<1>5. d # e.dispute => DurableCaptures(i, d) = DurableCaptures(h, d)
  BY <1>1, <1>2, <1>3 DEF DurableCaptures
<1> QED BY <1>2, <1>3, <1>4, <1>5

\* The projection of a dispute follows its latest event.
LEMMA ProjectStands ==
  ASSUME GiftInv, NEW e \in Terms, NEW d \in Disputes, d = e.dispute, NEW h, h = Append(history, e),
         Len(h) <= MaxEvents, dispute[d] # None => dispute[d].review = None,
         NEW D, D = Project(h, dispute, e)
  PROVE  /\ D \in [Disputes -> Projections \cup {None}] /\ D[d] # None
         /\ \A x \in Disputes \ {d} : D[x] = dispute[x]
         /\ \A x \in Disputes : Standing(h, D, x)
         /\ D[d].review = None
         /\ dispute[d] # None /\ dispute[d].state = Lost => D[d].state = Lost
         /\ D[d] = dispute[d] \/ D[d].current \notin EventsOf(history, d)
<1>0. /\ history \in Seq(Terms) /\ dispute \in [Disputes -> Projections \cup {None}]
      /\ \A x \in Disputes : Standing(history, dispute, x)
      /\ None \notin Projections /\ None \notin Decisions
  BY GiftAssumption DEF GiftInv, TypeOK
<1>n. PICK n : n = Len(h)
  OBVIOUS
<1>1. /\ h \in Seq(Terms) /\ n = Len(history) + 1 /\ n \in Nat /\ Len(history) \in Nat
      /\ n \in DOMAIN h /\ DOMAIN history \subseteq DOMAIN h
      /\ \A x \in DOMAIN history : h[x] = history[x]
      /\ h[n] = e
      /\ EventsOf(h, d) = EventsOf(history, d) \cup {n}
      /\ \A x \in Disputes \ {d} : EventsOf(h, x) = EventsOf(history, x)
      /\ \A x, y \in DOMAIN history : Before(h, x, y) <=> Before(history, x, y)
  <2>1. /\ h \in Seq(Terms) /\ Len(h) = Len(history) + 1 /\ Len(h) \in Nat /\ Len(history) \in Nat
        /\ Len(history) + 1 \in DOMAIN h /\ DOMAIN h = DOMAIN history \cup {Len(h)}
        /\ \A x \in DOMAIN history : h[x] = history[x]
        /\ h[Len(h)] = e
    BY <1>0, OneMore
  <2>2. /\ EventsOf(h, d) = EventsOf(history, d) \cup {Len(h)}
        /\ \A x \in Disputes \ {d} : EventsOf(h, x) = EventsOf(history, x)
    BY <2>1, Len(history) + 1 \notin DOMAIN history DEF EventsOf
  <2>3. \A x, y \in DOMAIN history : Before(h, x, y) <=> Before(history, x, y)
    BY <2>1 DEF Before
  <2> QED BY <1>n, <2>1, <2>2, <2>3
<1>2. \A x : EventsOf(history, x) \subseteq DOMAIN history /\ n \notin EventsOf(history, x)
  BY <1>0, <1>1 DEF EventsOf
<1>3. n \in 1 .. MaxEvents /\ desiredState(e) \in States
  <2>1. n \in 1 .. MaxEvents
    BY <1>n, <1>1, GiftAssumption
  <2>2. desiredState(e) \in States
    BY DEF desiredState, States
  <2> QED BY <2>1, <2>2
<1> DEFINE new == [state |-> desiredState(e), current |-> n, review |-> None]
<1>4. new \in Projections
  BY <1>3 DEF Projections
<1>5. ASSUME NEW x \in Disputes \ {d}, D[x] = dispute[x] PROVE Standing(h, D, x)
  <2>1. EventsOf(h, x) = EventsOf(history, x)
    BY <1>1
  <2>2. Standing(history, dispute, x)
    BY <1>0
  <2>3. D[x] # None => D[x].current \in EventsOf(history, x) /\ h[D[x].current] = history[D[x].current]
    BY <1>1, <1>2, <1>5, <2>2 DEF Standing
  <2>4. D[x] # None => \A i \in EventsOf(h, x) \ {D[x].current} : Before(h, i, D[x].current)
    BY <1>1, <1>2, <1>5, <2>1, <2>2, <2>3 DEF Standing
  <2> QED BY <1>5, <2>1, <2>2, <2>3, <2>4 DEF Standing
<1>6. CASE dispute[d] = None
  <2>1. D = [dispute EXCEPT ![d] = new]
    BY <1>n, <1>6 DEF Project
  <2>2. D[d] = new /\ \A x \in Disputes \ {d} : D[x] = dispute[x]
    BY <1>0, <2>1
  <2>3. EventsOf(h, d) = {n}
    BY <1>0, <1>1, <1>6 DEF Standing
  <2>4. Standing(h, D, d)
    BY <1>0, <1>1, <1>4, <2>2, <2>3 DEF Standing, Decisions
  <2>5. D \in [Disputes -> Projections \cup {None}]
    BY <1>0, <1>4, <2>1
  <2> QED BY <1>0, <1>2, <1>4, <1>5, <1>6, <2>2, <2>4, <2>5
<1>7. CASE dispute[d] # None
  <2> DEFINE p == dispute[d]
  <2>1. /\ p \in Projections /\ p.review = None /\ p.current \in EventsOf(history, d)
        /\ p.current \in DOMAIN history /\ p.current # n
        /\ \A i \in EventsOf(history, d) \ {p.current} : Before(h, i, p.current)
    BY <1>0, <1>1, <1>2, <1>7 DEF Standing
  <2>2. h[p.current] = history[p.current] /\ p.current \in DOMAIN h
    BY <1>1, <2>1
  <2>3. CASE ~Before(h, p.current, n)
    <3>1. D = dispute
      BY <1>n, <1>7, <2>3 DEF Project
    <3>2. Before(h, n, p.current)
      BY <1>1, <2>1, <2>2, <2>3, BeforeTotal
    <3>3. \A i \in EventsOf(h, d) \ {p.current} : Before(h, i, p.current)
      BY <1>1, <2>1, <3>2
    <3>4. Standing(h, D, d)
      BY <1>0, <1>1, <1>7, <2>1, <2>2, <3>1, <3>3 DEF Standing
    <3> QED BY <1>0, <1>5, <1>7, <2>1, <3>1, <3>4
  <2>4. CASE Before(h, p.current, n)
    <3> DEFINE q == IF p.state = Lost THEN [p EXCEPT !.current = n]
                    ELSE [p EXCEPT !.state = desiredState(e), !.current = n]
    <3>1. D = [dispute EXCEPT ![d] = q]
      BY <1>n, <1>7, <2>4 DEF Project, Lost
    <3>2. /\ q \in Projections /\ q.current = n /\ q.review = None
          /\ IF p.state = Lost THEN q.state = Lost ELSE q.state = desiredState(e)
      BY <1>3, <2>1 DEF Projections
    <3> HIDE DEF q
    <3>3. D[d] = q /\ \A x \in Disputes \ {d} : D[x] = dispute[x]
      BY <1>0, <3>1
    <3>4. \A i \in EventsOf(h, d) \ {n} : Before(h, i, n)
      <4> SUFFICES ASSUME NEW i \in EventsOf(h, d) \ {n} PROVE Before(h, i, n)
        OBVIOUS
      <4>1. i \in EventsOf(history, d) /\ i \in DOMAIN h
        BY <1>1, <1>2
      <4>2. CASE i = p.current
        BY <2>4, <4>2
      <4>3. CASE i # p.current
        BY <1>1, <2>1, <2>2, <2>4, <4>1, <4>3, BeforeTrans
      <4> QED BY <4>2, <4>3
    <3>5. Standing(h, D, d)
      BY <1>0, <1>1, <3>2, <3>3, <3>4 DEF Standing, Decisions
    <3>6. D \in [Disputes -> Projections \cup {None}]
      BY <1>0, <3>1, <3>2
    <3> QED BY <1>0, <1>2, <1>5, <3>2, <3>3, <3>5, <3>6
  <2> QED BY <2>3, <2>4
<1> QED BY <1>6, <1>7

-----------------------------------------------------------------------------
(* CreditGifts: the steps                                                  *)

LEMMA GiftInit ==
  ASSUME Init PROVE GiftInv
<1>1. EventsOf(<<>>, 1) = {} /\ \A d : EventsOf(<<>>, d) = {}
  BY DEF EventsOf
<1>2. AllBindings(history, dispute, credited) = {}
  BY DEF Init, AllBindings, Bindings
<1>3. Exactly(receipts, AllBindings(history, dispute, credited))
  BY <1>2 DEF Init, Exactly
<1>4. \A d \in Disputes : Standing(history, dispute, d)
  BY <1>1 DEF Init, Standing
<1>5. TypeOK
  BY GiftAssumption DEF Init, TypeOK
<1> QED BY <1>3, <1>4, <1>5 DEF GiftInv, Init

LEMMA ApplyStep ==
  ASSUME GiftInv, NEW e \in Terms, applyDispute(e)
  PROVE  GiftInv'
<1> DEFINE d == e.dispute
           h == Append(history, e)
           D == Project(h, dispute, e)
<1>1. /\ history' = h /\ dispute' = D /\ Len(history) < MaxEvents
      /\ dispute[d] # None => dispute[d].review = None
      /\ UNCHANGED <<credited, moved>>
      /\ gift' = reconcile(history', dispute', credited, [gift |-> gift, receipts |-> receipts], d).gift
      /\ receipts' = reconcile(history', dispute', credited, [gift |-> gift, receipts |-> receipts], d).receipts
  BY DEF applyDispute
<1>2. d \in Disputes /\ history \in Seq(Terms)
  BY DEF Terms, GiftInv, TypeOK
<1>3. /\ h \in Seq(Terms) /\ Len(h) <= MaxEvents
      /\ EventsOf(history, d) \subseteq EventsOf(h, d)
      /\ \A x \in Disputes \ {d} : EventsOf(h, x) = EventsOf(history, x)
      /\ DurableCaptures(history, d) \subseteq DurableCaptures(h, d)
      /\ \A x \in Disputes \ {d} : DurableCaptures(h, x) = DurableCaptures(history, x)
  <2>1. h \in Seq(Terms) /\ Len(h) = Len(history) + 1 /\ Len(history) \in Nat
    BY <1>2, OneMore
  <2>2. \A x : /\ EventsOf(history, x) \subseteq EventsOf(h, x)
               /\ DurableCaptures(history, x) \subseteq DurableCaptures(h, x)
               /\ x # d => EventsOf(h, x) = EventsOf(history, x)
                           /\ DurableCaptures(h, x) = DurableCaptures(history, x)
    BY <1>2, OtherEvents
  <2> HIDE DEF h
  <2> QED BY <1>1, <2>1, <2>2, GiftAssumption
<1>4. /\ D \in [Disputes -> Projections \cup {None}] /\ D[d] # None
      /\ \A x \in Disputes \ {d} : D[x] = dispute[x]
      /\ \A x \in Disputes : Standing(h, D, x)
      /\ D[d].review = None
      /\ dispute[d] # None /\ dispute[d].state = Lost => D[d].state = Lost
      /\ D[d] = dispute[d] \/ D[d].current \notin EventsOf(history, d)
  BY <1>1, <1>2, <1>3, ProjectStands
<1> HIDE DEF h, D, d
<1> QED BY <1>1, <1>2, <1>3, <1>4, ReconcileOne

LEMMA RepeatStep ==
  ASSUME GiftInv, NEW i \in DOMAIN history, repeatDispute(i)
  PROVE  GiftInv'
<1> DEFINE d == history[i].dispute
<1>1. /\ UNCHANGED <<credited, moved, history, dispute>>
      /\ gift' = reconcile(history', dispute', credited, [gift |-> gift, receipts |-> receipts], d).gift
      /\ receipts' = reconcile(history', dispute', credited, [gift |-> gift, receipts |-> receipts], d).receipts
  BY DEF repeatDispute
<1>2. d \in Disputes /\ history \in Seq(Terms) /\ Len(history) <= MaxEvents
      /\ dispute \in [Disputes -> Projections \cup {None}]
  BY DEF Terms, GiftInv, TypeOK
<1>3. /\ dispute[d] # None
      /\ \A x \in Disputes : Standing(history, dispute, x)
  <2>1. i \in EventsOf(history, d)
    BY DEF EventsOf
  <2> QED BY <1>2, <2>1 DEF GiftInv, Standing
<1> HIDE DEF d
<1> QED BY <1>1, <1>2, <1>3, ReconcileOne

LEMMA ReviewStep ==
  ASSUME GiftInv, NEW d \in Disputes, NEW decision \in Decisions, resolveReview(d, decision)
  PROVE  GiftInv'
<1> DEFINE p == dispute[d]
           q == [p EXCEPT !.state = IF decision = "seller_favour" THEN "resolved_seller"
                                    ELSE "resolved_against_seller",
                          !.review = decision]
<1>1. /\ p # None /\ p.review = None /\ p.state = "resolution_review"
      /\ dispute' = [dispute EXCEPT ![d] = q]
      /\ UNCHANGED <<credited, moved, history>>
      /\ gift' = reconcile(history', dispute', credited, [gift |-> gift, receipts |-> receipts], d).gift
      /\ receipts' = reconcile(history', dispute', credited, [gift |-> gift, receipts |-> receipts], d).receipts
  BY DEF resolveReview
<1>2. /\ history \in Seq(Terms) /\ Len(history) <= MaxEvents
      /\ dispute \in [Disputes -> Projections \cup {None}]
      /\ \A x \in Disputes : Standing(history, dispute, x)
      /\ None \notin Projections /\ None \notin Decisions
  BY GiftAssumption DEF GiftInv, TypeOK
<1>3. /\ q \in Projections /\ q.current = p.current /\ q.review = decision
      /\ decision = "seller_favour" => q.state = "resolved_seller"
      /\ decision = "buyer_favour" => q.state = Lost
  BY <1>1, <1>2 DEF Projections, States, Decisions, Lost
<1> HIDE DEF q
<1>4. /\ dispute' \in [Disputes -> Projections \cup {None}]
      /\ dispute'[d] = q /\ \A x \in Disputes \ {d} : dispute'[x] = dispute[x]
  BY <1>1, <1>2, <1>3
<1>5. Standing(history, dispute', d)
  BY <1>1, <1>2, <1>3, <1>4 DEF Standing
<1>6. \A x \in Disputes : Standing(history', dispute', x)
  BY <1>1, <1>2, <1>4, <1>5 DEF Standing
<1>7. /\ dispute[d] # None /\ dispute[d].review = None /\ dispute[d].state # Lost
      /\ dispute'[d] # None /\ dispute'[d].review # None
  BY <1>1, <1>2, <1>3, <1>4 DEF Lost
<1> QED BY <1>1, <1>2, <1>4, <1>6, <1>7, ReconcileOne

\* An answer of a resident: one gift goes on, and stays held.
LEMMA AnswerStep ==
  ASSUME GiftInv, NEW c \in GiftCaptures, gift[c] # None,
         UNCHANGED <<credited, history, dispute, receipts>>,
         NEW g \in Gifts, gift' = [gift EXCEPT ![c] = g],
         moved' \subseteq Captures \X Requests \X Residents,
         Held(g, Blocking(history, dispute, c) # {}, Adverse(c))
  PROVE  GiftInv'
<1>1. TypeOK' /\ c \in Captures
  BY GiftAssumption DEF GiftInv, TypeOK
<1>2. \A b \in Captures \ {c} : gift'[b] = gift[b]
  BY DEF GiftInv, TypeOK
<1>3. gift'[c] = g
  BY <1>1 DEF GiftInv, TypeOK
<1>4. \A b \in GiftCaptures \cap credited : b \in Captures
  BY GiftAssumption
<1>5. ASSUME NEW b \in GiftCaptures \cap credited'
      PROVE  Held(gift'[b], Blocking(history', dispute', b) # {}, Adverse(b)')
  <2>1. Adverse(b)' <=> Adverse(b)
    BY DEF Adverse
  <2> QED BY <1>2, <1>3, <1>4, <1>5, <2>1 DEF GiftInv, Held
<1> QED BY <1>1, <1>5 DEF GiftInv, Standing

LEMMA AcceptStep ==
  ASSUME GiftInv, NEW c \in GiftCaptures, acceptCreditGift(c)
  PROVE  GiftInv'
<1> DEFINE g == [gift[c] EXCEPT !.status = "accepted"]
<1>1. /\ gift[c] \in Gifts /\ gift[c] # None /\ c \in credited /\ moved \subseteq Captures \X Requests \X Residents
  BY GiftAssumption DEF GiftInv, TypeOK, acceptCreditGift
<1>2. g \in Gifts
  BY <1>1 DEF Gifts
<1>3. Held(g, Blocking(history, dispute, c) # {}, Adverse(c))
  BY <1>1 DEF GiftInv, Held, Gifts, acceptCreditGift
<1> QED BY <1>1, <1>2, <1>3, AnswerStep DEF acceptCreditGift

LEMMA RefuseStep ==
  ASSUME GiftInv, NEW c \in GiftCaptures, refuseCreditGift(c)
  PROVE  GiftInv'
<1> DEFINE g == [gift[c] EXCEPT !.status = "refused"]
<1>1. /\ gift[c] \in Gifts /\ gift[c] # None /\ c \in credited /\ moved \subseteq Captures \X Requests \X Residents
  BY GiftAssumption DEF GiftInv, TypeOK, refuseCreditGift
<1>2. g \in Gifts
  BY <1>1 DEF Gifts
<1>3. Held(g, Blocking(history, dispute, c) # {}, Adverse(c))
  BY <1>1 DEF GiftInv, Held, Gifts, refuseCreditGift
<1> QED BY <1>1, <1>2, <1>3, AnswerStep DEF refuseCreditGift

LEMMA RedirectStep ==
  ASSUME GiftInv, NEW c \in GiftCaptures, NEW to \in Residents, NEW request \in Requests,
         redirectCreditGift(c, to, request)
  PROVE  GiftInv'
<1> DEFINE g == [gift[c] EXCEPT !.recipient = to, !.status = "pending"]
<1>1. /\ gift[c] \in Gifts /\ gift[c] # None /\ c \in credited
      /\ moved' \subseteq Captures \X Requests \X Residents
      /\ gift' = [gift EXCEPT ![c] = g]
  <2>1. gift' = [gift EXCEPT ![c] = g]
    BY DEF redirectCreditGift
  <2>2. gift[c] \in Gifts /\ gift[c] # None /\ c \in credited /\ c \in Captures
    BY GiftAssumption DEF GiftInv, TypeOK, redirectCreditGift
  <2>3. moved' \subseteq Captures \X Requests \X Residents
    BY <2>2 DEF GiftInv, TypeOK, redirectCreditGift
  <2> QED BY <2>1, <2>2, <2>3
<1>2. g \in Gifts
  BY <1>1 DEF Gifts
<1>3. Held(g, Blocking(history, dispute, c) # {}, Adverse(c))
  BY <1>1 DEF GiftInv, Held, Gifts, redirectCreditGift
<1> HIDE DEF g
<1> QED BY <1>1, <1>2, <1>3, AnswerStep DEF redirectCreditGift

-----------------------------------------------------------------------------
(* A capture is credited                                                   *)

LEMMA LeastNat ==
  ASSUME NEW T, T \subseteq Nat, T # {}
  PROVE  \E x \in T : \A y \in T : x <= y
<1>1. PICK x \in T : \A y \in T : ~(<<y, x>> \in OpToRel(<, Nat))
  BY NatLessThanWellFounded, WFMin, Zenon
<1>2. \A y \in T : ~(y < x)
  BY <1>1 DEF OpToRel
<1> QED BY <1>2

\* One turn of the loop over the disputes that list c.
Turn(c, s, d) ==
  IF c \in DurableCaptures(history, d)
  THEN reconcile(history, dispute, credited \cup {c}, s, d) ELSE s

\* f is what the loop, begun at s, leaves after each dispute up to n.
Loops(f, c, s, n) ==
  f = [d \in 0 .. n |-> IF d = 0 THEN s ELSE Turn(c, f[d - 1], d)]

LEMMA LoopExists ==
  ASSUME NEW c, NEW s, NEW n \in Nat
  PROVE  \E f : Loops(f, c, s, n)
<1> DEFINE T == {m \in Nat : ~ \E f : Loops(f, c, s, m)}
<1>1. ASSUME T # {} PROVE FALSE
  <2>1. PICK m \in T : \A k \in T : m <= k
    BY <1>1, LeastNat
  <2>2. CASE m = 0
    <3>1. Loops([d \in 0 .. 0 |-> s], c, s, 0)
      BY DEF Loops
    <3> QED BY <2>1, <2>2, <3>1
  <2>3. CASE m # 0
    <3>1. m - 1 \in Nat /\ m - 1 \notin T /\ m \in Nat
      BY <2>1, <2>3
    <3>2. PICK f : Loops(f, c, s, m - 1)
      BY <3>1
    <3>3. PICK g : g = [d \in 0 .. m |-> IF d < m THEN f[d] ELSE Turn(c, f[m - 1], m)]
      OBVIOUS
    <3>4. \A d \in 0 .. m - 1 : f[d] = IF d = 0 THEN s ELSE Turn(c, f[d - 1], d)
      BY <3>2 DEF Loops
    <3>5. \A d \in 0 .. m : g[d] = IF d = 0 THEN s ELSE Turn(c, g[d - 1], d)
      <4> SUFFICES ASSUME NEW d \in 0 .. m PROVE g[d] = IF d = 0 THEN s ELSE Turn(c, g[d - 1], d)
        OBVIOUS
      <4>1. CASE d = m
        BY <3>1, <3>3, <2>3, <4>1
      <4>2. CASE d # m
        <5>1. d \in 0 .. m - 1 /\ g[d] = f[d]
          BY <3>1, <3>3, <4>2
        <5>2. d # 0 => g[d - 1] = f[d - 1]
          BY <3>1, <3>3, <4>2
        <5> QED BY <3>4, <5>1, <5>2
      <4> QED BY <4>1, <4>2
    <3>6. Loops(g, c, s, m)
      BY <3>3, <3>5 DEF Loops
    <3> QED BY <2>1, <3>6
  <2> QED BY <2>2, <2>3
<1> QED BY <1>1

LEMMA StagedLoops ==
  ASSUME NEW c, NEW s
  PROVE  \E f : Loops(f, c, s, MaxDisputes) /\ Staged(c, s) = f[MaxDisputes]
<1> DEFINE f == CHOOSE f : f = [d \in 0 .. MaxDisputes |->
                   IF d = 0 THEN s
                   ELSE IF c \in DurableCaptures(history, d)
                        THEN reconcile(history, dispute, credited \cup {c}, f[d - 1], d)
                        ELSE f[d - 1]]
<1>1. \E g : Loops(g, c, s, MaxDisputes)
  BY LoopExists, GiftAssumption
<1>2. Loops(f, c, s, MaxDisputes)
  BY <1>1 DEF Loops, Turn
<1>3. Staged(c, s) = f[MaxDisputes]
  BY DEF Staged
<1> QED BY <1>2, <1>3

\* The gift g of c is held as those of the first n disputes say.
KeptTo(g, c, n) ==
  Held(g, \E d \in 1 .. n : Blocks(history, dispute, d, c),
          \E d \in 1 .. n : Takes(history, dispute, d, c))

\* What the loop binds up to dispute n.
LoopBindings(c, n) ==
  UNION {Bindings(history, dispute, credited \cup {c}, d) :
           d \in {x \in 1 .. n : c \in DurableCaptures(history, x)}}

\* The state t of the loop after dispute n, begun with gifts g.
LoopInv(t, g, c, n) ==
  /\ t.gift \in [Captures -> Gifts \cup {None}]
  /\ \A b \in Captures : /\ t.gift[b] # None <=> g[b] # None
                         /\ b # c \/ c \in credited => t.gift[b] = g[b]
  /\ c \notin credited /\ g[c] # None => KeptTo(t.gift[c], c, n)
  /\ t.receipts \subseteq ReceiptRows
  /\ Exactly(t.receipts, AllBindings(history, dispute, credited) \cup LoopBindings(c, n))

\* A dispute that lists no c leaves it as it is.
LEMMA TurnAway ==
  ASSUME NEW c, NEW n \in Nat, n > 0, NEW g, NEW t, LoopInv(t, g, c, n - 1),
         c \notin DurableCaptures(history, n)
  PROVE  LoopInv(t, g, c, n)
<1>1. 1 .. n = (1 .. (n - 1)) \cup {n}
  OBVIOUS
<1>2. LoopBindings(c, n) = LoopBindings(c, n - 1)
  BY <1>1 DEF LoopBindings
<1>3. \A k : KeptTo(k, c, n - 1) => KeptTo(k, c, n)
  <2>1. ~Blocks(history, dispute, n, c) /\ ~Takes(history, dispute, n, c)
    BY DEF Blocks, Takes
  <2>2. (\E d \in 1 .. n : Blocks(history, dispute, d, c))
          <=> \E d \in 1 .. (n - 1) : Blocks(history, dispute, d, c)
    BY <1>1, <2>1
  <2>3. (\E d \in 1 .. n : Takes(history, dispute, d, c))
          <=> \E d \in 1 .. (n - 1) : Takes(history, dispute, d, c)
    BY <1>1, <2>1
  <2> QED BY <2>2, <2>3 DEF KeptTo, Held
<1> QED BY <1>2, <1>3 DEF LoopInv

\* A dispute that lists c is bound to it, and does to its gift what its state asks for.
LEMMA TurnTo ==
  ASSUME GiftInv, NEW c \in Captures, NEW n \in Disputes, NEW g, NEW t, LoopInv(t, g, c, n - 1),
         c \in DurableCaptures(history, n), NEW r,
         r = reconcile(history, dispute, credited \cup {c}, t, n)
  PROVE  LoopInv(r, g, c, n)
<1> DEFINE S == AllBindings(history, dispute, credited) \cup LoopBindings(c, n - 1)
           p == dispute[n]
<1>1. /\ n \in Nat /\ n > 0 /\ 1 .. n = (1 .. (n - 1)) \cup {n} /\ n \notin 1 .. (n - 1)
      /\ 1 .. n \subseteq Disputes
  BY GiftAssumption DEF Disputes
<1>2. /\ p # None /\ p \in Projections /\ p.state \in States /\ p.current \in EventsOf(history, n)
  <2>1. EventsOf(history, n) # {}
    BY DEF DurableCaptures
  <2> QED BY <2>1 DEF GiftInv, Standing, TypeOK, Projections
<1>3. /\ t.gift \in [Captures -> Gifts \cup {None}] /\ t.receipts \subseteq ReceiptRows
      /\ Exactly(t.receipts, S)
      /\ \A b \in Captures : /\ t.gift[b] # None <=> g[b] # None
                             /\ b # c \/ c \in credited => t.gift[b] = g[b]
  BY DEF LoopInv
<1>4. credited \cup {c} \in SUBSET Captures /\ history \in Seq(Terms) /\ Len(history) <= MaxEvents
  BY DEF GiftInv, TypeOK
<1>k. PICK k : k = credited \cup {c}
  OBVIOUS
<1>r. r = reconcile(history, dispute, k, t, n)
  BY <1>k
<1>d. dispute[n] # None /\ dispute[n].state \in States
  BY <1>2
<1>5. /\ r.gift \in [Captures -> Gifts \cup {None}]
      /\ \A b \in Captures : r.gift[b] # None <=> t.gift[b] # None
  <2>1. t.gift \in [Captures -> Gifts \cup {None}]
    BY <1>3
  <2> HIDE DEF p, S
  <2>2. reconcile(history, dispute, k, t, n).gift \in [Captures -> Gifts \cup {None}]
    BY ONLY <2>1, <1>d, n \in Disputes, ReconcileTypedGift
  <2>3. \A b \in Captures : reconcile(history, dispute, k, t, n).gift[b] # None <=> t.gift[b] # None
    BY ONLY <2>1, <1>d, n \in Disputes, ReconcileTypedGift
  <2> QED BY <1>r, <2>2, <2>3
<1>6. r.receipts \subseteq ReceiptRows
  BY <1>3, <1>4, ReconcileTyped DEF ReceiptRows
<1>7. Exactly(r.receipts, AllBindings(history, dispute, credited) \cup LoopBindings(c, n))
  <2>1. Exactly(r.receipts, S \cup Bindings(history, dispute, credited \cup {c}, n))
    <3>1. Exactly(t.receipts, S) /\ history \in Seq(Terms)
      BY <1>3, <1>4
    <3> HIDE DEF S, p
    <3>2. Exactly(r.receipts, S \cup Bindings(history, dispute, k, n))
      BY <1>r, <1>d, <3>1, ReconcileReceipts
    <3> QED BY <1>k, <3>2
  <2>2. LoopBindings(c, n) = LoopBindings(c, n - 1) \cup Bindings(history, dispute, credited \cup {c}, n)
    BY <1>1 DEF LoopBindings
  <2> QED BY <2>1, <2>2
<1> DEFINE missing(b) == \/ ~ Bound(t.receipts, p.current, n, b)
                         \/ p.review # None /\ ~ Bound(t.receipts, 0, n, b)
<1>8. \A b \in Captures : r.gift[b] =
        IF b \in DurableCaptures(history, n) \cap (credited \cup {c}) /\ missing(b)
        THEN Custody(p.state, t.gift[b], OtherOpen(history, dispute, n, b)) ELSE t.gift[b]
  <2> SUFFICES ASSUME NEW b \in Captures
               PROVE  r.gift[b] =
        IF b \in DurableCaptures(history, n) \cap (credited \cup {c}) /\ missing(b)
        THEN Custody(p.state, t.gift[b], OtherOpen(history, dispute, n, b)) ELSE t.gift[b]
    OBVIOUS
  <2>1. t.gift[b] \in Gifts \cup {None} /\ dispute[n].state \in States
    BY <1>2, <1>3
  <2> QED BY <2>1, ReconcileGift
<1>9. ASSUME NEW b \in Captures, b # c \/ c \in credited PROVE r.gift[b] = t.gift[b]
  <2>1. ASSUME b \in DurableCaptures(history, n), b \in credited PROVE ~missing(b)
    <3>1. \A src \in Sources(history, dispute, n) : <<src, n, b>> \in S
      BY <2>1 DEF AllBindings, Bindings
    <3>2. \A src \in Sources(history, dispute, n) : Bound(t.receipts, src, n, b)
      <4> HIDE DEF S
      <4> SUFFICES ASSUME NEW src \in Sources(history, dispute, n) PROVE Bound(t.receipts, src, n, b)
        OBVIOUS
      <4> QED BY <1>3, <3>1, BoundIs
    <3>3. /\ p.current \in Sources(history, dispute, n)
          /\ p.review # None => 0 \in Sources(history, dispute, n)
      BY <1>2 DEF Sources
    <3> QED BY <3>2, <3>3
  <2>2. b \in credited \cup {c} => b \in credited
    BY <1>9
  <2> HIDE DEF missing
  <2> QED BY <1>8, <2>1, <2>2
<1>10. ASSUME c \notin credited, g[c] # None PROVE KeptTo(r.gift[c], c, n)
  <2>1. missing(c)
    <3>1. <<p.current, n, c>> \notin AllBindings(history, dispute, credited)
      BY <1>10 DEF AllBindings, Bindings
    <3>2. <<p.current, n, c>> \notin LoopBindings(c, n - 1)
      BY <1>1 DEF LoopBindings, Bindings
    <3>3. <<p.current, n, c>> \notin S
      BY <3>1, <3>2
    <3> HIDE DEF S
    <3> QED BY <1>3, <3>3, BoundIs
  <2> DEFINE other == OtherOpen(history, dispute, n, c)
             b == \E d \in 1 .. (n - 1) : Blocks(history, dispute, d, c)
             was == \E d \in 1 .. (n - 1) : Takes(history, dispute, d, c)
  <2>2. r.gift[c] = Custody(p.state, t.gift[c], other)
    <3> HIDE DEF missing, other
    <3> QED BY <1>8, <2>1 DEF other
  <2>3. t.gift[c] \in Gifts
    BY <1>3, <1>10
  <2>4. Held(t.gift[c], b, was)
    BY <1>10 DEF LoopInv, KeptTo
  <2>5. b => other
    <3>1. \A d \in 1 .. (n - 1) : d \in Disputes \ {n}
      BY <1>1
    <3> QED BY <3>1, BlockingIs
  <2>6. other \in BOOLEAN /\ b \in BOOLEAN /\ was \in BOOLEAN
    BY BlockingIs
  <2>7. Blocks(history, dispute, n, c) <=> p.state \in Undecided
    BY <1>2 DEF Blocks
  <2>8. Takes(history, dispute, n, c) <=> p.state = Lost
    BY <1>2 DEF Takes
  <2>9. (\E d \in 1 .. n : Blocks(history, dispute, d, c)) <=> b \/ p.state \in Undecided
    BY <1>1, <2>7
  <2>10. (\E d \in 1 .. n : Takes(history, dispute, d, c)) <=> was \/ p.state = Lost
    BY <1>1, <2>8
  <2>11. Held(r.gift[c], b \/ p.state \in Undecided, was \/ p.state = Lost)
    <3> HIDE DEF other, b, was
    <3> QED BY <1>2, <2>2, <2>3, <2>4, <2>5, <2>6, CustodyFirst
  <2> HIDE DEF b, was
  <2> QED BY <2>9, <2>10, <2>11 DEF KeptTo, Held
<1>11. \A b \in Captures : /\ r.gift[b] # None <=> g[b] # None
                           /\ b # c \/ c \in credited => r.gift[b] = g[b]
  BY <1>3, <1>5, <1>9
<1> QED BY <1>5, <1>6, <1>7, <1>10, <1>11 DEF LoopInv

LEMMA CreditStep ==
  ASSUME GiftInv, NEW c \in Captures, deliver(c)
  PROVE  GiftInv'
<1>1. PICK g : /\ IF c \in GiftCaptures /\ c \notin credited
                  THEN \E r \in Residents : g = [status |-> "pending", blocked |-> FALSE, recipient |-> r]
                  ELSE g = gift[c]
               /\ LET s1 == Staged(c, [gift |-> [gift EXCEPT ![c] = g], receipts |-> receipts])
                  IN  gift' = s1.gift /\ receipts' = s1.receipts
               /\ credited' = credited \cup {c}
               /\ UNCHANGED <<moved, history, dispute>>
  BY DEF deliver
<1>2. /\ gift \in [Captures -> Gifts \cup {None}] /\ credited \subseteq Captures
      /\ \A b \in Captures : gift[b] # None <=> b \in credited \cap GiftCaptures
      /\ receipts \subseteq ReceiptRows
      /\ Exactly(receipts, AllBindings(history, dispute, credited))
      /\ MaxDisputes \in Nat /\ None \notin Gifts
  BY GiftAssumption DEF GiftInv, TypeOK, ReceiptRows
<1>3. g \in Gifts \cup {None} /\ (c \in credited => g = gift[c]) /\ (g # None <=> c \in GiftCaptures)
  <2>1. CASE c \in GiftCaptures /\ c \notin credited
    <3>1. PICK x \in Residents : g = [status |-> "pending", blocked |-> FALSE, recipient |-> x]
      BY <1>1, <2>1
    <3>2. g \in Gifts
      BY <3>1 DEF Gifts
    <3> QED BY <1>2, <2>1, <3>2
  <2>2. CASE ~(c \in GiftCaptures /\ c \notin credited)
    BY <1>1, <1>2, <2>2
  <2> QED BY <2>1, <2>2
<1>4. PICK G : G = [gift EXCEPT ![c] = g]
  OBVIOUS
<1>5. PICK s : s = [gift |-> G, receipts |-> receipts]
  OBVIOUS
<1>6. /\ G \in [Captures -> Gifts \cup {None}] /\ G[c] = g
      /\ \A b \in Captures \ {c} : G[b] = gift[b]
      /\ s.gift = G /\ s.receipts = receipts
  BY <1>2, <1>3, <1>4, <1>5
<1>7. PICK f : Loops(f, c, s, MaxDisputes) /\ Staged(c, s) = f[MaxDisputes]
  BY StagedLoops
<1>8. gift' = f[MaxDisputes].gift /\ receipts' = f[MaxDisputes].receipts
  BY <1>1, <1>4, <1>5, <1>7
<1>9. \A d \in 0 .. MaxDisputes : f[d] = IF d = 0 THEN s ELSE Turn(c, f[d - 1], d)
  BY <1>7 DEF Loops
<1>10. LoopInv(s, G, c, 0)
  <2>1. LoopBindings(c, 0) = {}
    BY DEF LoopBindings
  <2>2. c \notin credited /\ g # None => KeptTo(g, c, 0)
    BY <1>1, <1>3 DEF KeptTo, Held
  <2> QED BY <1>2, <1>6, <2>1, <2>2 DEF LoopInv
<1>11. LoopInv(f[MaxDisputes], G, c, MaxDisputes)
  <2> DEFINE T == {d \in 0 .. MaxDisputes : ~ LoopInv(f[d], G, c, d)}
  <2>1. ASSUME T # {} PROVE FALSE
    <3>1. PICK d \in T : \A e \in T : d <= e
      <4>1. T \subseteq Nat
        BY <1>2
      <4> HIDE DEF T
      <4> QED BY <2>1, <4>1, LeastNat
    <3>2. d # 0 /\ d \in 0 .. MaxDisputes /\ ~ LoopInv(f[d], G, c, d)
      <4>1. d \in 0 .. MaxDisputes /\ ~ LoopInv(f[d], G, c, d)
        BY <3>1
      <4>2. 0 \in 0 .. MaxDisputes
        BY <1>2
      <4>3. f[0] = s
        BY <1>9, <4>2
      <4> QED BY <1>10, <4>1, <4>3
    <3>3. /\ d - 1 \in 0 .. MaxDisputes /\ d \in Nat /\ d > 0 /\ d \in Disputes
          /\ ~(d <= d - 1)
      BY <1>2, <3>2 DEF Disputes
    <3>4. LoopInv(f[d - 1], G, c, d - 1)
      BY <3>1, <3>3
    <3>5. f[d] = Turn(c, f[d - 1], d)
      BY <1>9, <3>2
    <3>6. CASE c \in DurableCaptures(history, d)
      BY <3>2, <3>3, <3>4, <3>5, <3>6, TurnTo DEF Turn
    <3>7. CASE c \notin DurableCaptures(history, d)
      BY <3>2, <3>3, <3>4, <3>5, <3>7, TurnAway DEF Turn
    <3> QED BY <3>6, <3>7
  <2> QED BY <1>2, <2>1
<1>12. /\ gift' \in [Captures -> Gifts \cup {None}] /\ receipts' \subseteq ReceiptRows
       /\ \A b \in Captures : /\ gift'[b] # None <=> G[b] # None
                              /\ b # c \/ c \in credited => gift'[b] = G[b]
       /\ c \notin credited /\ G[c] # None => KeptTo(gift'[c], c, MaxDisputes)
       /\ Exactly(receipts', AllBindings(history, dispute, credited) \cup LoopBindings(c, MaxDisputes))
  BY <1>8, <1>11 DEF LoopInv
<1>13. \A b \in Captures : gift'[b] # None <=> b \in credited' \cap GiftCaptures
  BY <1>1, <1>2, <1>3, <1>6, <1>12
<1>14. TypeOK'
  BY <1>1, <1>2, <1>12, <1>13 DEF GiftInv, TypeOK, ReceiptRows
<1>15. AllBindings(history, dispute, credited) \cup LoopBindings(c, MaxDisputes)
         = AllBindings(history, dispute, credited \cup {c})
  <2>1. \A d : Bindings(history, dispute, credited, d) \subseteq Bindings(history, dispute, credited \cup {c}, d)
    BY DEF Bindings
  <2>2. \A d : c \notin DurableCaptures(history, d) =>
          Bindings(history, dispute, credited \cup {c}, d) = Bindings(history, dispute, credited, d)
    BY DEF Bindings
  <2> QED BY <2>1, <2>2 DEF AllBindings, LoopBindings, Disputes
<1>16. Exactly(receipts, AllBindings(history, dispute, credited))'
  BY <1>1, <1>12, <1>15
<1>17. ASSUME NEW b \in GiftCaptures \cap credited'
       PROVE  Held(gift'[b], Blocking(history', dispute', b) # {}, Adverse(b)')
  <2>1. b \in Captures /\ (Adverse(b)' <=> Adverse(b))
    BY <1>1, GiftAssumption DEF Adverse
  <2>2. CASE b # c \/ c \in credited
    <3>1. b \in GiftCaptures \cap credited
      BY <1>1, <1>17, <2>2
    <3>2. gift'[b] = gift[b]
      BY <1>3, <1>6, <1>12, <2>1, <2>2
    <3> QED BY <1>1, <2>1, <3>1, <3>2 DEF GiftInv, Held
  <2>3. CASE b = c /\ c \notin credited
    <3>1. KeptTo(gift'[c], c, MaxDisputes)
      BY <1>3, <1>6, <1>12, <1>17, <2>3
    <3>2. (\E d \in 1 .. MaxDisputes : Blocks(history, dispute, d, c)) <=> Blocking(history, dispute, c) # {}
      BY BlockingIs DEF Disputes
    <3>3. (\E d \in 1 .. MaxDisputes : Takes(history, dispute, d, c)) <=> Adverse(c)
      BY AdverseIs DEF Disputes
    <3> QED BY <1>1, <2>1, <2>3, <3>1, <3>2, <3>3 DEF KeptTo, Held
  <2> QED BY <2>2, <2>3
<1> QED BY <1>1, <1>14, <1>16, <1>17 DEF GiftInv, Standing

LEMMA GiftStep ==
  ASSUME GiftInv, [Next]_vars
  PROVE  GiftInv'
<1>1. ASSUME UNCHANGED vars PROVE GiftInv'
  BY <1>1 DEF vars, GiftInv, TypeOK, Standing, Adverse
<1>2. ASSUME Next PROVE GiftInv'
  <2>1. GiftCaptures \subseteq Captures
    BY GiftAssumption
  <2> QED BY <1>2, <2>1, CreditStep, ApplyStep, RepeatStep, ReviewStep, AcceptStep, RefuseStep,
             RedirectStep DEF Next
<1> QED BY <1>1, <1>2

\* The invariant says what CreditGifts asks for.
LEMMA GiftSafety ==
  ASSUME GiftInv
  PROVE  TypeOK /\ GiftFollowsDisputes /\ DisputeAccounted
<1>1. GiftFollowsDisputes
  BY DEF GiftInv, GiftFollowsDisputes, Held
<1>2. ASSUME NEW d \in Disputes, dispute[d] # None,
             NEW src \in Sources(history, dispute, d),
             NEW c \in DurableCaptures(history, d) \cap credited
      PROVE  Cardinality({r \in receipts : r[1] = src /\ r[2] = d /\ r[3] = c}) = 1
  <2>1. <<src, d, c>> \in AllBindings(history, dispute, credited)
    BY DEF AllBindings, Bindings
  <2>2. Bound(receipts, src, d, c)
    BY <2>1, BoundIs DEF GiftInv
  <2>3. PICK r \in receipts : r[1] = src /\ r[2] = d /\ r[3] = c
    BY <2>2 DEF Bound
  <2>4. {q \in receipts : q[1] = src /\ q[2] = d /\ q[3] = c} = {r}
    BY <2>3 DEF GiftInv, Exactly
  <2> QED BY <2>4, FS_Singleton
<1>3. ASSUME NEW d \in Disputes, dispute[d] # None
      PROVE  /\ EventsOf(history, d) \cup (IF dispute[d].review = None THEN {} ELSE {0})
                  = Sources(history, dispute, d)
             /\ \A i \in EventsOf(history, d) \ {dispute[d].current} :
                  Before(history, i, dispute[d].current)
             /\ \/ dispute[d].review # None
                \/ dispute[d].state = "resolved_against_seller"
                \/ dispute[d].state = desiredState(history[dispute[d].current])
  BY <1>3 DEF GiftInv, Standing, Sources, Lost
<1>4. DisputeAccounted
  BY <1>2, <1>3 DEF DisputeAccounted
<1> QED BY <1>1, <1>4 DEF GiftInv

-----------------------------------------------------------------------------
(* The area                                                                *)

MarketInv ==
  /\ part = "buying" => BuyInv
  /\ part = "sales" => Sales!SalesInv
  /\ part = "land" => Moves!WorldInv /\ Moves!OrderInv

LEMMA LandConstants == Moves!WorldAssumption
  BY LandAssumption

LEMMA MarketStarts == MarketInit => MarketInv
<1> SUFFICES ASSUME MarketInit PROVE MarketInv
  OBVIOUS
<1>1. CASE part = "land" /\ Moves!Init
  BY <1>1, LandConstants, Moves!WorldInit, Moves!OrderInit DEF MarketInv
<1>2. CASE part = "buying" /\ Buying!Init
  BY <1>2, BuyInit DEF MarketInv
<1>3. CASE part = "sales" /\ Sales!Init
  BY <1>3, SaleAssumption, Sales!SalesInit DEF MarketInv
<1>4. CASE part = "gifts"
  BY <1>4 DEF MarketInv
<1> QED BY <1>1, <1>2, <1>3, <1>4 DEF MarketInit

LEMMA MarketSteps == MarketInv /\ [MarketNext]_marketVars => MarketInv'
<1> SUFFICES ASSUME MarketInv, [MarketNext]_marketVars PROVE MarketInv'
  OBVIOUS
<1>0. part' = part
  BY DEF MarketNext, GiftsMove, BuyingMoves, SalesMove, LandMoves, marketVars
<1>1. CASE part = "land"
  <2>1. [Moves!Next]_Moves!vars
    BY <1>1 DEF MarketNext, GiftsMove, BuyingMoves, SalesMove, LandMoves,
          marketVars, landVars, Moves!vars
  <2>2. Moves!WorldInv'
    BY <1>1, <2>1, LandConstants, Moves!WorldStep DEF MarketInv
  <2>3. Moves!OrderInv'
    BY <1>1, <2>1, LandConstants, Moves!OrderStep DEF MarketInv
  <2> QED BY <1>0, <1>1, <2>2, <2>3 DEF MarketInv
<1>2. CASE part = "buying"
  <2>1. [Buying!Next]_Buying!vars
    BY <1>2 DEF MarketNext, GiftsMove, BuyingMoves, SalesMove, LandMoves,
          marketVars, buyVars, Buying!vars
  <2> QED BY <1>0, <1>2, <2>1, BuyStep DEF MarketInv
<1>3. CASE part = "sales"
  <2>1. [Sales!Next]_Sales!vars
    BY <1>3 DEF MarketNext, GiftsMove, BuyingMoves, SalesMove, LandMoves,
          marketVars, saleVars, Sales!vars
  <2> QED BY <1>0, <1>3, <2>1, SaleAssumption, Sales!SalesStep DEF MarketInv
<1>4. CASE part \notin {"land", "buying", "sales"}
  BY <1>0, <1>4 DEF MarketInv
<1> QED BY <1>1, <1>2, <1>3, <1>4

\* The behaviours TLC explores are behaviours of MarketSpec: what is proved of MarketSpec
\* holds of them, without the limits of the run.
LEMMA RunIsPart == FewMarketSpec => MarketSpec
<1>1. FewMarketNext => MarketNext
  BY DEF FewMarketNext, MarketNext
<1> QED BY <1>1, PTL DEF FewMarketSpec, MarketSpec

LEMMA MarketHolds == MarketSpec => []MarketInv
  BY MarketStarts, MarketSteps, PTL DEF MarketSpec

LEMMA GiftsHold == MarketSpec => []GiftInv
<1>1. MarketInit => GiftInv
  BY GiftInit DEF MarketInit
<1>2. GiftInv /\ [MarketNext]_marketVars => GiftInv'
  <2>1. [MarketNext]_marketVars => [Next]_vars
    BY DEF MarketNext, GiftsMove, BuyingMoves, SalesMove, LandMoves, marketVars
  <2> QED BY <2>1, GiftStep
<1> QED BY <1>1, <1>2, PTL DEF MarketSpec

\* In whatever order captures, dispute events, reviews and the answers of residents arrive:
\* a gift is held back, free or revoked as the disputes over its purchase say
\* (reconcile_paypal_credit_dispute).
THEOREM GiftHolds == MarketSpec => []GiftFollowsDisputes
<1>1. GiftInv => GiftFollowsDisputes
  BY GiftSafety
<1> QED BY <1>1, GiftsHold, PTL

\* A dispute stands at its latest event, and each of its events has one receipt for each
\* purchase it is about (apply_paypal_credit_dispute, deliver_paypal_credit).
THEOREM DisputeHolds == MarketSpec => []DisputeAccounted
<1>1. GiftInv => DisputeAccounted
  BY GiftSafety
<1> QED BY <1>1, GiftsHold, PTL

\* The rows of gifts, purchases, sales and land are of their types in every step.
THEOREM MarketTyped == MarketSpec => []MarketTypeOK
<1>1. GiftInv /\ MarketInv => MarketTypeOK
  <2> SUFFICES ASSUME GiftInv, MarketInv PROVE MarketTypeOK
    OBVIOUS
  <2>1. TypeOK /\ (part = "buying" => Buying!TypeOK)
    BY GiftSafety, BuySafety DEF MarketInv
  <2>2. part = "sales" => Sales!TypeOK
    BY SaleAssumption, Sales!SalesSafety DEF MarketInv
  <2>3. part = "land" => Moves!TypeOK
    BY LandConstants, Moves!WorldSafety DEF MarketInv
  <2> QED BY <2>1, <2>2, <2>3 DEF MarketTypeOK
<1> QED BY <1>1, GiftsHold, MarketHolds, PTL

\* Whatever is lost, repeated or forgotten between the city, PayPal and the buyer, an intent
\* is charged through the one remote attached to it and credited once for each charge, and
\* a gift is charged only when its buyer holds the claim key (beginPayPalCreditIntent,
\* attachRemote, captureOrder, deliver_paypal_credit).
THEOREM ChargedHolds == MarketSpec => []ChargedAsOffered
<1>1. MarketInv => ChargedAsOffered
  BY BuySafety DEF MarketInv, ChargedAsOffered
<1> QED BY <1>1, MarketHolds, PTL

\* A payment made inside its reservation keeps the offer until it is decided, whatever is
\* read, reserved, canceled, parked, retried or taken over meanwhile; a thing is sold
\* exactly as it was paid for, and an open offer, no other, locks its seller's thing
\* (completeWorldSalePayment, completeDirectSalePayment, the triggers of transfer_offers).
THEOREM SoldHolds == MarketSpec => []SoldAsPaid
<1>1. MarketInv => SoldAsPaid
  BY SaleAssumption, Sales!SalesSafety DEF MarketInv, SoldAsPaid
<1> QED BY <1>1, MarketHolds, PTL

\* Whatever moves, gifts, withdrawals and retirements overlap, retired land holds nobody
\* and nothing (retirePlace, performAction).
THEOREM RetiredHolds == MarketSpec => []RetiredIsEmpty
<1>1. MarketInv => RetiredIsEmpty
  BY LandConstants, Moves!WorldSafety DEF MarketInv, RetiredIsEmpty
<1> QED BY <1>1, MarketHolds, PTL

\* A carried thing is where its holder is (performAction's moves of luggage).
THEOREM LuggageHolds == MarketSpec => []LuggageFollows
<1>1. MarketInv => LuggageFollows
  BY LandConstants, Moves!WorldSafety DEF MarketInv, LuggageFollows
<1> QED BY <1>1, MarketHolds, PTL

\* What a call answers is what its transaction did, also when the answer of the commit was
\* lost and the resolution was read back.
THEOREM AnswerHolds == MarketSpec => []AnswerIsTrue
<1>1. MarketInv => AnswerIsTrue
  BY LandConstants, Moves!WorldSafety DEF MarketInv, AnswerIsTrue
<1> QED BY <1>1, MarketHolds, PTL

\* Two calls wait for each other only where one asks late for the presence of another
\* resident.
THEOREM LockOrderHolds == MarketSpec => []OneLockOrder
<1>1. MarketInv => OneLockOrder
  BY LandConstants, Moves!OrderSafety DEF MarketInv, OneLockOrder
<1> QED BY <1>1, MarketHolds, PTL
=============================================================================

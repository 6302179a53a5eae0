-------------------------- MODULE CityCreditProofs --------------------------
(***************************************************************************)
(* Proofs about CityCredit for any residents, request ids, targets, sources  *)
(* and invocations: the inductive invariant IInv, the safety properties that *)
(* are its conjuncts, and that the specification implements FeeCredit.       *)
(***************************************************************************)
EXTENDS CityCredit, FiniteSetTheorems, TLAPS

LocalTypes ==
  /\ pc \in [Workers -> Points]
  /\ req \in [Workers -> Spends \cup {None}]
  /\ wKey \in [Workers -> Keys \cup {None}]
  /\ att \in [Workers -> Spends \cup {None}]
  /\ wReason \in [Workers -> Reasons]

SameLocals(v) ==
  /\ pc'[v] = pc[v] /\ req'[v] = req[v] /\ wKey'[v] = wKey[v]
  /\ att'[v] = att[v] /\ wReason'[v] = wReason[v]

\* A step of one request: the others keep their local state.
StepOf(w) == LocalTypes' /\ \A v \in Workers \ {w} : SameLocals(v)

-----------------------------------------------------------------------------
(* Cardinalities of the two sides of the ledger.                            *)

\* Both sides of the ledger are finite sets.
LEMMA LedgerFinite ==
  ASSUME NEW x
  PROVE  /\ IsFiniteSet(ChargedTo(x)) /\ Cardinality(ChargedTo(x)) \in Nat
         /\ IsFiniteSet(IssuedTo(x)) /\ Cardinality(IssuedTo(x)) \in Nat
<1>1. ChargedTo(x) \in SUBSET Spends /\ IssuedTo(x) \in SUBSET Sources
  BY DEF ChargedTo, IssuedTo
<1>2. IsFiniteSet(ChargedTo(x)) /\ IsFiniteSet(IssuedTo(x))
  BY <1>1, SpendsAssumption, FS_Subset
<1> QED BY <1>2, FS_CardinalityType

\* A ledger step that touches one resident keeps the sum of every other one.
LEMMA OthersConserved ==
  ASSUME IInv, NEW x \in Residents,
         \A y \in Residents \ {x} : balance'[y] = balance[y]
              /\ ChargedTo(y)' = ChargedTo(y) /\ IssuedTo(y)' = IssuedTo(y),
         balance'[x] + Cardinality(ChargedTo(x)') = Cardinality(IssuedTo(x)')
  PROVE  CreditConserved'
  BY DEF IInv, CreditConserved

\* A step without a ledger entry that moves no spend in or out of the charged ones.
LEMMA SameLedger ==
  ASSUME IInv, UNCHANGED <<balance, issued>>,
         \A c \in Spends : status'[c] \in Charged <=> status[c] \in Charged
  PROVE  CreditConserved'
<1>1. \A x \in Residents : ChargedTo(x)' = ChargedTo(x) /\ IssuedTo(x)' = IssuedTo(x)
  BY DEF ChargedTo, IssuedTo
<1> QED BY <1>1 DEF IInv, CreditConserved

-----------------------------------------------------------------------------
(* Requests.                                                                *)

\* A request that ends leaves the others alone and knows nothing.
LEMMA EndStep ==
  ASSUME IInv, NEW w \in Workers, End(w)
  PROVE  StepOf(w) /\ Knows(w)'
<1>1. StepOf(w)
  BY DEF IInv, TypeOK, End, GoTo, StepOf, LocalTypes, SameLocals, Points, Reasons
<1>2. pc'[w] = "idle" /\ wReason'[w] = "none" /\ req'[w] = None
  BY DEF IInv, TypeOK, End, GoTo
<1> QED BY <1>1, <1>2 DEF Knows, Recovering

\* A request that moves to another point, perhaps with another reason.
LEMMA GoToStep ==
  ASSUME IInv, NEW w \in Workers, NEW p \in Points, NEW why \in Reasons, GoTo(w, p),
         wReason' = [wReason EXCEPT ![w] = why], UNCHANGED <<req, wKey, att>>
  PROVE  /\ StepOf(w) /\ pc'[w] = p /\ wReason'[w] = why
         /\ req'[w] = req[w] /\ wKey'[w] = wKey[w] /\ att'[w] = att[w]
  BY DEF IInv, TypeOK, GoTo, StepOf, LocalTypes, SameLocals

\* The same without a new reason.
LEMMA PlainStep ==
  ASSUME IInv, NEW w \in Workers, NEW p \in Points, GoTo(w, p), UNCHANGED local
  PROVE  /\ StepOf(w) /\ pc'[w] = p /\ wReason'[w] = wReason[w]
         /\ req'[w] = req[w] /\ wKey'[w] = wKey[w] /\ att'[w] = att[w]
  BY DEF IInv, TypeOK, GoTo, StepOf, LocalTypes, SameLocals, local

\* A request that turns to a spend.
LEMMA ServeStep ==
  ASSUME IInv, NEW w \in Workers, NEW p \in Points, NEW c \in Spends, Serve(w, p, c)
  PROVE  /\ StepOf(w) /\ pc'[w] = p /\ wReason'[w] = wReason[w]
         /\ req'[w] = req[w] /\ wKey'[w] = wKey[w] /\ att'[w] = c
  BY DEF IInv, TypeOK, Serve, GoTo, StepOf, LocalTypes, SameLocals

\* A request keeps its target for as long as it is a request.
LEMMA KeepsTarget ==
  ASSUME IInv, NEW w \in Workers, req'[w] = req[w], wKey'[w] = wKey[w]
  PROVE  (Recovering(w)' <=> Recovering(w)) /\ (~Recovering(w) => wKey'[w] \in Keys)
  BY DEF IInv, Knows, Recovering

\* What the other requests know survives a step that keeps rows in existence and
\* deadlines passed.
LEMMA OthersKnow ==
  ASSUME IInv, NEW w \in Workers, StepOf(w),
         \A c \in Spends : status[c] # "none" => status'[c] # "none" /\ (Due(c) => Due(c)'),
         Knows(w)'
  PROVE  \A v \in Workers : Knows(v)'
<1> SUFFICES ASSUME NEW v \in Workers \ {w}
             PROVE  Knows(v)'
  OBVIOUS
<1>1. SameLocals(v) /\ Knows(v)
  BY DEF StepOf, IInv
<1> QED BY <1>1 DEF SameLocals, Knows, Recovering

-----------------------------------------------------------------------------
(* Rows.                                                                    *)

\* A step that at most leases one live spend.
LEMMA LeaseInv ==
  ASSUME IInv, NEW w \in Workers, StepOf(w), Knows(w)',
         \/ UNCHANGED <<leaseOwner, leaseLeft>>
         \/ \E c \in Spends : Live(c) /\ TakeLease(w, c),
         UNCHANGED <<status, key, recLeft, reason, ledger, place>>
  PROVE  IInv'
<1>1. TypeOK'
  BY LengthsAssumption DEF IInv, TypeOK, StepOf, LocalTypes, TakeLease, ledger
<1>2. \A v \in Workers : Knows(v)'
  BY OthersKnow DEF Due
<1>3. RowsMatch'
  BY DEF IInv, TypeOK, RowsMatch, TakeLease, Live
<1>4. CreditConserved'
  BY SameLedger DEF ledger
<1>5. PlaceIffCompleted' /\ OneChargePerTarget' /\ DeadlineReturnIsDue'
  BY DEF IInv, PlaceIffCompleted, OneChargePerTarget, DeadlineReturnIsDue, Due
<1> QED BY <1>1, <1>2, <1>3, <1>4, <1>5 DEF IInv

\* A step that leaves the database alone.
LEMMA LocalInv ==
  ASSUME IInv, NEW w \in Workers, StepOf(w), Knows(w)', UNCHANGED <<row, ledger, place>>
  PROVE  IInv'
  BY LeaseInv DEF row

\* A live spend is returned: its credit moves from the held side to the balance.
LEMMA ReturnInv ==
  ASSUME IInv, NEW w \in Workers, StepOf(w), Knows(w)', NEW c \in Spends, NEW why \in Reasons,
         Live(c), ReturnSpend(c, why),
         why \in {"deadline", "deadline_passed"} => Due(c)
  PROVE  IInv'
<1>0. /\ status'[c] = "credit_returned" /\ \A d \in Spends \ {c} : status'[d] = status[d]
      /\ reason'[c] = why /\ \A d \in Spends \ {c} : reason'[d] = reason[d]
      /\ leaseOwner'[c] = None /\ \A d \in Spends \ {c} : leaseOwner'[d] = leaseOwner[d]
      /\ UNCHANGED <<key, recLeft, issued, place>>
  BY DEF IInv, TypeOK, ReturnSpend, DropLease
<1>1. TypeOK'
  <2>1. balance' \in [Residents -> Nat]
    <3>1. ResidentOf[c] \in Residents
      BY SpendsAssumption
    <3>2. balance[ResidentOf[c]] + 1 \in Nat
      BY <3>1 DEF IInv, TypeOK
    <3> QED BY <3>1, <3>2 DEF IInv, TypeOK, ReturnSpend, Credit
  <2>2. leaseLeft' \in [Spends -> 0..LeaseLength]
    BY LengthsAssumption DEF IInv, TypeOK, ReturnSpend, DropLease
  <2> QED BY <1>0, <2>1, <2>2 DEF IInv, TypeOK, StepOf, LocalTypes, ReturnSpend, DropLease
<1>2. \A v \in Workers : Knows(v)'
  BY <1>0, OthersKnow DEF Due
<1>3. RowsMatch'
  BY <1>0 DEF IInv, TypeOK, RowsMatch, Live
<1>4. CreditConserved'
  <2> DEFINE x == ResidentOf[c]
  <2>1. x \in Residents
    BY SpendsAssumption
  <2>2. c \in ChargedTo(x) /\ ChargedTo(x)' = ChargedTo(x) \ {c}
    BY <1>0 DEF ChargedTo, Charged, Live
  <2>3. Cardinality(ChargedTo(x)') = Cardinality(ChargedTo(x)) - 1
    BY <2>2, LedgerFinite, FS_RemoveElement
  <2>4. \A y \in Residents \ {x} : balance'[y] = balance[y]
             /\ ChargedTo(y)' = ChargedTo(y) /\ IssuedTo(y)' = IssuedTo(y)
    BY <1>0, <2>1 DEF IInv, TypeOK, ReturnSpend, Credit, ChargedTo, IssuedTo
  <2>5. balance'[x] = balance[x] + 1 /\ IssuedTo(x)' = IssuedTo(x)
    BY <1>0, <2>1 DEF IInv, TypeOK, ReturnSpend, Credit, IssuedTo
  <2>6. balance'[x] + Cardinality(ChargedTo(x)') = Cardinality(IssuedTo(x)')
    BY <2>1, <2>3, <2>5, LedgerFinite DEF IInv, TypeOK, CreditConserved
  <2> QED BY <2>1, <2>4, <2>6, OthersConserved
<1>5. PlaceIffCompleted'
  BY <1>0 DEF IInv, TypeOK, PlaceIffCompleted, Live
<1>6. OneChargePerTarget'
  BY <1>0 DEF IInv, OneChargePerTarget, Charged
<1>7. DeadlineReturnIsDue'
  BY <1>0 DEF IInv, DeadlineReturnIsDue, Due
<1> QED BY <1>1, <1>2, <1>3, <1>4, <1>5, <1>6, <1>7 DEF IInv

-----------------------------------------------------------------------------
(* The steps of a request.                                                  *)

\* A new spend moves one credit from the balance to the held side, and finds no
\* charged spend on its target.
LEMMA BeginNewInv ==
  ASSUME IInv, NEW w \in Workers, BeginNew(w)
  PROVE  IInv'
<1>0. PICK c \in Spends : c = req[w]
  BY DEF IInv, TypeOK, Knows, Recovering, BeginNew
<1>1. wKey[w] \in Keys /\ ResidentOf[c] \in Residents
  BY SpendsAssumption DEF IInv, Knows, BeginNew
<1>2. status[c] = "none" /\ TargetCandidate(wKey[w]) = {}
  BY <1>0 DEF BeginNew, ExistingCandidate
<1>3. CASE ~CanPay(ResidentOf[c])
  <2>1. End(w) /\ UNCHANGED <<row, ledger, place>>
    BY <1>0, <1>3 DEF BeginNew, row, ledger
  <2> QED BY <2>1, EndStep, LocalInv
<1>4. CASE CanPay(ResidentOf[c])
  <2>0. /\ status' = [status EXCEPT ![c] = "payment_pending"]
        /\ key' = [key EXCEPT ![c] = wKey[w]]
        /\ recLeft' = [recLeft EXCEPT ![c] = Window]
        /\ TakeLease(w, c) /\ Debit(ResidentOf[c]) /\ Serve(w, "complete", c)
        /\ UNCHANGED <<reason, issued, place>>
    BY <1>0, <1>4 DEF BeginNew
  <2>1. /\ StepOf(w) /\ pc'[w] = "complete" /\ att'[w] = c /\ wReason'[w] = wReason[w]
        /\ req'[w] = req[w] /\ wKey'[w] = wKey[w]
    BY <1>1, <2>0, ServeStep DEF Points
  <2>2. /\ status'[c] = "payment_pending" /\ key'[c] = wKey[w]
        /\ \A d \in Spends \ {c} :
             /\ status'[d] = status[d] /\ key'[d] = key[d] /\ recLeft'[d] = recLeft[d]
             /\ leaseOwner'[d] = leaseOwner[d]
    BY <1>1, <2>0 DEF IInv, TypeOK, TakeLease
  <2>3. reason[c] = "none" /\ \A s \in Sites : place[s] # c
    BY <1>1, <1>2 DEF IInv, RowsMatch, PlaceIffCompleted
  <2>4. TypeOK'
    <3>1. balance' \in [Residents -> Nat]
      <4>1. balance[ResidentOf[c]] - 1 \in Nat
        BY <1>1, <1>4 DEF IInv, TypeOK, CanPay
      <4> QED BY <1>1, <2>0, <4>1 DEF IInv, TypeOK, Debit
    <3>2. leaseLeft' \in [Spends -> 0..LeaseLength] /\ leaseOwner' \in [Spends -> Workers \cup {None}]
      BY <2>0, LengthsAssumption DEF IInv, TypeOK, TakeLease
    <3>3. recLeft' \in [Spends -> 0..Window]
      BY <2>0, LengthsAssumption DEF IInv, TypeOK
    <3>4. status' \in [Spends -> Charged \cup {"none", "credit_returned"}] /\ key' \in [Spends -> Keys \cup {None}]
      BY <1>1, <2>0 DEF IInv, TypeOK, Charged
    <3> QED BY <2>0, <2>1, <3>1, <3>2, <3>3, <3>4 DEF IInv, TypeOK, StepOf, LocalTypes
  <2>5. Knows(w)'
    <3>1. wReason[w] = "none"
      BY DEF IInv, Knows, BeginNew
    <3> QED BY <2>1, <2>2, <3>1, KeepsTarget DEF Knows
  <2>6. \A v \in Workers : Knows(v)'
    <3>1. \A d \in Spends : status[d] # "none" => status'[d] # "none" /\ (Due(d) => Due(d)')
      BY <1>2, <2>2 DEF Due
    <3> QED BY <2>1, <2>5, <3>1, OthersKnow
  <2>7. RowsMatch'
    BY <1>1, <2>0, <2>2, <2>3 DEF IInv, RowsMatch, Live
  <2>8. CreditConserved'
    <3>0. PICK x \in Residents : x = ResidentOf[c]
      BY <1>1
    <3>1. c \notin ChargedTo(x) /\ ChargedTo(x)' = ChargedTo(x) \cup {c}
      BY <3>0, <1>2, <2>2 DEF ChargedTo, Charged
    <3>2. Cardinality(ChargedTo(x)') = Cardinality(ChargedTo(x)) + 1
      BY <3>1, LedgerFinite, FS_AddElement
    <3>3. \A y \in Residents \ {x} : balance'[y] = balance[y]
               /\ ChargedTo(y)' = ChargedTo(y) /\ IssuedTo(y)' = IssuedTo(y)
      BY <3>0, <2>0, <2>2 DEF IInv, TypeOK, Debit, ChargedTo, IssuedTo
    <3>4. balance'[x] = balance[x] - 1 /\ IssuedTo(x)' = IssuedTo(x)
      BY <3>0, <2>0 DEF IInv, TypeOK, Debit, IssuedTo
    <3>5. balance'[x] + Cardinality(ChargedTo(x)') = Cardinality(IssuedTo(x)')
      BY <3>2, <3>4, LedgerFinite DEF IInv, TypeOK, CreditConserved
    <3> QED BY <3>3, <3>5, OthersConserved
  <2>9. PlaceIffCompleted'
    BY <2>0, <2>2, <2>3 DEF IInv, PlaceIffCompleted
  <2>10. OneChargePerTarget'
    BY <1>2, <2>2 DEF IInv, OneChargePerTarget, TargetCandidate
  <2>11. DeadlineReturnIsDue'
    BY <2>0, <2>2, <2>3 DEF IInv, DeadlineReturnIsDue, Due
  <2> QED BY <2>4, <2>6, <2>7, <2>8, <2>9, <2>10, <2>11 DEF IInv
<1> QED BY <1>3, <1>4

\* A replay at most leases a live spend of the same resident.
LEMMA BeginExistingInv ==
  ASSUME IInv, NEW w \in Workers, BeginExisting(w)
  PROVE  IInv'
<1>0. req[w] \in Spends /\ wKey[w] \in Keys /\ wReason[w] = "none"
  BY DEF IInv, TypeOK, Knows, Recovering, BeginExisting
<1>1. PICK d \in ExistingCandidate(req[w], wKey[w]) :
        \/ /\ pc[w] = "begin" /\ Live(d) /\ Due(d) /\ Serve(w, "claim", d)
           /\ UNCHANGED <<leaseOwner, leaseLeft>>
        \/ /\ CanLease(req[w], d) /\ TakeLease(w, d)
           /\ IF SameSpendTerms(w, d) THEN Serve(w, "complete", d) ELSE End(w)
        \/ End(w) /\ UNCHANGED <<leaseOwner, leaseLeft>>
  BY DEF BeginExisting
<1>2. d \in Spends /\ UNCHANGED <<status, key, recLeft, reason, ledger, place>>
  BY <1>0, <1>1 DEF ExistingCandidate, TargetCandidate, BeginExisting
<1>3. CASE End(w)
  <2>1. \/ UNCHANGED <<leaseOwner, leaseLeft>>
        \/ Live(d) /\ TakeLease(w, d)
    BY <1>1 DEF CanLease
  <2> QED BY <1>2, <1>3, <2>1, EndStep, LeaseInv
<1>4. CASE Live(d) /\ Serve(w, "claim", d) /\ UNCHANGED <<leaseOwner, leaseLeft>>
  <2>1. /\ StepOf(w) /\ pc'[w] = "claim" /\ wReason'[w] = "none" /\ att'[w] = d
        /\ req'[w] = req[w] /\ wKey'[w] = wKey[w]
    BY <1>0, <1>2, <1>4, ServeStep DEF Points
  <2>2. Knows(w)'
    BY <1>2, <1>4, <2>1, KeepsTarget DEF Knows, Live
  <2> QED BY <1>2, <1>4, <2>1, <2>2, LeaseInv
<1>5. CASE CanLease(req[w], d) /\ TakeLease(w, d) /\ Serve(w, "complete", d)
  <2>1. /\ StepOf(w) /\ pc'[w] = "complete" /\ wReason'[w] = "none" /\ att'[w] = d
        /\ req'[w] = req[w] /\ wKey'[w] = wKey[w]
    BY <1>0, <1>2, <1>5, ServeStep DEF Points
  <2>2. Knows(w)'
    BY <1>2, <1>5, <2>1, KeepsTarget DEF Knows, CanLease, Live
  <2> QED BY <1>2, <1>5, <2>1, <2>2, LeaseInv DEF CanLease
<1> QED BY <1>1, <1>3, <1>4, <1>5

\* The completion closes its own live spend and takes a free slot.
LEMMA CompleteCreditInv ==
  ASSUME IInv, NEW w \in Workers, CompleteCredit(w)
  PROVE  IInv'
<1>0. PICK c \in Spends : c = att[w]
  BY DEF IInv, Knows, CompleteCredit
<1>1. /\ Live(c) /\ ~Due(c) /\ key[c] \in Keys /\ SiteOf[key[c]] \in Sites
      /\ place[SiteOf[key[c]]] = None
      /\ status' = [status EXCEPT ![c] = "completed"]
      /\ place' = [place EXCEPT ![SiteOf[key[c]]] = c]
      /\ DropLease(c) /\ UNCHANGED <<key, recLeft, reason, ledger>>
  BY <1>0, SpendsAssumption DEF CompleteCredit, OwnedAttempt, FoundsPlace, IInv, RowsMatch, Live
<1>2. /\ status'[c] = "completed" /\ \A d \in Spends \ {c} : status'[d] = status[d]
      /\ leaseOwner'[c] = None /\ \A d \in Spends \ {c} : leaseOwner'[d] = leaseOwner[d]
  BY <1>1 DEF IInv, TypeOK, DropLease
<1>3. StepOf(w) /\ Knows(w)'
  <2>1. CASE End(w)
    BY <2>1, EndStep
  <2>2. CASE GoTo(w, "giveBack") /\ wReason' = [wReason EXCEPT ![w] = "failed"] /\ UNCHANGED <<req, wKey, att>>
    <3>1. /\ StepOf(w) /\ pc'[w] = "giveBack" /\ wReason'[w] = "failed" /\ att'[w] = c
          /\ req'[w] = req[w] /\ wKey'[w] = wKey[w]
      BY <1>0, <2>2, GoToStep DEF Points, Reasons
    <3> QED BY <1>2, <3>1, KeepsTarget DEF Knows
  <2> QED BY <2>1, <2>2 DEF CompleteCredit
<1>4. TypeOK'
  <2>1. leaseLeft' \in [Spends -> 0..LeaseLength] /\ leaseOwner' \in [Spends -> Workers \cup {None}]
    BY <1>1, LengthsAssumption DEF IInv, TypeOK, DropLease
  <2>2. status' \in [Spends -> Charged \cup {"none", "credit_returned"}]
    BY <1>1 DEF IInv, TypeOK, Charged
  <2>3. place' \in [Sites -> Spends \cup {None, Other}]
    BY <1>1 DEF IInv, TypeOK
  <2> QED BY <1>1, <1>3, <2>1, <2>2, <2>3 DEF IInv, TypeOK, StepOf, LocalTypes, ledger
<1>5. \A v \in Workers : Knows(v)'
  BY <1>1, <1>2, <1>3, OthersKnow DEF Due
<1>6. RowsMatch'
  BY <1>1, <1>2 DEF IInv, RowsMatch, Live
<1>7. CreditConserved'
  BY <1>1, <1>2, SameLedger DEF Live, Charged, ledger
<1>8. PlaceIffCompleted'
  <2>1. /\ place'[SiteOf[key[c]]] = c
        /\ \A s \in Sites \ {SiteOf[key[c]]} : place'[s] = place[s]
    BY <1>1 DEF IInv, TypeOK
  <2>2. \A s \in Sites : place'[s] \in Spends =>
          status'[place'[s]] = "completed" /\ SiteOf[key[place'[s]]] = s
    BY <1>1, <1>2, <2>1 DEF IInv, PlaceIffCompleted
  <2>3. \A d \in Spends : status'[d] = "completed" => place'[SiteOf[key[d]]] = d
    <3> SUFFICES ASSUME NEW d \in Spends \ {c}, status'[d] = "completed"
                 PROVE  place'[SiteOf[key[d]]] = d
      BY <2>1
    <3>1. status[d] = "completed" /\ place[SiteOf[key[d]]] = d
      BY <1>2 DEF IInv, PlaceIffCompleted
    <3>2. key[d] \in Keys /\ SiteOf[key[d]] \in Sites
      BY <3>1, SpendsAssumption DEF IInv, RowsMatch
    <3>3. SiteOf[key[d]] # SiteOf[key[c]]
      BY <1>1, <3>1, NamesAssumption
    <3> QED BY <2>1, <3>1, <3>2, <3>3
  <2> QED BY <1>1, <2>2, <2>3 DEF PlaceIffCompleted
<1>9. OneChargePerTarget'
  BY <1>1, <1>2 DEF IInv, OneChargePerTarget, Charged, Live
<1>10. DeadlineReturnIsDue'
  BY <1>1 DEF IInv, DeadlineReturnIsDue, Due
<1> QED BY <1>4, <1>5, <1>6, <1>7, <1>8, <1>9, <1>10 DEF IInv

\* A completion without effect carries its verdict to the return.
LEMMA CompleteNoEffectInv ==
  ASSUME IInv, NEW w \in Workers, CompleteNoEffect(w)
  PROVE  IInv'
<1>1. att[w] \in Spends /\ status[att[w]] # "none"
  BY DEF IInv, Knows, CompleteNoEffect
<1>2. PICK why \in {"deadline_passed", "target_changed"} :
        /\ wReason' = [wReason EXCEPT ![w] = why]
        /\ why = "deadline_passed" => Due(att[w])
  BY DEF CompleteNoEffect
<1>3. /\ StepOf(w) /\ pc'[w] = "giveBack" /\ wReason'[w] = why /\ att'[w] = att[w]
      /\ req'[w] = req[w] /\ wKey'[w] = wKey[w]
  BY <1>2, GoToStep DEF CompleteNoEffect, Points, Reasons
<1>4. Knows(w)'
  BY <1>1, <1>2, <1>3, KeepsTarget DEF Knows, CompleteNoEffect, row, Due
<1> QED BY <1>3, <1>4, LocalInv DEF CompleteNoEffect

\* A failed completion changes nothing in the database.
LEMMA CompleteThrowsInv ==
  ASSUME IInv, NEW w \in Workers, CompleteThrows(w)
  PROVE  IInv'
<1>1. att[w] \in Spends /\ status[att[w]] # "none" /\ UNCHANGED <<row, ledger, place>>
  BY DEF IInv, Knows, CompleteThrows
<1>2. CASE End(w)
  BY <1>1, <1>2, EndStep, LocalInv
<1>3. CASE GoTo(w, "giveBack") /\ wReason' = [wReason EXCEPT ![w] = "failed"] /\ UNCHANGED <<req, wKey, att>>
  <2>1. /\ StepOf(w) /\ pc'[w] = "giveBack" /\ wReason'[w] = "failed" /\ att'[w] = att[w]
        /\ req'[w] = req[w] /\ wKey'[w] = wKey[w]
    BY <1>3, GoToStep DEF Points, Reasons
  <2>2. Knows(w)'
    BY <1>1, <2>1, KeepsTarget DEF Knows, row
  <2> QED BY <1>1, <2>1, <2>2, LocalInv
<1> QED BY <1>2, <1>3 DEF CompleteThrows

\* A return under the lease, or no effect.
LEMMA GiveBackInv ==
  ASSUME IInv, NEW w \in Workers, GiveBack(w)
  PROVE  IInv'
<1>1. PICK c \in Spends : c = att[w]
  BY DEF IInv, Knows, GiveBack
<1>2. PICK why \in Reasons : why = wReason[w]
  BY DEF IInv, TypeOK
<1>3. why \in {"deadline", "deadline_passed"} => Due(c)
  BY <1>1, <1>2 DEF IInv, Knows, GiveBack
<1>4. StepOf(w) /\ Knows(w)'
  BY EndStep DEF GiveBack
<1>5. CASE Live(c) /\ ReturnSpend(c, why)
  BY <1>3, <1>4, <1>5, ReturnInv
<1>6. CASE UNCHANGED <<row, ledger, place>>
  BY <1>4, <1>6, LocalInv
<1> QED BY <1>1, <1>2, <1>5, <1>6 DEF GiveBack, CanReturn

\* The claim leases a due spend, or only moves the request.
LEMMA ClaimExpiredInv ==
  ASSUME IInv, NEW w \in Workers, ClaimExpired(w)
  PROVE  IInv'
<1>0. PICK c \in Spends : c = att[w]
  BY DEF IInv, Knows, ClaimExpired
<1>1. /\ status[c] # "none" /\ wReason[w] = "none"
      /\ UNCHANGED <<status, key, recLeft, reason, ledger, place>>
  BY <1>0 DEF IInv, Knows, ClaimExpired
<1>2. CASE CanClaim(c) /\ TakeLease(w, c) /\ GoTo(w, "returnDue") /\ UNCHANGED local
  <2>1. /\ StepOf(w) /\ pc'[w] = "returnDue" /\ wReason'[w] = "none" /\ att'[w] = c
        /\ req'[w] = req[w] /\ wKey'[w] = wKey[w]
    BY <1>0, <1>1, <1>2, PlainStep DEF Points
  <2>2. Knows(w)'
    BY <1>1, <1>2, <2>1, KeepsTarget DEF Knows, CanClaim, Due
  <2> QED BY <1>1, <1>2, <2>1, <2>2, LeaseInv DEF CanClaim
<1>3. CASE ~Recovering(w) /\ GoTo(w, "again") /\ UNCHANGED <<leaseOwner, leaseLeft, local>>
  <2>1. /\ StepOf(w) /\ pc'[w] = "again" /\ wReason'[w] = "none"
        /\ req'[w] = req[w] /\ wKey'[w] = wKey[w]
    BY <1>1, <1>3, PlainStep DEF Points
  <2>2. Knows(w)'
    BY <1>3, <2>1, KeepsTarget DEF Knows
  <2> QED BY <1>1, <1>3, <2>1, <2>2, LeaseInv
<1>4. CASE End(w) /\ UNCHANGED <<leaseOwner, leaseLeft>>
  BY <1>1, <1>4, EndStep, LeaseInv
<1> QED BY <1>0, <1>2, <1>3, <1>4 DEF ClaimExpired

\* The second statement of the deadline return: the deadline is due because a
\* claimed spend was due, or nothing happens.
LEMMA ReturnExpiredInv ==
  ASSUME IInv, NEW w \in Workers, ReturnExpired(w)
  PROVE  IInv'
<1>0. PICK c \in Spends : c = att[w]
  BY DEF IInv, Knows, ReturnExpired
<1>1. Due(c) /\ wReason[w] = "none"
  BY <1>0 DEF IInv, Knows, ReturnExpired
<1>2. StepOf(w) /\ Knows(w)'
  <2>1. CASE End(w)
    BY <2>1, EndStep
  <2>2. CASE ~Recovering(w) /\ GoTo(w, "again") /\ UNCHANGED local
    <3>1. /\ StepOf(w) /\ pc'[w] = "again" /\ wReason'[w] = "none"
          /\ req'[w] = req[w] /\ wKey'[w] = wKey[w]
      BY <1>1, <2>2, PlainStep DEF Points
    <3> QED BY <2>2, <3>1, KeepsTarget DEF Knows
  <2> QED BY <2>1, <2>2 DEF ReturnExpired
<1>3. CASE Live(c) /\ ReturnSpend(c, "deadline")
  BY <1>1, <1>2, <1>3, ReturnInv DEF Reasons
<1>4. CASE UNCHANGED <<row, ledger, place>>
  BY <1>2, <1>4, LocalInv
<1> QED BY <1>0, <1>3, <1>4 DEF ReturnExpired, CanReturn

\* The recovery picks a live spend, decides by its own clock, and takes the lease.
LEMMA RecoveryInv ==
  ASSUME IInv, NEW w \in Workers,
         \/ RecoverPaymentAttempt(w)
         \/ AcquireCredit(w)
         \/ \E c \in Spends : ListRecoverable(w, c) \/ RecheckRequest(w, c)
  PROVE  IInv'
<1>1. CASE RecoverPaymentAttempt(w)
  <2>1. PICK p \in {"claim", "acquire"} : GoTo(w, p)
    BY <1>1 DEF RecoverPaymentAttempt
  <2>2. /\ StepOf(w) /\ pc'[w] = p /\ wReason'[w] = wReason[w] /\ att'[w] = att[w]
        /\ req'[w] = req[w] /\ wKey'[w] = wKey[w] /\ UNCHANGED <<row, ledger, place>>
    BY <1>1, <2>1, PlainStep DEF RecoverPaymentAttempt, Points
  <2>3. /\ att[w] \in Spends /\ status[att[w]] # "none" /\ wReason[w] = "none"
        /\ req[w] = None
    BY <1>1 DEF IInv, Knows, RecoverPaymentAttempt, Recovering
  <2>4. Knows(w)'
    BY <2>2, <2>3 DEF Knows, Recovering, row
  <2> QED BY <2>2, <2>4, LocalInv
<1>2. CASE AcquireCredit(w)
  <2>1. PICK c \in Spends : c = att[w]
    BY <1>2 DEF IInv, Knows, AcquireCredit
  <2>2. UNCHANGED <<status, key, recLeft, reason, ledger, place>> /\ wReason[w] = "none"
    BY <1>2 DEF IInv, Knows, AcquireCredit
  <2>3. CASE Live(c) /\ TakeLease(w, c) /\ GoTo(w, "complete") /\ UNCHANGED local
    <3>1. /\ StepOf(w) /\ pc'[w] = "complete" /\ wReason'[w] = "none" /\ att'[w] = c
          /\ req'[w] = req[w] /\ wKey'[w] = wKey[w]
      BY <2>1, <2>2, <2>3, PlainStep DEF Points
    <3>2. Knows(w)'
      BY <2>2, <2>3, <3>1, KeepsTarget DEF Knows, Live
    <3> QED BY <2>2, <2>3, <3>1, <3>2, LeaseInv
  <2>4. CASE End(w) /\ UNCHANGED <<leaseOwner, leaseLeft>>
    BY <2>2, <2>4, EndStep, LeaseInv
  <2> QED BY <1>2, <2>1, <2>3, <2>4 DEF AcquireCredit
<1>3. CASE \E c \in Spends : ListRecoverable(w, c) \/ RecheckRequest(w, c)
  <2>1. PICK c \in Spends : ListRecoverable(w, c) \/ RecheckRequest(w, c)
    BY <1>3
  <2>2. /\ StepOf(w) /\ pc'[w] = "decide" /\ wReason'[w] = wReason[w] /\ att'[w] = c
        /\ req'[w] = req[w] /\ UNCHANGED <<row, ledger, place>> /\ Live(c)
    BY <2>1, ServeStep DEF ListRecoverable, RecheckRequest, Points
  <2>3. wReason[w] = "none" /\ req[w] = None
    BY <2>1 DEF IInv, Knows, ListRecoverable, RecheckRequest, Recovering
  <2>4. Knows(w)'
    BY <2>2, <2>3 DEF Knows, Live, row, Recovering
  <2> QED BY <2>2, <2>4, LocalInv
<1> QED BY <1>1, <1>2, <1>3

\* A resident's request starts.
LEMMA SubmitInv ==
  ASSUME IInv, NEW w \in Workers, NEW c \in Spends, NEW k \in Keys, Submit(w, c, k)
  PROVE  IInv'
<1>1. /\ StepOf(w) /\ pc'[w] = "begin" /\ req'[w] = c /\ wKey'[w] = k
      /\ wReason'[w] = wReason[w]
  BY DEF IInv, TypeOK, Submit, GoTo, StepOf, LocalTypes, SameLocals, Points
<1>2. wReason[w] = "none"
  BY DEF IInv, Knows, Submit
<1>3. Knows(w)'
  BY <1>1, <1>2, NamesAssumption DEF Knows, Recovering
<1> QED BY <1>1, <1>3, LocalInv DEF Submit

-----------------------------------------------------------------------------
(* The surroundings.                                                        *)

\* The founder's credit enters both sides of the ledger, once per source key.
LEMMA IssueInv ==
  ASSUME IInv, NEW i \in Sources, NEW x \in Residents, IssueCityFeeCredit(i, x)
  PROVE  IInv'
<1>0. /\ issued[i] = None /\ issued' = [issued EXCEPT ![i] = x]
      /\ balance' = [balance EXCEPT ![x] = balance[x] + 1]
      /\ UNCHANGED <<status, key, leaseOwner, leaseLeft, recLeft, reason, place, pc, local>>
  BY DEF IssueCityFeeCredit, Credit, row
<1>1. TypeOK'
  <2>1. balance[x] + 1 \in Nat
    BY DEF IInv, TypeOK
  <2>2. balance' \in [Residents -> Nat] /\ issued' \in [Sources -> Residents \cup {None}]
    BY <1>0, <2>1 DEF IInv, TypeOK
  <2> QED BY <1>0, <2>2 DEF IInv, TypeOK, local
<1>2. \A w \in Workers : Knows(w)'
  BY <1>0 DEF IInv, Knows, Recovering, Due, local
<1>3. CreditConserved'
  <2>1. i \notin IssuedTo(x) /\ IssuedTo(x)' = IssuedTo(x) \cup {i}
    BY <1>0, NamesAssumption DEF IssuedTo, IInv, TypeOK
  <2>2. Cardinality(IssuedTo(x)') = Cardinality(IssuedTo(x)) + 1
    BY <2>1, LedgerFinite, FS_AddElement
  <2>3. \A y \in Residents \ {x} : balance'[y] = balance[y]
             /\ ChargedTo(y)' = ChargedTo(y) /\ IssuedTo(y)' = IssuedTo(y)
    BY <1>0, NamesAssumption DEF IInv, TypeOK, ChargedTo, IssuedTo
  <2>4. balance'[x] = balance[x] + 1 /\ ChargedTo(x)' = ChargedTo(x)
    BY <1>0 DEF IInv, TypeOK, ChargedTo
  <2>5. balance'[x] + Cardinality(ChargedTo(x)') = Cardinality(IssuedTo(x)')
    BY <2>2, <2>4, LedgerFinite DEF IInv, TypeOK, CreditConserved
  <2> QED BY <2>3, <2>5, OthersConserved
<1>4. RowsMatch' /\ PlaceIffCompleted' /\ OneChargePerTarget' /\ DeadlineReturnIsDue'
  BY <1>0 DEF IInv, RowsMatch, Live, PlaceIffCompleted, OneChargePerTarget, DeadlineReturnIsDue, Due
<1> QED BY <1>1, <1>2, <1>3, <1>4 DEF IInv

\* Another founder takes a free slot: no completed spend had it.
LEMMA OtherFoundsInv ==
  ASSUME IInv, NEW s \in Sites, OtherFounds(s)
  PROVE  IInv'
<1>0. /\ place[s] = None /\ place' = [place EXCEPT ![s] = Other]
      /\ UNCHANGED <<status, key, leaseOwner, leaseLeft, recLeft, reason, balance, issued, pc, local>>
  BY DEF OtherFounds, row, ledger
<1>1. TypeOK'
  BY <1>0 DEF IInv, TypeOK, local
<1>2. \A w \in Workers : Knows(w)'
  BY <1>0 DEF IInv, Knows, Recovering, Due, local
<1>3. CreditConserved'
  BY <1>0, SameLedger
<1>4. RowsMatch' /\ OneChargePerTarget' /\ DeadlineReturnIsDue'
  BY <1>0 DEF IInv, RowsMatch, Live, OneChargePerTarget, DeadlineReturnIsDue, Due
<1>5. PlaceIffCompleted'
  <2>1. \A t \in Sites : place'[t] \in Spends => place'[t] = place[t]
    BY <1>0, NamesAssumption DEF IInv, TypeOK
  <2>2. \A c \in Spends : status[c] = "completed" => place'[SiteOf[key[c]]] = c
    <3> SUFFICES ASSUME NEW c \in Spends, status[c] = "completed"
                 PROVE  place'[SiteOf[key[c]]] = c
      OBVIOUS
    <3>1. SiteOf[key[c]] \in Sites /\ place[SiteOf[key[c]]] = c
      BY SpendsAssumption DEF IInv, RowsMatch, PlaceIffCompleted
    <3> QED BY <1>0, <3>1, NamesAssumption DEF IInv, TypeOK
  <2> QED BY <1>0, <2>1, <2>2 DEF IInv, PlaceIffCompleted
<1> QED BY <1>1, <1>2, <1>3, <1>4, <1>5 DEF IInv

\* Time passes: a deadline that has passed stays passed.
LEMMA TickInv ==
  ASSUME IInv, Tick
  PROVE  IInv'
<1>1. /\ UNCHANGED <<status, key, leaseOwner, reason, balance, issued, place, pc, req, wKey, att, wReason>>
      /\ \A c \in Spends : Due(c) => Due(c)'
      /\ leaseLeft' \in [Spends -> 0..LeaseLength] /\ recLeft' \in [Spends -> 0..Window]
  BY LengthsAssumption DEF IInv, TypeOK, Tick, Countdown, Due, ledger, local
<1>2. TypeOK'
  BY <1>1 DEF IInv, TypeOK
<1>3. \A w \in Workers : Knows(w)'
  <2> SUFFICES ASSUME NEW w \in Workers
               PROVE  Knows(w)'
    OBVIOUS
  <2>1. Knows(w)
    BY DEF IInv
  <2> QED BY <1>1, <2>1 DEF Knows, Recovering
<1>4. CreditConserved'
  BY <1>1, SameLedger
<1>5. RowsMatch' /\ PlaceIffCompleted' /\ OneChargePerTarget' /\ DeadlineReturnIsDue'
  BY <1>1 DEF IInv, RowsMatch, Live, PlaceIffCompleted, OneChargePerTarget, DeadlineReturnIsDue
<1> QED BY <1>2, <1>3, <1>4, <1>5 DEF IInv

-----------------------------------------------------------------------------
(* The invariant.                                                           *)

\* Init establishes the invariant: nothing was issued, nothing is charged.
LEMMA InitInv ==
  ASSUME Init
  PROVE  IInv
<1>1. TypeOK
  BY LengthsAssumption DEF Init, TypeOK, Points, Reasons
<1>2. \A w \in Workers : Knows(w)
  BY DEF Init, Knows, Recovering
<1>3. RowsMatch /\ OneChargePerTarget /\ DeadlineReturnIsDue
  BY NamesAssumption DEF Init, RowsMatch, OneChargePerTarget, DeadlineReturnIsDue, Charged, Live
<1>4. PlaceIffCompleted
  BY NamesAssumption DEF Init, PlaceIffCompleted
<1>5. CreditConserved
  <2> SUFFICES ASSUME NEW x \in Residents
               PROVE  balance[x] + Cardinality(ChargedTo(x)) = Cardinality(IssuedTo(x))
    BY DEF CreditConserved
  <2>1. ChargedTo(x) = {} /\ IssuedTo(x) = {}
    BY NamesAssumption DEF Init, ChargedTo, IssuedTo, Charged
  <2>2. Cardinality(ChargedTo(x)) = 0 /\ Cardinality(IssuedTo(x)) = 0
    BY <2>1, FS_EmptySet
  <2> QED BY <2>2 DEF Init
<1> QED BY <1>1, <1>2, <1>3, <1>4, <1>5 DEF IInv

\* Every step keeps the invariant.
LEMMA NextInv ==
  ASSUME IInv, [Next]_vars
  PROVE  IInv'
<1>1. ASSUME NEW w \in Workers, WorkerStep(w)
      PROVE  IInv'
  BY <1>1, BeginNewInv, BeginExistingInv, CompleteCreditInv, CompleteNoEffectInv,
     CompleteThrowsInv, GiveBackInv, ClaimExpiredInv, ReturnExpiredInv, RecoveryInv
     DEF WorkerStep
<1>2. ASSUME NEW w \in Workers, Stop(w)
      PROVE  IInv'
  BY <1>2, EndStep, LocalInv DEF Stop
<1>3. CASE UNCHANGED vars
  <2>1. UNCHANGED <<status, key, leaseOwner, leaseLeft, recLeft, reason, balance, issued, place,
                    pc, req, wKey, att, wReason>>
    BY <1>3 DEF vars, row, ledger, local
  <2>2. TypeOK' /\ \A w \in Workers : Knows(w)'
    BY <2>1 DEF IInv, TypeOK, Knows, Recovering, Due
  <2>3. CreditConserved'
    BY <2>1, SameLedger
  <2>4. RowsMatch' /\ PlaceIffCompleted' /\ OneChargePerTarget' /\ DeadlineReturnIsDue'
    BY <2>1 DEF IInv, RowsMatch, Live, PlaceIffCompleted, OneChargePerTarget, DeadlineReturnIsDue, Due
  <2> QED BY <2>2, <2>3, <2>4 DEF IInv
<1> QED BY <1>1, <1>2, <1>3, IssueInv, SubmitInv, RecoveryInv, OtherFoundsInv, TickInv DEF Next

\* The inductive invariant holds in every behaviour.
THEOREM CreditInvariant == Spec => []IInv
<1>1. Init => IInv
  BY InitInv
<1>2. IInv /\ [Next]_vars => IInv'
  BY NextInv
<1> QED BY <1>1, <1>2, PTL DEF Spec

\* The values keep their types and no balance goes below zero, for every ledger.
THEOREM CreditTypes == Spec => []TypeOK
<1>1. IInv => TypeOK
  BY DEF IInv
<1> QED BY <1>1, CreditInvariant, PTL

\* No replay, lost answer, crash or expired lease loses a credit or makes one up.
THEOREM NoCreditLost == Spec => []CreditConserved
<1>1. IInv => CreditConserved
  BY DEF IInv
<1> QED BY <1>1, CreditInvariant, PTL

\* A place that credit paid for stands exactly when its spend completed.
THEOREM PlacesArePaid == Spec => []PlaceIffCompleted
<1>1. IInv => PlaceIffCompleted
  BY DEF IInv
<1> QED BY <1>1, CreditInvariant, PTL

\* Two request ids never both cost a credit for one target.
THEOREM TargetsChargedOnce == Spec => []OneChargePerTarget
<1>1. IInv => OneChargePerTarget
  BY DEF IInv
<1> QED BY <1>1, CreditInvariant, PTL

\* A return for the deadline is never early, whatever clock the function has.
THEOREM DeadlineReturnsAreDue == Spec => []DeadlineReturnIsDue
<1>1. IInv => DeadlineReturnIsDue
  BY DEF IInv
<1> QED BY <1>1, CreditInvariant, PTL

-----------------------------------------------------------------------------
(* CityCredit implements FeeCredit: the fate of a spend is its status.      *)

\* Writing one status writes one fate.
LEMMA FateStep ==
  ASSUME TypeOK, NEW c \in Spends, NEW s \in Charged \cup {"none", "credit_returned"},
         status' = [status EXCEPT ![c] = s]
  PROVE  [d \in Spends |-> FateOf(status'[d])]
           = [[d \in Spends |-> FateOf(status[d])] EXCEPT ![c] = FateOf(s)]
<1>1. status'[c] = s /\ \A d \in Spends \ {c} : status'[d] = status[d]
  BY DEF TypeOK
<1>2. \A d \in Spends : FateOf(status'[d]) = IF d = c THEN FateOf(s) ELSE FateOf(status[d])
  BY <1>1
<1> QED BY <1>2

\* A returned spend is a credit given back.
LEMMA ReturnGivesBack ==
  ASSUME IInv, NEW c \in Spends, NEW why, Live(c), ReturnSpend(c, why)
  PROVE  Promise!Next
<1>1. [d \in Spends |-> FateOf(status'[d])]
        = [[d \in Spends |-> FateOf(status[d])] EXCEPT ![c] = "back"]
  BY FateStep DEF IInv, ReturnSpend, FateOf
<1>2. Promise!GiveBack(c)
  BY <1>1 DEF Promise!GiveBack, ReturnSpend, Credit, Live, FateOf
<1> QED BY <1>2 DEF Promise!Next

\* A begun spend is a credit held.
LEMMA BeginHolds ==
  ASSUME IInv, NEW w \in Workers, BeginNew(w)
  PROVE  Promise!Next \/ UNCHANGED <<balance, status, place>>
<1>0. PICK c \in Spends : c = req[w]
  BY DEF IInv, TypeOK, Knows, Recovering, BeginNew
<1>1. CASE CanPay(ResidentOf[c])
  <2>1. /\ status[c] = "none" /\ balance[ResidentOf[c]] > 0
        /\ status' = [status EXCEPT ![c] = "payment_pending"]
        /\ Debit(ResidentOf[c]) /\ UNCHANGED place
    BY <1>0, <1>1 DEF BeginNew, ExistingCandidate, CanPay
  <2>2. [d \in Spends |-> FateOf(status'[d])]
          = [[d \in Spends |-> FateOf(status[d])] EXCEPT ![c] = "held"]
    BY <2>1, FateStep DEF IInv, Charged, FateOf
  <2>3. Promise!Hold(c)
    BY <2>1, <2>2 DEF Promise!Hold, Debit, FateOf
  <2> QED BY <2>3 DEF Promise!Next
<1> QED BY <1>0, <1>1 DEF BeginNew

\* A completion spends the held credit on one free slot.
LEMMA CompletionSpends ==
  ASSUME IInv, NEW w \in Workers, CompleteCredit(w)
  PROVE  Promise!Next
<1>0. PICK c \in Spends : c = att[w]
  BY DEF IInv, Knows, CompleteCredit
<1>1. /\ Live(c) /\ SiteOf[key[c]] \in Sites /\ place[SiteOf[key[c]]] = None
      /\ status' = [status EXCEPT ![c] = "completed"]
      /\ place' = [place EXCEPT ![SiteOf[key[c]]] = c] /\ UNCHANGED balance
  BY <1>0, SpendsAssumption
     DEF CompleteCredit, OwnedAttempt, FoundsPlace, IInv, RowsMatch, Live, ledger
<1>2. [d \in Spends |-> FateOf(status'[d])]
        = [[d \in Spends |-> FateOf(status[d])] EXCEPT ![c] = "spent"]
  BY <1>1, FateStep DEF IInv, Charged, FateOf
<1>3. Promise!Spend(c, SiteOf[key[c]])
  BY <1>1, <1>2 DEF Promise!Spend, Live, FateOf
<1> QED BY <1>1, <1>3 DEF Promise!Next

\* Every step of the ledger is a step of the promise, or none.
LEMMA StepRefines ==
  ASSUME IInv, [Next]_vars
  PROVE  Promise!Next \/ UNCHANGED <<balance, status, place>>
<1>1. ASSUME NEW i \in Sources, NEW x \in Residents, IssueCityFeeCredit(i, x)
      PROVE  Promise!Next
  <2>1. Promise!Grant(x)
    BY <1>1 DEF IssueCityFeeCredit, Credit, row, Promise!Grant
  <2> QED BY <2>1 DEF Promise!Next
<1>2. ASSUME NEW s \in Sites, OtherFounds(s)
      PROVE  Promise!Next
  <2>1. Promise!OtherBuilds(s)
    BY <1>2 DEF OtherFounds, row, ledger, Promise!OtherBuilds
  <2> QED BY <2>1 DEF Promise!Next
<1>3. ASSUME NEW w \in Workers, GiveBack(w) \/ ReturnExpired(w)
      PROVE  Promise!Next \/ UNCHANGED <<balance, status, place>>
  <2>1. PICK c \in Spends : c = att[w]
    BY <1>3 DEF IInv, Knows, GiveBack, ReturnExpired
  <2>2. \/ \E why \in Reasons : Live(c) /\ ReturnSpend(c, why)
        \/ UNCHANGED <<row, ledger, place>>
    BY <1>3, <2>1 DEF IInv, TypeOK, GiveBack, ReturnExpired, CanReturn, Reasons
  <2> QED BY <2>2, ReturnGivesBack DEF row, ledger
<1>4. ASSUME NEW w \in Workers,
             \/ BeginExisting(w) \/ CompleteNoEffect(w) \/ CompleteThrows(w)
             \/ ClaimExpired(w) \/ RecoverPaymentAttempt(w) \/ AcquireCredit(w) \/ Stop(w)
             \/ \E c \in Spends : ListRecoverable(w, c) \/ RecheckRequest(w, c)
             \/ \E c \in Spends, k \in Keys : Submit(w, c, k)
      PROVE  UNCHANGED <<balance, status, place>>
  BY <1>4 DEF BeginExisting, CompleteNoEffect, CompleteThrows, ClaimExpired,
     RecoverPaymentAttempt, AcquireCredit, Stop, ListRecoverable, RecheckRequest, Submit,
     row, ledger
<1>5. CASE Tick
  BY <1>5 DEF Tick, ledger
<1>6. CASE UNCHANGED vars
  BY <1>6 DEF vars, row, ledger
<1> QED BY <1>1, <1>2, <1>3, <1>4, <1>5, <1>6, BeginHolds, CompletionSpends DEF Next, WorkerStep

\* The ledger with its leases, retries and two-statement returns implements the
\* promise of fee credit: every spend holds one credit, then spends it on one
\* place or gives it back, and no other step touches purse, fate or place.
THEOREM ImplementsPromise == Spec => KeepsPromise
<1>1. Init => Promise!Init
  BY DEF Init, Promise!Init, FateOf
<1>2. IInv /\ [Next]_vars => [Promise!Next]_<<balance, [c \in Spends |-> FateOf(status[c])], place>>
  <2> SUFFICES ASSUME IInv, [Next]_vars, UNCHANGED <<balance, status, place>>
               PROVE  UNCHANGED <<balance, [c \in Spends |-> FateOf(status[c])], place>>
    BY StepRefines
  <2> QED OBVIOUS
<1> QED BY <1>1, <1>2, CreditInvariant, PTL DEF Spec, KeepsPromise, Promise!Spec

=============================================================================

----------------------- MODULE PaymentAttemptsProofs -----------------------
(***************************************************************************)
(* Proofs about PaymentAttempts for every set of attempts and workers, every *)
(* assignment of targets and every length of lease and window.  The argument *)
(* is the inductive invariant IInv: each action preserves it (one lemma per  *)
(* action, or per shape that several actions share), and the safety          *)
(* properties are its conjuncts.                                             *)
(***************************************************************************)
EXTENDS PaymentAttempts, TLAPS

-----------------------------------------------------------------------------
(* Shapes that several actions share.                                        *)

\* A step that leaves the rows, the places and Base alone keeps what IInv says
\* about them.
LEMMA RowsUnchanged ==
  ASSUME IInv, UNCHANGED <<row, place, chain>>
  PROVE  /\ LeaseOnlyWhileLive' /\ FoundedIffCompleted' /\ FounderReviewIsProven'
         /\ BoundPaymentNeverInvalid' /\ ExpiredOnlyWhenDue' /\ OneLiveAttemptPerTarget'
<1>1. LeaseOnlyWhileLive'
  BY DEF IInv, row, LeaseOnlyWhileLive
<1>2. FoundedIffCompleted'
  BY DEF IInv, row, FoundedIffCompleted, Proven
<1>3. FounderReviewIsProven'
  BY DEF IInv, row, FounderReviewIsProven, Proven
<1>4. BoundPaymentNeverInvalid'
  BY DEF IInv, row, BoundPaymentNeverInvalid
<1>5. ExpiredOnlyWhenDue'
  BY DEF IInv, row, ExpiredOnlyWhenDue, Due
<1>6. OneLiveAttemptPerTarget'
  BY DEF IInv, row, OneLiveAttemptPerTarget
<1> QED BY <1>1, <1>2, <1>3, <1>4, <1>5, <1>6

\* A request that ends leaves well-typed local state and every other request alone.
LEMMA ReturnTypes ==
  ASSUME TypeOK, NEW w \in Workers, Return(w)
  PROVE  /\ pc' \in [Workers -> Points] /\ att' \in [Workers -> Attempts \cup {None}]
         /\ blk' \in [Workers -> 0..MaxBlock] /\ wTx' \in [Workers -> {0} \cup Txs]
         /\ wHdr' \in [Workers -> Headers] /\ fallback' \in [Workers -> {"review", "verify"}]
         /\ pc'[w] = "idle"
         /\ \A v \in Workers \ {w} : pc'[v] = pc[v] /\ att'[v] = att[v] /\ wTx'[v] = wTx[v]
  BY BoundsAssumption DEF Return, GoTo, TypeOK, Points, Headers

\* A step of one request on one row: the other requests still see the evidence of
\* the rows they hold, because a row has one lease holder and only the holder's
\* step changes its evidence.
LEMMA OthersSee ==
  ASSUME IInv, NEW w \in Workers, NEW a \in Attempts, chain' = chain,
         \A v \in Workers \ {w} : pc'[v] = pc[v] /\ att'[v] = att[v] /\ wTx'[v] = wTx[v],
         \A b \in Attempts \ {a} : leaseOwner'[b] = leaseOwner[b] /\ txHash'[b] = txHash[b] /\ final'[b] = final[b],
         \/ leaseOwner'[a] \in {w, None}
         \/ leaseOwner'[a] = leaseOwner[a] /\ txHash'[a] = txHash[a] /\ final'[a] = final[a],
         pc'[w] # "idle" /\ Owns(w, att[w])' => HolderSees(w)'
  PROVE  LeaseHolderSeesEvidence'
<1> SUFFICES ASSUME NEW v \in Workers \ {w}, pc'[v] # "idle", Owns(v, att[v])'
             PROVE  HolderSees(v)'
  BY DEF LeaseHolderSeesEvidence
<1>1. pc'[v] = pc[v] /\ att'[v] = att[v] /\ wTx'[v] = wTx[v]
  OBVIOUS
<1>2. att[v] \in Attempts
  BY <1>1 DEF IInv, RequestKnowledge, RequestKnows
<1>3. /\ leaseOwner[att[v]] = v
      /\ txHash'[att[v]] = txHash[att[v]] /\ final'[att[v]] = final[att[v]]
  BY <1>1, <1>2, WorkersAssumption DEF Owns
<1>4. Owns(v, att[v])
  BY <1>2, <1>3, WorkersAssumption DEF IInv, LeaseOnlyWhileLive, Owns
<1>5. HolderSees(v)
  BY <1>1, <1>4 DEF IInv, LeaseHolderSeesEvidence
<1> QED BY <1>1, <1>3, <1>5 DEF HolderSees

\* Evidence or a window added to a row that is live afterwards touches no closed row.
LEMMA LiveRow ==
  ASSUME IInv, NEW a \in Attempts, NEW s \in Live, status[a] \in Live \cup {"none"},
         status' = [status EXCEPT ![a] = s], UNCHANGED <<place, chain>>,
         \A b \in Attempts \ {a} : /\ txHash'[b] = txHash[b] /\ final'[b] = final[b]
                                  /\ hdr'[b] = hdr[b] /\ recLeft'[b] = recLeft[b]
  PROVE  FoundedIffCompleted' /\ FounderReviewIsProven' /\ BoundPaymentNeverInvalid' /\ ExpiredOnlyWhenDue'
<1>0. status'[a] \notin {"completed", "invalid", "expired", "founder_review"}
      /\ \A b \in Attempts \ {a} : status'[b] = status[b]
  BY DEF IInv, TypeOK, Live
<1>1. FoundedIffCompleted'
  BY <1>0, TargetsAssumption DEF IInv, TypeOK, FoundedIffCompleted, Proven, Live
<1>2. FounderReviewIsProven'
  BY <1>0 DEF IInv, FounderReviewIsProven, Proven
<1>3. BoundPaymentNeverInvalid'
  BY <1>0 DEF IInv, BoundPaymentNeverInvalid
<1>4. ExpiredOnlyWhenDue'
  BY <1>0 DEF IInv, ExpiredOnlyWhenDue, Due
<1> QED BY <1>1, <1>2, <1>3, <1>4

\* A request that ends and changes nothing else.
LEMMA ReturnInv ==
  ASSUME IInv, NEW w \in Workers, Return(w), UNCHANGED <<row, place, base>>
  PROVE  IInv'
<1>1. TypeOK'
  BY BoundsAssumption DEF IInv, Return, GoTo, row, base, TypeOK, Points, Headers
<1>2. RequestKnowledge'
  BY DEF IInv, Return, GoTo, row, base, TypeOK, RequestKnowledge, RequestKnows
<1>3. LeaseHolderSeesEvidence'
  BY DEF IInv, Return, GoTo, row, base, TypeOK, LeaseHolderSeesEvidence, HolderSees, Owns
<1> QED BY <1>1, <1>2, <1>3, RowsUnchanged DEF IInv, base

\* A request that closes the live row it serves and ends.
LEMMA CloseInv ==
  ASSUME IInv, NEW w \in Workers, NEW a \in Attempts, NEW s \in {"invalid", "expired", "founder_review"},
         status[a] \in Live, SetStatus(a, s), DropLease(a), Return(w),
         UNCHANGED <<recLeft, txHash, final, hdr, startBlock, place, base>>,
         s = "invalid" => txHash[a] = 0 \/ chain[a][txHash[a]] = "failed",
         s = "expired" => Due(a),
         s = "founder_review" => Proven(a)
  PROVE  IInv'
<1>1. TypeOK'
  BY BoundsAssumption DEF IInv, SetStatus, DropLease, Return, GoTo, base, TypeOK, Statuses, Points, Headers
<1>2. RequestKnowledge'
  BY DEF IInv, Return, GoTo, base, TypeOK, RequestKnowledge, RequestKnows
<1>3. LeaseOnlyWhileLive'
  BY DEF IInv, SetStatus, DropLease, TypeOK, LeaseOnlyWhileLive
<1>4. LeaseHolderSeesEvidence'
  <2> SUFFICES ASSUME NEW v \in Workers, pc'[v] # "idle", Owns(v, att[v])'
               PROVE  HolderSees(v)'
    BY DEF LeaseHolderSeesEvidence
  <2> QED BY WorkersAssumption DEF IInv, SetStatus, DropLease, Return, GoTo, base, TypeOK, RequestKnowledge, RequestKnows,
         LeaseHolderSeesEvidence, HolderSees, Owns, Live
<1>5. FoundedIffCompleted'
  BY DEF IInv, SetStatus, base, TypeOK, FoundedIffCompleted, Proven, Live
<1>6. FounderReviewIsProven'
  BY DEF IInv, SetStatus, base, TypeOK, FounderReviewIsProven, Proven
<1>7. BoundPaymentNeverInvalid'
  BY DEF IInv, SetStatus, base, TypeOK, BoundPaymentNeverInvalid
<1>8. ExpiredOnlyWhenDue'
  BY DEF IInv, SetStatus, TypeOK, ExpiredOnlyWhenDue, Due
<1>9. OneLiveAttemptPerTarget'
  BY DEF IInv, SetStatus, TypeOK, OneLiveAttemptPerTarget, Live
<1> QED BY <1>1, <1>2, <1>3, <1>4, <1>5, <1>6, <1>7, <1>8, <1>9 DEF IInv


\* A request that only moves on, perhaps with a transaction hash it learned.
LEMMA MoveInv ==
  ASSUME IInv, NEW w \in Workers, NEW p \in Points, NEW t \in {0} \cup Txs,
         pc[w] # "idle", GoTo(w, p), wTx' = [wTx EXCEPT ![w] = t],
         UNCHANGED <<row, place, base, att, blk, wHdr, fallback>>,
         RequestKnows(w)', Owns(w, att[w]) => HolderSees(w)'
  PROVE  IInv'
<1>1. TypeOK'
  BY DEF IInv, GoTo, row, base, TypeOK
<1>2. RequestKnowledge'
  BY DEF IInv, GoTo, row, base, TypeOK, RequestKnowledge, RequestKnows
<1>3. LeaseHolderSeesEvidence'
  BY DEF IInv, GoTo, row, base, TypeOK, LeaseHolderSeesEvidence, HolderSees, Owns
<1> QED BY <1>1, <1>2, <1>3, RowsUnchanged DEF IInv, base

\* A worker that takes up a new request.
LEMMA StartInv ==
  ASSUME IInv, NEW w \in Workers, NEW a \in Attempts, NEW p \in {"lookup", "decide", "inspect"},
         pc[w] = "idle", GoTo(w, p), att' = [att EXCEPT ![w] = a],
         blk' \in [Workers -> 0..MaxBlock],
         UNCHANGED <<row, place, base, wTx, wHdr, fallback>>
  PROVE  IInv'
<1>1. TypeOK'
  BY DEF IInv, GoTo, row, base, TypeOK, Points
<1>2. RequestKnowledge'
  BY DEF IInv, GoTo, row, base, TypeOK, RequestKnowledge, RequestKnows
<1>3. LeaseHolderSeesEvidence'
  BY DEF IInv, GoTo, row, base, TypeOK, LeaseHolderSeesEvidence, HolderSees, Owns
<1> QED BY <1>1, <1>2, <1>3, RowsUnchanged DEF IInv, base

\* The closed_due_target statement closes due rows only and gives nobody a lease.
LEMMA CloseDueRows ==
  ASSUME IInv, NEW k, CloseDue(k),
         UNCHANGED <<recLeft, txHash, final, hdr, startBlock, place, base>>
  PROVE  /\ LeaseOnlyWhileLive' /\ FoundedIffCompleted' /\ FounderReviewIsProven'
         /\ BoundPaymentNeverInvalid' /\ ExpiredOnlyWhenDue' /\ OneLiveAttemptPerTarget'
         /\ status' \in [Attempts -> Statuses]
         /\ leaseOwner' \in [Attempts -> Workers \cup {None}]
         /\ leaseLeft' \in [Attempts -> 0..LeaseLength]
         /\ \A v \in Workers, a \in Attempts : Owns(v, a)' => Owns(v, a)
<1>1. LeaseOnlyWhileLive'
  BY DEF IInv, CloseDue, LeaseOnlyWhileLive
<1>2. FoundedIffCompleted'
  BY TargetsAssumption DEF IInv, CloseDue, DueOnTarget, base, TypeOK, FoundedIffCompleted, Proven, Live
<1>3. FounderReviewIsProven'
  BY DEF IInv, CloseDue, DueOnTarget, base, FounderReviewIsProven, Proven
<1>4. BoundPaymentNeverInvalid'
  BY DEF IInv, CloseDue, DueOnTarget, base, BoundPaymentNeverInvalid
<1>5. ExpiredOnlyWhenDue'
  BY DEF IInv, CloseDue, DueOnTarget, ExpiredOnlyWhenDue, Due
<1>6. OneLiveAttemptPerTarget'
  BY DEF IInv, CloseDue, OneLiveAttemptPerTarget, Live
<1>7. /\ status' \in [Attempts -> Statuses]
      /\ leaseOwner' \in [Attempts -> Workers \cup {None}]
      /\ leaseLeft' \in [Attempts -> 0..LeaseLength]
  BY BoundsAssumption DEF IInv, CloseDue, TypeOK, Statuses
<1>8. \A v \in Workers, a \in Attempts : Owns(v, a)' => Owns(v, a)
  BY WorkersAssumption DEF CloseDue, Owns
<1> QED BY <1>1, <1>2, <1>3, <1>4, <1>5, <1>6, <1>7, <1>8

-----------------------------------------------------------------------------
(* One lemma per action.                                                     *)

\* The lookup closes due rows of the target and decides where the request goes on.
LEMMA LookupInv ==
  ASSUME IInv, NEW w \in Workers, Lookup(w)
  PROVE  IInv'
<1> DEFINE k == KeyOf[att[w]]
<1>1. CloseDue(k) /\ UNCHANGED <<recLeft, txHash, final, hdr, startBlock, place, base>>
  BY DEF Lookup
<1>2. \/ Return(w)
      \/ GoTo(w, "insert") /\ UNCHANGED local
      \/ GoTo(w, "refused") /\ UNCHANGED local
      \/ GoTo(w, "acquireOld") /\ UNCHANGED local
  BY DEF Lookup
<1>3. pc[w] # "idle"
  BY DEF Lookup
<1>4. att[w] \in Attempts
  BY <1>3 DEF IInv, RequestKnowledge, RequestKnows
<1> HIDE DEF k
<1>t. /\ status' \in [Attempts -> Statuses]
      /\ leaseOwner' \in [Attempts -> Workers \cup {None}]
      /\ leaseLeft' \in [Attempts -> 0..LeaseLength]
  BY <1>1, CloseDueRows
<1>p. /\ pc' \in [Workers -> Points] /\ att' \in [Workers -> Attempts \cup {None}]
      /\ blk' \in [Workers -> 0..MaxBlock] /\ wTx' \in [Workers -> {0} \cup Txs]
      /\ wHdr' \in [Workers -> Headers] /\ fallback' \in [Workers -> {"review", "verify"}]
  <2>1. CASE Return(w)
    BY <2>1, ReturnTypes DEF IInv
  <2>2. CASE ~Return(w)
    BY <1>2, <2>2 DEF IInv, GoTo, local, TypeOK, Points
  <2> QED BY <2>1, <2>2
<1>5. TypeOK'
  BY <1>1, <1>t, <1>p DEF IInv, base, TypeOK
<1>6. RequestKnowledge'
  BY <1>1, <1>2, <1>4 DEF IInv, Return, GoTo, base, local, TypeOK, RequestKnowledge, RequestKnows
<1>7. LeaseHolderSeesEvidence'
  <2>1. \A v \in Workers, a \in Attempts : Owns(v, a)' => Owns(v, a)
    BY <1>1, CloseDueRows
  <2> SUFFICES ASSUME NEW v \in Workers, pc'[v] # "idle", Owns(v, att[v])'
               PROVE  HolderSees(v)'
    BY DEF LeaseHolderSeesEvidence
  <2>2. CASE v = w
    BY <1>2, <2>2 DEF IInv, Return, GoTo, TypeOK, HolderSees
  <2>3. CASE v # w
    <3>1. pc'[v] = pc[v] /\ att'[v] = att[v] /\ wTx'[v] = wTx[v]
      BY <1>2, <2>3 DEF IInv, Return, GoTo, local, TypeOK
    <3>2. att[v] \in Attempts
      BY <3>1 DEF IInv, RequestKnowledge, RequestKnows
    <3>3. Owns(v, att[v])
      BY <2>1, <3>1, <3>2 DEF Owns
    <3>4. HolderSees(v)
      BY <3>1, <3>3 DEF IInv, LeaseHolderSeesEvidence
    <3> QED BY <1>1, <3>1, <3>4 DEF HolderSees, base
  <2> QED BY <2>2, <2>3
<1> QED BY <1>1, <1>5, <1>6, <1>7, CloseDueRows DEF IInv

\* The header-less lookup closes due rows and resumes the live row that is left.
LEMMA ReplayRequestInv ==
  ASSUME IInv, NEW w \in Workers, NEW a \in Attempts, ReplayRequest(w, a)
  PROVE  IInv'
<1> DEFINE k == KeyOf[a]
<1>1. /\ CloseDue(k)
      /\ UNCHANGED <<recLeft, txHash, final, hdr, startBlock, place, base, blk, wTx, wHdr, fallback>>
      /\ pc[w] = "idle"
  BY DEF ReplayRequest
<1>2. \/ UNCHANGED <<pc, att>>
      \/ GoTo(w, "acquireResume") /\ att' = [att EXCEPT ![w] = a]
  BY DEF ReplayRequest
<1> HIDE DEF k
<1>t. /\ status' \in [Attempts -> Statuses]
      /\ leaseOwner' \in [Attempts -> Workers \cup {None}]
      /\ leaseLeft' \in [Attempts -> 0..LeaseLength]
  BY <1>1, CloseDueRows
<1>p. pc' \in [Workers -> Points] /\ att' \in [Workers -> Attempts \cup {None}]
  BY <1>2 DEF IInv, GoTo, TypeOK, Points
<1>5. TypeOK'
  BY <1>1, <1>t, <1>p DEF IInv, base, TypeOK
<1>6. RequestKnowledge'
  BY <1>1, <1>2 DEF IInv, GoTo, base, TypeOK, RequestKnowledge, RequestKnows
<1>7. LeaseHolderSeesEvidence'
  <2>1. \A v \in Workers, b \in Attempts : Owns(v, b)' => Owns(v, b)
    BY <1>1, CloseDueRows
  <2> SUFFICES ASSUME NEW v \in Workers, pc'[v] # "idle", Owns(v, att[v])'
               PROVE  HolderSees(v)'
    BY DEF LeaseHolderSeesEvidence
  <2>2. CASE v = w
    BY <1>1, <1>2, <2>2 DEF IInv, GoTo, TypeOK, HolderSees
  <2>3. CASE v # w
    <3>1. pc'[v] = pc[v] /\ att'[v] = att[v] /\ wTx'[v] = wTx[v]
      BY <1>1, <1>2, <2>3 DEF IInv, GoTo, TypeOK
    <3>2. att[v] \in Attempts
      BY <3>1 DEF IInv, RequestKnowledge, RequestKnows
    <3>3. Owns(v, att[v])
      BY <2>1, <3>1, <3>2 DEF Owns
    <3>4. HolderSees(v)
      BY <3>1, <3>3 DEF IInv, LeaseHolderSeesEvidence
    <3> QED BY <1>1, <3>1, <3>4 DEF HolderSees, base
  <2> QED BY <2>2, <2>3
<1> QED BY <1>1, <1>5, <1>6, <1>7, CloseDueRows DEF IInv


\* The answers that end a request without a write.
LEMMA EndInv ==
  ASSUME IInv, NEW w \in Workers, Refuse(w) \/ InspectNothing(w) \/ Stop(w)
  PROVE  IInv'
  BY ReturnInv DEF Refuse, InspectNothing, Stop

\* The requests that start on a row without writing.
LEMMA RequestInv ==
  ASSUME IInv, NEW w \in Workers, NEW a \in Attempts,
         PayRequest(w, a) \/ RecheckRequest(w, a) \/ ListRecoverable(w, a)
  PROVE  IInv'
<1>1. CASE PayRequest(w, a)
  <2>1. blk' \in [Workers -> 0..MaxBlock]
    BY <1>1, BoundsAssumption DEF PayRequest, IInv, TypeOK
  <2> QED BY <1>1, <2>1, StartInv DEF PayRequest
<1>2. CASE RecheckRequest(w, a) \/ ListRecoverable(w, a)
  <2>1. blk' \in [Workers -> 0..MaxBlock]
    BY <1>2 DEF RecheckRequest, ListRecoverable, IInv, TypeOK
  <2>2. GoTo(w, "decide") \/ GoTo(w, "inspect")
    BY <1>2 DEF RecheckRequest, ListRecoverable
  <2> QED BY <1>2, <2>1, <2>2, StartInv DEF RecheckRequest, ListRecoverable
<1> QED BY <1>1, <1>2

\* The moves that only change where a request is.
LEMMA LocalMoveInv ==
  ASSUME IInv, NEW w \in Workers,
         \/ RecoverMissing(w) \/ Verify(w) \/ SettleNothing(w)
         \/ ClassifyMatched(w) \/ ClassifyFailed(w) \/ ClassifyPending(w)
         \/ RecoverPaymentAttempt(w)
  PROVE  IInv'
<1> DEFINE p == pc'[w]
<1>1. /\ pc[w] \in {"recover", "verify", "settle", "classify", "decide"}
      /\ UNCHANGED <<row, place, base, local>>
  BY DEF RecoverMissing, Verify, SettleNothing, ClassifyMatched, ClassifyFailed, ClassifyPending,
         RecoverPaymentAttempt
<1>2. PICK q \in Points : GoTo(w, q)
  BY DEF RecoverMissing, Verify, SettleNothing, ClassifyMatched, ClassifyFailed, ClassifyPending,
         RecoverPaymentAttempt, IInv, TypeOK, Points
<1>3. p = q
  BY <1>2 DEF IInv, TypeOK, GoTo
<1>4. /\ p \in {"settle", "invalidate", "release", "review", "verify", "bindFinal", "dueLease", "acquireResume"}
      /\ p = "verify" => pc[w] = "recover"
      /\ p = "settle" => pc[w] = "verify"
      /\ p = "bindFinal" => pc[w] = "classify" /\ chain[att[w]][wTx[w]] = "paid"
      /\ p = "invalidate" => \/ pc[w] = "verify"
                             \/ pc[w] = "classify" /\ chain[att[w]][wTx[w]] = "failed"
  <2>1. CASE RecoverMissing(w)
    BY <2>1 DEF RecoverMissing, IInv, TypeOK, GoTo
  <2>2. CASE Verify(w)
    BY <2>2 DEF Verify, IInv, TypeOK, GoTo
  <2>3. CASE SettleNothing(w)
    BY <2>3 DEF SettleNothing, IInv, TypeOK, GoTo
  <2>4. CASE ClassifyMatched(w) \/ ClassifyFailed(w) \/ ClassifyPending(w)
    BY <2>4 DEF ClassifyMatched, ClassifyFailed, ClassifyPending, IInv, TypeOK, GoTo
  <2>5. CASE RecoverPaymentAttempt(w)
    BY <2>5 DEF RecoverPaymentAttempt, IInv, TypeOK, GoTo
  <2> QED BY <2>1, <2>2, <2>3, <2>4, <2>5
<1>5. wTx' = [wTx EXCEPT ![w] = wTx[w]] /\ wTx[w] \in {0} \cup Txs
  BY <1>1 DEF IInv, TypeOK, local
<1>6. RequestKnows(w)'
  BY <1>1, <1>4 DEF IInv, RequestKnowledge, RequestKnows, local, base
<1>7. Owns(w, att[w]) => HolderSees(w)'
  BY <1>1, <1>4 DEF IInv, LeaseHolderSeesEvidence, HolderSees, row, local, base
<1> QED BY <1>1, <1>2, <1>5, <1>6, <1>7, MoveInv DEF local

\* A final transaction that a Base node names is taken up.
LEMMA FoundInv ==
  ASSUME IInv, NEW w \in Workers, RecoverFound(w) \/ InspectLate(w)
  PROVE  IInv'
<1>1. PICK n \in Txs : wTx' = [wTx EXCEPT ![w] = n] /\ chain[att[w]][n] = "paid"
  BY DEF RecoverFound, InspectLate
<1>2. PICK p \in {"bindPlain", "late"} : GoTo(w, p)
  BY DEF RecoverFound, InspectLate
<1>3. pc[w] # "idle" /\ UNCHANGED <<row, place, base, att, blk, wHdr, fallback>>
  BY DEF RecoverFound, InspectLate
<1>4. pc'[w] = p /\ wTx'[w] = n /\ n # 0
  BY <1>1, <1>2, BoundsAssumption DEF IInv, TypeOK, GoTo, Txs
<1>5. RequestKnows(w)'
  BY <1>1, <1>2, <1>3, <1>4 DEF IInv, RequestKnowledge, RequestKnows, base
<1>6. Owns(w, att[w]) => HolderSees(w)'
  BY <1>2, <1>4 DEF HolderSees
<1> QED BY <1>1, <1>2, <1>3, <1>5, <1>6, MoveInv DEF Points

\* The INSERT of a new live row, or the lost race for it.
LEMMA InsertInv ==
  ASSUME IInv, NEW w \in Workers, Insert(w)
  PROVE  IInv'
<1> DEFINE a == att[w]
<1>0. pc[w] = "insert" /\ a \in Attempts
  BY DEF Insert, IInv, RequestKnowledge, RequestKnows
<1>1. CASE ~CanInsert(a)
  <2>1. GoTo(w, "raced") /\ UNCHANGED <<row, place, base, local>>
    BY <1>1 DEF Insert, row
  <2>2. wTx' = [wTx EXCEPT ![w] = wTx[w]] /\ wTx[w] \in {0} \cup Txs
    BY <2>1 DEF IInv, TypeOK, local
  <2>3. pc'[w] = "raced"
    BY <2>1 DEF IInv, TypeOK, GoTo
  <2>4. RequestKnows(w)' /\ HolderSees(w)'
    BY <1>0, <2>1, <2>3 DEF RequestKnows, HolderSees, local
  <2> QED BY <1>0, <2>1, <2>2, <2>4, MoveInv DEF local, Points
<1>2. CASE CanInsert(a)
  <2>1. /\ status' = [status EXCEPT ![a] = "settling"] /\ status[a] = "none"
        /\ startBlock' = [startBlock EXCEPT ![a] = blk[w]]
        /\ GoTo(w, "acquireNew")
        /\ UNCHANGED <<leaseOwner, leaseLeft, recLeft, txHash, final, hdr, place, base, local>>
    BY <1>2 DEF Insert, CanInsert, SetStatus
  <2> HIDE DEF a
  <2>2. TypeOK'
    BY <1>0, <2>1 DEF IInv, GoTo, base, local, TypeOK, Points, Statuses, Live
  <2>3. RequestKnowledge'
    BY <1>0, <2>1 DEF IInv, GoTo, base, local, TypeOK, RequestKnowledge, RequestKnows
  <2>4. LeaseOnlyWhileLive'
    BY <1>0, <2>1 DEF IInv, TypeOK, LeaseOnlyWhileLive, Live
  <2>5. pc'[w] = "acquireNew"
    BY <2>1 DEF IInv, TypeOK, GoTo
  <2>6. LeaseHolderSeesEvidence'
    <3>1. \A v \in Workers \ {w} : pc'[v] = pc[v] /\ att'[v] = att[v] /\ wTx'[v] = wTx[v]
      BY <2>1 DEF IInv, TypeOK, GoTo, local
    <3>2. HolderSees(w)'
      BY <2>5 DEF HolderSees
    <3> QED BY <1>0, <2>1, <3>1, <3>2, OthersSee DEF base
  <2>7. FoundedIffCompleted' /\ FounderReviewIsProven' /\ BoundPaymentNeverInvalid' /\ ExpiredOnlyWhenDue'
    BY <1>0, <2>1, LiveRow DEF base, Live
  <2>8. OneLiveAttemptPerTarget'
    BY <1>0, <1>2, <2>1 DEF IInv, TypeOK, OneLiveAttemptPerTarget, CanInsert
  <2> QED BY <2>2, <2>3, <2>4, <2>6, <2>7, <2>8 DEF IInv
<1> QED BY <1>1, <1>2

\* acquireSettlementLease: what the request copies from the row is what the row says.
LEMMA AcquireInv ==
  ASSUME IInv, NEW w \in Workers, Acquire(w)
  PROVE  IInv'
<1> DEFINE a == att[w]
<1>0. pc[w] \in {"acquireNew", "acquireOld", "acquireResume"} /\ a \in Attempts
  BY DEF Acquire, IInv, RequestKnowledge, RequestKnows
<1>1. CASE ~CanAcquire(a)
  BY <1>1, ReturnInv DEF Acquire, row
<1>2. CASE CanAcquire(a)
  <2>1. /\ leaseOwner' = [leaseOwner EXCEPT ![a] = w]
        /\ leaseLeft' = [leaseLeft EXCEPT ![a] = LeaseLength]
        /\ wTx' = [wTx EXCEPT ![w] = txHash[a]]
        /\ UNCHANGED <<status, recLeft, txHash, final, hdr, startBlock, place, base, att, blk>>
        /\ status[a] \in Live
    BY <1>2 DEF Acquire, TakeLease, CanAcquire
  <2>2. PICK p \in {"classify", "verify", "recover"} :
          GoTo(w, p) /\ (p = "classify" <=> txHash[a] # 0)
    BY <1>2 DEF Acquire
  <2>3. PICK f \in {"review", "verify"} : fallback' = [fallback EXCEPT ![w] = f]
    BY <1>2 DEF Acquire
  <2>4. PICK h \in Headers : wHdr' = [wHdr EXCEPT ![w] = h]
    BY <1>0, <1>2 DEF Acquire, IInv, TypeOK, Headers
  <2>5. p \in Points
    BY DEF Points
  <2> HIDE DEF a
  <2>6. TypeOK'
    BY <1>0, <2>1, <2>2, <2>3, <2>4, <2>5, BoundsAssumption DEF IInv, GoTo, base, TypeOK
  <2>7. pc'[w] = p /\ att'[w] = att[w] /\ wTx'[w] = txHash[a]
    BY <2>1, <2>2 DEF IInv, TypeOK, GoTo
  <2>8. \A v \in Workers \ {w} : pc'[v] = pc[v] /\ att'[v] = att[v] /\ wTx'[v] = wTx[v]
    BY <2>1, <2>2 DEF IInv, TypeOK, GoTo
  <2>9. RequestKnowledge'
    <3>1. RequestKnows(w)'
      BY <1>0, <2>2, <2>7 DEF RequestKnows, a
    <3>2. ASSUME NEW v \in Workers \ {w} PROVE RequestKnows(v)'
      BY <2>1, <2>8 DEF IInv, RequestKnowledge, RequestKnows, base
    <3> QED BY <3>1, <3>2 DEF RequestKnowledge
  <2>10. LeaseOnlyWhileLive'
    BY <1>0, <2>1 DEF IInv, TypeOK, LeaseOnlyWhileLive
  <2>11. LeaseHolderSeesEvidence'
    <3>1. HolderSees(w)'
      BY <2>1, <2>2, <2>7 DEF HolderSees, a
    <3>2. /\ \A b \in Attempts \ {a} : leaseOwner'[b] = leaseOwner[b]
          /\ leaseOwner'[a] = w
      BY <1>0, <2>1 DEF IInv, TypeOK
    <3> QED BY <1>0, <2>1, <2>8, <3>1, <3>2, OthersSee DEF base
  <2>12. FoundedIffCompleted' /\ FounderReviewIsProven' /\ BoundPaymentNeverInvalid' /\ ExpiredOnlyWhenDue'
    <3>1. status' = [status EXCEPT ![a] = status[a]]
      BY <2>1 DEF IInv, TypeOK
    <3> QED BY <1>0, <2>1, <3>1, LiveRow DEF base
  <2>13. OneLiveAttemptPerTarget'
    BY <2>1 DEF IInv, OneLiveAttemptPerTarget
  <2> QED BY <2>6, <2>9, <2>10, <2>11, <2>12, <2>13 DEF IInv
<1> QED BY <1>1, <1>2

\* A settlement submitted to Base says nothing yet about any transaction that a row
\* or a request relies on.
LEMMA SettleSubmittedInv ==
  ASSUME IInv, NEW w \in Workers, SettleSubmitted(w)
  PROVE  IInv'
<1>0. att[w] \in Attempts
  BY DEF SettleSubmitted, IInv, RequestKnowledge, RequestKnows
<1>1. TypeOK'
  BY <1>0 DEF IInv, SettleSubmitted, GoTo, row, TypeOK, Txs, Points
<1>2. RequestKnowledge'
  BY <1>0, BoundsAssumption DEF IInv, SettleSubmitted, GoTo, row, TypeOK, Txs, RequestKnowledge, RequestKnows
<1>3. LeaseOnlyWhileLive' /\ ExpiredOnlyWhenDue' /\ OneLiveAttemptPerTarget'
  BY DEF IInv, SettleSubmitted, row, LeaseOnlyWhileLive, ExpiredOnlyWhenDue, Due, OneLiveAttemptPerTarget
<1>4. LeaseHolderSeesEvidence'
  BY <1>0 DEF IInv, SettleSubmitted, GoTo, row, TypeOK, RequestKnowledge, RequestKnows,
              LeaseHolderSeesEvidence, HolderSees, Owns
<1>5. FoundedIffCompleted'
  BY <1>0 DEF IInv, SettleSubmitted, row, TypeOK, FoundedIffCompleted, Proven
<1>6. FounderReviewIsProven' /\ BoundPaymentNeverInvalid'
  BY <1>0 DEF IInv, SettleSubmitted, row, TypeOK, FounderReviewIsProven, BoundPaymentNeverInvalid, Proven
<1> QED BY <1>1, <1>2, <1>3, <1>4, <1>5, <1>6 DEF IInv

\* bindPaymentEvidence: a holder's evidence becomes the row's; a request without the
\* lease moves on only beside a row that does not contradict it.
LEMMA BindInv ==
  ASSUME IInv, NEW w \in Workers, BindPaymentEvidence(w)
  PROVE  IInv'
<1> DEFINE a == att[w]
<1>0. /\ pc[w] \in {"bindPlain", "bindRaw", "bindFinal"} /\ a \in Attempts /\ wTx[w] # 0
      /\ UNCHANGED <<leaseOwner, leaseLeft, startBlock, place, base>>
  BY DEF BindPaymentEvidence, IInv, RequestKnowledge, RequestKnows
<1>1. PICK h \in Headers, finality \in BOOLEAN, next \in {"classify", "complete"} :
        /\ Bind(w, h, finality, next)
        /\ next = "complete" => pc[w] = "bindFinal" /\ finality
  <2>1. CASE pc[w] = "bindFinal"
    BY <2>1 DEF BindPaymentEvidence, IInv, TypeOK
  <2>2. CASE pc[w] # "bindFinal"
    BY <2>2 DEF BindPaymentEvidence, Headers
  <2> QED BY <2>1, <2>2
<1>2. CASE ~BindMatches(w, a, h) /\ BindConflicts(w, a, h)
  BY <1>0, <1>1, <1>2, ReturnInv DEF Bind, row
<1>3. CASE BindMatches(w, a, h) \/ ~BindConflicts(w, a, h)
  <2>1. /\ GoTo(w, next) /\ UNCHANGED <<att, blk, wTx, fallback>>
        /\ \E g \in Headers : wHdr' = [wHdr EXCEPT ![w] = g]
    BY <1>0, <1>1, <1>3 DEF Bind, IInv, TypeOK, Headers
  <2>2. \A v \in Workers \ {w} : pc'[v] = pc[v] /\ att'[v] = att[v] /\ wTx'[v] = wTx[v]
    BY <2>1 DEF IInv, TypeOK, GoTo
  <2>3. pc'[w] = next /\ att'[w] = att[w] /\ wTx'[w] = wTx[w]
    BY <2>1 DEF IInv, TypeOK, GoTo
  <2>4. RequestKnowledge'
    <3>1. RequestKnows(w)'
      BY <1>0, <1>1, <2>3 DEF IInv, RequestKnowledge, RequestKnows, base
    <3>2. ASSUME NEW v \in Workers \ {w} PROVE RequestKnows(v)'
      BY <1>0, <2>2 DEF IInv, RequestKnowledge, RequestKnows, base
    <3> QED BY <3>1, <3>2 DEF RequestKnowledge
  <2>5. /\ pc' \in [Workers -> Points] /\ att' \in [Workers -> Attempts \cup {None}]
        /\ blk' \in [Workers -> 0..MaxBlock] /\ wTx' \in [Workers -> {0} \cup Txs]
        /\ wHdr' \in [Workers -> Headers] /\ fallback' \in [Workers -> {"review", "verify"}]
    BY <2>1 DEF IInv, TypeOK, GoTo, Points
  <2>6. CASE ~BindMatches(w, a, h)
    <3>1. UNCHANGED <<status, txHash, final, recLeft, hdr>>
      BY <1>1, <2>6 DEF Bind
    <3>2. UNCHANGED row
      BY <1>0, <3>1 DEF row
    <3>3. TypeOK'
      BY <1>0, <2>5, <3>1 DEF IInv, TypeOK, base
    <3>4. ~Owns(w, a)
      BY <1>3, <2>6 DEF BindMatches, BindConflicts
    <3>5. LeaseHolderSeesEvidence'
      <4>1. ~Owns(w, att[w])'
        BY <1>0, <2>1, <3>1, <3>4 DEF Owns
      <4> QED BY <1>0, <2>2, <3>1, <4>1, OthersSee DEF base
    <3> QED BY <1>0, <2>4, <3>2, <3>3, <3>5, RowsUnchanged DEF IInv, base
  <2>7. CASE BindMatches(w, a, h)
    <3>1. /\ status' = [status EXCEPT ![a] = "payment_pending"]
          /\ txHash' = [txHash EXCEPT ![a] = wTx[w]]
          /\ recLeft' = [recLeft EXCEPT ![a] = Started(a)]
          /\ final' = [final EXCEPT ![a] = final[a] \/ finality]
          /\ \E g \in Headers : hdr' = [hdr EXCEPT ![a] = g]
      BY <1>0, <1>1, <2>7 DEF Bind, SetStatus, IInv, TypeOK
    <3>2. Owns(w, a)
      BY <2>7 DEF BindMatches
    <3>3. Started(a) \in 0..Window
      BY <1>0, BoundsAssumption DEF Started, IInv, TypeOK, NoWindow
    <3>4. final[a] \/ finality \in BOOLEAN
      OBVIOUS
    <3>5. final' \in [Attempts -> BOOLEAN]
      BY <3>1, <3>4 DEF IInv, TypeOK
    <3> HIDE DEF a
    <3>6. TypeOK'
      BY <1>0, <2>5, <3>1, <3>3, <3>5 DEF IInv, TypeOK, Statuses, Live, base
    <3>7. /\ status'[a] = "payment_pending" /\ txHash'[a] = wTx[w]
          /\ final'[a] = (final[a] \/ finality)
          /\ \A b \in Attempts \ {a} : /\ status'[b] = status[b] /\ txHash'[b] = txHash[b]
                                       /\ final'[b] = final[b] /\ hdr'[b] = hdr[b]
                                       /\ recLeft'[b] = recLeft[b]
      BY <1>0, <3>1 DEF IInv, TypeOK
    <3>8. LeaseOnlyWhileLive' /\ OneLiveAttemptPerTarget'
      BY <1>0, <3>2, <3>7 DEF IInv, LeaseOnlyWhileLive, OneLiveAttemptPerTarget, Owns, Live
    <3>9. LeaseHolderSeesEvidence'
      <4>1. HolderSees(w)'
        BY <1>1, <2>3, <3>7 DEF HolderSees, a
      <4>2. leaseOwner'[a] = w /\ \A b \in Attempts \ {a} : leaseOwner'[b] = leaseOwner[b]
        BY <1>0, <3>2 DEF Owns
      <4> QED BY <1>0, <2>2, <3>7, <4>1, <4>2, OthersSee DEF base
    <3>10. FoundedIffCompleted' /\ FounderReviewIsProven' /\ BoundPaymentNeverInvalid' /\ ExpiredOnlyWhenDue'
      BY <1>0, <3>1, <3>2, <3>7, LiveRow DEF base, Live, Owns
    <3> QED BY <2>4, <3>6, <3>8, <3>9, <3>10 DEF IInv
  <2> QED BY <2>6, <2>7
<1> QED BY <1>2, <1>3

\* releaseSettlementLease.
LEMMA ReleaseInv ==
  ASSUME IInv, NEW w \in Workers, ReleaseSettlementLease(w)
  PROVE  IInv'
<1> DEFINE a == att[w]
<1>0. /\ a \in Attempts /\ Return(w)
      /\ UNCHANGED <<status, recLeft, txHash, final, hdr, startBlock, place, base>>
  BY DEF ReleaseSettlementLease, IInv, RequestKnowledge, RequestKnows
<1>1. CASE ~Owns(w, a)
  BY <1>0, <1>1, ReturnInv DEF ReleaseSettlementLease, row
<1>2. CASE Owns(w, a)
  <2>1. /\ leaseOwner' = [leaseOwner EXCEPT ![a] = None]
        /\ leaseLeft' = [leaseLeft EXCEPT ![a] = 0]
    BY <1>2 DEF ReleaseSettlementLease, DropLease
  <2> HIDE DEF a
  <2>2. TypeOK'
    BY <1>0, <2>1, ReturnTypes, BoundsAssumption DEF IInv, TypeOK, base
  <2>3. RequestKnowledge'
    BY <1>0 DEF IInv, Return, GoTo, base, TypeOK, RequestKnowledge, RequestKnows
  <2>4. LeaseOnlyWhileLive' /\ OneLiveAttemptPerTarget'
    BY <1>0, <2>1 DEF IInv, TypeOK, LeaseOnlyWhileLive, OneLiveAttemptPerTarget
  <2>5. LeaseHolderSeesEvidence'
    <3>1. leaseOwner'[a] = None /\ \A b \in Attempts \ {a} : leaseOwner'[b] = leaseOwner[b]
      BY <1>0, <2>1 DEF IInv, TypeOK
    <3>2. pc'[w] = "idle" /\ \A v \in Workers \ {w} : pc'[v] = pc[v] /\ att'[v] = att[v] /\ wTx'[v] = wTx[v]
      BY <1>0, ReturnTypes DEF IInv
    <3> QED BY <1>0, <3>1, <3>2, OthersSee DEF base
  <2>6. FoundedIffCompleted' /\ FounderReviewIsProven' /\ BoundPaymentNeverInvalid' /\ ExpiredOnlyWhenDue'
    <3>1. status' = [status EXCEPT ![a] = status[a]] /\ status[a] \in Live
      BY <1>0, <1>2 DEF IInv, TypeOK, Owns
    <3> QED BY <1>0, <3>1, LiveRow DEF base
  <2> QED BY <2>2, <2>3, <2>4, <2>5, <2>6 DEF IInv
<1> QED BY <1>1, <1>2

\* markPaymentAttemptNeedsReview.
LEMMA NeedsReviewInv ==
  ASSUME IInv, NEW w \in Workers, MarkPaymentAttemptNeedsReview(w)
  PROVE  IInv'
<1> DEFINE a == att[w]
<1>0. /\ a \in Attempts /\ Return(w)
      /\ UNCHANGED <<txHash, final, hdr, startBlock, place, base>>
  BY DEF MarkPaymentAttemptNeedsReview, IInv, RequestKnowledge, RequestKnows
<1>1. CASE ~(Owns(w, a) /\ ~Due(a))
  BY <1>0, <1>1, ReturnInv DEF MarkPaymentAttemptNeedsReview, row
<1>2. CASE Owns(w, a) /\ ~Due(a)
  <2>1. /\ status' = [status EXCEPT ![a] = "needs_review"]
        /\ recLeft' = [recLeft EXCEPT ![a] = Started(a)]
        /\ leaseOwner' = [leaseOwner EXCEPT ![a] = None]
        /\ leaseLeft' = [leaseLeft EXCEPT ![a] = 0]
    BY <1>2 DEF MarkPaymentAttemptNeedsReview, DropLease, SetStatus
  <2>2. Started(a) \in 0..Window
    BY <1>0, BoundsAssumption DEF Started, IInv, TypeOK, NoWindow
  <2> HIDE DEF a
  <2>3. TypeOK'
    BY <1>0, <2>1, <2>2, ReturnTypes, BoundsAssumption DEF IInv, TypeOK, base, Statuses, Live
  <2>4. RequestKnowledge'
    BY <1>0 DEF IInv, Return, GoTo, base, TypeOK, RequestKnowledge, RequestKnows
  <2>5. /\ leaseOwner'[a] = None /\ status'[a] = "needs_review" /\ status[a] \in Live
        /\ \A b \in Attempts \ {a} : leaseOwner'[b] = leaseOwner[b] /\ status'[b] = status[b] /\ recLeft'[b] = recLeft[b]
    BY <1>0, <1>2, <2>1 DEF IInv, TypeOK, Owns
  <2>6. LeaseOnlyWhileLive' /\ OneLiveAttemptPerTarget'
    BY <2>5 DEF IInv, LeaseOnlyWhileLive, OneLiveAttemptPerTarget
  <2>7. LeaseHolderSeesEvidence'
    <3>2. pc'[w] = "idle" /\ \A v \in Workers \ {w} : pc'[v] = pc[v] /\ att'[v] = att[v] /\ wTx'[v] = wTx[v]
      BY <1>0, ReturnTypes DEF IInv
    <3> QED BY <1>0, <2>5, <3>2, OthersSee DEF base
  <2>8. FoundedIffCompleted' /\ FounderReviewIsProven' /\ BoundPaymentNeverInvalid' /\ ExpiredOnlyWhenDue'
    BY <1>0, <2>1, <2>5, LiveRow DEF base, Live
  <2> QED BY <2>3, <2>4, <2>6, <2>7, <2>8 DEF IInv
<1> QED BY <1>1, <1>2

\* The three statements that close a row under its lease.
LEMMA ClosingInv ==
  ASSUME IInv, NEW w \in Workers,
         InvalidatePaymentAttempt(w) \/ ExpirePaymentAttempt(w) \/ MarkPaymentAttemptFounderReview(w)
  PROVE  IInv'
<1> DEFINE a == att[w]
<1>0. /\ a \in Attempts /\ Return(w) /\ pc[w] # "idle"
      /\ UNCHANGED <<recLeft, txHash, final, hdr, startBlock, place, base>>
  BY DEF InvalidatePaymentAttempt, ExpirePaymentAttempt, MarkPaymentAttemptFounderReview,
         IInv, RequestKnowledge, RequestKnows
<1>1. CASE UNCHANGED <<status, leaseOwner, leaseLeft>>
  BY <1>0, <1>1, ReturnInv DEF row
<1>2. CASE ~UNCHANGED <<status, leaseOwner, leaseLeft>>
  <2>0. Owns(w, a) /\ status[a] \in Live
    BY <1>2 DEF InvalidatePaymentAttempt, ExpirePaymentAttempt, MarkPaymentAttemptFounderReview, Owns
  <2>h. HolderSees(w)
    BY <1>0, <2>0 DEF IInv, LeaseHolderSeesEvidence
  <2>1. CASE InvalidatePaymentAttempt(w)
    <3>1. SetStatus(a, "invalid") /\ DropLease(a)
      BY <1>2, <2>1 DEF InvalidatePaymentAttempt
    <3>2. txHash[a] = 0 \/ chain[a][txHash[a]] = "failed"
      BY <2>1, <2>h DEF InvalidatePaymentAttempt, HolderSees
    <3> QED BY <1>0, <2>0, <3>1, <3>2, CloseInv
  <2>2. CASE ExpirePaymentAttempt(w)
    <3>1. SetStatus(a, "expired") /\ DropLease(a) /\ Due(a)
      BY <1>2, <2>2 DEF ExpirePaymentAttempt
    <3> QED BY <1>0, <2>0, <3>1, CloseInv
  <2>3. CASE MarkPaymentAttemptFounderReview(w)
    <3>1. SetStatus(a, "founder_review") /\ DropLease(a)
      BY <1>2, <2>3 DEF MarkPaymentAttemptFounderReview
    <3>2. Proven(a)
      BY <2>3, <2>h DEF MarkPaymentAttemptFounderReview, HolderSees, Proven, IInv, RequestKnowledge, RequestKnows
    <3> QED BY <1>0, <2>0, <3>1, <3>2, CloseInv
  <2> QED BY <2>1, <2>2, <2>3
<1> QED BY <1>1, <1>2

\* completeTreasuryPaymentOperation: the slot was free, so the completed attempt is
\* the only one that founds it, and the holder's transaction is the proven one.
LEMMA CompleteTreasuryInv ==
  ASSUME IInv, NEW w \in Workers, CompleteTreasury(w)
  PROVE  IInv'
<1> DEFINE a == att[w]
           s == SiteOf[a]
<1>0. /\ pc[w] = "complete" /\ a \in Attempts /\ chain[a][wTx[w]] = "paid"
      /\ s \in Sites
      /\ UNCHANGED <<recLeft, txHash, final, hdr, startBlock, base>>
  BY TargetsAssumption DEF CompleteTreasury, IInv, RequestKnowledge, RequestKnows
<1>1. CASE ~OwnedAttempt(w, a)
  BY <1>0, <1>1, ReturnInv DEF CompleteTreasury, row
<1>2. CASE OwnedAttempt(w, a) /\ ~FoundsPlace(a)
  <2>1. GoTo(w, "founder") /\ UNCHANGED <<row, place, base, local>>
    BY <1>0, <1>2 DEF CompleteTreasury, row
  <2>2. wTx' = [wTx EXCEPT ![w] = wTx[w]] /\ wTx[w] \in {0} \cup Txs
    BY <2>1 DEF IInv, TypeOK, local
  <2>3. pc'[w] = "founder"
    BY <2>1 DEF IInv, TypeOK, GoTo
  <2>4. RequestKnows(w)'
    BY <1>0, <2>1, <2>3 DEF IInv, RequestKnowledge, RequestKnows, local, base
  <2>5. Owns(w, a) => HolderSees(w)'
    BY <1>0, <2>1, <2>3 DEF IInv, LeaseHolderSeesEvidence, HolderSees, row, local, base
  <2> QED BY <1>0, <2>1, <2>2, <2>4, <2>5, MoveInv DEF local, Points
<1>3. CASE OwnedAttempt(w, a) /\ FoundsPlace(a)
  <2>1. /\ place' = [place EXCEPT ![s] = a]
        /\ status' = [status EXCEPT ![a] = "completed"]
        /\ leaseOwner' = [leaseOwner EXCEPT ![a] = None]
        /\ leaseLeft' = [leaseLeft EXCEPT ![a] = 0]
        /\ Return(w)
    BY <1>3 DEF CompleteTreasury, SetStatus, DropLease
  <2>2. place[s] = None /\ status[a] = "payment_pending" /\ Owns(w, a) /\ hdr[a] # "none" /\ final[a]
    BY <1>3 DEF FoundsPlace, EligibleAttempt, OwnedAttempt, Owns, Live
  <2>3. Proven(a)
    BY <1>0, <2>2 DEF IInv, LeaseHolderSeesEvidence, HolderSees, RequestKnowledge, RequestKnows, Proven
  <2>s. SiteOf[a] = s
    OBVIOUS
  <2> HIDE DEF a, s
  <2>4. TypeOK'
    BY <1>0, <2>1, ReturnTypes, BoundsAssumption DEF IInv, TypeOK, base, Statuses
  <2>5. RequestKnowledge'
    BY <1>0, <2>1 DEF IInv, Return, GoTo, base, TypeOK, RequestKnowledge, RequestKnows
  <2>6. /\ leaseOwner'[a] = None /\ status'[a] = "completed" /\ place'[s] = a
        /\ \A b \in Attempts \ {a} : leaseOwner'[b] = leaseOwner[b] /\ status'[b] = status[b]
        /\ \A t \in Sites \ {s} : place'[t] = place[t]
    BY <1>0, <2>1 DEF IInv, TypeOK
  <2>7. LeaseOnlyWhileLive' /\ OneLiveAttemptPerTarget'
    BY <2>6 DEF IInv, LeaseOnlyWhileLive, OneLiveAttemptPerTarget, Live
  <2>8. LeaseHolderSeesEvidence'
    <3>1. pc'[w] = "idle" /\ \A v \in Workers \ {w} : pc'[v] = pc[v] /\ att'[v] = att[v] /\ wTx'[v] = wTx[v]
      BY <2>1, ReturnTypes DEF IInv
    <3> QED BY <1>0, <2>6, <3>1, OthersSee DEF base
  <2>9. FoundedIffCompleted'
    <3>1. ASSUME NEW t \in Sites, place'[t] \in Attempts
          PROVE  SiteOf[place'[t]] = t /\ status'[place'[t]] = "completed"
      <4>1. CASE t = s
        BY <2>6, <2>s, <4>1
      <4>2. CASE t # s
        BY <2>2, <2>6, <3>1, <4>2 DEF IInv, FoundedIffCompleted
      <4> QED BY <4>1, <4>2
    <3>2. ASSUME NEW b \in Attempts, status'[b] = "completed"
          PROVE  place'[SiteOf[b]] = b /\ Proven(b)' /\ hdr'[b] # "none"
      <4>1. CASE b = a
        BY <1>0, <2>2, <2>3, <2>6, <2>s, <4>1 DEF Proven, base
      <4>2. CASE b # a
        <5>1. place[SiteOf[b]] = b /\ Proven(b) /\ hdr[b] # "none"
          BY <2>6, <3>2, <4>2 DEF IInv, FoundedIffCompleted
        <5>2. SiteOf[b] \in Sites \ {s}
          BY <2>2, <5>1, TargetsAssumption, WorkersAssumption
        <5> QED BY <1>0, <2>6, <5>1, <5>2 DEF Proven, base
      <4> QED BY <4>1, <4>2
    <3> QED BY <3>1, <3>2 DEF FoundedIffCompleted
  <2>10. FounderReviewIsProven' /\ BoundPaymentNeverInvalid' /\ ExpiredOnlyWhenDue'
    BY <1>0, <2>6 DEF IInv, FounderReviewIsProven, BoundPaymentNeverInvalid, ExpiredOnlyWhenDue, Due, Proven, base
  <2> QED BY <2>4, <2>5, <2>7, <2>8, <2>9, <2>10 DEF IInv
<1> QED BY <1>1, <1>2, <1>3

\* acquireDueSettlementLease.
LEMMA AcquireDueInv ==
  ASSUME IInv, NEW w \in Workers, AcquireDueSettlementLease(w)
  PROVE  IInv'
<1> DEFINE a == att[w]
<1>0. /\ a \in Attempts
      /\ UNCHANGED <<status, recLeft, txHash, final, hdr, startBlock, place, base>>
  BY DEF AcquireDueSettlementLease, IInv, RequestKnowledge, RequestKnows
<1>1. CASE ~CanAcquireDue(a)
  BY <1>0, <1>1, ReturnInv DEF AcquireDueSettlementLease, row
<1>2. CASE CanAcquireDue(a)
  <2>1. /\ leaseOwner' = [leaseOwner EXCEPT ![a] = w]
        /\ leaseLeft' = [leaseLeft EXCEPT ![a] = LeaseLength]
        /\ GoTo(w, "expire") /\ UNCHANGED local /\ status[a] \in Live
    BY <1>2 DEF AcquireDueSettlementLease, CanAcquireDue, TakeLease
  <2> HIDE DEF a
  <2>2. TypeOK'
    BY <1>0, <2>1, BoundsAssumption DEF IInv, GoTo, base, local, TypeOK, Points
  <2>3. pc'[w] = "expire" /\ \A v \in Workers \ {w} : pc'[v] = pc[v] /\ att'[v] = att[v] /\ wTx'[v] = wTx[v]
    BY <2>1 DEF IInv, TypeOK, GoTo, local
  <2>4. RequestKnowledge'
    <3>1. RequestKnows(w)'
      BY <1>0, <2>1, <2>3 DEF RequestKnows, local, a
    <3>2. ASSUME NEW v \in Workers \ {w} PROVE RequestKnows(v)'
      BY <1>0, <2>3 DEF IInv, RequestKnowledge, RequestKnows, base
    <3> QED BY <3>1, <3>2 DEF RequestKnowledge
  <2>5. LeaseOnlyWhileLive' /\ OneLiveAttemptPerTarget'
    BY <1>0, <2>1 DEF IInv, TypeOK, LeaseOnlyWhileLive, OneLiveAttemptPerTarget
  <2>6. LeaseHolderSeesEvidence'
    <3>1. HolderSees(w)'
      BY <2>3 DEF HolderSees
    <3>2. leaseOwner'[a] = w /\ \A b \in Attempts \ {a} : leaseOwner'[b] = leaseOwner[b]
      BY <1>0, <2>1 DEF IInv, TypeOK
    <3> QED BY <1>0, <2>3, <3>1, <3>2, OthersSee DEF base
  <2>7. FoundedIffCompleted' /\ FounderReviewIsProven' /\ BoundPaymentNeverInvalid' /\ ExpiredOnlyWhenDue'
    <3>1. status' = [status EXCEPT ![a] = status[a]]
      BY <1>0 DEF IInv, TypeOK
    <3> QED BY <1>0, <2>1, <3>1, LiveRow DEF base
  <2> QED BY <2>2, <2>4, <2>5, <2>6, <2>7 DEF IInv
<1> QED BY <1>1, <1>2

\* appendLateFinalityEvidence works without a lease: an expired row has none.
LEMMA AppendLateInv ==
  ASSUME IInv, NEW w \in Workers, AppendLateFinalityEvidence(w)
  PROVE  IInv'
<1> DEFINE a == att[w]
           ok == status[a] = "expired" /\ Due(a) /\ txHash[a] \in {0, wTx[w]}
<1>0. /\ a \in Attempts /\ Return(w) /\ wTx[w] # 0 /\ chain[a][wTx[w]] = "paid"
      /\ UNCHANGED <<recLeft, hdr, startBlock, place, base>>
  BY DEF AppendLateFinalityEvidence, IInv, RequestKnowledge, RequestKnows
<1>1. CASE ~ok
  BY <1>0, <1>1, ReturnInv DEF AppendLateFinalityEvidence, row
<1>2. CASE ok
  <2>1. /\ status' = [status EXCEPT ![a] = "founder_review"] /\ status[a] = "expired"
        /\ txHash' = [txHash EXCEPT ![a] = wTx[w]]
        /\ final' = [final EXCEPT ![a] = TRUE]
        /\ leaseOwner' = [leaseOwner EXCEPT ![a] = None]
        /\ leaseLeft' = [leaseLeft EXCEPT ![a] = 0]
    BY <1>2 DEF AppendLateFinalityEvidence, SetStatus, DropLease
  <2> HIDE DEF a
  <2>2. TypeOK'
    BY <1>0, <2>1, ReturnTypes, BoundsAssumption DEF IInv, TypeOK, base, Statuses
  <2>3. RequestKnowledge'
    BY <1>0 DEF IInv, Return, GoTo, base, TypeOK, RequestKnowledge, RequestKnows
  <2>4. /\ leaseOwner'[a] = None /\ status'[a] = "founder_review" /\ txHash'[a] = wTx[w] /\ final'[a]
        /\ \A b \in Attempts \ {a} : /\ leaseOwner'[b] = leaseOwner[b] /\ status'[b] = status[b]
                                     /\ txHash'[b] = txHash[b] /\ final'[b] = final[b]
    BY <1>0, <2>1 DEF IInv, TypeOK
  <2>5. LeaseOnlyWhileLive' /\ OneLiveAttemptPerTarget'
    BY <2>4 DEF IInv, LeaseOnlyWhileLive, OneLiveAttemptPerTarget, Live
  <2>6. LeaseHolderSeesEvidence'
    <3>1. pc'[w] = "idle" /\ \A v \in Workers \ {w} : pc'[v] = pc[v] /\ att'[v] = att[v] /\ wTx'[v] = wTx[v]
      BY <1>0, ReturnTypes DEF IInv
    <3> QED BY <1>0, <2>4, <3>1, OthersSee DEF base
  <2>7. FoundedIffCompleted'
    BY <1>0, <2>1, <2>4, TargetsAssumption DEF IInv, TypeOK, FoundedIffCompleted, Proven, base
  <2>8. FounderReviewIsProven'
    BY <1>0, <2>4 DEF IInv, FounderReviewIsProven, Proven, base
  <2>9. BoundPaymentNeverInvalid'
    BY <1>0, <2>4 DEF IInv, BoundPaymentNeverInvalid, base
  <2>10. ExpiredOnlyWhenDue'
    BY <1>0, <2>4 DEF IInv, ExpiredOnlyWhenDue, Due
  <2> QED BY <2>2, <2>3, <2>5, <2>6, <2>7, <2>8, <2>9, <2>10 DEF IInv
<1> QED BY <1>1, <1>2

\* A transaction that becomes final was neither paid nor failed before.
LEMMA FinalizeInv ==
  ASSUME IInv, NEW a \in Attempts, NEW n \in Txs, Finalize(a, n)
  PROVE  IInv'
<1>1. TypeOK'
  BY DEF IInv, Finalize, row, local, TypeOK
<1>2. RequestKnowledge'
  BY DEF IInv, Finalize, row, local, TypeOK, RequestKnowledge, RequestKnows
<1>3. LeaseOnlyWhileLive' /\ ExpiredOnlyWhenDue' /\ OneLiveAttemptPerTarget'
  BY DEF IInv, Finalize, row, LeaseOnlyWhileLive, ExpiredOnlyWhenDue, Due, OneLiveAttemptPerTarget
<1>4. LeaseHolderSeesEvidence'
  BY DEF IInv, Finalize, row, local, TypeOK, RequestKnowledge, RequestKnows,
         LeaseHolderSeesEvidence, HolderSees, Owns
<1>5. FoundedIffCompleted' /\ FounderReviewIsProven' /\ BoundPaymentNeverInvalid'
  BY DEF IInv, Finalize, row, TypeOK, FoundedIffCompleted, FounderReviewIsProven,
         BoundPaymentNeverInvalid, Proven
<1> QED BY <1>1, <1>2, <1>3, <1>4, <1>5 DEF IInv

\* A slot that something else takes was nobody's.
LEMMA OtherFoundsInv ==
  ASSUME IInv, NEW s \in Sites, OtherFounds(s)
  PROVE  IInv'
<1>1. TypeOK'
  BY DEF IInv, OtherFounds, row, base, local, TypeOK
<1>2. RequestKnowledge' /\ LeaseHolderSeesEvidence' /\ LeaseOnlyWhileLive'
  BY DEF IInv, OtherFounds, row, base, local, RequestKnowledge, RequestKnows,
         LeaseHolderSeesEvidence, HolderSees, Owns, LeaseOnlyWhileLive
<1>3. FoundedIffCompleted'
  BY TargetsAssumption, WorkersAssumption
     DEF IInv, OtherFounds, row, base, TypeOK, FoundedIffCompleted, Proven
<1>4. /\ FounderReviewIsProven' /\ BoundPaymentNeverInvalid'
      /\ ExpiredOnlyWhenDue' /\ OneLiveAttemptPerTarget'
  BY DEF IInv, OtherFounds, row, base, FounderReviewIsProven, BoundPaymentNeverInvalid,
         ExpiredOnlyWhenDue, OneLiveAttemptPerTarget, Due, Proven
<1> QED BY <1>1, <1>2, <1>3, <1>4 DEF IInv

\* A new block and a stuttering step change nothing that IInv speaks about.
LEMMA QuietInv ==
  ASSUME IInv, NewBlock \/ UNCHANGED vars
  PROVE  IInv'
<1>1. UNCHANGED <<row, place, chain, pc, local>>
  BY DEF NewBlock, vars, base
<1>2. TypeOK'
  <2>1. head' \in 1..MaxBlock
    BY BoundsAssumption DEF NewBlock, vars, base, IInv, TypeOK
  <2> QED BY <1>1, <2>1 DEF IInv, row, local, TypeOK
<1>3. RequestKnowledge' /\ LeaseHolderSeesEvidence'
  BY <1>1 DEF IInv, row, local, RequestKnowledge, RequestKnows, LeaseHolderSeesEvidence, HolderSees, Owns
<1> QED BY <1>1, <1>2, <1>3, RowsUnchanged DEF IInv

\* Time: a deadline that has passed stays passed.
LEMMA TickInv ==
  ASSUME IInv, Tick
  PROVE  IInv'
<1>1. TypeOK'
  <2>1. leaseLeft' \in [Attempts -> 0..LeaseLength]
    BY BoundsAssumption DEF Tick, Countdown, IInv, TypeOK
  <2>2. recLeft' \in [Attempts -> {NoWindow} \cup 0..Window]
    BY BoundsAssumption DEF Tick, Countdown, IInv, TypeOK, NoWindow
  <2> QED BY <2>1, <2>2 DEF Tick, IInv, base, local, TypeOK
<1>2. RequestKnowledge' /\ LeaseHolderSeesEvidence' /\ LeaseOnlyWhileLive'
  BY DEF Tick, IInv, base, local, RequestKnowledge, RequestKnows, LeaseHolderSeesEvidence,
         HolderSees, Owns, LeaseOnlyWhileLive
<1>3. /\ FoundedIffCompleted' /\ FounderReviewIsProven' /\ BoundPaymentNeverInvalid'
      /\ OneLiveAttemptPerTarget'
  BY DEF Tick, IInv, base, FoundedIffCompleted, FounderReviewIsProven, BoundPaymentNeverInvalid,
         OneLiveAttemptPerTarget, Proven
<1>4. ExpiredOnlyWhenDue'
  BY DEF Tick, Countdown, IInv, ExpiredOnlyWhenDue, Due
<1> QED BY <1>1, <1>2, <1>3, <1>4 DEF IInv

-----------------------------------------------------------------------------
(* The theorems.                                                             *)

\* The empty table satisfies the inductive invariant.
LEMMA InitInv == Init => IInv
<1> SUFFICES ASSUME Init PROVE IInv
  OBVIOUS
<1>1. TypeOK
  BY BoundsAssumption DEF Init, TypeOK, Statuses, NoWindow, Headers, Points, Txs
<1>2. RequestKnowledge /\ LeaseHolderSeesEvidence
  BY DEF Init, RequestKnowledge, RequestKnows, LeaseHolderSeesEvidence
<1>3. LeaseOnlyWhileLive /\ OneLiveAttemptPerTarget
  BY DEF Init, LeaseOnlyWhileLive, OneLiveAttemptPerTarget, Live
<1>4. /\ FoundedIffCompleted /\ FounderReviewIsProven
      /\ BoundPaymentNeverInvalid /\ ExpiredOnlyWhenDue
  BY WorkersAssumption DEF Init, FoundedIffCompleted, FounderReviewIsProven,
     BoundPaymentNeverInvalid, ExpiredOnlyWhenDue
<1> QED BY <1>1, <1>2, <1>3, <1>4 DEF IInv

\* Every step of every worker and of the environment preserves it.
LEMMA NextInv == IInv /\ [Next]_vars => IInv'
<1> SUFFICES ASSUME IInv, [Next]_vars PROVE IInv'
  OBVIOUS
<1>1. ASSUME NEW w \in Workers, WorkerStep(w) PROVE IInv'
  BY <1>1, LookupInv, EndInv, InsertInv, AcquireInv, FoundInv, LocalMoveInv, SettleSubmittedInv,
     BindInv, ReleaseInv, ClosingInv, NeedsReviewInv, CompleteTreasuryInv, AcquireDueInv,
     AppendLateInv DEF WorkerStep
<1>2. ASSUME NEW w \in Workers, Stop(w) PROVE IInv'
  BY <1>2, EndInv
<1>3. ASSUME NEW w \in Workers, NEW a \in Attempts, NewRequest(w, a) PROVE IInv'
  BY <1>3, RequestInv, ReplayRequestInv DEF NewRequest
<1>4. CASE Environment
  BY <1>4, FinalizeInv, OtherFoundsInv, QuietInv, TickInv DEF Environment
<1>5. CASE UNCHANGED vars
  BY <1>5, QuietInv
<1> QED BY <1>1, <1>2, <1>3, <1>4, <1>5 DEF Next

\* The inductive invariant holds in every reachable state.
THEOREM Invariant == Spec => []IInv
<1> QED BY InitInv, NextInv, PTL DEF Spec

\* Every variable keeps its type.
THEOREM TypeCorrect == Spec => []TypeOK
<1>1. IInv => TypeOK
  BY DEF IInv
<1> QED BY <1>1, Invariant, PTL

\* A place is founded exactly when its attempt completes, and for finalized money.
THEOREM Founding == Spec => []FoundedIffCompleted
<1>1. IInv => FoundedIffCompleted
  BY DEF IInv
<1> QED BY <1>1, Invariant, PTL

\* Only proven payments reach the founder.
THEOREM FounderReview == Spec => []FounderReviewIsProven
<1>1. IInv => FounderReviewIsProven
  BY DEF IInv
<1> QED BY <1>1, Invariant, PTL

\* A stale verdict never invalidates a row whose bound transaction was paid.
THEOREM NoStaleVerdict == Spec => []BoundPaymentNeverInvalid
<1>1. IInv => BoundPaymentNeverInvalid
  BY DEF IInv
<1> QED BY <1>1, Invariant, PTL

\* No row expires before its deadline by the database clock.
THEOREM FullWindow == Spec => []ExpiredOnlyWhenDue
<1>1. IInv => ExpiredOnlyWhenDue
  BY DEF IInv
<1> QED BY <1>1, Invariant, PTL

\* One target has at most one live attempt.
THEOREM OneLive == Spec => []OneLiveAttemptPerTarget
<1>1. IInv => OneLiveAttemptPerTarget
  BY DEF IInv
<1> QED BY <1>1, Invariant, PTL


-----------------------------------------------------------------------------
(* The history that protect_payment_attempt_history defends.                 *)

\* A step that leaves the rows alone keeps their history.
LEMMA RowsKeepHistory ==
  ASSUME IInv, UNCHANGED row
  PROVE  HistoryStep
  BY BoundsAssumption DEF IInv, TypeOK, NoWindow, row, HistoryStep

\* A step that closes live rows and leaves their evidence and windows alone.
LEMMA ClosingKeepsHistory ==
  ASSUME IInv, UNCHANGED <<recLeft, txHash, final, hdr>>,
         \A a \in Attempts : status'[a] = status[a] \/ status[a] \in Live \cup {"none"}
  PROVE  HistoryStep
<1>1. \A a \in Attempts : recLeft[a] # NoWindow => recLeft'[a] \in 0..recLeft[a]
  BY BoundsAssumption DEF IInv, TypeOK, NoWindow
<1> QED BY <1>1 DEF Live, HistoryStep

\* Every step keeps the history of every row.
LEMMA NextKeepsHistory == IInv /\ [Next]_vars => HistoryStep
<1> SUFFICES ASSUME IInv, [Next]_vars PROVE HistoryStep
  OBVIOUS
<1>k. ASSUME NEW k, CloseDue(k), UNCHANGED <<recLeft, txHash, final, hdr>> PROVE HistoryStep
  BY <1>k, ClosingKeepsHistory DEF CloseDue, DueOnTarget
<1>1. ASSUME NEW w \in Workers, WorkerStep(w) PROVE HistoryStep
  <2>1. CASE \/ Refuse(w) \/ Acquire(w) \/ RecoverFound(w) \/ RecoverMissing(w) \/ Verify(w)
             \/ SettleSubmitted(w) \/ SettleNothing(w) \/ ClassifyMatched(w) \/ ClassifyFailed(w)
             \/ ClassifyPending(w) \/ ReleaseSettlementLease(w) \/ RecoverPaymentAttempt(w)
             \/ AcquireDueSettlementLease(w) \/ InspectLate(w) \/ InspectNothing(w)
    <3>1. UNCHANGED <<status, recLeft, txHash, final, hdr>>
      BY <2>1 DEF Refuse, Acquire, RecoverFound, RecoverMissing, Verify, SettleSubmitted, SettleNothing,
         ClassifyMatched, ClassifyFailed, ClassifyPending, ReleaseSettlementLease, RecoverPaymentAttempt,
         AcquireDueSettlementLease, InspectLate, InspectNothing, row
    <3> QED BY <3>1, ClosingKeepsHistory
  <2>2. CASE Lookup(w)
    BY <2>2, <1>k DEF Lookup
  <2>3. CASE \/ Insert(w) \/ InvalidatePaymentAttempt(w) \/ CompleteTreasury(w)
             \/ MarkPaymentAttemptFounderReview(w) \/ ExpirePaymentAttempt(w)
    <3>0. att[w] \in Attempts
      BY <2>3 DEF Insert, InvalidatePaymentAttempt, CompleteTreasury, MarkPaymentAttemptFounderReview,
         ExpirePaymentAttempt, IInv, RequestKnowledge, RequestKnows
    <3>1. UNCHANGED <<recLeft, txHash, final, hdr>>
      BY <2>3 DEF Insert, InvalidatePaymentAttempt, CompleteTreasury, MarkPaymentAttemptFounderReview,
         ExpirePaymentAttempt
    <3>2. \A a \in Attempts : status'[a] = status[a] \/ status[a] \in Live \cup {"none"}
      BY <2>3, <3>0 DEF Insert, CanInsert, InvalidatePaymentAttempt, CompleteTreasury, OwnedAttempt, Live,
         MarkPaymentAttemptFounderReview, ExpirePaymentAttempt, Owns, SetStatus, IInv, TypeOK
    <3> QED BY <3>1, <3>2, ClosingKeepsHistory
  <2>4. CASE BindPaymentEvidence(w)
    <3>0. att[w] \in Attempts
      BY <2>4 DEF BindPaymentEvidence, IInv, RequestKnowledge, RequestKnows
    <3>1. PICK h \in Headers, finality \in BOOLEAN, next \in {"classify", "complete"} : Bind(w, h, finality, next)
      <4>1. CASE pc[w] = "bindFinal"
        BY <2>4, <4>1 DEF BindPaymentEvidence, IInv, TypeOK
      <4>2. CASE pc[w] # "bindFinal"
        BY <2>4, <4>2 DEF BindPaymentEvidence, Headers
      <4> QED BY <4>1, <4>2
    <3>2. CASE ~BindMatches(w, att[w], h)
      BY <3>1, <3>2, ClosingKeepsHistory DEF Bind
    <3>3. CASE BindMatches(w, att[w], h)
      <4> DEFINE a == att[w]
      <4>1. /\ status' = [status EXCEPT ![a] = "payment_pending"] /\ status[a] \in Live
            /\ txHash' = [txHash EXCEPT ![a] = wTx[w]] /\ txHash[a] \in {0, wTx[w]}
            /\ recLeft' = [recLeft EXCEPT ![a] = Started(a)]
            /\ final' = [final EXCEPT ![a] = final[a] \/ finality]
            /\ hdr' = [hdr EXCEPT ![a] = IF h = "none" THEN hdr[a] ELSE h]
            /\ h = "none" \/ hdr[a] \in {"none", h}
        BY <3>1, <3>3 DEF Bind, BindMatches, SetStatus, Owns
      <4> HIDE DEF a
      <4>2. \A b \in Attempts : status'[b] = status[b] \/ status[b] \in Live
        BY <3>0, <4>1 DEF IInv, TypeOK
      <4>3. \A b \in Attempts : txHash[b] # 0 => txHash'[b] = txHash[b]
        BY <3>0, <4>1 DEF IInv, TypeOK
      <4>4. \A b \in Attempts : final[b] => final'[b]
        BY <3>0, <4>1 DEF IInv, TypeOK
      <4>5. \A b \in Attempts : hdr[b] # "none" => hdr'[b] = hdr[b]
        BY <3>0, <4>1 DEF IInv, TypeOK
      <4>6. \A b \in Attempts : recLeft[b] # NoWindow => recLeft'[b] \in 0..recLeft[b]
        BY <3>0, <4>1, BoundsAssumption DEF IInv, TypeOK, NoWindow, Started
      <4> QED BY <4>2, <4>3, <4>4, <4>5, <4>6 DEF HistoryStep, Live
    <3> QED BY <3>2, <3>3
  <2>5. CASE MarkPaymentAttemptNeedsReview(w)
    <3> DEFINE a == att[w]
    <3>0. a \in Attempts
      BY <2>5 DEF MarkPaymentAttemptNeedsReview, IInv, RequestKnowledge, RequestKnows
    <3>1. UNCHANGED <<txHash, final, hdr>>
      BY <2>5 DEF MarkPaymentAttemptNeedsReview
    <3>2. \A b \in Attempts : status'[b] = status[b] \/ status[b] \in Live
      BY <2>5, <3>0 DEF MarkPaymentAttemptNeedsReview, SetStatus, Owns, IInv, TypeOK
    <3>3. \A b \in Attempts : recLeft[b] # NoWindow => recLeft'[b] \in 0..recLeft[b]
      <4>1. recLeft' = recLeft \/ recLeft' = [recLeft EXCEPT ![a] = Started(a)]
        BY <2>5 DEF MarkPaymentAttemptNeedsReview
      <4> HIDE DEF a
      <4>2. CASE recLeft' = recLeft
        BY <4>2, BoundsAssumption DEF IInv, TypeOK, NoWindow
      <4>3. CASE recLeft' = [recLeft EXCEPT ![a] = Started(a)]
        BY <3>0, <4>3, BoundsAssumption DEF IInv, TypeOK, NoWindow, Started
      <4> QED BY <4>1, <4>2, <4>3
    <3> QED BY <3>1, <3>2, <3>3 DEF HistoryStep, Live
  <2>6. CASE AppendLateFinalityEvidence(w)
    <3> DEFINE a == att[w]
    <3>0. a \in Attempts /\ UNCHANGED <<recLeft, hdr>>
      BY <2>6 DEF AppendLateFinalityEvidence, IInv, RequestKnowledge, RequestKnows
    <3>1. \A b \in Attempts : \/ status'[b] = status[b]
                              \/ status[b] = "expired" /\ status'[b] = "founder_review"
      BY <2>6, <3>0 DEF AppendLateFinalityEvidence, SetStatus, IInv, TypeOK
    <3>2. \A b \in Attempts : txHash[b] # 0 => txHash'[b] = txHash[b]
      BY <2>6, <3>0 DEF AppendLateFinalityEvidence, IInv, TypeOK
    <3>3. \A b \in Attempts : final[b] => final'[b]
      BY <2>6, <3>0 DEF AppendLateFinalityEvidence, IInv, TypeOK
    <3>4. \A b \in Attempts : recLeft[b] # NoWindow => recLeft'[b] \in 0..recLeft[b]
      BY <3>0, BoundsAssumption DEF IInv, TypeOK, NoWindow
    <3> QED BY <3>0, <3>1, <3>2, <3>3, <3>4 DEF HistoryStep
  <2> QED BY <1>1, <2>1, <2>2, <2>3, <2>4, <2>5, <2>6 DEF WorkerStep
<1>2. ASSUME NEW w \in Workers, Stop(w) PROVE HistoryStep
  BY <1>2, RowsKeepHistory DEF Stop
<1>3. ASSUME NEW w \in Workers, NEW a \in Attempts, NewRequest(w, a) PROVE HistoryStep
  <2>1. CASE ReplayRequest(w, a)
    BY <2>1, <1>k DEF ReplayRequest
  <2>2. CASE ~ReplayRequest(w, a)
    BY <1>3, <2>2, RowsKeepHistory DEF NewRequest, PayRequest, RecheckRequest, ListRecoverable
  <2> QED BY <2>1, <2>2
<1>4. CASE Environment
  <2>1. CASE Tick
    <3>1. \A a \in Attempts : recLeft[a] # NoWindow => recLeft'[a] \in 0..recLeft[a]
      BY <2>1, BoundsAssumption DEF Tick, Countdown, IInv, TypeOK, NoWindow
    <3> QED BY <2>1, <3>1 DEF Tick, HistoryStep
  <2>2. CASE ~Tick
    BY <1>4, <2>2, RowsKeepHistory DEF Environment, Finalize, OtherFounds, NewBlock
  <2> QED BY <2>1, <2>2
<1>5. CASE UNCHANGED vars
  BY <1>5, RowsKeepHistory DEF vars
<1> QED BY <1>1, <1>2, <1>3, <1>4, <1>5 DEF Next

\* Closed attempts, bound evidence and running windows are never rewritten: the
\* trigger's exceptions are unreachable.
THEOREM History == Spec => HistoryIsImmutable
<1> QED BY Invariant, NextKeepsHistory, PTL DEF Spec, HistoryIsImmutable

=============================================================================

-------------------------- MODULE PaymentAttempts --------------------------
(***************************************************************************)
(* The durable x402 payment of a treasury fee (the founding of a frontier   *)
(* place): src/payment-attempts.ts, payment-flow.ts, payment-recovery.ts,   *)
(* payment-recovery-runtime.ts, payment-treasury-operations.ts and the      *)
(* payment_attempts table with its triggers in db/schema.sql.               *)
(*                                                                          *)
(* A worker is one invocation of the serverless function.  It serves one    *)
(* request at a time and may die between any two awaits.  Every database    *)
(* statement is one atomic step, and so is every call to the facilitator or *)
(* to a Base node.  An attempt stands for one signed authorization (nonce,  *)
(* X-PAYMENT header) together with the request it was signed for.  The      *)
(* worker's name serves as its random lease token: a worker tests a lease   *)
(* only after it took it in the same request.                               *)
(***************************************************************************)
EXTENDS Integers, FiniteSets

CONSTANTS
  Attempts,      \* signed authorizations, each bound to one request
  Keys,          \* payment_attempts.target_key values
  Sites,         \* (parent, lower(name)) slots of places_sibling_name
  KeyOf,         \* target_key of an attempt's request
  SiteOf,        \* the slot that the request would found
  Workers,       \* concurrent invocations
  Crons,         \* the workers that only run the recovery cron
  Requests,      \* the kinds of request that residents send
  None,          \* SQL NULL for owners
  Other,         \* a place founded by anything but an attempt of this model
  LeaseLength,   \* processing lease, in ticks (30 s in the code)
  Window,        \* recovery window, in ticks (2 h in the code)
  ClockSkew,     \* TRUE: the function's clock may disagree with Postgres
  MaxBlock,      \* bound on the Base head that is followed
  MaxTx          \* bound on settlement transactions per authorization

ASSUME TargetsAssumption ==
  /\ KeyOf \in [Attempts -> Keys]
  /\ SiteOf \in [Attempts -> Sites]

ASSUME WorkersAssumption ==
  /\ Crons \subseteq Workers
  /\ Requests \subseteq {"pay", "replay", "recheck"}
  /\ None \notin Workers
  /\ None \notin Attempts
  /\ Other \notin Attempts
  /\ Other # None

ASSUME BoundsAssumption ==
  /\ LeaseLength \in Nat \ {0}
  /\ Window \in Nat \ {0}
  /\ ClockSkew \in BOOLEAN
  /\ MaxBlock \in Nat \ {0}
  /\ MaxTx \in Nat \ {0}

VARIABLES
  status,        \* status of each row, "none" before the row exists
  leaseOwner,    \* lease_owner
  leaseLeft,     \* ticks until lease_expires_at, 0 once it has passed
  recLeft,       \* ticks until recovery_deadline_at, NoWindow while it is NULL
  txHash,        \* tx_hash, 0 for NULL
  final,         \* the four finalized_* columns, set together
  hdr,           \* the stored X-PAYMENT-RESPONSE header
  startBlock,    \* start_block
  place,         \* who founded each slot
  chain,         \* Base: what became of each settlement transaction
  head,          \* Base: the current block number
  pc, att,       \* each worker's program point and the attempt it serves
  blk,           \* the block number the request read before createOrRead
  wTx,           \* the transaction hash the request works with, 0 for null
  wHdr,          \* the header the request will store with finality
  fallback       \* where the request goes when no transaction is recovered

row == <<status, leaseOwner, leaseLeft, recLeft, txHash, final, hdr, startBlock>>
base == <<chain, head>>
local == <<att, blk, wTx, wHdr, fallback>>
vars == <<row, place, base, pc, local>>

Live == {"settling", "payment_pending", "needs_review"}
Statuses == Live \cup {"none", "completed", "invalid", "expired", "founder_review"}
NoWindow == -1
Txs == 1..MaxTx
Headers == {"none", "raw", "canon"}
Points == {"idle", "lookup", "insert", "raced", "refused",
           "acquireNew", "acquireOld", "acquireResume",
           "recover", "verify", "settle", "bindPlain", "bindRaw",
           "classify", "bindFinal", "review", "invalidate", "release",
           "complete", "founder",
           "decide", "dueLease", "expire", "inspect", "late"}

\* Types of all variables.
TypeOK ==
  /\ status \in [Attempts -> Statuses]
  /\ leaseOwner \in [Attempts -> Workers \cup {None}]
  /\ leaseLeft \in [Attempts -> 0..LeaseLength]
  /\ recLeft \in [Attempts -> {NoWindow} \cup 0..Window]
  /\ txHash \in [Attempts -> {0} \cup Txs]
  /\ final \in [Attempts -> BOOLEAN]
  /\ hdr \in [Attempts -> Headers]
  /\ startBlock \in [Attempts -> 0..MaxBlock]
  /\ place \in [Sites -> Attempts \cup {None, Other}]
  /\ chain \in [Attempts -> [Txs -> {"none", "submitted", "paid", "failed"}]]
  /\ head \in 1..MaxBlock
  /\ pc \in [Workers -> Points]
  /\ att \in [Workers -> Attempts \cup {None}]
  /\ blk \in [Workers -> 0..MaxBlock]
  /\ wTx \in [Workers -> {0} \cup Txs]
  /\ wHdr \in [Workers -> Headers]
  /\ fallback \in [Workers -> {"review", "verify"}]

Init ==
  /\ status = [a \in Attempts |-> "none"]
  /\ leaseOwner = [a \in Attempts |-> None]
  /\ leaseLeft = [a \in Attempts |-> 0]
  /\ recLeft = [a \in Attempts |-> NoWindow]
  /\ txHash = [a \in Attempts |-> 0]
  /\ final = [a \in Attempts |-> FALSE]
  /\ hdr = [a \in Attempts |-> "none"]
  /\ startBlock = [a \in Attempts |-> 0]
  /\ place = [s \in Sites |-> None]
  /\ chain = [a \in Attempts |-> [n \in Txs |-> "none"]]
  /\ head = 1
  /\ pc = [w \in Workers |-> "idle"]
  /\ att = [w \in Workers |-> None]
  /\ blk = [w \in Workers |-> 0]
  /\ wTx = [w \in Workers |-> 0]
  /\ wHdr = [w \in Workers |-> "none"]
  /\ fallback = [w \in Workers |-> "review"]

-----------------------------------------------------------------------------
(* Conditions the SQL statements test.                                      *)

Due(a) == recLeft[a] = 0
LeaseFree(a) == leaseLeft[a] = 0
Owns(w, a) == leaseOwner[a] = w /\ status[a] \in Live

\* Mutant: every statement that binds or reviews lengthens a window that runs.
MutantRestarted(a) == IF recLeft[a] = NoWindow THEN Window ELSE recLeft[a] + 1

\* Mutant: a window that starts is counted from the end of the lease.
MutantLateWindow(a) == IF recLeft[a] = NoWindow THEN LeaseLength + Window ELSE recLeft[a]

\* coalesce(recovery_deadline_at, now + window)
Started(a) == IF recLeft[a] = NoWindow THEN Window ELSE recLeft[a]

GoTo(w, point) == pc' = [pc EXCEPT ![w] = point]

\* A request that ends forgets everything it knew.
Return(w) ==
  /\ GoTo(w, "idle")
  /\ att' = [att EXCEPT ![w] = None]
  /\ blk' = [blk EXCEPT ![w] = 0]
  /\ wTx' = [wTx EXCEPT ![w] = 0]
  /\ wHdr' = [wHdr EXCEPT ![w] = "none"]
  /\ fallback' = [fallback EXCEPT ![w] = "review"]

\* Mutant: a lookup closes the live rows of its target without asking the deadline.
MutantAnyOnTarget(k) == {a \in Attempts : KeyOf[a] = k /\ status[a] \in Live}

DueOnTarget(k) == {a \in Attempts : KeyOf[a] = k /\ status[a] \in Live /\ Due(a)}

\* The closed_due_target statement of both lookups, run before they read.
CloseDue(k) ==
  /\ status' = [a \in Attempts |-> IF a \in DueOnTarget(k) THEN "expired" ELSE status[a]]
  /\ leaseOwner' = [a \in Attempts |-> IF a \in DueOnTarget(k) THEN None ELSE leaseOwner[a]]
  /\ leaseLeft' = [a \in Attempts |-> IF a \in DueOnTarget(k) THEN 0 ELSE leaseLeft[a]]

\* The newest replayable row of a target.  A live row is newer than every
\* completed one, since no row of the target is created beside a live one.
Latest(k) ==
  LET open == {a \in Attempts \ DueOnTarget(k) : KeyOf[a] = k /\ status[a] \in Live}
      done == {a \in Attempts : KeyOf[a] = k /\ status[a] = "completed"}
  IN  IF open # {} THEN open ELSE done

SetStatus(a, s) == status' = [status EXCEPT ![a] = s]

DropLease(a) ==
  /\ leaseOwner' = [leaseOwner EXCEPT ![a] = None]
  /\ leaseLeft' = [leaseLeft EXCEPT ![a] = 0]

TakeLease(w, a) ==
  /\ leaseOwner' = [leaseOwner EXCEPT ![a] = w]
  /\ leaseLeft' = [leaseLeft EXCEPT ![a] = LeaseLength]

-----------------------------------------------------------------------------
(* runDurableX402: a request that carries the X-PAYMENT header.             *)

\* Parse the header, read the Base head (start_block of the input).
PayRequest(w, a) ==
  /\ pc[w] = "idle" /\ w \notin Crons /\ "pay" \in Requests
  /\ GoTo(w, "lookup")
  /\ att' = [att EXCEPT ![w] = a]
  /\ blk' = [blk EXCEPT ![w] = head]
  /\ UNCHANGED <<row, place, base, wTx, wHdr, fallback>>

\* sameImmutableTerms, for a row of the very same authorization and request:
\* start_block is the one compared term that a repeated request changes.
SameImmutableTerms(a, w) == startBlock[a] = blk[w]

\* canReplayExistingAttempt, for the newest row of the target.
CanReplayExistingAttempt(w, a) == a \in Latest(KeyOf[a]) /\ SameImmutableTerms(a, w)

\* The first read of createOrReadPaymentAttempt, and its read after a lost insert.
Lookup(w) ==
  LET a == att[w] IN
  /\ pc[w] \in {"lookup", "raced"}
  /\ CloseDue(KeyOf[a])
  /\ \/ /\ Latest(KeyOf[a]) = {}
        /\ GoTo(w, IF pc[w] = "lookup" THEN "insert" ELSE "refused")
        /\ UNCHANGED local
     \/ /\ CanReplayExistingAttempt(w, a) /\ status[a] = "completed"
        /\ Return(w)
     \/ /\ CanReplayExistingAttempt(w, a) /\ status[a] # "completed"
        /\ GoTo(w, "acquireOld")
        /\ UNCHANGED local
     \/ /\ Latest(KeyOf[a]) # {} /\ ~CanReplayExistingAttempt(w, a)
        /\ GoTo(w, "refused")
        /\ UNCHANGED local
  /\ UNCHANGED <<recLeft, txHash, final, hdr, startBlock, place, base>>

\* A PaymentAttemptConflictError is answered with 409 and do_not_pay_again.
Refuse(w) ==
  /\ pc[w] = "refused"
  /\ Return(w)
  /\ UNCHANGED <<row, place, base>>

\* Mutant: without the unique index payment_attempts_one_live_target.
MutantInsertBesideLive(a) == status[a] = "none"

\* INSERT ... ON CONFLICT DO NOTHING against the two unique indexes: one row
\* per nonce, one live row per target.
CanInsert(a) ==
  /\ status[a] = "none"
  /\ \A b \in Attempts : KeyOf[b] = KeyOf[a] => status[b] \notin Live

Insert(w) ==
  LET a == att[w] IN
  /\ pc[w] = "insert"
  /\ IF CanInsert(a)
       THEN /\ SetStatus(a, "settling")
            /\ startBlock' = [startBlock EXCEPT ![a] = blk[w]]
            /\ GoTo(w, "acquireNew")
       ELSE GoTo(w, "raced") /\ UNCHANGED <<status, startBlock>>
  /\ UNCHANGED <<leaseOwner, leaseLeft, recLeft, txHash, final, hdr, place, base, local>>

\* acquireSettlementLease and the branch on the row it returns.
CanAcquire(a) == status[a] \in Live /\ LeaseFree(a)

Acquire(w) ==
  LET a == att[w] IN
  /\ pc[w] \in {"acquireNew", "acquireOld", "acquireResume"}
  /\ IF CanAcquire(a)
       THEN /\ TakeLease(w, a)
            /\ wTx' = [wTx EXCEPT ![w] = txHash[a]]
            /\ wHdr' = [wHdr EXCEPT ![w] = IF hdr[a] = "none" THEN "canon" ELSE hdr[a]]
            /\ fallback' = [fallback EXCEPT ![w] =
                 IF pc[w] = "acquireOld" /\ status[a] # "needs_review"
                   THEN "verify" ELSE "review"]
            /\ GoTo(w, IF txHash[a] # 0 THEN "classify"
                       ELSE IF pc[w] = "acquireNew" THEN "verify" ELSE "recover")
            /\ UNCHANGED <<att, blk>>
       ELSE Return(w) /\ UNCHANGED <<leaseOwner, leaseLeft>>
  /\ UNCHANGED <<status, recLeft, txHash, final, hdr, startBlock, place, base>>

\* findFinalizedAuthorizationTransaction: the finalized transaction that used
\* the nonce, or null (none yet, or the Base node did not answer).
RecoverFound(w) ==
  /\ pc[w] = "recover"
  /\ \E n \in Txs :
       /\ chain[att[w]][n] = "paid"
       /\ wTx' = [wTx EXCEPT ![w] = n]
  /\ GoTo(w, "bindPlain")
  /\ UNCHANGED <<row, place, base, att, blk, wHdr, fallback>>

RecoverMissing(w) ==
  /\ pc[w] = "recover"
  /\ GoTo(w, fallback[w])
  /\ UNCHANGED <<row, place, base, local>>

\* verifyX402Payment.  An answer that is not a success counts as invalid,
\* whatever the state of the authorization; no answer is "unavailable".
Verify(w) ==
  /\ pc[w] = "verify"
  /\ \E next \in {"settle", "invalidate", "release"} :
       /\ next = "settle" => \A n \in Txs : chain[att[w]][n] # "paid"
       /\ GoTo(w, next)
  /\ UNCHANGED <<row, place, base, local>>

\* settleVerifiedX402: the facilitator may submit a transaction, and its
\* answer may name it (settled, or ambiguous with a hash) or be lost.
SettleSubmitted(w) ==
  /\ pc[w] = "settle"
  /\ \E n \in Txs, next \in {"bindRaw", "bindPlain", "review"} :
       /\ chain[att[w]][n] = "none"
       /\ chain' = [chain EXCEPT ![att[w]][n] = "submitted"]
       /\ wTx' = [wTx EXCEPT ![w] = IF next = "review" THEN 0 ELSE n]
       /\ GoTo(w, next)
  /\ UNCHANGED <<row, place, head, att, blk, wHdr, fallback>>

SettleNothing(w) ==
  /\ pc[w] = "settle"
  /\ GoTo(w, "review")
  /\ UNCHANGED <<row, place, base, local>>

\* bindPaymentEvidence: the UPDATE's WHERE, then what the reread of a row it
\* did not touch refuses.  A row that agrees is accepted without the lease.
BindMatches(w, a, h) ==
  /\ Owns(w, a)
  /\ txHash[a] \in {0, wTx[w]}
  /\ ~Due(a)
  /\ h = "none" \/ hdr[a] \in {"none", h}

BindConflicts(w, a, h) ==
  \/ txHash[a] \notin {0, wTx[w]}
  \/ Due(a)
  \/ h # "none" /\ hdr[a] # h

Bind(w, h, finality, next) ==
  LET a == att[w] IN
  \/ /\ BindMatches(w, a, h)
     /\ SetStatus(a, "payment_pending")
     /\ txHash' = [txHash EXCEPT ![a] = wTx[w]]
     /\ final' = [final EXCEPT ![a] = final[a] \/ finality]
     /\ recLeft' = [recLeft EXCEPT ![a] = Started(a)]
     /\ hdr' = [hdr EXCEPT ![a] = IF h = "none" THEN hdr[a] ELSE h]
     /\ wHdr' = [wHdr EXCEPT ![w] =
          IF hdr[a] # "none" THEN hdr[a] ELSE IF h = "none" THEN "canon" ELSE h]
     /\ GoTo(w, next)
     /\ UNCHANGED <<att, blk, wTx, fallback>>
  \/ /\ ~BindMatches(w, a, h) /\ ~BindConflicts(w, a, h)
     /\ wHdr' = [wHdr EXCEPT ![w] = IF hdr[a] = "none" THEN "canon" ELSE hdr[a]]
     /\ GoTo(w, next)
     /\ UNCHANGED <<status, txHash, final, recLeft, hdr, att, blk, wTx, fallback>>
  \/ /\ ~BindMatches(w, a, h) /\ BindConflicts(w, a, h)
     /\ Return(w)
     /\ UNCHANGED <<status, txHash, final, recLeft, hdr>>

BindPaymentEvidence(w) ==
  /\ \/ pc[w] = "bindPlain" /\ Bind(w, "none", FALSE, "classify")
     \/ pc[w] = "bindRaw" /\ Bind(w, "raw", FALSE, "classify")
     \/ pc[w] = "bindFinal" /\ Bind(w, wHdr[w], TRUE, "complete")
  /\ UNCHANGED <<leaseOwner, leaseLeft, startBlock, place, base>>

\* Mutant: a receipt counts before its block is final.
MutantMatchedEarly(w) ==
  /\ pc[w] = "classify" /\ chain[att[w]][wTx[w]] \in {"submitted", "paid"}
  /\ GoTo(w, "bindFinal")
  /\ UNCHANGED <<row, place, base, local>>

\* classifyUsdcTransfer: a finalized success, a finalized failure, or pending
\* (not final yet, or the Base node did not answer).
ClassifyMatched(w) ==
  /\ pc[w] = "classify" /\ chain[att[w]][wTx[w]] = "paid"
  /\ GoTo(w, "bindFinal")
  /\ UNCHANGED <<row, place, base, local>>

ClassifyFailed(w) ==
  /\ pc[w] = "classify" /\ chain[att[w]][wTx[w]] = "failed"
  /\ GoTo(w, "invalidate")
  /\ UNCHANGED <<row, place, base, local>>

ClassifyPending(w) ==
  /\ pc[w] = "classify"
  /\ GoTo(w, "release")
  /\ UNCHANGED <<row, place, base, local>>

ReleaseSettlementLease(w) ==
  /\ pc[w] = "release"
  /\ IF Owns(w, att[w]) THEN DropLease(att[w]) ELSE UNCHANGED <<leaseOwner, leaseLeft>>
  /\ Return(w)
  /\ UNCHANGED <<status, recLeft, txHash, final, hdr, startBlock, place, base>>

\* Mutant: the UPDATE does not ask for the lease token.
MutantInvalidateUnleased(w) ==
  /\ pc[w] = "invalidate"
  /\ IF status[att[w]] \in Live
       THEN SetStatus(att[w], "invalid") /\ DropLease(att[w])
       ELSE UNCHANGED <<status, leaseOwner, leaseLeft>>
  /\ Return(w)
  /\ UNCHANGED <<recLeft, txHash, final, hdr, startBlock, place, base>>

InvalidatePaymentAttempt(w) ==
  /\ pc[w] = "invalidate"
  /\ IF Owns(w, att[w])
       THEN SetStatus(att[w], "invalid") /\ DropLease(att[w])
       ELSE UNCHANGED <<status, leaseOwner, leaseLeft>>
  /\ Return(w)
  /\ UNCHANGED <<recLeft, txHash, final, hdr, startBlock, place, base>>

MarkPaymentAttemptNeedsReview(w) ==
  LET a == att[w] IN
  /\ pc[w] = "review"
  /\ IF Owns(w, a) /\ ~Due(a)
       THEN /\ SetStatus(a, "needs_review")
            /\ recLeft' = [recLeft EXCEPT ![a] = Started(a)]
            /\ DropLease(a)
       ELSE UNCHANGED <<status, recLeft, leaseOwner, leaseLeft>>
  /\ Return(w)
  /\ UNCHANGED <<txHash, final, hdr, startBlock, place, base>>

-----------------------------------------------------------------------------
(* completeTreasuryPaymentOperation: one statement founds the place, books  *)
(* the payment and completes the attempt, or changes nothing and names why. *)

OwnedAttempt(w, a) == leaseOwner[a] = w /\ status[a] = "payment_pending"

EligibleAttempt(a) ==
  /\ recLeft[a] # NoWindow /\ ~Due(a)
  /\ txHash[a] # 0 /\ final[a] /\ hdr[a] # "none"

\* Mutant: the new place is written without asking places_sibling_name.
MutantFoundsAnyway(a) == EligibleAttempt(a)

\* INSERT INTO places ... ON CONFLICT DO NOTHING returned the new place.
FoundsPlace(a) == EligibleAttempt(a) /\ place[SiteOf[a]] = None

CompleteTreasury(w) ==
  LET a == att[w] IN
  /\ pc[w] = "complete"
  /\ \/ /\ OwnedAttempt(w, a) /\ FoundsPlace(a)
        /\ place' = [place EXCEPT ![SiteOf[a]] = a]
        /\ SetStatus(a, "completed")
        /\ DropLease(a)
        /\ Return(w)
     \/ /\ OwnedAttempt(w, a) /\ ~FoundsPlace(a)       \* deadline_passed, target_changed
        /\ GoTo(w, "founder")
        /\ UNCHANGED <<place, status, leaseOwner, leaseLeft, local>>
     \/ /\ ~OwnedAttempt(w, a)                 \* no row: the request fails
        /\ Return(w)
        /\ UNCHANGED <<place, status, leaseOwner, leaseLeft>>
  /\ UNCHANGED <<recLeft, txHash, final, hdr, startBlock, base>>

MarkPaymentAttemptFounderReview(w) ==
  /\ pc[w] = "founder"
  /\ IF Owns(w, att[w])
       THEN SetStatus(att[w], "founder_review") /\ DropLease(att[w])
       ELSE UNCHANGED <<status, leaseOwner, leaseLeft>>
  /\ Return(w)
  /\ UNCHANGED <<recLeft, txHash, final, hdr, startBlock, place, base>>

-----------------------------------------------------------------------------
(* Requests that carry no header, the recheck route and the recovery cron.  *)

\* replayTreasuryFee: the same request without a header resumes the live row
\* of its resident and target, after closing what is due.
ReplayRequest(w, a) ==
  /\ pc[w] = "idle" /\ w \notin Crons /\ "replay" \in Requests
  /\ CloseDue(KeyOf[a])
  /\ IF a \in Latest(KeyOf[a]) /\ status[a] \in Live
       THEN /\ GoTo(w, "acquireResume")
            /\ att' = [att EXCEPT ![w] = a]
       ELSE UNCHANGED <<pc, att>>
  /\ UNCHANGED <<recLeft, txHash, final, hdr, startBlock, place, base, blk, wTx, wHdr, fallback>>

\* POST /api/payment-attempt/:id/recheck on a row whose window has started;
\* every other live row answers "unavailable" and is left alone.
RecheckRequest(w, a) ==
  /\ pc[w] = "idle" /\ w \notin Crons /\ "recheck" \in Requests
  /\ \/ status[a] \in Live /\ recLeft[a] # NoWindow /\ GoTo(w, "decide")
     \/ status[a] = "expired" /\ GoTo(w, "inspect")
  /\ att' = [att EXCEPT ![w] = a]
  /\ UNCHANGED <<row, place, base, blk, wTx, wHdr, fallback>>

\* The cron lists the live rows whose window has started and whose lease is
\* free; it works on each one later.
ListRecoverable(w, a) ==
  /\ pc[w] = "idle" /\ w \in Crons
  /\ status[a] \in Live /\ recLeft[a] # NoWindow /\ LeaseFree(a)
  /\ GoTo(w, "decide")
  /\ att' = [att EXCEPT ![w] = a]
  /\ UNCHANGED <<row, place, base, blk, wTx, wHdr, fallback>>

\* recoverPaymentAttempt compares the deadline with the function's clock.
RecoverPaymentAttempt(w) ==
  /\ pc[w] = "decide"
  /\ \E reached \in BOOLEAN :
       /\ reached = Due(att[w]) \/ ClockSkew
       /\ GoTo(w, IF reached THEN "dueLease" ELSE "acquireResume")
  /\ UNCHANGED <<row, place, base, local>>

\* Mutant: a lease that its owner never gave back is not taken over.
MutantDueUnowned(a) == status[a] \in Live /\ Due(a) /\ leaseOwner[a] = None

CanAcquireDue(a) == status[a] \in Live /\ Due(a) /\ LeaseFree(a)

AcquireDueSettlementLease(w) ==
  /\ pc[w] = "dueLease"
  /\ IF CanAcquireDue(att[w])
       THEN TakeLease(w, att[w]) /\ GoTo(w, "expire") /\ UNCHANGED local
       ELSE Return(w) /\ UNCHANGED <<leaseOwner, leaseLeft>>
  /\ UNCHANGED <<status, recLeft, txHash, final, hdr, startBlock, place, base>>

ExpirePaymentAttempt(w) ==
  /\ pc[w] = "expire"
  /\ IF Owns(w, att[w]) /\ Due(att[w])
       THEN SetStatus(att[w], "expired") /\ DropLease(att[w])
       ELSE UNCHANGED <<status, leaseOwner, leaseLeft>>
  /\ Return(w)
  /\ UNCHANGED <<recLeft, txHash, final, hdr, startBlock, place, base>>

\* Mutant: the late check looks only for a transaction the row does not know.
MutantInspectUnbound(w) ==
  /\ pc[w] = "inspect"
  /\ txHash[att[w]] = 0
  /\ \E n \in Txs :
       /\ chain[att[w]][n] = "paid"
       /\ wTx' = [wTx EXCEPT ![w] = n]
  /\ GoTo(w, "late")
  /\ UNCHANGED <<row, place, base, att, blk, wHdr, fallback>>

\* Mutant: the late check accepts a transaction that is not final.
MutantInspectEarly(w) ==
  /\ pc[w] = "inspect"
  /\ \E n \in Txs :
       /\ txHash[att[w]] \in {0, n}
       /\ chain[att[w]][n] \in {"submitted", "paid"}
       /\ wTx' = [wTx EXCEPT ![w] = n]
  /\ GoTo(w, "late")
  /\ UNCHANGED <<row, place, base, att, blk, wHdr, fallback>>

\* inspectLateX402 on an expired row: the stored transaction, or the one that
\* used the nonce, when it is final and matches.
InspectLate(w) ==
  /\ pc[w] = "inspect"
  /\ \E n \in Txs :
       /\ txHash[att[w]] \in {0, n}
       /\ chain[att[w]][n] = "paid"
       /\ wTx' = [wTx EXCEPT ![w] = n]
  /\ GoTo(w, "late")
  /\ UNCHANGED <<row, place, base, att, blk, wHdr, fallback>>

InspectNothing(w) ==
  /\ pc[w] = "inspect"
  /\ Return(w)
  /\ UNCHANGED <<row, place, base>>

\* appendLateFinalityEvidence takes no lease.
AppendLateFinalityEvidence(w) ==
  LET a == att[w] IN
  /\ pc[w] = "late"
  /\ IF status[a] = "expired" /\ Due(a) /\ txHash[a] \in {0, wTx[w]}
       THEN /\ SetStatus(a, "founder_review")
            /\ txHash' = [txHash EXCEPT ![a] = wTx[w]]
            /\ final' = [final EXCEPT ![a] = TRUE]
            /\ DropLease(a)
       ELSE UNCHANGED <<status, txHash, final, leaseOwner, leaseLeft>>
  /\ Return(w)
  /\ UNCHANGED <<recLeft, hdr, startBlock, place, base>>

-----------------------------------------------------------------------------
(* The environment.                                                         *)

\* The invocation ends before its next step: it crashed, ran out of its 300 s,
\* an await threw, custody was not ready, or it had answered.
Stop(w) ==
  /\ pc[w] # "idle"
  /\ Return(w)
  /\ UNCHANGED <<row, place, base>>

\* USDC honours a nonce at most once: every other transaction reverts.
Finalize(a, n) ==
  /\ chain[a][n] = "submitted"
  /\ \E result \in {"paid", "failed"} :
       /\ result = "paid" => \A m \in Txs : chain[a][m] # "paid"
       /\ chain' = [chain EXCEPT ![a][n] = result]
  /\ UNCHANGED <<row, place, head, pc, local>>

NewBlock ==
  /\ head < MaxBlock
  /\ head' = head + 1
  /\ UNCHANGED <<row, place, chain, pc, local>>

\* Another rail (city credit, a rename) takes the slot.
OtherFounds(s) ==
  /\ place[s] = None
  /\ place' = [place EXCEPT ![s] = Other]
  /\ UNCHANGED <<row, base, pc, local>>

Countdown(f) == [a \in Attempts |-> IF f[a] > 0 THEN f[a] - 1 ELSE f[a]]

Tick ==
  /\ leaseLeft' = Countdown(leaseLeft)
  /\ recLeft' = Countdown(recLeft)
  /\ UNCHANGED <<status, leaseOwner, txHash, final, hdr, startBlock, place, base, pc, local>>

-----------------------------------------------------------------------------
WorkerStep(w) ==
  \/ Lookup(w) \/ Refuse(w) \/ Insert(w) \/ Acquire(w)
  \/ RecoverFound(w) \/ RecoverMissing(w)
  \/ Verify(w) \/ SettleSubmitted(w) \/ SettleNothing(w)
  \/ BindPaymentEvidence(w)
  \/ ClassifyMatched(w) \/ ClassifyFailed(w) \/ ClassifyPending(w)
  \/ ReleaseSettlementLease(w) \/ InvalidatePaymentAttempt(w)
  \/ MarkPaymentAttemptNeedsReview(w)
  \/ CompleteTreasury(w) \/ MarkPaymentAttemptFounderReview(w)
  \/ RecoverPaymentAttempt(w) \/ AcquireDueSettlementLease(w)
  \/ ExpirePaymentAttempt(w) \/ InspectLate(w) \/ InspectNothing(w)
  \/ AppendLateFinalityEvidence(w)

NewRequest(w, a) ==
  PayRequest(w, a) \/ ReplayRequest(w, a) \/ RecheckRequest(w, a) \/ ListRecoverable(w, a)

Environment ==
  \/ \E a \in Attempts, n \in Txs : Finalize(a, n)
  \/ \E s \in Sites : OtherFounds(s)
  \/ NewBlock
  \/ Tick

Next ==
  \/ \E w \in Workers : WorkerStep(w) \/ Stop(w)
  \/ \E w \in Workers, a \in Attempts : NewRequest(w, a)
  \/ Environment

Spec == Init /\ [][Next]_vars

-----------------------------------------------------------------------------
(* Correctness.                                                             *)

Proven(a) == txHash[a] # 0 /\ final[a] /\ chain[a][txHash[a]] = "paid"

\* A paid founding happens exactly when its attempt completes, and it is owed to
\* a finalized payment of that very authorization: an interrupted, raced or
\* resumed completion neither founds without money nor books money without place.
FoundedIffCompleted ==
  /\ \A s \in Sites : place[s] \in Attempts =>
       SiteOf[place[s]] = s /\ status[place[s]] = "completed"
  /\ \A a \in Attempts : status[a] = "completed" =>
       place[SiteOf[a]] = a /\ Proven(a) /\ hdr[a] # "none"

\* The founder is asked to decide only about money that did arrive: founder_review
\* is reached with the finalized matching transaction bound to the row, through
\* whichever of the two completions, the cron or the late recheck got there.
FounderReviewIsProven ==
  \A a \in Attempts : status[a] = "founder_review" => Proven(a)

\* A row is never invalid while the transaction bound to it was paid: a request
\* that lost its lease cannot apply its stale verdict over newer evidence.
BoundPaymentNeverInvalid ==
  \A a \in Attempts : status[a] = "invalid" /\ txHash[a] # 0 =>
    chain[a][txHash[a]] = "failed"

\* Automatic recovery is never cut short: a row expires only after its two hours
\* by the database clock, however wrong the clock of the function is.
ExpiredOnlyWhenDue ==
  \A a \in Attempts : status[a] = "expired" => Due(a)

HolderSees(w) ==
  /\ pc[w] \in {"recover", "verify", "settle"} => txHash[att[w]] = 0
  /\ pc[w] \in {"classify", "bindFinal", "complete", "founder"} => txHash[att[w]] = wTx[w]
  /\ pc[w] \in {"complete", "founder"} => final[att[w]]
  /\ pc[w] = "invalidate" =>
       txHash[att[w]] = 0 \/ chain[att[w]][txHash[att[w]]] = "failed"

\* The lease is what makes a request's copy of the evidence current: a request
\* that still owns its lease and has not found a transaction works on a row without
\* one, one that classifies or completes works with the stored transaction, and one
\* that invalidates does so before any transaction or after that one failed.
LeaseHolderSeesEvidence ==
  \A w \in Workers : pc[w] # "idle" /\ Owns(w, att[w]) => HolderSees(w)

RequestKnows(w) ==
  /\ pc[w] # "idle" => att[w] \in Attempts
  /\ pc[w] \in {"bindPlain", "bindRaw", "classify", "bindFinal", "complete", "founder", "late"} =>
       wTx[w] # 0
  /\ pc[w] \in {"bindFinal", "complete", "founder", "late"} =>
       chain[att[w]][wTx[w]] = "paid"

\* What a request knows by itself, lease or not: the attempt it serves, a hash
\* once it has one, and that Base calls the transaction paid once it said so.
RequestKnowledge == \A w \in Workers : RequestKnows(w)

\* payment_attempts_terminal_lease_clear: a closed row holds no lease.
LeaseOnlyWhileLive ==
  \A a \in Attempts : leaseOwner[a] # None => status[a] \in Live

\* Two live attempts never compete for one target key.
OneLiveAttemptPerTarget ==
  \A a, b \in Attempts :
    a # b /\ KeyOf[a] = KeyOf[b] => ~(status[a] \in Live /\ status[b] \in Live)

\* The inductive invariant: the properties above hold because of what a request
\* knows and of what the lease guarantees about it.
IInv ==
  /\ TypeOK
  /\ RequestKnowledge
  /\ LeaseOnlyWhileLive
  /\ LeaseHolderSeesEvidence
  /\ FoundedIffCompleted
  /\ FounderReviewIsProven
  /\ BoundPaymentNeverInvalid
  /\ ExpiredOnlyWhenDue
  /\ OneLiveAttemptPerTarget

\* What protect_payment_attempt_history defends with an exception is never even
\* tried: a closed attempt keeps its state (expired may still reach the founder),
\* bound evidence never changes and the recovery window never restarts.
HistoryStep ==
  \A a \in Attempts :
    /\ status[a] \in {"completed", "invalid", "founder_review"} => status'[a] = status[a]
    /\ status[a] = "expired" => status'[a] \in {"expired", "founder_review"}
    /\ txHash[a] # 0 => txHash'[a] = txHash[a]
    /\ final[a] => final'[a]
    /\ hdr[a] # "none" => hdr'[a] = hdr[a]
    /\ recLeft[a] # NoWindow => recLeft'[a] \in 0..recLeft[a]

HistoryIsImmutable == [][HistoryStep]_vars

-----------------------------------------------------------------------------
(* Liveness.  Every await has a timeout, so a running invocation takes its   *)
(* next step; the cron is started every five minutes for ever; and neither   *)
(* crashes nor pauses longer than the 30 s lease hit every invocation just   *)
(* before the same statement.                                                *)

StepFairness ==
  \A w \in Workers :
    /\ WF_vars(WorkerStep(w))
    /\ SF_vars(AcquireDueSettlementLease(w))
    /\ SF_vars(ExpirePaymentAttempt(w) /\ Owns(w, att[w]))

CronFairness ==
  \A c \in Crons, a \in Attempts :
    /\ SF_vars(ListRecoverable(c, a))
    /\ SF_vars(RecoverPaymentAttempt(c))

\* A resident keeps rechecking, and now and then one request gets through.
RecheckFairness ==
  \A w \in Workers \ Crons, a \in Attempts :
    /\ SF_vars(RecheckRequest(w, a))
    /\ SF_vars(InspectLate(w))
    /\ SF_vars(AppendLateFinalityEvidence(w))

FairSpec == Spec /\ WF_vars(Tick) /\ StepFairness /\ CronFairness /\ RecheckFairness

\* Recovery is bounded: once the two-hour window runs, the attempt is decided
\* or closed, whatever crashes, lost leases or overlapping requests happen.
RecoveryEnds ==
  \A a \in Attempts :
    status[a] \in Live /\ recLeft[a] # NoWindow ~> status[a] \notin Live

\* Money that reached the treasury under a bound transaction is never lost from
\* sight: it ends as the founded place or in front of the founder.
PaidEvidenceIsDecided ==
  \A a \in Attempts :
    txHash[a] # 0 /\ chain[a][txHash[a]] = "paid"
      ~> status[a] \in {"completed", "founder_review"}

-----------------------------------------------------------------------------
(* What the documentation and the tests say and the code does not do.        *)

\* test/routes-tests/payment-recovery.test.ts: a retry with the same
\* authorization after an interrupted completion is served, not refused.
SameAuthorizationIsServed ==
  \A w \in Workers : pc[w] = "refused" =>
    status[att[w]] \notin Live \cup {"completed"}

\* docs/SYSTEM_DESIGN.md: recheck is accepted for every shape, settling included,
\* and actionable states are checked from their stored terms.
RecheckMovesSettling ==
  \A a \in Attempts :
    status[a] = "settling" /\ (\E n \in Txs : chain[a][n] = "paid")
      ~> status[a] # "settling"

\* docs/INVARIANTS.md, item 9: a settled but unproven payment stays pending and
\* locked until reconciliation decides it.
PaidNeverInvalid ==
  \A a \in Attempts : status[a] = "invalid" => \A n \in Txs : chain[a][n] # "paid"

=============================================================================

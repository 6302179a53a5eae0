---------------------------- MODULE CityCredit -----------------------------
(***************************************************************************)
(* Paying a treasury fee with city fee credit: src/city-credit.ts,          *)
(* city-credit-recovery.ts, the credit branch of payment-recovery*.ts,      *)
(* world-support.ts and the frontier route, and the ledger's functions and  *)
(* triggers in db/schema.sql.                                               *)
(*                                                                          *)
(* A spend is a pair (resident, request id), the key of the unique index    *)
(* city_credit_entries_spend_request; it stands for the credit attempt row  *)
(* and its 'spend' ledger entry, which one statement writes together.  As   *)
(* in PaymentAttempts a worker is one invocation that may die between two   *)
(* statements, and its name serves as its random lease token.               *)
(***************************************************************************)
EXTENDS Integers, FiniteSets

CONSTANTS
  Spends,        \* (resident, request_id)
  Residents,
  ResidentOf,    \* the resident of a spend
  Keys,          \* target_key values a request may carry
  Sites,         \* (parent, lower(name)) slots of places_sibling_name
  SiteOf,        \* the slot that a target founds
  Sources,       \* source_key values of founder issues
  Workers,       \* concurrent invocations
  Crons,         \* the workers that only run the recovery cron
  None,          \* SQL NULL
  Other,         \* a place founded by anything but a spend of this model
  LeaseLength,   \* processing lease, in ticks (30 s in the code)
  Window,        \* recovery window, in ticks (2 h in the code)
  ClockSkew      \* TRUE: the function's clock may disagree with Postgres

ASSUME SpendsAssumption ==
  /\ IsFiniteSet(Spends)
  /\ IsFiniteSet(Sources)
  /\ ResidentOf \in [Spends -> Residents]
  /\ SiteOf \in [Keys -> Sites]

ASSUME NamesAssumption ==
  /\ Crons \subseteq Workers
  /\ None \notin Workers \cup Spends \cup Keys \cup Residents
  /\ Other \notin Spends
  /\ Other # None

ASSUME LengthsAssumption ==
  /\ LeaseLength \in Nat \ {0}
  /\ Window \in Nat \ {0}
  /\ ClockSkew \in BOOLEAN

VARIABLES
  status,        \* payment_attempts.status of each spend, "none" before the row
  key,           \* target_key, the immutable term a retry may get wrong
  leaseOwner,    \* lease_owner
  leaseLeft,     \* ticks until lease_expires_at, 0 once it has passed
  recLeft,       \* ticks until recovery_deadline_at
  reason,        \* why the credit was returned (invalid_reason)
  balance,       \* city_credit_accounts.balance_units, in fees
  issued,        \* who got the credit of each founder issue
  place,         \* who founded each slot
  pc,            \* each worker's program point
  req, wKey,     \* the resident's request: its spend and its target
  att,           \* the attempt the worker works on
  wReason        \* why the worker is about to return it

row == <<status, key, leaseOwner, leaseLeft, recLeft, reason>>
ledger == <<balance, issued>>
local == <<req, wKey, att, wReason>>
vars == <<row, ledger, place, pc, local>>

Charged == {"payment_pending", "completed"}
Reasons == {"none", "deadline", "deadline_passed", "target_changed", "failed"}
Points == {"idle", "begin", "again", "claim", "returnDue", "complete", "giveBack",
           "decide", "acquire"}

\* Types of all variables; the ledger never lets a balance go below zero.
TypeOK ==
  /\ status \in [Spends -> Charged \cup {"none", "credit_returned"}]
  /\ key \in [Spends -> Keys \cup {None}]
  /\ leaseOwner \in [Spends -> Workers \cup {None}]
  /\ leaseLeft \in [Spends -> 0..LeaseLength]
  /\ recLeft \in [Spends -> 0..Window]
  /\ reason \in [Spends -> Reasons]
  /\ balance \in [Residents -> Nat]
  /\ issued \in [Sources -> Residents \cup {None}]
  /\ place \in [Sites -> Spends \cup {None, Other}]
  /\ pc \in [Workers -> Points]
  /\ req \in [Workers -> Spends \cup {None}]
  /\ wKey \in [Workers -> Keys \cup {None}]
  /\ att \in [Workers -> Spends \cup {None}]
  /\ wReason \in [Workers -> Reasons]

Init ==
  /\ status = [c \in Spends |-> "none"]
  /\ key = [c \in Spends |-> None]
  /\ leaseOwner = [c \in Spends |-> None]
  /\ leaseLeft = [c \in Spends |-> 0]
  /\ recLeft = [c \in Spends |-> 0]
  /\ reason = [c \in Spends |-> "none"]
  /\ balance = [x \in Residents |-> 0]
  /\ issued = [i \in Sources |-> None]
  /\ place = [s \in Sites |-> None]
  /\ pc = [w \in Workers |-> "idle"]
  /\ req = [w \in Workers |-> None]
  /\ wKey = [w \in Workers |-> None]
  /\ att = [w \in Workers |-> None]
  /\ wReason = [w \in Workers |-> "none"]

-----------------------------------------------------------------------------
(* Conditions the SQL statements test, and what they write.                 *)

Live(c) == status[c] = "payment_pending"
Due(c) == recLeft[c] = 0
LeaseFree(c) == leaseLeft[c] = 0

\* The worker serves a cron or a recheck, not a resident's request.
Recovering(w) == req[w] = None

GoTo(w, point) == pc' = [pc EXCEPT ![w] = point]

Serve(w, point, c) ==
  /\ GoTo(w, point)
  /\ att' = [att EXCEPT ![w] = c]
  /\ UNCHANGED <<req, wKey, wReason>>

\* The request is answered, fails or dies.
End(w) ==
  /\ GoTo(w, "idle")
  /\ req' = [req EXCEPT ![w] = None]
  /\ wKey' = [wKey EXCEPT ![w] = None]
  /\ att' = [att EXCEPT ![w] = None]
  /\ wReason' = [wReason EXCEPT ![w] = "none"]

TakeLease(w, c) ==
  /\ leaseOwner' = [leaseOwner EXCEPT ![c] = w]
  /\ leaseLeft' = [leaseLeft EXCEPT ![c] = LeaseLength]

DropLease(c) ==
  /\ leaseOwner' = [leaseOwner EXCEPT ![c] = None]
  /\ leaseLeft' = [leaseLeft EXCEPT ![c] = 0]

\* apply_city_credit_entry: the projection follows every ledger entry.
Credit(x) == balance' = [balance EXCEPT ![x] = balance[x] + 1]
Debit(x) == balance' = [balance EXCEPT ![x] = balance[x] - 1]

-----------------------------------------------------------------------------
(* issueCityFeeCredit.  A repeated source key reads the stored entry.       *)

IssueCityFeeCredit(i, x) ==
  /\ issued[i] = None
  /\ issued' = [issued EXCEPT ![i] = x]
  /\ Credit(x)
  /\ UNCHANGED <<row, place, pc, local>>

-----------------------------------------------------------------------------
(* beginCityCreditSpend, called by treasuryFee for the frontier route.      *)

\* A resident sends a request id with a target, perhaps not the original one.
Submit(w, c, k) ==
  /\ pc[w] = "idle" /\ w \notin Crons
  /\ GoTo(w, "begin")
  /\ req' = [req EXCEPT ![w] = c]
  /\ wKey' = [wKey EXCEPT ![w] = k]
  /\ UNCHANGED <<row, ledger, place, att, wReason>>

\* Mutant: only live attempts stand in the way of a new spend on their target.
MutantTargetCandidate(k) == {c \in Spends : key[c] = k /\ Live(c)}

TargetCandidate(k) == {c \in Spends : key[c] = k /\ status[c] \in Charged}

\* request_candidate, else target_candidate.
ExistingCandidate(c, k) == IF status[c] # "none" THEN {c} ELSE TargetCandidate(k)

\* Mutant: the trigger no longer refuses an empty account.
MutantCanPay(x) == TRUE

\* apply_city_credit_entry raises 'insufficient city fee credit' otherwise.
CanPay(x) == balance[x] > 0

\* new_attempt and new_spend.  A concurrent winner on the request id (23505) or
\* on the target (no rows) makes beginCityCreditSpend run the statement again,
\* so the losing statement behaves as one that ran after the winner's.  (A rival
\* that begins and completes within this one statement is outside the model.)
BeginNew(w) ==
  LET c == req[w] IN
  /\ pc[w] \in {"begin", "again"}
  /\ ExistingCandidate(c, wKey[w]) = {}
  /\ IF CanPay(ResidentOf[c])
       THEN /\ status' = [status EXCEPT ![c] = "payment_pending"]
            /\ key' = [key EXCEPT ![c] = wKey[w]]
            /\ recLeft' = [recLeft EXCEPT ![c] = Window]
            /\ TakeLease(w, c)
            /\ Debit(ResidentOf[c])
            /\ Serve(w, "complete", c)
       ELSE /\ End(w)
            /\ UNCHANGED <<status, key, recLeft, leaseOwner, leaseLeft, balance>>
  /\ UNCHANGED <<reason, issued, place>>

\* existing_leased; verifySpendTerms runs only after the lease was taken.
CanLease(c, d) ==
  /\ ResidentOf[d] = ResidentOf[c]
  /\ Live(d) /\ ~Due(d) /\ LeaseFree(d)

SameSpendTerms(w, d) == d = req[w] /\ key[d] = wKey[w]

BeginExisting(w) ==
  /\ pc[w] \in {"begin", "again"}
  /\ \E d \in ExistingCandidate(req[w], wKey[w]) :
       \/ /\ pc[w] = "begin" /\ Live(d) /\ Due(d)       \* recovery_due
          /\ Serve(w, "claim", d)
          /\ UNCHANGED <<leaseOwner, leaseLeft>>
       \/ /\ CanLease(req[w], d)
          /\ TakeLease(w, d)
          /\ IF SameSpendTerms(w, d)                     \* ready
               THEN Serve(w, "complete", d)
               ELSE End(w)
       \/ /\ ~CanLease(req[w], d)                        \* replay, busy, conflict
          /\ ~(pc[w] = "begin" /\ Live(d) /\ Due(d))
          /\ End(w)
          /\ UNCHANGED <<leaseOwner, leaseLeft>>
  /\ UNCHANGED <<status, key, recLeft, reason, ledger, place>>

-----------------------------------------------------------------------------
(* Completion: completeTreasuryPaymentOperation with a credit attempt.      *)

\* Mutant: a completion that founds over an existing place.
MutantFoundsPlace(c) == ~Due(c)

\* eligible_attempt, and INSERT INTO places ... ON CONFLICT DO NOTHING.
FoundsPlace(c) == ~Due(c) /\ place[SiteOf[key[c]]] = None

OwnedAttempt(w, c) == Live(c) /\ leaseOwner[c] = w

\* complete_city_credit_attempt in the statement that founds the place.  The
\* answer may be lost: the route then tries to return the fee, the cron only
\* counts a failure.
CompleteCredit(w) ==
  LET c == att[w] IN
  /\ pc[w] = "complete"
  /\ OwnedAttempt(w, c) /\ FoundsPlace(c)
  /\ status' = [status EXCEPT ![c] = "completed"]
  /\ place' = [place EXCEPT ![SiteOf[key[c]]] = c]
  /\ DropLease(c)
  /\ \/ End(w)
     \/ /\ ~Recovering(w)
        /\ GoTo(w, "giveBack")
        /\ wReason' = [wReason EXCEPT ![w] = "failed"]
        /\ UNCHANGED <<req, wKey, att>>
  /\ UNCHANGED <<key, recLeft, reason, ledger>>

\* deadline_passed and target_changed are answers: everybody returns the credit.
CompleteNoEffect(w) ==
  LET c == att[w] IN
  /\ pc[w] = "complete"
  /\ OwnedAttempt(w, c) /\ ~FoundsPlace(c)
  /\ GoTo(w, "giveBack")
  /\ wReason' = [wReason EXCEPT ![w] = IF Due(c) THEN "deadline_passed" ELSE "target_changed"]
  /\ UNCHANGED <<row, ledger, place, req, wKey, att>>

\* The statement failed, or it found that the lease is gone.
CompleteThrows(w) ==
  /\ pc[w] = "complete"
  /\ IF Recovering(w)
       THEN End(w)
       ELSE /\ GoTo(w, "giveBack")
            /\ wReason' = [wReason EXCEPT ![w] = "failed"]
            /\ UNCHANGED <<req, wKey, att>>
  /\ UNCHANGED <<row, ledger, place>>

-----------------------------------------------------------------------------
(* Returns: return_city_credit_spend and what leads to it.                  *)

\* Mutant: the return asks neither the status of the row nor its lease.
MutantCanReturn(w, c) == status[c] # "none"

\* The row is live and the caller holds its lease; the deadline is not asked.
CanReturn(w, c) == Live(c) /\ leaseOwner[c] = w

ReturnSpend(c, why) ==
  /\ status' = [status EXCEPT ![c] = "credit_returned"]
  /\ reason' = [reason EXCEPT ![c] = why]
  /\ DropLease(c)
  /\ Credit(ResidentOf[c])
  /\ UNCHANGED <<key, recLeft, issued, place>>

\* returnFailedTreasuryFee, and returnExpiredCredit with the lease of the batch.
\* Anything but a live row under this lease raises, or replays the stored return.
GiveBack(w) ==
  /\ pc[w] = "giveBack"
  /\ IF CanReturn(w, att[w])
       THEN ReturnSpend(att[w], wReason[w])
       ELSE UNCHANGED <<row, ledger, place>>
  /\ End(w)

\* Mutant: the claim trusts the clock of the function.
MutantCanClaim(c) == Live(c) /\ LeaseFree(c)

\* Mutant: a lease that ran out still counts until somebody clears it.
MutantClaimUnowned(c) == Live(c) /\ Due(c) /\ leaseOwner[c] = None

\* claim-expired-spend, with a lease token nobody has used before.
CanClaim(c) == Live(c) /\ Due(c) /\ LeaseFree(c)

\* returnExpiredCityCreditSpend, first statement: ready, or credit_returned,
\* unavailable (completed meanwhile), busy, not_due.
ClaimExpired(w) ==
  LET c == att[w] IN
  /\ pc[w] = "claim"
  /\ \/ /\ CanClaim(c)
        /\ TakeLease(w, c)
        /\ GoTo(w, "returnDue")
        /\ UNCHANGED local
     \/ /\ ~CanClaim(c) /\ ~Live(c) /\ ~Recovering(w)
        /\ GoTo(w, "again")
        /\ UNCHANGED <<leaseOwner, leaseLeft, local>>
     \/ /\ ~CanClaim(c) /\ (Live(c) \/ Recovering(w))
        /\ End(w)
        /\ UNCHANGED <<leaseOwner, leaseLeft>>
  /\ UNCHANGED <<status, key, recLeft, reason, ledger, place>>

\* Its second statement.  Found returned already, the row must carry the very
\* same terms; the resident's request then reads the target again.
ReturnExpired(w) ==
  LET c == att[w]
      replayed == status[c] = "credit_returned" /\ reason[c] = "deadline"
  IN
  /\ pc[w] = "returnDue"
  /\ IF CanReturn(w, c)
       THEN ReturnSpend(c, "deadline")
       ELSE UNCHANGED <<row, ledger, place>>
  /\ IF ~Recovering(w) /\ (CanReturn(w, c) \/ replayed)
       THEN GoTo(w, "again") /\ UNCHANGED local
       ELSE End(w)

-----------------------------------------------------------------------------
(* The recovery cron and the recheck route, for a credit attempt.           *)

ListRecoverable(w, c) ==
  /\ pc[w] = "idle" /\ w \in Crons
  /\ Live(c) /\ LeaseFree(c)
  /\ Serve(w, "decide", c)
  /\ UNCHANGED <<row, ledger, place>>

\* The recheck route reads the row of its resident, leased or not.
RecheckRequest(w, c) ==
  /\ pc[w] = "idle" /\ w \notin Crons
  /\ Live(c)
  /\ Serve(w, "decide", c)
  /\ UNCHANGED <<row, ledger, place>>

\* recoverPaymentAttempt compares the stored deadline with the function's clock.
RecoverPaymentAttempt(w) ==
  /\ pc[w] = "decide"
  /\ \E next \in {"claim", "acquire"} :
       /\ ClockSkew \/ (next = "claim" <=> Due(att[w]))
       /\ GoTo(w, next)
  /\ UNCHANGED <<row, ledger, place, local>>

\* acquireCredit: acquireSettlementLease, which does not ask the deadline.
AcquireCredit(w) ==
  LET c == att[w] IN
  /\ pc[w] = "acquire"
  /\ IF Live(c) /\ LeaseFree(c)
       THEN TakeLease(w, c) /\ GoTo(w, "complete") /\ UNCHANGED local
       ELSE End(w) /\ UNCHANGED <<leaseOwner, leaseLeft>>
  /\ UNCHANGED <<status, key, recLeft, reason, ledger, place>>

-----------------------------------------------------------------------------
(* The surroundings.                                                        *)

\* An invocation dies, or an answer it waits for is lost.
Stop(w) ==
  /\ pc[w] # "idle"
  /\ End(w)
  /\ UNCHANGED <<row, ledger, place>>

OtherFounds(s) ==
  /\ place[s] = None
  /\ place' = [place EXCEPT ![s] = Other]
  /\ UNCHANGED <<row, ledger, pc, local>>

Countdown(f) == [c \in Spends |-> IF f[c] > 0 THEN f[c] - 1 ELSE f[c]]

Tick ==
  /\ leaseLeft' = Countdown(leaseLeft)
  /\ recLeft' = Countdown(recLeft)
  /\ UNCHANGED <<status, key, leaseOwner, reason, ledger, place, pc, local>>

-----------------------------------------------------------------------------
WorkerStep(w) ==
  \/ BeginNew(w) \/ BeginExisting(w)
  \/ CompleteCredit(w) \/ CompleteNoEffect(w) \/ CompleteThrows(w)
  \/ GiveBack(w) \/ ClaimExpired(w) \/ ReturnExpired(w)
  \/ RecoverPaymentAttempt(w) \/ AcquireCredit(w)

Next ==
  \/ \E i \in Sources, x \in Residents : IssueCityFeeCredit(i, x)
  \/ \E w \in Workers : WorkerStep(w) \/ Stop(w)
  \/ \E w \in Workers, c \in Spends, k \in Keys : Submit(w, c, k)
  \/ \E w \in Workers, c \in Spends : ListRecoverable(w, c) \/ RecheckRequest(w, c)
  \/ \E s \in Sites : OtherFounds(s)
  \/ Tick

Spec == Init /\ [][Next]_vars

-----------------------------------------------------------------------------
(* Correctness.                                                             *)

ChargedTo(x) == {c \in Spends : ResidentOf[c] = x /\ status[c] \in Charged}
IssuedTo(x) == {i \in Sources : issued[i] = x}

\* No credit is lost and none is made up: what a resident was issued is in the
\* balance, held by a live spend or paid for a place, whatever replay, lost
\* answer, crash or expired lease the spends went through.
CreditConserved ==
  \A x \in Residents :
    balance[x] + Cardinality(ChargedTo(x)) = Cardinality(IssuedTo(x))

\* A place stands exactly when its spend completed: a lost completion answer never
\* gives the fee back for a place that stands, a return never leaves one behind.
PlaceIffCompleted ==
  /\ \A s \in Sites : place[s] \in Spends =>
       status[place[s]] = "completed" /\ SiteOf[key[place[s]]] = s
  /\ \A c \in Spends : status[c] = "completed" => place[SiteOf[key[c]]] = c

\* One target is paid for once: two request ids for one target, of one resident
\* or of two, never both hold or cost a credit.
OneChargePerTarget ==
  \A c, d \in Spends :
    status[c] \in Charged /\ status[d] \in Charged /\ key[c] = key[d] => c = d

\* A resident is told that the deadline closed a spend only when it did, by the
\* database clock, also after the verdict was carried from one statement to the next.
DeadlineReturnIsDue ==
  \A c \in Spends : reason[c] \in {"deadline", "deadline_passed"} => Due(c)

Knows(w) ==
  /\ pc[w] \in {"idle", "decide", "acquire"} => Recovering(w)
  /\ pc[w] \in {"begin", "again"} => ~Recovering(w)
  /\ ~Recovering(w) => wKey[w] \in Keys
  /\ pc[w] \notin {"idle", "begin", "again"} => att[w] \in Spends /\ status[att[w]] # "none"
  /\ pc[w] = "returnDue" => Due(att[w])
  /\ pc[w] # "giveBack" => wReason[w] = "none"
  /\ pc[w] = "giveBack" => wReason[w] # "deadline" /\ (wReason[w] = "deadline_passed" => Due(att[w]))

RowsMatch ==
  \A c \in Spends :
    /\ status[c] # "none" <=> key[c] \in Keys
    /\ leaseOwner[c] # None => Live(c)
    /\ status[c] # "credit_returned" => reason[c] = "none"

\* The inductive invariant: the properties rest on what a request knows about the
\* spend it serves and on the row, its terms and its lease being written together.
IInv ==
  /\ TypeOK
  /\ \A w \in Workers : Knows(w)
  /\ RowsMatch
  /\ CreditConserved
  /\ PlaceIffCompleted
  /\ OneChargePerTarget
  /\ DeadlineReturnIsDue

FateOf(s) ==
  CASE s = "none" -> "none" [] s = "payment_pending" -> "held"
    [] s = "completed" -> "spent" [] s = "credit_returned" -> "back"

Promise == INSTANCE FeeCredit WITH
  purse <- balance, fate <- [c \in Spends |-> FateOf(status[c])], built <- place

\* The ledger, with its leases, retries and two-statement returns, does what fee
\* credit promises: hold one credit, then spend it on one place or give it back.
KeepsPromise == Promise!Spec

-----------------------------------------------------------------------------
(* Liveness, with the fairness of PaymentAttempts: an invocation goes on     *)
(* because its awaits time out, the cron is started for ever, and not every  *)
(* invocation dies or is overtaken before the same statement.                *)

FairSpec ==
  /\ Spec
  /\ WF_vars(Tick)
  /\ \A w \in Workers :
       /\ WF_vars(WorkerStep(w))
       /\ SF_vars(ReturnExpired(w) /\ CanReturn(w, att[w]))
  /\ \A w \in Crons :
       /\ \A c \in Spends : SF_vars(ListRecoverable(w, c))
       /\ SF_vars(RecoverPaymentAttempt(w))
       /\ SF_vars(ClaimExpired(w))

\* No credit stays held: every spend ends with its place or back in the balance,
\* although the resident may never come back.
SpendSettles ==
  \A c \in Spends : Live(c) ~> ~Live(c)

=============================================================================

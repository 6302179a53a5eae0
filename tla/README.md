# A verification of the 1F3D9 city server

This directory holds TLA+ models of the parts of the city server (`src/src`,
`src/db/schema.sql`) whose correctness depends on the order in which requests,
crashes and outside events happen, the TLC configurations that check small
instances of them, and machine-checked proofs, for every instance, of what is
checked: the two ledgers through which money moves, identity, sales and land, and
talking and waiting in a room.

Sixteen modules model the code, in five areas. Each area has an MC module that
instantiates its components:

| area | modules | MC module, configurations |
|---|---|---|
| payments | `PaymentAttempts`, proofs | `MCPaymentAttempts`: `PaymentOne`, `PaymentRace`, `PaymentLive`, `PaymentRetry`, `PaymentRecheck`, `PaymentStale` |
| credit | `FeeCredit` (the promise), `CityCredit`, proofs | `MCCityCredit`: `Credit`, `CreditLive` |
| identity | `OAuthTokens`, `ResidentKeys`, `IdentityLocks`, `Registration`, proofs | `MCIdentity`: `Identity`; `MCResidentKeys`: `KeysRace` |
| market and land | `CreditGifts`, `PayPalOrders`, `WorldSales`, `WorldMoves`, proofs | `MCMarket`: `Market` |
| rooms | `RoomWaits`, `PingRules`, `TalkRequests`, `WakeSettling`, `DueTimers`, `ShowingRoom`, proofs | `MCRooms`: `Rooms` |

## 1. The system

The server is a set of stateless serverless functions over one Postgres
database. A request is served by one invocation, which lives at most 300 s
(`vercel.json`) and may die between any two awaits. There are no sessions and no
memory between requests: all coordination is done by SQL statements, by leases
stored in rows, and by unique indexes and triggers. A cron starts the payment
recovery every five minutes. Outside parties are the x402 facilitator, a Base
node, PayPal and the clients.

| component | state | operations | what makes it correct |
|---|---|---|---|
| x402 payments (`payment-attempts`, `payment-flow`, `payment-recovery*`, `payment-treasury-operations`) | `payment_attempts` rows, `places`, `payment_uses` | pay, replay, recheck, cron; lease, bind, classify, complete, expire, review | paid and founded agree; one live attempt per target; bound evidence and closed rows never change; recovery ends |
| facilitator, Base (`pay`, `chain`) | transactions, nonces, head | verify, settle, receipt, nonce search | outside; a nonce is honoured once |
| sales (`payment-sale-operations`, `world-market`) | offers, reservations, parked payments | offer, reserve, park, complete, close | an asset changes hands once, and only with its payment |
| credit ledger (`city-credit`, `city-credit-recovery`) | accounts, entries, credit attempts | issue, spend, complete, return | balance is the sum of entries and never negative; a spend is completed or returned, once |
| purchases and gifts (`city-credit-purchase`, `prepaid-credit`, `credit-gift-redirect`) | purchase attempts, gifts | buy, give, accept, refuse, redirect | a purchase is credited once, to the buyer or the recipient |
| PayPal (`paypal-credit*`) | intents, deliveries, disputes | order, capture, webhook, dispute | one capture gives one credit, whatever is repeated |
| OAuth (`oauth`, `oauth-store`) | codes, token families, tokens | authorize, exchange, rotate, revoke | a refresh token works once; reuse ends the family |
| keys (`identity-store`, `identity-browser`, `pair`) | root key, code sets, staged rotations, pairing codes | generate, stage, confirm, recover, pair, approve | a key change is one change and ends what the old key granted; nobody waits for ever |
| registration (`identity-store`, `oauth-store`) | staged requests, residents, ids | stage, cancel, confirm, repeat | one request makes one resident; what a door was told stays true |
| world (`world`, `place-lifecycle*`, `society`, `agreement-action`, `waiting-transfers`, `later-holder`) | places, things, presence, agreements | build, move, give, rename, retire | retired land is empty; luggage stays with its holder; an answer is true; rows are locked in one order |
| engine (`engine*`, `physics`, `laws`, `crafting`) | things, traits, wake claims, timers | act, settle a room, schedule, resolve | an owed try or timer runs at most once; a settle reports what happened |
| room talk (`room-line`, `room-ping`, `room-wait`) | lines, pings, wait leases | say, ping, wait, release | nothing is lost between two cursors; an old wait never ends a newer one; a request id acts once |
| showing room, gazette (`showing-room-*`, `gazette-*`) | questions, runs, notes, awards | note, close a slot, queue, pause | a question closes once, over all its notes, and pays once |
| reads, pages, MCP, drawings | none of their own | | read only, or data validation |

Components meet in the payment attempt: the treasury fees, the sales, the credit
ledger and the credit purchase are all operations that complete one, inside one
SQL statement that checks the lease, applies the effect and closes the row.

What is hard here: an invocation that loses its 30 s lease and goes on; a crash
between an outside effect and the row that records it; two requests that look
at a target before either writes; the deadline passing between two tests, by
two clocks; answers that are lost and requests that are repeated.
`PROJECT.json` lists each such hazard at its line.

## 2. PaymentAttempts

`PaymentAttempts.tla` models the durable x402 payment of a treasury fee, taken
from the founding of a frontier place.

**State.** `status`, `leaseOwner`, `leaseLeft`, `recLeft`, `txHash`, `final`,
`hdr` and `startBlock` are the columns of a `payment_attempts` row; `place` is
the slot guarded by the index `places_sibling_name`; `chain` and `head` are Base;
`pc`, `att`, `blk`, `wTx`, `wHdr` and `fallback` are what an invocation holds
between two awaits. Times are kept as ticks that remain, so that the state space
is finite: `leaseLeft` until `lease_expires_at`, `recLeft` until
`recovery_deadline_at`.

**Steps.** Each SQL statement is one step, and so is each call to the facilitator
or to Base; between two steps everything else may happen, and the invocation may
end (`Stop`). An operation made of two statements (`createOrReadPaymentAttempt`,
the lookup and the insert) is two steps. `bindPaymentEvidence` and the read that
follows an update which touched no row are one step: the read only decides what
that request does next.

| action | code |
|---|---|
| `PayRequest`, `Lookup`, `Insert`, `Refuse` | the head of `runDurableX402`, `createOrReadPaymentAttempt` |
| `ReplayRequest` | `replayTreasuryFee`, `findReplayableTargetPaymentAttempt` |
| `RecheckRequest`, `ListRecoverable`, `RecoverPaymentAttempt` | recheck route, recovery cron, `recoverPaymentAttempt` |
| `Acquire`, `AcquireDueSettlementLease`, `ReleaseSettlementLease` | the lease statements |
| `RecoverFound/Missing`, `Verify`, `Settle*`, `Classify*` | answers of Base and of the facilitator |
| `BindPaymentEvidence`, `InvalidatePaymentAttempt`, `MarkPaymentAttemptNeedsReview`, `MarkPaymentAttemptFounderReview`, `ExpirePaymentAttempt` | the statements of the same names |
| `CompleteTreasury` | the completion statement, with the place, the payment use and the row |
| `InspectLate`, `InspectNothing`, `AppendLateFinalityEvidence` | a recheck of an expired row |
| `Stop`, `Finalize`, `NewBlock`, `OtherFounds`, `Tick` | the host, Base, other writers, the clock |

**Abstractions.** An attempt is one authorization (nonce, header) together with
the request it was signed for. "failed" is a finalized transaction that reverted
or does not match the stored terms or time window. A header is `raw` (the
facilitator's own answer) or `canon` (the one built from hash and payer), because
only their difference matters to the conflict test. The worker's name is its
lease token. Validation of JSON shapes and hashes is left out: the requests of
the model are well formed. The treasury operations other than `frontier` write
another row in the same statement and are not distinguished.

**Runs.**

- `one` (1 attempt, up to 2 settlement transactions, 2 invocations, all kinds of
  request, lease 1, window 1, 2 blocks, skewed clock): the safety properties. Two
  invocations are what every hazard of the list needs, one to act and one to
  overtake it; with a lease of 1 a lease runs out before, at and after the
  deadline; the second block makes a repeated request differ from the first; the
  second transaction is a second settlement of one nonce. The proofs cover every
  other window and lease.
- `race` (2 attempts on one key and one slot, 2 invocations that pay): the target
  races. Larger instances, several keys for a slot included, are covered by the
  proofs.
- `live` (one resident and the cron, under `FairSpec`): recovery ends, and paid
  bound evidence is decided.
- `retry`, `recheck`, `stale`: three statements of the documentation and the tests
  that the code does not keep; see `findings` in `PROJECT.json`.

**Fairness.** An invocation takes its next step because every await has a
timeout (8 s facilitator, 4 s Base); the clock runs; the cron is started for
ever. Strong fairness on the statements of the closing path says that not every
invocation dies, or is overtaken, right before the same statement. The resident
who rechecks an expired row is assumed only for `PaidEvidenceIsDecided`: the
code offers late finality to explicit rechecks alone, so without one an expired
paid row stays expired.

**Proofs** (`PaymentAttemptsProofs.tla`, every leaf checked by TLAPS). From the
three assumptions on the constants, and for any number of attempts, keys, sites
and invocations: `Invariant`, `TypeCorrect`, `Founding`, `FounderReview`,
`NoStaleVerdict`, `FullWindow`, `OneLive` and `History`. None of the properties is
inductive by itself. The strengthening `IInv` adds two parts: `RequestKnowledge`,
what a request knows by itself (it has a hash, and Base said that it is paid), and
`LeaseHolderSeesEvidence`, what the lease adds: a request that still holds its
lease works with the transaction the row holds. That second part is why a verdict
applied under the lease is never stale, and why a statement that does not ask for
the lease token has to repeat its test. The proof has a few lemmas on the shape of
a step (a row closes, a row moves, a request returns), one lemma per action, and
`NextInv`.

## 3. FeeCredit and CityCredit

A treasury fee may be paid with city fee credit instead of x402. `FeeCredit.tla`
is the promise made to a resident, in five actions: a credit is granted, a spend
takes one out of the purse and holds it, and the held credit is spent on one
founded place or given back, once; places may also appear without it.
`CityCredit.tla` is the code that keeps the promise.

**State.** A spend is a (resident, request id) pair, the key of
`city_credit_entries_spend_request`. `status`, `key`, `leaseOwner`, `leaseLeft`,
`recLeft` and `reason` are its attempt row; `balance` is `city_credit_accounts`,
`issued` the `founder_issue` entries by source key, `place` who founded a slot of
`places_sibling_name`. The ledger entries themselves need no variable: a spend
entry exists when `status` is not "none", its return entry when it is
"credit_returned", because one statement writes each pair. `pc`, `req`, `wKey`,
`att` and `wReason` are an invocation between two statements; `req` is NULL in the
cron and in a recheck.

| action | code |
|---|---|
| `IssueCityFeeCredit` | `issueCityFeeCredit`; a repeated source key changes nothing |
| `Submit`, `BeginNew`, `BeginExisting` | the frontier route, `treasuryFee`, `beginCityCreditSpend`, `executeBeginSpend` |
| `CompleteCredit`, `CompleteNoEffect`, `CompleteThrows` | `completeTreasuryPaymentOperation` with a credit attempt: committed (its answer perhaps lost), `deadline_passed` or `target_changed`, failed or the lease gone |
| `GiveBack` | `returnFailedTreasuryFee`; `returnExpiredCredit` with the lease of the batch |
| `ClaimExpired`, `ReturnExpired` | the two statements of `returnExpiredCityCreditSpend` |
| `ListRecoverable`, `RecheckRequest`, `RecoverPaymentAttempt`, `AcquireCredit` | cron, recheck route, `recoverPaymentAttempt`, `acquireCredit` |
| `Stop`, `OtherFounds`, `Tick` | the host, other writers of places, the clock |

**Abstractions.** Every fee is one credit, so balances count fees. The target key is the
immutable term that a repeated request may get wrong; the other terms `verifySpendTerms`
compares behave like it. A resident may send any request id with any target. A statement
is one step, also the large one of `executeBeginSpend`: a rival that begins and
completes while that statement runs is outside the model. The slot of a founded place is
not freed again (retiring and renaming are later components). `return_city_credit_spend`
refuses a second return with other terms; as only the deadline return has constant
terms, the model compares reasons.

**Runs.**

- `credit` (2 residents, 2 request ids, 2 targets for one slot, 2 credits,
  2 invocations that spend, replay and recheck, skewed clock): conservation, place
  and charge, deadline, one charge per target, and the refinement of `FeeCredit`.
  Two targets for one slot let a charged spend lose its place to another; two
  credits let both be charged.
- `credit_live` (one resident, the cron, `FairSpec`): no credit stays held.

**Fairness** as above: invocations go on, the clock runs, the cron is started for
ever and reaches each row, and the closing path is not cut off for ever before the
same statement. The resident is not assumed to come back.

**Proofs** (`CityCreditProofs.tla`), from `SpendsAssumption` (finitely many spends
and issues, total maps), `NamesAssumption` and `LengthsAssumption`:
`CreditInvariant`, `CreditTypes`, `NoCreditLost`, `PlacesArePaid`,
`TargetsChargedOnce`, `DeadlineReturnsAreDue`, and `ImplementsPromise`, the
refinement. `IInv` adds to the properties what an invocation knows (`Knows`: the row
it works on exists, and a carried verdict "the deadline passed" stays true, since
deadlines never move back) and how the columns of a row belong together
(`RowsMatch`). Conservation is a cardinality argument: a spend adds one element to
the charged set of its resident and takes one from the balance, a return does the
opposite, a completion keeps the set. A return cannot undo a completed spend because
both ask for a live row under the caller's lease, in the statement that changes it.
For the refinement, a step is a `Grant`, `Hold`, `Spend`, `GiveBack`, `OtherBuilds`
or leaves balance, status and place alone.

The inductive invariants `IInv` of both modules are proved, so no run repeats them.

## 4. The area runs

The components of sections 5 to 7 share no state inside their area. Each area has one
run, in which the variable `part` chooses at the start which instance of which component
moves; the variables of the others hold `None`. A property of an MC module is the
property of the same name of its component, guarded by `part`; five are the conjunction
of two or more: `SoldAsPaid` (with `PaidKeepsTarget`), `LeaseIsTrue`
(`NewestKeepsLease`, `CueIsTrue`), `OwedOnce` (with `TimerRunsOnce`), `TalkIsExact`
(`RequestOnce`, `QuotaExact`) and `RegistrationIsExact` (with `AnswersAgree`).

`MarketSpec` and `RoomsSpec` have no limit but the bounds of their components, which are
constants, and the theorems are about them. TLC would not finish on all of their
combinations, so the runs `market` and `rooms` check `FewMarketSpec` and `FewRoomsSpec`,
whose steps are those of `MarketSpec` and `RoomsSpec` in certain cases: in each, one
hazard happens and what it does not need is small, as a comment above it says
(`RunIsPart` proves that these are behaviours of the general specification).

Every Postgres statement is a step; one that others can overlap and whose snapshot
matters is two: the step that takes its READ COMMITTED snapshot, and the step that reads
again the rows it locks and commits. Statements that hold one advisory lock from their
first read to their commit are one step.

Symmetry is used where the values are exchanged by every definition: invocations,
residents of a gift, confirmers. In `MCRooms` the processes, residents and texts of
an instance are one set `Twins`, so that one permutation serves every part. No
liveness is checked under symmetry.

`Market` and `Rooms` say `CHECK_DEADLOCK FALSE`: their clocks and counters are
bounded, so a behaviour ends when all bounds are used up.

## 5. Identity

**OAuthTokens** (`oauth.ts`, `oauth-store.ts`). A family is the code it came from,
a pair of tokens its serial number. Four requests exchange, refresh, present used
tokens, revoke and open the city; rows are pruned; the two throttles count. The
advisory lock of a rotation ends with its statement, so the revocation that follows
a detected reuse is a later statement and may meet a rotation. `OneRotationChain`:
one refresh token of a family can still be rotated, and pruning leaves no dangling
link, which the foreign key would refuse together with every admission.
`ExactRevocation`: once answered, a revocation lasts; it needs the client's wish or
one token in two requests; and a replay is never answered "try again later".

**ResidentKeys** (`identity-store.ts`, `oauth-store.ts`). Keys are numbered; code
sets carry their generation; a staged rotation remembers what it was made under.
`KeyChangeIsOne` is checked with overlapping statements: of two stages confirmed at
once one wins, the code set that counts is complete, and the day's limit holds
although it is counted in a snapshot. `NoGrantOfOldKey` holds one statement at a
time, a crash between the key change and the invalidation of pairing codes
included. With overlapping statements it does not: run `keys_race` shows an
approval that read the old key and commits after the change (finding). An
approval by pairing code compares the code's key with the resident's in its snapshot
too, so the same overlap is open to it.

**IdentityLocks**: the row locks behind a key change. A confirmation locks its own
stage, the resident and its siblings; a new code set locks the resident first. They can
deadlock, Postgres aborts one of them (40P01) and a confirmation is tried once more, and
may then be aborted a second time by a third one, which the route answers as an
unexpected error. `OneConfirmationWins`: with three confirmations and a code set at most
one changes the key, somebody can always go on, and when all have ended one has won.

**Registration**: stage, cancel, confirm and repeat through the first-party and the
hosted door, for three requests and two names. A staged name is not reserved: the
unique constraint decides and the loser is undone together with the number it drew.
`RegistrationIsExact`: requests and residents match one to one, numbers have no gap
but 4. `AnswersAgree`: who is told "taken" can confirm nothing any more, and
overlapping confirmations of one request agree.

**Bounds** of `identity`: one family with four pairs (a rotation, its rival, the
reuse and what follows); two overlapping statements for the keys, because every rule
of a key change relates two; three requests for two names, so that a name is
contested while another is free.

**Proofs** (`IdentityProofs.tla`, `ResidentKeysProofs.tla`): all seven invariants of
the `identity` run, type correctness included. `IdentityInv` is one invariant per
part; what each adds to the property it serves:

- `TokenInv`: pairs are issued in order, links go back inside a family, what is pruned
  is retired and its successor no longer points at it. Pruning takes the newest retired
  rows of a batch, so that a batch never leaves an older row unpruned behind a newer one
  it links to (`NewestFirst`, by cardinality). A request that saw a replay is on the way
  to the revocation (`ReplayGoesOn`), which is what makes the answer "reused" true.
- `KeysInv` (of `ResidentKeys`, for any constants, used for both instances): every
  generation ends by one change; an open confirmation whose generation still stands has
  counted the rotations of the day freshly (`CountIsFresh`), hence the daily limit holds
  although the count comes from a snapshot; and one statement at a time, what a statement
  saw is what is there when it commits (`SeesNow`), which gives `NoGrantOfOldKey`.
- `DoorInv`: numbers are given once and counted (`NumbersCounted`), and what a
  confirmation saw stays so (`ConfirmFollows`): a name once taken is never free again.
- `LockInv`: the queue is exactly who waits for the resident row, whoever holds a row
  goes on, and the first to win leaves no staged row (`WonIsOver`). "Somebody can go on"
  is stated with the named guards of the steps (`Ready`), since `ENABLED` is out of reach.

The assumptions: finitely many requests, stages and code sets; the two doors have
different requests; `None` names nothing. `Settled` is the number of residents before
the first modelled one, any natural number, so the skipped number 4 may fall anywhere.

## 6. Market and land

**CreditGifts** (`deliver_paypal_credit`, `apply_paypal_credit_dispute`,
`reconcile_paypal_credit_dispute`, `resolve_paypal_credit_dispute_review`,
`prepaid-credit.ts`). Disputes arrive repeated, in any order, before or after their
capture. `GiftFollowsDisputes`: a gift under an open or undecided dispute cannot be
accepted or redirected, one that no such dispute is about is not held back, and one
not yet accepted is revoked exactly when a dispute over it was lost. The deferred
trigger `require_city_credit_gift_purchase` asks part of this at commit; it is not a
guard of the model, so the invariant shows that it never fires. `DisputeAccounted`:
every event and review has one receipt per purchase, whichever came first. The final
state may depend on the order of delivery: a dispute resolved against the city at
time 1 stays so when an update of time 2 follows, and ends open when the update came
first. The properties are stated so that both are allowed, because the code decides
by arrival.

**PayPalOrders** (routes, store, webhook). Two handlers, a PayPal that answers a
repeated request id with the same order or has forgotten it, lost answers, repeated
webhooks, an order and a weekly subscription. `ChargedAsOffered`: an intent is
charged through one order, the attached one, so that every charge is credited or
still can be; and a gift is charged only when the buyer holds its claim key.

**WorldSales** (`world-market.ts`, `society.ts`, `payment-sale-operation*.ts`, the
triggers of `transfer_offers`). The payment is `PaymentAttempts` reduced to what a
sale sees. Parking is the one statement of two steps: its check of the attempt
precedes its commit, with the row of the offer locked in between; a parking that
commits beside an invalidation stays shown as pending until it is synchronized. A
claim inserts its attempt from a reservation read earlier without reading the offer
again, so a payment can reach an offer that was closed meanwhile; it then ends with
the founder or as invalid and never changes ownership. `PaidKeepsTarget`: from the
moment money moves inside a reservation until the attempt ends, the offer stays
open, the buyer's, and the thing stays the seller's and locked. `SoldAsPaid`: a
claimed offer has one completed attempt, of its buyer, paid in time, and the lock of
the thing, the offer and the evidence agree. A buyer keeps one wallet over his
direct reservations, and `needs_review` is counted as settling.

**WorldMoves** (`engine.ts`, `engine-place-plan.ts`, `engine-effects.ts`,
`place-lifecycle-operation.ts`, `actions.ts`, `society.ts`, `withdrawal.ts`,
`thing-making.ts`, `world.ts`, triggers on `places`, `things` and
`resident_presence`). Sixteen calls: move with or without luggage, go home, move or
send home another resident (what a recipe does to others), give a place with all
that is in it, hand one over by an effect, give, make and withdraw a thing, set a
home, build, open, close, hinge, retire and restore. A call is one transaction that
takes its row locks one step at a time: the acting resident, the planned rooms from the
top of the tree down, the actor's presence, then other presences and things. It is
admitted from what its route read outside the transaction, plans with what it reads
once it holds the resident, and checks again under the locks; its writes, with those
of the triggers, become visible at its commit. All room locks are exclusive, as
`FOR NO KEY UPDATE` is among callers. An active block ends an action right after the
resident's row, except `go_home`. When the answer of COMMIT is lost the transaction
was kept, was undone, or is still in doubt with its locks held; an action then reads
its resolution, or inserts a failure that the unique index makes wait.

`RetiredIsEmpty`: a place that is retired, or not built, has nobody in it, no active
thing, no active place and nobody's home, whatever arrived while it was retired.
`LuggageFollows`: a held thing is its holder's, lies where the holder stands, and is
let go as soon as the place permits it, although places open and change owner while
it is carried. `AnswerIsTrue`: what an action is told is what happened, and what is
told to have failed can no longer happen. `OneLockOrder`: two calls wait for each
other only where one of them asks for the presence of another resident, after its
rooms and its own presence. The exception is one that `docs/TASKS.md` lists, and it
happens in the run: two residents without a home, in different rooms, each use a
thing that moves the other, hold their own presence and wait for the other's.
PostgreSQL ends one of them (`Victim`), which is answered as a failure. The other
exceptions listed there need laws, front matter or reaches, which are left out.

Left out: laws and the other effects of recipes, offers and holds, names and
renaming, room 454, transfers that wait for their recipient, agreements. The payment
of a retirement is `CityCredit`.

A sale's facilitator answers, and the verdict on the answer, are one step under the
lease (`settle`): that a verdict may be stale after a lost lease is a matter of
`PaymentAttempts`, which has it, and of its run `stale`.

**Bounds** of `market`, with the cases of `FewMarketSpec`. Gifts: two disputes over one
gift, with three events in any order, or one dispute of two events over two purchases of
one buyer, because the rules relate two. Sales, of two offers, attempts and reservations
at most: two payments of one offer, two reservations of one offer, or two offers of one
thing, the first and the last with one buyer; two handlers as for payments. The land has
four places, with a depth of three so that tree order and id order differ, two
residents, a thing and two calls at once, which is what a race or a circle of waits
needs; five first states put the luggage in another's room, in the world, in an open
place, and have a retired place, one not built yet, residents without a home, an open
hinge and a home that was handed away. One answer is lost, to fewer calls
(`DoubtfulCalls`), in the cities where each has a home of his own.

**Proofs** (`WorldSalesProofs.tla`, `WorldMovesProofs.tla`, `MarketProofs.tla`).

- *PayPal*, `ChargedHolds` from `BuyInv`: PayPal numbers what it makes, each remote for
  one intent; what is attached was made for its intent; only what is attached is
  offered, a gift's with its key; only what was offered is approved and only what is
  approved is charged; a captured order has its credit. The two limits `OrderLimit` and
  `SaleLimit` of `MCMarket` are any natural numbers.
- *Gifts*, `GiftHolds` and `DisputeHolds` from `GiftInv`. A dispute stands at its event
  of the highest rank, in the state that this event or the review asks for, except that
  a lost one stays lost (`Standing`); the receipts are one for each event or review of a
  dispute and each credited capture that it lists, no more and no fewer (`Exactly`); a
  gift is held exactly as the disputes over it are undecided, and revoked exactly if one
  was lost while it was not accepted (`Held`). What a step does to a gift is the outcome
  of its disputes taken one after the other in order of number (`after` in `Staged`);
  that this loop has a result for any number of disputes is `LoopExists`, by the least
  one without. For any number of captures, disputes, events and times, from
  `GiftAssumption`.
- *Sales*, `SalesCorrect` and `SoldHolds` from `SalesInv`. `RowsInv` ties the four
  tables together: the open offer and no other locks the thing (`OpenLocks`); an offer's
  evidence is that of the attempt it names (`EvidenceFollows`); a live attempt whose
  money moved inside its reservation has its offer open at that reservation
  (`AttemptFollows`); of one offer one attempt is live and one completed (`OneEach`).
  `CallsInv` says what a handler knows between two statements: what it read of a
  reservation is still true of that reservation, and one parking at a time writes an
  offer, so what `parkWrite` checked before it waited for the row is still so when it
  writes. For any number of residents, offers, reservations, attempts and handlers, from
  `SalesAssumption`.
- *Land*, `RetiredHolds`, `LuggageHolds`, `AnswerHolds` and `LockOrderHolds`, for any
  tree of places and any number of residents, things and calls. None of the four is
  inductive. The argument is two-phase locking: `WorldInv` says of each open call that
  it holds what it has locked and nobody else does (`Exclusive`), that its plan stands
  from the moment it holds its own presence (`PlanStands`), and that once it is prepared
  its checks are true and it holds every row its writes touch (`Can` and `Holds`). A
  commit of another call then cannot take a check away, because what it changes is
  disjoint from what the call holds; that is `ChecksHold`, the heart of `WorldCorrect`.
  Two calls never make the same thing. For the order, `OrderInv` says that rooms are
  locked from the top down and the presence of others and things only after the rooms
  and the own presence. `WorldAssumption` has the shape of the tree; the equation of the
  recursive `Above` is assumed there and evaluated by TLC on the tree of the run.

`MCMarket` repeats the assumptions for its own instances, so TLC evaluates each of them.
`ChargedHolds`, `SoldHolds`, `GiftHolds` and `DisputeHolds` have no number fixed:
captures, events, orders, offers, reservations, attempts and handlers are constants of
`MCMarket`. The four about the land keep its tree, its calls and its cities;
`WorldCorrect` and `LocksInOrder` state the same for any tree and any calls.

## 7. Rooms

**RoomWaits** (`room-wait-store.ts`, `room-wait-hold.ts`, `POST /api/wait-here`).
Change ids are drawn under a lock kept to the commit. `AnswerComplete`: between two
cursors nothing is missing although lines, pings and lease are read by three
statements and pages are cut. `NewestKeepsLease` and `CueIsTrue`: an old wait never
ends or extends a newer one, and who is shown to listen does, or just did.

**PingRules** (`room-ping-rules.ts`, `room-ping-store.ts`). The waiting times are
constants in ticks. `PingManners`: the published rule holds over the whole history
of a pair although the code decides from the last day's pings.

**TalkRequests** (`room-line-store.ts`, `room-ping-store.ts`, `resident-hold.ts`).
`RequestOnce`: an id does one thing and is told so for ever. `QuotaExact`: the one
kept row of the day and of the minute counts what was said. A hold is one that both
stops pings and lowers the lines.

**WakeSettling** (`engine-settle.ts`). Under the room's lock a settle reads what its
things are owed and commits the claim; then every try is a transaction of its own,
and a `room_settled` event closes the settle. Things have both an arrival and a
clock program; which effects a try applies is reduced to none or one. `OwedOnce`: no
tick is claimed by two settles. A thing that changed room is left out of it, and must
be: the comment of `claimSettle` ("Two settles can never claim the same owed
interval") holds under one room's lock, and a thing moved while a claim on it is open
can be claimed by its new room too. `SettleReport`: what a finished settle reports is
what its records say, and owed ticks are either tried or counted as forfeited. There
is no report when the invocation dies, nor when a try committed and its answer was
lost: the record of the failure then meets the unique key and ends the settle. So
"every claimed try records its own outcome" (`settleRoom`) is true of settles that
report.

**DueTimers** (`engine-effects.ts`, `engine-timer-store.ts`). Visits read the due
effects without a lock and read each row again under its own. A due effect runs at
most once, exactly when it is recorded as applied, and a repeating one has one next
turn (`TimerRunsOnce`, part of `OwedOnce` in `MCRooms`). The row being resolved still
counts for the limit of its place, so a repeating timer in a full queue fails.
Unreadable stored payloads, the second limit (per actor), the batch of a read and the
number of effects a visit resolves are abstracted: a visit may end at any step.

**ShowingRoom** (`showing-room-*.ts`). Notes take the room's lock before they are
stamped and keep it to their commit; a close takes it too. The clock moves inside a
close: one that crosses the print cutoff is undone and tried again as late; a commit
with an unknown outcome is tried again twice. `ClosedExactly`: a question closes with
one result, which read every note of its time and no other; each winner has one
credit, nobody else any; every call on a slot gets that result, and no failure waits
on a slot that has one. Entries, ballots and withdrawals are kinds of note; a ballot
names one entry. Two observations: a removed withdrawal still withdraws, and a cutoff
crossed on the third try ends the call without a recorded failure. A try that does not
get the locks in time fails under the slot of the try before it (`RetryFails`).

**Bounds** of `rooms`, with the cases of `FewRoomsSpec`: one wait among two writers of two
changes, or two waits of a resident who moves twice; three pings, over two days of four
ticks, of a pair that stays, or two pings in one day of a pair that moves or whose place
is retired (`FewPings`); three ids; two settles of one room whose things rest, or one
settle of things that move and are switched (`FewSettles`), over three ticks of the clock
(two ticks owed at once, above the limit of one room's roll); two visits and three timers
with room for two; two calls over three weekly slots without notes, or one call and one
question with three notes (an entry, a ballot and a second thought), or two notes of which
one is removed (`FewNotes`).

**Proofs** (`RoomsProofs.tla`): all invariants of the run, type correctness included,
for overlapping settles of several rooms and closes that race among notes too, which
`FewRoomsSpec` leaves out. Every length, limit and set is a constant of `MCRooms`. The
assumptions ask for finitely many processes and things, for waits, days and limits that
are numbers, for days, weeks, pages and programs that last at least one, and that `None`
is no value of its column (`WaitAssumption`, `PingAssumption`, `TalkAssumption`,
`WakeAssumption`, `TimerAssumption`, `ContestAssumption`). `PingAssumption` also has the
order of the published waiting times: the wait after a no is not shorter than those
after a miss and an answer.

- `TalkHolds` (`TalkIsExact`): the lines of a resident have different ids, none of which
  names an operation, and what was told to an id is what its line or its outcome says
  (`OnceInv`). The two kept rows are never of a later day or minute than the clock, and
  count the lines said in theirs (`QuotaInv`); a new day leaves them behind because no
  line is of a later moment than the clock. A proof by cardinality: a line said adds one
  to the sets of its day and minute.
- `LeaseHolds` (`LeaseIsTrue`): lease ids are used once, the row is empty or holds the
  newest of them, and the wait it belongs to has stayed exactly when the arrival in the
  row is the resident's last (`WaitOK`, `LeaseOK`). So an older wait never passes the
  test by which a release finds its own row.
- `CompleteHolds` (`AnswerComplete`): at most one writer has drawn a change id, and it
  is the next one, so no change comes late to a stretch that was already read
  (`LogInv`); nothing lies between the cursor a wait was started with and the one it
  reads from, and what it found is all there is up to the next one (`TurnOK`). That a
  page holds all there is between its cursor and the next one (`PageIsWhole`) is proved
  for a page of any length; the maximum of a finite set comes from the well-foundedness
  of the naturals.
- `MannersHold` (`PingManners`), from `PingInv`. Of two pings of one sender the later
  was allowed by the earlier (`Allowed`), and on no day are more than the permitted
  number unanswered; the pings are in order of time. The step that sends one sees only
  those since `pairHistoryStart`. An older one cannot forbid it: its offer ended a whole
  `AfterNo` ago, which is the longest of the waits, and it is of an earlier day.
- `OwedHolds` (`OwedOnce`), from `ClaimInv` and `TimerInv`. A claim holds the lock of
  its room, so what it read of a thing that stayed is still so when it commits
  (`ClaimOK`); each commit moves the anchor of a thing to its last claimed tick or
  beyond, so the claimed ticks of a thing that stayed are at or before its anchor
  (`TicksOK`) and a later claim owes none of them. A thing that changed room is left out
  of the property, as in the run. For timers, a row ran once if it is recorded as
  applied, and not before its time (`RowOK`), and a next turn follows a repeating row
  that ran at its place in the chain, one for each (`NextTurnOK`).
- `ReportIsTrue` (`SettleReport`), from `BookInv`, by counting. The records of a settle
  and its units are one to one: a try has a settle and a unit of its own, a running
  settle has recorded exactly what it does not have left (`Keeps`), so a finished one
  has as many records as units; and the ticks owed at a claim are its clock units and
  the forfeited ones (`ClaimCounts`).
- `ClosedHolds` (`ClosedExactly`), from `ContestInv`. A run that counts holds the locks:
  no note is under way and no other run counts (`LocksOK`). A question that closes has
  closed in time, so every note that is admitted afterwards is stamped after its end and
  the count of its notes never changes (`QuestionOK`, `Closed`). A slot without a result
  has given no answer; one with a result gives that answer only (`SlotOK`). A winner has
  one entry, since only an author's newest counts, hence one credit.
- `RoomsTyped` (`RoomsTypeOK`): the types follow from the invariants above but for the
  waits, where the next lease is the number of waits that took one, plus one
  (`WaitsTyped`).

## 8. What is proved and what is only checked

Proved for every value of the constants, by 43 listed theorems in eight modules:

| proofs | properties |
|---|---|
| `PaymentAttemptsProofs` | all safety properties of `one` and `race`, `HistoryIsImmutable` |
| `CityCreditProofs` | all safety properties of `credit`, the refinement of `FeeCredit` |
| `IdentityProofs`, `ResidentKeysProofs` | `IdentityTypeOK`, `OneRotationChain`, `ExactRevocation`, `KeyChangeIsOne`, `NoGrantOfOldKey`, `RegistrationIsExact`, `OneConfirmationWins` |
| `WorldSalesProofs`, `WorldMovesProofs`, `MarketProofs` | `MarketTypeOK`, `GiftFollowsDisputes`, `DisputeAccounted`, `ChargedAsOffered`, `SoldAsPaid`, `RetiredIsEmpty`, `LuggageFollows`, `AnswerIsTrue`, `OneLockOrder` |
| `RoomsProofs` | `RoomsTypeOK`, `TalkIsExact`, `LeaseIsTrue`, `AnswerComplete`, `PingManners`, `OwedOnce`, `SettleReport`, `ClosedExactly` |

So every safety property of every passing run has its theorem. A theorem about an area is
about the specification of its MC module, so it names the very invariant that the run
checks; the cases to which `FewMarketSpec` and `FewRoomsSpec`
keep TLC are no part of it. The constants that an MC module
declares are arbitrary in it. What an instance fixes by a literal stays fixed: the wait of
`AnswerComplete` is of a resident who stays (`Reading`), nothing is said in the rooms of
`LeaseIsTrue` (`Leases`), and the land of `MCMarket` is one land.

Only checked by TLC, on the instances above:

- The three liveness properties, `RecoveryEnds`, `PaidEvidenceIsDecided` and
  `SpendSettles`: liveness under fairness, like `ENABLED`, is out of the prover's reach.
- What a recursive definition computes (`Above` of `WorldMoves`, the subtree of a place):
  its equation is an assumption of the proofs that TLC evaluates.

## 9. Plan

1. An abstract sale (offered, reserved, paid, handed over), and `WorldSales` shown to
   implement it, as `CityCredit` implements `FeeCredit`; the same for a payment.
2. Renaming, transfers that wait, agreements and laws on the land of `WorldMoves`.
3. The recovery batch as a component: ten rows, oldest first, some failing.

## 10. Not modelled

Most lines of the repository are pages, the door and its tools, texts, lists,
validation of shapes, encodings and drawings. They keep no state of their own between
two requests, so a state machine has nothing to say about them; a model of their
output would repeat it. The share of the code that the map names is small for that
reason, and larger in the stores and runners, where the state is.

- **Trait language, laws, crafting** (most of `engine-effects.ts`, `physics.ts`,
  `laws.ts`): an interpreter over stored programs, whose single effects are
  single statements. What surrounds it, the action with its locks, claims and timers,
  is modelled.
- **Renaming, agreements, waiting transfers, later holders** (`place-lifecycle.ts`,
  `society.ts`, `waiting-transfers.ts`): not yet.
- **Moderation, mutes, settings**: single-statement updates.
- **Public reads, search, feeds, pages, MCP surface**: read only.
- **Gazette issues, publications' text, activation of the showing room**.
- Signatures, parsing, rate slots and catalogues of PayPal and OAuth clients.

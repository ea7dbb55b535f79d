# Verification of the TuTak platform

TuTak is a loyalty and payment platform: customers buy at partner businesses,
pay at the till or through a payment provider, earn and spend bonus points, and
partners settle with the platform afterwards.  Its logic is a NestJS service
(`src/apps/api`) over PostgreSQL and Redis.  Several instances of the service
run at once; a scheduler (BullMQ) starts the sweeps; the provider calls back
whenever it likes.  Correctness therefore rests on how short database
transactions, conditional updates, unique indexes, triggers, leases and
redeliveries interleave, which is what these modules are about.

Contents: 1 the system, 2 the modules, 3 the runs, 4 the proofs,
5 disagreements between code and comments, 6 what is not covered, 7 the plan.

## 1. The system

### Components

| Component | State | Operations | What makes it correct |
|---|---|---|---|
| Purchase intents (`purchase-intents.service.ts`) | `purchase_intents` (status, route, merchant approval, deadline) | create, approveForPayment, confirm, settleFromProviderConfirmation, cancel, reject, expireStale | one in flight per customer and partner; confirmed once; its points and contribution follow its status |
| Provider payments (`psp-payment.service.ts`, `psp-attempt-ageing.service.ts`) | `psp_payment_attempts`, its events | beginAttempt, answerPrecheck, settleVerifiedConfirmation, propose/confirmManualReconciliation, escalateStaleAttempts | cash and purchase settle together, exactly once; time and one person never resolve an attempt |
| Callback inbox and worker (`psp-callback-*.service.ts`) | `psp_callback_inbox`, Redis lock per bill | record, drain (claim, settle, processed / retry / dead, alert) | a durable queue: nothing lost, nothing "done" without its effect |
| Idram adapter (`idram.adapter.ts`) | none | verify, parse, answer | a pure conversion of form posts |
| Purchase refunds (`purchase-intent-refund*.service.ts`) | refund requests and refunds of purchases | request, approve, reject, refundDirectly, postRefund | one reversal per purchase, every economic leg reversed |
| Wallet and bonus engine (`bonus-engine.service.ts`) | wallets, lots, reservations, allocations, bonus ledger | accrue, reserve, settle/release/reverse/compensate, reverseAccrualLot, promote, expire | counters equal the lots; a reservation is settled or released once; lots never go negative |
| Deferred lots (`deferred-bonus-lot.service.ts`) | deferred lots, contributions | createLot, advanceExistingLots, reverseForRefund, expire | unlock by progress only, undone by refunds |
| Ledger (`ledger.service.ts`) | accounts, transactions, postings | post, reverse, replayBalance | debits equal credits; balances equal postings; reversed once |
| Outbox (`outbox.service.ts`) | `outbox_events` | write with a posting, drain, dead letter | at-least-once delivery of committed facts |
| Idempotency keys (`idempotency.service.ts`) | `idempotency_records` | claim, execute, complete, reclaim | one execution per key while its lease lasts |
| Card payments (`payment-engine.service.ts`, `refund-engine.service.ts`) | `payments`, `refunds` | capture; refund, reconcilePendingRefunds | the books follow the acquirer; never more back than captured |
| Settlement (`settlement.service.ts`, `settlement.listener.ts`) | `settlements`, payments' settlement columns | settlePayment on payment.captured | points issued once, on what was not refunded |
| QR payments (`qr-payments.service.ts`) | QR codes, redemptions | issue, redeem | a code redeems once |
| Payouts, collection (`payout-engine.service.ts`, `partner-collection.service.ts`) | payouts, collections | request, confirmPaid, markFailed; record, confirm | never more out than owed; a transfer booked once |
| Partner settlements (`partner-settlement.service.ts`) | settlement documents, lines, transfer attempts | draft, ready, approve, pay, reconcile, cancel | a purchase in one document; two people; unknown transfers never retried blindly |
| Customer balance (`customer-balance.service.ts`) | top-ups | initiateTopUp, webhook, collect | a top-up credited once |
| Referral (`referral.service.ts`) | attributions, challenge progress | attribute, advance, credit, reverse | an attribution is unique; progress and reversals balance |
| EV charging, roaming (`ev-*.service.ts`, `roaming-cpo-*.service.ts`) | sessions, reservations, records of roaming charges | start, meter, stop, expire, reconcile | one session per connector; a session billed once |
| Authentication, account deletion (`auth*.service.ts`, `account-deletion.service.ts`) | users, one-time codes, refresh tokens | register, login, refresh rotation, logout, deletion | a code or token is used once |
| Sweeps (`sweeps/*`, `distributed-lock.service.ts`) | Redis lock per job, heartbeat | sixteen repeated jobs | one run at a time *normally*; every job safe when two overlap |
| Database constraints (`prisma/migrations`) | CHECKs, partial unique indexes, triggers | guard every write | the last word when a service reads stale state |
| Reports: reconciliation, treasury, accounting, analytics | none of their own | read | |
| Partners, notifications, media, retention, audit, admin, HTTP shell, user interfaces, operations | configuration, append-only records | | no money or points change state here |

### How they interact

A customer's `create` reserves points (bonus engine, its own transaction) and
then inserts the purchase.  On the *direct* route the cashier's `confirm`
settles it.  On the *provider* route the business approves, `beginAttempt`
opens a bill, the provider pre-checks it, takes the money and posts a callback;
the controller only verifies and records it in the inbox, and a worker settles
it later: cash posting, purchase settlement, contribution, points and attempt
in one transaction.  Ledger postings write outbox events in their transaction;
`payment.captured` drives the settlement of card payments, which issues the
points a refund has to take back.  A confirmed purchase also advances the
customer's deferred lots, whose points come free by later turnover and are
taken back when a refund removes it.  Everything a partner is owed collects on
one ledger account, PARTNER_PAYABLE, out of which three engines pay:
settlements (by the postings nobody has claimed), payouts and collections (by
the balance).  A charging session holds a bay, is stopped and billed on the
platform's reading, and is compared with, or, when roaming, billed by, the
operator's record that comes later.  Sweeps expire purchases, release overdue
reservations of points and of bays, close abandoned sessions, age unpaid bills,
drain inbox and outbox, and ask acquirers and operators about what is undecided.

### What is hard

- *Read, await, write.* `create`, `beginAttempt`, `refund`, `settlePayment`,
  `proposeManualReconciliation`, `createDraft`, `confirmReconciliationOutcome`,
  `reverseAccrualLot`, `advanceExistingLots` and the sweeps decide on rows read in
  an earlier statement.
- *Two measures of one debt.* Settlements claim postings, payouts look at the
  balance; neither knows of the other.
- *Two sweeps, one deadline.* Points and purchase share `expiresAt` but are
  released by different jobs with different periods.
- *Unknown outcomes.* A provider or an acquirer may have acted although the
  call failed; a callback comes late, twice, or after people have answered.
- *Crash between two commits.* Claim and effect are often two transactions.
- *Leases.* A slow worker's lease or lock lapses under it and two work on.
- *Partial failure of a sweep.* Most loops do not catch, so one row can keep
  the rest of its batch waiting.

`PROJECT.json` lists these hazards at the lines where they bite, with the
properties that would catch them.

## 2. The modules

| Module | Models | Refines / proofs |
|---|---|---|
| `PspCheckout` | purchase intents, bonus reservations behind them, payment attempts, the provider, settlement of callbacks, manual reconciliation, ageing and expiry | `PspCheckoutProofs` |
| `DurableWork` | abstract: what a durable queue promises | |
| `CallbackInbox` | the callback inbox, its workers, leases and locks | implements `DurableWork`; `CallbackInboxProofs` |
| `PaymentRefund` | refunds of a captured card payment, the acquirer, the reconciliation sweep, settlement and its points | `PaymentRefundProofs` |
| `BonusWallet` | one customer's lots, reservations and counters under every operation of `BonusEngineService` | `BonusProofs` |
| `DeferredLot` | one deferred lot, the later purchases that unlock it, refunds, expiry, and the liability the ledger carries for it | `BonusProofs` |
| `PartnerAccount` | one partner's payable account: the postings the three engines share | |
| `PartnerSettlement` | the settlement engine on that account | extends `PartnerAccount`; `PartnerProofs` |
| `PayoutEngine` | payouts and collections on that account | extends `PartnerAccount` |
| `PartnerPayable` | the composition: both engines, interleaved | extends `PartnerSettlement` and `PayoutEngine`; `PartnerProofs` |
| `EvCharging` | reservations of bays, sessions, the stop and its bill, the two sweeps, the operator's CDR, the contribution's delivery | `EvChargingProofs` |
| `RefundDecision` | the refund of one purchase: who asks and who decides, the idempotency record, the engine, the reversal's postings | `RefundDecisionProofs` |
| `SumTheorems` | nothing: theorems about sums over finite sets, for the proofs | |
| `MC*` | the instances TLC checks (symmetry, constants) | |

The definitions named `Mutant_...` are plausible faults of the code; each stands
next to the definition it spoils.  A property is run only if some such fault
makes TLC find it violated under the run's own configuration.

### From code to actions

*Atomicity.* A database transaction is one action unless another transaction
can see its middle: PostgreSQL's default isolation lets others read between its
statements, but row locks taken by its conditional updates keep their writers
out.  Where a handler reads without a lock and writes later it is two actions
(`CreateCheck`/`CreateInsert`, `BeginRead`/`BeginInsert`,
`ProposeRead`/`ProposeWrite`, `RequestRead`/`RequestClaim`, `SettleRead`/
`SettleClaim`).  Where it locks and others wait it is one action, or a begin and
a commit with the lock as part of the state (`closing`, `settling`).

*PspCheckout.*  `intent`, `hold`, `attempt`, `inbox`, `cash` and `contributed` are
rows; `creating`, `closing`, `opening`, `settling` and `proposing` say where a handler
in flight stands, one per purchase, bill or person.  `overdue` is the clock against
`expiresAt`.  The triggers and unique indexes of the database are guards:
`CreateInsert` and `CreateRefused` are the two sides of the one-live index,
`CloseClaim` of the trigger on closing, `ReleaseExpiredHold` of the trigger on
reservations.  `CANCELLED` stands for `REJECTED` too: `cancel` and `reject` run the
same transaction for the customer and for the cashier, and no property tells the two
apart.  The provider is external: it pre-checks, may charge at any time after a yes,
and delivers either the billed or another amount any number of times.  A try of the
correct callback ends in the settlement's commit (`SettlePurchase`, `SettleResolved`),
in an abort after its begin (`SettleAbort`) or before it (`TryFails`); `tries` counts
those that failed, as the inbox does, and after `MaxTries` of them nothing takes the
callback up again (`GivenUp`), whether its row is DEAD or its last try was cut off,
which `CallbackInbox` tells apart.  Ageing (`Age`) and people are what is left for
such a bill.  One assumption about the provider is built in: `Precheck` does not fall
inside an open close transaction of the same purchase, because the customer's way to
the provider's page takes longer than such a transaction may stay open (Prisma closes
it after five seconds).

*CallbackInbox.*  A worker's `phase` follows `drain`: claim a batch, take up one
row, settle under the bill's lock, then mark, retry, give up and alert.  `due`
is the clock against `nextAttemptAt`, for both back-offs and leases; it may
become true at any time, so leases lapse under living workers.  `tries` is the
attempt number as the claim read it, which `recordFailure` uses later.  A process may
die anywhere (`Crash`), and `recordFailure` may throw in a living worker
(`FailureThrows`), which ends its `drain`: both let go of the whole batch, the row in
hand and those not yet taken up, all of whose tries the claim has counted
(`Drops`).  `cut` is history: the rows of such a batch that were on their last permitted try.
What settling does is abstracted to `answered`; `PspCheckout` models it.

*BonusWallet.*  Lots, reservations with their allocations, and the four counters
are rows.  `reserve`, `expireLots`, the manual debit and `restoreSpentBonus` write
the wallet row in SERIALIZABLE transactions and are one step each.
`settleReservation` is three (it finds the reservation ACTIVE, claims it, writes
the lots it found empty), and `releaseReservation`, `promotePendingLots` and
`reverseAccrualLot` are two, what they read and what they commit, because they
run READ COMMITTED.  Several promotions may overlap (`Sweeper`), since the lock
of a job may lapse.  A claim that has been made holds the reservation's row until
its transaction ends, which is why a release can then not commit in between.
Lots are numbered by expiry, the order `reserve` takes them in.

*DeferredLot.*  The lot's row, the grant it points to, the points of that grant
and of earlier ones the lot let go of (`purse`), the contributions of later
purchases, and `liability`, BONUS_LIABILITY as far as this lot moves it.
`ConfirmRead`/`ConfirmCommit` are the two halves of `advanceExistingLots`; refunds
are SERIALIZABLE and one step; the sweep lists before it expires.  `again`,
`lapsed` and `stale` are history: what `reverseUnlock` posted, what expired in the
wallet unposted, and whether a transaction used amounts that had changed.

*PartnerAccount, PartnerSettlement.*  A posting is signed: positive when it raises
what the partner is owed.  `Source` is what a posting can be about, of which each
engine has its own part.  Calls that read before their transaction and do not
look again at all they read are cut in two: a draft (`DraftOpens`, `DraftReads`,
`DraftInserts`), a payment (`PayReads`, `PayCommits`), a proposal and its
confirmation (`ProposeReads`/`ProposeCommits`, `ConfirmReads`/`ConfirmMoved` or
`ConfirmNotMoved`); `call` holds what was read.  The other moves repeat their
check in the update (`transition`) and are one step.  The unique indexes on
claimed postings, attempts and bank references and the two CHECKs on who
resolves a doubt are guards (`Unique`, `ReferenceFree`, `TwoPeople`).  `reporter`
is the person of the partner who raised a doubt, and no one when finance raised
it.  `fresh` is history: the proposals made since the bank's last unclear answer.

*PayoutEngine, PartnerPayable.*  `executePayout` and both steps of a collection
lock the account's row while they look at the balance, and the claims of
`confirmPaid` and `markFailed` look at the status again: one step each.
`markFailed` commits FAILED first and reverses the posting afterwards, so
`FailPayout` and `ReversePayout` are two, with `FailingDies` between.
`PartnerPayable` conjoins the two specifications over the shared `posting`.

*EvCharging.*  `bay`, `hold`, `session` and `bill` (transaction, CDR, points,
contribution) are rows; `starting`, `cancelling` and `listed` hold what a start, a
cancel and the sweep of sessions have read, `stop` where each call of `stopOnce` is
between its awaits, `pass` how many reconciliations are at work on a session and
whether its claim is held.  Transactions are one action.  What `stopOnce`, `start`
without a reservation and the expiry of reservations read first, their conditional
update repeats, so those reads are part of it; `start` with a reservation, `cancel`
and the sweep of sessions do not repeat it and are two.  The commit of `Earn`'s
transaction, and that of `markCompleted` (`Complete`), stand inside the `try`: when
its answer is lost (`heard`, stage `unheard`) the catch runs over a session that has
earned.  `Unwind`, `UnwindReleases` and `MarkFailed` are the three awaits of the
catch, each of which may fail on its own; `MarkFailed` is by id and overwrites
COMPLETED.  The outbox row of the contribution is claimed, which counts a try
(`DrainClaims`, again while a slow handler is still at it: `handling`), and handled
(`Drain`): it posts and marks the row, posts and dies before the mark, or fails and
leaves nothing.  After `MaxTries` claims nothing takes an unmarked row up again
(`DeadLettered`).  A stop may die at every stage (`StopDies`), a pass too, and a claim
of a pass may lapse although the pass is alive (`ClaimLapses`, five minutes).
`dropped` is history: sessions whose stop died or could not give the points back,
where an alert asks for a person.  `earned`, `posted` and `corrected` count rows no
column counts.

*RefundDecision.*  `row`, `refund`, `key`, `refunded`, `lot` and `books` are rows (the
points of one lot and three ledger accounts); `call` says where each run of
`approve` or `refundDirectly` stands, in whose name it acts (`as`: the decider it
read on the row, whoever calls) and which refund it is about to attach (`got`).
The claim of `approve` and of `reject` repeats its check and is one step; after it
every statement that commits by itself is one: the second read of the row, the
insert of the idempotency record, the look at an existing one, the reclaim, the
engine's own look-up, its SERIALIZABLE transaction, the completion or the deletion
of the record, the look-up after an exception, the release, the attachment.  A call
may die at each (`CallDies`), a statement may throw without effect (`Throws`), the
answer of the transaction may be lost after its commit (`PostRefund` going on to
`undoing`), and a lease may lapse under its worker (`KeyLapses`).  The record is
completed and deleted by scope and key, whoever holds it by then.  The amount asked
for was compared with what remained when it was asked, which need not remain: `Ask`
has no guard on it.  Merchandise is counted in units of which every share is whole,
so shares need no rounding; `Earned` sums the customer's points and those of
referrers with a wallet, and a refund takes what the lot still has (`Clawed`).
`released` is history: the decisions `settle` ever handed back.

*PaymentRefund.*  `refunded`, `settled`, `lot` and `row` are columns, `bank`
what the acquirer really did, `request`, `sweep` and `settler` the handlers in
flight with the values they read.  `row[r].postings` and `row[r].releases`
count how often a refund was posted and its claim released, which no column
does.  Points accrue at `Amount` per unit captured, so that a proportional
share of the whole is an integer and rounding cannot hide a loss; `Share` still
divides, as the code does.

## 3. The runs

| Run | Shows | Bounds |
|---|---|---|
| `checkout` | `TypeOK`, `MoneyFollowsPurchase`, `EconomicsFollowPurchase`, `ChargedIsNotAbandoned`, `OneMoneyRoute`, `ManualTakesTwo`, `AnswerIsFinal`, `TimeNeverResolves` | 2 purchases, 2 bills, 2 people, `MaxTries` 1; 3 million states |
| `checkout_live` | `PaidBillIsAnswered`, `OrphanHoldReturns` under the sweeps' fairness | 1 purchase, 1 bill, 2 people, `MaxTries` 3 |
| `inbox` | `TypeOK`, `ImplementsDurableWork`, and `EveryCallbackEnds` under fairness | 2 callbacks of one bill, 2 workers, 2 tries, batches of 2 |
| `refund` | `TypeOK`, `BooksFollowTheBank`, `BoundedUnlessReleasedTwice`, `PointsIssuedOnce`, `AnswersStay` | 2 refunds of an amount of 2, 1 sweep, 2 deliveries; 1.26 million states |
| `refund_live` | `DecisionReachesTheBooks` under fairness | 2 refunds, 1 sweep |
| `deferred` | `BooksFollowThePromise`, `GrantStandsOnTurnover`, `TurnoverIsReal` | a lot of 3, 3 later purchases of which 2 reach the threshold |
| `wallet` | `ReservedIsHeld`, `NoPointFromNowhere`, `NoPointTwice`, `HoldEndsOnce` | 2 lots, calls of up to 2 points (`Most`), 2 reservations, 2 promotions; 2.3 million states |
| `settlement` | `LedgerAgrees`, `PaidOnce`, `AttemptProvesPayment`, `ResolvedByTwo` | 2 settlements, 2 calls in flight, 2 people, 2 references, `MaxSales` 2, `MaxTries` 1; 632,000 states |
| `payable` | `EveryMoveHasItsRow` | 2 settlements, 1 payout, 1 collection, 1 call, `MaxSales` 2, `MaxTries` 1; 985,000 states |
| `ev` | `BaysAreAccountedFor`, `BilledOnce`, `EveryEarningIsBooked`, `PointsFollowTheBill`, and `EveryBayComesBack` under fairness | an operator's and a roaming connector, 1 session, 1 reservation, 2 stops, `MaxPass` 2, `MaxTries` 2; 515,000 states |
| `refund_decision` | `BooksFollowTheRefund`, `OneRefundUnlessReleased`, `EveryRefundIsOnRecord`, `RefundedIsTheSum` | 2 approvers and a cashier, 1 request and 1 direct refund, 2 calls, a purchase of 2 units, amounts of 1, `MaxFaults` 1; 787,000 states |
| `refund_decision_twice` | a counterexample to `OneRefundPerDecision`, section 5 | the same instance with `MaxFaults` 2 |

*Why these bounds are enough.*  The races are between two actors over one row, or
between two rows of one purchase, payment, lot or account: two bills are needed for
the second attempt, two people for the two-person rule, two workers for a lapsed lease
(one on its last try, one not), two refunds for a contested bound, two reservations
for a lot both hold, two drafts for a contested posting, two stops and two passes for
a contested session, two approvers and two calls for a contested decision.  Three
later purchases let a lot be unlocked, locked again by a refund and unlocked a second
time.  One session is enough for `ev` because its properties speak of one session at a
time except where a bay passes from one to the next, which `BaysAreAccountedFor`
covers through its theorem and `EvChargingOneCable.cfg` with three.  Repetition
(redelivery, ticks, restarts) is unbounded in every model but for these bounds:
`MaxSales` limits the postings of sales and refunds, `MaxTries` the refused or unclear
transfers of a settlement, in `PspCheckout` and `EvCharging` the tries of the inbox
and of the outbox (`MAX_ATTEMPTS`, ten in the code), `MaxPass` the reconciliations at
work on one session at a time, `Most` the points of one call, and `MaxFaults` the
statements that throw, calls that die and leases that lapse in `RefundDecision`.  One
such fault is enough for two calls to be at work on one record, because an answer lost
after the commit and a refusal by the engine, which delete the record, are not
counted.  The instance was also checked, outside the listed runs, with `MaxFaults` 2
(5.4 million states) and with `Amount` {0, 1} (4 million), in about five minutes each,
with no error.  What the theorems of section 4 cover holds for all values of all of
these constants.  A failed try of a callback changes nothing but its count, so the
safety properties of `checkout` see with `MaxTries` 1 what they would see with ten;
`checkout_live` has 3, so that a bill is settled after a failure as well as given up.
Two tries are enough in `ev` for one that outlives its lease beside the next, one of
which is the last.  `PaymentRefund` counts postings and releases and stays finite
because a handler applies an answer once and each list of the sweep holds a row once
while it is `PENDING`; `EvCharging` counts `earned`, `posted` and `corrected`, each
raised at most once per pass or stop.

*Deadlock* is not checked: a purchase that was answered, an inbox that is empty,
a payment or an account that is settled and a bay nobody comes to are where the
system rests.

*Fairness, and why the code justifies it.*
- `checkout_live`: the deadline passes, and the repeated jobs come round
  (`purchase-intent.expire` every 30 s, `psp.process-callbacks` every 5 s,
  `bonus.release-expired-reservations` every 5 min, ageing every 10 min).  All of it
  is weak but for one.  The worker's tick takes up a callback as long as a try is
  left, and a try that began ends in some way; nothing says that any of them succeeds,
  so that the worker giving up is a behaviour of the model and an outcome
  `PaidBillIsAnswered` names.  Strong fairness is left for the commit of an expiry
  only, whose tries nobody counts: a tick may abort, not every one for ever.
- `inbox`: time passes (`ComesDue`), a tick claims, and a worker that is alive
  goes on (`WorkerStep`).  Crashes have no fairness and are unlimited in number,
  but each costs one of the row's tries, as `recordFailure` throwing does.  The last
  try may therefore end with nothing recorded, which is the one exception in
  `EveryCallbackEnds` (`cut`).
- `refund_live`: the acquirer decides in the end; the sweep ticks every two
  minutes, and a refund that is asked about again and again is reached in some
  tick (strong fairness), although a tick may end early.
- `ev`: time passes, and the sweeps of reservations (every minute) and of sessions
  (every hour) come round and reach every row of their lists: the sweep of
  sessions catches per row, that of reservations expires each in a transaction
  whose claim cannot fail for long.  Customers, stops and passes are free to do
  nothing, and to die, for ever.

No fairness is assumed of customers, cashiers, people who reconcile, or of the
provider's callbacks.

## 4. The proofs

`tlapm` checks all of them to the last leaf.  The only assumptions are those on
constants, which TLC evaluates in the runs: an absent value is no identifier
(`NoneIsNew`, `NoneIsNothing`, `Kinds`), amounts are positive (`AmountType`,
`Amounts`, `Sizes`), limits and rates are numbers (`BoundsType`, `Tries`,
`TriesAreFinite`, `Passes`, `Rates`, which also says that customers get no more than
the pool), approvers are staff (`People`), ids of different tables differ (`Apart`: a
direct refund's from a request's, a settlement's from a payout's), a callback has a
bill (`BillOfType`), and roaming connectors are among the remotely operated ones
(`Kinds`).

Tables that a property sums over are finite, as every table is: the refunds of a
payment (`PaymentRefund.Finitely`), approvers and decisions (`RefundDecision.Finitely`),
the purchases that advance a lot (`PurchasesEnd`), reservations (`ReservationsEnd`),
settlements, payouts and collections (`Settlements`, `PaymentsEnd`).  The sum over an
infinite set would not be defined.  How many there are is left open, and no other
set, of people, calls, workers, sessions, bills, references or sweeps, is assumed to be
finite, nor any set to be not empty.

*SumTheorems*: what `SumFunctionOnSet` becomes when a summand changes (`SumChange`),
when an element joins or leaves (`SumJoins`, `SumLeaves`), when the set is parted
(`SumSplit`), when functions are added or compared (`SumPlus`, `SumAtMost`).  A library
sum is a fold, so each of these is an induction over a finite set, and the library's
induction takes an operator for a parameter, which no prover here can instantiate.  The
argument is a smallest counterexample instead: the subsets of a finite set that refute
a claim are a set, strict inclusion is well-founded on it (`SmallestSubset`, from
`WFMin`), and of a least refuting set one element can be taken away.  A table of the
models is a function, and every balance a sum of one of its columns over a selection of
its rows, so these theorems are all the accounting below needs.

*PspCheckoutProofs*: for any number of purchases, bills and people, `TypeOK`,
five further safety invariants the run checks, `OnePurchaseInFlight`,
`AnswerIsFinal` and `TimeNeverResolves`.  The invariants are not inductive
alone.  What is added says what holds
between the steps of handlers in flight: an intent appears only when `create()`
inserts it (`NotYetInserted`); an open close transaction holds a row still
awaiting confirmation (`CloserHoldsRow`); attempts, existing and about to exist,
belong to approved purchases of the provider's route (`AttemptsArePayable`); a
bill the provider may be paid for is not being closed (`PayableBillIsOpen`);
callbacks are about money really taken (`CallbacksAreTrue`); and a settlement
holds an attempt that is still confirmable (`SettlementHoldsRow`).
Frame lemmas (`PurchaseStepFrame`,
`BillStepFrame`, `ReadsOnlyFrame`, `StaffStepFrame`) say which step writes which
row, once for all invariants; `Invariance` proves the conjunction, one step per
action that is left, and each theorem reads its property off it.

*CallbackInboxProofs*: the types and `Refinement`,
`Spec => ImplementsDurableWork`, for any callbacks, bills, workers, batch size
and limit of tries.  Three invariants the refinement rests on are theorems of
their own: a row is done only when its callback was settled (`DoneMeansSettled`),
a claim spends a try (`EveryClaimSpendsATry`), and nobody gives up early
(`DeadMeansExhausted`); so is `TerminalIsNeverReopened`.  `StrandedOnlyIfCut`
says which rows can be left neither done nor DEAD with no try left: only those whose last
permitted try a worker holds at the moment, or died with, or dropped when `recordFailure`
threw (`OnlyCutIsStranded`, the safety half of `EveryCallbackEnds`, which TLC has checked
on that run's instance too).  The invariant adds that
a worker has at most one row in
hand and only in the right phases (`OneInHand`), that every claim still held is
counted on its row (`HeldIsCounted`), and that a row about to be marked
processed has been answered (`SettledIsAnswered`).  Every step maps to a step of
`DurableWork` or to a stutter; the interesting ones are the settlement, which
performs what several callbacks of one bill ask for, and the late success of a
worker whose row was given up on.

*PaymentRefundProofs*: the types (the claimed total stays within the captured amount,
a lot is never overdrawn, for any amounts and however the share is rounded),
`BooksFollowTheBank`, `AnswersStay`, `PointsIssuedOnce` and
`BoundedUnlessReleasedTwice`, for any number of refunds, sweeps and deliveries.
Neither writer of a refund's status looks at the status it overwrites, so the argument
goes through the acquirer: what a request or a sweep has heard is the acquirer's
decision (`HeardIsTrue`), a decision is final (`DecidedStays`), and until its request
calls a refund is unknown to the acquirer (`Unknown`).  At most one delivery is
between claim and accrual (`OneAccrual`).  For the bound, `Claims`: as long as no
claim was released twice, the claimed total is the sum of the claims not released, and
only a refund the acquirer declined was released, so what it paid back is among them.

*BonusProofs*, deferred lots: the types, `BooksFollowThePromise` (the liability is what
the lot still promises, less what the reversal of an unlock released again),
`GrantStandsOnTurnover` (a lot is free only while its turnover reaches the
threshold) and `TurnoverIsReal` (that turnover is the sum of what the later purchases
contributed), for any amount, threshold and set of later purchases.  The
invariant adds what a confirmation or the sweep has read (`SawsFit`: it was once
the row) and the accounts of the grant (`GrantBooks`: what is left, held and
reclaimed of it never exceeds it, and while no transaction acted on stale amounts
the lot's rest is the grant less what was reclaimed).  The arithmetic of a lot that is
locked, refunded in part and unlocked again is a lemma per step.  For the turnover one
more fact is needed, that a purchase not yet confirmed has contributed nothing
(`NotYet`); every step then changes one contribution, or none, by what it changes the
turnover.

*BonusProofs*, the wallet: the types, `ReservedIsHeld`, `NoPointFromNowhere`,
`NoPointTwice` and `HoldEndsOnce`, for any number of lots, reservations and overlapping
sweeps and any amounts.  The inductive invariant `WalletInv` has three parts.
`ClaimedIsActive`: while a settlement has claimed a reservation, it is ACTIVE to
everybody else, without which two transactions would move its points.  `Running`: an open
promotion or clawback has read a lot that exists, and nothing more, because nothing
more is true of it by the time it commits.  `Sound`: the rows have their types, and the
counters, lots and reservations agree (`Books`).  `wallet.reserved` is natural because it
equals a sum of naturals; nothing in the code checks it on a release or a settlement.
The heart of `reserve` and of the manual debit is the allocation loop: as long as there
are enough spendable points, what it takes of each lot, oldest first, adds up to what
was asked (`TakeAll`, from the same fact about every prefix of the lots, `TakePrefix`).

*PartnerProofs*, settlements: the types, `PaidOnce`, `AttemptProvesPayment`,
`ResolvedByTwo` and `LedgerAgrees`, for any number of settlements, calls and people, any
amounts and any interleaving.  A posting of a
settlement exists exactly when its row is PAID (`Books`), a successful attempt
with a reference exactly when the row is PAID under it (`Proof`); what a call in
flight has read is enough to say why its write is allowed (`CallsInformed`), and an
outcome has a proposer (`RowsSigned`), which makes the two CHECKs the two people.
`LedgerAgrees` compares three sums, over postings, over claims and over rows.  It is
inductive only beside two facts: a claim is of a settleable posting, of one settlement,
and a live settlement's net is what it has claimed (`ClaimsFit`); and what a draft is
about to insert is worth what it has read, whoever has claimed it since (`InsertsFit`).  The
second says why the breakdown may be read outside the transaction: postings are never
changed, and the unique index refuses the draft if one of them is taken.

*PartnerProofs*, the composition: `EveryMoveHasItsRow`, for any number of settlements,
payouts and collections and processes that die between a claim and its reversal, from
`PayableInv`: the invariant of the settlement engine, the types of the payout engine's
tables with the facts that only FAILED payouts are returned (`PayoutsFit`), and the
property itself with its sums named (`Accounted`).  `SharedAccountIsSafe` is
what composition should give: what the settlement engine guarantees alone, it
guarantees beside an engine that posts to the same account and knows nothing of it,
since a posting of a kind that is neither settleable nor a settlement's own disturbs
none of it.  `SharedDoubtTakesTwo` says the same of the action property `ResolvedByTwo`.

*EvChargingProofs*: the types, `BaysAreAccountedFor`, `BilledOnce`,
`EveryEarningIsBooked` and `PointsFollowTheBill`, for any number of bays, sessions,
reservations, stops, passes and tries of the outbox, and stops that die, or never hear
of their own commit, anywhere.  `BilledOnce` says what stands then: the session stays
COMPLETED with its CDR and earns once, and its transaction stands unless the stop
missed its commit; `EveryEarningIsBooked`, that what was earned is in the ledger once,
or its outbox row has tries left, or is a dead letter after all of them.  The claim of
`stopOnce` gives a session to one call (`Owned`); then the invariant is a relation
between a session, its bill and its reconciliation that holds whoever is at work
(`Sane`), one between them and how far its stop has come (`Fits`), and one for when
nobody is at work (`Rest`).  Most actions touch one session and one call, so the proof
shows what each does to its own (`SessionOK`) and that all others are left alone.

*RefundDecisionProofs*: the types, `BooksFollowTheRefund`, `OneRefundUnlessReleased`,
`EveryRefundIsOnRecord` and `RefundedIsTheSum`, for any number of people, decisions
and calls, any amounts, rates and faults.  The invariant adds what a row says
(`Signed`: it names its decider before anybody acts on it, and for a request never the
one who asked) and what a call in flight may do (`Fits`: it acts in a decider's name,
the row's present one as long as the decision was never handed back, and attaches or
completes only what was posted).  The books are followed by arithmetic over one
posting (`RefundPosts`), from which the products of amounts and rates are kept apart.

*Only model-checked*: the liveness properties `PaidBillIsAnswered`, `OrphanHoldReturns`,
`EveryCallbackEnds`, `DecisionReachesTheBooks` and `EveryBayComesBack`, because fairness
and ENABLED are outside the prover's reach.  Every safety invariant, every action property
and the refinement that a passing run checks is a theorem.  The inductive
invariants were themselves checked by TLC on the runs' instances before they were
proved.  The refuted statements of section 5 are TLC's alone, as counterexamples are.

## 5. Where the code and its comments disagree

One disagreement is a run; `PROJECT.json` quotes the sentences.

- `refund_decision_twice` (`OneRefundPerDecision`): two calls settle one decision; the
  second fails before the first has posted (on its way to the idempotency record, or
  having taken it over when the first one's lease lapsed), finds no refund and hands
  the decision back; the first one posts.  Somebody else now decides the row,
  which makes them the actor, and the next settlement posts again: the engine's key
  is scoped to the actor.  On the way `reject` turns down a decision whose refund
  exists and is not yet attached (`RejectedIsNotRefunded`, checked by putting it into
  this configuration).

The following are stated in the modules and refuted by TLC in seconds, each under the
configuration named; one without a configuration of its own is checked by putting it
into the configuration its entry names.  They are not among the listed runs, which are
kept to one per question; each is a sentence of the source that the code does not keep
in some interleaving.

Checkout:
- `PspCheckoutTwoBills.cfg` (`OneUnresolvedBill`): `beginAttempt`'s check and insert
  are apart, and the unique index covers live attempts only; an attempt that ages
  in between lets a second bill open beside one that may hold the money.
- `PspCheckoutOverdue.cfg` (`OverdueIsClosed`): the reservation sweep can release
  the points of an overdue purchase before the expiry sweep reaches it; expiry
  then throws at every tick and the purchase blocks the customer for ever.
  `PaidPurchaseKeepsItsHold` is the first half of it for a purchase with a bill
  and has no configuration of its own.
- `ClosedPurchaseIsNotConfirmable` (put into `PspCheckoutTwoBills.cfg`): a cancel between
  `beginAttempt`'s read and insert leaves a closed purchase with a confirmable
  attempt ("This should be unreachable").

Callback inbox:
- `CallbackInboxStranded.cfg` (`NeverStranded`): a worker that dies in the last
  try, or whose `recordFailure` throws in it, leaves a row no claim selects and no
  alert mentions.
- `DeadIsTold` (put into `CallbackInboxStranded.cfg`): a crash between the dead letter and
  its alert; nothing repeats the alert.

Card refunds:
- `PaymentRefundOver.cfg` (`RefundedWithinCaptured`): the sweep picks up a refund
  whose request is still in flight and both apply the answer, two releases of one
  claim, after which more than was captured can be refunded.  The same overlap
  posts a confirmed refund twice (`FinalizedOnce`, checked by putting it into
  this configuration).
- `PaymentRefundPointsKept.cfg` (`PointsReverse`): settlement accrues on an amount
  read before its claim; a refund confirmed in between takes nothing back.
- `PaymentRefundLostPoints.cfg` (`ClaimedMeansAccrued`): settlement's claim commits
  before the accrual; a crash in between loses the points, since every redelivery
  sees the claim.
- `ShareOfWhatWasIssued` (put into `PaymentRefundPointsKept.cfg`): refund half, settle, refund
  the rest: half of the points issued for the rest stay, because the share is
  computed on the whole.
- `AmbiguityEnds` (put into `PaymentRefundLive.cfg`): a request that dies before the
  acquirer hears of it leaves a refund pending for ever, since the sweep asks and
  never submits.

Wallet and deferred lots:
- `BonusWalletStranded.cfg` (`LotsBackBalances`): a clawback, a settlement or a
  promotion decides on a remainder it read that a lot is used up; a release of
  another reservation commits in between and the lot is CONSUMED with points in
  it, which the balance shows and no reservation or expiry takes.
- `DeferredLotTwice.cfg` (`LiabilityCoversPoints`): the reversal of an unlock
  releases the liability of every granted point no longer in its lot; a point a
  reservation merely held comes back later, one a redemption spent had its
  liability released by the redemption.
- `DeferredLotStale.cfg` (`NeverReleasedBeyondBooked`): `expireOne` claims the lot by
  its status and then releases the amounts of the list read earlier
  (`deferred-bonus-lot.service.ts:518`, `:567`); a refund in between has released
  its share already, which is just what the comment above it rules out.  The same
  shape is at `:120`, where an unlock grants on amounts read before the claim.
  Points a customer was granted and let expire never leave the liability
  (`lapsed`): `expireLots` writes no posting.

Partner money:
- `PartnerPayableTwice.cfg` (`NoSalePaidTwice`): a payout takes money out of the
  balance and claims no posting (`payout-engine.service.ts:166`); the next settlement
  collects the sale's unclaimed posting and pays for it again, although "a partner
  cannot be paid twice for the same sale".  A collection does the same to a refund's
  posting, which the next settlement deducts a second time.
- `PartnerSettlementStale.cfg` (`ProposedForThisDoubt`): the proposal made for an
  earlier doubt stays on the row when the retried transfer is unclear again, and
  one person can confirm it without anybody having proposed anything for this one.
- `PartnerSettlementOvertaken.cfg` (`PaidAsProposed`): `confirmReconciliationOutcome`
  reads the proposal before its transaction (`:760`-`:769`); another proposal in
  between leaves a settlement PAID with the answer that the money did not move.
- `NoDoubtIsLeft` (put into `PartnerSettlementOvertaken.cfg`): `recordAttempt` finds the unclear
  attempt by its bank reference only; a doubt without one, or resolved under
  another, adds a successful attempt and leaves the unclear one open (`:943`-`:947`
  says its own row is updated).
- `PartnerPayableLost.cfg` (`RejectedIsReturned`): `markFailed` commits FAILED
  before it reverses the posting (`payout-engine.service.ts:405`-`:415`); if the
  process dies in between, a repetition refuses the status, and the money stays
  in clearing.  The posting kind `payout.failed` is, besides, in neither of the two
  lists `settleable-kinds.ts` keeps.

EV charging:
- `EvChargingOneCable.cfg` (`OneSessionPerBay`): the sweep of abandoned sessions (and
  the catch of a failed stop) makes a bay AVAILABLE by its id
  (`ev-sessions.service.ts:1034`), from what it read earlier, although the next
  customer charges there by now; a third can start: "two people billed for one
  cable".
- `EvChargingHold.cfg` (`HoldKeepsItsBay`): `cancel` reads its reservation, the sweep
  expires it, the next customer reserves the bay, and the cancel, which frees a
  bay that is RESERVED for whomever, frees theirs.
- `EvChargingUnpaid.cfg` (`CompletedIsPaid`): a stop that fails after the
  transaction that completed the session unwinds its points and marks its
  transaction FAILED; the session stays COMPLETED, with a CDR.  `EarnedIsPaid`, in the
  same configuration (`tlc -continue`, or alone: TLC stops at the first violation),
  goes further: when the answer to the commit of `ev-sessions.service.ts:641` is
  lost, the catch gives the customer's points back and marks the COMPLETED
  transaction FAILED, while the points earned and the contribution's outbox event stand.
- `EvChargingCorrected.cfg` (`CorrectedIsCorrected`): a reconciliation that
  corrects between a stop's bill and its contribution finds nothing to correct and
  marks the CDR CORRECTED; and when its claim lapses, two passes correct.

The properties of the passing runs are stated next to these: for example
`BoundedUnlessReleasedTwice` says that the double release is the *only* way past
the captured amount, `BooksFollowThePromise` that what a reversal releases again
is the only difference, and `AttemptProvesPayment` that whatever is proposed, the
trail and the row agree on what was paid.

## 6. What is not covered

- Prices, fraud caps, subscription plans, commissions and the other side of
  ledger postings; an amount is only "as billed" or not, except in `PaymentRefund`,
  `DeferredLot`, `BonusWallet`, `RefundDecision` and the partner's account, where
  amounts are small numbers.
- In `RefundDecision`, the deferred legs (`DeferredLot` has them), the reversal of a
  referral challenge, the referrers' legs one by one, the legacy single-level
  program, the rounding of shares, and purchases the provider collected, which the
  engine refuses.
- Alerts, audit records, notifications and metrics, except the one alert of the
  dead letter and the sessions of `EvCharging` that an alert hands to a person.
- Parsing and signatures of the provider's posts: the models start from a
  verified callback.
- In `PaymentRefund`, the daily settlement's counters, the expiry and promotion
  of the lot, and a capture: a payment starts captured.  The customer's spending
  is a single action that takes points from the lot.  The clawback is one step
  of its transaction; a concurrent spend that makes its CHECK fail is a
  transaction that fails, which the model has.
- In `BonusWallet`, several customers (no operation touches two), and the audit
  rows beside each operation.
- In partner money: bank accounts, blocked payouts (`payoutsBlocked`), the
  collection that is recorded and confirmed in one step, statements, acquirers'
  settlement batches.
- In `EvCharging`: meter readings, the station catalogue and its status feed, OCPI
  commands, legs of a correction and their amounts, the collection from the
  customer's balance after roaming, the settlement of a walk-in's roaming, and a
  failing row that ends the loop of the reservation sweep (it waits for the next
  minute).  A manual credit is an accrual of the wallet.
- The user interfaces, the HTTP shell and the operations scripts, a third of the
  repository's lines: they keep no state the service relies on.
- Components marked `not_modelled` in `PROJECT.json`, with the reason; the plan
  below takes them in order.

## 7. Plan

Done: checkout, callback inbox and its abstract queue, card refunds and
settlement; the wallet, deferred lots, partner money (settlements, payouts and
collections on one account), EV charging, purchase refunds.  Next, in this order:

1. `Outbox`: leases, attempts, dead letter and event order, as a second
   implementation of `DurableWork`, with its refinement proved.
2. `IdempotentCapture`: the key's protocol, as `RefundDecision` has it, around
   `PaymentEngineService.capture` and its charge; abstract specification: one charge
   per key.
3. `DeferredLot` and `BonusWallet` in the place of `lot` in `RefundDecision`.
4. Referral progress, customer balance and top-ups, as small modules.
5. One-time codes, refresh tokens and account deletion.
6. `BonusWallet` in the place of `hold` of `PspCheckout` and `lot` of
   `PaymentRefund`, through a refinement mapping.

Runs stay few: one passing run per module, a second one where liveness needs a
smaller instance, and a listed counterexample only where a reader should see it
first.

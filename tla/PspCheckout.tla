---------------------------- MODULE PspCheckout ----------------------------
(***************************************************************************)
(* The purchases of one customer at one partner, paid at the till          *)
(* (DIRECT_PARTNER) or through the payment provider (TUTAK_PSP).           *)
(*                                                                         *)
(* Rows: a purchase intent and the bonus reservation it holds, the payment *)
(* attempts (one bill each), the provider's callbacks in the inbox, and    *)
(* the ledger postings settlement makes.  A handler is cut into several    *)
(* actions exactly where it awaits between reading and writing, or where   *)
(* one of its database transactions can be observed by another: creation,  *)
(* beginAttempt, closing (cancel, reject, expire), the settlement of a     *)
(* callback, and the proposal of a manual reconciliation.  Everything else *)
(* is a conditional update and is one step.                                *)
(***************************************************************************)
EXTENDS Naturals

CONSTANTS Purchase,   \* ids of purchase intents, each used once
          Bill,       \* provider bill ids; an attempt row is named by its bill
          Staff,      \* people who may reconcile an attempt by hand
          MaxTries,   \* tries of a callback before it is left alone; 10 in the code
          None        \* "no purchase", "no person"

ASSUME TriesAreFinite == MaxTries \in Nat
ASSUME NoneIsNew == None \notin Purchase \cup Bill \cup Staff

VARIABLES
  intent,     \* purchase_intents: status, route, merchant approval
  overdue,    \* expiresAt has passed; one timestamp for intent and reservation
  hold,       \* bonus reservation backing the purchase
  creating,   \* create() in flight
  closing,    \* target of an open, uncommitted close transaction, or "no"
  attempt,    \* psp_payment_attempts: status, purchase, reconciliation columns
  opening,    \* beginAttempt in flight for this bill, between read and insert
  provider,   \* what the provider has done with the bill
  inbox,      \* verified FINAL callbacks written down, <<bill, amount>>
  tries,      \* failed tries of the bill's correct callback
  settling,   \* status of the purchase read by an open settlement, or "no"
  cash,       \* psp.payment.captured postings per bill
  contributed,\* partner.contribution postings per purchase
  proposing   \* proposeManualReconciliation in flight, between read and write

vars == <<intent, overdue, hold, creating, closing, attempt, opening, provider,
          inbox, tries, settling, cash, contributed, proposing>>
purchaseVars == <<intent, hold, closing, contributed>>
attemptVars  == <<attempt, opening, settling, cash, proposing>>
outsideVars  == <<provider, inbox, tries>>

\* CANCELLED stands for REJECTED too: the same transaction, run for the cashier.
Closed   == {"EXPIRED", "CANCELLED"}
Statuses == {"NONE", "AWAITING_CONFIRMATION", "CONFIRMED"} \cup Closed
Routes   == {"DIRECT_PARTNER", "TUTAK_PSP"}
Amounts  == {"billed", "other"}

\* No code writes PENDING_CONFIRMATION, so the model leaves it out.
AttemptStatuses == {"NONE", "INITIATED", "SUCCEEDED", "FAILED", "EXPIRED",
                    "REQUIRES_RECONCILIATION"}
Confirmable       == {"INITIATED", "EXPIRED"}
Mutant_ExpiredIsSafe == {"INITIATED", "SUCCEEDED", "REQUIRES_RECONCILIATION"}
MoneyMayHaveMoved == {"INITIATED", "SUCCEEDED", "EXPIRED", "REQUIRES_RECONCILIATION"}
Reconcilable      == {"EXPIRED", "REQUIRES_RECONCILIATION"}

IntentRow  == [status: Statuses, route: Routes, approved: BOOLEAN]
AttemptRow == [status: AttemptStatuses, purchase: Purchase \cup {None},
               proposedBy: Staff \cup {None}, checkedBy: Staff \cup {None}]

TypeOK ==
  /\ intent \in [Purchase -> IntentRow]
  /\ overdue \in [Purchase -> BOOLEAN]
  /\ hold \in [Purchase -> {"NONE", "ACTIVE", "SETTLED", "RELEASED"}]
  /\ creating \in [Purchase -> {"no", "checked", "reserved", "over"}]
  /\ closing \in [Purchase -> Closed \cup {"no"}]
  /\ attempt \in [Bill -> AttemptRow]
  /\ opening \in [Bill -> Purchase \cup {None}]
  /\ provider \in [Bill -> {"unasked", "payable", "charged"}]
  /\ inbox \subseteq Bill \X Amounts
  /\ tries \in [Bill -> Nat]
  /\ settling \in [Bill -> {"no", "AWAITING_CONFIRMATION", "CONFIRMED"}]
  /\ cash \in [Bill -> Nat]
  /\ contributed \in [Purchase -> Nat]
  /\ proposing \in [Staff -> Bill \cup {None}]

Init ==
  /\ intent = [p \in Purchase |->
                 [status |-> "NONE", route |-> "DIRECT_PARTNER", approved |-> FALSE]]
  /\ overdue = [p \in Purchase |-> FALSE]
  /\ hold = [p \in Purchase |-> "NONE"]
  /\ creating = [p \in Purchase |-> "no"]
  /\ closing = [p \in Purchase |-> "no"]
  /\ attempt = [b \in Bill |-> [status |-> "NONE", purchase |-> None,
                                proposedBy |-> None, checkedBy |-> None]]
  /\ opening = [b \in Bill |-> None]
  /\ provider = [b \in Bill |-> "unasked"]
  /\ inbox = {}
  /\ tries = [b \in Bill |-> 0]
  /\ settling = [b \in Bill |-> "no"]
  /\ cash = [b \in Bill |-> 0]
  /\ contributed = [p \in Purchase |-> 0]
  /\ proposing = [s \in Staff |-> None]

Awaiting(p) == intent[p].status = "AWAITING_CONFIRMATION"
AttemptsOf(p) == {b \in Bill : attempt[b].purchase = p}

\* hasUnsafeAttempt / hasUnsafePspAttempt: a provider may hold p's money.
Unsafe(p) == \E b \in AttemptsOf(p) : attempt[b].status \in MoneyMayHaveMoved

Live(b) == attempt[b].status = "INITIATED"    \* liveKey IS NOT NULL, by its CHECK
\* Mutant: settlement takes no row lock, so others write under it.
Mutant_NoRowLock(b) == attempt[b].status # "NONE"

\* No settlement holds the attempt's row FOR UPDATE.
Unlocked(b) == settling[b] = "no"

-----------------------------------------------------------------------------
(* PurchaseIntentsService.create *)

\* assertNoUnresolvedPayment: no purchase in flight, no provider holding money.
CreateCheck(p) ==
  /\ creating[p] = "no"
  /\ \A q \in Purchase : ~Awaiting(q) /\ ~Unsafe(q)
  /\ creating' = [creating EXCEPT ![p] = "checked"]
  /\ UNCHANGED <<purchaseVars, overdue, attemptVars, outsideVars>>

\* A transaction of its own: the points are held before the intent exists.
CreateReserve(p) ==
  /\ creating[p] = "checked"
  /\ creating' = [creating EXCEPT ![p] = "reserved"]
  /\ hold' = [hold EXCEPT ![p] = "ACTIVE"]
  /\ UNCHANGED <<intent, closing, contributed, overdue, attemptVars, outsideVars>>

\* The insert, arbitrated by purchase_intents_one_live_per_customer_partner.
CreateInsert(p, route) ==
  /\ creating[p] \in {"checked", "reserved"}
  /\ \A q \in Purchase : ~Awaiting(q)
  /\ creating' = [creating EXCEPT ![p] = "over"]
  /\ intent' = [intent EXCEPT ![p] = [status |-> "AWAITING_CONFIRMATION",
                                      route |-> route, approved |-> FALSE]]
  /\ UNCHANGED <<hold, closing, contributed, overdue, attemptVars, outsideVars>>

\* The index refused the insert; the catch block compensates the reservation.
CreateRefused(p) ==
  /\ creating[p] \in {"checked", "reserved"}
  /\ \E q \in Purchase : Awaiting(q)
  /\ creating' = [creating EXCEPT ![p] = "over"]
  /\ hold' = [hold EXCEPT ![p] = IF @ = "ACTIVE" THEN "RELEASED" ELSE @]
  /\ UNCHANGED <<intent, closing, contributed, overdue, attemptVars, outsideVars>>

\* The process dies between the reservation and the insert.
CreateCrash(p) ==
  /\ creating[p] \in {"checked", "reserved"}
  /\ creating' = [creating EXCEPT ![p] = "over"]
  /\ UNCHANGED <<purchaseVars, overdue, attemptVars, outsideVars>>

PassDeadline(p) ==
  /\ creating[p] # "no" /\ ~overdue[p]
  /\ overdue' = [overdue EXCEPT ![p] = TRUE]
  /\ UNCHANGED <<purchaseVars, creating, attemptVars, outsideVars>>

-----------------------------------------------------------------------------
(* The counter and the customer.  expiresAt is compared before the write, so *)
(* the deadline may pass in between: no guard below mentions overdue except  *)
(* expiry's own.                                                             *)

\* approveForPayment.  The write looks at merchantApprovedAt alone: a purchase
\* closed since it was read is approved all the same.
Approve(p) ==
  /\ intent[p].status # "NONE" /\ closing[p] = "no"
  /\ intent[p].route = "TUTAK_PSP" /\ ~intent[p].approved
  /\ intent' = [intent EXCEPT ![p].approved = TRUE]
  /\ UNCHANGED <<hold, closing, contributed, overdue, creating, attemptVars, outsideVars>>

\* Mutant: the claim on AWAITING_CONFIRMATION is dropped.
Mutant_NoClaim(p) ==
  /\ intent[p].status \in {"AWAITING_CONFIRMATION", "CONFIRMED"} /\ closing[p] = "no"
  /\ intent' = [intent EXCEPT ![p].status = "CONFIRMED", ![p].approved = TRUE]
  /\ hold' = [hold EXCEPT ![p] = IF @ = "ACTIVE" THEN "SETTLED" ELSE @]
  /\ contributed' = [contributed EXCEPT ![p] = (@ + 1) % 3]
  /\ UNCHANGED closing

\* settlePurchase's transaction, once its claim has won: the reservation is
\* spent (settleReservation throws unless it is ACTIVE) and the contribution
\* posted together with the status.
Confirmed(p) ==
  /\ Awaiting(p) /\ closing[p] = "no"
  /\ hold[p] \in {"NONE", "ACTIVE"}
  /\ intent' = [intent EXCEPT ![p].status = "CONFIRMED", ![p].approved = TRUE]
  /\ hold' = [hold EXCEPT ![p] = IF @ = "ACTIVE" THEN "SETTLED" ELSE @]
  /\ contributed' = [contributed EXCEPT ![p] = @ + 1]
  /\ UNCHANGED closing

\* confirm: the cashier takes the money.
Confirm(p) ==
  /\ intent[p].route = "DIRECT_PARTNER"
  /\ Confirmed(p)
  /\ UNCHANGED <<overdue, creating, attemptVars, outsideVars>>

\* cancel, reject and expireOne claim the row; the trigger
\* purchase_intent_not_abandoned_while_paying reads the committed attempts.
CloseClaim(p, target) ==
  /\ Awaiting(p) /\ closing[p] = "no"
  /\ target = "EXPIRED" => overdue[p]
  /\ ~Unsafe(p)
  /\ closing' = [closing EXCEPT ![p] = target]
  /\ UNCHANGED <<intent, hold, contributed, overdue, creating, attemptVars, outsideVars>>

\* Mutant: the status is written without the row having been claimed.
Mutant_CommitUnclaimed(p) ==
  /\ hold[p] \in {"NONE", "ACTIVE"}
  /\ intent' = [intent EXCEPT ![p].status = closing[p]]
  /\ UNCHANGED <<hold, closing, contributed, overdue, creating, attemptVars, outsideVars>>

\* The same transaction releases the reservation, which throws unless ACTIVE.
CloseCommit(p) ==
  /\ closing[p] # "no"
  /\ hold[p] \in {"NONE", "ACTIVE"}
  /\ intent' = [intent EXCEPT ![p].status = closing[p]]
  /\ hold' = [hold EXCEPT ![p] = IF @ = "ACTIVE" THEN "RELEASED" ELSE @]
  /\ closing' = [closing EXCEPT ![p] = "no"]
  /\ UNCHANGED <<contributed, overdue, creating, attemptVars, outsideVars>>

\* An error or a crash inside the transaction rolls the claim back.
CloseAbort(p) ==
  /\ closing[p] # "no"
  /\ closing' = [closing EXCEPT ![p] = "no"]
  /\ UNCHANGED <<intent, hold, contributed, overdue, creating, attemptVars, outsideVars>>

\* Mutant: the sweep only looks at reservations of purchases that exist.
Mutant_OnlyWithIntent(p) ==
  /\ hold[p] = "ACTIVE" /\ overdue[p] /\ Awaiting(p) /\ ~Unsafe(p)
  /\ hold' = [hold EXCEPT ![p] = "RELEASED"]
  /\ UNCHANGED <<intent, closing, contributed, overdue, creating, attemptVars, outsideVars>>

\* releaseExpiredReservations goes by the reservation's own deadline and never
\* looks at the intent; bonus_reservation_not_released_while_paying does.
ReleaseExpiredHold(p) ==
  /\ hold[p] = "ACTIVE" /\ overdue[p]
  /\ ~(Awaiting(p) /\ Unsafe(p))
  /\ hold' = [hold EXCEPT ![p] = "RELEASED"]
  /\ UNCHANGED <<intent, closing, contributed, overdue, creating, attemptVars, outsideVars>>

-----------------------------------------------------------------------------
(* PspPaymentService.beginAttempt *)

\* Mutant: a bill is opened whatever the purchase's route.
Mutant_AnyRoute(b, p) ==
  /\ attempt[b].status = "NONE" /\ opening[b] = None
  /\ Awaiting(p) /\ ~Unsafe(p)
  /\ opening' = [opening EXCEPT ![b] = p]
  /\ UNCHANGED <<purchaseVars, overdue, creating, attempt, settling, cash, proposing,
                 outsideVars>>

BeginRead(b, p) ==
  /\ attempt[b].status = "NONE" /\ opening[b] = None
  /\ Awaiting(p) /\ intent[p].route = "TUTAK_PSP" /\ intent[p].approved
  /\ ~Unsafe(p)
  /\ opening' = [opening EXCEPT ![b] = p]
  /\ UNCHANGED <<purchaseVars, overdue, creating, attempt, settling, cash, proposing,
                 outsideVars>>

\* The insert.  The database checks the route and the approval, which never
\* change back, and that no other attempt of the purchase is live.
BeginInsert(b) ==
  /\ opening[b] # None
  /\ \A c \in AttemptsOf(opening[b]) : ~Live(c)
  /\ attempt' = [attempt EXCEPT ![b] = [@ EXCEPT !.status = "INITIATED",
                                                 !.purchase = opening[b]]]
  /\ opening' = [opening EXCEPT ![b] = None]
  /\ UNCHANGED <<purchaseVars, overdue, creating, settling, cash, proposing, outsideVars>>

\* The unique index refused the row, or the process died before the insert.
BeginDropped(b) ==
  /\ opening[b] # None
  /\ opening' = [opening EXCEPT ![b] = None]
  /\ UNCHANGED <<purchaseVars, overdue, creating, attempt, settling, cash, proposing,
                 outsideVars>>

-----------------------------------------------------------------------------
(* The provider, as answerPrecheck and the callback route meet it. *)

\* answerPrecheck says yes.  A customer needs far longer to reach the
\* provider's pre-check than a close transaction may stay open.
Precheck(b) ==
  LET p == attempt[b].purchase IN
  /\ provider[b] = "unasked"
  /\ attempt[b].status \in Confirmable
  /\ Awaiting(p) /\ intent[p].approved
  /\ closing[p] = "no"
  /\ provider' = [provider EXCEPT ![b] = "payable"]
  /\ UNCHANGED <<purchaseVars, overdue, creating, attemptVars, inbox, tries>>

\* The provider takes the money of a bill it was told may be paid, at any time.
Charge(b) ==
  /\ provider[b] = "payable"
  /\ provider' = [provider EXCEPT ![b] = "charged"]
  /\ UNCHANGED <<purchaseVars, overdue, creating, attemptVars, inbox, tries>>

\* A verified callback is recorded; a duplicate collapses on its dedupe key and
\* changes nothing, so only the first is a step.
Deliver(b, amount) ==
  /\ provider[b] = "charged"
  /\ <<b, amount>> \notin inbox
  /\ inbox' = inbox \cup {<<b, amount>>}
  /\ UNCHANGED <<purchaseVars, overdue, creating, attemptVars, provider, tries>>

-----------------------------------------------------------------------------
(* PspPaymentService.settleVerifiedConfirmation, run by the callback worker. *)
(* A try is counted when the row is claimed, here when it has failed.  After *)
(* MaxTries of them the row is DEAD, or stranded (CallbackInbox tells the two *)
(* apart), and no worker takes it up again.                                  *)

TryLeft(b) == <<b, "billed">> \in inbox /\ tries[b] < MaxTries
TrySpent(b) == tries' = [tries EXCEPT ![b] = @ + 1]

\* The amount is not the bill's: hold it for people, settle nothing.  No promise
\* rests on how often this row is tried, so its tries are not counted.
HoldMismatch(b) ==
  /\ <<b, "other">> \in inbox
  /\ attempt[b].status \in Confirmable /\ Unlocked(b)
  /\ attempt' = [attempt EXCEPT ![b].status = "REQUIRES_RECONCILIATION"]
  /\ UNCHANGED <<purchaseVars, overdue, creating, opening, settling, cash, proposing,
                 outsideVars>>

\* Mutant: a replayed callback is not recognised.
Mutant_ReplaySettles(b) ==
  LET p == attempt[b].purchase IN
  /\ TryLeft(b) /\ cash[b] < 2
  /\ attempt[b].status \in Confirmable \cup {"SUCCEEDED"} /\ Unlocked(b)
  /\ settling' = [settling EXCEPT ![b] = intent[p].status]
  /\ UNCHANGED <<purchaseVars, overdue, creating, attempt, opening, cash, proposing,
                 outsideVars>>

\* The transaction locks the attempt and reads the purchase.  From any status
\* outside Confirmable its final claim finds nothing, and from a closed
\* purchase settleFromProviderConfirmation throws: both undo everything.
SettleBegin(b) ==
  LET p == attempt[b].purchase IN
  /\ TryLeft(b)
  /\ attempt[b].status \in Confirmable /\ Unlocked(b)
  /\ intent[p].status \in {"AWAITING_CONFIRMATION", "CONFIRMED"}
  /\ settling' = [settling EXCEPT ![b] = intent[p].status]
  /\ UNCHANGED <<purchaseVars, overdue, creating, attempt, opening, cash, proposing,
                 outsideVars>>

\* A try that does not get so far: the purchase is closed, the bill's lock is
\* another worker's, the database is away, the worker dies.  One that fails
\* while another settles is counted after it; an answered attempt's tries
\* change nothing and are left out.
TryFails(b) ==
  /\ TryLeft(b) /\ TrySpent(b)
  /\ attempt[b].status \in Confirmable /\ Unlocked(b)
  /\ UNCHANGED <<purchaseVars, overdue, creating, attemptVars, provider, inbox>>

Succeed(b) ==
  /\ attempt' = [attempt EXCEPT ![b].status = "SUCCEEDED"]
  /\ cash' = [cash EXCEPT ![b] = @ + 1]
  /\ settling' = [settling EXCEPT ![b] = "no"]
  /\ UNCHANGED <<opening, proposing>>

\* Cash leg, purchase and attempt commit together.
SettlePurchase(b) ==
  /\ settling[b] = "AWAITING_CONFIRMATION"
  /\ Confirmed(attempt[b].purchase)
  /\ Succeed(b)
  /\ UNCHANGED <<overdue, creating, outsideVars>>

\* The purchase was, or has meanwhile become, no longer AWAITING_CONFIRMATION:
\* 'already-resolved', which the caller does not look at.
SettleResolved(b) ==
  /\ settling[b] # "no"
  /\ ~Awaiting(attempt[b].purchase)
  /\ Succeed(b)
  /\ UNCHANGED <<purchaseVars, overdue, creating, outsideVars>>

\* Any throw, timeout or crash inside the transaction.
SettleAbort(b) ==
  /\ settling[b] # "no"
  /\ settling' = [settling EXCEPT ![b] = "no"]
  /\ TrySpent(b)
  /\ UNCHANGED <<purchaseVars, overdue, creating, attempt, opening, cash, proposing,
                 provider, inbox>>

-----------------------------------------------------------------------------
(* Time, and people. *)

\* Mutant: a timeout is taken for a failure.
Mutant_TimeoutFails(b) ==
  /\ Live(b) /\ Unlocked(b)
  /\ attempt' = [attempt EXCEPT ![b].status = "FAILED"]
  /\ UNCHANGED <<purchaseVars, overdue, creating, opening, settling, cash, proposing,
                 outsideVars>>

\* Mutant: a bill whose callback has come is left to the callback worker.
Mutant_AnsweredAreNotAged(b) ==
  /\ Live(b) /\ Unlocked(b)
  /\ \A amount \in Amounts : <<b, amount>> \notin inbox
  /\ attempt' = [attempt EXCEPT ![b].status = "EXPIRED"]
  /\ UNCHANGED <<purchaseVars, overdue, creating, opening, settling, cash, proposing,
                 outsideVars>>

\* escalateStaleAttempts: a live bill nobody came back to.
Age(b) ==
  /\ Live(b) /\ Unlocked(b)
  /\ attempt' = [attempt EXCEPT ![b].status = "EXPIRED"]
  /\ UNCHANGED <<purchaseVars, overdue, creating, opening, settling, cash, proposing,
                 outsideVars>>

ProposeRead(s, b) ==
  /\ proposing[s] = None
  /\ attempt[b].status \in Reconcilable
  /\ proposing' = [proposing EXCEPT ![s] = b]
  /\ UNCHANGED <<purchaseVars, overdue, creating, attempt, opening, settling, cash,
                 outsideVars>>

\* Mutant: no CHECK keeps the second person on a row resolved by hand.
Mutant_NoTwoPersonCheck(s) ==
  LET b == proposing[s] IN
  /\ b # None /\ attempt[b].status # "SUCCEEDED" /\ Unlocked(b)
  /\ attempt' = [attempt EXCEPT ![b] = [@ EXCEPT !.proposedBy = s, !.checkedBy = None]]
  /\ proposing' = [proposing EXCEPT ![s] = None]
  /\ UNCHANGED <<purchaseVars, overdue, creating, opening, settling, cash, outsideVars>>

\* An update by id alone.  The database refuses it on a SUCCEEDED row (trigger)
\* and on a row resolved by hand, whose second person it would erase (CHECK).
ProposeWrite(s) ==
  LET b == proposing[s] IN
  /\ b # None
  /\ attempt[b].status \notin {"SUCCEEDED", "FAILED"} /\ Unlocked(b)
  /\ attempt' = [attempt EXCEPT ![b] = [@ EXCEPT !.proposedBy = s, !.checkedBy = None]]
  /\ proposing' = [proposing EXCEPT ![s] = None]
  /\ UNCHANGED <<purchaseVars, overdue, creating, opening, settling, cash, outsideVars>>

ProposeRefused(s) ==
  /\ proposing[s] # None
  /\ attempt[proposing[s]].status \in {"SUCCEEDED", "FAILED"}
  /\ proposing' = [proposing EXCEPT ![s] = None]
  /\ UNCHANGED <<purchaseVars, overdue, creating, attempt, opening, settling, cash,
                 outsideVars>>

\* confirmManualReconciliation.  Its claim is pinned to the status and to the
\* proposal it read, so read and write are one step.
ManualConfirm(s, b) ==
  /\ attempt[b].status \in Reconcilable /\ Unlocked(b)
  /\ attempt[b].proposedBy \notin {None, s}
  /\ attempt' = [attempt EXCEPT ![b] = [@ EXCEPT !.status = "FAILED", !.checkedBy = s]]
  /\ UNCHANGED <<purchaseVars, overdue, creating, opening, settling, cash, proposing,
                 outsideVars>>

-----------------------------------------------------------------------------
PurchaseNext(p) ==
  \/ CreateCheck(p) \/ CreateReserve(p) \/ CreateRefused(p) \/ CreateCrash(p)
  \/ \E route \in Routes : CreateInsert(p, route)
  \/ PassDeadline(p) \/ Approve(p) \/ Confirm(p)
  \/ \E target \in Closed : CloseClaim(p, target)
  \/ CloseCommit(p) \/ CloseAbort(p) \/ ReleaseExpiredHold(p)

BillNext(b) ==
  \/ \E p \in Purchase : BeginRead(b, p)
  \/ BeginInsert(b) \/ BeginDropped(b)
  \/ Precheck(b) \/ Charge(b)
  \/ \E amount \in Amounts : Deliver(b, amount)
  \/ HoldMismatch(b) \/ SettleBegin(b) \/ TryFails(b)
  \/ SettlePurchase(b) \/ SettleResolved(b) \/ SettleAbort(b) \/ Age(b)

StaffNext(s) ==
  \/ \E b \in Bill : ProposeRead(s, b) \/ ManualConfirm(s, b)
  \/ ProposeWrite(s) \/ ProposeRefused(s)

Next ==
  \/ \E p \in Purchase : PurchaseNext(p)
  \/ \E b \in Bill : BillNext(b)
  \/ \E s \in Staff : StaffNext(s)

Spec == Init /\ [][Next]_vars

\* The repeated sweeps: a tick comes again until there is nothing to do.  The
\* worker's tick takes up a callback only while it has a try left, and a try
\* ends somehow: nothing says that it succeeds.  Only the closing sweep, whose
\* tries nobody counts, is assumed to commit if it can again and again.
Fairness ==
  /\ \A p \in Purchase :
       /\ WF_vars(PassDeadline(p))
       /\ WF_vars(ReleaseExpiredHold(p))
       /\ WF_vars(CloseClaim(p, "EXPIRED"))
       /\ SF_vars(CloseCommit(p))
  /\ \A b \in Bill :
       /\ WF_vars(SettleBegin(b) \/ TryFails(b))
       /\ WF_vars(SettlePurchase(b) \/ SettleResolved(b) \/ SettleAbort(b))
       /\ WF_vars(Age(b))

FairSpec == Spec /\ Fairness

-----------------------------------------------------------------------------
(* Safety *)

\* Money is posted exactly once for a bill the provider confirmed, never for
\* another, and its purchase is confirmed: "both halves or neither", under
\* any number of workers, redeliveries, crashes and late callbacks.
MoneyFollowsPurchase ==
  \A b \in Bill :
    /\ cash[b] = IF attempt[b].status = "SUCCEEDED" THEN 1 ELSE 0
    /\ attempt[b].status = "SUCCEEDED" => intent[attempt[b].purchase].status = "CONFIRMED"

\* A purchase's loyalty economics happen once and only when it is confirmed,
\* and the reserved points are spent then and given back when it is closed.
EconomicsFollowPurchase ==
  \A p \in Purchase :
    /\ contributed[p] = IF intent[p].status = "CONFIRMED" THEN 1 ELSE 0
    /\ hold[p] = "SETTLED" => intent[p].status = "CONFIRMED"
    /\ intent[p].status = "CONFIRMED" => hold[p] \in {"NONE", "SETTLED"}
    /\ intent[p].status \in Closed => hold[p] \in {"NONE", "RELEASED"}

\* A bill the provider was told may be paid keeps its purchase payable until
\* somebody answers for it: neither the clock, the customer nor the cashier
\* closes a purchase under a customer who may be paying for it.
ChargedIsNotAbandoned ==
  \A b \in Bill :
    provider[b] # "unasked" =>
      \/ attempt[b].status = "FAILED"
      \/ intent[attempt[b].purchase].status \in {"AWAITING_CONFIRMATION", "CONFIRMED"}

\* Till and provider never both collect: a purchase with an attempt is routed
\* through the provider and was approved by the business.
OneMoneyRoute ==
  \A p \in Purchase :
    AttemptsOf(p) # {} => intent[p].route = "TUTAK_PSP" /\ intent[p].approved

\* An attempt is declared unpaid only by two different people, however their
\* proposals and confirmations interleave with each other and with callbacks.
ManualTakesTwo ==
  \A b \in Bill :
    attempt[b].status = "FAILED" =>
      /\ attempt[b].proposedBy # None /\ attempt[b].checkedBy # None
      /\ attempt[b].proposedBy # attempt[b].checkedBy

\* The customer has one purchase in flight at this partner.
OnePurchaseInFlight ==
  \A p, q \in Purchase : Awaiting(p) /\ Awaiting(q) => p = q

\* An answered attempt keeps its answer: a late callback does not overturn two
\* people, and nobody and no clock overturns a settlement.
AnswerIsFinal ==
  [][\A b \in Bill :
       attempt[b].status \in {"SUCCEEDED", "FAILED"} =>
         attempt'[b].status = attempt[b].status /\ cash'[b] = cash[b]]_vars

\* Time never resolves: the ageing sweep leaves a purchase exactly as blocked
\* as it was, and only an answer makes it free for another bill.
TimeNeverResolves ==
  [][\A p \in Purchase :
       Unsafe(p) /\ ~Unsafe(p)' =>
         \E b \in AttemptsOf(p) : attempt'[b].status = "FAILED"
                                  /\ attempt'[b].checkedBy # None]_vars

(* Liveness, under the sweeps' fairness *)

\* No try of the bill's callback is left or under way.
GivenUp(b) == <<b, "billed">> \in inbox /\ tries[b] = MaxTries /\ Unlocked(b)

\* A correct callback that was written down does not leave its bill waiting for
\* a provider that has already answered: the bill is settled, or held for
\* people, or, when every try the inbox allows has failed (all of them fail if
\* the purchase lost its points, see PaidPurchaseKeepsItsHold), it is aged into
\* EXPIRED, where it still blocks its purchase and two people may answer it.
PaidBillIsAnswered ==
  \A b \in Bill :
    <<b, "billed">> \in inbox ~>
      \/ attempt[b].status \in {"SUCCEEDED", "FAILED", "REQUIRES_RECONCILIATION"}
      \/ GivenUp(b) /\ attempt[b].status = "EXPIRED"

\* Points held by a create() that died before its insert come back.
OrphanHoldReturns ==
  \A p \in Purchase :
    (hold[p] = "ACTIVE" /\ intent[p].status = "NONE") ~>
      (hold[p] = "RELEASED" \/ intent[p].status # "NONE")

-----------------------------------------------------------------------------
(* What the comments of the source promise and the code does not keep. *)

\* "This should be unreachable": a closed purchase has no attempt a callback
\* could still confirm.
ClosedPurchaseIsNotConfirmable ==
  \A p \in Purchase : intent[p].status \in Closed =>
    \A b \in AttemptsOf(p) : attempt[b].status \notin Confirmable

\* "A new payment cannot be started until that attempt is resolved": no second
\* bill beside one that may hold the customer's money.
OneUnresolvedBill ==
  \A b, c \in Bill :
    /\ attempt[b].status \in MoneyMayHaveMoved
    /\ attempt[c].status \in MoneyMayHaveMoved
    /\ attempt[b].purchase = attempt[c].purchase
    => b = c

\* The purchase under payment still has its points: it must not "stay
\* AWAITING_CONFIRMATION with its points already handed back".
PaidPurchaseKeepsItsHold ==
  \A p \in Purchase : Awaiting(p) /\ Unsafe(p) => hold[p] # "RELEASED"

\* "The very next tick of this sweep expires it normally": a purchase past its
\* deadline that no provider holds money for is eventually closed or paid.
OverdueIsClosed ==
  \A p \in Purchase :
    (Awaiting(p) /\ overdue[p] /\ ~Unsafe(p)) ~> (~Awaiting(p) \/ Unsafe(p))
=============================================================================

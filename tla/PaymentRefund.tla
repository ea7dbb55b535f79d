--------------------------- MODULE PaymentRefund ---------------------------
(***************************************************************************)
(* One captured card payment after its capture: the refunds operators ask  *)
(* for, the acquirer that executes them, the sweep that asks the acquirer  *)
(* again, and the settlement, driven by an outbox event delivered at least *)
(* once, that issues the loyalty points refunds have to take back.         *)
(* Points are counted so that a refund's proportional share is exact.      *)
(***************************************************************************)
EXTENDS Integers, FiniteSets, FiniteSetsExt

CONSTANTS Refund,     \* (actorId, idempotencyKey) of the refunds requested
          Amount,     \* the captured amount
          Sweeper,    \* runs of payments.reconcile-pending-refunds
          Settler,    \* deliveries of payment.captured
          None

ASSUME AmountType == Amount \in Nat \ {0}
ASSUME NoneIsNew == None \notin Refund
ASSUME Finitely == IsFiniteSet(Refund)

VARIABLES
  refunded,   \* payments.refundedAmount: the claims
  settled,    \* payments.settlementId is set
  lot,        \* the lot behind payments.accruedLotId
  row,        \* the refunds table
  bank,       \* what the acquirer made of each refund
  request,    \* where refund() is, for each key, and what it heard
  sweep,      \* where reconcilePendingRefunds() is
  settler,    \* where a delivery is
  handled     \* the outbox event is processed

vars == <<refunded, settled, lot, row, bank, request, sweep, settler, handled>>

Decided   == {"refunded", "declined"}
NoLot     == [issued |-> 0, original |-> 0, left |-> 0]
NoRow     == [status |-> "absent", amount |-> 0, postings |-> 0, releases |-> 0]
NoRequest == [at |-> "idle", sawLot |-> FALSE]
NoSweep   == [list |-> {}, doing |-> None, heard |-> "nothing", sawLot |-> FALSE]
NoSettler == [at |-> "idle", earns |-> 0]

TypeOK ==
  /\ refunded \in 0..Amount
  /\ settled \in BOOLEAN
  /\ lot \in [issued : Nat, original : 0..Amount * Amount, left : 0..Amount * Amount]
  /\ row \in [Refund -> [status : {"absent", "PENDING", "CONFIRMED", "FAILED"},
                         amount : 0..Amount, postings : Nat, releases : Nat]]
  /\ bank \in [Refund -> {"unasked", "processing"} \cup Decided]
  /\ request \in [Refund -> [at : {"idle", "read", "claimed", "processing", "over"} \cup Decided,
                             sawLot : BOOLEAN]]
  /\ sweep \in [Sweeper -> [list : SUBSET Refund, doing : Refund \cup {None},
                             heard : {"nothing"} \cup Decided, sawLot : BOOLEAN]]
  /\ settler \in [Settler -> [at : {"idle", "read", "claimed", "counted", "returned"},
                              earns : 0..Amount * Amount]]
  /\ handled \in BOOLEAN

Init ==
  /\ refunded = 0 /\ settled = FALSE /\ lot = NoLot /\ handled = FALSE
  /\ row = [r \in Refund |-> NoRow]
  /\ bank = [r \in Refund |-> "unasked"]
  /\ request = [r \in Refund |-> NoRequest]
  /\ sweep = [s \in Sweeper |-> NoSweep]
  /\ settler = [d \in Settler |-> NoSettler]

-----------------------------------------------------------------------------
(* What the acquirer's answer does: applyPspRefundOutcome *)

\* Mutant: no CHECK on the column.
Mutant_NoCheck(r) ==
  /\ refunded' = refunded - row[r].amount
  /\ row' = [row EXCEPT ![r].status = "FAILED", ![r].releases = @ + 1]
  /\ UNCHANGED lot

\* DECLINED: release the claim and fail the refund, in one transaction whatever
\* the row says by now.  The CHECK on refundedAmount may refuse it.
Release(r) ==
  /\ refunded >= row[r].amount
  /\ refunded' = refunded - row[r].amount
  /\ row' = [row EXCEPT ![r].status = "FAILED", ![r].releases = @ + 1]
  /\ UNCHANGED lot

\* clawBackBonus: all of it for a full refund, else the same proportion of what
\* was issued, and never more than is left.
Share(r) ==
  LET cap == (lot.original * row[r].amount) \div Amount IN
  IF row[r].amount = Amount \/ cap > lot.left THEN lot.left ELSE cap

\* finalizeConfirmedRefund: clawback, ledger posting and CONFIRMED commit
\* together.  The payment, and with it accruedLotId, was read earlier.
Finalize(r, sawLot) ==
  /\ lot' = [lot EXCEPT !.left = IF sawLot THEN @ - Share(r) ELSE @]
  /\ row' = [row EXCEPT ![r].status = "CONFIRMED", ![r].postings = @ + 1]
  /\ UNCHANGED refunded

Apply(r, heard, sawLot) ==
  \/ heard = "declined" /\ Release(r)
  \/ heard = "refunded" /\ Finalize(r, sawLot)

-----------------------------------------------------------------------------
(* refund *)

RequestRead(r) ==
  /\ request[r].at = "idle" /\ row[r].status = "absent"
  /\ request' = [request EXCEPT ![r] = [at |-> "read", sawLot |-> lot.issued > 0]]
  /\ UNCHANGED <<refunded, settled, lot, row, bank, sweep, settler, handled>>

\* Mutant: the bound is checked against what refund() read, not in the UPDATE.
Mutant_StaleBound(r, n) ==
  /\ request[r].at = "read"
  /\ refunded' = IF refunded + n > Amount THEN Amount ELSE refunded + n
  /\ row' = [row EXCEPT ![r] = [NoRow EXCEPT !.status = "PENDING", !.amount = n]]
  /\ request' = [request EXCEPT ![r].at = "claimed"]
  /\ UNCHANGED <<settled, lot, bank, sweep, settler, handled>>

\* The claim, bounded by the row as it is now, and the PENDING row.  A second
\* call with the key finds the row and only reports it.
RequestClaim(r, n) ==
  /\ request[r].at = "read"
  /\ refunded + n <= Amount
  /\ refunded' = refunded + n
  /\ row' = [row EXCEPT ![r] = [NoRow EXCEPT !.status = "PENDING", !.amount = n]]
  /\ request' = [request EXCEPT ![r].at = "claimed"]
  /\ UNCHANGED <<settled, lot, bank, sweep, settler, handled>>

\* psp.refund answers.
RequestAsk(r) ==
  /\ request[r].at = "claimed"
  /\ \E b \in {"processing"} \cup Decided :
       /\ bank' = [bank EXCEPT ![r] = b]
       /\ request' = [request EXCEPT ![r].at = b]
  /\ UNCHANGED <<refunded, settled, lot, row, sweep, settler, handled>>

\* Mutant: no answer counts as a success.
Mutant_ThrowIsSuccess(r) ==
  /\ request[r].at = "claimed"
  /\ \E b \in {"unasked", "processing"} \cup Decided : bank' = [bank EXCEPT ![r] = b]
  /\ request' = [request EXCEPT ![r].at = "refunded"]
  /\ UNCHANGED <<refunded, settled, lot, row, sweep, settler, handled>>

\* psp.refund throws: its answer is lost, or it never got there.
RequestAskThrows(r) ==
  /\ request[r].at = "claimed"
  /\ \E b \in {"unasked", "processing"} \cup Decided : bank' = [bank EXCEPT ![r] = b]
  /\ request' = [request EXCEPT ![r].at = "over"]
  /\ UNCHANGED <<refunded, settled, lot, row, sweep, settler, handled>>

\* Mutant: the late "processing" answer is written over what the sweep found.
Mutant_BackToPending(r) ==
  /\ request[r].at = "processing"
  /\ row' = [row EXCEPT ![r].status = "PENDING"]
  /\ request' = [request EXCEPT ![r].at = "over"]
  /\ UNCHANGED <<refunded, settled, lot, bank, sweep, settler, handled>>

\* "PENDING": only the acquirer's reference is stored.
RequestStaysPending(r) ==
  /\ request[r].at = "processing"
  /\ request' = [request EXCEPT ![r].at = "over"]
  /\ UNCHANGED <<refunded, settled, lot, row, bank, sweep, settler, handled>>

RequestApply(r) ==
  /\ Apply(r, request[r].at, request[r].sawLot)
  /\ request' = [request EXCEPT ![r].at = "over"]
  /\ UNCHANGED <<settled, bank, sweep, settler, handled>>

\* The transaction fails, or the process dies.
RequestDies(r) ==
  /\ request[r].at \notin {"idle", "over"}
  /\ request' = [request EXCEPT ![r].at = IF row[r].status = "absent" THEN "idle" ELSE "over"]
  /\ UNCHANGED <<refunded, settled, lot, row, bank, sweep, settler, handled>>

\* The acquirer makes up its mind, once.
BankDecides(r) ==
  /\ bank[r] = "processing"
  /\ \E b \in Decided : bank' = [bank EXCEPT ![r] = b]
  /\ UNCHANGED <<refunded, settled, lot, row, request, sweep, settler, handled>>

-----------------------------------------------------------------------------
(* reconcilePendingRefunds *)

SweepRead(s) ==
  /\ sweep[s] = NoSweep
  /\ \E r \in Refund : row[r].status = "PENDING"
  /\ sweep' = [sweep EXCEPT ![s].list = {r \in Refund : row[r].status = "PENDING"}]
  /\ UNCHANGED <<refunded, settled, lot, row, bank, request, settler, handled>>

\* reconcileOne reads the payment and asks checkRefundStatus.
SweepAsk(s, r) ==
  /\ sweep[s].doing = None /\ r \in sweep[s].list
  /\ sweep' = [sweep EXCEPT ![s] =
       IF bank[r] \in Decided
       THEN [list |-> sweep[s].list \ {r}, doing |-> r, heard |-> bank[r],
             sawLot |-> lot.issued > 0]
       ELSE [sweep[s] EXCEPT !.list = sweep[s].list \ {r}]]
  /\ UNCHANGED <<refunded, settled, lot, row, bank, request, settler, handled>>

\* Mutant: the sweep only completes refunds.
Mutant_OnlyConfirms(s) ==
  /\ sweep[s].doing # None
  /\ IF sweep[s].heard = "refunded" THEN Finalize(sweep[s].doing, sweep[s].sawLot)
                                    ELSE UNCHANGED <<refunded, row, lot>>
  /\ sweep' = [sweep EXCEPT ![s] = [NoSweep EXCEPT !.list = sweep[s].list]]
  /\ UNCHANGED <<settled, bank, request, settler, handled>>

\* The row is not read again.
SweepApply(s) ==
  /\ sweep[s].doing # None
  /\ Apply(sweep[s].doing, sweep[s].heard, sweep[s].sawLot)
  /\ sweep' = [sweep EXCEPT ![s] = [NoSweep EXCEPT !.list = sweep[s].list]]
  /\ UNCHANGED <<settled, bank, request, settler, handled>>

\* Nothing catches: the rest of the list waits for the next tick.
SweepThrows(s) ==
  /\ sweep[s] # NoSweep
  /\ sweep' = [sweep EXCEPT ![s] = NoSweep]
  /\ UNCHANGED <<refunded, settled, lot, row, bank, request, settler, handled>>

-----------------------------------------------------------------------------
(* settlePayment, as the handler of payment.captured *)

\* A customer who may not earn settles without points.
SettleRead(d) ==
  /\ settler[d].at = "idle" /\ ~handled
  /\ \E n \in {0, (Amount - refunded) * Amount} :
       settler' = [settler EXCEPT ![d] = [at |-> "read", earns |-> n]]
  /\ UNCHANGED <<refunded, settled, lot, row, bank, request, sweep, handled>>

\* Mutant: the claim is not conditional.
Mutant_ClaimsAgain(d) ==
  /\ settler[d].at = "read"
  /\ settled' = TRUE
  /\ settler' = [settler EXCEPT ![d].at = "claimed"]
  /\ UNCHANGED <<refunded, lot, row, bank, request, sweep, handled>>

\* The claim, in a transaction of its own; "already settled" is a success.
SettleClaim(d) ==
  /\ settler[d].at = "read"
  /\ settled' = TRUE
  /\ settler' = [settler EXCEPT ![d].at = IF settled THEN "returned" ELSE "claimed"]
  /\ UNCHANGED <<refunded, lot, row, bank, request, sweep, handled>>

\* The counters of the partner's day.
SettleCount(d) ==
  /\ settler[d].at = "claimed"
  /\ settler' = [settler EXCEPT ![d].at = IF settler[d].earns > 0 THEN "counted"
                                                                     ELSE "returned"]
  /\ UNCHANGED <<refunded, settled, lot, row, bank, request, sweep, handled>>

\* accrueAndPostLiability: the lot, its liability and accruedLotId.
SettleAccrue(d) ==
  /\ settler[d].at = "counted"
  /\ lot' = [issued |-> lot.issued + 1, original |-> settler[d].earns, left |-> settler[d].earns]
  /\ settler' = [settler EXCEPT ![d].at = "returned"]
  /\ UNCHANGED <<refunded, settled, row, bank, request, sweep, handled>>

EventHandled(d) ==
  /\ settler[d].at = "returned"
  /\ handled' = TRUE
  /\ settler' = [settler EXCEPT ![d] = NoSettler]
  /\ UNCHANGED <<refunded, settled, lot, row, bank, request, sweep>>

\* A step throws or the process dies; the event is delivered again.
SettlerDies(d) ==
  /\ settler[d].at # "idle"
  /\ settler' = [settler EXCEPT ![d] = NoSettler]
  /\ UNCHANGED <<refunded, settled, lot, row, bank, request, sweep, handled>>

\* The customer spends points.
Spend ==
  /\ lot.left > 0
  /\ \E n \in 1..lot.left : lot' = [lot EXCEPT !.left = @ - n]
  /\ UNCHANGED <<refunded, settled, row, bank, request, sweep, settler, handled>>

-----------------------------------------------------------------------------
RequestStep(r) ==
  \/ RequestRead(r) \/ \E n \in 1..Amount : RequestClaim(r, n)
  \/ RequestAsk(r) \/ RequestAskThrows(r) \/ RequestStaysPending(r)
  \/ RequestApply(r) \/ RequestDies(r)

SweepStep(s) ==
  SweepRead(s) \/ (\E r \in Refund : SweepAsk(s, r)) \/ SweepApply(s) \/ SweepThrows(s)

SettleStep(d) ==
  \/ SettleRead(d) \/ SettleClaim(d) \/ SettleCount(d) \/ SettleAccrue(d)
  \/ EventHandled(d) \/ SettlerDies(d)

Next ==
  \/ \E r \in Refund : RequestStep(r) \/ BankDecides(r)
  \/ \E s \in Sweeper : SweepStep(s)
  \/ \E d \in Settler : SettleStep(d)
  \/ Spend

Spec == Init /\ [][Next]_vars

\* The sweep ticks every two minutes and some tick gets through to the end of
\* its list; the acquirer decides in the end.
Fairness ==
  /\ \A r \in Refund : WF_vars(BankDecides(r))
  /\ \A s \in Sweeper : /\ WF_vars(SweepRead(s))
                        /\ \A r \in Refund : SF_vars(SweepAsk(s, r))
                        /\ SF_vars(SweepApply(s))
                        /\ WF_vars(SweepApply(s) \/ SweepThrows(s))

FairSpec == Spec /\ Fairness

-----------------------------------------------------------------------------
(* Safety *)

Total(R) == SumFunctionOnSet([r \in Refund |-> row[r].amount], R)
PaidBack == {r \in Refund : bank[r] = "refunded"}

\* The books say a refund happened, or failed, only on the acquirer's word.
BooksFollowTheBank ==
  \A r \in Refund :
    /\ row[r].status = "CONFIRMED" => row[r].postings > 0
    /\ row[r].postings > 0 => bank[r] = "refunded"
    /\ row[r].status = "FAILED" => bank[r] = "declined"

\* A refund the books call confirmed or failed stays so, whoever is still late.
AnswersStay ==
  [][\A r \in Refund : row[r].status \in {"CONFIRMED", "FAILED"} =>
       row'[r].status = row[r].status]_vars

\* More than was captured goes back to the customer only if some refund's claim
\* was released more than once (see RefundedWithinCaptured).
BoundedUnlessReleasedTwice ==
  (\A r \in Refund : row[r].releases <= 1) => Total(PaidBack) <= Amount

\* However often and however concurrently the event is delivered.
PointsIssuedOnce == lot.issued <= 1

(* Liveness *)

\* What the acquirer has decided the books learn, however the request ended,
\* unless the claims they would release are gone (a refund released twice).
DecisionReachesTheBooks ==
  \A r \in Refund :
    row[r].status = "PENDING" /\ bank[r] \in Decided
      ~> row[r].status # "PENDING" \/ \E q \in Refund : row[q].releases > 1

-----------------------------------------------------------------------------
(* What the code's comments and tests say and the code does not keep *)

\* "finalizes exactly once".
FinalizedOnce == \A r \in Refund : row[r].postings <= 1

\* "A payment can never be refunded past what was captured".
RefundedWithinCaptured == Total(PaidBack) <= Amount

\* "Money and points reverse together.  A refunded purchase that leaves its
\* loyalty points outstanding is a free-points machine".
Quiet ==
  /\ handled /\ \A r \in Refund : request[r].at \in {"idle", "over"}
  /\ \A s \in Sweeper : sweep[s] = NoSweep
  /\ \A d \in Settler : settler[d] = NoSettler
FullyRefunded == Quiet /\ Total({r \in Refund : row[r].status = "CONFIRMED"}) = Amount
PointsReverse == FullyRefunded => lot.left = 0

\* The same, where settlement had already allowed for an earlier refund: a
\* refund of the very part the points were issued for must take them all.
ShareOfWhatWasIssued ==
  FullyRefunded => \A r \in Refund :
    request[r].sawLot /\ lot.original = row[r].amount * Amount => lot.left = 0

\* "Already settled ... Either way the accrual below has already happened".
ClaimedMeansAccrued ==
  \A d \in Settler : settler[d].at = "returned" /\ settler[d].earns > 0 => lot.issued > 0

\* "does not stay ambiguous forever".
AmbiguityEnds == \A r \in Refund : row[r].status = "PENDING" ~> row[r].status # "PENDING"
=============================================================================

-------------------------- MODULE PspCheckoutProofs --------------------------
(* What PspCheckout guarantees for every set of purchases, bills and staff. *)
EXTENDS PspCheckout, TLAPS

LEMMA TypeInit == Init => TypeOK
BY DEF Init, TypeOK, IntentRow, AttemptRow, Statuses, Routes, Closed, AttemptStatuses,
       Amounts

\* Writing one column of an intent, or one of an attempt, keeps the table well formed.
LEMMA IntentPut ==
  ASSUME intent \in [Purchase -> IntentRow], NEW p \in Purchase
  PROVE  /\ [intent EXCEPT ![p].approved = TRUE] \in [Purchase -> IntentRow]
         /\ [intent EXCEPT ![p].status = "CONFIRMED", ![p].approved = TRUE]
              \in [Purchase -> IntentRow]
         /\ \A st \in Statuses :
              [intent EXCEPT ![p].status = st] \in [Purchase -> IntentRow]
<1>1. intent[p] \in IntentRow
  OBVIOUS
<1>2. /\ [intent[p] EXCEPT !.approved = TRUE] \in IntentRow
      /\ [intent[p] EXCEPT !.status = "CONFIRMED", !.approved = TRUE] \in IntentRow
      /\ \A st \in Statuses : [intent[p] EXCEPT !.status = st] \in IntentRow
  BY <1>1 DEF IntentRow, Statuses
<1> QED
  BY <1>2

LEMMA AttemptPut ==
  ASSUME attempt \in [Bill -> AttemptRow], NEW b \in Bill,
         NEW st \in AttemptStatuses, NEW x \in Staff \cup {None}
  PROVE  /\ [attempt EXCEPT ![b].status = st] \in [Bill -> AttemptRow]
         /\ [attempt EXCEPT ![b] = [@ EXCEPT !.status = st, !.checkedBy = x]]
              \in [Bill -> AttemptRow]
         /\ [attempt EXCEPT ![b] = [@ EXCEPT !.proposedBy = x, !.checkedBy = None]]
              \in [Bill -> AttemptRow]
         /\ \A p \in Purchase :
              [attempt EXCEPT ![b] = [@ EXCEPT !.status = st, !.purchase = p]]
                \in [Bill -> AttemptRow]
<1>1. attempt[b] \in AttemptRow
  OBVIOUS
<1>2. /\ [attempt[b] EXCEPT !.status = st] \in AttemptRow
      /\ [attempt[b] EXCEPT !.status = st, !.checkedBy = x] \in AttemptRow
      /\ [attempt[b] EXCEPT !.proposedBy = x, !.checkedBy = None] \in AttemptRow
      /\ \A p \in Purchase :
           [attempt[b] EXCEPT !.status = st, !.purchase = p] \in AttemptRow
  BY <1>1 DEF AttemptRow
<1> QED
  BY <1>2

LEMMA SucceedType ==
  ASSUME TypeOK, NEW b \in Bill, Succeed(b)
  PROVE  /\ attempt' \in [Bill -> AttemptRow]
         /\ cash' \in [Bill -> Nat]
         /\ settling' \in [Bill -> {"no", "AWAITING_CONFIRMATION", "CONFIRMED"}]
         /\ UNCHANGED <<opening, proposing>>
<1>1. attempt' \in [Bill -> AttemptRow]
  BY AttemptPut DEF TypeOK, Succeed, AttemptStatuses
<1> QED
  BY <1>1 DEF TypeOK, Succeed

\* What a settlement writes to the attempts ...
LEMMA SucceedEffect ==
  ASSUME TypeOK, NEW b \in Bill, Succeed(b)
  PROVE  /\ \A c \in Bill :
              /\ attempt'[c].purchase = attempt[c].purchase
              /\ attempt'[c].proposedBy = attempt[c].proposedBy
              /\ attempt'[c].checkedBy = attempt[c].checkedBy
              /\ attempt'[c].status = IF c = b THEN "SUCCEEDED" ELSE attempt[c].status
              /\ cash'[c] = IF c = b THEN cash[c] + 1 ELSE cash[c]
              /\ settling'[c] = IF c = b THEN "no" ELSE settling[c]
         /\ UNCHANGED opening
<1>1. /\ attempt' = [attempt EXCEPT ![b].status = "SUCCEEDED"]
      /\ cash' = [cash EXCEPT ![b] = @ + 1]
      /\ settling' = [settling EXCEPT ![b] = "no"]
      /\ UNCHANGED opening
  BY DEF Succeed
<1>2. attempt \in [Bill -> AttemptRow] /\ DOMAIN cash = Bill /\ DOMAIN settling = Bill
  BY DEF TypeOK
<1>3. ASSUME NEW c \in Bill
      PROVE  /\ attempt'[c].purchase = attempt[c].purchase
             /\ attempt'[c].proposedBy = attempt[c].proposedBy
             /\ attempt'[c].checkedBy = attempt[c].checkedBy
             /\ attempt'[c].status = IF c = b THEN "SUCCEEDED" ELSE attempt[c].status
  BY <1>1, <1>2 DEF AttemptRow
<1>4. ASSUME NEW c \in Bill
      PROVE  /\ cash'[c] = IF c = b THEN cash[c] + 1 ELSE cash[c]
             /\ settling'[c] = IF c = b THEN "no" ELSE settling[c]
  BY <1>1, <1>2
<1> QED
  BY <1>1, <1>3, <1>4

\* ... and to the purchases.
LEMMA ConfirmedEffect ==
  ASSUME TypeOK, NEW p \in Purchase, Confirmed(p)
  PROVE  /\ \A q \in Purchase :
              /\ intent'[q].route = intent[q].route
              /\ intent'[q].approved = (q = p \/ intent[q].approved)
              /\ intent'[q].status = IF q = p THEN "CONFIRMED" ELSE intent[q].status
         /\ UNCHANGED closing
<1>1. /\ intent' = [intent EXCEPT ![p].status = "CONFIRMED", ![p].approved = TRUE]
      /\ UNCHANGED closing
  BY DEF Confirmed
<1>2. intent \in [Purchase -> IntentRow]
  BY DEF TypeOK
<1>3. ASSUME NEW q \in Purchase
      PROVE  /\ intent'[q].route = intent[q].route
             /\ intent'[q].approved = (q = p \/ intent[q].approved)
             /\ intent'[q].status = IF q = p THEN "CONFIRMED" ELSE intent[q].status
  BY <1>1, <1>2 DEF IntentRow
<1> QED
  BY <1>1, <1>3

LEMMA TypeStep == TypeOK /\ [Next]_vars => TypeOK'
<1> SUFFICES ASSUME TypeOK, [Next]_vars PROVE TypeOK'
  OBVIOUS
<1> USE DEF TypeOK, Statuses, Routes, Closed, AttemptStatuses, Amounts,
            purchaseVars, attemptVars, outsideVars
<1>1. ASSUME NEW p \in Purchase, PurchaseNext(p) PROVE TypeOK'
  <2>1. CASE CreateCheck(p)
    BY <2>1 DEF CreateCheck
  <2>2. CASE CreateReserve(p)
    BY <2>2 DEF CreateReserve
  <2>3. CASE CreateRefused(p)
    BY <2>3 DEF CreateRefused
  <2>4. CASE CreateCrash(p)
    BY <2>4 DEF CreateCrash
  <2>5. CASE \E route \in Routes : CreateInsert(p, route)
    BY <2>5 DEF CreateInsert, IntentRow
  <2>6. CASE PassDeadline(p)
    BY <2>6 DEF PassDeadline
  <2>7. CASE Approve(p)
    BY <2>7, IntentPut DEF Approve
  <2>8. CASE Confirm(p)
    <3>1. intent' \in [Purchase -> IntentRow]
      BY <2>8, IntentPut DEF Confirm, Confirmed
    <3>2. /\ hold' \in [Purchase -> {"NONE", "ACTIVE", "SETTLED", "RELEASED"}]
          /\ contributed' \in [Purchase -> Nat]
      BY <2>8 DEF Confirm, Confirmed
    <3> QED
      BY <2>8, <3>1, <3>2 DEF Confirm, Confirmed
  <2>9. CASE \E target \in Closed : CloseClaim(p, target)
    BY <2>9 DEF CloseClaim
  <2>10. CASE CloseCommit(p)
    BY <2>10, IntentPut DEF CloseCommit
  <2>11. CASE CloseAbort(p)
    BY <2>11 DEF CloseAbort
  <2>12. CASE ReleaseExpiredHold(p)
    BY <2>12 DEF ReleaseExpiredHold
  <2> QED
    BY <1>1, <2>1, <2>2, <2>3, <2>4, <2>5, <2>6, <2>7, <2>8, <2>9, <2>10, <2>11, <2>12
    DEF PurchaseNext
<1>2. ASSUME NEW b \in Bill, BillNext(b) PROVE TypeOK'
  <2>1. CASE \E p \in Purchase : BeginRead(b, p)
    BY <2>1 DEF BeginRead
  <2>2. CASE BeginInsert(b)
    BY <2>2, AttemptPut DEF BeginInsert
  <2>3. CASE BeginDropped(b)
    BY <2>3 DEF BeginDropped
  <2>4. CASE Precheck(b)
    BY <2>4 DEF Precheck
  <2>5. CASE Charge(b)
    BY <2>5 DEF Charge
  <2>6. CASE \E amount \in Amounts : Deliver(b, amount)
    BY <2>6 DEF Deliver
  <2>7. CASE HoldMismatch(b)
    BY <2>7, AttemptPut DEF HoldMismatch
  <2>8. CASE SettleBegin(b)
    BY <2>8 DEF SettleBegin
  <2>9. CASE SettlePurchase(b)
    <3>1. /\ attempt' \in [Bill -> AttemptRow]
          /\ cash' \in [Bill -> Nat]
          /\ settling' \in [Bill -> {"no", "AWAITING_CONFIRMATION", "CONFIRMED"}]
          /\ UNCHANGED <<opening, proposing>>
      BY <2>9, SucceedType DEF SettlePurchase
    <3> DEFINE p == attempt[b].purchase
    <3>2. CASE p \in Purchase
      <4>1. intent' \in [Purchase -> IntentRow]
        BY <2>9, <3>2, IntentPut DEF SettlePurchase, Confirmed
      <4>2. /\ hold' \in [Purchase -> {"NONE", "ACTIVE", "SETTLED", "RELEASED"}]
            /\ contributed' \in [Purchase -> Nat]
        BY <2>9, <3>2 DEF SettlePurchase, Confirmed
      <4> QED
        BY <2>9, <3>1, <4>1, <4>2 DEF SettlePurchase, Confirmed
    <3>3. CASE p \notin Purchase
      BY <2>9, <3>1, <3>3 DEF SettlePurchase, Confirmed
    <3> QED
      BY <3>2, <3>3
  <2>10. CASE SettleResolved(b)
    BY <2>10, SucceedType DEF SettleResolved
  <2>11. CASE SettleAbort(b)
    BY <2>11 DEF SettleAbort, TrySpent
  <2>12. CASE Age(b)
    BY <2>12, AttemptPut DEF Age
  <2>13. CASE TryFails(b)
    BY <2>13 DEF TryFails, TrySpent
  <2> QED
    BY <1>2, <2>1, <2>2, <2>3, <2>4, <2>5, <2>6, <2>7, <2>8, <2>9, <2>10, <2>11, <2>12,
       <2>13
    DEF BillNext
<1>3. ASSUME NEW s \in Staff, StaffNext(s) PROVE TypeOK'
  <2>1. CASE \E b \in Bill : ProposeRead(s, b)
    BY <2>1 DEF ProposeRead
  <2>2. CASE \E b \in Bill : ManualConfirm(s, b)
    <3> PICK b \in Bill : ManualConfirm(s, b)
      BY <2>2
    <3>1. attempt' \in [Bill -> AttemptRow]
      BY AttemptPut DEF ManualConfirm
    <3> QED
      BY <3>1 DEF ManualConfirm
  <2>3. CASE ProposeWrite(s)
    BY <2>3, AttemptPut DEF ProposeWrite
  <2>4. CASE ProposeRefused(s)
    BY <2>4 DEF ProposeRefused
  <2> QED
    BY <1>3, <2>1, <2>2, <2>3, <2>4 DEF StaffNext
<1>4. CASE UNCHANGED vars
  BY <1>4 DEF vars
<1> QED
  BY <1>1, <1>2, <1>3, <1>4 DEF Next

\* Every column keeps to its domain, for any number of rows.
THEOREM TypeCorrect == Spec => []TypeOK
BY TypeInit, TypeStep, PTL DEF Spec

-----------------------------------------------------------------------------
(* The inductive invariant: what is true of the rows between any two steps.  *)

\* An intent exists only after create() has inserted it.
NotYetInserted ==
  \A p \in Purchase : creating[p] # "over" => intent[p].status = "NONE"

\* An open close transaction holds the row of a purchase still awaiting.
CloserHoldsRow ==
  \A p \in Purchase : closing[p] # "no" => Awaiting(p)

\* p may be paid through the provider: what the insert trigger has seen.
Payable(p) ==
  /\ intent[p].status # "NONE"
  /\ intent[p].route = "TUTAK_PSP" /\ intent[p].approved

\* Attempts, existing and about to exist, belong to purchases that may be paid.
AttemptsArePayable ==
  \A b \in Bill :
    /\ attempt[b].status = "NONE" <=> attempt[b].purchase = None
    /\ attempt[b].purchase # None => Payable(attempt[b].purchase)
    /\ opening[b] # None => attempt[b].status = "NONE" /\ Payable(opening[b])

\* A bill the provider may be paid for: nobody has it open for closing.
PayableBillIsOpen ==
  \A b \in Bill :
    provider[b] # "unasked" =>
      /\ attempt[b].status # "NONE"
      /\ \/ attempt[b].status = "FAILED"
         \/ intent[attempt[b].purchase].status = "CONFIRMED"
         \/ Awaiting(attempt[b].purchase) /\ closing[attempt[b].purchase] = "no"

\* Only money the provider has taken is called back about.
CallbacksAreTrue ==
  \A b \in Bill, a \in Amounts : <<b, a>> \in inbox => provider[b] = "charged"

\* A settlement holds an attempt that is confirmable and was called back about.
SettlementHoldsRow ==
  \A b \in Bill :
    settling[b] # "no" => attempt[b].status \in Confirmable /\ <<b, "billed">> \in inbox

IInv ==
  /\ TypeOK
  /\ NotYetInserted
  /\ CloserHoldsRow
  /\ AttemptsArePayable
  /\ PayableBillIsOpen
  /\ CallbacksAreTrue
  /\ SettlementHoldsRow
  /\ MoneyFollowsPurchase
  /\ EconomicsFollowPurchase
  /\ OnePurchaseInFlight
  /\ ManualTakesTwo

(* Which step writes which row. *)

LEMMA PurchaseStepFrame ==
  ASSUME NEW p \in Purchase, PurchaseNext(p)
  PROVE  UNCHANGED <<attempt, opening, settling, cash, proposing, provider, inbox>>
BY DEF PurchaseNext, CreateCheck, CreateReserve, CreateInsert, CreateRefused, CreateCrash,
       PassDeadline, Approve, Confirm, CloseClaim, CloseCommit, CloseAbort,
       ReleaseExpiredHold, attemptVars, outsideVars

\* Of a bill's steps only the settlement of its purchase writes a purchase.
LEMMA BillStepFrame ==
  ASSUME NEW b \in Bill, BillNext(b), ~SettlePurchase(b)
  PROVE  UNCHANGED <<intent, hold, closing, contributed, overdue, creating>>
BY DEF BillNext, BeginRead, BeginInsert, BeginDropped, Precheck, Charge, Deliver,
       HoldMismatch, SettleBegin, TryFails, SettleResolved, SettleAbort, Age, purchaseVars

\* The steps of a bill that write no attempt.
ReadsOnly(b) ==
  \/ \E p \in Purchase : BeginRead(b, p)
  \/ BeginDropped(b) \/ Precheck(b) \/ Charge(b)
  \/ \E amount \in Amounts : Deliver(b, amount)
  \/ SettleBegin(b) \/ TryFails(b) \/ SettleAbort(b)

LEMMA ReadsOnlyFrame ==
  ASSUME NEW b \in Bill, ReadsOnly(b)
  PROVE  UNCHANGED <<intent, hold, closing, contributed, attempt, cash>>
BY DEF ReadsOnly, BeginRead, BeginDropped, Precheck, Charge, Deliver, SettleBegin,
       TryFails, SettleAbort, purchaseVars, attemptVars

LEMMA StaffStepFrame ==
  ASSUME NEW s \in Staff, StaffNext(s)
  PROVE  UNCHANGED <<intent, hold, closing, contributed, overdue, creating, opening,
                     settling, cash, provider, inbox>>
BY DEF StaffNext, ProposeRead, ManualConfirm, ProposeWrite, ProposeRefused, purchaseVars,
       outsideVars

\* create() gives the row its first status; no other handler finds it before.
LEMMA NotYetInsertedStep == IInv /\ [Next]_vars => NotYetInserted'
<1> SUFFICES ASSUME TypeOK, NotYetInserted, CloserHoldsRow, [Next]_vars
         PROVE  NotYetInserted'
  BY DEF IInv
<1> USE DEF TypeOK, IntentRow, AttemptRow, Statuses, AttemptStatuses, Closed,
       NotYetInserted, CloserHoldsRow, Awaiting, purchaseVars, attemptVars, outsideVars
<1>1. ASSUME NEW p \in Purchase, PurchaseNext(p) PROVE NotYetInserted'
  <2>1. CASE CreateCheck(p)
    BY <2>1 DEF CreateCheck
  <2>2. CASE CreateReserve(p)
    BY <2>2 DEF CreateReserve
  <2>3. CASE CreateRefused(p)
    BY <2>3 DEF CreateRefused
  <2>4. CASE CreateCrash(p)
    BY <2>4 DEF CreateCrash
  <2>5. CASE \E route \in Routes : CreateInsert(p, route)
    BY <2>5 DEF CreateInsert
  <2>6. CASE Approve(p)
    BY <2>6 DEF Approve
  <2>7. CASE Confirm(p)
    BY <2>7 DEF Confirm, Confirmed
  <2>8. CASE CloseCommit(p)
    BY <2>8 DEF CloseCommit
  <2>9. CASE \/ PassDeadline(p)
             \/ \E target \in Closed : CloseClaim(p, target)
             \/ CloseAbort(p)
             \/ ReleaseExpiredHold(p)
    BY <2>9 DEF PassDeadline, CloseClaim, CloseAbort, ReleaseExpiredHold
  <2> QED
    BY <1>1, <2>1, <2>2, <2>3, <2>4, <2>5, <2>6, <2>7, <2>8, <2>9 DEF PurchaseNext
<1>2. ASSUME NEW b \in Bill, BillNext(b) PROVE NotYetInserted'
  <2>1. CASE SettlePurchase(b)
    BY <2>1 DEF SettlePurchase, Confirmed, Succeed
  <2>2. CASE ~SettlePurchase(b)
    <3>1. UNCHANGED <<intent, hold, closing, contributed, creating>>
      BY <1>2, <2>2, BillStepFrame
    <3> QED
      BY <3>1
  <2> QED
    BY <2>1, <2>2
<1>3. ASSUME NEW s \in Staff, StaffNext(s) PROVE NotYetInserted'
  <2>1. UNCHANGED <<intent, hold, closing, contributed, creating>>
    BY <1>3, StaffStepFrame
  <2> QED
    BY <2>1
<1>4. CASE UNCHANGED vars
  BY <1>4 DEF vars
<1> QED
  BY <1>1, <1>2, <1>3, <1>4 DEF Next

\* Nobody confirms or closes a purchase whose row a close transaction holds.
LEMMA CloserHoldsRowStep == IInv /\ [Next]_vars => CloserHoldsRow'
<1> SUFFICES ASSUME TypeOK, CloserHoldsRow, [Next]_vars
         PROVE  CloserHoldsRow'
  BY DEF IInv
<1> USE DEF TypeOK, IntentRow, AttemptRow, Statuses, AttemptStatuses, Closed,
       CloserHoldsRow, Awaiting, purchaseVars, attemptVars, outsideVars
<1>1. ASSUME NEW p \in Purchase, PurchaseNext(p) PROVE CloserHoldsRow'
  <2>1. CASE \E route \in Routes : CreateInsert(p, route)
    BY <2>1 DEF CreateInsert
  <2>2. CASE Approve(p)
    BY <2>2 DEF Approve
  <2>3. CASE Confirm(p)
    BY <2>3 DEF Confirm, Confirmed
  <2>4. CASE \E target \in Closed : CloseClaim(p, target)
    BY <2>4 DEF CloseClaim
  <2>5. CASE CloseCommit(p)
    BY <2>5 DEF CloseCommit
  <2>6. CASE CloseAbort(p)
    BY <2>6 DEF CloseAbort
  <2>7. CASE \/ CreateCheck(p)
             \/ CreateReserve(p)
             \/ CreateRefused(p)
             \/ CreateCrash(p)
             \/ PassDeadline(p)
             \/ ReleaseExpiredHold(p)
    BY <2>7 DEF CreateCheck, CreateReserve, CreateRefused, CreateCrash, PassDeadline,
           ReleaseExpiredHold
  <2> QED
    BY <1>1, <2>1, <2>2, <2>3, <2>4, <2>5, <2>6, <2>7 DEF PurchaseNext
<1>2. ASSUME NEW b \in Bill, BillNext(b) PROVE CloserHoldsRow'
  <2>1. CASE SettlePurchase(b)
    BY <2>1 DEF SettlePurchase, Confirmed, Succeed
  <2>2. CASE ~SettlePurchase(b)
    <3>1. UNCHANGED <<intent, hold, closing, contributed, creating>>
      BY <1>2, <2>2, BillStepFrame
    <3> QED
      BY <3>1
  <2> QED
    BY <2>1, <2>2
<1>3. ASSUME NEW s \in Staff, StaffNext(s) PROVE CloserHoldsRow'
  <2>1. UNCHANGED <<intent, hold, closing, contributed, creating>>
    BY <1>3, StaffStepFrame
  <2> QED
    BY <2>1
<1>4. CASE UNCHANGED vars
  BY <1>4 DEF vars
<1> QED
  BY <1>1, <1>2, <1>3, <1>4 DEF Next

\* The insert trigger's two conditions never change back.
LEMMA AttemptsArePayableStep == IInv /\ [Next]_vars => AttemptsArePayable'
<1> SUFFICES ASSUME TypeOK, NotYetInserted, CloserHoldsRow, AttemptsArePayable,
                  SettlementHoldsRow, [Next]_vars
         PROVE  AttemptsArePayable'
  BY DEF IInv
\* A step by which no attempt changes hands and no purchase stops being payable.
<1>k. ASSUME opening' = opening,
             \A c \in Bill :
               /\ attempt'[c].purchase = attempt[c].purchase
               /\ attempt'[c].status = "NONE" <=> attempt[c].status = "NONE",
             \A q \in Purchase : Payable(q) => Payable(q)'
      PROVE  AttemptsArePayable'
  <2>1. \A c \in Bill : /\ attempt[c].purchase \in Purchase \cup {None}
                        /\ opening[c] \in Purchase \cup {None}
    BY DEF TypeOK, AttemptRow
  <2> QED
    BY <1>k, <2>1 DEF AttemptsArePayable
<1>c. ASSUME NEW p \in Purchase, Confirmed(p)
      PROVE  \A q \in Purchase : Payable(q) => Payable(q)'
  BY <1>c, ConfirmedEffect DEF Payable
\* Settlement works on an attempt that exists, so its purchase does too.
<1>s. ASSUME NEW b \in Bill, settling[b] # "no"
      PROVE  attempt[b].purchase \in Purchase /\ attempt[b].status \in Confirmable
  <2>1. attempt[b].status \in Confirmable
    BY <1>s DEF SettlementHoldsRow
  <2>2. attempt[b].purchase \in Purchase \cup {None}
    BY DEF TypeOK, AttemptRow
  <2> QED
    BY <2>1, <2>2 DEF AttemptsArePayable, Confirmable
<1>u. ASSUME NEW b \in Bill, settling[b] # "no", Succeed(b)
      PROVE  /\ opening' = opening
             /\ \A c \in Bill :
                  /\ attempt'[c].purchase = attempt[c].purchase
                  /\ attempt'[c].status = "NONE" <=> attempt[c].status = "NONE"
  BY <1>u, <1>s, SucceedEffect DEF Confirmable
<1> USE DEF TypeOK, IntentRow, AttemptRow, Statuses, AttemptStatuses, Closed,
       NotYetInserted, CloserHoldsRow, AttemptsArePayable, SettlementHoldsRow, Payable,
       Awaiting, Live, Confirmable, Reconcilable, Unlocked, purchaseVars, attemptVars,
       outsideVars
<1> USE NoneIsNew
<1>1. ASSUME NEW p \in Purchase, PurchaseNext(p) PROVE AttemptsArePayable'
  <2>1. CASE \E route \in Routes : CreateInsert(p, route)
    BY <2>1 DEF CreateInsert
  <2>2. CASE Approve(p)
    BY <2>2 DEF Approve
  <2>3. CASE Confirm(p)
    <3>1. Confirmed(p) /\ attempt' = attempt /\ opening' = opening
      BY <2>3 DEF Confirm
    <3> QED
      BY <3>1, <1>c, <1>k
  <2>4. CASE CloseCommit(p)
    BY <2>4, SMTT(30) DEF CloseCommit
  <2>5. CASE \/ CreateCheck(p)
             \/ CreateReserve(p)
             \/ CreateRefused(p)
             \/ CreateCrash(p)
             \/ PassDeadline(p)
             \/ \E target \in Closed : CloseClaim(p, target)
             \/ CloseAbort(p)
             \/ ReleaseExpiredHold(p)
    BY <2>5 DEF CreateCheck, CreateReserve, CreateRefused, CreateCrash, PassDeadline,
           CloseClaim, CloseAbort, ReleaseExpiredHold
  <2> QED
    BY <1>1, <2>1, <2>2, <2>3, <2>4, <2>5 DEF PurchaseNext
<1>2. ASSUME NEW b \in Bill, BillNext(b) PROVE AttemptsArePayable'
  <2>1. CASE \E p \in Purchase : BeginRead(b, p)
    BY <2>1 DEF BeginRead
  <2>2. CASE BeginInsert(b)
    BY <2>2 DEF BeginInsert
  <2>3. CASE BeginDropped(b)
    BY <2>3 DEF BeginDropped
  <2>4. CASE HoldMismatch(b)
    BY <2>4 DEF HoldMismatch
  <2>5. CASE SettlePurchase(b)
    <3>1. settling[b] # "no" /\ Succeed(b) /\ Confirmed(attempt[b].purchase)
      BY <2>5 DEF SettlePurchase
    <3> QED
      BY <3>1, <1>s, <1>u, <1>c, <1>k
  <2>6. CASE SettleResolved(b)
    <3>1. settling[b] # "no" /\ Succeed(b) /\ intent' = intent
      BY <2>6 DEF SettleResolved
    <3> QED
      BY <3>1, <1>u, <1>k
  <2>7. CASE Age(b)
    BY <2>7 DEF Age
  <2>8. CASE \/ Precheck(b)
             \/ Charge(b)
             \/ \E amount \in Amounts : Deliver(b, amount)
             \/ SettleBegin(b)
             \/ TryFails(b)
             \/ SettleAbort(b)
    <3>1. UNCHANGED <<intent, attempt, opening>>
      BY <2>8 DEF Precheck, Charge, Deliver, SettleBegin, TryFails, SettleAbort
    <3> QED
      BY <3>1, <1>k
  <2> QED
    BY <1>2, <2>1, <2>2, <2>3, <2>4, <2>5, <2>6, <2>7, <2>8 DEF BillNext
<1>3. ASSUME NEW s \in Staff, StaffNext(s) PROVE AttemptsArePayable'
  <2>1. CASE \E b \in Bill : ManualConfirm(s, b)
    BY <2>1 DEF ManualConfirm
  <2>2. CASE ProposeWrite(s)
    BY <2>2 DEF ProposeWrite
  <2>3. CASE \/ \E b \in Bill : ProposeRead(s, b)
             \/ ProposeRefused(s)
    BY <2>3 DEF ProposeRead, ProposeRefused
  <2> QED
    BY <1>3, <2>1, <2>2, <2>3 DEF StaffNext
<1>4. CASE UNCHANGED vars
  BY <1>4 DEF vars
<1> QED
  BY <1>1, <1>2, <1>3, <1>4 DEF Next

\* A close begins only where no attempt is unsafe, a pre-check says yes only where
\* no close has begun, and settlement confirms: the heart of ChargedIsNotAbandoned.
LEMMA PayableBillIsOpenStep == IInv /\ [Next]_vars => PayableBillIsOpen'
<1> SUFFICES ASSUME TypeOK, NotYetInserted, CloserHoldsRow, AttemptsArePayable,
                  PayableBillIsOpen, CallbacksAreTrue, SettlementHoldsRow, [Next]_vars
         PROVE  PayableBillIsOpen'
  BY DEF IInv
\* A step that leaves purchases and provider alone and keeps two people's answer.
<1>k. ASSUME UNCHANGED <<intent, closing, provider>>,
             \A c \in Bill :
               /\ attempt'[c].purchase = attempt[c].purchase
               /\ \/ attempt'[c].status = attempt[c].status
                  \/ attempt[c].status \in Confirmable /\ attempt'[c].status # "NONE"
      PROVE  PayableBillIsOpen'
  <2> SUFFICES ASSUME NEW c \in Bill, provider[c] # "unasked"
               PROVE  /\ attempt'[c].status # "NONE"
                      /\ \/ attempt'[c].status = "FAILED"
                         \/ intent[attempt[c].purchase].status = "CONFIRMED"
                         \/ /\ intent[attempt[c].purchase].status = "AWAITING_CONFIRMATION"
                            /\ closing[attempt[c].purchase] = "no"
    BY <1>k DEF PayableBillIsOpen, Awaiting
  <2> QED
    BY <1>k DEF PayableBillIsOpen, Awaiting, Confirmable
<1> USE DEF TypeOK, IntentRow, AttemptRow, Statuses, AttemptStatuses, Closed,
       NotYetInserted, CloserHoldsRow, AttemptsArePayable, PayableBillIsOpen,
       CallbacksAreTrue, SettlementHoldsRow, Payable, Awaiting, Unsafe, AttemptsOf,
       MoneyMayHaveMoved, Live, Confirmable, Reconcilable, Unlocked, Amounts,
       purchaseVars, attemptVars, outsideVars
<1>1. ASSUME NEW p \in Purchase, PurchaseNext(p) PROVE PayableBillIsOpen'
  <2>1. CASE \E route \in Routes : CreateInsert(p, route)
    BY <2>1 DEF CreateInsert
  <2>2. CASE Approve(p)
    BY <2>2 DEF Approve
  <2>3. CASE Confirm(p)
    BY <2>3 DEF Confirm, Confirmed
  <2>4. CASE \E target \in Closed : CloseClaim(p, target)
    BY <2>4 DEF CloseClaim
  <2>5. CASE CloseCommit(p)
    BY <2>5 DEF CloseCommit
  <2>6. CASE CloseAbort(p)
    BY <2>6 DEF CloseAbort
  <2>7. CASE \/ CreateCheck(p)
             \/ CreateReserve(p)
             \/ CreateRefused(p)
             \/ CreateCrash(p)
             \/ PassDeadline(p)
             \/ ReleaseExpiredHold(p)
    BY <2>7 DEF CreateCheck, CreateReserve, CreateRefused, CreateCrash, PassDeadline,
           ReleaseExpiredHold
  <2> QED
    BY <1>1, <2>1, <2>2, <2>3, <2>4, <2>5, <2>6, <2>7 DEF PurchaseNext
<1>2. ASSUME NEW b \in Bill, BillNext(b) PROVE PayableBillIsOpen'
  <2>1. CASE BeginInsert(b)
    BY <2>1 DEF BeginInsert
  <2>2. CASE Precheck(b)
    BY <2>2 DEF Precheck
  <2>3. CASE Charge(b)
    BY <2>3 DEF Charge
  <2>4. CASE HoldMismatch(b)
    BY <2>4 DEF HoldMismatch
  <2>5. CASE SettlePurchase(b)
    BY <2>5 DEF SettlePurchase, Confirmed, Succeed
  <2>6. CASE SettleResolved(b)
    <3>s. Succeed(b)
      BY <2>6 DEF SettleResolved
    <3>1. \A c \in Bill :
            /\ attempt'[c].purchase = attempt[c].purchase
            /\ attempt'[c].status = IF c = b THEN "SUCCEEDED" ELSE attempt[c].status
      BY <3>s, SucceedEffect
    <3>2. attempt[b].status \in Confirmable /\ UNCHANGED <<intent, closing, provider>>
      BY <2>6 DEF SettleResolved
    <3> QED
      BY <3>1, <3>2, <1>k
  <2>7. CASE Age(b)
    BY <2>7 DEF Age
  <2>8. CASE ReadsOnly(b)
    <3>1. UNCHANGED <<intent, closing, attempt>>
      BY <2>8, ReadsOnlyFrame
    <3>2. CASE provider' = provider
      BY <3>1, <3>2, <1>k
    <3> QED
      BY <3>1, <3>2, <2>8, <2>2, <2>3
           DEF ReadsOnly, BeginRead, BeginDropped, Deliver, SettleBegin, TryFails,
               SettleAbort
  <2> QED
    BY <1>2, <2>1, <2>2, <2>3, <2>4, <2>5, <2>6, <2>7, <2>8 DEF BillNext, ReadsOnly
<1>3. ASSUME NEW s \in Staff, StaffNext(s) PROVE PayableBillIsOpen'
  <2>1. CASE \E b \in Bill : ManualConfirm(s, b)
    BY <2>1 DEF ManualConfirm
  <2>2. CASE ProposeWrite(s)
    BY <2>2 DEF ProposeWrite
  <2>3. CASE \/ \E b \in Bill : ProposeRead(s, b)
             \/ ProposeRefused(s)
    BY <2>3 DEF ProposeRead, ProposeRefused
  <2> QED
    BY <1>3, <2>1, <2>2, <2>3 DEF StaffNext
<1>4. CASE UNCHANGED vars
  BY <1>4 DEF vars
<1> QED
  BY <1>1, <1>2, <1>3, <1>4 DEF Next

\* The provider does not give money back.
LEMMA CallbacksAreTrueStep == IInv /\ [Next]_vars => CallbacksAreTrue'
<1> SUFFICES ASSUME TypeOK, CallbacksAreTrue, [Next]_vars
         PROVE  CallbacksAreTrue'
  BY DEF IInv
<1> USE DEF TypeOK, IntentRow, AttemptRow, Statuses, AttemptStatuses, Closed,
       CallbacksAreTrue, Amounts, purchaseVars, attemptVars, outsideVars
<1>1. ASSUME NEW p \in Purchase, PurchaseNext(p) PROVE CallbacksAreTrue'
  <2>1. UNCHANGED <<attempt, opening, settling, cash, proposing, provider, inbox>>
    BY <1>1, PurchaseStepFrame
  <2> QED
    BY <2>1
<1>2. ASSUME NEW b \in Bill, BillNext(b) PROVE CallbacksAreTrue'
  <2>1. CASE Precheck(b)
    BY <2>1 DEF Precheck
  <2>2. CASE Charge(b)
    BY <2>2 DEF Charge
  <2>3. CASE \E amount \in Amounts : Deliver(b, amount)
    BY <2>3 DEF Deliver
  <2>4. CASE \/ \E p \in Purchase : BeginRead(b, p)
             \/ BeginInsert(b)
             \/ BeginDropped(b)
             \/ HoldMismatch(b)
             \/ SettleBegin(b)
             \/ TryFails(b)
             \/ SettlePurchase(b)
             \/ SettleResolved(b)
             \/ SettleAbort(b)
             \/ Age(b)
    BY <2>4 DEF BeginRead, BeginInsert, BeginDropped, HoldMismatch, SettleBegin,
           TryFails, SettlePurchase, Confirmed, Succeed, SettleResolved, SettleAbort, Age
  <2> QED
    BY <1>2, <2>1, <2>2, <2>3, <2>4 DEF BillNext
<1>3. ASSUME NEW s \in Staff, StaffNext(s) PROVE CallbacksAreTrue'
  BY <1>3 DEF StaffNext, ProposeRead, ManualConfirm, ProposeWrite, ProposeRefused
<1>4. CASE UNCHANGED vars
  BY <1>4 DEF vars
<1> QED
  BY <1>1, <1>2, <1>3, <1>4 DEF Next

\* The row lock: whoever writes an attempt finds it unlocked.
LEMMA SettlementHoldsRowStep == IInv /\ [Next]_vars => SettlementHoldsRow'
<1> SUFFICES ASSUME TypeOK, AttemptsArePayable, SettlementHoldsRow, [Next]_vars
         PROVE  SettlementHoldsRow'
  BY DEF IInv
<1> USE DEF TypeOK, IntentRow, AttemptRow, Statuses, AttemptStatuses, Closed,
       AttemptsArePayable, SettlementHoldsRow, Confirmable, Unlocked, Live,
       purchaseVars, attemptVars, outsideVars
<1>1. ASSUME NEW p \in Purchase, PurchaseNext(p) PROVE SettlementHoldsRow'
  <2>1. UNCHANGED <<attempt, opening, settling, cash, proposing, provider, inbox>>
    BY <1>1, PurchaseStepFrame
  <2> QED
    BY <2>1
<1>2. ASSUME NEW b \in Bill, BillNext(b) PROVE SettlementHoldsRow'
  <2>1. CASE BeginInsert(b)
    BY <2>1 DEF BeginInsert
  <2>2. CASE \E amount \in Amounts : Deliver(b, amount)
    BY <2>2 DEF Deliver
  <2>3. CASE HoldMismatch(b)
    BY <2>3 DEF HoldMismatch
  <2>4. CASE SettleBegin(b)
    <3>1. /\ attempt[b].status \in Confirmable /\ <<b, "billed">> \in inbox
          /\ \A c \in Bill : c # b => settling'[c] = settling[c]
          /\ attempt' = attempt /\ inbox' = inbox
      BY <2>4 DEF SettleBegin, TryLeft
    <3> QED
      BY <3>1
  <2>5. CASE SettlePurchase(b) \/ SettleResolved(b)
    <3>1. Succeed(b) /\ inbox' = inbox
      BY <2>5 DEF SettlePurchase, SettleResolved
    <3>2. \A c \in Bill :
            /\ attempt'[c].status = IF c = b THEN "SUCCEEDED" ELSE attempt[c].status
            /\ settling'[c] = IF c = b THEN "no" ELSE settling[c]
      BY <3>1, SucceedEffect
    <3> QED
      BY <3>1, <3>2
  <2>7. CASE SettleAbort(b)
    BY <2>7 DEF SettleAbort
  <2>8. CASE Age(b)
    BY <2>8 DEF Age
  <2>9. CASE \/ \E p \in Purchase : BeginRead(b, p)
             \/ BeginDropped(b)
             \/ Precheck(b)
             \/ Charge(b)
             \/ TryFails(b)
    BY <2>9 DEF BeginRead, BeginDropped, Precheck, Charge, TryFails
  <2> QED
    BY <1>2, <2>1, <2>2, <2>3, <2>4, <2>5, <2>7, <2>8, <2>9 DEF BillNext
<1>3. ASSUME NEW s \in Staff, StaffNext(s) PROVE SettlementHoldsRow'
  <2>1. CASE \E b \in Bill : ManualConfirm(s, b)
    BY <2>1 DEF ManualConfirm
  <2>2. CASE ProposeWrite(s)
    BY <2>2 DEF ProposeWrite
  <2>3. CASE \/ \E b \in Bill : ProposeRead(s, b)
             \/ ProposeRefused(s)
    BY <2>3 DEF ProposeRead, ProposeRefused
  <2> QED
    BY <1>3, <2>1, <2>2, <2>3 DEF StaffNext
<1>4. CASE UNCHANGED vars
  BY <1>4 DEF vars
<1> QED
  BY <1>1, <1>2, <1>3, <1>4 DEF Next

\* Settlement starts from a confirmable attempt and ends in one step.
LEMMA MoneyFollowsPurchaseStep == IInv /\ [Next]_vars => MoneyFollowsPurchase'
<1> SUFFICES ASSUME TypeOK, NotYetInserted, CloserHoldsRow, AttemptsArePayable,
                  PayableBillIsOpen, CallbacksAreTrue, SettlementHoldsRow, MoneyFollowsPurchase,
                  [Next]_vars
         PROVE  MoneyFollowsPurchase'
  BY DEF IInv
\* A settlement works on an attempt that exists, so its purchase does too.
<1>s. ASSUME NEW b \in Bill, settling[b] # "no"
      PROVE  attempt[b].purchase \in Purchase /\ attempt[b].status \in Confirmable
  <2>1. attempt[b].status \in Confirmable
    BY <1>s DEF SettlementHoldsRow
  <2>2. attempt[b].purchase \in Purchase \cup {None}
    BY DEF TypeOK, AttemptRow
  <2> QED
    BY <2>1, <2>2 DEF AttemptsArePayable, Confirmable
<1> USE DEF TypeOK, IntentRow, AttemptRow, Statuses, AttemptStatuses, Closed,
       NotYetInserted, CloserHoldsRow, AttemptsArePayable, PayableBillIsOpen,
       CallbacksAreTrue, SettlementHoldsRow, MoneyFollowsPurchase, Payable, Awaiting,
       Live, Confirmable, Reconcilable, Unlocked, Amounts, purchaseVars, attemptVars,
       outsideVars
<1>1. ASSUME NEW p \in Purchase, PurchaseNext(p) PROVE MoneyFollowsPurchase'
  <2>1. CASE \E route \in Routes : CreateInsert(p, route)
    BY <2>1 DEF CreateInsert
  <2>2. CASE Approve(p)
    BY <2>2 DEF Approve
  <2>3. CASE Confirm(p)
    BY <2>3 DEF Confirm, Confirmed
  <2>4. CASE CloseCommit(p)
    BY <2>4 DEF CloseCommit
  <2>5. CASE \/ CreateCheck(p)
             \/ CreateReserve(p)
             \/ CreateRefused(p)
             \/ CreateCrash(p)
             \/ PassDeadline(p)
             \/ \E target \in Closed : CloseClaim(p, target)
             \/ CloseAbort(p)
             \/ ReleaseExpiredHold(p)
    BY <2>5 DEF CreateCheck, CreateReserve, CreateRefused, CreateCrash, PassDeadline,
           CloseClaim, CloseAbort, ReleaseExpiredHold
  <2> QED
    BY <1>1, <2>1, <2>2, <2>3, <2>4, <2>5 DEF PurchaseNext
<1>2. ASSUME NEW b \in Bill, BillNext(b) PROVE MoneyFollowsPurchase'
  <2>1. CASE BeginInsert(b)
    BY <2>1 DEF BeginInsert
  <2>2. CASE HoldMismatch(b)
    BY <2>2 DEF HoldMismatch
  <2>3. CASE SettlePurchase(b)
    <3>s. Succeed(b) /\ Confirmed(attempt[b].purchase)
      BY <2>3 DEF SettlePurchase
    <3>0. settling[b] # "no"
      BY <2>3 DEF SettlePurchase
    <3>1. attempt[b].purchase \in Purchase /\ attempt[b].status \in Confirmable
      BY <3>0, <1>s
    <3>2. \A c \in Bill :
            /\ attempt'[c].purchase = attempt[c].purchase
            /\ attempt'[c].status = IF c = b THEN "SUCCEEDED" ELSE attempt[c].status
            /\ cash'[c] = IF c = b THEN cash[c] + 1 ELSE cash[c]
      BY <3>s, SucceedEffect
    <3>3. \A q \in Purchase :
            intent'[q].status =
              IF q = attempt[b].purchase THEN "CONFIRMED" ELSE intent[q].status
      BY <3>s, <3>1, ConfirmedEffect
    <3>4. ASSUME NEW c \in Bill
          PROVE  /\ cash'[c] = IF attempt'[c].status = "SUCCEEDED" THEN 1 ELSE 0
                 /\ attempt'[c].status = "SUCCEEDED"
                      => intent'[attempt'[c].purchase].status = "CONFIRMED"
      <4>1. attempt[c].status # "NONE" => attempt[c].purchase \in Purchase
        OBVIOUS
      <4>2. CASE c = b
        <5>1. attempt[b].status # "SUCCEEDED" /\ cash[b] = 0
          BY <3>1
        <5>2. /\ attempt'[c].status = "SUCCEEDED" /\ cash'[c] = 1
              /\ attempt'[c].purchase = attempt[b].purchase
          BY <3>2, <4>2, <5>1
        <5> QED
          BY <3>1, <3>3, <5>2
      <4>3. CASE c # b
        BY <3>2, <3>3, <4>1, <4>3
      <4> QED
        BY <4>2, <4>3
    <3> QED
      BY <3>4
  <2>4. CASE SettleResolved(b)
    <3>s. Succeed(b)
      BY <2>4 DEF SettleResolved
    <3>1. /\ attempt[b].status \in Confirmable /\ intent' = intent
          /\ intent[attempt[b].purchase].status = "CONFIRMED"
      BY <2>4 DEF SettleResolved
    <3>2. \A c \in Bill :
            /\ attempt'[c].purchase = attempt[c].purchase
            /\ attempt'[c].status = IF c = b THEN "SUCCEEDED" ELSE attempt[c].status
            /\ cash'[c] = IF c = b THEN cash[c] + 1 ELSE cash[c]
      BY <3>s, SucceedEffect
    <3>3. ASSUME NEW c \in Bill
          PROVE  /\ cash'[c] = IF attempt'[c].status = "SUCCEEDED" THEN 1 ELSE 0
                 /\ attempt'[c].status = "SUCCEEDED"
                      => intent'[attempt'[c].purchase].status = "CONFIRMED"
      <4>1. CASE c = b
        <5>1. attempt[b].status # "SUCCEEDED" /\ cash[b] = 0
          BY <3>1
        <5>2. /\ attempt'[c].status = "SUCCEEDED" /\ cash'[c] = 1
              /\ attempt'[c].purchase = attempt[b].purchase
          BY <3>2, <4>1, <5>1
        <5> QED
          BY <3>1, <5>2
      <4>2. CASE c # b
        BY <3>1, <3>2, <4>2
      <4> QED
        BY <4>1, <4>2
    <3> QED
      BY <3>3
  <2>5. CASE Age(b)
    BY <2>5 DEF Age
  <2>6. CASE ReadsOnly(b)
    <3>1. UNCHANGED <<intent, attempt, cash>>
      BY <2>6, ReadsOnlyFrame
    <3> QED
      BY <3>1
  <2> QED
    BY <1>2, <2>1, <2>2, <2>3, <2>4, <2>5, <2>6 DEF BillNext, ReadsOnly
<1>3. ASSUME NEW s \in Staff, StaffNext(s) PROVE MoneyFollowsPurchase'
  <2>1. CASE \E b \in Bill : ManualConfirm(s, b)
    BY <2>1 DEF ManualConfirm
  <2>2. CASE ProposeWrite(s)
    BY <2>2 DEF ProposeWrite
  <2>3. CASE \/ \E b \in Bill : ProposeRead(s, b)
             \/ ProposeRefused(s)
    BY <2>3 DEF ProposeRead, ProposeRefused
  <2> QED
    BY <1>3, <2>1, <2>2, <2>3 DEF StaffNext
<1>4. CASE UNCHANGED vars
  BY <1>4 DEF vars
<1> QED
  BY <1>1, <1>2, <1>3, <1>4 DEF Next

\* Confirmation and closing both start from a purchase still awaiting.
LEMMA EconomicsFollowPurchaseStep == IInv /\ [Next]_vars => EconomicsFollowPurchase'
<1> SUFFICES ASSUME TypeOK, NotYetInserted, CloserHoldsRow, EconomicsFollowPurchase,
                  [Next]_vars
         PROVE  EconomicsFollowPurchase'
  BY DEF IInv
<1> USE DEF TypeOK, IntentRow, AttemptRow, Statuses, AttemptStatuses, Closed,
       NotYetInserted, CloserHoldsRow, EconomicsFollowPurchase, Awaiting, purchaseVars,
       attemptVars, outsideVars
<1>1. ASSUME NEW p \in Purchase, PurchaseNext(p) PROVE EconomicsFollowPurchase'
  <2>1. CASE CreateReserve(p)
    BY <2>1 DEF CreateReserve
  <2>2. CASE CreateRefused(p)
    BY <2>2 DEF CreateRefused
  <2>3. CASE \E route \in Routes : CreateInsert(p, route)
    BY <2>3 DEF CreateInsert
  <2>4. CASE Approve(p)
    BY <2>4 DEF Approve
  <2>5. CASE Confirm(p)
    BY <2>5 DEF Confirm, Confirmed
  <2>6. CASE CloseCommit(p)
    BY <2>6 DEF CloseCommit
  <2>7. CASE ReleaseExpiredHold(p)
    BY <2>7 DEF ReleaseExpiredHold
  <2>8. CASE \/ CreateCheck(p)
             \/ CreateCrash(p)
             \/ PassDeadline(p)
             \/ \E target \in Closed : CloseClaim(p, target)
             \/ CloseAbort(p)
    BY <2>8 DEF CreateCheck, CreateCrash, PassDeadline, CloseClaim, CloseAbort
  <2> QED
    BY <1>1, <2>1, <2>2, <2>3, <2>4, <2>5, <2>6, <2>7, <2>8 DEF PurchaseNext
<1>2. ASSUME NEW b \in Bill, BillNext(b) PROVE EconomicsFollowPurchase'
  <2>1. CASE SettlePurchase(b)
    BY <2>1 DEF SettlePurchase, Confirmed, Succeed
  <2>2. CASE ~SettlePurchase(b)
    <3>1. UNCHANGED <<intent, hold, closing, contributed, creating>>
      BY <1>2, <2>2, BillStepFrame
    <3> QED
      BY <3>1
  <2> QED
    BY <2>1, <2>2
<1>3. ASSUME NEW s \in Staff, StaffNext(s) PROVE EconomicsFollowPurchase'
  <2>1. UNCHANGED <<intent, hold, closing, contributed, creating>>
    BY <1>3, StaffStepFrame
  <2> QED
    BY <2>1
<1>4. CASE UNCHANGED vars
  BY <1>4 DEF vars
<1> QED
  BY <1>1, <1>2, <1>3, <1>4 DEF Next

\* The unique index arbitrates the insert.
LEMMA OnePurchaseInFlightStep == IInv /\ [Next]_vars => OnePurchaseInFlight'
<1> SUFFICES ASSUME TypeOK, CloserHoldsRow, OnePurchaseInFlight, [Next]_vars
         PROVE  OnePurchaseInFlight'
  BY DEF IInv
<1> USE DEF TypeOK, IntentRow, AttemptRow, Statuses, AttemptStatuses, Closed,
       CloserHoldsRow, OnePurchaseInFlight, Awaiting, purchaseVars, attemptVars,
       outsideVars
<1>1. ASSUME NEW p \in Purchase, PurchaseNext(p) PROVE OnePurchaseInFlight'
  <2>1. CASE \E route \in Routes : CreateInsert(p, route)
    BY <2>1 DEF CreateInsert
  <2>2. CASE Approve(p)
    BY <2>2 DEF Approve
  <2>3. CASE Confirm(p)
    BY <2>3 DEF Confirm, Confirmed
  <2>4. CASE CloseCommit(p)
    BY <2>4 DEF CloseCommit
  <2>5. CASE \/ CreateCheck(p)
             \/ CreateReserve(p)
             \/ CreateRefused(p)
             \/ CreateCrash(p)
             \/ PassDeadline(p)
             \/ \E target \in Closed : CloseClaim(p, target)
             \/ CloseAbort(p)
             \/ ReleaseExpiredHold(p)
    BY <2>5 DEF CreateCheck, CreateReserve, CreateRefused, CreateCrash, PassDeadline,
           CloseClaim, CloseAbort, ReleaseExpiredHold
  <2> QED
    BY <1>1, <2>1, <2>2, <2>3, <2>4, <2>5 DEF PurchaseNext
<1>2. ASSUME NEW b \in Bill, BillNext(b) PROVE OnePurchaseInFlight'
  <2>1. CASE SettlePurchase(b)
    BY <2>1 DEF SettlePurchase, Confirmed, Succeed
  <2>2. CASE ~SettlePurchase(b)
    <3>1. UNCHANGED <<intent, hold, closing, contributed, creating>>
      BY <1>2, <2>2, BillStepFrame
    <3> QED
      BY <3>1
  <2> QED
    BY <2>1, <2>2
<1>3. ASSUME NEW s \in Staff, StaffNext(s) PROVE OnePurchaseInFlight'
  <2>1. UNCHANGED <<intent, hold, closing, contributed, creating>>
    BY <1>3, StaffStepFrame
  <2> QED
    BY <2>1
<1>4. CASE UNCHANGED vars
  BY <1>4 DEF vars
<1> QED
  BY <1>1, <1>2, <1>3, <1>4 DEF Next

\* Only the second person writes FAILED, and nobody writes the row afterwards.
LEMMA ManualTakesTwoStep == IInv /\ [Next]_vars => ManualTakesTwo'
<1> SUFFICES ASSUME TypeOK, AttemptsArePayable, SettlementHoldsRow, ManualTakesTwo,
                  [Next]_vars
         PROVE  ManualTakesTwo'
  BY DEF IInv
<1> USE DEF TypeOK, IntentRow, AttemptRow, Statuses, AttemptStatuses, Closed,
       AttemptsArePayable, SettlementHoldsRow, ManualTakesTwo, Confirmable, Live,
       Unlocked, Reconcilable, purchaseVars, attemptVars, outsideVars
<1> USE NoneIsNew
<1>1. ASSUME NEW p \in Purchase, PurchaseNext(p) PROVE ManualTakesTwo'
  <2>1. UNCHANGED <<attempt, opening, settling, cash, proposing, provider, inbox>>
    BY <1>1, PurchaseStepFrame
  <2> QED
    BY <2>1
<1>2. ASSUME NEW b \in Bill, BillNext(b) PROVE ManualTakesTwo'
  <2>1. CASE BeginInsert(b)
    BY <2>1 DEF BeginInsert
  <2>2. CASE HoldMismatch(b)
    BY <2>2 DEF HoldMismatch
  <2>3. CASE SettlePurchase(b)
    BY <2>3 DEF SettlePurchase, Confirmed, Succeed
  <2>4. CASE SettleResolved(b)
    BY <2>4 DEF SettleResolved, Succeed
  <2>5. CASE Age(b)
    BY <2>5 DEF Age
  <2>6. CASE ReadsOnly(b)
    <3>1. UNCHANGED <<intent, attempt, cash>>
      BY <2>6, ReadsOnlyFrame
    <3> QED
      BY <3>1
  <2> QED
    BY <1>2, <2>1, <2>2, <2>3, <2>4, <2>5, <2>6 DEF BillNext, ReadsOnly
<1>3. ASSUME NEW s \in Staff, StaffNext(s) PROVE ManualTakesTwo'
  <2>1. CASE \E b \in Bill : ManualConfirm(s, b)
    BY <2>1 DEF ManualConfirm
  <2>2. CASE ProposeWrite(s)
    BY <2>2 DEF ProposeWrite
  <2>3. CASE \/ \E b \in Bill : ProposeRead(s, b)
             \/ ProposeRefused(s)
    BY <2>3 DEF ProposeRead, ProposeRefused
  <2> QED
    BY <1>3, <2>1, <2>2, <2>3 DEF StaffNext
<1>4. CASE UNCHANGED vars
  BY <1>4 DEF vars
<1> QED
  BY <1>1, <1>2, <1>3, <1>4 DEF Next

(* What a step may never do, given the invariant. *)

AnswerKept ==
  \A b \in Bill :
    attempt[b].status \in {"SUCCEEDED", "FAILED"} =>
      attempt'[b].status = attempt[b].status /\ cash'[b] = cash[b]

OnlyPeopleClear ==
  \A p \in Purchase :
    Unsafe(p) /\ ~Unsafe(p)' =>
      \E b \in AttemptsOf(p) : attempt'[b].status = "FAILED"
                               /\ attempt'[b].checkedBy # None

LEMMA AnswerKeptStep == IInv /\ [Next]_vars => AnswerKept
<1> SUFFICES ASSUME TypeOK, AttemptsArePayable, SettlementHoldsRow, [Next]_vars
         PROVE  AnswerKept
  BY DEF IInv
<1> USE DEF TypeOK, IntentRow, AttemptRow, Statuses, AttemptStatuses, Closed,
       AttemptsArePayable, SettlementHoldsRow, AnswerKept, Confirmable, Live, Unlocked,
       Reconcilable, purchaseVars, attemptVars, outsideVars
<1>1. ASSUME NEW p \in Purchase, PurchaseNext(p) PROVE AnswerKept
  <2>1. UNCHANGED <<attempt, opening, settling, cash, proposing, provider, inbox>>
    BY <1>1, PurchaseStepFrame
  <2> QED
    BY <2>1
<1>2. ASSUME NEW b \in Bill, BillNext(b) PROVE AnswerKept
  <2>1. CASE BeginInsert(b)
    BY <2>1 DEF BeginInsert
  <2>2. CASE HoldMismatch(b)
    BY <2>2 DEF HoldMismatch
  <2>3. CASE SettlePurchase(b) \/ SettleResolved(b)
    <3>1. settling[b] # "no" /\ Succeed(b)
      BY <2>3 DEF SettlePurchase, SettleResolved
    <3>2. attempt[b].status \in Confirmable
      BY <3>1
    <3>3. \A c \in Bill : c # b =>
            attempt'[c].status = attempt[c].status /\ cash'[c] = cash[c]
      BY <3>1, SucceedEffect
    <3> QED
      BY <3>2, <3>3
  <2>5. CASE Age(b)
    BY <2>5 DEF Age
  <2>6. CASE ReadsOnly(b)
    <3>1. UNCHANGED <<intent, attempt, cash>>
      BY <2>6, ReadsOnlyFrame
    <3> QED
      BY <3>1
  <2> QED
    BY <1>2, <2>1, <2>2, <2>3, <2>5, <2>6 DEF BillNext, ReadsOnly
<1>3. ASSUME NEW s \in Staff, StaffNext(s) PROVE AnswerKept
  <2>1. CASE \E b \in Bill : ManualConfirm(s, b)
    BY <2>1 DEF ManualConfirm
  <2>2. CASE ProposeWrite(s)
    BY <2>2 DEF ProposeWrite
  <2>3. CASE \/ \E b \in Bill : ProposeRead(s, b)
             \/ ProposeRefused(s)
    BY <2>3 DEF ProposeRead, ProposeRefused
  <2> QED
    BY <1>3, <2>1, <2>2, <2>3 DEF StaffNext
<1>4. CASE UNCHANGED vars
  BY <1>4 DEF vars
<1> QED
  BY <1>1, <1>2, <1>3, <1>4 DEF Next

LEMMA OnlyPeopleClearStep == IInv /\ [Next]_vars => OnlyPeopleClear
<1> SUFFICES ASSUME TypeOK, AttemptsArePayable, SettlementHoldsRow, [Next]_vars
         PROVE  OnlyPeopleClear
  BY DEF IInv
<1> USE DEF TypeOK, IntentRow, AttemptRow, Statuses, AttemptStatuses, Closed,
       AttemptsArePayable, SettlementHoldsRow, OnlyPeopleClear, Unsafe, AttemptsOf,
       MoneyMayHaveMoved, Confirmable, Live, Unlocked, Reconcilable, purchaseVars,
       attemptVars, outsideVars
<1> USE NoneIsNew
<1>1. ASSUME NEW p \in Purchase, PurchaseNext(p) PROVE OnlyPeopleClear
  <2>1. UNCHANGED <<attempt, opening, settling, cash, proposing, provider, inbox>>
    BY <1>1, PurchaseStepFrame
  <2> QED
    BY <2>1
<1>2. ASSUME NEW b \in Bill, BillNext(b) PROVE OnlyPeopleClear
  <2>1. CASE BeginInsert(b)
    BY <2>1 DEF BeginInsert
  <2>2. CASE HoldMismatch(b)
    BY <2>2 DEF HoldMismatch
  <2>3. CASE SettlePurchase(b)
    BY <2>3 DEF SettlePurchase, Confirmed, Succeed
  <2>4. CASE SettleResolved(b)
    BY <2>4 DEF SettleResolved, Succeed
  <2>5. CASE Age(b)
    BY <2>5 DEF Age
  <2>6. CASE ReadsOnly(b)
    <3>1. UNCHANGED <<intent, attempt, cash>>
      BY <2>6, ReadsOnlyFrame
    <3> QED
      BY <3>1
  <2> QED
    BY <1>2, <2>1, <2>2, <2>3, <2>4, <2>5, <2>6 DEF BillNext, ReadsOnly
<1>3. ASSUME NEW s \in Staff, StaffNext(s) PROVE OnlyPeopleClear
  <2>1. CASE \E b \in Bill : ManualConfirm(s, b)
    BY <2>1 DEF ManualConfirm
  <2>2. CASE ProposeWrite(s)
    BY <2>2 DEF ProposeWrite
  <2>3. CASE \/ \E b \in Bill : ProposeRead(s, b)
             \/ ProposeRefused(s)
    BY <2>3 DEF ProposeRead, ProposeRefused
  <2> QED
    BY <1>3, <2>1, <2>2, <2>3 DEF StaffNext
<1>4. CASE UNCHANGED vars
  BY <1>4 DEF vars
<1> QED
  BY <1>1, <1>2, <1>3, <1>4 DEF Next

LEMMA InvInit == Init => IInv
<1> SUFFICES ASSUME Init PROVE IInv
  OBVIOUS
<1>1. TypeOK
  BY TypeInit
<1>2. /\ NotYetInserted /\ CloserHoldsRow /\ AttemptsArePayable /\ PayableBillIsOpen
      /\ CallbacksAreTrue /\ SettlementHoldsRow
  BY DEF Init, NotYetInserted, CloserHoldsRow, AttemptsArePayable, PayableBillIsOpen,
         CallbacksAreTrue, SettlementHoldsRow
<1>3. MoneyFollowsPurchase /\ EconomicsFollowPurchase /\ OnePurchaseInFlight /\ ManualTakesTwo
  BY DEF Init, MoneyFollowsPurchase, EconomicsFollowPurchase, OnePurchaseInFlight,
         ManualTakesTwo, Awaiting, Closed
<1> QED
  BY <1>1, <1>2, <1>3 DEF IInv

LEMMA InvStep == IInv /\ [Next]_vars => IInv'
<1> SUFFICES ASSUME IInv, [Next]_vars PROVE IInv'
  OBVIOUS
<1>1. TypeOK'
  BY TypeStep DEF IInv
<1>2. /\ NotYetInserted' /\ CloserHoldsRow' /\ AttemptsArePayable' /\ PayableBillIsOpen'
      /\ CallbacksAreTrue' /\ SettlementHoldsRow'
  BY NotYetInsertedStep, CloserHoldsRowStep, AttemptsArePayableStep, PayableBillIsOpenStep,
     CallbacksAreTrueStep, SettlementHoldsRowStep
<1>3. /\ MoneyFollowsPurchase' /\ EconomicsFollowPurchase'
      /\ OnePurchaseInFlight' /\ ManualTakesTwo'
  BY MoneyFollowsPurchaseStep, EconomicsFollowPurchaseStep, OnePurchaseInFlightStep,
     ManualTakesTwoStep
<1> QED
  BY <1>1, <1>2, <1>3 DEF IInv

\* The rows stay consistent through every interleaving of every handler.
THEOREM Invariance == Spec => []IInv
BY InvInit, InvStep, PTL DEF Spec

\* Money, purchase and attempt are settled together, once, for any number of
\* workers, bills, redelivered callbacks and crashes.
THEOREM MoneyIsSafe == Spec => []MoneyFollowsPurchase
<1>1. IInv => MoneyFollowsPurchase
  BY DEF IInv
<1> QED
  BY <1>1, Invariance, PTL

\* Contribution and points follow the purchase, whichever of the five ways out
\* of AWAITING_CONFIRMATION wins.
THEOREM EconomicsAreSafe == Spec => []EconomicsFollowPurchase
<1>1. IInv => EconomicsFollowPurchase
  BY DEF IInv
<1> QED
  BY <1>1, Invariance, PTL

\* A bill under payment keeps its purchase payable until it is answered for.
THEOREM NoAbandonedCharge == Spec => []ChargedIsNotAbandoned
<1>1. IInv => ChargedIsNotAbandoned
  BY DEF IInv, PayableBillIsOpen, ChargedIsNotAbandoned, Awaiting
<1> QED
  BY <1>1, Invariance, PTL

\* A purchase is paid at the till or through the provider, never both.
THEOREM OneRoute == Spec => []OneMoneyRoute
<1>1. IInv => OneMoneyRoute
  BY NoneIsNew DEF IInv, AttemptsArePayable, OneMoneyRoute, AttemptsOf, Payable
<1> QED
  BY <1>1, Invariance, PTL

\* One purchase in flight, and two people behind every "not paid".
THEOREM OneAndTwo == Spec => [](OnePurchaseInFlight /\ ManualTakesTwo)
<1>1. IInv => OnePurchaseInFlight /\ ManualTakesTwo
  BY DEF IInv
<1> QED
  BY <1>1, Invariance, PTL

\* Nothing overturns an answer: not a late callback, a clock, or a third person.
THEOREM AnswersAreFinal == Spec => AnswerIsFinal
<1>1. IInv /\ [Next]_vars => [AnswerKept]_vars
  BY AnswerKeptStep
<1> QED
  BY <1>1, Invariance, PTL DEF Spec, AnswerIsFinal, AnswerKept

\* No passage of time makes a purchase free for another bill.
THEOREM TimeDoesNotResolve == Spec => TimeNeverResolves
<1>1. IInv /\ [Next]_vars => [OnlyPeopleClear]_vars
  BY OnlyPeopleClearStep
<1> QED
  BY <1>1, Invariance, PTL DEF Spec, TimeNeverResolves, OnlyPeopleClear
=============================================================================

------------------------ MODULE PaymentRefundProofs ------------------------
(* Proofs about PaymentRefund: the books follow the acquirer, answers stay, *)
(* points are issued once, and no more than was captured goes back as long  *)
(* as no claim is released twice.                                           *)
EXTENDS PaymentRefund, SumTheorems, TLAPS

\* What a request or a sweep heard is what the acquirer has decided for good.
HeardIsTrue ==
  /\ \A r \in Refund : request[r].at \in Decided => bank[r] = request[r].at
  /\ \A s \in Sweeper : sweep[s].heard # "nothing" =>
       sweep[s].doing \in Refund /\ bank[sweep[s].doing] = sweep[s].heard

\* Until its request calls psp.refund a refund is unknown to the acquirer, and
\* until the claim also to the sweep.
Unknown ==
  \A r \in Refund :
    /\ request[r].at \in {"idle", "read"} <=> row[r].status = "absent"
    /\ row[r].status = "absent" => bank[r] = "unasked" /\ row[r] = NoRow
    /\ request[r].at = "claimed" => bank[r] = "unasked"

\* One delivery at most is between the claim and the accrual, and before the
\* claim there are no points.
OneAccrual ==
  /\ \A d \in Settler : settler[d].at \in {"claimed", "counted"} => settled /\ lot.issued = 0
  /\ \A d, e \in Settler :
       settler[d].at \in {"claimed", "counted"} /\ settler[e].at \in {"claimed", "counted"}
       => d = e
  /\ ~settled => lot.issued = 0
  /\ lot.issued <= 1

IInv == TypeOK /\ HeardIsTrue /\ Unknown /\ BooksFollowTheBank /\ OneAccrual

-----------------------------------------------------------------------------
(* Arithmetic *)

LEMMA Square == \A m \in 0..Amount : m * Amount \in 0..Amount * Amount
  BY AmountType

LEMMA Quotient == ASSUME NEW x \in Nat PROVE x \div Amount \in Nat
  BY AmountType

LEMMA ShareBound ==
  ASSUME TypeOK, NEW r \in Refund
  PROVE  Share(r) \in 0..lot.left
<1>1. lot.left \in Nat /\ lot.original \in Nat /\ row[r].amount \in Nat
  BY AmountType DEF TypeOK
<1>2. lot.original * row[r].amount \in Nat
  BY <1>1
<1>3. (lot.original * row[r].amount) \div Amount \in Nat
  BY <1>2, Quotient
<1> QED BY <1>1, <1>3 DEF Share

-----------------------------------------------------------------------------
(* Types *)

RowType     == [status : {"absent", "PENDING", "CONFIRMED", "FAILED"},
                amount : 0..Amount, postings : Nat, releases : Nat]
RequestType == [at : {"idle", "read", "claimed", "processing", "over"} \cup Decided,
                sawLot : BOOLEAN]
SweepType   == [list : SUBSET Refund, doing : Refund \cup {None},
                heard : {"nothing"} \cup Decided, sawLot : BOOLEAN]
SettlerType == [at : {"idle", "read", "claimed", "counted", "returned"},
                earns : 0..Amount * Amount]
LotType     == [issued : Nat, original : 0..Amount * Amount, left : 0..Amount * Amount]
BankType    == {"unasked", "processing"} \cup Decided

\* What an answer does keeps the payment, the lot and the refunds typed.
LEMMA ApplyType ==
  ASSUME TypeOK, NEW r \in Refund, NEW heard, NEW sawLot \in BOOLEAN, Apply(r, heard, sawLot)
  PROVE  refunded' \in 0..Amount /\ lot' \in LotType /\ row' \in [Refund -> RowType]
<1>1. CASE Release(r)
  <2>1. refunded' \in 0..Amount
    BY <1>1, AmountType DEF Release, TypeOK
  <2>2. row[r] \in RowType
    BY DEF TypeOK, RowType
  <2>3. [row[r] EXCEPT !.status = "FAILED", !.releases = row[r].releases + 1] \in RowType
    <3>1. /\ row[r].amount \in 0..Amount /\ row[r].postings \in Nat /\ row[r].releases \in Nat
          /\ row[r] = [status |-> row[r].status, amount |-> row[r].amount,
                       postings |-> row[r].postings, releases |-> row[r].releases]
      BY <2>2 DEF RowType
    <3>2. row[r].releases + 1 \in Nat
      BY <3>1
    <3> QED BY <3>1, <3>2 DEF RowType
  <2>4. row' = [row EXCEPT ![r] = [row[r] EXCEPT !.status = "FAILED",
                                                 !.releases = row[r].releases + 1]]
    BY <1>1, <2>2 DEF Release, RowType, TypeOK
  <2>5. row' \in [Refund -> RowType]
    BY <2>3, <2>4 DEF TypeOK, RowType
  <2> QED BY <1>1, <2>1, <2>5 DEF Release, TypeOK, LotType
<1>2. CASE Finalize(r, sawLot)
  <2>1. row[r] \in RowType
    BY DEF TypeOK, RowType
  <2>2. [row[r] EXCEPT !.status = "CONFIRMED", !.postings = row[r].postings + 1] \in RowType
    <3>1. /\ row[r].amount \in 0..Amount /\ row[r].postings \in Nat /\ row[r].releases \in Nat
          /\ row[r] = [status |-> row[r].status, amount |-> row[r].amount,
                       postings |-> row[r].postings, releases |-> row[r].releases]
      BY <2>1 DEF RowType
    <3>2. row[r].postings + 1 \in Nat
      BY <3>1
    <3> QED BY <3>1, <3>2 DEF RowType
  <2>3. row' = [row EXCEPT ![r] = [row[r] EXCEPT !.status = "CONFIRMED",
                                                 !.postings = row[r].postings + 1]]
    BY <1>2, <2>1 DEF Finalize, RowType, TypeOK
  <2>4. row' \in [Refund -> RowType]
    BY <2>2, <2>3 DEF TypeOK, RowType
  <2>5. Share(r) \in 0..lot.left
    BY ShareBound
  <2>6. lot' \in LotType
    BY <1>2, <2>5, AmountType DEF Finalize, TypeOK, LotType
  <2> QED BY <1>2, <2>4, <2>6 DEF Finalize, TypeOK
<1> QED BY <1>1, <1>2 DEF Apply

LEMMA TypeInit == Init => TypeOK
<1> SUFFICES ASSUME Init PROVE TypeOK
  OBVIOUS
<1>1. 0 \in 0..Amount * Amount /\ 0 \in 0..Amount
  BY AmountType, Square
<1>2. lot \in LotType /\ row \in [Refund -> RowType] /\ settler \in [Settler -> SettlerType]
  BY <1>1 DEF Init, LotType, NoLot, RowType, NoRow, SettlerType, NoSettler
<1>3. /\ bank \in [Refund -> BankType] /\ request \in [Refund -> RequestType]
      /\ sweep \in [Sweeper -> SweepType]
  BY DEF Init, BankType, RequestType, NoRequest, SweepType, NoSweep
<1> QED BY <1>1, <1>2, <1>3
    DEF Init, TypeOK, LotType, RowType, SettlerType, BankType, RequestType, SweepType

LEMMA TypeStep == TypeOK /\ [Next]_vars => TypeOK'
<1> SUFFICES ASSUME TypeOK, [Next]_vars PROVE TypeOK'
  OBVIOUS
<1>t. /\ refunded \in 0..Amount /\ settled \in BOOLEAN /\ handled \in BOOLEAN
      /\ lot \in LotType /\ row \in [Refund -> RowType] /\ bank \in [Refund -> BankType]
      /\ request \in [Refund -> RequestType] /\ sweep \in [Sweeper -> SweepType]
      /\ settler \in [Settler -> SettlerType]
  BY DEF TypeOK, LotType, RowType, BankType, RequestType, SweepType, SettlerType
<1>q. ASSUME /\ refunded' \in 0..Amount /\ settled' \in BOOLEAN /\ handled' \in BOOLEAN
             /\ lot' \in LotType /\ row' \in [Refund -> RowType] /\ bank' \in [Refund -> BankType]
             /\ request' \in [Refund -> RequestType] /\ sweep' \in [Sweeper -> SweepType]
             /\ settler' \in [Settler -> SettlerType]
      PROVE  TypeOK'
  BY <1>q DEF TypeOK, LotType, RowType, BankType, RequestType, SweepType, SettlerType
<1>1. ASSUME NEW r \in Refund, RequestRead(r) PROVE TypeOK'
  <2>1. request' \in [Refund -> RequestType]
    BY <1>1, <1>t DEF RequestRead, RequestType
  <2> QED BY <1>1, <1>t, <1>q, <2>1 DEF RequestRead
<1>2. ASSUME NEW r \in Refund, NEW n \in 1..Amount, RequestClaim(r, n) PROVE TypeOK'
  <2>1. request' \in [Refund -> RequestType]
    BY <1>2, <1>t DEF RequestClaim, RequestType
  <2>2. row' \in [Refund -> RowType]
    <3>1. n \in 0..Amount
      BY AmountType
    <3>2. [NoRow EXCEPT !.status = "PENDING", !.amount = n] \in RowType
      BY <3>1 DEF RowType, NoRow
    <3> QED BY <1>2, <1>t, <3>2 DEF RequestClaim
  <2>3. refunded' \in 0..Amount
    BY <1>2, <1>t, AmountType DEF RequestClaim
  <2> QED BY <1>2, <1>t, <1>q, <2>1, <2>2, <2>3 DEF RequestClaim
<1>3. ASSUME NEW r \in Refund, RequestAsk(r) \/ RequestAskThrows(r) PROVE TypeOK'
  <2>1. request' \in [Refund -> RequestType]
    BY <1>3, <1>t DEF RequestAsk, RequestAskThrows, RequestType
  <2>2. bank' \in [Refund -> BankType]
    BY <1>3, <1>t DEF RequestAsk, RequestAskThrows, BankType
  <2> QED BY <1>3, <1>t, <1>q, <2>1, <2>2 DEF RequestAsk, RequestAskThrows
<1>4. ASSUME NEW r \in Refund, RequestStaysPending(r) \/ RequestDies(r) PROVE TypeOK'
  <2>1. request' \in [Refund -> RequestType]
    BY <1>4, <1>t DEF RequestStaysPending, RequestDies, RequestType
  <2> QED BY <1>4, <1>t, <1>q, <2>1 DEF RequestStaysPending, RequestDies
<1>5. ASSUME NEW r \in Refund, RequestApply(r) PROVE TypeOK'
  <2>1. request' \in [Refund -> RequestType]
    BY <1>5, <1>t DEF RequestApply, RequestType
  <2>2. request[r].sawLot \in BOOLEAN
    BY <1>t DEF RequestType
  <2>3. refunded' \in 0..Amount /\ lot' \in LotType /\ row' \in [Refund -> RowType]
    BY <1>5, <2>2, ApplyType DEF RequestApply
  <2> QED BY <1>5, <1>t, <1>q, <2>1, <2>3 DEF RequestApply
<1>6. ASSUME NEW r \in Refund, BankDecides(r) PROVE TypeOK'
  <2>1. bank' \in [Refund -> BankType]
    BY <1>6, <1>t DEF BankDecides, BankType
  <2> QED BY <1>6, <1>t, <1>q, <2>1 DEF BankDecides
<1>7. ASSUME NEW x \in Sweeper, SweepRead(x) \/ SweepThrows(x) PROVE TypeOK'
  <2>1. sweep' \in [Sweeper -> SweepType]
    <3>1. NoSweep \in SweepType
      BY DEF NoSweep, SweepType
    <3>2. CASE SweepThrows(x)
      BY <3>1, <3>2, <1>t DEF SweepThrows
    <3>3. CASE SweepRead(x)
      BY <3>3, <1>t DEF SweepRead, SweepType
    <3> QED BY <1>7, <3>2, <3>3
  <2> QED BY <1>7, <1>t, <1>q, <2>1 DEF SweepRead, SweepThrows
<1>8. ASSUME NEW x \in Sweeper, NEW r \in Refund, SweepAsk(x, r) PROVE TypeOK'
  <2>1. sweep[x].list \ {r} \in SUBSET Refund
    BY <1>t DEF SweepType
  <2>2. CASE bank[r] \in Decided
    <3>1. [list |-> sweep[x].list \ {r}, doing |-> r, heard |-> bank[r],
           sawLot |-> lot.issued > 0] \in SweepType
      BY <1>t, <2>1, <2>2 DEF SweepType
    <3> QED BY <1>8, <1>t, <1>q, <2>2, <3>1 DEF SweepAsk
  <2>3. CASE bank[r] \notin Decided
    <3>1. [sweep[x] EXCEPT !.list = sweep[x].list \ {r}] \in SweepType
      BY <1>t, <2>1 DEF SweepType
    <3> QED BY <1>8, <1>t, <1>q, <2>3, <3>1 DEF SweepAsk
  <2> QED BY <2>2, <2>3
<1>9. ASSUME NEW x \in Sweeper, SweepApply(x) PROVE TypeOK'
  <2>1. sweep[x].doing \in Refund /\ sweep[x].sawLot \in BOOLEAN /\ sweep[x].list \in SUBSET Refund
    BY <1>9, <1>t DEF SweepApply, SweepType
  <2>2. [NoSweep EXCEPT !.list = sweep[x].list] \in SweepType
    BY <2>1 DEF SweepType, NoSweep
  <2>3. sweep' \in [Sweeper -> SweepType]
    BY <1>9, <1>t, <2>2 DEF SweepApply
  <2>4. refunded' \in 0..Amount /\ lot' \in LotType /\ row' \in [Refund -> RowType]
    BY <1>9, <2>1, ApplyType DEF SweepApply
  <2> QED BY <1>9, <1>t, <1>q, <2>3, <2>4 DEF SweepApply
<1>10. ASSUME NEW d \in Settler, SettleRead(d) PROVE TypeOK'
  <2>1. (Amount - refunded) * Amount \in 0..Amount * Amount /\ 0 \in 0..Amount * Amount
    <3>1. Amount - refunded \in 0..Amount /\ 0 \in 0..Amount
      BY <1>t, AmountType
    <3> QED BY <3>1, Square, AmountType
  <2> DEFINE Top == Amount * Amount
             Part == (Amount - refunded) * Amount
  <2>2. PICK n \in {0, Part} : settler' = [settler EXCEPT ![d] = [at |-> "read", earns |-> n]]
    BY <1>10 DEF SettleRead
  <2>3. n \in 0..Top
    BY <2>1, <2>2
  <2>4. settler' \in [Settler -> SettlerType]
    <3> HIDE DEF Top, Part
    <3>1. SettlerType = [at : {"idle", "read", "claimed", "counted", "returned"}, earns : 0..Top]
      BY DEF SettlerType, Top
    <3> QED BY <1>t, <2>2, <2>3, <3>1
  <2> QED BY <1>10, <1>t, <1>q, <2>4 DEF SettleRead
<1>11. ASSUME NEW d \in Settler, SettleClaim(d) \/ SettleCount(d) PROVE TypeOK'
  <2>1. settler' \in [Settler -> SettlerType]
    BY <1>11, <1>t DEF SettleClaim, SettleCount, SettlerType
  <2> QED BY <1>11, <1>t, <1>q, <2>1 DEF SettleClaim, SettleCount
<1>12. ASSUME NEW d \in Settler, SettleAccrue(d) PROVE TypeOK'
  <2>1. settler' \in [Settler -> SettlerType]
    BY <1>12, <1>t DEF SettleAccrue, SettlerType
  <2>2. lot' \in LotType
    BY <1>12, <1>t DEF SettleAccrue, SettlerType, LotType
  <2> QED BY <1>12, <1>t, <1>q, <2>1, <2>2 DEF SettleAccrue
<1>13. ASSUME NEW d \in Settler, EventHandled(d) \/ SettlerDies(d) PROVE TypeOK'
  <2>1. NoSettler \in SettlerType
    BY AmountType, Square DEF NoSettler, SettlerType
  <2>2. settler' \in [Settler -> SettlerType]
    BY <1>13, <1>t, <2>1 DEF EventHandled, SettlerDies
  <2> QED BY <1>13, <1>t, <1>q, <2>2 DEF EventHandled, SettlerDies
<1>14. CASE Spend
  <2>1. PICK n \in 1..lot.left : lot' = [lot EXCEPT !.left = lot.left - n]
    BY <1>14 DEF Spend
  <2>2. lot.left \in 0..Amount * Amount
    BY <1>t DEF LotType
  <2>3. lot.left - n \in 0..lot.left
    BY <2>1, <2>2
  <2>4. lot.left - n \in 0..Amount * Amount
    BY <2>2, <2>3, AmountType
  <2>5. lot' \in LotType
    BY <1>t, <2>1, <2>4 DEF LotType
  <2> QED BY <1>14, <1>t, <1>q, <2>5 DEF Spend
<1>15. CASE UNCHANGED vars
  BY <1>t, <1>q, <1>15 DEF vars
<1> QED BY <1>1, <1>2, <1>3, <1>4, <1>5, <1>6, <1>7, <1>8, <1>9, <1>10, <1>11, <1>12, <1>13,
           <1>14, <1>15 DEF Next, RequestStep, SweepStep, SettleStep

-----------------------------------------------------------------------------
(* The other parts of the invariant *)

\* What an answer does to the refunds and to the lot.
LEMMA ApplyEffect ==
  ASSUME TypeOK, NEW r \in Refund, NEW heard, NEW sawLot, Apply(r, heard, sawLot)
  PROVE  /\ \A q \in Refund : q # r => row'[q] = row[q]
         /\ row'[r].amount = row[r].amount
         /\ \/ heard = "declined" /\ row'[r].status = "FAILED" /\ row'[r].postings = row[r].postings
            \/ heard = "refunded" /\ row'[r].status = "CONFIRMED" /\ row'[r].postings > 0
         /\ lot'.issued = lot.issued
<1>t. row \in [Refund -> RowType] /\ lot \in LotType /\ row[r] \in RowType
  BY DEF TypeOK, RowType, LotType
<1>1. CASE heard = "declined" /\ Release(r)
  <2>1. /\ \A q \in Refund : q # r => row'[q] = row[q]
        /\ row'[r].amount = row[r].amount /\ row'[r].status = "FAILED"
        /\ row'[r].postings = row[r].postings
    BY <1>1, <1>t DEF Release, RowType
  <2> QED BY <1>1, <2>1 DEF Release
<1>2. CASE heard = "refunded" /\ Finalize(r, sawLot)
  <2>1. /\ \A q \in Refund : q # r => row'[q] = row[q]
        /\ row'[r].amount = row[r].amount /\ row'[r].status = "CONFIRMED"
        /\ row'[r].postings = row[r].postings + 1
    BY <1>2, <1>t DEF Finalize, RowType
  <2>2. row[r].postings \in Nat
    BY <1>t DEF RowType
  <2>3. lot'.issued = lot.issued
    BY <1>2, <1>t DEF Finalize, LotType
  <2> QED BY <1>2, <2>1, <2>2, <2>3
<1> QED BY <1>1, <1>2 DEF Apply

\* The acquirer decides once.
LEMMA DecidedStays ==
  ASSUME IInv, [Next]_vars, NEW r \in Refund, bank[r] \in Decided
  PROVE  bank'[r] = bank[r]
<1>t. bank \in [Refund -> BankType]
  BY DEF IInv, TypeOK, BankType
<1>1. ASSUME NEW q \in Refund, RequestAsk(q) \/ RequestAskThrows(q) PROVE bank'[r] = bank[r]
  <2>1. q # r
    BY <1>1 DEF RequestAsk, RequestAskThrows, IInv, Unknown, Decided
  <2> QED BY <1>1, <1>t, <2>1 DEF RequestAsk, RequestAskThrows
<1>2. ASSUME NEW q \in Refund, BankDecides(q) PROVE bank'[r] = bank[r]
  BY <1>2, <1>t DEF BankDecides, Decided
<1>3. ASSUME NEW q \in Refund, RequestStep(q) PROVE bank'[r] = bank[r]
  BY <1>1, <1>3 DEF RequestStep, RequestRead, RequestClaim, RequestStaysPending, RequestApply,
                    RequestDies
<1>4. ASSUME NEW x \in Sweeper, SweepStep(x) PROVE bank'[r] = bank[r]
  BY <1>4 DEF SweepStep, SweepRead, SweepAsk, SweepApply, SweepThrows
<1>5. ASSUME NEW d \in Settler, SettleStep(d) PROVE bank'[r] = bank[r]
  BY <1>5 DEF SettleStep, SettleRead, SettleClaim, SettleCount, SettleAccrue, EventHandled,
              SettlerDies
<1> QED BY <1>2, <1>3, <1>4, <1>5 DEF Next, Spend, vars

LEMMA HeardStep == IInv /\ [Next]_vars => HeardIsTrue'
<1> SUFFICES ASSUME IInv, [Next]_vars PROVE HeardIsTrue'
  OBVIOUS
<1>t. /\ row \in [Refund -> RowType] /\ bank \in [Refund -> BankType]
      /\ request \in [Refund -> RequestType] /\ sweep \in [Sweeper -> SweepType]
  BY DEF IInv, TypeOK, RowType, BankType, RequestType, SweepType
<1>h. HeardIsTrue
  BY DEF IInv
<1>d. \A r \in Refund : bank[r] \in Decided => bank'[r] = bank[r]
  BY DecidedStays
<1>r. ASSUME NEW r \in Refund, request'[r].at = request[r].at, request[r].at \in Decided
      PROVE  bank'[r] = request'[r].at
  BY <1>r, <1>h, <1>d DEF HeardIsTrue
<1>s. ASSUME NEW x \in Sweeper, sweep'[x] = sweep[x], sweep[x].heard # "nothing"
      PROVE  sweep'[x].doing \in Refund /\ bank'[sweep'[x].doing] = sweep'[x].heard
  <2>1. sweep[x].heard \in Decided
    BY <1>s, <1>t DEF SweepType
  <2> QED BY <1>s, <1>h, <1>d, <2>1 DEF HeardIsTrue
<1>q. ASSUME UNCHANGED request
      PROVE  \A r \in Refund : request'[r].at \in Decided => bank'[r] = request'[r].at
  BY <1>q, <1>r
<1>w. ASSUME UNCHANGED sweep
      PROVE  \A x \in Sweeper : sweep'[x].heard # "nothing" =>
               sweep'[x].doing \in Refund /\ bank'[sweep'[x].doing] = sweep'[x].heard
  BY <1>w, <1>s
<1>1. ASSUME NEW q \in Refund, RequestStep(q) PROVE HeardIsTrue'
  <2>1. UNCHANGED sweep
    BY <1>1 DEF RequestStep, RequestRead, RequestClaim, RequestAsk, RequestAskThrows,
                RequestStaysPending, RequestApply, RequestDies
  <2>2. \A r \in Refund : r # q => request'[r] = request[r]
    BY <1>1, <1>t DEF RequestStep, RequestRead, RequestClaim, RequestAsk, RequestAskThrows,
                      RequestStaysPending, RequestApply, RequestDies
  <2>3. request'[q].at \in Decided => bank'[q] = request'[q].at
    <3>1. CASE RequestAsk(q)
      BY <3>1, <1>t DEF RequestAsk, RequestType, BankType
    <3>2. CASE ~RequestAsk(q)
      <4>t. request[q] \in RequestType
        BY <1>t
      <4>1. CASE RequestRead(q)
        BY <4>1, <1>t DEF RequestRead, Decided
      <4>2. CASE RequestDies(q)
        BY <4>2, <4>t, <1>t DEF RequestDies, RequestType, Decided
      <4>3. CASE \E n \in 1..Amount : RequestClaim(q, n)
        BY <4>3, <4>t, <1>t DEF RequestClaim, RequestType, Decided
      <4>4. CASE RequestAskThrows(q) \/ RequestStaysPending(q) \/ RequestApply(q)
        BY <4>4, <4>t, <1>t DEF RequestAskThrows, RequestStaysPending, RequestApply, RequestType,
                                Decided
      <4> QED BY <1>1, <3>2, <4>1, <4>2, <4>3, <4>4 DEF RequestStep
    <3> QED BY <3>1, <3>2
  <2>4. \A r \in Refund : request'[r].at \in Decided => bank'[r] = request'[r].at
    BY <2>2, <2>3, <1>r
  <2> QED BY <2>1, <2>4, <1>w DEF HeardIsTrue
<1>2. ASSUME NEW y \in Sweeper, SweepStep(y) PROVE HeardIsTrue'
  <2>1. UNCHANGED <<request, bank>>
    BY <1>2 DEF SweepStep, SweepRead, SweepAsk, SweepApply, SweepThrows
  <2>2. \A x \in Sweeper : x # y => sweep'[x] = sweep[x]
    BY <1>2, <1>t DEF SweepStep, SweepRead, SweepAsk, SweepApply, SweepThrows
  <2>3. sweep'[y].heard # "nothing" =>
          sweep'[y].doing \in Refund /\ bank'[sweep'[y].doing] = sweep'[y].heard
    <3>1. CASE SweepRead(y)
      <4>1. sweep'[y].heard = "nothing"
        BY <3>1, <1>t DEF SweepRead, NoSweep, SweepType
      <4> QED BY <4>1
    <3>2. ASSUME NEW r \in Refund, SweepAsk(y, r)
          PROVE  sweep'[y].heard # "nothing" =>
                   sweep'[y].doing \in Refund /\ bank'[sweep'[y].doing] = sweep'[y].heard
      <4>1. CASE bank[r] \in Decided
        BY <3>2, <4>1, <1>t DEF SweepAsk
      <4>2. CASE bank[r] \notin Decided
        <5>1. sweep'[y] = [sweep[y] EXCEPT !.list = sweep[y].list \ {r}]
          BY <3>2, <4>2, <1>t DEF SweepAsk
        <5>2. sweep'[y].heard = sweep[y].heard /\ sweep'[y].doing = sweep[y].doing
          BY <5>1, <1>t DEF SweepType
        <5> QED BY <5>2, <2>1, <1>h DEF HeardIsTrue
      <4> QED BY <4>1, <4>2
    <3>3. CASE SweepApply(y) \/ SweepThrows(y)
      <4>1. sweep'[y].heard = "nothing"
        BY <3>3, <1>t DEF SweepApply, SweepThrows, NoSweep
      <4> QED BY <4>1
    <3> QED BY <1>2, <3>1, <3>2, <3>3 DEF SweepStep
  <2>4. \A x \in Sweeper : sweep'[x].heard # "nothing" =>
          sweep'[x].doing \in Refund /\ bank'[sweep'[x].doing] = sweep'[x].heard
    BY <2>2, <2>3, <1>s
  <2> QED BY <2>1, <2>4, <1>q DEF HeardIsTrue
<1>3. ASSUME UNCHANGED <<request, sweep>> PROVE HeardIsTrue'
  BY <1>3, <1>q, <1>w DEF HeardIsTrue
<1>4. ASSUME NEW d \in Settler, SettleStep(d) PROVE HeardIsTrue'
  BY <1>3, <1>4 DEF SettleStep, SettleRead, SettleClaim, SettleCount, SettleAccrue, EventHandled,
                    SettlerDies
<1> QED BY <1>1, <1>2, <1>3, <1>4 DEF Next, BankDecides, Spend, vars

LEMMA UnknownStep == IInv /\ [Next]_vars => Unknown'
<1> SUFFICES ASSUME IInv, [Next]_vars PROVE Unknown'
  OBVIOUS
<1>t. /\ row \in [Refund -> RowType] /\ bank \in [Refund -> BankType]
      /\ request \in [Refund -> RequestType] /\ sweep \in [Sweeper -> SweepType] /\ TypeOK
  BY DEF IInv, TypeOK, RowType, BankType, RequestType, SweepType
<1>u. Unknown /\ HeardIsTrue
  BY DEF IInv
<1> DEFINE U(r) == /\ request[r].at \in {"idle", "read"} <=> row[r].status = "absent"
                   /\ row[r].status = "absent" => bank[r] = "unasked" /\ row[r] = NoRow
                   /\ request[r].at = "claimed" => bank[r] = "unasked"
<1>k. ASSUME NEW r \in Refund, request'[r].at = request[r].at, row'[r] = row[r],
             bank'[r] = bank[r]
      PROVE  U(r)'
  BY <1>k, <1>u DEF Unknown
\* An answer is applied to a refund the acquirer knows.
<1>a. ASSUME NEW r \in Refund, NEW heard, NEW sawLot, Apply(r, heard, sawLot), bank[r] = heard,
             UNCHANGED bank, \A q \in Refund : q # r => request'[q] = request[q],
             request'[r].at \in {request[r].at, "over"}
      PROVE  Unknown'
  <2>1. heard \in Decided /\ \A q \in Refund : q # r => row'[q] = row[q]
    BY <1>a, <1>t, ApplyEffect DEF Decided
  <2>2. row'[r].status # "absent"
    BY <1>a, <1>t, ApplyEffect
  <2>3. request[r].at \notin {"idle", "read", "claimed"}
    BY <1>a, <2>1, <1>u DEF Unknown, Decided
  <2>4. U(r)'
    BY <1>a, <2>2, <2>3
  <2>5. \A q \in Refund : q # r => U(q)'
    BY <1>a, <2>1, <1>k
  <2> QED BY <2>4, <2>5 DEF Unknown
<1>1. ASSUME NEW q \in Refund, RequestStep(q) PROVE Unknown'
  <2>1. CASE RequestApply(q)
    <3>1. bank[q] = request[q].at
      BY <2>1, <1>u DEF RequestApply, Apply, HeardIsTrue, Decided
    <3> QED BY <2>1, <3>1, <1>a, <1>t DEF RequestApply, RequestType
  <2>2. CASE ~RequestApply(q)
    <3>1. \A r \in Refund : r # q => request'[r] = request[r] /\ row'[r] = row[r]
                                                               /\ bank'[r] = bank[r]
      BY <1>1, <2>2, <1>t DEF RequestStep, RequestRead, RequestClaim, RequestAsk,
           RequestAskThrows, RequestStaysPending, RequestDies
    <3>2. U(q)'
      <4>1. CASE RequestRead(q)
        BY <4>1, <1>t, <1>u DEF RequestRead, Unknown
      <4>2. ASSUME NEW n \in 1..Amount, RequestClaim(q, n) PROVE U(q)'
        <5>1. row'[q] = [NoRow EXCEPT !.status = "PENDING", !.amount = n]
          BY <4>2, <1>t DEF RequestClaim
        <5>2. row'[q].status = "PENDING"
          BY <5>1 DEF NoRow
        <5>3. request'[q].at = "claimed"
          BY <4>2, <1>t DEF RequestClaim, RequestType
        <5>4. bank'[q] = "unasked"
          BY <4>2, <1>u DEF RequestClaim, Unknown
        <5> QED BY <5>2, <5>3, <5>4
      <4>3. CASE RequestAsk(q) \/ RequestAskThrows(q)
        <5>1. request'[q].at \notin {"idle", "read", "claimed"}
          BY <4>3, <1>t DEF RequestAsk, RequestAskThrows, RequestType, Decided
        <5>2. row'[q].status # "absent"
          BY <4>3, <1>u DEF RequestAsk, RequestAskThrows, Unknown
        <5> QED BY <5>1, <5>2
      <4>4. CASE RequestStaysPending(q)
        <5>1. request'[q].at = "over" /\ row'[q].status # "absent"
          BY <4>4, <1>t, <1>u DEF RequestStaysPending, Unknown, RequestType
        <5> QED BY <5>1
      <4>5. CASE RequestDies(q)
        <5>1. request'[q].at = IF row[q].status = "absent" THEN "idle" ELSE "over"
          BY <4>5, <1>t DEF RequestDies, RequestType
        <5>2. UNCHANGED <<row, bank>>
          BY <4>5 DEF RequestDies
        <5> QED BY <5>1, <5>2, <1>u DEF Unknown
      <4> QED BY <1>1, <2>2, <4>1, <4>2, <4>3, <4>4, <4>5 DEF RequestStep
    <3> QED BY <3>1, <3>2, <1>k DEF Unknown
  <2> QED BY <2>1, <2>2
<1>2. ASSUME NEW q \in Refund, BankDecides(q) PROVE Unknown'
  <2>1. \A r \in Refund : r # q => bank'[r] = bank[r]
    BY <1>2, <1>t DEF BankDecides
  <2>2. U(q)'
    BY <1>2, <1>u DEF BankDecides, Unknown
  <2> QED BY <1>2, <2>1, <2>2, <1>k DEF BankDecides, Unknown
<1>3. ASSUME UNCHANGED <<row, bank, request>> PROVE Unknown'
  BY <1>3, <1>u DEF Unknown
<1>4. ASSUME NEW y \in Sweeper, SweepStep(y) PROVE Unknown'
  <2>1. CASE SweepApply(y)
    <3>1. sweep[y].doing \in Refund
      BY <2>1, <1>t DEF SweepApply, SweepType
    <3>2. bank[sweep[y].doing] = sweep[y].heard
      BY <2>1, <1>u DEF SweepApply, Apply, HeardIsTrue
    <3> QED BY <2>1, <3>1, <3>2, <1>a DEF SweepApply
  <2> QED BY <1>3, <1>4, <2>1 DEF SweepStep, SweepRead, SweepAsk, SweepThrows
<1>5. ASSUME NEW d \in Settler, SettleStep(d) PROVE Unknown'
  BY <1>3, <1>5 DEF SettleStep, SettleRead, SettleClaim, SettleCount, SettleAccrue, EventHandled,
                    SettlerDies
<1> QED BY <1>1, <1>2, <1>3, <1>4, <1>5 DEF Next, Spend, vars

\* What any step does to one refund's row: nothing, the claim, or an answer
\* that is the acquirer's.
LEMMA RowStep ==
  ASSUME IInv, [Next]_vars, NEW r \in Refund
  PROVE  \/ row'[r] = row[r]
         \/ row[r].status = "absent" /\ row'[r].status = "PENDING" /\ row'[r].postings = 0
         \/ bank[r] = "declined" /\ row'[r].status = "FAILED" /\ row'[r].postings = row[r].postings
         \/ bank[r] = "refunded" /\ row'[r].status = "CONFIRMED" /\ row'[r].postings > 0
<1> DEFINE Goal ==
      \/ row'[r] = row[r]
      \/ row[r].status = "absent" /\ row'[r].status = "PENDING" /\ row'[r].postings = 0
      \/ bank[r] = "declined" /\ row'[r].status = "FAILED" /\ row'[r].postings = row[r].postings
      \/ bank[r] = "refunded" /\ row'[r].status = "CONFIRMED" /\ row'[r].postings > 0
<1> SUFFICES Goal
  OBVIOUS
<1>t. /\ row \in [Refund -> RowType] /\ request \in [Refund -> RequestType]
      /\ sweep \in [Sweeper -> SweepType] /\ TypeOK
  BY DEF IInv, TypeOK, RowType, RequestType, SweepType
<1>u. Unknown /\ HeardIsTrue
  BY DEF IInv
<1>a. ASSUME NEW q \in Refund, NEW heard, NEW sawLot, Apply(q, heard, sawLot), bank[q] = heard
      PROVE  Goal
  <2>1. CASE q # r
    BY <1>a, <1>t, <2>1, ApplyEffect
  <2>2. CASE q = r
    BY <1>a, <1>t, <2>2, ApplyEffect
  <2> QED BY <2>1, <2>2
<1>1. ASSUME NEW q \in Refund, RequestStep(q) PROVE Goal
  <2>1. CASE RequestApply(q)
    <3>1. bank[q] = request[q].at
      BY <2>1, <1>u DEF RequestApply, Apply, HeardIsTrue, Decided
    <3> QED BY <2>1, <3>1, <1>a DEF RequestApply
  <2>2. ASSUME NEW n \in 1..Amount, RequestClaim(q, n) PROVE Goal
    <3>1. CASE q = r
      <4>1. row'[r] = [NoRow EXCEPT !.status = "PENDING", !.amount = n]
        BY <2>2, <3>1, <1>t DEF RequestClaim
      <4>2. row'[r].status = "PENDING" /\ row'[r].postings = 0
        BY <4>1 DEF NoRow
      <4>3. row[r].status = "absent"
        BY <2>2, <3>1, <1>u DEF RequestClaim, Unknown
      <4> QED BY <4>2, <4>3
    <3>2. CASE q # r
      <4>1. row'[r] = row[r]
        BY <2>2, <3>2, <1>t DEF RequestClaim
      <4> QED BY <4>1
    <3> QED BY <3>1, <3>2
  <2>3. CASE UNCHANGED row
    BY <2>3
  <2> QED BY <1>1, <2>1, <2>2, <2>3 DEF RequestStep, RequestRead, RequestAsk, RequestAskThrows,
                                        RequestStaysPending, RequestDies
<1>2. ASSUME NEW y \in Sweeper, SweepStep(y) PROVE Goal
  <2>1. CASE SweepApply(y)
    <3>1. sweep[y].doing \in Refund
      BY <2>1, <1>t DEF SweepApply, SweepType
    <3>2. bank[sweep[y].doing] = sweep[y].heard
      BY <2>1, <1>u DEF SweepApply, Apply, HeardIsTrue
    <3> QED BY <2>1, <3>1, <3>2, <1>a DEF SweepApply
  <2>2. CASE UNCHANGED row
    BY <2>2
  <2> QED BY <1>2, <2>1, <2>2 DEF SweepStep, SweepRead, SweepAsk, SweepThrows
<1>3. CASE UNCHANGED row
  BY <1>3
<1>4. ASSUME NEW d \in Settler, SettleStep(d) PROVE Goal
  BY <1>3, <1>4 DEF SettleStep, SettleRead, SettleClaim, SettleCount, SettleAccrue, EventHandled,
                    SettlerDies
<1> QED BY <1>1, <1>2, <1>3, <1>4 DEF Next, BankDecides, Spend, vars

LEMMA BooksStep == IInv /\ [Next]_vars => BooksFollowTheBank'
<1> SUFFICES ASSUME IInv, [Next]_vars, NEW r \in Refund
             PROVE  /\ row'[r].status = "CONFIRMED" => row'[r].postings > 0
                    /\ row'[r].postings > 0 => bank'[r] = "refunded"
                    /\ row'[r].status = "FAILED" => bank'[r] = "declined"
  BY DEF BooksFollowTheBank
<1>1. /\ row[r].status = "CONFIRMED" => row[r].postings > 0
      /\ row[r].postings > 0 => bank[r] = "refunded"
      /\ row[r].status = "FAILED" => bank[r] = "declined"
  BY DEF IInv, BooksFollowTheBank
<1>2. bank[r] \in Decided => bank'[r] = bank[r]
  BY DecidedStays
<1>3. CASE row'[r] = row[r]
  BY <1>1, <1>2, <1>3 DEF Decided
<1>4. CASE row[r].status = "absent" /\ row'[r].status = "PENDING" /\ row'[r].postings = 0
  BY <1>4
<1>5. CASE bank[r] = "declined" /\ row'[r].status = "FAILED" /\ row'[r].postings = row[r].postings
  BY <1>1, <1>2, <1>5 DEF Decided
<1>6. CASE bank[r] = "refunded" /\ row'[r].status = "CONFIRMED" /\ row'[r].postings > 0
  BY <1>2, <1>6 DEF Decided
<1> QED BY <1>3, <1>4, <1>5, <1>6, RowStep

LEMMA AccrualStep == IInv /\ [Next]_vars => OneAccrual'
<1> SUFFICES ASSUME IInv, [Next]_vars PROVE OneAccrual'
  OBVIOUS
<1>t. /\ lot \in LotType /\ settler \in [Settler -> SettlerType] /\ settled \in BOOLEAN
      /\ request \in [Refund -> RequestType] /\ TypeOK
  BY DEF IInv, TypeOK, LotType, SettlerType, RequestType
<1>n. lot.issued \in Nat
  BY <1>t DEF LotType
<1>u. OneAccrual
  BY DEF IInv
<1> DEFINE Inside(d) == settler[d].at \in {"claimed", "counted"}
<1>k. ASSUME UNCHANGED settled, lot'.issued = lot.issued,
             \A d \in Settler : Inside(d)' => Inside(d)
      PROVE  OneAccrual'
  BY <1>k, <1>u DEF OneAccrual
<1>a. ASSUME NEW r \in Refund, NEW heard, NEW sawLot, Apply(r, heard, sawLot),
             UNCHANGED <<settled, settler>>
      PROVE  OneAccrual'
  <2>1. lot'.issued = lot.issued
    BY <1>a, <1>t, ApplyEffect
  <2> QED BY <1>a, <1>k, <2>1
<1>1. CASE UNCHANGED <<settled, settler, lot>>
  BY <1>1, <1>k
<1>2. ASSUME NEW r \in Refund, RequestStep(r) PROVE OneAccrual'
  BY <1>1, <1>2, <1>a DEF RequestStep, RequestRead, RequestClaim, RequestAsk, RequestAskThrows,
                          RequestStaysPending, RequestApply, RequestDies
<1>3. ASSUME NEW x \in Sweeper, SweepStep(x) PROVE OneAccrual'
  <2>1. CASE SweepApply(x)
    <3>1. sweep[x].doing \in Refund
      BY <2>1 DEF SweepApply, Apply, IInv, HeardIsTrue
    <3> QED BY <2>1, <3>1, <1>a DEF SweepApply
  <2> QED BY <1>1, <1>3, <2>1 DEF SweepStep, SweepRead, SweepAsk, SweepThrows
<1>4. CASE Spend
  <2>1. lot'.issued = lot.issued
    BY <1>4, <1>t DEF Spend, LotType
  <2> QED BY <1>4, <1>k, <2>1 DEF Spend
<1>5. ASSUME NEW d \in Settler, SettleRead(d) \/ EventHandled(d) \/ SettlerDies(d)
      PROVE  OneAccrual'
  <2>1. UNCHANGED <<settled, lot>>
    BY <1>5 DEF SettleRead, EventHandled, SettlerDies
  <2>2. \A e \in Settler : Inside(e)' => Inside(e)
    BY <1>5, <1>t DEF SettleRead, EventHandled, SettlerDies, NoSettler
  <2> QED BY <2>1, <2>2, <1>k
<1>6. ASSUME NEW d \in Settler, SettleClaim(d) PROVE OneAccrual'
  <2>1. UNCHANGED lot /\ settled' = TRUE
    BY <1>6 DEF SettleClaim
  <2>2. \A e \in Settler : e # d => settler'[e] = settler[e]
    BY <1>6, <1>t DEF SettleClaim
  <2>3. CASE settled
    <3>1. settler'[d].at = "returned"
      BY <1>6, <1>t, <2>3 DEF SettleClaim, SettlerType
    <3>2. \A e \in Settler : Inside(e)' => Inside(e)
      BY <2>2, <3>1
    <3> QED BY <2>1, <2>3, <3>2, <1>u DEF OneAccrual
  <2>4. CASE ~settled
    <3>1. lot.issued = 0 /\ \A e \in Settler : ~Inside(e)
      BY <1>u, <2>4 DEF OneAccrual
    <3>2. \A e \in Settler : Inside(e)' => e = d
      BY <2>2, <3>1
    <3> QED BY <2>1, <3>1, <3>2 DEF OneAccrual
  <2> QED BY <2>3, <2>4
<1>7. ASSUME NEW d \in Settler, SettleCount(d) PROVE OneAccrual'
  <2>1. UNCHANGED <<settled, lot>>
    BY <1>7 DEF SettleCount
  <2>2. \A e \in Settler : Inside(e)' => Inside(e)
    BY <1>7, <1>t DEF SettleCount
  <2> QED BY <2>1, <2>2, <1>k
<1>8. ASSUME NEW d \in Settler, SettleAccrue(d) PROVE OneAccrual'
  <2>1. Inside(d)
    BY <1>8 DEF SettleAccrue
  <2>2. settled /\ lot.issued = 0 /\ \A e \in Settler : Inside(e) => e = d
    BY <2>1, <1>u DEF OneAccrual
  <2>3. UNCHANGED settled /\ lot'.issued = 1
    BY <1>8, <2>2 DEF SettleAccrue
  <2>4. \A e \in Settler : e # d => settler'[e] = settler[e]
    BY <1>8, <1>t DEF SettleAccrue
  <2>5. settler'[d].at = "returned"
    BY <1>8, <1>t DEF SettleAccrue, SettlerType
  <2>6. \A e \in Settler : ~Inside(e)'
    BY <2>2, <2>4, <2>5
  <2> QED BY <2>2, <2>3, <2>6 DEF OneAccrual
<1>9. ASSUME NEW d \in Settler, SettleStep(d) PROVE OneAccrual'
  BY <1>5, <1>6, <1>7, <1>8, <1>9 DEF SettleStep
<1> QED BY <1>1, <1>2, <1>3, <1>4, <1>9 DEF Next, BankDecides, vars

-----------------------------------------------------------------------------
(* The theorems *)

LEMMA InvInit == Init => IInv
<1> SUFFICES ASSUME Init PROVE IInv
  OBVIOUS
<1>1. HeardIsTrue /\ Unknown /\ BooksFollowTheBank
  BY DEF Init, HeardIsTrue, Unknown, BooksFollowTheBank, NoRequest, NoSweep, NoRow, Decided
<1>2. OneAccrual
  BY DEF Init, OneAccrual, NoSettler, NoLot
<1> QED BY <1>1, <1>2, TypeInit DEF IInv

\* No step of a request, a sweep, a settlement, the acquirer or the customer
\* leaves the invariant.
THEOREM Invariance == Spec => []IInv
<1>1. IInv /\ [Next]_vars => IInv'
  BY TypeStep, HeardStep, UnknownStep, BooksStep, AccrualStep DEF IInv
<1> QED BY InvInit, <1>1, PTL DEF Spec

\* refundedAmount stays between zero and the captured amount, the lot never
\* goes below zero or above what was issued, and every row has its type.
THEOREM TypeCorrect == Spec => []TypeOK
<1>1. IInv => TypeOK
  BY DEF IInv
<1> QED BY <1>1, Invariance, PTL

\* The refund's status and its ledger postings repeat the acquirer's decision:
\* CONFIRMED and posted only for money it paid back, FAILED only for a refund
\* it declined.
THEOREM BooksAreRight == Spec => []BooksFollowTheBank
<1>1. IInv => BooksFollowTheBank
  BY DEF IInv
<1> QED BY <1>1, Invariance, PTL

\* applyPspRefundOutcome does not look at the status it overwrites, and still a
\* confirmed refund is never failed nor a failed one confirmed.
THEOREM AnswersAreFinal == Spec => AnswersStay
<1>1. IInv /\ [Next]_vars =>
        [\A r \in Refund : row[r].status \in {"CONFIRMED", "FAILED"} =>
           row'[r].status = row[r].status]_vars
  <2> SUFFICES ASSUME IInv, [Next]_vars, NEW r \in Refund,
                      row[r].status \in {"CONFIRMED", "FAILED"}
               PROVE  row'[r].status = row[r].status
    OBVIOUS
  <2>1. /\ row[r].status = "CONFIRMED" => bank[r] = "refunded"
        /\ row[r].status = "FAILED" => bank[r] = "declined"
    BY DEF IInv, BooksFollowTheBank
  <2> QED BY <2>1, RowStep
<1> QED BY <1>1, Invariance, PTL DEF Spec, AnswersStay

\* The conditional claim on settlementId lets one delivery of payment.captured
\* at most issue the points, however many run and wherever they stop.
THEOREM PointsOnce == Spec => []PointsIssuedOnce
<1>1. IInv => PointsIssuedOnce
  BY DEF IInv, OneAccrual, PointsIssuedOnce
<1> QED BY <1>1, Invariance, PTL

-----------------------------------------------------------------------------
(* The claims add up *)

\* What a refund still claims of the payment, as long as no claim is released
\* twice: refundedAmount is the sum of that, and only what the acquirer
\* declined has been released.
Claimed == [r \in Refund |-> IF row[r].releases = 0 THEN row[r].amount ELSE 0]
OnceEach == \A r \in Refund : row[r].releases <= 1
Claims ==
  /\ \A r \in Refund : row[r].releases > 0 => bank[r] = "declined"
  /\ OnceEach => refunded = SumFunctionOnSet(Claimed, Refund)

LEMMA ClaimsInit == Init => Claims
<1> SUFFICES ASSUME Init PROVE Claims
  OBVIOUS
<1>1. \A r \in Refund : row[r].releases = 0 /\ Claimed[r] = 0
  BY DEF Init, NoRow, Claimed
<1>2. SumFunctionOnSet(Claimed, Refund) = 0
  BY <1>1, Finitely, SumZero
<1> QED BY <1>1, <1>2 DEF Init, Claims

\* The three things a step may do to claims: take one, release one, leave them.
Takes(r, n)  == /\ row[r] = NoRow /\ refunded' = refunded + n
                /\ row'[r].amount = n /\ row'[r].releases = 0
                /\ \A q \in Refund \ {r} : row'[q] = row[q]
Releases(r)  == /\ bank[r] = "declined" /\ refunded' = refunded - row[r].amount
                /\ row'[r].amount = row[r].amount /\ row'[r].releases = row[r].releases + 1
                /\ \A q \in Refund \ {r} : row'[q] = row[q]
LeavesClaims == /\ refunded' = refunded
                /\ \A r \in Refund : row'[r].amount = row[r].amount /\ row'[r].releases = row[r].releases

LEMMA AnswerClaims ==
  ASSUME IInv, NEW r \in Refund, NEW heard, NEW sawLot, Apply(r, heard, sawLot), bank[r] = heard
  PROVE  Releases(r) \/ LeavesClaims
<1>t. row \in [Refund -> RowType] /\ row[r] \in RowType
  BY DEF IInv, TypeOK, RowType
<1>1. CASE heard = "declined" /\ Release(r)
  <2>1. row'[r].amount = row[r].amount /\ row'[r].releases = row[r].releases + 1
    BY <1>1, <1>t DEF Release, RowType
  <2>2. \A q \in Refund \ {r} : row'[q] = row[q]
    BY <1>1, <1>t DEF Release
  <2> QED BY <1>1, <2>1, <2>2 DEF Release, Releases
<1>2. CASE Finalize(r, sawLot)
  <2>1. row'[r].amount = row[r].amount /\ row'[r].releases = row[r].releases
    BY <1>2, <1>t DEF Finalize, RowType
  <2>2. \A q \in Refund \ {r} : row'[q] = row[q]
    BY <1>2, <1>t DEF Finalize
  <2> QED BY <1>2, <2>1, <2>2 DEF Finalize, LeavesClaims
<1> QED BY <1>1, <1>2 DEF Apply

LEMMA EveryStepClaims ==
  ASSUME IInv, [Next]_vars
  PROVE  \/ \E r \in Refund, n \in 1..Amount : Takes(r, n)
         \/ \E r \in Refund : Releases(r)
         \/ LeavesClaims
<1> DEFINE Goal == \/ \E r \in Refund, n \in 1..Amount : Takes(r, n)
                   \/ \E r \in Refund : Releases(r)
                   \/ LeavesClaims
<1>u. Unknown /\ HeardIsTrue
  BY DEF IInv
<1>0. ASSUME UNCHANGED <<refunded, row>> PROVE Goal
  BY <1>0 DEF LeavesClaims
<1>1. ASSUME NEW r \in Refund, NEW n \in 1..Amount, RequestClaim(r, n) PROVE Goal
  <2>1. row'[r] = [NoRow EXCEPT !.status = "PENDING", !.amount = n]
    BY <1>1 DEF RequestClaim, IInv, TypeOK
  <2>2. row'[r].amount = n /\ row'[r].releases = 0
    BY <2>1 DEF NoRow
  <2>3. row[r] = NoRow
    BY <1>1, <1>u DEF RequestClaim, Unknown
  <2>4. refunded' = refunded + n /\ \A q \in Refund \ {r} : row'[q] = row[q]
    BY <1>1 DEF RequestClaim, IInv, TypeOK
  <2> QED BY <2>2, <2>3, <2>4 DEF Takes
<1>2. ASSUME NEW r \in Refund, RequestApply(r) PROVE Goal
  <2>1. bank[r] = request[r].at
    BY <1>2, <1>u DEF RequestApply, Apply, HeardIsTrue, Decided
  <2> QED BY <1>2, <2>1, AnswerClaims DEF RequestApply
<1>3. ASSUME NEW s \in Sweeper, SweepApply(s) PROVE Goal
  <2>1. sweep[s].doing \in Refund
    BY <1>3 DEF SweepApply, IInv, TypeOK
  <2>2. bank[sweep[s].doing] = sweep[s].heard
    BY <1>3, <1>u DEF SweepApply, Apply, HeardIsTrue
  <2> QED BY <1>3, <2>1, <2>2, AnswerClaims DEF SweepApply
<1>4. ASSUME NEW r \in Refund, RequestStep(r) PROVE Goal
  BY <1>0, <1>1, <1>2, <1>4 DEF RequestStep, RequestRead, RequestAsk, RequestAskThrows,
                               RequestStaysPending, RequestDies
<1>5. ASSUME NEW s \in Sweeper, SweepStep(s) PROVE Goal
  BY <1>0, <1>3, <1>5 DEF SweepStep, SweepRead, SweepAsk, SweepThrows
<1>6. ASSUME NEW d \in Settler, SettleStep(d) PROVE Goal
  BY <1>0, <1>6 DEF SettleStep, SettleRead, SettleClaim, SettleCount, SettleAccrue, EventHandled,
                    SettlerDies
<1> QED BY <1>0, <1>4, <1>5, <1>6 DEF Next, BankDecides, Spend, vars

LEMMA ClaimedType ==
  ASSUME TypeOK
  PROVE  /\ refunded \in Int
         /\ \A r \in Refund : row[r].amount \in 0..Amount /\ row[r].releases \in Nat
                            /\ Claimed[r] \in Nat
  BY AmountType DEF TypeOK, Claimed

\* One claim changes: so does the sum.
LEMMA ClaimChanges ==
  ASSUME NEW r \in Refund, \A q \in Refund : Claimed[q] \in Int, Claimed'[r] \in Int,
         \A q \in Refund \ {r} : Claimed'[q] = Claimed[q]
  PROVE  SumFunctionOnSet(Claimed', Refund) = SumFunctionOnSet(Claimed, Refund) - Claimed[r] + Claimed'[r]
<1> DEFINE f == Claimed
           g == Claimed'
<1>1. /\ f[r] \in Int /\ g[r] \in Int /\ IsFiniteSet(Refund)
      /\ \A q \in Refund \ {r} : f[q] \in Int /\ g[q] = f[q]
  BY Finitely
<1> HIDE DEF f, g
<1>2. SumFunctionOnSet(g, Refund) = SumFunctionOnSet(f, Refund) - f[r] + g[r]
  BY <1>1, SumChange
<1> QED BY <1>2 DEF f, g

LEMMA ClaimsStep == IInv /\ Claims /\ [Next]_vars => Claims'
<1> SUFFICES ASSUME IInv, Claims, [Next]_vars PROVE Claims'
  OBVIOUS
<1>t. /\ refunded \in Int
      /\ \A r \in Refund : row[r].amount \in 0..Amount /\ row[r].releases \in Nat /\ Claimed[r] \in Nat
  BY ClaimedType DEF IInv
<1>d. \A r \in Refund : bank[r] \in Decided => bank'[r] = bank[r]
  BY DecidedStays
<1>s. SumFunctionOnSet(Claimed, Refund) \in Int
  BY <1>t, Finitely, SumType
<1>1. ASSUME NEW r \in Refund, NEW n \in 1..Amount, Takes(r, n) PROVE Claims'
  <2>1. row[r].releases = 0 /\ row[r].amount = 0
    BY <1>1 DEF Takes, NoRow
  <2>2. Claimed[r] = 0 /\ Claimed'[r] = n /\ n \in Int /\ \A q \in Refund \ {r} : Claimed'[q] = Claimed[q]
    BY <1>1, <2>1 DEF Takes, Claimed
  <2>3. SumFunctionOnSet(Claimed', Refund) = SumFunctionOnSet(Claimed, Refund) - Claimed[r] + Claimed'[r]
    BY <1>t, <2>2, ClaimChanges
  <2>4. \A q \in Refund : row'[q].releases = row[q].releases
    BY <1>1, <2>1 DEF Takes
  <2>5. OnceEach' => refunded' = SumFunctionOnSet(Claimed', Refund)
    BY <1>1, <1>t, <1>s, <2>2, <2>3, <2>4 DEF Claims, OnceEach, Takes
  <2> QED BY <1>d, <2>4, <2>5 DEF Claims, Decided
<1>2. ASSUME NEW r \in Refund, Releases(r) PROVE Claims'
  <2>1. \A q \in Refund \ {r} : Claimed'[q] = Claimed[q]
    BY <1>2 DEF Releases, Claimed
  <2>2. Claimed'[r] = 0
    BY <1>2, <1>t DEF Releases, Claimed
  <2>3. ASSUME OnceEach' PROVE refunded' = SumFunctionOnSet(Claimed', Refund)
    <3>1. row[r].releases = 0 /\ Claimed[r] = row[r].amount
      BY <1>2, <1>t, <2>3 DEF Releases, OnceEach, Claimed
    <3>2. OnceEach
      BY <1>2, <2>3, <3>1 DEF Releases, OnceEach
    <3>3. SumFunctionOnSet(Claimed', Refund) = SumFunctionOnSet(Claimed, Refund) - Claimed[r] + Claimed'[r]
      BY <1>t, <2>1, <2>2, ClaimChanges
    <3> QED BY <1>2, <1>t, <1>s, <2>2, <3>1, <3>2, <3>3 DEF Claims, Releases
  <2>4. \A q \in Refund : row'[q].releases > 0 => bank'[q] = "declined"
    BY <1>2, <1>d DEF Releases, Claims, Decided
  <2> QED BY <2>3, <2>4 DEF Claims
<1>3. CASE LeavesClaims
  <2>1. Claimed' = Claimed
    BY <1>3 DEF LeavesClaims, Claimed
  <2> QED BY <1>3, <1>d, <2>1 DEF LeavesClaims, Claims, OnceEach, Decided
<1> QED BY <1>1, <1>2, <1>3, EveryStepClaims

\* What was paid back is still claimed, so it is no more than the claims, and
\* these are no more than what was captured.
LEMMA PaidIsClaimed ==
  ASSUME IInv, Claims, OnceEach
  PROVE  Total(PaidBack) <= Amount
<1> DEFINE f == [r \in Refund |-> row[r].amount]
           P == PaidBack
           C == Claimed
<1>t. /\ refunded \in 0..Amount
      /\ \A r \in Refund : row[r].amount \in Int /\ row[r].releases \in Nat /\ Claimed[r] \in Nat
  BY ClaimedType, AmountType DEF IInv, TypeOK
<1>1. P \in SUBSET Refund /\ IsFiniteSet(P) /\ IsFiniteSet(Refund \ P) /\ IsFiniteSet(Refund)
  BY Finitely, FS_Subset DEF PaidBack
<1>2. \A r \in P : C[r] \in Int /\ f[r] = C[r]
  <2>1. \A r \in P : row[r].releases = 0
    BY <1>t DEF PaidBack, Claims
  <2> QED BY <1>t, <2>1 DEF PaidBack, Claimed
<1>3. \A r \in Refund : C[r] \in Nat /\ C[r] \in Int
  BY <1>t
<1>4. Total(PaidBack) = SumFunctionOnSet(f, P)
  BY DEF Total
<1>5. refunded = SumFunctionOnSet(C, Refund)
  BY DEF Claims
<1> HIDE DEF f, P, C
<1>6. SumFunctionOnSet(f, P) = SumFunctionOnSet(C, P)
  BY <1>1, <1>2, SumSame
<1>7. SumFunctionOnSet(C, Refund) = SumFunctionOnSet(C, P) + SumFunctionOnSet(C, Refund \ P)
  BY <1>1, <1>3, SumSplit
<1>8. SumFunctionOnSet(C, P) \in Int /\ SumFunctionOnSet(C, Refund \ P) \in Nat
  BY <1>1, <1>3, SumType, SumNat
<1> QED BY <1>t, <1>4, <1>5, <1>6, <1>7, <1>8, AmountType

\* For any refunds, any captured amount and any overlap of requests and sweeps:
\* more than was captured goes back only if a claim was released twice, which
\* is what applyPspRefundOutcome does not rule out.
THEOREM BoundedReleases == Spec => []BoundedUnlessReleasedTwice
<1>1. IInv /\ Claims /\ [Next]_vars => Claims'
  BY ClaimsStep
<1>2. IInv /\ Claims => BoundedUnlessReleasedTwice
  BY PaidIsClaimed DEF BoundedUnlessReleasedTwice, OnceEach
<1> QED BY ClaimsInit, Invariance, <1>1, <1>2, PTL DEF Spec
=============================================================================

------------------------ MODULE RefundDecisionProofs ------------------------
(* Proofs about RefundDecision, for any number of people, decisions and     *)
(* calls, any amounts and any rates: a decision that was never handed back  *)
(* is refunded once, every refund is on record and was decided by somebody  *)
(* else, the refunded amount is the sum of the refunds, and the books       *)
(* follow.                                                                  *)
EXTENDS RefundDecision, SumTheorems, TLAPS

Rows  == [is : {"none", "PENDING", "APPROVED", "REJECTED"},
          by : Person \cup {None}, decider : Approver \cup {None},
          amount : Amount \cup {0}, refund : Approver \cup {None}]
Keys  == [is : {"none", "IN_FLIGHT", "COMPLETED"}, lapsed : BOOLEAN]
Calls == [at : Settling \cup {"idle", "approved"}, of : Decision \cup {None},
          as : Approver \cup {None}, got : Approver \cup {None}]
Books == [payable : Int, liability : Int, revenue : Int, elsewhere : Int]

\* A row names its decider before anybody acts on it, and never the person
\* who asked; a direct decision waits only after it was handed back.
Signed(d) ==
  /\ row[d].is = "none" => row[d] = NoRow
  /\ row[d].is \in {"APPROVED", "REJECTED"} => row[d].decider # None
  /\ d \in Direct /\ row[d].is # "none" => row[d].decider # None
  /\ d \in Direct \ released => row[d].is \in {"none", "APPROVED"}
  /\ d \in Request /\ row[d].decider # None => row[d].decider # row[d].by

\* A call acts in the name of a decider, of the present one as long as the
\* decision was never handed back, and knows of refunds that exist.
Fits(k) ==
  \/ k = Idle
  \/ /\ k.of \in Decision /\ k.at # "idle" /\ row[k.of].decider # None
     /\ k.at # "approved" => k.as \in Approver /\ (k.of \in Request => k.as # row[k.of].by)
     /\ k.at = "marking" => k.as \in Posted(k.of)
     /\ k.at = "attaching" => k.got \in Posted(k.of)
     /\ k.of \notin released =>
          row[k.of].is = "APPROVED" /\ (k.at # "approved" => k.as = row[k.of].decider)

RowsSigned == \A d \in Decision : Signed(d)
CallFits(c) == Fits(call[c])
CallsFit   == \A c \in Call : CallFits(c)
Decisions  == /\ RowsSigned /\ CallsFit
              /\ OneRefundUnlessReleased /\ EveryRefundIsOnRecord

IInv == TypeOK /\ Decisions /\ BooksFollowTheRefund

LEMMA Shape ==
  ASSUME TypeOK
  PROVE  /\ row \in [Decision -> Rows] /\ refund \in [Approver -> [Decision -> 0..Gross]]
         /\ key \in [Approver -> [Decision -> Keys]] /\ call \in [Call -> Calls]
         /\ refunded \in 0..Gross /\ lot \in Nat /\ held \in Nat /\ books \in Books
  BY DEF TypeOK, Rows, Keys, Calls, Books

LEMMA IdleFits == Idle \in Calls /\ Fits(Idle)
  BY DEF Idle, Calls, Fits

(* The invariant holds before anybody has asked for a refund. *)
THEOREM Initially == Init => IInv
<1>1. SUFFICES ASSUME Init PROVE IInv
  OBVIOUS
<1>2. TypeOK
  <2>1. /\ NoRow \in Rows /\ NoKey \in Keys /\ Idle \in Calls
    BY DEF NoRow, NoKey, Idle, Rows, Keys, Calls
  <2>2. /\ Earned * Gross \in Nat /\ (Bonus - Pool) * Gross \in Int /\ (Pool - Earned) * Gross \in Int
    BY Rates
  <2>3. books \in Books /\ lot \in Nat /\ held \in Nat /\ refunded \in 0..Gross /\ faults \in 0..MaxFaults
    BY <1>1, <2>2, Rates DEF Init, Books
  <2>4. QED
    BY <1>1, <2>1, <2>3, Rates DEF Init, TypeOK, Rows, Keys, Calls, Books
<1>3. Decisions
  <2>1. \A d \in Decision : row[d] = NoRow /\ Posted(d) = {}
    BY <1>1 DEF Init, Posted
  <2>2. RowsSigned /\ CallsFit
    BY <1>1, <2>1 DEF Init, RowsSigned, Signed, NoRow, CallsFit, CallFits, Fits
  <2>3. OneRefundUnlessReleased /\ EveryRefundIsOnRecord
    BY <1>1, <2>1 DEF Init, OneRefundUnlessReleased, EveryRefundIsOnRecord, NoRow, NoKey
  <2>4. QED
    BY <2>2, <2>3 DEF Decisions
<1>4. BooksFollowTheRefund
  <2>1. /\ (Bonus - Pool) * (Gross - 0) = (Bonus - Pool) * Gross /\ Bonus * 0 = 0
        /\ Earned * Gross \in Int /\ Bonus * Gross \in Int /\ Pool * Gross \in Int
        /\ (Bonus - Pool) * Gross = Bonus * Gross - Pool * Gross
        /\ (Pool - Earned) * Gross = Pool * Gross - Earned * Gross
    BY Rates
  <2>2. QED
    BY <1>1, <2>1 DEF Init, BooksFollowTheRefund
<1>5. QED
  BY <1>2, <1>3, <1>4 DEF IInv

-----------------------------------------------------------------------------
(* What each kind of step preserves *)

\* A call moves on, and the idempotency record with it.
LEMMA CallMoves ==
  ASSUME IInv, NEW c \in Call, NEW k \in Calls, Fits(k), call' = [call EXCEPT ![c] = k],
         UNCHANGED <<money, row, released>>, key' \in [Approver -> [Decision -> Keys]],
         \A d \in Decision, p \in Approver : key'[p][d].is = "COMPLETED" => p \in Posted(d),
         faults' \in 0..MaxFaults
  PROVE  IInv'
<1>1. /\ row' = row /\ refund' = refund /\ refunded' = refunded /\ lot' = lot /\ held' = held
      /\ books' = books /\ released' = released
  BY DEF money
<1>2. call' \in [Call -> Calls]
  BY Shape DEF IInv
<1>3. TypeOK'
  BY <1>1, <1>2 DEF IInv, TypeOK, Keys, Calls
<1>4. RowsSigned' /\ OneRefundUnlessReleased'
  BY <1>1 DEF IInv, Decisions, RowsSigned, Signed, OneRefundUnlessReleased, Posted
<1>5. CallsFit'
  <2>1. \A x : Fits(x)' <=> Fits(x)
    BY <1>1 DEF Fits, Posted
  <2>2. QED
    BY <2>1, Shape DEF IInv, Decisions, CallsFit, CallFits
<1>6. EveryRefundIsOnRecord'
  BY <1>1 DEF IInv, Decisions, EveryRefundIsOnRecord, Posted
<1>7. BooksFollowTheRefund'
  BY <1>1 DEF IInv, BooksFollowTheRefund
<1>8. QED
  BY <1>3, <1>4, <1>5, <1>6, <1>7 DEF IInv, Decisions

\* A row changes; what has been posted for it does not.
LEMMA RowChanges ==
  ASSUME IInv, NEW d \in Decision, NEW r \in Rows, row' = [row EXCEPT ![d] = r],
         UNCHANGED <<money, key, faults>>,
         released \subseteq released', released' \subseteq Decision, call' \in [Call -> Calls],
         CallsFit', Signed(d)', r.is # "none", r.by = row[d].by \/ row[d].is = "none",
         r.refund # None => r.refund \in Posted(d),
         d \notin released' =>
           /\ Posted(d) = {} \/ (r.is = "APPROVED" /\ r.decider = row[d].decider)
           /\ r.refund # None => r.is = "APPROVED"
  PROVE  IInv'
<1>1. /\ refund' = refund /\ refunded' = refunded /\ lot' = lot /\ held' = held
      /\ books' = books /\ key' = key /\ faults' = faults
  BY DEF money
<1>2. /\ row'[d] = r /\ \A e \in Decision \ {d} : row'[e] = row[e]
      /\ \A e : Posted(e)' = Posted(e)
  BY Shape, <1>1 DEF IInv, Posted
<1>3. TypeOK'
  <2>1. row' \in [Decision -> Rows]
    BY Shape DEF IInv
  <2>2. QED
    BY <2>1, <1>1 DEF IInv, TypeOK, Rows, Calls
<1>4. RowsSigned'
  BY <1>2 DEF IInv, Decisions, RowsSigned, Signed
<1>5. OneRefundUnlessReleased'
  BY <1>2 DEF IInv, Decisions, OneRefundUnlessReleased
<1>6. EveryRefundIsOnRecord'
  BY <1>1, <1>2 DEF IInv, Decisions, EveryRefundIsOnRecord
<1>7. BooksFollowTheRefund'
  BY <1>1 DEF IInv, BooksFollowTheRefund
<1>8. QED
  BY <1>3, <1>4, <1>5, <1>6, <1>7 DEF IInv, Decisions

\* No call is about a decision nobody ever took, and none about one that
\* waits, or was turned down, and was never handed back.
LEMMA NobodyActs ==
  ASSUME IInv, NEW d \in Decision, NEW c \in Call,
         row[d].decider = None \/ (d \notin released /\ row[d].is # "APPROVED")
  PROVE  call[c] = Idle \/ call[c].of # d
BY DEF IInv, Decisions, CallsFit, CallFits, Fits

LEMMA NothingPosted ==
  ASSUME IInv, NEW d \in Decision, d \notin released, row[d].is # "APPROVED"
  PROVE  Posted(d) = {} /\ row[d].refund = None
BY DEF IInv, Decisions, OneRefundUnlessReleased

\* The books after a refund of a units, and after anything else.
LEMMA Arithmetic ==
  ASSUME NEW a \in Int, NEW r \in Int
  PROVE  /\ (Bonus - Pool) * (Gross - (r + a)) = (Bonus - Pool) * (Gross - r) + Pool * a - Bonus * a
         /\ Bonus * (r + a) = Bonus * r + Bonus * a
         /\ Bonus * a \in Int /\ Pool * a \in Int /\ Bonus * r \in Int /\ Bonus * Gross \in Int
         /\ (Bonus - Pool) * (Gross - r) \in Int
BY Rates

LEMMA ClawedBounds ==
  ASSUME NEW a \in Nat, lot \in Nat
  PROVE  Clawed(a) \in Nat /\ Clawed(a) <= lot
<1>1. Earned * a \in Nat
  BY Rates
<1>2. \A x, y \in Nat : Min({x, y}) \in {x, y} /\ Min({x, y}) <= y
  <2>1. SUFFICES ASSUME NEW x \in Nat, NEW y \in Nat
                 PROVE  Min({x, y}) \in {x, y} /\ Min({x, y}) <= y
    OBVIOUS
  <2>2. \E z \in {x, y} : \A w \in {x, y} : z =< w
    <3>1. CASE x <= y
      BY <3>1
    <3>2. CASE ~(x <= y)
      BY <3>2
    <3>3. QED
      BY <3>1, <3>2
  <2>3. QED
    BY <2>2 DEF Min
<1>3. QED
  BY <1>1, <1>2 DEF Clawed

LEMMA RefundPosts ==
  ASSUME IInv, NEW c \in Call, NEW a \in 1..Remaining, NEW k \in Calls, NEW p, NEW d,
         call[c] # Idle, call[c].at = "posting", call[c].as = p, call[c].of = d,
         k.as = p, k.of = d, k.at \in {"marking", "undoing"},
         call' = [call EXCEPT ![c] = k], Reverses(a),
         refund[p][d] = 0, refund' = [refund EXCEPT ![p][d] = a],
         UNCHANGED <<row, key, released, faults>>
  PROVE  IInv'
<1>1. /\ p \in Approver /\ d \in Decision /\ Fits(call[c]) /\ row[d].decider # None
      /\ d \in Request => p # row[d].by
      /\ d \notin released => row[d].is = "APPROVED" /\ p = row[d].decider
  BY DEF IInv, Decisions, CallsFit, CallFits, Fits
<1>2. /\ a \in Nat /\ a > 0 /\ a <= Gross /\ refunded + a \in 0..Gross /\ lot \in Nat /\ refunded \in Int
  BY Shape, Rates DEF IInv, Remaining
<1>3. /\ Posted(d)' = Posted(d) \cup {p}
      /\ \A e \in Decision \ {d} : Posted(e)' = Posted(e)
  <2>1. refund \in [Approver -> [Decision -> 0..Gross]]
    BY Shape DEF IInv
  <2>2. \A q \in Approver, e \in Decision :
          refund'[q][e] = IF q = p /\ e = d THEN a ELSE refund[q][e]
    BY <2>1, <1>1
  <2>3. QED
    BY <2>2, <1>1, <1>2 DEF Posted
<1>4. TypeOK'
  <2>1. /\ refund' \in [Approver -> [Decision -> 0..Gross]] /\ call' \in [Call -> Calls]
    BY Shape, <1>1, <1>2 DEF IInv
  <2>2. refunded' \in 0..Gross /\ lot' \in Nat /\ held' \in Nat /\ books' \in Books
    <3>1. Clawed(a) \in Nat /\ Clawed(a) <= lot
      BY ClawedBounds, <1>2
    <3>2. Pool * a \in Int /\ Bonus * a \in Int
      BY Arithmetic, <1>2
    <3>3. books \in Books /\ held \in Nat
      BY Shape DEF IInv
    <3>4. refunded' \in 0..Gross /\ lot' \in Nat /\ held' \in Nat
      BY <3>1, <3>3, <1>2 DEF Reverses
    <3>5. \A x, y, z \in Int : [books EXCEPT !.payable = x, !.liability = y, !.revenue = z] \in Books
      BY <3>3 DEF Books
    <3>6. /\ books.payable + Pool * a - Bonus * a \in Int
          /\ books.liability - Clawed(a) + Bonus * a \in Int
          /\ books.revenue - (Pool * a - Clawed(a)) \in Int
      BY <3>1, <3>2, <3>3 DEF Books
    <3>7. books' \in Books
      BY <3>5, <3>6 DEF Reverses
    <3>8. QED
      BY <3>4, <3>7
  <2>3. QED
    BY <2>1, <2>2 DEF IInv, TypeOK, Keys, Calls, Books
<1>5. CallsFit'
  <2>1. ASSUME NEW x, Fits(x) PROVE Fits(x)'
    BY <2>1, <1>3 DEF Fits
  <2>2. Fits(k)'
    BY <1>1, <1>3 DEF Fits
  <2>3. QED
    BY <2>1, <2>2, Shape DEF IInv, Decisions, CallsFit, CallFits
<1>6. RowsSigned'
  BY DEF IInv, Decisions, RowsSigned, Signed
<1>7. OneRefundUnlessReleased'
  BY <1>1, <1>3 DEF IInv, Decisions, OneRefundUnlessReleased
<1>8. EveryRefundIsOnRecord'
  <2>1. row[d].is # "none"
    BY <1>1 DEF IInv, Decisions, RowsSigned, Signed, NoRow
  <2>2. QED
    BY <2>1, <1>1, <1>3 DEF IInv, Decisions, EveryRefundIsOnRecord
<1>9. BooksFollowTheRefund'
  <2>1. Clawed(a) \in Nat /\ books \in Books /\ held \in Nat
    BY ClawedBounds, <1>2, Shape DEF IInv
  <2>2. /\ books'.payable = books.payable + Pool * a - Bonus * a
        /\ books'.liability = books.liability - Clawed(a) + Bonus * a
        /\ books'.revenue = books.revenue - (Pool * a - Clawed(a))
        /\ books'.elsewhere = books.elsewhere
        /\ refunded' = refunded + a /\ lot' = lot - Clawed(a) /\ held' = held
    BY <2>1 DEF Reverses, Books
  <2>3. QED
    BY <2>1, <2>2, <1>2, Arithmetic DEF IInv, BooksFollowTheRefund, Books
<1>10. QED
  BY <1>4, <1>5, <1>6, <1>7, <1>8, <1>9 DEF IInv, Decisions

\* A call stays in order when a row changes that it is not about, or that
\* keeps its people and either its status or no claim to be untouched.
LEMMA FitsStill ==
  ASSUME IInv, NEW d \in Decision, NEW r \in Rows, row' = [row EXCEPT ![d] = r], refund' = refund,
         released \subseteq released', released' \subseteq released \cup {d},
         NEW x, Fits(x),
         \/ x = Idle \/ x.of # d
         \/ /\ r.decider # None /\ r.by = row[d].by
            /\ d \in released' \/ (r.is = row[d].is /\ r.decider = row[d].decider)
  PROVE  Fits(x)'
<1>1. row'[d] = r /\ \A e \in Decision \ {d} : row'[e] = row[e]
  BY Shape DEF IInv
<1>2. \A e : Posted(e)' = Posted(e)
  BY DEF Posted
<1>3. CASE x = Idle \/ x.of # d
  BY <1>1, <1>2, <1>3 DEF Fits
<1>4. CASE x # Idle /\ x.of = d
  BY <1>1, <1>2, <1>4 DEF Fits
<1>5. QED
  BY <1>3, <1>4

\* What a step that writes row r for d has to see to: the calls about d stay
\* in order or do not exist, and the row says no more than was decided.
Careful(d, r) ==
  /\ \A c \in Call :
       \/ CallFits(c)'
       \/ /\ call'[c] = call[c]
          /\ \/ call[c] = Idle \/ call[c].of # d
             \/ /\ r.decider # None /\ r.by = row[d].by
                /\ d \in released' \/ (r.is = row[d].is /\ r.decider = row[d].decider)
  /\ r.is \in {"APPROVED", "REJECTED"} \/ d \in Direct => r.decider # None
  /\ d \in Direct \ released' => r.is = "APPROVED"
  /\ d \in Request /\ r.decider # None => r.decider # r.by
  /\ r.is # "none" /\ (r.by = row[d].by \/ row[d].is = "none")
  /\ r.refund # None => r.refund \in Posted(d)
  /\ d \notin released' =>
       /\ Posted(d) = {} \/ (r.is = "APPROVED" /\ r.decider = row[d].decider)
       /\ r.refund # None => r.is = "APPROVED"

LEMMA RowWrite ==
  ASSUME IInv, NEW d \in Decision, NEW r \in Rows, row' = [row EXCEPT ![d] = r],
         UNCHANGED money, key' = key, faults' = faults,
         released \subseteq released', released' \subseteq released \cup {d},
         call' \in [Call -> Calls], Careful(d, r)
  PROVE  IInv'
<1>1. CallsFit'
  <2>1. SUFFICES ASSUME NEW c \in Call, NEW k, k = call'[c], call'[c] = call[c],
                        \/ k = Idle \/ k.of # d
                        \/ /\ r.decider # None /\ r.by = row[d].by
                           /\ d \in released' \/ (r.is = row[d].is /\ r.decider = row[d].decider)
                 PROVE  Fits(k)'
    BY DEF Careful, CallsFit, CallFits
  <2>2. refund' = refund
    BY DEF money
  <2>3. Fits(call[c])
    BY DEF IInv, Decisions, CallsFit, CallFits
  <2>4. QED
    BY <2>1, <2>2, <2>3, FitsStill
<1>2. Signed(d)'
  <2>1. row'[d] = r
    BY Shape DEF IInv
  <2>2. QED
    BY <2>1 DEF Careful, Signed
<1>3. released' \subseteq Decision /\ UNCHANGED <<money, key, faults>>
  BY DEF IInv, TypeOK
<1>4. QED
  BY <1>1, <1>2, <1>3, RowChanges DEF Careful

-----------------------------------------------------------------------------
(* The steps *)

LEMMA AskSafe ==
  ASSUME IInv, NEW d \in Request, NEW p \in Person, NEW a \in Amount, Ask(d, p, a)
  PROVE  IInv'
<1> DEFINE r == [NoRow EXCEPT !.is = "PENDING", !.by = p, !.amount = a]
<1>1. d \in Decision /\ d \notin Direct /\ row[d].is = "none" /\ row[d].decider = None
  BY Apart DEF Decision, Ask, IInv, Decisions, RowsSigned, Signed, NoRow
<1>2. r \in Rows /\ r.is = "PENDING" /\ r.by = p /\ r.decider = None /\ r.refund = None
  BY DEF Rows, NoRow
<1>3. /\ row' = [row EXCEPT ![d] = r] /\ UNCHANGED money
      /\ key' = key /\ call' = call /\ released' = released /\ faults' = faults
  BY DEF Ask
<1>4. Posted(d) = {}
  BY <1>1 DEF IInv, Decisions, EveryRefundIsOnRecord
<1>5. call \in [Call -> Calls] /\ \A c \in Call : call[c] = Idle \/ call[c].of # d
  BY <1>1, NobodyActs, Shape DEF IInv
<1> HIDE DEF r
<1>6. Careful(d, r)
  BY <1>1, <1>2, <1>3, <1>4, <1>5 DEF Careful
<1>7. QED
  BY <1>1, <1>2, <1>3, <1>5, <1>6, RowWrite

LEMMA RejectSafe ==
  ASSUME IInv, NEW d \in Decision, NEW p \in Approver, Reject(d, p)
  PROVE  IInv'
<1> DEFINE r == [row[d] EXCEPT !.is = "REJECTED", !.decider = p]
<1>1. row \in [Decision -> Rows] /\ row[d].is = "PENDING" /\ row[d].refund = None /\ p # row[d].by
  BY Shape DEF Reject, IInv
<1>2. /\ r \in Rows /\ r.is = "REJECTED" /\ r.by = row[d].by /\ r.decider = p
      /\ r.refund = None /\ p # None
  BY <1>1, People DEF Rows
<1>3. /\ row' = [row EXCEPT ![d] = r] /\ UNCHANGED money
      /\ key' = key /\ call' = call /\ released' = released /\ faults' = faults
  BY <1>1 DEF Reject
<1>4. d \notin released => Posted(d) = {} /\ \A c \in Call : call[c] = Idle \/ call[c].of # d
  BY <1>1, NothingPosted, NobodyActs
<1>5. call \in [Call -> Calls] /\ d \notin Direct \ released
  BY <1>1, Shape DEF IInv, Decisions, RowsSigned, Signed
<1> HIDE DEF r
<1>6. Careful(d, r)
  BY <1>1, <1>2, <1>3, <1>4, <1>5 DEF Careful
<1>7. QED
  BY <1>1, <1>2, <1>3, <1>5, <1>6, RowWrite

LEMMA ClaimSafe ==
  ASSUME IInv, NEW c \in Call, NEW d \in Decision, NEW p \in Approver, Approve(c, d, p)
  PROVE  IInv'
<1> DEFINE r == [row[d] EXCEPT !.is = "APPROVED", !.decider = p]
           k == [Idle EXCEPT !.at = "approved", !.of = d]
<1>1. /\ row \in [Decision -> Rows] /\ call \in [Call -> Calls] /\ key \in [Approver -> [Decision -> Keys]]
      /\ faults \in 0..MaxFaults
  BY Shape DEF IInv, TypeOK
<1>2. /\ k \in Calls /\ k.at = "approved" /\ k.of = d /\ k # Idle
  BY DEF Calls, Idle, Decision
<1>3. /\ call' = [call EXCEPT ![c] = k] /\ UNCHANGED money
      /\ key' = key /\ released' = released /\ faults' = faults
  BY DEF Approve
<1>4. CASE row[d].is = "PENDING" /\ p # row[d].by /\ row' = [row EXCEPT ![d] = r]
  <2>1. /\ r \in Rows /\ r.is = "APPROVED" /\ r.by = row[d].by /\ r.decider = p
        /\ r.refund = row[d].refund /\ p # None
    BY <1>1, People DEF Rows
  <2>2. row'[d] = r
    BY <1>1, <1>4
  <2>3. CallFits(c)'
    BY <1>1, <1>2, <1>3, <2>1, <2>2 DEF CallFits, Fits
  <2>4. d \notin released => /\ Posted(d) = {} /\ row[d].refund = None
                            /\ \A x \in Call : call[x] = Idle \/ call[x].of # d
    BY <1>4, NothingPosted, NobodyActs
  <2>5. row[d].refund # None => row[d].refund \in Posted(d)
    BY DEF IInv, Decisions, EveryRefundIsOnRecord
  <2>6. call' \in [Call -> Calls] /\ call'[c] = k /\ \A x \in Call \ {c} : call'[x] = call[x]
    BY <1>1, <1>2, <1>3
  <2> HIDE DEF r, k
  <2>7. Careful(d, r)
    BY <1>3, <1>4, <2>1, <2>3, <2>4, <2>5, <2>6 DEF Careful
  <2>8. row' = [row EXCEPT ![d] = r]
    BY <1>4
  <2>9. QED
    BY <1>3, <2>1, <2>6, <2>7, <2>8, RowWrite
<1>5. CASE row[d].is = "APPROVED" /\ row' = row
  <2>1. row[d].decider # None
    BY <1>5 DEF IInv, Decisions, RowsSigned, Signed
  <2>2. Fits(k)
    BY <1>2, <1>5, <2>1 DEF Fits
  <2>3. \A e \in Decision, q \in Approver : key'[q][e].is = "COMPLETED" => q \in Posted(e)
    BY <1>3 DEF IInv, Decisions, EveryRefundIsOnRecord
  <2>4. UNCHANGED <<money, row, released>>
    BY <1>3, <1>5
  <2> HIDE DEF k
  <2>5. QED
    BY <1>1, <1>2, <1>3, <2>2, <2>3, <2>4, CallMoves
<1>6. QED
  BY <1>4, <1>5 DEF Approve

\* What a call that is settling knows.
LEMMA Acting ==
  ASSUME IInv, NEW c \in Call, call[c].at \in Settling
  PROVE  /\ call[c] \in Calls /\ call[c] # Idle /\ call[c].of \in Decision /\ call[c].as \in Approver
         /\ row[call[c].of].decider # None
         /\ call[c].of \in Request => call[c].as # row[call[c].of].by
         /\ call[c].at = "marking" => call[c].as \in Posted(call[c].of)
         /\ call[c].at = "attaching" => call[c].got \in Posted(call[c].of)
         /\ call[c].of \notin released =>
              row[call[c].of].is = "APPROVED" /\ call[c].as = row[call[c].of].decider
<1>1. call[c] \in Calls /\ Fits(call[c])
  BY Shape DEF IInv, Decisions, CallsFit, CallFits
<1>2. call[c] # Idle /\ call[c].at # "approved"
  BY DEF Idle, Settling
<1>3. QED
  BY <1>1, <1>2 DEF Fits

\* The idempotency records after a step answer only for what was posted.
KeyStep == /\ key' \in [Approver -> [Decision -> Keys]]
           /\ \A d \in Decision, p \in Approver : key'[p][d].is = "COMPLETED" => p \in Posted(d)

LEMMA KeyKept == ASSUME IInv, key' = key PROVE KeyStep
BY Shape DEF IInv, Decisions, EveryRefundIsOnRecord, KeyStep

LEMMA KeySet ==
  ASSUME IInv, NEW c \in Call, call[c].at \in Settling,
         NEW is \in {"none", "IN_FLIGHT", "COMPLETED"}, SetKey(c, is),
         is = "COMPLETED" => call[c].as \in Posted(call[c].of)
  PROVE  KeyStep
<1>1. /\ key \in [Approver -> [Decision -> Keys]] /\ call[c].as \in Approver /\ call[c].of \in Decision
  BY Shape, Acting DEF IInv
<1>2. [NoKey EXCEPT !.is = is] \in Keys /\ [NoKey EXCEPT !.is = is].is = is
  BY DEF NoKey, Keys
<1>3. \A d \in Decision, p \in Approver :
        key'[p][d] = IF p = call[c].as /\ d = call[c].of THEN [NoKey EXCEPT !.is = is] ELSE key[p][d]
  BY <1>1 DEF SetKey
<1>4. key' \in [Approver -> [Decision -> Keys]]
  BY <1>1, <1>2 DEF SetKey
<1>5. QED
  BY <1>2, <1>3, <1>4 DEF IInv, Decisions, EveryRefundIsOnRecord, KeyStep

LEMMA GoesOn ==
  ASSUME IInv, NEW c \in Call, call[c].at \in Settling, NEW at \in Settling \ {"attaching"},
         at = "marking" => call[c].as \in Posted(call[c].of), Goes(c, at),
         UNCHANGED <<money, row, released>>, KeyStep, faults' \in 0..MaxFaults
  PROVE  IInv'
<1> DEFINE k == [call[c] EXCEPT !.at = at]
<1>1. /\ k \in Calls /\ k.at = at /\ k.of = call[c].of /\ k.as = call[c].as
      /\ at # "idle" /\ at # "approved" /\ at # "attaching"
  BY Acting DEF Calls, Settling
<1>2. Fits(k)
  BY <1>1, Acting DEF Fits
<1>3. call' = [call EXCEPT ![c] = k]
  BY DEF Goes
<1> HIDE DEF k
<1>4. QED
  BY <1>1, <1>2, <1>3, CallMoves DEF KeyStep

LEMMA AttachesNext ==
  ASSUME IInv, NEW c \in Call, call[c].at \in Settling, NEW p \in Posted(call[c].of), Attaches(c, p),
         UNCHANGED <<money, row, released>>, KeyStep, faults' \in 0..MaxFaults
  PROVE  IInv'
<1> DEFINE k == [call[c] EXCEPT !.at = "attaching", !.got = p]
<1>1. p \in Approver
  BY DEF Posted
<1>2. k \in Calls /\ k.at = "attaching" /\ k.of = call[c].of /\ k.as = call[c].as /\ k.got = p
  BY <1>1, Acting DEF Calls, Settling
<1>3. Fits(k)
  BY <1>2, Acting DEF Fits
<1>4. call' = [call EXCEPT ![c] = k]
  BY Shape DEF IInv, Attaches
<1> HIDE DEF k
<1>5. QED
  BY <1>2, <1>3, <1>4, CallMoves DEF KeyStep

LEMMA EndsThere ==
  ASSUME IInv, NEW c \in Call, Ends(c), UNCHANGED <<money, row, released>>, KeyStep,
         faults' \in 0..MaxFaults
  PROVE  IInv'
BY IdleFits, CallMoves DEF Ends, KeyStep

LEMMA FaultsKept == ASSUME IInv, faults' = faults PROVE faults' \in 0..MaxFaults
BY DEF IInv, TypeOK

LEMMA FaultsGrow == ASSUME IInv, Fails PROVE faults' \in 0..MaxFaults
BY Rates DEF IInv, TypeOK, Fails

\* A settlement begins in the name of the decider on the row.
LEMMA SettleSafe ==
  ASSUME IInv, NEW c \in Call, NEW d \in Decision, row[d].decider # None,
         d \notin released => row[d].is = "APPROVED",
         Settle(c, d), UNCHANGED <<money, row, released, key, faults>>
  PROVE  IInv'
<1> DEFINE k == [Idle EXCEPT !.at = "claiming", !.of = d, !.as = row[d].decider]
<1>1. KeyStep /\ faults' \in 0..MaxFaults /\ UNCHANGED <<money, row, released>>
  BY KeyKept, FaultsKept
<1>2. CASE row[d].refund # None
  BY <1>1, <1>2, EndsThere DEF Settle
<1>3. CASE row[d].refund = None
  <2>1. row[d] \in Rows /\ Signed(d)
    BY Shape DEF IInv, Decisions, RowsSigned
  <2>2. k \in Calls /\ k.at = "claiming" /\ k.of = d /\ k.as = row[d].decider
    BY <2>1 DEF Calls, Idle, Settling, Rows
  <2>3. Fits(k)
    BY <2>1, <2>2 DEF Fits, Signed, Rows
  <2>4. call' = [call EXCEPT ![c] = k]
    BY <1>3 DEF Settle
  <2> HIDE DEF k
  <2>5. QED
    BY <1>1, <2>2, <2>3, <2>4, CallMoves DEF KeyStep
<1>4. QED
  BY <1>2, <1>3

LEMMA ReadsSafe ==
  ASSUME IInv, NEW c \in Call, ApproveReads(c)
  PROVE  IInv'
<1>1. call[c] \in Calls /\ Fits(call[c]) /\ call[c] # Idle
  BY Shape DEF IInv, Decisions, CallsFit, CallFits, ApproveReads, Idle
<1>2. /\ call[c].of \in Decision /\ row[call[c].of].decider # None
      /\ call[c].of \notin released => row[call[c].of].is = "APPROVED"
  BY <1>1 DEF Fits
<1>3. Settle(c, call[c].of) /\ UNCHANGED <<money, row, released, key, faults>>
  BY DEF ApproveReads
<1>4. QED
  BY <1>2, <1>3, SettleSafe

LEMMA DirectSafe ==
  ASSUME IInv, NEW c \in Call, NEW d \in Direct, NEW p \in Approver, NEW a \in Amount,
         RefundDirectly(c, d, p, a)
  PROVE  IInv'
<1> DEFINE r == [NoRow EXCEPT !.is = "APPROVED", !.by = p, !.decider = p, !.amount = a]
           k == [Idle EXCEPT !.at = "claiming", !.of = d, !.as = p]
<1>1. /\ d \in Decision /\ d \notin Request /\ p # None /\ p \in Person
      /\ UNCHANGED money /\ key' = key /\ released' = released /\ faults' = faults
  BY Apart, People DEF Decision, RefundDirectly
<1>2. CASE row[d].by = p /\ Settle(c, d) /\ row' = row
  <2>1. row[d].is # "none"
    BY <1>1, <1>2 DEF IInv, Decisions, RowsSigned, Signed, NoRow
  <2>2. row[d].decider # None
    BY <1>1, <2>1 DEF IInv, Decisions, RowsSigned, Signed
  <2>3. d \notin released => row[d].is = "APPROVED"
    BY <1>1, <2>1 DEF IInv, Decisions, RowsSigned, Signed
  <2>4. QED
    BY <1>1, <1>2, <2>2, <2>3, SettleSafe
<1>3. CASE row[d].is = "none" /\ row' = [row EXCEPT ![d] = r] /\ call' = [call EXCEPT ![c] = k]
  <2>1. /\ r \in Rows /\ r.is = "APPROVED" /\ r.by = p /\ r.decider = p /\ r.refund = None
        /\ k \in Calls /\ k.at = "claiming" /\ k.of = d /\ k.as = p
    BY <1>1 DEF Rows, NoRow, Calls, Idle, Settling
  <2>2. row[d].decider = None /\ Posted(d) = {}
    BY <1>1, <1>3 DEF IInv, Decisions, RowsSigned, Signed, NoRow, EveryRefundIsOnRecord
  <2>3. row'[d] = r /\ call'[c] = k /\ call' \in [Call -> Calls]
        /\ \A x \in Call \ {c} : call'[x] = call[x]
    BY <1>1, <1>3, <2>1, Shape DEF IInv
  <2>4. CallFits(c)'
    BY <1>1, <2>1, <2>3 DEF CallFits, Fits
  <2>5. \A x \in Call : CallFits(x)' \/ (call'[x] = call[x] /\ (call[x] = Idle \/ call[x].of # d))
    BY <1>1, <2>2, <2>3, <2>4, NobodyActs
  <2> HIDE DEF r, k
  <2>6. row' = [row EXCEPT ![d] = r]
    BY <1>3
  <2>7. Careful(d, r)
    BY <1>1, <1>3, <2>1, <2>2, <2>5 DEF Careful
  <2>8. QED
    BY <1>1, <2>1, <2>3, <2>6, <2>7, RowWrite
<1>4. QED
  BY <1>2, <1>3 DEF RefundDirectly

\* The steps of one call around its idempotency record.
LEMMA KeySteps ==
  ASSUME IInv, NEW c \in Call,
         ClaimKey(c) \/ LookAtKey(c) \/ ReclaimKey(c) \/ CompleteKey(c) \/ DropKey(c) \/ FindByKey(c)
  PROVE  IInv'
<1>1. CASE ClaimKey(c)
  <2>1. call[c].at \in Settling /\ UNCHANGED <<money, row, released>> /\ faults' \in 0..MaxFaults
    BY <1>1, FaultsKept DEF ClaimKey, Settling
  <2>2. KeyStep
    BY <1>1, <2>1, KeyKept, KeySet DEF ClaimKey
  <2>3. \E at \in {"finding", "looking"} : Goes(c, at)
    BY <1>1 DEF ClaimKey
  <2>4. QED
    BY <2>1, <2>2, <2>3, GoesOn DEF Settling
<1>2. CASE LookAtKey(c)
  <2>1. /\ call[c].at \in Settling /\ UNCHANGED <<money, row, released>>
        /\ KeyStep /\ faults' \in 0..MaxFaults
    BY <1>2, FaultsKept, KeyKept DEF LookAtKey, Settling
  <2>2. CASE \E at \in {"failed", "lapsed", "held"} : Goes(c, at)
    BY <2>1, <2>2, GoesOn DEF Settling
  <2>3. CASE KeyOf(c).is = "COMPLETED" /\ Attaches(c, call[c].as)
    <3>1. call[c].as \in Posted(call[c].of)
      BY <2>1, <2>3, Acting DEF KeyOf, IInv, Decisions, EveryRefundIsOnRecord
    <3>2. QED
      BY <2>1, <2>3, <3>1, AttachesNext
  <2>4. QED
    BY <1>2, <2>2, <2>3 DEF LookAtKey
<1>3. CASE ReclaimKey(c)
  <2>1. call[c].at \in Settling /\ UNCHANGED <<money, row, released>> /\ faults' \in 0..MaxFaults
    BY <1>3, FaultsKept DEF ReclaimKey, Settling
  <2>2. KeyStep
    BY <1>3, <2>1, KeyKept, KeySet DEF ReclaimKey
  <2>3. \E at \in {"finding", "held"} : Goes(c, at)
    BY <1>3 DEF ReclaimKey
  <2>4. QED
    BY <2>1, <2>2, <2>3, GoesOn DEF Settling
<1>4. CASE CompleteKey(c)
  <2>1. call[c].at \in Settling /\ UNCHANGED <<money, row, released>> /\ faults' \in 0..MaxFaults
    BY <1>4, FaultsKept DEF CompleteKey, Settling
  <2>2. call[c].as \in Posted(call[c].of)
    BY <1>4, <2>1, Acting DEF CompleteKey
  <2>3. KeyStep
    BY <1>4, <2>1, <2>2, KeyKept, KeySet DEF CompleteKey
  <2>4. QED
    BY <1>4, <2>1, <2>2, <2>3, AttachesNext DEF CompleteKey
<1>5. CASE DropKey(c)
  <2>1. call[c].at \in Settling /\ UNCHANGED <<money, row, released>> /\ faults' \in 0..MaxFaults
    BY <1>5, FaultsKept DEF DropKey, Settling
  <2>2. KeyStep
    BY <1>5, <2>1, KeySet DEF DropKey
  <2>3. QED
    BY <1>5, <2>1, <2>2, GoesOn DEF DropKey, Settling
<1>6. CASE FindByKey(c)
  <2>1. /\ call[c].at \in Settling /\ UNCHANGED <<money, row, released>>
        /\ KeyStep /\ faults' \in 0..MaxFaults
    BY <1>6, FaultsKept, KeyKept DEF FindByKey, Settling
  <2>2. refund[call[c].as][call[c].of] > 0 => call[c].as \in Posted(call[c].of)
    BY <2>1, Acting DEF Posted
  <2>3. CASE call[c].as \in Posted(call[c].of) /\ Goes(c, "marking")
    BY <2>1, <2>3, GoesOn DEF Settling
  <2>4. CASE Goes(c, "posting")
    BY <2>1, <2>4, GoesOn DEF Settling
  <2>5. QED
    BY <1>6, <2>2, <2>3, <2>4 DEF FindByKey
<1>7. QED
  BY <1>1, <1>2, <1>3, <1>4, <1>5, <1>6

LEMMA PostSafe ==
  ASSUME IInv, NEW c \in Call, PostRefund(c)
  PROVE  IInv'
<1> DEFINE p == call[c].as  d == call[c].of  a == Wanted(d)
<1>1. /\ call[c].at = "posting" /\ call[c].at \in Settling /\ UNCHANGED <<row, key, released, faults>>
      /\ row' = row /\ key' = key /\ released' = released /\ faults' = faults
  BY DEF PostRefund, Settling
<1>2. KeyStep /\ faults' \in 0..MaxFaults
  BY <1>1, KeyKept, FaultsKept
<1>3. /\ refund \in [Approver -> [Decision -> 0..Gross]] /\ p \in Approver /\ d \in Decision
      /\ call[c] # Idle /\ call[c] \in Calls
  BY <1>1, Acting, Shape DEF IInv
<1>4. CASE Goes(c, "undoing") /\ UNCHANGED money
  BY <1>1, <1>2, <1>4, GoesOn DEF Settling
<1>5. CASE refund[p][d] > 0 /\ Goes(c, "marking") /\ UNCHANGED money
  <2>1. p \in Posted(d)
    BY <1>3, <1>5 DEF Posted
  <2>2. QED
    BY <1>1, <1>2, <1>5, <2>1, GoesOn DEF Settling
<1>6. ASSUME a \in 1..Remaining, refund[p][d] = 0, refund' = [refund EXCEPT ![p][d] = a],
             Reverses(a), NEW at \in {"marking", "undoing"}, Goes(c, at)
      PROVE  IInv'
  <2> DEFINE k == [call[c] EXCEPT !.at = at]
  <2>1. k \in Calls /\ k.as = p /\ k.of = d /\ k.at = at
    BY <1>3 DEF Calls, Settling
  <2>2. call' = [call EXCEPT ![c] = k]
    BY <1>6 DEF Goes
  <2> HIDE DEF k
  <2>3. SUFFICES ASSUME NEW P, NEW D, NEW A, P = p, D = d, A = a PROVE IInv'
    OBVIOUS
  <2>4. /\ A \in 1..Remaining /\ refund[P][D] = 0 /\ refund' = [refund EXCEPT ![P][D] = A]
        /\ Reverses(A) /\ call[c].as = P /\ call[c].of = D /\ k.as = P /\ k.of = D
    BY <1>6, <2>1, <2>3
  <2> HIDE DEF p, d, a
  <2>5. QED
    BY <1>1, <1>3, <2>1, <2>2, <2>4, RefundPosts
<1>7. QED
  BY <1>4, <1>5, <1>6 DEF PostRefund

LEMMA ThrowsSafe ==
  ASSUME IInv, NEW c \in Call, Throws(c)
  PROVE  IInv'
<1>1. /\ call[c].at \in Settling /\ UNCHANGED <<money, row, released>>
      /\ KeyStep /\ faults' \in 0..MaxFaults
  BY FaultsGrow, KeyKept DEF Throws, Settling
<1>2. \E at \in {"failed", "undoing"} : Goes(c, at)
  BY DEF Throws
<1>3. QED
  BY <1>1, <1>2, GoesOn DEF Settling

LEMMA LookSafe ==
  ASSUME IInv, NEW c \in Call, LookForRefund(c)
  PROVE  IInv'
<1>1. /\ call[c].at \in Settling /\ UNCHANGED <<money, row, released>>
      /\ KeyStep /\ faults' \in 0..MaxFaults
  BY FaultsKept, KeyKept DEF LookForRefund, Settling
<1>2. CASE \E p \in Posted(call[c].of) : Attaches(c, p)
  BY <1>1, <1>2, AttachesNext
<1>3. CASE Goes(c, "releasing")
  BY <1>1, <1>3, GoesOn DEF Settling
<1>4. CASE Ends(c)
  BY <1>1, <1>4, EndsThere
<1>5. QED
  BY <1>2, <1>3, <1>4 DEF LookForRefund

LEMMA ReleaseSafe ==
  ASSUME IInv, NEW c \in Call, Release(c)
  PROVE  IInv'
<1>1. /\ call[c].at \in Settling /\ call[c].of \in Decision /\ Ends(c)
      /\ UNCHANGED money /\ key' = key /\ faults' = faults
  BY Acting DEF Release, Settling
<1>2. CASE row' = row /\ released' = released
  BY <1>1, <1>2, KeyKept, FaultsKept, EndsThere
<1>3. ASSUME NEW d \in Decision, d = call[c].of, row[d].is = "APPROVED", row[d].refund = None,
             row' = [row EXCEPT ![d].is = "PENDING"], released' = released \cup {d}
      PROVE  IInv'
  <2> DEFINE r == [row[d] EXCEPT !.is = "PENDING"]
  <2>1. row \in [Decision -> Rows] /\ call \in [Call -> Calls] /\ d \in Decision
    BY <1>1, <1>3, Shape DEF IInv
  <2>2. /\ r \in Rows /\ r.is = "PENDING" /\ r.by = row[d].by /\ r.decider = row[d].decider
        /\ r.refund = None
    BY <1>3, <2>1 DEF Rows
  <2>3. row[d].decider # None /\ (d \in Request => row[d].decider # row[d].by)
    BY <1>3, <2>1 DEF IInv, Decisions, RowsSigned, Signed
  <2>4. /\ call' \in [Call -> Calls] /\ call'[c] = Idle
        /\ \A x \in Call \ {c} : call'[x] = call[x]
    BY <1>1, <2>1, IdleFits DEF Ends
  <2>5. \A x \in Call : CallFits(x)' \/ call'[x] = call[x]
    BY <2>4 DEF CallFits, Fits
  <2>6. row' = [row EXCEPT ![d] = r]
    BY <1>3
  <2>7. d \in released' /\ released \subseteq released' /\ released' \subseteq released \cup {d}
    BY <1>3
  <2> HIDE DEF r
  <2>8. Careful(d, r)
    BY <2>2, <2>3, <2>5, <2>7 DEF Careful
  <2>9. UNCHANGED money /\ key' = key /\ faults' = faults
    BY <1>1
  <2>10. QED
    BY <2>2, <2>4, <2>6, <2>7, <2>8, <2>9, RowWrite
<1>4. QED
  BY <1>1, <1>2, <1>3 DEF Release

LEMMA AttachSafe ==
  ASSUME IInv, NEW c \in Call, AttachRefund(c)
  PROVE  IInv'
<1>1. SUFFICES ASSUME NEW d \in Decision, d = call[c].of, NEW g \in Approver, g = call[c].got PROVE IInv'
  BY Acting DEF AttachRefund, Settling, Posted
<1>2. /\ call[c].at = "attaching" /\ call[c].at \in Settling /\ Ends(c)
      /\ UNCHANGED money /\ key' = key /\ released' = released /\ faults' = faults
  BY DEF AttachRefund, Settling
<1> DEFINE r == [row[d] EXCEPT !.refund = g]
<1>3. /\ row \in [Decision -> Rows] /\ call \in [Call -> Calls] /\ d \in Decision
      /\ g \in Posted(d) /\ g \in Approver /\ row[d].decider # None
      /\ d \notin released => row[d].is = "APPROVED"
  BY <1>1, <1>2, Acting, Shape DEF IInv, Posted
<1>4. /\ r \in Rows /\ r.is = row[d].is /\ r.by = row[d].by /\ r.decider = row[d].decider
      /\ r.refund = g
  BY <1>3 DEF Rows
<1>5. row[d].is # "none" /\ (d \in Request => row[d].decider # row[d].by)
  BY <1>3 DEF IInv, Decisions, RowsSigned, Signed, NoRow
<1>6. /\ call' \in [Call -> Calls] /\ call'[c] = Idle
      /\ \A x \in Call \ {c} : call'[x] = call[x]
  BY <1>2, <1>3, IdleFits DEF Ends
<1>7. \A x \in Call : CallFits(x)' \/ call'[x] = call[x]
  BY <1>6 DEF CallFits, Fits
<1>8. row' = [row EXCEPT ![d] = r]
  BY <1>1, <1>3 DEF AttachRefund
<1> HIDE DEF r
<1>9. Careful(d, r)
  BY <1>2, <1>3, <1>4, <1>5, <1>7 DEF Careful
<1>10. UNCHANGED money /\ key' = key /\ released' = released /\ faults' = faults
  BY <1>2
<1>11. QED
  BY <1>4, <1>6, <1>8, <1>9, <1>10, RowWrite

LEMMA DiesSafe == ASSUME IInv, NEW c \in Call, CallDies(c) PROVE IInv'
BY FaultsGrow, KeyKept, EndsThere DEF CallDies

LEMMA LapsesSafe ==
  ASSUME IInv, NEW p \in Approver, NEW d \in Decision, KeyLapses(p, d)
  PROVE  IInv'
<1>1. /\ row' = row /\ refund' = refund /\ refunded' = refunded /\ lot' = lot /\ held' = held
      /\ books' = books /\ call' = call /\ released' = released /\ faults' \in 0..MaxFaults
  BY FaultsGrow DEF KeyLapses, money
<1>2. /\ key' \in [Approver -> [Decision -> Keys]]
      /\ \A q \in Approver, e \in Decision : key'[q][e].is = key[q][e].is
  BY Shape DEF IInv, KeyLapses, Keys
<1>3. TypeOK'
  BY <1>1, <1>2 DEF IInv, TypeOK, Keys
<1>4. RowsSigned' /\ OneRefundUnlessReleased' /\ CallsFit'
  BY <1>1 DEF IInv, Decisions, RowsSigned, Signed, OneRefundUnlessReleased, CallsFit, CallFits, Fits, Posted
<1>5. EveryRefundIsOnRecord'
  BY <1>1, <1>2 DEF IInv, Decisions, EveryRefundIsOnRecord, Posted
<1>6. BooksFollowTheRefund'
  BY <1>1 DEF IInv, BooksFollowTheRefund
<1>7. QED
  BY <1>3, <1>4, <1>5, <1>6 DEF IInv, Decisions

\* The customer's purchases elsewhere move points, and the debt with them.
LEMMA CustomerSafe ==
  ASSUME IInv, (\E n \in 1..(Earned * Gross) : CustomerHolds(n)) \/ CustomerGivesBack \/ CustomerSpends
  PROVE  IInv'
<1>1. /\ row' = row /\ refund' = refund /\ refunded' = refunded /\ key' = key
      /\ call' = call /\ released' = released /\ faults' = faults
  BY DEF CustomerHolds, CustomerGivesBack, CustomerSpends
<1>2. lot \in Nat /\ held \in Nat /\ books \in Books
  BY Shape DEF IInv
<1>3. \/ /\ books' = books /\ lot' \in Nat /\ held' \in Nat /\ lot' + held' = lot + held
      \/ /\ lot' = lot /\ held' = 0
         /\ books' = [books EXCEPT !.liability = @ - held, !.elsewhere = @ + held]
  BY <1>2, Rates DEF CustomerHolds, CustomerGivesBack, CustomerSpends
<1>4. /\ lot' \in Nat /\ held' \in Nat /\ books' \in Books
      /\ books'.payable = books.payable /\ books'.revenue = books.revenue
      /\ books'.liability - (lot' + held') = books.liability - (lot + held)
      /\ books'.liability + books'.elsewhere = books.liability + books.elsewhere
  <2> USE <1>2
  <2>1. CASE books' = books /\ lot' \in Nat /\ held' \in Nat /\ lot' + held' = lot + held
    <3>1. books.liability \in Int /\ books.elsewhere \in Int
      BY DEF Books
    <3>2. QED
      BY <2>1, <3>1
  <2>2. CASE /\ lot' = lot /\ held' = 0
             /\ books' = [books EXCEPT !.liability = @ - held, !.elsewhere = @ + held]
    <3>1. /\ books'.payable = books.payable /\ books'.revenue = books.revenue
          /\ books'.liability = books.liability - held /\ books'.elsewhere = books.elsewhere + held
      BY <2>2 DEF Books
    <3>2. \A x, y \in Int : [books EXCEPT !.liability = x, !.elsewhere = y] \in Books
      BY DEF Books
    <3>3. books.liability \in Int /\ books.elsewhere \in Int
      BY DEF Books
    <3>4. books.liability - held \in Int /\ books.elsewhere + held \in Int
      BY <3>3
    <3>5. books' \in Books
      BY <2>2, <3>2, <3>4
    <3>6. QED
      BY <2>2, <3>1, <3>3, <3>5
  <2>3. QED
    BY <1>3, <2>1, <2>2
<1>5. TypeOK'
  BY <1>1, <1>4 DEF IInv, TypeOK, Books
<1>6. Decisions'
  BY <1>1 DEF IInv, Decisions, RowsSigned, Signed, OneRefundUnlessReleased, CallsFit, CallFits, Fits,
              EveryRefundIsOnRecord, Posted
<1>7. BooksFollowTheRefund'
  <2>1. \A x \in Int : Bonus * x \in Int
    BY Rates
  <2>2. refunded \in Int /\ Bonus * refunded \in Int /\ Bonus * Gross \in Int
    BY <2>1, Shape, Rates DEF IInv
  <2>3. QED
    BY <1>1, <1>2, <1>4, <2>2 DEF IInv, BooksFollowTheRefund, Books
<1>8. QED
  BY <1>5, <1>6, <1>7 DEF IInv

(* No step of a decision, a call, a lapsing lease or the customer breaks   *)
(* the invariant.                                                          *)
THEOREM Consecution == IInv /\ [Next]_decisionVars => IInv'
<1>1. SUFFICES ASSUME IInv, [Next]_decisionVars PROVE IInv'
  OBVIOUS
<1>2. CASE DecisionStep
  BY <1>1, <1>2, AskSafe, RejectSafe DEF DecisionStep
<1>3. ASSUME NEW c \in Call, CallStep(c) PROVE IInv'
  BY <1>1, <1>3, ClaimSafe, DirectSafe, ReadsSafe, KeySteps, PostSafe, ThrowsSafe, LookSafe,
     ReleaseSafe, AttachSafe, DiesSafe DEF CallStep
<1>4. CASE \E p \in Approver, d \in Decision : KeyLapses(p, d)
  BY <1>1, <1>4, LapsesSafe
<1>5. CASE (\E n \in 1..(Earned * Gross) : CustomerHolds(n)) \/ CustomerGivesBack \/ CustomerSpends
  BY <1>1, <1>5, CustomerSafe
<1>6. CASE UNCHANGED decisionVars
  BY <1>1, <1>6 DEF decisionVars, IInv, TypeOK, Decisions, RowsSigned, Signed, CallsFit, CallFits, Fits,
     OneRefundUnlessReleased, EveryRefundIsOnRecord, Posted, BooksFollowTheRefund
<1>7. QED
  BY <1>1, <1>2, <1>3, <1>4, <1>5, <1>6 DEF Next

-----------------------------------------------------------------------------
(* What holds of every behaviour *)

(* The invariant holds in every state that can be reached. *)
THEOREM Always == Spec => []IInv
BY Initially, Consecution, PTL DEF Spec

(* The variables keep their types. *)
THEOREM TypesKept == Spec => []TypeOK
<1>1. IInv => TypeOK
  BY DEF IInv
<1>2. QED
  BY <1>1, Always, PTL

(* Refunds, retries and purchases elsewhere leave the partner, the customer *)
(* and TuTak with what they are owed (reverseLoyaltyEffectsV2).             *)
THEOREM BooksAlwaysFollow == Spec => []BooksFollowTheRefund
<1>1. IInv => BooksFollowTheRefund
  BY DEF IInv
<1>2. QED
  BY <1>1, Always, PTL

(* A decision that was never handed back is refunded under one name and     *)
(* never after it was turned down (approve, settle, reject).                *)
THEOREM OneRefundWithoutRelease == Spec => []OneRefundUnlessReleased
<1>1. IInv => OneRefundUnlessReleased
  BY DEF IInv, Decisions
<1>2. QED
  BY <1>1, Always, PTL

(* Every refund has its decision, taken by somebody other than whoever      *)
(* asked, and every answer a refund behind it (settle, run, attachRefund).  *)
THEOREM RefundsOnRecord == Spec => []EveryRefundIsOnRecord
<1>1. IInv => EveryRefundIsOnRecord
  BY DEF IInv, Decisions
<1>2. QED
  BY <1>1, Always, PTL

-----------------------------------------------------------------------------
(* The sum of the refunds *)

LEMMA PairsFinite == IsFiniteSet(Approver \X Decision)
BY Finitely, FS_Product DEF Decision

LEMMA RefundsSummed == SumFunction(Refunds) = SumFunctionOnSet(Refunds, Approver \X Decision)
BY DEF SumFunction, Refunds

LEMMA NothingSummed == Init => RefundedIsTheSum
<1>1. SUFFICES ASSUME Init PROVE RefundedIsTheSum
  OBVIOUS
<1>2. \A x \in Approver \X Decision : Refunds[x] = 0
  BY <1>1 DEF Init, Refunds
<1>3. SumFunctionOnSet(Refunds, Approver \X Decision) = 0
  BY <1>2, PairsFinite, SumZero
<1>4. QED
  BY <1>1, <1>3, RefundsSummed DEF Init, RefundedIsTheSum

\* One more refund is one more summand.
LEMMA PostAddsUp ==
  ASSUME IInv, RefundedIsTheSum, NEW p \in Approver, NEW d \in Decision, refund[p][d] = 0,
         NEW a \in 1..Gross, refund' = [refund EXCEPT ![p][d] = a], refunded' = refunded + a
  PROVE  RefundedIsTheSum'
<1> DEFINE x == <<p, d>>
<1>1. refund \in [Approver -> [Decision -> 0..Gross]] /\ Gross \in Nat
  BY Rates DEF IInv, TypeOK
<1>2. x \in Approver \X Decision /\ Refunds[x] = 0 /\ Refunds'[x] = a
  BY <1>1 DEF Refunds
<1>3. \A y \in (Approver \X Decision) \ {x} : Refunds[y] \in Int /\ Refunds'[y] = Refunds[y]
  BY <1>1 DEF Refunds
<1>4. SumFunctionOnSet(Refunds', Approver \X Decision)
        = SumFunctionOnSet(Refunds, Approver \X Decision) - Refunds[x] + Refunds'[x]
  <2> DEFINE S == Approver \X Decision  f == Refunds  g == Refunds'
  <2>1. IsFiniteSet(S) /\ x \in S /\ f[x] \in Int /\ g[x] \in Int
    BY <1>1, <1>2, PairsFinite
  <2>2. \A y \in S \ {x} : f[y] \in Int /\ g[y] = f[y]
    BY <1>3
  <2> HIDE DEF x, S, f, g
  <2>3. SumFunctionOnSet(g, S) = SumFunctionOnSet(f, S) - f[x] + g[x]
    BY <2>1, <2>2, SumChange
  <2>4. QED
    BY <2>3 DEF S, f, g
<1>5. SumFunction(Refunds)' = SumFunctionOnSet(Refunds', Approver \X Decision)
  BY DEF SumFunction, Refunds
<1>6. refunded \in Int
  BY Rates DEF IInv, TypeOK
<1>7. QED
  BY <1>2, <1>4, <1>5, <1>6, RefundsSummed DEF RefundedIsTheSum

LEMMA NothingAdded ==
  ASSUME RefundedIsTheSum, refund' = refund, refunded' = refunded
  PROVE  RefundedIsTheSum'
BY DEF RefundedIsTheSum, Refunds

LEMMA SumKept == IInv /\ RefundedIsTheSum /\ [Next]_decisionVars => RefundedIsTheSum'
<1>1. SUFFICES ASSUME IInv, RefundedIsTheSum, [Next]_decisionVars PROVE RefundedIsTheSum'
  OBVIOUS
<1>2. ASSUME NEW c \in Call, PostRefund(c) PROVE RefundedIsTheSum'
  <2> DEFINE p == call[c].as  d == call[c].of  a == Wanted(d)
  <2>1. CASE refund' = refund /\ refunded' = refunded
    BY <1>1, <2>1, NothingAdded
  <2>2. CASE a \in 1..Remaining /\ refund[p][d] = 0 /\ refund' = [refund EXCEPT ![p][d] = a] /\ Reverses(a)
    <3>0. call[c].at \in Settling
      BY <1>2 DEF PostRefund, Settling
    <3>1. p \in Approver /\ d \in Decision
      BY <1>1, <3>0, Acting
    <3>2. a \in 1..Gross /\ refunded' = refunded + a
      BY <1>1, <2>2, Rates DEF Reverses, Remaining, IInv, TypeOK
    <3> HIDE DEF p, d, a
    <3>3. QED
      BY <1>1, <2>2, <3>1, <3>2, PostAddsUp
  <2>3. QED
    BY <1>2, <2>1, <2>2 DEF PostRefund, money
<1>3. CASE refund' = refund /\ refunded' = refunded
  BY <1>1, <1>3, NothingAdded
<1>4. ASSUME NEW c \in Call, CallStep(c), ~PostRefund(c)
      PROVE  refund' = refund /\ refunded' = refunded
  BY <1>4 DEF CallStep, Approve, RefundDirectly, ApproveReads, ClaimKey, LookAtKey, ReclaimKey, FindByKey,
     CompleteKey, DropKey, Throws, LookForRefund, Release, AttachRefund, CallDies, money
<1>5. QED
  BY <1>1, <1>2, <1>3, <1>4 DEF Next, DecisionStep, Ask, Reject, KeyLapses, CustomerHolds, CustomerGivesBack,
     CustomerSpends, decisionVars, money

(* For any number of approvers, decisions and calls: the refunded amount of *)
(* the purchase is the sum of the refunds on record (postRefund).           *)
THEOREM RefundedAddsUp == Spec => []RefundedIsTheSum
BY NothingSummed, SumKept, Always, PTL DEF Spec
=============================================================================

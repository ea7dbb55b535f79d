---------------------------- MODULE PartnerProofs ----------------------------
(***************************************************************************)
(* Proofs about PartnerSettlement and PartnerPayable, for any number of    *)
(* settlements, payouts, collections, people, references and calls: the    *)
(* money of a settlement is recorded once, its attempts prove it, a doubt  *)
(* is resolved by two people, and the ledger agrees with the tables.       *)
(* What is proved of the settlement engine alone is proved again with the  *)
(* payout engine working on the same account.                              *)
(***************************************************************************)
EXTENDS PartnerPayable, SumTheorems, TLAPS

Rows     == [is : Status, net : Nat, maker : Person \cup {None},
             reporter : Person \cup {None}, outcome : Outcome \cup {"none"},
             proposer : Person \cup {None}, confirmer : Person \cup {None},
             ref : Ref \cup {None}]
Attempts == [of : Settlement, ref : Ref \cup {None}, is : {"succeeded", "failed", "unresolved"}]
Calls    == [op : {"idle", "draft", "insert", "pay", "propose", "confirm"},
             of : Settlement \cup {None}, by : Person \cup {None},
             saw : Status \cup Outcome \cup {"none"}, ref : Ref \cup {None},
             take : SUBSET Index, net : Nat]

\* What a call in flight has read is still true, or harmless if it is not.
Informed(k) ==
  /\ k.op = "pay" => k.of \in Settlement /\ k.saw \in Attemptable
  /\ k.op = "propose" => /\ k.of \in Settlement /\ k.by \in Person /\ k.saw \in Outcome
                         /\ row[k.of].is # "none"
  /\ k.op = "confirm" => k.of \in Settlement /\ k.by \in Person /\ row[k.of].proposer # None
CallsInformed == \A c \in Call : Informed(call[c])

\* A row nobody has drafted is blank, and every outcome has its proposer.
RowsSigned ==
  \A s \in Settlement :
    /\ row[s].is = "none" => row[s].outcome = "none" /\ row[s].proposer = None
    /\ row[s].outcome # "none" => row[s].proposer # None

\* PaidOnce and AttemptProvesPayment, a settlement at a time.
Books(s) ==
  /\ row[s].is # "PAID" => \A i \in Index : posting[i].of # s
  /\ row[s].is = "PAID" => \E i \in Index : /\ posting[i].of = s /\ posting[i].amount = -row[s].net
                                           /\ \A j \in Index \ {i} : posting[j].of # s
Won(s, ref) == \E a \in attempt : a.of = s /\ a.is = "succeeded" /\ a.ref = ref
Proof(s) == \A ref \in Ref \cup {None} : Won(s, ref) <=> (row[s].is = "PAID" /\ ref = row[s].ref)

IInv == /\ TypeOK /\ CallsInformed /\ RowsSigned
        /\ \A s \in Settlement : Books(s) /\ Proof(s)

(* No settlement, no claim, no attempt and no call: the invariant holds.   *)
THEOREM Initially == AccountInit => IInv
<1>1. SUFFICES ASSUME posting = <<>>, SettlementInit PROVE IInv
  BY DEF AccountInit
<1>2. Index = {}
  BY <1>1 DEF Index
<1>3. TypeOK
  BY <1>1, <1>2, NoneIsNothing DEF SettlementInit, TypeOK, NoRow, Idle, Status, Open, Outcome, Kind
<1>4. CallsInformed /\ RowsSigned
  BY <1>1 DEF SettlementInit, CallsInformed, Informed, RowsSigned, NoRow, Idle
<1>5. \A s \in Settlement : Books(s) /\ Proof(s)
  BY <1>1, <1>2 DEF SettlementInit, Books, Proof, Won, NoRow
<1>6. QED
  BY <1>3, <1>4, <1>5 DEF IInv

-----------------------------------------------------------------------------
(* What each kind of write preserves *)

LEMMA Shape ==
  ASSUME TypeOK
  PROVE  /\ posting \in Seq(Posting) /\ row \in [Settlement -> Rows]
         /\ attempt \subseteq Attempts /\ call \in [Call -> Calls]
  BY DEF TypeOK, Posting, Rows, Attempts, Calls

\* A call in flight writes only what it has read.
LEMMA CallOnly ==
  ASSUME IInv, NEW c \in Call, NEW k \in Calls, Informed(k), call' = [call EXCEPT ![c] = k],
         posting' = posting, row' = row, claim' = claim, attempt' = attempt, fresh' = fresh
  PROVE  IInv'
<1>1. TypeOK'
  BY DEF IInv, TypeOK, Calls, Index
<1>2. CallsInformed'
  BY Shape DEF IInv, CallsInformed, Informed
<1>3. RowsSigned' /\ \A s \in Settlement : Books(s)' /\ Proof(s)'
  BY DEF IInv, RowsSigned, Books, Proof, Won, Index
<1>4. QED
  BY <1>1, <1>2, <1>3 DEF IInv

LEMMA IdleIsACall == Idle \in Calls /\ Informed(Idle)
  BY NoneIsNothing DEF Idle, Calls, Informed

\* What recordAttempt leaves of the attempts that succeeded.
LEMMA RecordWins ==
  ASSUME TypeOK, NEW s \in Settlement, NEW ref \in Ref \cup {None},
         NEW is \in {"succeeded", "failed", "unresolved"}, Record(s, ref, is)
  PROVE  /\ attempt' \subseteq Attempts
         /\ \A t \in Settlement : t # s \/ is # "succeeded" => \A x : Won(t, x)' <=> Won(t, x)
         /\ is = "succeeded" => \A x : Won(s, x)' <=> (Won(s, x) \/ x = ref)
<1> DEFINE W == Waiting(s, ref)
<1>1. attempt \subseteq Attempts /\ W \subseteq attempt
      /\ \A a \in W : a.of = s /\ a.ref = ref /\ a.is = "unresolved"
  BY Shape DEF Waiting
<1>2. \A a \in W : [a EXCEPT !.is = is] = [of |-> s, ref |-> ref, is |-> is]
  BY <1>1 DEF Attempts
<1> DEFINE new == [of |-> s, ref |-> ref, is |-> is]
<1>3. attempt' = (attempt \ W) \cup {new}
  <2>1. CASE W # {}
    <3>1. {[a EXCEPT !.is = is] : a \in W} = {new}
      BY <1>2, <2>1
    <3>2. QED
      BY <3>1, <2>1 DEF Record
  <2>2. CASE W = {}
    BY <2>2 DEF Record
  <2>3. QED
    BY <2>1, <2>2
<1>4. new \in Attempts /\ new.of = s /\ new.ref = ref /\ new.is = is
  BY DEF Attempts
<1>5. \A t, x : Won(t, x)' <=> (Won(t, x) \/ (t = s /\ x = ref /\ is = "succeeded"))
  <2>1. ASSUME NEW t, NEW x, Won(t, x)' PROVE Won(t, x) \/ (t = s /\ x = ref /\ is = "succeeded")
    BY <1>3, <1>4, <2>1 DEF Won
  <2>2. ASSUME NEW t, NEW x, Won(t, x) PROVE Won(t, x)'
    BY <1>1, <1>3, <2>2 DEF Won
  <2>3. ASSUME is = "succeeded" PROVE Won(s, ref)'
    BY <1>3, <1>4, <2>3 DEF Won
  <2>4. QED
    BY <2>1, <2>2, <2>3
<1>6. attempt' \subseteq Attempts
  BY <1>1, <1>3, <1>4
<1>7. QED
  BY <1>5, <1>6

\* A row written by id: the calls in flight stay informed.
LEMMA RowWrite ==
  ASSUME IInv, NEW s \in Settlement, NEW r \in Rows, row' = [row EXCEPT ![s] = r], r.is # "none",
         row[s].proposer # None => r.proposer # None, r.outcome # "none" => r.proposer # None,
         call' = call \/ (\E c \in Call : call' = [call EXCEPT ![c] = Idle]),
         posting' \in Seq(Posting), Index \subseteq Index', claim' \subseteq Settlement \X Index',
         attempt' \subseteq Attempts, fresh' \subseteq Settlement
  PROVE  TypeOK' /\ CallsInformed' /\ RowsSigned'
<1>1. row' \in [Settlement -> Rows]
  BY Shape DEF IInv
<1>2. \A d \in Call : call'[d] = call[d] \/ call'[d] = Idle
  BY Shape DEF IInv
<1>3. call' \in [Call -> Calls']
  <2>1. Calls \subseteq Calls'
    BY DEF Calls
  <2>2. QED
    BY <2>1, Shape, IdleIsACall DEF IInv
<1>4. TypeOK'
  BY <1>1, <1>3 DEF TypeOK, Posting, Rows, Attempts, Calls
<1>5. \A t \in Settlement : /\ row[t].proposer # None => row'[t].proposer # None
                            /\ row[t].is # "none" => row'[t].is # "none"
  BY Shape DEF IInv
<1>6. CallsInformed'
  <2>1. ASSUME NEW k, Informed(k) PROVE Informed(k)'
    BY <2>1, <1>5 DEF Informed
  <2>2. QED
    BY <2>1, <1>2, IdleIsACall DEF IInv, CallsInformed
<1>7. RowsSigned'
  BY Shape DEF IInv, RowsSigned
<1>8. QED
  BY <1>4, <1>6, <1>7

\* A write that pays nothing leaves the books as they were.
LEMMA NothingPaid ==
  ASSUME IInv, NEW s \in Settlement, NEW r \in Rows, row' = [row EXCEPT ![s] = r],
         row[s].is # "PAID", r.is # "PAID", posting' = posting,
         \A t \in Settlement : \A x : Won(t, x)' <=> Won(t, x)
  PROVE  \A t \in Settlement : Books(t)' /\ Proof(t)'
<1>1. SUFFICES ASSUME NEW t \in Settlement PROVE Books(t)' /\ Proof(t)'
  OBVIOUS
<1>2. row'[t] = IF t = s THEN r ELSE row[t]
  BY Shape DEF IInv
<1>3. Books(t)'
  BY <1>2 DEF IInv, Books, Index
<1>4. Proof(t)'
  BY <1>2 DEF IInv, Proof
<1>5. QED
  BY <1>3, <1>4

\* payFrom: the posting, the row and the attempt, or none of them.
LEMMA PayFromKeeps ==
  ASSUME IInv, NEW s \in Settlement, NEW r \in Rows, NEW status \in Status \ {"PAID", "none"},
         PayFrom(s, status, r), r.is = "PAID", r.net = row[s].net, r.outcome = row[s].outcome,
         r.proposer = row[s].proposer, NEW c \in Call, call' = [call EXCEPT ![c] = Idle],
         claim' = claim, fresh' = fresh
  PROVE  IInv'
<1> DEFINE new == [kind |-> "settlement.paid", amount |-> -row[s].net, of |-> s]
<1>1. CASE posting' = posting /\ row' = row /\ attempt' = attempt
  BY <1>1, CallOnly, IdleIsACall
<1>2. CASE /\ row[s].is = status /\ row' = [row EXCEPT ![s] = r]
           /\ posting' = Append(posting, new)
           /\ Record(s, r.ref, "succeeded")
  <2>1. r.ref \in Ref \cup {None} /\ row[s] \in Rows
    BY Shape DEF IInv, Rows
  <2>2. new \in Posting
    <3>1. -row[s].net \in Int
      BY <2>1 DEF Rows
    <3>2. QED
      BY <3>1, Settlements DEF Posting, Kind
  <2>3. /\ posting' \in Seq(Posting) /\ Index' = Index \cup {Len(posting) + 1}
        /\ Len(posting) + 1 \notin Index
        /\ posting'[Len(posting) + 1] = new /\ \A i \in Index : posting'[i] = posting[i]
    BY <1>2, <2>2, Shape DEF IInv, Index
  <2>4. /\ attempt' \subseteq Attempts
        /\ \A t \in Settlement : t # s => \A x : Won(t, x)' <=> Won(t, x)
        /\ \A x : Won(s, x)' <=> (Won(s, x) \/ x = r.ref)
    BY <1>2, <2>1, RecordWins DEF IInv
  <2>5. TypeOK' /\ CallsInformed' /\ RowsSigned'
    <3>1. row[s].outcome # "none" => row[s].proposer # None
      BY DEF IInv, RowsSigned
    <3>2. claim' \subseteq Settlement \X Index' /\ fresh' \subseteq Settlement
      BY <2>3 DEF IInv, TypeOK
    <3>3. QED
      BY <1>2, <2>3, <2>4, <3>1, <3>2, RowWrite
  <2>6. \A t \in Settlement : row'[t] = IF t = s THEN r ELSE row[t]
    BY <1>2, Shape DEF IInv
  <2>7. ASSUME NEW t \in Settlement, t # s PROVE Books(t)' /\ Proof(t)'
    <3>1. row'[t] = row[t] /\ new.of # t
      BY <2>6, <2>7
    <3>2. Books(t)'
      BY <3>1, <2>3 DEF IInv, Books
    <3>3. Proof(t)'
      BY <3>1, <2>4, <2>7 DEF IInv, Proof
    <3>4. QED
      BY <3>2, <3>3
  <2>8. Books(s)'
    <3>1. \A i \in Index : posting[i].of # s
      BY <1>2 DEF IInv, Books
    <3>2. QED
      BY <2>3, <2>6, <3>1 DEF Books
  <2>9. Proof(s)'
    <3>1. \A x \in Ref \cup {None} : ~Won(s, x)
      BY <1>2 DEF IInv, Proof
    <3>2. QED
      BY <2>4, <2>6, <3>1 DEF Proof
  <2>10. QED
    BY <2>5, <2>7, <2>8, <2>9 DEF IInv
<1>3. QED
  BY <1>1, <1>2 DEF PayFrom, Post

-----------------------------------------------------------------------------
(* The steps *)

LEMMA CallStepKeeps == ASSUME IInv, NEW c \in Call, CallStep(c) PROVE IInv'
<1>1. CASE \E p \in Person : DraftOpens(c, p)
  <2>1. PICK p \in Person : DraftOpens(c, p)
    BY <1>1
  <2> DEFINE k == [Idle EXCEPT !.op = "draft", !.by = p]
  <2>2. k \in Calls /\ Informed(k)
    BY IdleIsACall DEF Calls, Informed, Idle
  <2>3. QED
    BY <2>1, <2>2, CallOnly DEF DraftOpens
<1>2. CASE \E n \in Index : DraftReads(c, n)
  <2>1. PICK n \in Index : DraftReads(c, n)
    BY <1>2
  <2> DEFINE take == {i \in Unsettled : i <= n}
             w == Worth(take)
             k == [call[c] EXCEPT !.op = "insert", !.take = take, !.net = w]
  <2>2. \/ (w \in Nat /\ call' = [call EXCEPT ![c] = k])
         \/ call' = [call EXCEPT ![c] = Idle]
    BY <2>1 DEF DraftReads, Returns
  <2>3. call[c] \in Calls /\ take \in SUBSET Index
    BY Shape DEF IInv, Unsettled
  <2> HIDE DEF w, take
  <2>4. w \in Nat => k \in Calls /\ k.op = "insert"
    BY <2>3 DEF Calls
  <2>5. w \in Nat => Informed(k)
    BY <2>4 DEF Informed
  <2>6. posting' = posting /\ row' = row /\ claim' = claim /\ attempt' = attempt /\ fresh' = fresh
    BY <2>1 DEF DraftReads
  <2> HIDE DEF k
  <2>7. QED
    BY <2>2, <2>4, <2>5, <2>6, CallOnly, IdleIsACall
<1>3. CASE \E s \in Settlement : DraftInserts(c, s)
  <2>1. PICK s \in Settlement : DraftInserts(c, s)
    BY <1>3
  <2>2. CASE row' = row /\ claim' = claim
    BY <2>1, <2>2, CallOnly, IdleIsACall DEF DraftInserts, Returns
  <2>3. CASE row' = [row EXCEPT ![s] = Drafted(c)] /\ claim' = claim \cup ({s} \X call[c].take)
    <3>1. call[c].take \subseteq Index /\ call[c].net \in Nat /\ call[c].by \in Person \cup {None}
      BY Shape DEF IInv, Calls
    <3>2. /\ Drafted(c) \in Rows /\ Drafted(c).is = "DRAFT"
          /\ Drafted(c).proposer = None /\ Drafted(c).outcome = "none"
      BY <3>1 DEF Drafted, NoRow, Rows, Status, Open
    <3>3. row[s].is = "none" /\ row[s].proposer = None
      BY <2>1 DEF DraftInserts, IInv, RowsSigned
    <3>4. /\ posting' = posting /\ attempt' = attempt /\ fresh' = fresh
          /\ call' = [call EXCEPT ![c] = Idle]
      BY <2>1 DEF DraftInserts, Returns
    <3>5. TypeOK' /\ CallsInformed' /\ RowsSigned'
      <4>1. claim' \subseteq Settlement \X Index' /\ Index' = Index
        BY <2>3, <3>1, <3>4 DEF IInv, TypeOK, Index
      <4>2. attempt' \subseteq Attempts /\ posting' \in Seq(Posting) /\ fresh' \subseteq Settlement
        BY <3>4, Shape DEF IInv, TypeOK
      <4>3. QED
        BY <2>3, <3>2, <3>3, <3>4, <4>1, <4>2, RowWrite
    <3>6. \A t \in Settlement : Books(t)' /\ Proof(t)'
      <4>1. \A t \in Settlement : \A x : Won(t, x)' <=> Won(t, x)
        BY <3>4 DEF Won
      <4>2. QED
        BY <2>3, <3>2, <3>3, <3>4, <4>1, NothingPaid
    <3>7. QED
      BY <3>5, <3>6 DEF IInv
  <2>4. QED
    BY <2>1, <2>2, <2>3 DEF DraftInserts
<1>4. CASE \E s \in Settlement, ref \in Ref : PayReads(c, s, ref)
  <2>1. PICK s \in Settlement, ref \in Ref : PayReads(c, s, ref)
    BY <1>4
  <2> DEFINE k == [Idle EXCEPT !.op = "pay", !.of = s, !.saw = row[s].is, !.ref = ref]
  <2>2. k \in Calls /\ Informed(k)
    BY <2>1, IdleIsACall DEF PayReads, Calls, Informed, Idle, Attemptable, Status, Open
  <2>3. QED
    BY <2>1, <2>2, CallOnly DEF PayReads
<1>5. CASE PayCommits(c)
  <2> DEFINE s == call[c].of
             r == [row[s] EXCEPT !.is = "PAID", !.ref = call[c].ref]
  <2>1. s \in Settlement /\ call[c].saw \in Attemptable /\ call[c].ref \in Ref \cup {None}
    BY <1>5, Shape DEF PayCommits, IInv, CallsInformed, Informed, Calls
  <2>2. row[s] \in Rows
    BY <2>1, Shape DEF IInv
  <2>3. r \in Rows /\ r.is = "PAID" /\ r.net = row[s].net /\ r.outcome = row[s].outcome
        /\ r.proposer = row[s].proposer
    BY <2>1, <2>2 DEF Rows, Status
  <2>4. call[c].saw \in Status \ {"PAID", "none"}
    BY <2>1 DEF Attemptable, Status, Open
  <2>5. PayFrom(s, call[c].saw, r) /\ call' = [call EXCEPT ![c] = Idle] /\ claim' = claim /\ fresh' = fresh
    BY <1>5 DEF PayCommits, Returns
  <2> HIDE DEF s, r
  <2>6. QED
    BY <2>1, <2>3, <2>4, <2>5, PayFromKeeps
<1>6. CASE \E s \in Settlement, p \in Person, o \in Outcome, ref \in Ref \cup {None} :
             ProposeReads(c, s, p, o, ref)
  <2>1. PICK s \in Settlement, p \in Person, o \in Outcome, ref \in Ref \cup {None} :
          ProposeReads(c, s, p, o, ref)
    BY <1>6
  <2> DEFINE k == [Idle EXCEPT !.op = "propose", !.of = s, !.by = p, !.saw = o, !.ref = ref]
  <2>2. k \in Calls /\ Informed(k)
    BY <2>1, IdleIsACall DEF ProposeReads, Calls, Informed, Idle, Doubt
  <2>3. QED
    BY <2>1, <2>2, CallOnly DEF ProposeReads
<1>7. CASE ProposeCommits(c)
  <2> DEFINE s == call[c].of
             r == [row[s] EXCEPT !.outcome = call[c].saw, !.proposer = call[c].by,
                                 !.confirmer = None, !.ref = call[c].ref]
  <2>1. /\ s \in Settlement /\ call[c].saw \in Outcome /\ call[c].by \in Person
        /\ call[c].ref \in Ref \cup {None} /\ row[s].is # "none"
    BY <1>7, Shape DEF ProposeCommits, IInv, CallsInformed, Informed, Calls
  <2>2. row[s] \in Rows
    BY <2>1, Shape DEF IInv
  <2>3. r \in Rows /\ r.is = row[s].is /\ r.proposer # None
    BY <2>1, <2>2, NoneIsNothing DEF Rows
  <2>4. /\ posting' = posting /\ claim' = claim /\ attempt' = attempt
        /\ call' = [call EXCEPT ![c] = Idle]
    BY <1>7 DEF ProposeCommits, Returns
  <2>5. CASE row' = row /\ fresh' = fresh
    BY <2>4, <2>5, CallOnly, IdleIsACall
  <2>6. CASE row[s].is # "PAID" /\ row' = [row EXCEPT ![s] = r] /\ fresh' \subseteq Settlement
    <3>1. claim' \subseteq Settlement \X Index' /\ Index' = Index
      BY <2>4 DEF IInv, TypeOK, Index
    <3>2. attempt' \subseteq Attempts /\ posting' \in Seq(Posting)
      BY <2>4, Shape DEF IInv
    <3>3. TypeOK' /\ CallsInformed' /\ RowsSigned'
      <4> HIDE DEF s, r
      <4>1. QED
        BY <2>1, <2>3, <2>4, <2>6, <3>1, <3>2, RowWrite
    <3>4. \A t \in Settlement : \A x : Won(t, x)' <=> Won(t, x)
      BY <2>4 DEF Won
    <3>5. \A t \in Settlement : Books(t)' /\ Proof(t)'
      <4> HIDE DEF s, r
      <4>1. QED
        BY <2>1, <2>3, <2>4, <2>6, <3>4, NothingPaid
    <3>6. QED
      BY <3>3, <3>5 DEF IInv
  <2>7. fresh \subseteq Settlement
    BY DEF IInv, TypeOK
  <2>8. QED
    BY <1>7, <2>1, <2>5, <2>6, <2>7 DEF ProposeCommits
<1>8. CASE \E s \in Settlement, p \in Person : ConfirmReads(c, s, p)
  <2>1. PICK s \in Settlement, p \in Person : ConfirmReads(c, s, p)
    BY <1>8
  <2> DEFINE k == [Idle EXCEPT !.op = "confirm", !.of = s, !.by = p,
                               !.saw = row[s].outcome, !.ref = row[s].ref]
  <2>2. row[s] \in Rows /\ row[s].proposer # None
    BY <2>1, Shape DEF ConfirmReads, IInv, RowsSigned
  <2>3. k \in Calls /\ Informed(k)
    BY <2>2, IdleIsACall DEF Calls, Rows, Informed, Idle
  <2>4. QED
    BY <2>1, <2>3, CallOnly DEF ConfirmReads
<1>9. CASE ConfirmMoved(c)
  <2> DEFINE s == call[c].of
             r == [row[s] EXCEPT !.is = "PAID", !.confirmer = call[c].by, !.ref = call[c].ref]
  <2>1. s \in Settlement /\ call[c].by \in Person /\ call[c].ref \in Ref \cup {None}
    BY <1>9, Shape DEF ConfirmMoved, IInv, CallsInformed, Informed, Calls
  <2>2. row[s] \in Rows
    BY <2>1, Shape DEF IInv
  <2>3. r \in Rows /\ r.is = "PAID" /\ r.net = row[s].net /\ r.outcome = row[s].outcome
        /\ r.proposer = row[s].proposer
    BY <2>1, <2>2 DEF Rows, Status
  <2>4. Doubt \in Status \ {"PAID", "none"}
    BY DEF Status, Doubt
  <2>5. PayFrom(s, Doubt, r) /\ call' = [call EXCEPT ![c] = Idle] /\ claim' = claim /\ fresh' = fresh
    BY <1>9 DEF ConfirmMoved, Returns
  <2> HIDE DEF s, r
  <2>6. QED
    BY <2>1, <2>3, <2>4, <2>5, PayFromKeeps
<1>10. CASE ConfirmNotMoved(c)
  <2> DEFINE s == call[c].of
             r == [row[s] EXCEPT !.is = "FAILED", !.confirmer = call[c].by]
  <2>1. s \in Settlement /\ call[c].by \in Person /\ row[s].proposer # None
    BY <1>10 DEF ConfirmNotMoved, IInv, CallsInformed, Informed
  <2>2. row[s] \in Rows
    BY <2>1, Shape DEF IInv
  <2>3. r \in Rows /\ r.is = "FAILED" /\ r.proposer = row[s].proposer
    BY <2>1, <2>2 DEF Rows, Status
  <2>4. posting' = posting /\ claim' = claim /\ fresh' = fresh /\ call' = [call EXCEPT ![c] = Idle]
    BY <1>10 DEF ConfirmNotMoved, Returns
  <2>5. CASE row' = row /\ attempt' = attempt
    BY <2>4, <2>5, CallOnly, IdleIsACall
  <2>6. CASE row[s].is = Doubt /\ row' = [row EXCEPT ![s] = r] /\ Record(s, None, "failed")
    <3>1. row[s].is # "PAID"
      BY <2>6 DEF Doubt
    <3>2. claim' \subseteq Settlement \X Index' /\ Index' = Index /\ fresh' \subseteq Settlement
          /\ posting' \in Seq(Posting)
      BY <2>4, Shape DEF IInv, TypeOK, Index
    <3>3. attempt' \subseteq Attempts /\ \A t \in Settlement : \A x : Won(t, x)' <=> Won(t, x)
      BY <2>1, <2>6, RecordWins DEF IInv
    <3>4. TypeOK' /\ CallsInformed' /\ RowsSigned'
      <4> HIDE DEF s, r
      <4>1. QED
        BY <2>1, <2>3, <2>4, <2>6, <3>2, <3>3, RowWrite
    <3>5. \A t \in Settlement : Books(t)' /\ Proof(t)'
      <4> HIDE DEF s, r
      <4>1. QED
        BY <2>1, <2>3, <2>4, <2>6, <3>1, <3>3, NothingPaid
    <3>6. QED
      BY <3>4, <3>5 DEF IInv
  <2>7. QED
    BY <1>10, <2>5, <2>6 DEF ConfirmNotMoved
<1>11. QED
  BY <1>1, <1>2, <1>3, <1>4, <1>5, <1>6, <1>7, <1>8, <1>9, <1>10 DEF CallStep

\* What is common to the steps that change one row's status and pay nothing.
LEMMA StatusStep ==
  ASSUME IInv, NEW s \in Settlement, NEW r \in Rows, row' = [row EXCEPT ![s] = r],
         row[s].is \notin {"none", "PAID"}, r.is \notin {"none", "PAID"},
         r.proposer = row[s].proposer, r.outcome = row[s].outcome, posting' = posting, call' = call,
         claim' \subseteq claim, fresh' \subseteq fresh, attempt' \subseteq Attempts,
         \A t \in Settlement : \A x : Won(t, x)' <=> Won(t, x)
  PROVE  IInv'
<1>1. claim' \subseteq Settlement \X Index' /\ Index' = Index /\ fresh' \subseteq Settlement
      /\ posting' \in Seq(Posting)
  BY Shape DEF IInv, TypeOK, Index
<1>2. r.outcome # "none" => r.proposer # None
  BY DEF IInv, RowsSigned
<1>3. TypeOK' /\ CallsInformed' /\ RowsSigned'
  BY <1>1, <1>2, RowWrite
<1>4. \A t \in Settlement : Books(t)' /\ Proof(t)'
  BY NothingPaid
<1>5. QED
  BY <1>3, <1>4 DEF IInv

LEMMA MoveKeeps ==
  ASSUME IInv, NEW s \in Settlement, NEW from, NEW to \in Status \ {"none", "PAID"},
         from \cap {"none", "PAID"} = {}, Move(s, from, to), claim' \subseteq claim
  PROVE  IInv'
<1> DEFINE r == [row[s] EXCEPT !.is = to]
<1>1. r \in Rows /\ r.is = to /\ r.proposer = row[s].proposer /\ r.outcome = row[s].outcome
  BY Shape DEF IInv, Rows
<1>2. row' = [row EXCEPT ![s] = r] /\ row[s].is \notin {"none", "PAID"}
  BY DEF Move
<1>3. /\ posting' = posting /\ call' = call /\ fresh' \subseteq fresh
      /\ attempt' \subseteq Attempts /\ \A t \in Settlement : \A x : Won(t, x)' <=> Won(t, x)
  BY Shape DEF IInv, Move, Won
<1> HIDE DEF r
<1>4. QED
  BY <1>1, <1>2, <1>3, StatusStep

LEMMA SettlementStepKeeps == ASSUME IInv, NEW s \in Settlement, SettlementStep(s) PROVE IInv'
<1>1. CASE MarkReady(s)
  BY <1>1, MoveKeeps DEF MarkReady, Status, Open
<1>2. CASE \E p \in Person : Approve(s, p)
  BY <1>2, MoveKeeps DEF Approve, Status, Open
<1>3. CASE MarkPaymentPending(s)
  BY <1>3, MoveKeeps DEF MarkPaymentPending, Attemptable, Status, Open
<1>4. CASE Cancel(s)
  BY <1>4, MoveKeeps DEF Cancel, Status
<1>5. CASE \E ref \in Ref \cup {None} : MarkFailed(s, ref)
  <2>1. PICK ref \in Ref \cup {None} : MarkFailed(s, ref)
    BY <1>5
  <2> DEFINE r == [row[s] EXCEPT !.is = "FAILED"]
  <2>2. /\ r \in Rows /\ r.is \notin {"none", "PAID"} /\ r.proposer = row[s].proposer
        /\ r.outcome = row[s].outcome
    BY Shape DEF IInv, Rows, Status
  <2>3. /\ row' = [row EXCEPT ![s] = r] /\ row[s].is \notin {"none", "PAID"}
        /\ posting' = posting /\ call' = call /\ claim' = claim /\ fresh' = fresh
    BY <2>1 DEF MarkFailed, Attemptable
  <2>4. attempt' \subseteq Attempts /\ \A t \in Settlement : \A x : Won(t, x)' <=> Won(t, x)
    BY <2>1, RecordWins DEF IInv, MarkFailed
  <2> HIDE DEF r
  <2>5. QED
    BY <2>2, <2>3, <2>4, StatusStep
<1>6. CASE \E ref \in Ref \cup {None}, q \in Person \cup {None} : RaiseDoubt(s, ref, q)
  <2>1. PICK ref \in Ref \cup {None}, q \in Person \cup {None} : RaiseDoubt(s, ref, q)
    BY <1>6
  <2> DEFINE r == [row[s] EXCEPT !.is = Doubt, !.reporter = q]
  <2>2. /\ r \in Rows /\ r.is \notin {"none", "PAID"} /\ r.proposer = row[s].proposer
        /\ r.outcome = row[s].outcome
    BY Shape DEF IInv, Rows, Status, Doubt
  <2>3. /\ row' = [row EXCEPT ![s] = r] /\ row[s].is \notin {"none", "PAID"}
        /\ posting' = posting /\ call' = call /\ claim' = claim /\ fresh' \subseteq fresh
    BY <2>1 DEF RaiseDoubt, Attemptable
  <2>4. attempt' \subseteq Attempts /\ \A t \in Settlement : \A x : Won(t, x)' <=> Won(t, x)
    BY <2>1, RecordWins DEF IInv, RaiseDoubt
  <2> HIDE DEF r
  <2>5. QED
    BY <2>2, <2>3, <2>4, StatusStep
<1>7. QED
  BY <1>1, <1>2, <1>3, <1>4, <1>5, <1>6 DEF SettlementStep

\* A posting of somebody else's is about no settlement.
LEMMA PostKeeps ==
  ASSUME IInv, NEW kind \in Kind, NEW amount \in Int, NEW of \in (Source \cup {None}) \ Settlement,
         Post(kind, amount, of), UNCHANGED settlementVars
  PROVE  IInv'
<1> DEFINE new == [kind |-> kind, amount |-> amount, of |-> of]
<1>1. new \in Posting
  BY DEF Posting
<1>2. posting' = Append(posting, new)
  BY DEF Post
<1>3. /\ row' = row /\ claim' = claim /\ attempt' = attempt /\ call' = call /\ fresh' = fresh
  BY DEF settlementVars
<1>4. /\ posting' \in Seq(Posting) /\ Index' = Index \cup {Len(posting) + 1}
      /\ Len(posting) + 1 \notin Index
      /\ posting'[Len(posting) + 1] = new /\ \A i \in Index : posting'[i] = posting[i]
  BY <1>1, <1>2, Shape DEF IInv, Index
<1>5. TypeOK'
  <2>1. Calls \subseteq Calls'
    BY <1>4 DEF Calls
  <2>2. call' \in [Call -> Calls'] /\ claim' \subseteq Settlement \X Index'
    BY <1>3, <1>4, <2>1, Shape DEF IInv, TypeOK
  <2>3. QED
    BY <1>3, <1>4, <2>2 DEF IInv, TypeOK, Calls
<1>6. CallsInformed' /\ RowsSigned'
  BY <1>3 DEF IInv, CallsInformed, Informed, RowsSigned
<1>7. ASSUME NEW s \in Settlement PROVE Books(s)' /\ Proof(s)'
  <2>1. new.of # s
    OBVIOUS
  <2>2. Books(s)'
    BY <1>3, <1>4, <2>1 DEF IInv, Books
  <2>3. Proof(s)'
    BY <1>3 DEF IInv, Proof, Won
  <2>4. QED
    BY <2>2, <2>3
<1>8. QED
  BY <1>5, <1>6, <1>7 DEF IInv

\* What Sell posts: an amount of either sign.
LEMMA SellPosts ==
  ASSUME Sell PROVE \E amount \in Int : Post("sale", amount, None)
<1>1. PICK amount \in Sale \cup {-n : n \in Refund} : Post("sale", amount, None)
  BY DEF Sell
<1>2. amount \in Int
  BY Amounts
<1>3. QED
  BY <1>1, <1>2

LEMMA SaleKeeps == ASSUME IInv, Sell, UNCHANGED settlementVars PROVE IInv'
<1>1. PICK amount \in Int : Post("sale", amount, None)
  BY SellPosts
<1>2. QED
  BY <1>1, PostKeeps, NoneIsNothing DEF Kind

(* No step of a draft, a move, a payment, a doubt or a sale breaks the      *)
(* invariant, whatever calls are in flight (PartnerSettlementService).      *)
THEOREM Step == IInv /\ [AccountNext]_<<posting, settlementVars>> => IInv'
<1> SUFFICES ASSUME IInv, [AccountNext]_<<posting, settlementVars>> PROVE IInv'
  OBVIOUS
<1>1. CASE SettlementNext
  BY <1>1, CallStepKeeps, SettlementStepKeeps DEF SettlementNext
<1>2. CASE SaleNext
  BY <1>2, SaleKeeps DEF SaleNext
<1>3. CASE UNCHANGED <<posting, settlementVars>>
  <2>1. /\ posting' = posting /\ row' = row /\ claim' = claim /\ attempt' = attempt
        /\ call' = call /\ fresh' = fresh
    BY <1>3 DEF settlementVars
  <2>2. TypeOK'
    BY <2>1 DEF IInv, TypeOK, Index
  <2>3. CallsInformed' /\ RowsSigned'
    BY <2>1 DEF IInv, CallsInformed, Informed, RowsSigned
  <2>4. \A s \in Settlement : Books(s)' /\ Proof(s)'
    BY <2>1 DEF IInv, Books, Proof, Won, Index
  <2>5. QED
    BY <2>2, <2>3, <2>4 DEF IInv
<1>4. QED
  BY <1>1, <1>2, <1>3 DEF AccountNext

-----------------------------------------------------------------------------
(* Sums over the postings and over the rows *)

LEMMA PostingsCount ==
  ASSUME TypeOK
  PROVE  /\ \A i \in Index : Value[i] \in Int
         /\ \A I \in SUBSET Index : IsFiniteSet(I) /\ Worth(I) \in Int
<1>1. Index = 1..Len(posting) /\ Len(posting) \in Nat
  BY Shape DEF Index
<1>2. IsFiniteSet(Index)
  BY <1>1, FS_Interval
<1>3. \A i \in Index : Value[i] \in Int
  <2>1. \A i \in Index : posting[i] \in Posting
    BY Shape DEF Index
  <2>2. \A i \in Index : posting[i].amount \in Int
    BY <2>1 DEF Posting
  <2> QED BY <2>2 DEF Value
<1>4. ASSUME NEW I \in SUBSET Index PROVE IsFiniteSet(I) /\ Worth(I) \in Int
  <2>1. IsFiniteSet(I)
    BY <1>2, FS_Subset
  <2>2. \A i \in I : Value[i] \in Int
    BY <1>3
  <2> QED BY <2>1, <2>2, SumType DEF Worth
<1> QED BY <1>3, <1>4

LEMMA RowsCount ==
  ASSUME TypeOK
  PROVE  /\ \A s \in Settlement : Net[s] \in Int /\ Net[s] = row[s].net
         /\ \A S \in SUBSET Settlement : IsFiniteSet(S) /\ SumFunctionOnSet(Net, S) \in Int
<1>1. \A s \in Settlement : Net[s] \in Int /\ Net[s] = row[s].net
  BY Shape DEF Net, Rows
<1>2. ASSUME NEW S \in SUBSET Settlement PROVE IsFiniteSet(S) /\ SumFunctionOnSet(Net, S) \in Int
  <2>1. IsFiniteSet(S)
    BY Settlements, FS_Subset
  <2> QED BY <1>1, <2>1, SumType
<1> QED BY <1>1, <1>2

\* A posting is added at the end, and what was posted before stays.
LEMMA PostingAdds ==
  ASSUME TypeOK, NEW kind \in Kind, NEW amount \in Int, NEW of \in Source \cup {None},
         Post(kind, amount, of)
  PROVE  \E n : /\ n \notin Index /\ Index' = Index \cup {n}
                /\ posting'[n] = [kind |-> kind, amount |-> amount, of |-> of]
                /\ \A i \in Index : posting'[i] = posting[i]
                /\ \A I \in SUBSET Index : /\ SumFunctionOnSet(Value', I) = Worth(I)
                                           /\ SumFunctionOnSet(Value', I \cup {n}) = Worth(I) + amount
<1> DEFINE new == [kind |-> kind, amount |-> amount, of |-> of]
           n   == Len(posting) + 1
<1>1. new \in Posting /\ posting \in Seq(Posting) /\ posting' = Append(posting, new)
  BY Shape DEF Posting, Post
<1>2. /\ n \notin Index /\ Index' = Index \cup {n}
      /\ posting'[n] = new /\ \A i \in Index : posting'[i] = posting[i]
  BY <1>1 DEF Index
<1> HIDE DEF n
<1>3. Value'[n] = amount /\ \A i \in Index : Value'[i] = Value[i]
  BY <1>2 DEF Value
<1>4. ASSUME NEW I \in SUBSET Index
      PROVE  /\ SumFunctionOnSet(Value', I) = Worth(I)
             /\ SumFunctionOnSet(Value', I \cup {n}) = Worth(I) + amount
  <2> DEFINE v == Value
             w == Value'
  <2>1. IsFiniteSet(I) /\ n \notin I /\ w[n] \in Int /\ w[n] = amount
    BY <1>2, <1>3, PostingsCount
  <2>2. \A i \in I : v[i] \in Int /\ w[i] = v[i]
    BY <1>3, PostingsCount
  <2>3. Worth(I) = SumFunctionOnSet(v, I)
    BY DEF Worth
  <2> HIDE DEF v, w
  <2>4. SumFunctionOnSet(w, I) = SumFunctionOnSet(v, I)
    BY <2>1, <2>2, SumSame
  <2>5. SumFunctionOnSet(w, I \cup {n}) = SumFunctionOnSet(v, I) + w[n]
    BY <2>1, <2>2, SumJoins
  <2> QED BY <2>1, <2>3, <2>4, <2>5 DEF w
<1> QED BY <1>2, <1>4

\* What a posting adds to a balance kept by kinds.
LEMMA MovedBy ==
  ASSUME TypeOK, NEW kind \in Kind, NEW amount \in Int, NEW of \in Source \cup {None},
         Post(kind, amount, of)
  PROVE  /\ Owed' = Owed + amount
         /\ \A K : Moved(K)' = IF kind \in K THEN Moved(K) + amount ELSE Moved(K)
<1>1. PICK n : /\ n \notin Index /\ Index' = Index \cup {n}
               /\ posting'[n] = [kind |-> kind, amount |-> amount, of |-> of]
               /\ \A i \in Index : posting'[i] = posting[i]
               /\ \A I \in SUBSET Index : /\ SumFunctionOnSet(Value', I) = Worth(I)
                                          /\ SumFunctionOnSet(Value', I \cup {n}) = Worth(I) + amount
  BY PostingAdds
<1>2. Owed' = Owed + amount
  BY <1>1 DEF Owed, Worth
<1>3. ASSUME NEW K PROVE Moved(K)' = IF kind \in K THEN Moved(K) + amount ELSE Moved(K)
  <2> DEFINE I == {i \in Index : posting[i].kind \in K}
  <2>1. {i \in Index : posting[i].kind \in K}' = IF kind \in K THEN I \cup {n} ELSE I
    BY <1>1
  <2>2. I \in SUBSET Index /\ Moved(K) = Worth(I)
    BY DEF Moved
  <2>3. Moved(K)' = SumFunctionOnSet(Value', {i \in Index : posting[i].kind \in K}')
    BY DEF Moved, Worth
  <2> HIDE DEF I
  <2> QED BY <1>1, <2>1, <2>2, <2>3
<1> QED BY <1>2, <1>3

-----------------------------------------------------------------------------
(* What the settlement engine's steps do to the account and to the rows *)

Held(s) == {i \in Index : <<s, i>> \in claim}

\* A settlement holds postings of its own, of a kind that can be settled, worth its net.
ClaimsFit ==
  /\ \A e \in claim : posting[e[2]].kind \in Settleable
  /\ \A e, f \in claim : e[2] = f[2] => e[1] = f[1]
  /\ \A s \in Settlement : IF row[s].is \in {"none", "CANCELLED"} THEN Held(s) = {}
                           ELSE row[s].net = Worth(Held(s))

\* So do the postings a draft in flight has read, whoever has claimed them since.
Fits(k) ==
  k.op = "insert" => (\A i \in k.take : posting[i].kind \in Settleable) /\ k.net = Worth(k.take)
InsertsFit == \A c \in Call : Fits(call[c])

Done == {"none", "PAID", "CANCELLED"}

\* Rows change, but none of them becomes or stops being due.
MovesRows ==
  /\ posting' = posting /\ claim' = claim
  /\ \A s \in Settlement :
       /\ row'[s].net = row[s].net
       /\ row'[s].is = row[s].is \/ {row[s].is, row'[s].is} \cap Done = {}

\* A settlement becomes due, is given up, or is paid.
BecomesDue(s, take, net) ==
  /\ posting' = posting /\ claim' = claim \cup ({s} \X take)
  /\ row[s].is = "none" /\ row'[s].is \notin Done /\ row'[s].net = net
  /\ \A t \in Settlement \ {s} : row'[t] = row[t]
IsGivenUp(s) ==
  /\ posting' = posting /\ claim' = {e \in claim : e[1] # s}
  /\ row[s].is \notin Done /\ row'[s].is = "CANCELLED" /\ row'[s].net = row[s].net
  /\ \A t \in Settlement \ {s} : row'[t] = row[t]
IsPaid(s) ==
  /\ Post("settlement.paid", -row[s].net, s) /\ claim' = claim
  /\ row[s].is \notin Done /\ row'[s].is = "PAID" /\ row'[s].net = row[s].net
  /\ \A t \in Settlement \ {s} : row'[t] = row[t]

\* A row written by id, which stays due or stays done.
LEMMA WriteMovesRows ==
  ASSUME TypeOK, NEW s \in Settlement, NEW r, row' = [row EXCEPT ![s] = r], r.net = row[s].net,
         r.is = row[s].is \/ {row[s].is, r.is} \cap Done = {}, posting' = posting, claim' = claim
  PROVE  MovesRows
BY Shape DEF MovesRows

LEMMA PayFromEffect ==
  ASSUME IInv, NEW s \in Settlement, NEW status, status \notin Done, NEW r,
         PayFrom(s, status, r), r.is = "PAID", r.net = row[s].net, claim' = claim
  PROVE  MovesRows \/ IsPaid(s)
<1>1. CASE posting' = posting /\ row' = row
  BY <1>1 DEF MovesRows
<1>2. CASE row[s].is = status /\ row' = [row EXCEPT ![s] = r] /\ Post("settlement.paid", -row[s].net, s)
  <2>1. row'[s] = r /\ \A t \in Settlement \ {s} : row'[t] = row[t]
    BY <1>2, Shape DEF IInv
  <2> QED BY <1>2, <2>1 DEF IsPaid
<1> QED BY <1>1, <1>2 DEF PayFrom

LEMMA CallEffect ==
  ASSUME IInv, NEW c \in Call, CallStep(c)
  PROVE  \/ MovesRows
         \/ \E s \in Settlement : IsPaid(s)
         \/ \E s \in Settlement : /\ call[c].op = "insert" /\ call[c].take \cap Claimed = {}
                                  /\ BecomesDue(s, call[c].take, call[c].net)
<1>1. CASE posting' = posting /\ claim' = claim /\ row' = row
  BY <1>1 DEF MovesRows
<1>2. ASSUME NEW s \in Settlement, DraftInserts(c, s), row' # row
      PROVE  /\ call[c].op = "insert" /\ call[c].take \cap Claimed = {}
             /\ BecomesDue(s, call[c].take, call[c].net)
  <2>1. Drafted(c).is \notin Done /\ Drafted(c).net = call[c].net
    BY DEF Drafted, NoRow, Done
  <2>2. row' = [row EXCEPT ![s] = Drafted(c)]
    BY <1>2 DEF DraftInserts
  <2>3. row'[s] = Drafted(c) /\ \A t \in Settlement \ {s} : row'[t] = row[t]
    BY <2>2, Shape DEF IInv
  <2> QED BY <1>2, <2>1, <2>3 DEF DraftInserts, BecomesDue
<1>3. CASE PayCommits(c)
  <2> DEFINE s == call[c].of
             r == [row[s] EXCEPT !.is = "PAID", !.ref = call[c].ref]
  <2>1. s \in Settlement /\ call[c].saw \notin Done
    BY <1>3 DEF PayCommits, IInv, CallsInformed, Informed, Attemptable, Done
  <2>2. r.is = "PAID" /\ r.net = row[s].net
    BY <2>1, Shape DEF IInv, Rows
  <2>3. PayFrom(s, call[c].saw, r) /\ claim' = claim
    BY <1>3 DEF PayCommits
  <2> HIDE DEF s, r
  <2> QED BY <2>1, <2>2, <2>3, PayFromEffect
<1>4. CASE ProposeCommits(c)
  <2> DEFINE s == call[c].of
             r == [row[s] EXCEPT !.outcome = call[c].saw, !.proposer = call[c].by,
                                 !.confirmer = None, !.ref = call[c].ref]
  <2>1. s \in Settlement
    BY <1>4 DEF ProposeCommits, IInv, CallsInformed, Informed
  <2>2. r.is = row[s].is /\ r.net = row[s].net
    BY <2>1, Shape DEF IInv, Rows
  <2>3. posting' = posting /\ claim' = claim /\ (row' = row \/ row' = [row EXCEPT ![s] = r])
    BY <1>4 DEF ProposeCommits
  <2> HIDE DEF s, r
  <2> QED BY <1>1, <2>1, <2>2, <2>3, WriteMovesRows DEF IInv
<1>5. CASE ConfirmMoved(c)
  <2> DEFINE s == call[c].of
             r == [row[s] EXCEPT !.is = "PAID", !.confirmer = call[c].by, !.ref = call[c].ref]
  <2>1. s \in Settlement /\ Doubt \notin Done
    BY <1>5 DEF ConfirmMoved, IInv, CallsInformed, Informed, Doubt, Done
  <2>2. r.is = "PAID" /\ r.net = row[s].net
    BY <2>1, Shape DEF IInv, Rows
  <2>3. PayFrom(s, Doubt, r) /\ claim' = claim
    BY <1>5 DEF ConfirmMoved
  <2> HIDE DEF s, r
  <2> QED BY <2>1, <2>2, <2>3, PayFromEffect
<1>6. CASE ConfirmNotMoved(c)
  <2> DEFINE s == call[c].of
             r == [row[s] EXCEPT !.is = "FAILED", !.confirmer = call[c].by]
  <2>1. s \in Settlement
    BY <1>6 DEF ConfirmNotMoved, IInv, CallsInformed, Informed
  <2>2. r.is = "FAILED" /\ r.net = row[s].net
    BY <2>1, Shape DEF IInv, Rows
  <2>3. posting' = posting /\ claim' = claim
        /\ (row' = row \/ (row[s].is = Doubt /\ row' = [row EXCEPT ![s] = r]))
    BY <1>6 DEF ConfirmNotMoved
  <2>4. {Doubt, "FAILED"} \cap Done = {}
    BY DEF Doubt, Done
  <2> HIDE DEF s, r
  <2> QED BY <1>1, <2>1, <2>2, <2>3, <2>4, WriteMovesRows DEF IInv
<1>7. CASE \E s \in Settlement : DraftInserts(c, s)
  <2>1. PICK s \in Settlement : DraftInserts(c, s)
    BY <1>7
  <2>2. CASE row' = row /\ claim' = claim
    BY <1>1, <2>1, <2>2 DEF DraftInserts
  <2>3. CASE row' # row
    BY <1>2, <2>1, <2>3
  <2>4. row[s].is = "none" /\ Drafted(c).is = "DRAFT" /\ row \in [Settlement -> Rows]
    BY <2>1, Shape DEF DraftInserts, Drafted, NoRow, IInv
  <2>5. [row EXCEPT ![s] = Drafted(c)] # row
    BY <2>4
  <2> QED BY <2>1, <2>2, <2>3, <2>5 DEF DraftInserts
<1> QED
  BY <1>1, <1>3, <1>4, <1>5, <1>6, <1>7
     DEF CallStep, DraftOpens, DraftReads, PayReads, ProposeReads, ConfirmReads

LEMMA SettlementEffect ==
  ASSUME IInv, NEW s \in Settlement, SettlementStep(s) PROVE MovesRows \/ IsGivenUp(s)
<1>1. ASSUME NEW from, NEW to, Move(s, from, to), claim' = claim, (from \cup {to}) \cap Done = {}
      PROVE  MovesRows
  <2> DEFINE r == [row[s] EXCEPT !.is = to]
  <2>1. row' = [row EXCEPT ![s] = r] /\ posting' = posting /\ row[s].is \in from
    BY <1>1 DEF Move
  <2>2. r.is = to /\ r.net = row[s].net
    BY Shape DEF IInv, Rows
  <2> HIDE DEF r
  <2> QED BY <1>1, <2>1, <2>2, WriteMovesRows DEF IInv
<1>2. CASE MarkReady(s)
  BY <1>1, <1>2 DEF MarkReady, Done
<1>3. CASE \E p \in Person : Approve(s, p)
  BY <1>1, <1>3 DEF Approve, Done
<1>4. CASE MarkPaymentPending(s)
  BY <1>1, <1>4 DEF MarkPaymentPending, Attemptable, Done
<1>5. CASE Cancel(s)
  <2> DEFINE r == [row[s] EXCEPT !.is = "CANCELLED"]
  <2>1. row' = [row EXCEPT ![s] = r] /\ posting' = posting /\ row[s].is \in {"DRAFT", "READY"}
    BY <1>5 DEF Cancel, Move
  <2>2. r.is = "CANCELLED" /\ r.net = row[s].net
    BY Shape DEF IInv, Rows
  <2>3. row'[s] = r /\ \A t \in Settlement \ {s} : row'[t] = row[t]
    BY <2>1, Shape DEF IInv
  <2> QED BY <1>5, <2>1, <2>2, <2>3 DEF Cancel, IsGivenUp, Done
<1>6. CASE \E ref \in Ref \cup {None} : MarkFailed(s, ref)
  <2> DEFINE r == [row[s] EXCEPT !.is = "FAILED"]
  <2>1. row' = [row EXCEPT ![s] = r] /\ posting' = posting /\ claim' = claim /\ row[s].is \in Attemptable
    BY <1>6 DEF MarkFailed
  <2>2. r.is = "FAILED" /\ r.net = row[s].net
    BY Shape DEF IInv, Rows
  <2>3. (Attemptable \cup {"FAILED"}) \cap Done = {}
    BY DEF Attemptable, Done
  <2> HIDE DEF r
  <2> QED BY <2>1, <2>2, <2>3, WriteMovesRows DEF IInv
<1>7. CASE \E ref \in Ref \cup {None}, q \in Person \cup {None} : RaiseDoubt(s, ref, q)
  <2>1. PICK ref \in Ref \cup {None}, q \in Person \cup {None} : RaiseDoubt(s, ref, q)
    BY <1>7
  <2> DEFINE r == [row[s] EXCEPT !.is = Doubt, !.reporter = q]
  <2>2. row' = [row EXCEPT ![s] = r] /\ posting' = posting /\ claim' = claim /\ row[s].is \in Attemptable
    BY <2>1 DEF RaiseDoubt
  <2>3. r.is = Doubt /\ r.net = row[s].net
    BY Shape DEF IInv, Rows
  <2>4. (Attemptable \cup {Doubt}) \cap Done = {}
    BY DEF Attemptable, Done, Doubt
  <2> HIDE DEF r
  <2> QED BY <2>2, <2>3, <2>4, WriteMovesRows DEF IInv
<1> QED BY <1>2, <1>3, <1>4, <1>5, <1>6, <1>7 DEF SettlementStep

-----------------------------------------------------------------------------
(* The ledger agrees with the settlements *)

Due     == SumFunctionOnSet(Net, Live)
PaidOff == {s \in Settlement : row[s].is = "PAID"}
PaidOut == SumFunctionOnSet(Net, PaidOff)

LEMMA RowsStay ==
  ASSUME TypeOK, TypeOK', MovesRows PROVE Due' = Due /\ PaidOut' = PaidOut
<1>1. Live' = Live /\ PaidOff' = PaidOff
  BY DEF MovesRows, Done, Live, PaidOff
<1>2. Net' = Net
  BY DEF MovesRows, Net
<1> QED BY <1>1, <1>2 DEF Due, PaidOut

\* Of one row that changes, the sums over the others do not.
LEMMA OthersStay ==
  ASSUME TypeOK, TypeOK', NEW s \in Settlement, \A t \in Settlement \ {s} : row'[t] = row[t]
  PROVE  /\ Net[s] = row[s].net /\ Net'[s] = row'[s].net /\ Net[s] \in Int /\ Net'[s] \in Int
         /\ \A S \in SUBSET (Settlement \ {s}) :
              /\ SumFunctionOnSet(Net', S) = SumFunctionOnSet(Net, S)
              /\ SumFunctionOnSet(Net', S \cup {s}) = SumFunctionOnSet(Net, S) + Net'[s]
              /\ SumFunctionOnSet(Net, S \cup {s}) = SumFunctionOnSet(Net, S) + Net[s]
<1> DEFINE f == Net
           g == Net'
<1>1. f[s] \in Int /\ f[s] = row[s].net /\ \A t \in Settlement : f[t] \in Int
  BY RowsCount
<1>2. g[s] = row'[s].net /\ \A t \in Settlement \ {s} : g[t] = f[t]
  BY DEF Net
<1>3. row'[s].net \in Int
  BY Shape DEF TypeOK
<1>4. \A S \in SUBSET Settlement : IsFiniteSet(S)
  BY RowsCount
<1> HIDE DEF f, g
<1>5. ASSUME NEW S \in SUBSET (Settlement \ {s})
      PROVE  /\ SumFunctionOnSet(g, S) = SumFunctionOnSet(f, S)
             /\ SumFunctionOnSet(g, S \cup {s}) = SumFunctionOnSet(f, S) + g[s]
             /\ SumFunctionOnSet(f, S \cup {s}) = SumFunctionOnSet(f, S) + f[s]
  <2>1. IsFiniteSet(S) /\ s \notin S /\ g[s] \in Int /\ \A t \in S : f[t] \in Int /\ g[t] = f[t]
    BY <1>1, <1>2, <1>3, <1>4
  <2>2. \A t \in S : f[t] \in Int /\ f[t] = f[t]
    BY <2>1
  <2>3. SumFunctionOnSet(g, S) = SumFunctionOnSet(f, S)
    BY <2>1, SumSame
  <2>4. SumFunctionOnSet(g, S \cup {s}) = SumFunctionOnSet(f, S) + g[s]
    BY <2>1, SumJoins
  <2>5. SumFunctionOnSet(f, S \cup {s}) = SumFunctionOnSet(f, S) + f[s]
    BY <1>1, <2>1, <2>2, SumJoins
  <2> QED BY <2>3, <2>4, <2>5
<1> QED BY <1>1, <1>2, <1>3, <1>5 DEF f, g

LEMMA RowsBecomeDue ==
  ASSUME TypeOK, TypeOK', NEW s \in Settlement, NEW take, NEW net, BecomesDue(s, take, net)
  PROVE  Due' = Due + net /\ PaidOut' = PaidOut
<1>1. s \notin Live /\ Live' = Live \cup {s} /\ s \notin PaidOff /\ PaidOff' = PaidOff
  BY DEF BecomesDue, Done, Live, PaidOff
<1>2. Net'[s] = net
  BY DEF BecomesDue, Net
<1>3. Live \in SUBSET (Settlement \ {s}) /\ PaidOff \in SUBSET (Settlement \ {s})
  BY <1>1 DEF Live, PaidOff
<1> QED BY <1>1, <1>2, <1>3, OthersStay DEF BecomesDue, Due, PaidOut

LEMMA RowsGivenUp ==
  ASSUME TypeOK, TypeOK', NEW s \in Settlement, IsGivenUp(s)
  PROVE  Due' = Due - row[s].net /\ PaidOut' = PaidOut
<1> DEFINE S == Live \ {s}
<1>1. Live = S \cup {s} /\ Live' = S /\ s \notin PaidOff /\ PaidOff' = PaidOff
  BY DEF IsGivenUp, Done, Live, PaidOff
<1>2. S \in SUBSET (Settlement \ {s}) /\ PaidOff \in SUBSET (Settlement \ {s})
  BY <1>1 DEF Live, PaidOff
<1>3. SumFunctionOnSet(Net, S) \in Int
  BY <1>2, RowsCount
<1> HIDE DEF S
<1>4. SumFunctionOnSet(Net, S \cup {s}) = SumFunctionOnSet(Net, S) + row[s].net
  BY <1>2, OthersStay DEF IsGivenUp
<1>5. SumFunctionOnSet(Net', S) = SumFunctionOnSet(Net, S) /\ row[s].net \in Int
  BY <1>2, OthersStay DEF IsGivenUp
<1>6. SumFunctionOnSet(Net', PaidOff) = SumFunctionOnSet(Net, PaidOff)
  BY <1>2, OthersStay DEF IsGivenUp
<1> QED BY <1>1, <1>3, <1>4, <1>5, <1>6 DEF Due, PaidOut

LEMMA RowsPaid ==
  ASSUME TypeOK, TypeOK', NEW s \in Settlement, IsPaid(s)
  PROVE  Due' = Due - row[s].net /\ PaidOut' = PaidOut + row[s].net
<1> DEFINE S == Live \ {s}
<1>1. Live = S \cup {s} /\ Live' = S /\ s \notin PaidOff /\ PaidOff' = PaidOff \cup {s}
  BY DEF IsPaid, Done, Live, PaidOff
<1>2. S \in SUBSET (Settlement \ {s}) /\ PaidOff \in SUBSET (Settlement \ {s})
  BY <1>1 DEF Live, PaidOff
<1>3. SumFunctionOnSet(Net, S) \in Int
  BY <1>2, RowsCount
<1> HIDE DEF S
<1>4. SumFunctionOnSet(Net, S \cup {s}) = SumFunctionOnSet(Net, S) + row[s].net
  BY <1>2, OthersStay DEF IsPaid
<1>5. SumFunctionOnSet(Net', S) = SumFunctionOnSet(Net, S) /\ row[s].net \in Int
  BY <1>2, OthersStay DEF IsPaid
<1>6. SumFunctionOnSet(Net', PaidOff \cup {s}) = SumFunctionOnSet(Net, PaidOff) + row[s].net
  BY <1>2, OthersStay DEF IsPaid
<1> QED BY <1>1, <1>3, <1>4, <1>5, <1>6 DEF Due, PaidOut

\* What a posting adds to the postings that wait for a settlement.
LEMMA UnsettledBy ==
  ASSUME TypeOK, NEW kind \in Kind, NEW amount \in Int, NEW of \in Source \cup {None},
         Post(kind, amount, of), claim' = claim
  PROVE  Worth(Unsettled)' = IF kind \in Settleable THEN Worth(Unsettled) + amount ELSE Worth(Unsettled)
<1>1. PICK n : /\ n \notin Index /\ Index' = Index \cup {n}
               /\ posting'[n] = [kind |-> kind, amount |-> amount, of |-> of]
               /\ \A i \in Index : posting'[i] = posting[i]
               /\ \A I \in SUBSET Index : /\ SumFunctionOnSet(Value', I) = Worth(I)
                                          /\ SumFunctionOnSet(Value', I \cup {n}) = Worth(I) + amount
  BY PostingAdds
<1>2. Claimed' = Claimed /\ n \notin Claimed
  BY <1>1 DEF Claimed, TypeOK
<1>3. Unsettled' = IF kind \in Settleable THEN Unsettled \cup {n} ELSE Unsettled
  BY <1>1, <1>2 DEF Unsettled, Settleable
<1>4. Worth(Unsettled)' = SumFunctionOnSet(Value', Unsettled')
  BY DEF Worth
<1>5. Unsettled \in SUBSET Index
  BY DEF Unsettled
<1> QED BY <1>1, <1>3, <1>4, <1>5

-----------------------------------------------------------------------------
(* What a settlement holds is what it pays *)

\* Nothing that was posted is posted differently.
PostingsStay ==
  /\ Index \subseteq Index'
  /\ \A i \in Index : posting'[i] = posting[i]
  /\ \A I \in SUBSET Index : SumFunctionOnSet(Value', I) = Worth(I)

LEMMA PostingsStayPosted ==
  ASSUME TypeOK,
         posting' = posting \/ (\E kind \in Kind, amount \in Int, of \in Source \cup {None} :
                                  Post(kind, amount, of))
  PROVE  PostingsStay
<1>1. CASE posting' = posting
  <2>1. Index' = Index /\ Value' = Value
    BY <1>1 DEF Index, Value
  <2> QED BY <1>1, <2>1 DEF PostingsStay, Worth
<1>2. ASSUME NEW kind \in Kind, NEW amount \in Int, NEW of \in Source \cup {None}, Post(kind, amount, of)
      PROVE  PostingsStay
  BY <1>2, PostingAdds DEF PostingsStay
<1> QED BY <1>1, <1>2

LEMMA FitsStays ==
  ASSUME PostingsStay, NEW k, k.take \subseteq Index, Fits(k) PROVE Fits(k)'
BY DEF PostingsStay, Fits, Worth

LEMMA DraftFits ==
  ASSUME TypeOK, NEW c \in Call, NEW n \in Index, DraftReads(c, n)
  PROVE  PostingsStay /\ \A d \in Call : call'[d] = call[d] \/ Fits(call'[d])
<1> DEFINE take == {i \in Unsettled : i <= n}
           w == Worth(take)
           k == [call[c] EXCEPT !.op = "insert", !.take = take, !.net = w]
<1>1. call' = [call EXCEPT ![c] = k] \/ call' = [call EXCEPT ![c] = Idle]
  BY DEF DraftReads, Returns
<1>2. PostingsStay
  BY PostingsStayPosted DEF DraftReads
<1>3. Fits(Idle)
  BY DEF Fits, Idle
<1>4. Fits(k)
  <2>1. call[c] \in Calls
    BY Shape
  <2>2. k.take = take /\ k.net = w
    BY <2>1 DEF Calls
  <2>3. \A i \in take : posting[i].kind \in Settleable
    BY DEF Unsettled
  <2>4. w = Worth(take)
    OBVIOUS
  <2> HIDE DEF k, w, take
  <2> QED BY <2>2, <2>3, <2>4 DEF Fits
<1> HIDE DEF k
<1> QED BY <1>1, <1>2, <1>3, <1>4, Shape

\* Only a draft that reads leaves a call about to insert.
LEMMA CallsFit ==
  ASSUME TypeOK, InsertsFit, PostingsStay, NEW c \in Call, CallStep(c)
  PROVE  InsertsFit'
<1>1. ASSUME NEW k, k.op # "insert", call' = [call EXCEPT ![c] = k]
      PROVE  InsertsFit'
  <2>1. ASSUME NEW d \in Call PROVE Fits(call[d])'
    <3>1. CASE call'[d] = call[d]
      <4>1. Fits(call[d]) /\ call[d].take \subseteq Index
        BY Shape DEF InsertsFit, Calls
      <4> QED BY <3>1, <4>1, FitsStays
    <3>2. CASE call'[d] = k
      BY <1>1, <3>2 DEF Fits
    <3> QED BY <1>1, <3>1, <3>2, Shape
  <2> QED BY <2>1 DEF InsertsFit
<1>2. ASSUME NEW n \in Index, DraftReads(c, n) PROVE InsertsFit'
  <2>1. posting' = posting /\ \A d \in Call : call'[d] = call[d] \/ Fits(call'[d])
    BY <1>2, DraftFits DEF DraftReads
  <2>2. \A d \in Call : Fits(call'[d])
    BY <2>1 DEF InsertsFit
  <2>3. Value' = Value
    BY <2>1 DEF Value, Index
  <2> QED BY <2>1, <2>2, <2>3 DEF InsertsFit, Fits, Worth
<1>3. CASE call' = [call EXCEPT ![c] = Idle]
  BY <1>1, <1>3 DEF Idle
<1>4. CASE \E p \in Person : DraftOpens(c, p)
  <2>1. PICK p \in Person : DraftOpens(c, p)
    BY <1>4
  <2> DEFINE k == [Idle EXCEPT !.op = "draft", !.by = p]
  <2>2. k.op # "insert" /\ call' = [call EXCEPT ![c] = k]
    BY <2>1 DEF DraftOpens, Idle
  <2> QED BY <1>1, <2>2
<1>5. CASE \E s \in Settlement, ref \in Ref : PayReads(c, s, ref)
  <2>1. PICK s \in Settlement, ref \in Ref : PayReads(c, s, ref)
    BY <1>5
  <2> DEFINE k == [Idle EXCEPT !.op = "pay", !.of = s, !.saw = row[s].is, !.ref = ref]
  <2>2. k.op # "insert" /\ call' = [call EXCEPT ![c] = k]
    BY <2>1 DEF PayReads, Idle
  <2> QED BY <1>1, <2>2
<1>6. CASE \E s \in Settlement, p \in Person, o \in Outcome, ref \in Ref \cup {None} :
             ProposeReads(c, s, p, o, ref)
  <2>1. PICK s \in Settlement, p \in Person, o \in Outcome, ref \in Ref \cup {None} :
          ProposeReads(c, s, p, o, ref)
    BY <1>6
  <2> DEFINE k == [Idle EXCEPT !.op = "propose", !.of = s, !.by = p, !.saw = o, !.ref = ref]
  <2>2. k.op # "insert" /\ call' = [call EXCEPT ![c] = k]
    BY <2>1 DEF ProposeReads, Idle
  <2> QED BY <1>1, <2>2
<1>7. CASE \E s \in Settlement, p \in Person : ConfirmReads(c, s, p)
  <2>1. PICK s \in Settlement, p \in Person : ConfirmReads(c, s, p)
    BY <1>7
  <2> DEFINE k == [Idle EXCEPT !.op = "confirm", !.of = s, !.by = p,
                               !.saw = row[s].outcome, !.ref = row[s].ref]
  <2>2. k.op # "insert" /\ call' = [call EXCEPT ![c] = k]
    BY <2>1 DEF ConfirmReads, Idle
  <2> QED BY <1>1, <2>2
<1> QED
  BY <1>2, <1>3, <1>4, <1>5, <1>6, <1>7
     DEF CallStep, DraftInserts, PayCommits, ProposeCommits, ConfirmMoved, ConfirmNotMoved, Returns

\* The claims stay: rows keep their net, and none is drafted or given up.
LEMMA ClaimsStay ==
  ASSUME TypeOK, ClaimsFit, PostingsStay, claim' = claim,
         \A s \in Settlement : /\ row'[s].net = row[s].net
                               /\ row'[s].is \in {"none", "CANCELLED"} <=> row[s].is \in {"none", "CANCELLED"}
  PROVE  ClaimsFit'
<1>1. claim \subseteq Settlement \X Index
  BY DEF TypeOK
<1>2. ASSUME NEW s \in Settlement
      PROVE  Held(s)' = Held(s) /\ SumFunctionOnSet(Value', Held(s)) = Worth(Held(s))
  <2>1. Held(s)' = Held(s) /\ Held(s) \in SUBSET Index
    BY <1>1 DEF Held, PostingsStay
  <2> QED BY <2>1 DEF PostingsStay
<1>3. \A e \in claim' : posting'[e[2]].kind \in Settleable
  BY <1>1 DEF ClaimsFit, PostingsStay
<1>4. \A s \in Settlement : Worth(Held(s))' = Worth(Held(s))
  BY <1>2 DEF Worth
<1>5. \A s \in Settlement : (IF row[s].is \in {"none", "CANCELLED"} THEN Held(s) = {}
                            ELSE row[s].net = Worth(Held(s)))'
  BY <1>2, <1>4 DEF ClaimsFit
<1>6. \A e, f \in claim' : e[2] = f[2] => e[1] = f[1]
  BY DEF ClaimsFit
<1> QED BY <1>3, <1>5, <1>6 DEF ClaimsFit

LEMMA ClaimsTaken ==
  ASSUME TypeOK, ClaimsFit, NEW c \in Call, Fits(call[c]), call[c].op = "insert",
         call[c].take \cap Claimed = {}, NEW s \in Settlement, BecomesDue(s, call[c].take, call[c].net)
  PROVE  /\ ClaimsFit'
         /\ Worth(Unsettled)' = Worth(Unsettled) - call[c].net
<1> DEFINE take == call[c].take
           net  == call[c].net
<1>1. /\ take \in SUBSET Index /\ net = Worth(take) /\ \A i \in take : posting[i].kind \in Settleable
      /\ take \cap Claimed = {} /\ BecomesDue(s, take, net)
  BY Shape DEF Calls, Fits
<1> HIDE DEF take, net
<1>2. Index' = Index /\ Value' = Value /\ posting' = posting
  BY <1>1 DEF BecomesDue, Index, Value
<1>3. claim \subseteq Settlement \X Index /\ claim' = claim \cup ({s} \X take)
  BY <1>1 DEF TypeOK, BecomesDue
<1>4. Held(s) = {} /\ row'[s].net = net /\ row'[s].is \notin {"none", "CANCELLED"}
  BY <1>1 DEF BecomesDue, ClaimsFit, Done
<1>5. Held(s)' = take /\ \A t \in Settlement \ {s} : Held(t)' = Held(t)
  <2>1. \A i \in Index : <<s, i>> \in claim' <=> (<<s, i>> \in claim \/ i \in take)
    BY <1>3
  <2>2. \A t \in Settlement \ {s}, i \in Index : <<t, i>> \in claim' <=> <<t, i>> \in claim
    BY <1>3
  <2> QED BY <1>1, <1>2, <1>4, <2>1, <2>2 DEF Held
<1>6. \A t \in Settlement : (IF row[t].is \in {"none", "CANCELLED"} THEN Held(t) = {}
                            ELSE row[t].net = Worth(Held(t)))'
  BY <1>1, <1>2, <1>4, <1>5 DEF BecomesDue, ClaimsFit, Worth
<1>7. \A e \in claim' : posting'[e[2]].kind \in Settleable
  BY <1>1, <1>2, <1>3 DEF ClaimsFit
<1>8. \A e, f \in claim' : e[2] = f[2] => e[1] = f[1]
  <2>1. \A e \in claim : e[2] \in Claimed
    BY DEF Claimed
  <2> QED BY <1>1, <1>3, <2>1 DEF ClaimsFit
<1>9. Worth(Unsettled)' = Worth(Unsettled) - net
  <2>1. Claimed' = Claimed \cup take
    <3>1. \A i \in take : <<s, i>> \in claim' /\ <<s, i>>[2] = i
      BY <1>3
    <3>2. \A e \in claim' : e \in claim \/ e[2] \in take
      BY <1>3
    <3>3. claim \subseteq claim'
      BY <1>3
    <3>4. take \subseteq Claimed'
      BY <3>1 DEF Claimed
    <3>5. Claimed \subseteq Claimed' /\ Claimed' \subseteq Claimed \cup take
      BY <3>2, <3>3 DEF Claimed
    <3> QED BY <3>4, <3>5
  <2>2. Unsettled' = Unsettled \ take /\ take \in SUBSET Unsettled /\ Unsettled \in SUBSET Index
    BY <1>1, <1>2, <2>1 DEF Unsettled
  <2>3. IsFiniteSet(Unsettled) /\ \A i \in Unsettled : Value[i] \in Int
    BY <2>2, PostingsCount
  <2>4. Worth(Unsettled) = Worth(take) + Worth(Unsettled \ take)
    BY <2>2, <2>3, SumSplit DEF Worth
  <2>5. Worth(take) \in Int /\ Worth(Unsettled \ take) \in Int
    BY <2>2, PostingsCount
  <2>6. Worth(Unsettled)' = Worth(Unsettled \ take)
    BY <1>2, <2>2 DEF Worth
  <2> QED BY <1>1, <2>4, <2>5, <2>6
<1> QED BY <1>6, <1>7, <1>8, <1>9 DEF ClaimsFit, net

LEMMA ClaimsReturned ==
  ASSUME TypeOK, ClaimsFit, NEW s \in Settlement, IsGivenUp(s)
  PROVE  /\ ClaimsFit'
         /\ Worth(Unsettled)' = Worth(Unsettled) + row[s].net
<1>1. Index' = Index /\ Value' = Value /\ posting' = posting
  BY DEF IsGivenUp, Index, Value
<1>2. claim \subseteq Settlement \X Index /\ claim' = {e \in claim : e[1] # s}
  BY DEF TypeOK, IsGivenUp
<1>3. Held(s)' = {} /\ \A t \in Settlement \ {s} : Held(t)' = Held(t)
  <2>1. \A i \in Index : <<s, i>> \notin claim'
    BY <1>2
  <2>2. \A t \in Settlement \ {s}, i \in Index : <<t, i>> \in claim' <=> <<t, i>> \in claim
    BY <1>2
  <2> QED BY <1>1, <2>1, <2>2 DEF Held
<1>4. \A t \in Settlement : (IF row[t].is \in {"none", "CANCELLED"} THEN Held(t) = {}
                            ELSE row[t].net = Worth(Held(t)))'
  BY <1>1, <1>3 DEF IsGivenUp, ClaimsFit, Worth
<1>5. (\A e \in claim : posting[e[2]].kind \in Settleable /\ \A f \in claim : e[2] = f[2] => e[1] = f[1])'
  BY <1>1, <1>2 DEF ClaimsFit
<1>6. Worth(Unsettled)' = Worth(Unsettled) + row[s].net
  <2> DEFINE H == Held(s)
  <2>1. row[s].net = Worth(H)
    BY DEF IsGivenUp, ClaimsFit, Done
  <2>2. H \in SUBSET Index /\ \A i \in H : posting[i].kind \in Settleable
    BY DEF Held, ClaimsFit
  <2>3. Claimed' = Claimed \ H /\ H \subseteq Claimed
    <3>1. \A i : i \in Claimed' <=> i \in Claimed /\ i \notin H
      <4>1. ASSUME NEW i \in Claimed' PROVE i \in Claimed /\ i \notin H
        <5>1. PICK e \in claim : e[1] # s /\ e[2] = i
          BY <1>2, <4>1 DEF Claimed
        <5>2. ASSUME i \in H PROVE FALSE
          <6>1. <<s, i>> \in claim
            BY <5>2 DEF Held
          <6> QED BY <5>1, <6>1 DEF ClaimsFit
        <5> QED BY <5>1, <5>2 DEF Claimed
      <4>2. ASSUME NEW i \in Claimed, i \notin H PROVE i \in Claimed'
        <5>1. PICK e \in claim : e[2] = i
          BY DEF Claimed
        <5>2. e = <<e[1], i>> /\ i \in Index
          BY <1>2, <5>1
        <5>3. e[1] # s
          BY <4>2, <5>1, <5>2 DEF Held
        <5> QED BY <1>2, <5>1, <5>3 DEF Claimed
      <4> QED BY <4>1, <4>2
    <3>2. H \subseteq Claimed
      BY DEF Held, Claimed
    <3> QED BY <3>1, <3>2
  <2>4. Unsettled' = Unsettled \cup H /\ H \cap Unsettled = {} /\ Unsettled \in SUBSET Index
    BY <1>1, <2>2, <2>3 DEF Unsettled
  <2> HIDE DEF H
  <2> DEFINE U == Unsettled \cup H
  <2>5. U \in SUBSET Index /\ H \in SUBSET U /\ U \ H = Unsettled
    BY <2>2, <2>4
  <2>6. IsFiniteSet(U) /\ \A i \in U : Value[i] \in Int
    BY <2>5, PostingsCount
  <2>7. Worth(Unsettled)' = Worth(U)
    BY <1>1, <2>4 DEF Worth
  <2> HIDE DEF U
  <2>8. Worth(U) = Worth(H) + Worth(U \ H)
    BY <2>5, <2>6, SumSplit DEF Worth
  <2>9. Worth(H) \in Int /\ Worth(Unsettled) \in Int
    BY <2>2, <2>4, PostingsCount
  <2>10. Worth(U) = Worth(H) + Worth(Unsettled)
    BY <2>5, <2>8
  <2>11. Worth(U) = Worth(Unsettled) + row[s].net
    BY <2>1, <2>9, <2>10
  <2> QED BY <2>7, <2>11
<1> QED BY <1>4, <1>5, <1>6 DEF ClaimsFit

Ledger == ClaimsFit /\ InsertsFit /\ LedgerAgrees

LEMMA BalancesAreNumbers ==
  ASSUME TypeOK
  PROVE  /\ Owed \in Int /\ Due \in Int /\ PaidOut \in Int /\ Worth(Unsettled) \in Int
         /\ \A K : Moved(K) \in Int
<1>1. Due \in Int /\ PaidOut \in Int
  BY RowsCount DEF Due, PaidOut, Live, PaidOff
<1>2. \A K : {i \in Index : posting[i].kind \in K} \in SUBSET Index
  OBVIOUS
<1>3. \A K : Moved(K) \in Int
  BY <1>2, PostingsCount DEF Moved
<1>4. Owed \in Int /\ Worth(Unsettled) \in Int
  BY PostingsCount DEF Owed, Unsettled
<1> QED BY <1>1, <1>3, <1>4

\* The posting of a payment, as a posting.
LEMMA PaidPosts ==
  ASSUME TypeOK, NEW s \in Settlement, IsPaid(s)
  PROVE  /\ row[s].net \in Int /\ -row[s].net \in Int /\ s \in Source \cup {None}
         /\ Post("settlement.paid", -row[s].net, s) /\ "settlement.paid" \in Kind
<1>1. row[s].net \in Int
  BY Shape DEF Rows
<1>2. s \in Source
  BY Settlements
<1> QED BY <1>1, <1>2 DEF IsPaid, Kind

\* What each kind of step does to the balances the invariants speak of.
LEMMA SettlementMoves ==
  ASSUME IInv, IInv', Ledger, SettlementNext
  PROVE  /\ ClaimsFit' /\ InsertsFit' /\ LedgerAgrees'
         /\ \E n \in Int : Owed' = Owed - n /\ PaidOut' = PaidOut + n
         /\ Moved({"sale"})' = Moved({"sale"})
         /\ posting' = posting \/ \E s \in Settlement : Post("settlement.paid", -row[s].net, s)
<1> DEFINE K == Settleable \cup {"settlement.paid"}
<1> USE DEF Ledger
<1>1. TypeOK /\ TypeOK'
  BY DEF IInv
<1>2. InsertsFit'
  <2>1. ASSUME PostingsStay PROVE InsertsFit'
    <3>1. ASSUME NEW c \in Call, CallStep(c) PROVE InsertsFit'
      BY <1>1, <2>1, <3>1, CallsFit
    <3>2. ASSUME NEW s \in Settlement, SettlementStep(s) PROVE InsertsFit'
      <4>1. call' = call
        BY <3>2 DEF SettlementStep, MarkReady, Approve, MarkPaymentPending, Cancel, MarkFailed,
                    RaiseDoubt, Move
      <4>2. \A c \in Call : Fits(call[c]) /\ call[c].take \subseteq Index
        BY <1>1, Shape DEF InsertsFit, Calls
      <4> QED BY <2>1, <4>1, <4>2, FitsStays DEF InsertsFit
    <3> QED BY <3>1, <3>2 DEF SettlementNext
  <2>2. posting' = posting \/ \E s \in Settlement : IsPaid(s)
    BY CallEffect, SettlementEffect DEF SettlementNext, MovesRows, BecomesDue, IsGivenUp
  <2>3. PostingsStay
    BY <1>1, <2>2, PaidPosts, PostingsStayPosted
  <2> QED BY <2>1, <2>3
<1>3. ASSUME MovesRows
      PROVE  /\ ClaimsFit' /\ LedgerAgrees'
             /\ Owed' = Owed /\ PaidOut' = PaidOut /\ Moved({"sale"})' = Moved({"sale"})
  <2>1. posting' = posting /\ claim' = claim
    BY <1>3 DEF MovesRows
  <2>2. ClaimsFit'
    BY <1>1, <1>3, <2>1, PostingsStayPosted, ClaimsStay DEF MovesRows, Done
  <2>3. Due' = Due /\ PaidOut' = PaidOut
    BY <1>1, <1>3, RowsStay
  <2>4. Index' = Index /\ Value' = Value
    BY <2>1 DEF Index, Value
  <2>5. Worth(Unsettled)' = Worth(Unsettled) /\ Owed' = Owed /\ \A L : Moved(L)' = Moved(L)
    BY <2>1, <2>4 DEF Worth, Unsettled, Claimed, Owed, Moved
  <2>6. LedgerAgrees'
    BY <2>3, <2>5 DEF LedgerAgrees, Due
  <2> QED BY <2>2, <2>3, <2>5, <2>6
<1>4. ASSUME NEW s \in Settlement, IsPaid(s)
      PROVE  /\ ClaimsFit' /\ LedgerAgrees'
             /\ Owed' = Owed - row[s].net /\ PaidOut' = PaidOut + row[s].net /\ row[s].net \in Int
             /\ Moved({"sale"})' = Moved({"sale"})
  <2>1. /\ row[s].net \in Int /\ -row[s].net \in Int /\ s \in Source \cup {None}
        /\ Post("settlement.paid", -row[s].net, s) /\ "settlement.paid" \in Kind /\ claim' = claim
    BY <1>1, <1>4, PaidPosts DEF IsPaid
  <2>2. PostingsStay
    BY <1>1, <2>1, PostingsStayPosted
  <2>3. ClaimsFit'
    BY <1>1, <1>4, <2>1, <2>2, ClaimsStay DEF IsPaid, Done
  <2>4. Due' = Due - row[s].net /\ PaidOut' = PaidOut + row[s].net
    BY <1>1, <1>4, RowsPaid
  <2>5. Worth(Unsettled)' = Worth(Unsettled)
    BY <1>1, <2>1, UnsettledBy DEF Settleable
  <2>6. /\ Owed' = Owed + (-row[s].net) /\ Moved(K)' = Moved(K) + (-row[s].net)
        /\ Moved({"sale"})' = Moved({"sale"})
    BY <1>1, <2>1, MovedBy
  <2>7. Owed \in Int /\ Due \in Int /\ PaidOut \in Int /\ Worth(Unsettled) \in Int /\ Moved(K) \in Int
    BY <1>1, BalancesAreNumbers
  <2>8. Moved(K) = Worth(Unsettled) + Due
    BY DEF LedgerAgrees, Due
  <2> HIDE DEF K
  <2>9. Moved(K)' = Worth(Unsettled)' + Due'
    BY <2>1, <2>4, <2>5, <2>6, <2>7, <2>8
  <2>10. LedgerAgrees'
    BY <2>9 DEF LedgerAgrees, Due, K
  <2> QED BY <2>1, <2>3, <2>4, <2>6, <2>7, <2>10
<1>5. ASSUME NEW c \in Call, NEW s \in Settlement, call[c].op = "insert",
             call[c].take \cap Claimed = {}, BecomesDue(s, call[c].take, call[c].net)
      PROVE  /\ ClaimsFit' /\ LedgerAgrees'
             /\ Owed' = Owed /\ PaidOut' = PaidOut /\ Moved({"sale"})' = Moved({"sale"})
  <2>1. ClaimsFit' /\ Worth(Unsettled)' = Worth(Unsettled) - call[c].net
    BY <1>1, <1>5, ClaimsTaken DEF InsertsFit
  <2>2. Due' = Due + call[c].net /\ PaidOut' = PaidOut
    BY <1>1, <1>5, RowsBecomeDue
  <2>3. posting' = posting /\ Index' = Index /\ Value' = Value
    BY <1>5 DEF BecomesDue, Index, Value
  <2>4. Owed' = Owed /\ \A L : Moved(L)' = Moved(L)
    BY <2>3 DEF Worth, Owed, Moved
  <2>5. call[c].net \in Int
    BY <1>1, Shape DEF Calls
  <2>6. Due \in Int /\ Worth(Unsettled) \in Int /\ Moved(K) = Worth(Unsettled) + Due
    BY <1>1, BalancesAreNumbers DEF LedgerAgrees, Due
  <2>7. Moved(K)' = Moved(K)
    BY <2>4
  <2> HIDE DEF K
  <2>8. Moved(K)' = Worth(Unsettled)' + Due'
    BY <2>1, <2>2, <2>5, <2>6, <2>7
  <2>9. LedgerAgrees'
    BY <2>8 DEF LedgerAgrees, Due, K
  <2> QED BY <2>1, <2>2, <2>4, <2>9
<1>6. ASSUME NEW s \in Settlement, IsGivenUp(s)
      PROVE  /\ ClaimsFit' /\ LedgerAgrees'
             /\ Owed' = Owed /\ PaidOut' = PaidOut /\ Moved({"sale"})' = Moved({"sale"})
  <2>1. ClaimsFit' /\ Worth(Unsettled)' = Worth(Unsettled) + row[s].net
    BY <1>1, <1>6, ClaimsReturned
  <2>2. Due' = Due - row[s].net /\ PaidOut' = PaidOut
    BY <1>1, <1>6, RowsGivenUp
  <2>3. posting' = posting /\ Index' = Index /\ Value' = Value
    BY <1>6 DEF IsGivenUp, Index, Value
  <2>4. Owed' = Owed /\ \A L : Moved(L)' = Moved(L)
    BY <2>3 DEF Worth, Owed, Moved
  <2>5. row[s].net \in Int
    BY <1>1, Shape DEF Rows
  <2>6. Due \in Int /\ Worth(Unsettled) \in Int /\ Moved(K) = Worth(Unsettled) + Due
    BY <1>1, BalancesAreNumbers DEF LedgerAgrees, Due
  <2>7. Moved(K)' = Moved(K)
    BY <2>4
  <2> HIDE DEF K
  <2>8. Moved(K)' = Worth(Unsettled)' + Due'
    BY <2>1, <2>2, <2>5, <2>6, <2>7
  <2>9. LedgerAgrees'
    BY <2>8 DEF LedgerAgrees, Due, K
  <2> QED BY <2>1, <2>2, <2>4, <2>9
<1>7. \/ MovesRows \/ (\E s \in Settlement : IsPaid(s) \/ IsGivenUp(s))
      \/ \E c \in Call, s \in Settlement : /\ call[c].op = "insert" /\ call[c].take \cap Claimed = {}
                                           /\ BecomesDue(s, call[c].take, call[c].net)
  BY CallEffect, SettlementEffect DEF SettlementNext
<1>8. posting' = posting \/ \E s \in Settlement : Post("settlement.paid", -row[s].net, s)
  BY <1>7 DEF MovesRows, IsPaid, IsGivenUp, BecomesDue
<1>9. ASSUME Owed' = Owed, PaidOut' = PaidOut
      PROVE  \E n \in Int : Owed' = Owed - n /\ PaidOut' = PaidOut + n
  <2>1. Owed \in Int /\ PaidOut \in Int
    BY <1>1, BalancesAreNumbers
  <2>2. Owed' = Owed - 0 /\ PaidOut' = PaidOut + 0
    BY <1>9, <2>1
  <2> QED BY <2>2
<1> HIDE DEF Ledger
<1>10. CASE MovesRows
  BY <1>2, <1>3, <1>8, <1>9, <1>10
<1>11. ASSUME NEW s \in Settlement, IsPaid(s) \/ IsGivenUp(s)
       PROVE  /\ ClaimsFit' /\ LedgerAgrees' /\ Moved({"sale"})' = Moved({"sale"})
              /\ \E n \in Int : Owed' = Owed - n /\ PaidOut' = PaidOut + n
  BY <1>4, <1>6, <1>9, <1>11
<1> QED BY <1>2, <1>5, <1>7, <1>8, <1>9, <1>10, <1>11

\* A posting of another engine's leaves the settlements' ledger right.
LEMMA PostLedger ==
  ASSUME IInv, Ledger, NEW kind \in Kind, kind # "settlement.paid", NEW amount \in Int,
         NEW of \in (Source \cup {None}) \ Settlement, Post(kind, amount, of), UNCHANGED settlementVars
  PROVE  Ledger'
<1> DEFINE K == Settleable \cup {"settlement.paid"}
<1>1. TypeOK /\ of \in Source \cup {None}
  BY DEF IInv
<1>2. row' = row /\ claim' = claim /\ call' = call
  BY DEF settlementVars
<1>3. PostingsStay
  BY <1>1, PostingsStayPosted
<1>4. ClaimsFit'
  BY <1>1, <1>2, <1>3, ClaimsStay DEF Ledger
<1>5. InsertsFit'
  <2>1. \A c \in Call : Fits(call[c]) /\ call[c].take \subseteq Index
    BY <1>1, Shape DEF Ledger, InsertsFit, Calls
  <2> QED BY <1>2, <1>3, <2>1, FitsStays DEF InsertsFit
<1>6. Due' = Due
  BY <1>2 DEF Due, Net, Live
<1>7. Worth(Unsettled)' = IF kind \in Settleable THEN Worth(Unsettled) + amount ELSE Worth(Unsettled)
  BY <1>1, <1>2, UnsettledBy
<1>8. Moved(K)' = IF kind \in K THEN Moved(K) + amount ELSE Moved(K)
  BY <1>1, MovedBy
<1>9. Due \in Int /\ Worth(Unsettled) \in Int /\ Moved(K) = Worth(Unsettled) + Due
  BY <1>1, BalancesAreNumbers DEF Ledger, LedgerAgrees, Due
<1>10. kind \in K <=> kind \in Settleable
  OBVIOUS
<1> HIDE DEF K
<1>11. Moved(K)' = Worth(Unsettled)' + Due'
  BY <1>6, <1>7, <1>8, <1>9, <1>10
<1>12. LedgerAgrees'
  BY <1>11 DEF LedgerAgrees, Due, K
<1> QED BY <1>4, <1>5, <1>12 DEF Ledger

LEMMA LedgerAtFirst == ASSUME AccountInit PROVE Ledger
<1>1. Index = {} /\ claim = {} /\ \A s \in Settlement : row[s].is = "none"
  BY DEF AccountInit, SettlementInit, Index, NoRow
<1>2. ClaimsFit
  BY <1>1 DEF ClaimsFit, Held
<1>3. InsertsFit
  BY DEF AccountInit, SettlementInit, InsertsFit, Fits, Idle
<1>4. Moved(Settleable \cup {"settlement.paid"}) = 0 /\ Worth(Unsettled) = 0
  BY <1>1, SumEmpty DEF Moved, Worth, Unsettled
<1>5. Live = {}
  BY <1>1 DEF Live
<1>6. SumFunctionOnSet(Net, Live) = 0
  BY <1>5, SumEmpty
<1> QED BY <1>2, <1>3, <1>4, <1>6 DEF Ledger, LedgerAgrees

LEMMA LedgerStays ==
  ASSUME UNCHANGED <<posting, settlementVars>>, Ledger PROVE Ledger'
<1>1. posting' = posting /\ row' = row /\ claim' = claim /\ call' = call
  BY DEF settlementVars
<1>2. Index' = Index /\ Value' = Value
  BY <1>1 DEF Index, Value
<1>3. ClaimsFit'
  BY <1>1, <1>2 DEF Ledger, ClaimsFit, Held, Worth
<1>4. InsertsFit'
  BY <1>1, <1>2 DEF Ledger, InsertsFit, Fits, Worth
<1>5. LedgerAgrees'
  BY <1>1, <1>2 DEF Ledger, LedgerAgrees, Moved, Worth, Unsettled, Claimed, Net, Live
<1> QED BY <1>3, <1>4, <1>5 DEF Ledger

LEMMA LedgerStep == ASSUME IInv, IInv', Ledger, [AccountNext]_<<posting, settlementVars>> PROVE Ledger'
<1>1. CASE SettlementNext
  BY <1>1, SettlementMoves DEF Ledger
<1>2. CASE SaleNext
  <2>1. PICK amount \in Int : Post("sale", amount, None)
    BY <1>2, SellPosts DEF SaleNext
  <2> QED BY <1>2, <2>1, PostLedger, NoneIsNothing DEF SaleNext, Kind
<1>3. CASE UNCHANGED <<posting, settlementVars>>
  BY <1>3, LedgerStays
<1> QED BY <1>1, <1>2, <1>3 DEF AccountNext

-----------------------------------------------------------------------------
(* The results *)

(* The inductive invariant holds of every behaviour of the settlement       *)
(* engine on the account.                                                   *)
THEOREM Invariance == SettlementSpec => []IInv
<1>1. IInv /\ [AccountNext]_<<posting, settlementVars>> => IInv'
  BY Step
<1>2. QED
  BY <1>1, Initially, PTL DEF SettlementSpec

(* It holds together with what the ledger rests on: a claim is of a         *)
(* settleable posting and of one live settlement, a draft about to be       *)
(* inserted has read what it says, and the ledger agrees with the rows.     *)
THEOREM LedgerInvariance == SettlementSpec => [](IInv /\ Ledger)
<1>1. AccountInit => IInv /\ Ledger
  BY Initially, LedgerAtFirst
<1>2. IInv /\ Ledger /\ [AccountNext]_<<posting, settlementVars>> => (IInv /\ Ledger)'
  BY Step, LedgerStep
<1>3. QED
  BY <1>1, <1>2, PTL DEF SettlementSpec

(* What sales and refunds made and settlements paid is what nobody has     *)
(* claimed plus what live settlements still have to pay, whoever drafts    *)
(* over the same postings, cancels, pays or sells in between (createDraft, *)
(* payFrom, cancel).                                                       *)
THEOREM LedgerIsRight == SettlementSpec => []LedgerAgrees
<1>1. IInv /\ Ledger => LedgerAgrees
  BY DEF Ledger
<1>2. QED
  BY <1>1, LedgerInvariance, PTL

(* The rows, the claims, the attempts and what a call in flight has read   *)
(* keep their types (the status writes of PartnerSettlementService).       *)
THEOREM TypeCorrect == SettlementSpec => []TypeOK
<1>1. IInv => TypeOK
  BY DEF IInv
<1>2. QED
  BY <1>1, Invariance, PTL

(* The money of a settlement is recorded once if it is PAID and not at all *)
(* otherwise (payFrom: the posting commits with the claim on the status).  *)
THEOREM MoneyRecordedOnce == SettlementSpec => []PaidOnce
<1>1. IInv => PaidOnce
  BY DEF IInv, Books, PaidOnce
<1>2. QED
  BY <1>1, Invariance, PTL

LEMMA TrailOfBooks == ASSUME IInv PROVE AttemptProvesPayment
<1>1. SUFFICES ASSUME NEW s \in Settlement
             PROVE  {a.ref : a \in {b \in attempt : b.of = s /\ b.is = "succeeded"}}
                        = IF row[s].is = "PAID" THEN {row[s].ref} ELSE {}
  BY DEF AttemptProvesPayment
<1> DEFINE Refs == {a.ref : a \in {b \in attempt : b.of = s /\ b.is = "succeeded"}}
<1>2. \A x : x \in Refs <=> Won(s, x)
  BY DEF Won
<1>3. \A x : Won(s, x) => x \in Ref \cup {None}
  BY <1>1, Shape DEF IInv, Won, Attempts
<1>4. row[s].ref \in Ref \cup {None}
  BY <1>1, Shape DEF IInv, Rows
<1>5. \A x : Won(s, x) <=> (row[s].is = "PAID" /\ x = row[s].ref)
  BY <1>1, <1>3, <1>4 DEF IInv, Proof
<1> HIDE DEF Refs
<1>6. Refs = IF row[s].is = "PAID" THEN {row[s].ref} ELSE {}
  BY <1>2, <1>5
<1>7. QED
  BY <1>6 DEF Refs

(* A settlement is PAID exactly when one attempt of its own succeeded, and *)
(* under the reference the row names (recordAttempt).                      *)
THEOREM TrailIsExact == SettlementSpec => []AttemptProvesPayment
<1>1. IInv => AttemptProvesPayment
  BY TrailOfBooks
<1>2. QED
  BY <1>1, Invariance, PTL

\* Of all the steps only a confirmation moves a row out of doubt.
LEMMA OutOfDoubt ==
  ASSUME IInv, AccountNext, NEW s \in Settlement, row[s].is = Doubt, row'[s].is # Doubt
  PROVE  \E c \in Call : call[c].op = "confirm" /\ call[c].of = s
                        /\ (ConfirmMoved(c) \/ ConfirmNotMoved(c))
<1>1. ASSUME NEW t \in Settlement, SettlementStep(t) PROVE FALSE
  <2>1. /\ row[t].is \in {"DRAFT", "READY"} \cup Attemptable
        /\ \E r : row' = [row EXCEPT ![t] = r]
    BY <1>1 DEF SettlementStep, MarkReady, Approve, MarkPaymentPending, Cancel, MarkFailed,
                RaiseDoubt, Move
  <2>2. Doubt \notin {"DRAFT", "READY"} \cup Attemptable
    BY DEF Doubt, Attemptable
  <2>3. t # s
    BY <2>1, <2>2
  <2>4. QED
    BY <2>1, <2>3
<1>2. ~SaleNext
  BY DEF SaleNext, settlementVars
<1>3. PICK c \in Call : CallStep(c)
  BY <1>1, <1>2 DEF SettlementNext, AccountNext
<1>4. row' # row
  OBVIOUS
<1>5. ASSUME NEW t \in Settlement, DraftInserts(c, t) PROVE FALSE
  <2>1. row[t].is = "none" /\ row' = [row EXCEPT ![t] = Drafted(c)]
    BY <1>4, <1>5 DEF DraftInserts
  <2>2. QED
    BY <2>1 DEF Doubt
<1>6. ~PayCommits(c)
  <2>1. SUFFICES ASSUME PayCommits(c) PROVE FALSE
    OBVIOUS
  <2> DEFINE t == call[c].of
             r == [row[t] EXCEPT !.is = "PAID", !.ref = call[c].ref]
  <2>2. call[c].saw \in Attemptable
    BY <2>1 DEF PayCommits, IInv, CallsInformed, Informed
  <2>3. row[t].is = call[c].saw /\ row' = [row EXCEPT ![t] = r]
    BY <1>4, <2>1 DEF PayCommits, PayFrom
  <2>4. t # s
    BY <2>2, <2>3 DEF Attemptable, Doubt
  <2> HIDE DEF t, r
  <2>5. QED
    BY <2>3, <2>4
<1>7. ~ProposeCommits(c)
  <2>1. SUFFICES ASSUME ProposeCommits(c) PROVE FALSE
    OBVIOUS
  <2> DEFINE t == call[c].of
             r == [row[t] EXCEPT !.outcome = call[c].saw, !.proposer = call[c].by,
                                 !.confirmer = None, !.ref = call[c].ref]
  <2>2. row' = [row EXCEPT ![t] = r]
    BY <1>4, <2>1 DEF ProposeCommits
  <2>3. t \in Settlement
    BY <2>1 DEF ProposeCommits, IInv, CallsInformed, Informed
  <2>4. row[t] \in Rows
    BY <2>3, Shape DEF IInv
  <2>5. r.is = row[t].is
    BY <2>4 DEF Rows
  <2> HIDE DEF t, r
  <2>6. QED
    BY <2>2, <2>3, <2>5, Shape DEF IInv
<1>8. ConfirmMoved(c) \/ ConfirmNotMoved(c)
  BY <1>3, <1>4, <1>5, <1>6, <1>7
     DEF CallStep, DraftOpens, DraftReads, PayReads, ProposeReads, ConfirmReads
<1>9. call[c].op = "confirm" /\ \E r : row' = [row EXCEPT ![call[c].of] = r]
  BY <1>4, <1>8 DEF ConfirmMoved, ConfirmNotMoved, PayFrom
<1>10. call[c].of = s
  BY <1>9
<1>11. QED
  BY <1>8, <1>9, <1>10

\* A doubt is left only by a confirmation, and what it leaves has two people.
LEMMA DoubtTakesTwo ==
  ASSUME IInv, AccountNext, NEW s \in Settlement, row[s].is = Doubt, row'[s].is # Doubt
  PROVE  /\ None \notin {row'[s].proposer, row'[s].confirmer}
         /\ row'[s].proposer # row'[s].confirmer
         /\ row'[s].reporter \notin {row'[s].proposer, row'[s].confirmer}
<1>1. PICK c \in Call : /\ call[c].op = "confirm" /\ call[c].of = s
                        /\ ConfirmMoved(c) \/ ConfirmNotMoved(c)
  BY OutOfDoubt
<1>2. call[c].by \in Person /\ row[s].proposer # None /\ row[s] \in Rows
  BY <1>1, Shape DEF IInv, CallsInformed, Informed
<1>3. None \notin Person
  BY NoneIsNothing
<1>4. row'[s].proposer = row[s].proposer /\ row'[s].confirmer = call[c].by /\ TwoPeople(row'[s])
  <2>1. CASE ConfirmMoved(c)
    <3> DEFINE r == [row[s] EXCEPT !.is = "PAID", !.confirmer = call[c].by, !.ref = call[c].ref]
    <3>1. row' # row
      OBVIOUS
    <3>2. row' = [row EXCEPT ![s] = r] /\ TwoPeople(r)
      BY <1>1, <2>1, <3>1 DEF ConfirmMoved, PayFrom
    <3>3. row'[s] = r
      BY <3>2, Shape DEF IInv
    <3>4. r.proposer = row[s].proposer /\ r.confirmer = call[c].by
      BY <1>2 DEF Rows
    <3> HIDE DEF r
    <3>5. QED
      BY <3>2, <3>3, <3>4
  <2>2. CASE ConfirmNotMoved(c)
    <3> DEFINE r == [row[s] EXCEPT !.is = "FAILED", !.confirmer = call[c].by]
    <3>1. row' # row
      OBVIOUS
    <3>2. row' = [row EXCEPT ![s] = r] /\ TwoPeople(r)
      BY <1>1, <2>2, <3>1 DEF ConfirmNotMoved
    <3>3. row'[s] = r
      BY <3>2, Shape DEF IInv
    <3>4. r.proposer = row[s].proposer /\ r.confirmer = call[c].by
      BY <1>2 DEF Rows
    <3> HIDE DEF r
    <3>5. QED
      BY <3>2, <3>3, <3>4
  <2>3. QED
    BY <1>1, <2>1, <2>2
<1>5. QED
  BY <1>2, <1>3, <1>4 DEF TwoPeople

(* A doubt is left only by a confirmation, whose person is not the one who *)
(* proposed, neither of them being the person of the partner who raised it *)
(* (the two CHECK constraints, on what the commit finds on the row).       *)
THEOREM TwoPeopleResolve == SettlementSpec => ResolvedByTwo
<1>1. IInv /\ [AccountNext]_<<posting, settlementVars>> =>
        [\A s \in Settlement :
           row[s].is = Doubt /\ row'[s].is # Doubt =>
             /\ None \notin {row'[s].proposer, row'[s].confirmer}
             /\ row'[s].proposer # row'[s].confirmer
             /\ row'[s].reporter \notin {row'[s].proposer, row'[s].confirmer}]_<<posting, settlementVars>>
  BY DoubtTakesTwo
<1>2. QED
  BY <1>1, Invariance, PTL DEF SettlementSpec, ResolvedByTwo

-----------------------------------------------------------------------------
(* With the payout engine on the same account *)

PayoutsFit ==
  /\ payout \in [Payout -> [is : {"none", "REQUESTED", "PAID", "FAILED"}, amount : Nat,
                            maker : Person \cup {None}]]
  /\ collection \in [Collection -> [is : {"none", "PENDING", "CONFIRMED"}, amount : Nat,
                                    maker : Person \cup {None}]]
  /\ clearing \in Int
  /\ \A p \in returning \cup Returned : p \in Payout /\ payout[p].is = "FAILED"

Confirmed == {k \in Collection : collection[k].is = "CONFIRMED"}
OnItsWay  == Taken \ {p \in Payout : payout[p].is = "PAID"}
Out       == SumFunctionOnSet(Asked, Taken)
In        == SumFunctionOnSet(Brought, Confirmed)

\* EveryMoveHasItsRow, with its sums named.
Accounted ==
  /\ clearing = SumFunctionOnSet(Asked, OnItsWay)
  /\ Owed = Moved({"sale"}) - PaidOut - Out + In

PayableInv == IInv /\ Ledger /\ PayoutsFit /\ Accounted

LEMMA AccountedIsTheProperty == Accounted <=> EveryMoveHasItsRow
BY DEF Accounted, EveryMoveHasItsRow, OnItsWay, Out, In, Confirmed, PaidOut, PaidOff

\* The sums over the tables of payouts and collections are numbers.
LEMMA TablesCount ==
  ASSUME PayoutsFit
  PROVE  /\ Taken \in SUBSET Payout /\ OnItsWay \in SUBSET Payout
         /\ \A S \in SUBSET Payout : IsFiniteSet(S) /\ SumFunctionOnSet(Asked, S) \in Int
         /\ \A S \in SUBSET Collection : IsFiniteSet(S) /\ SumFunctionOnSet(Brought, S) \in Int
         /\ \A p \in Payout : Asked[p] \in Int /\ Asked[p] = payout[p].amount /\ payout[p].amount \in Int
         /\ \A k \in Collection : Brought[k] \in Int /\ Brought[k] = collection[k].amount
<1>1. \A p \in Payout : Asked[p] \in Int /\ Asked[p] = payout[p].amount /\ payout[p].amount \in Int
  BY DEF PayoutsFit, Asked
<1>2. \A k \in Collection : Brought[k] \in Int /\ Brought[k] = collection[k].amount
  BY DEF PayoutsFit, Brought
<1>3. ASSUME NEW S \in SUBSET Payout PROVE IsFiniteSet(S) /\ SumFunctionOnSet(Asked, S) \in Int
  <2>1. IsFiniteSet(S)
    BY PaymentsEnd, FS_Subset
  <2>2. \A p \in S : Asked[p] \in Int
    BY <1>1
  <2> QED BY <2>1, <2>2, SumType
<1>4. ASSUME NEW S \in SUBSET Collection PROVE IsFiniteSet(S) /\ SumFunctionOnSet(Brought, S) \in Int
  <2>1. IsFiniteSet(S)
    BY PaymentsEnd, FS_Subset
  <2>2. \A k \in S : Brought[k] \in Int
    BY <1>2
  <2> QED BY <2>1, <2>2, SumType
<1> QED BY <1>1, <1>2, <1>3, <1>4 DEF Taken, OnItsWay

LEMMA OutIsANumber == ASSUME PayoutsFit PROVE Out \in Int /\ In \in Int /\ SumFunctionOnSet(Asked, OnItsWay) \in Int
<1>1. Confirmed \in SUBSET Collection
  BY DEF Confirmed
<1> QED BY <1>1, TablesCount DEF Out, In

\* The payouts that have been given back, after a posting.
LEMMA ReturnedBy ==
  ASSUME TypeOK, NEW kind \in Kind, NEW amount \in Int, NEW of \in Source \cup {None},
         Post(kind, amount, of)
  PROVE  Returned' = IF kind = "payout.failed" THEN Returned \cup ({of} \cap Payout) ELSE Returned
<1>1. PICK n : /\ n \notin Index /\ Index' = Index \cup {n}
               /\ posting'[n] = [kind |-> kind, amount |-> amount, of |-> of]
               /\ \A i \in Index : posting'[i] = posting[i]
  BY PostingAdds
<1> QED BY <1>1 DEF Returned

\* The payout engine posts for payouts and collections, and never for a settlement.
LEMMA ForeignIds ==
  /\ \A p \in Payout : p \in (Source \cup {None}) \ Settlement
  /\ \A k \in Collection : k \in (Source \cup {None}) \ Settlement
BY PaymentsEnd, Apart

\* The settlement engine and the sales leave the payouts alone.
LEMMA SettlementPayable ==
  ASSUME PayableInv, IInv', SettlementNext, UNCHANGED payoutVars PROVE PayableInv'
<1>1. /\ ClaimsFit' /\ InsertsFit' /\ LedgerAgrees'
      /\ \E n \in Int : Owed' = Owed - n /\ PaidOut' = PaidOut + n
      /\ Moved({"sale"})' = Moved({"sale"})
      /\ posting' = posting \/ \E s \in Settlement : Post("settlement.paid", -row[s].net, s)
  BY SettlementMoves DEF PayableInv
<1>2. TypeOK /\ TypeOK'
  BY DEF PayableInv, IInv
<1>3. payout' = payout /\ collection' = collection /\ clearing' = clearing /\ returning' = returning
  BY DEF payoutVars
<1>4. Returned' = Returned
  <2>1. CASE posting' = posting
    BY <2>1 DEF Returned, Index
  <2>2. ASSUME NEW s \in Settlement, Post("settlement.paid", -row[s].net, s) PROVE Returned' = Returned
    <3>1. -row[s].net \in Int
      <4>1. row[s].net \in Int
        BY <1>2, Shape DEF Rows
      <4> QED BY <4>1
    <3> QED BY <1>2, <2>2, <3>1, ReturnedBy, Settlements DEF Kind
  <2> QED BY <1>1, <2>1, <2>2
<1>5. PayoutsFit'
  BY <1>3, <1>4 DEF PayableInv, PayoutsFit
<1>6. Out' = Out /\ In' = In /\ OnItsWay' = OnItsWay /\ Asked' = Asked
  BY <1>3, <1>4 DEF Out, In, OnItsWay, Taken, Asked, Brought, Confirmed
<1>7. /\ Owed \in Int /\ PaidOut \in Int
      /\ Moved({"sale"}) \in Int /\ Out \in Int /\ In \in Int
  BY <1>2, BalancesAreNumbers, OutIsANumber DEF PayableInv
<1>8. Owed = Moved({"sale"}) - PaidOut - Out + In
  BY DEF PayableInv, Accounted
<1>9. Owed' = Moved({"sale"})' - PaidOut' - Out' + In'
  BY <1>1, <1>6, <1>7, <1>8
<1>10. Accounted'
  BY <1>3, <1>6, <1>9 DEF PayableInv, Accounted
<1> QED BY <1>1, <1>5, <1>10 DEF PayableInv, Ledger

LEMMA SalePayable ==
  ASSUME PayableInv, Sell, UNCHANGED <<settlementVars, payoutVars>> PROVE PayableInv'
<1>1. PICK amount \in Int : Post("sale", amount, None)
  BY SellPosts
<1>2. IInv' /\ TypeOK
  BY SaleKeeps DEF PayableInv, IInv
<1>3. Ledger'
  BY <1>1, PostLedger, NoneIsNothing DEF PayableInv, Kind
<1>4. /\ payout' = payout /\ collection' = collection /\ clearing' = clearing /\ returning' = returning
      /\ row' = row
  BY DEF payoutVars, settlementVars
<1>5. Returned' = Returned
  BY <1>1, <1>2, ReturnedBy DEF Kind
<1>6. PayoutsFit'
  BY <1>4, <1>5 DEF PayableInv, PayoutsFit
<1>7. /\ Out' = Out /\ In' = In /\ OnItsWay' = OnItsWay /\ Asked' = Asked
      /\ PaidOut' = PaidOut
  BY <1>4, <1>5 DEF Out, In, OnItsWay, Taken, Asked, Brought, Confirmed, PaidOut, PaidOff, Net
<1>8. Owed' = Owed + amount /\ Moved({"sale"})' = Moved({"sale"}) + amount
  BY <1>1, <1>2, MovedBy DEF Kind
<1>9. Owed \in Int /\ PaidOut \in Int /\ Moved({"sale"}) \in Int /\ Out \in Int /\ In \in Int
  BY <1>2, BalancesAreNumbers, OutIsANumber DEF PayableInv
<1>10. Owed = Moved({"sale"}) - PaidOut - Out + In
  BY DEF PayableInv, Accounted
<1>11. Owed' = Moved({"sale"})' - PaidOut' - Out' + In'
  BY <1>7, <1>8, <1>9, <1>10
<1>12. Accounted'
  BY <1>4, <1>7, <1>11 DEF PayableInv, Accounted
<1> QED BY <1>2, <1>3, <1>6, <1>12 DEF PayableInv

\* What a posting of the payout engine does to all but its own tables.
LEMMA PayoutPosts ==
  ASSUME PayableInv, UNCHANGED settlementVars,
         NEW kind \in Kind \ {"sale", "settlement.paid"}, NEW amount \in Int,
         NEW of \in (Source \cup {None}) \ Settlement, Post(kind, amount, of)
  PROVE  /\ IInv' /\ Ledger' /\ Owed' = Owed + amount /\ PaidOut' = PaidOut
         /\ Moved({"sale"})' = Moved({"sale"})
         /\ Returned' = IF kind = "payout.failed" THEN Returned \cup ({of} \cap Payout) ELSE Returned
<1>1. IInv' /\ Ledger' /\ TypeOK
  BY PostKeeps, PostLedger DEF PayableInv, IInv
<1>2. row' = row
  BY DEF settlementVars
<1>3. PaidOut' = PaidOut
  BY <1>2 DEF PaidOut, PaidOff, Net
<1> QED BY <1>1, <1>3, MovedBy, ReturnedBy

\* A step of the payout engine that posts nothing.
LEMMA NothingPosted ==
  ASSUME PayableInv, UNCHANGED settlementVars, posting' = posting
  PROVE  /\ IInv' /\ Ledger' /\ Owed' = Owed /\ PaidOut' = PaidOut
         /\ Moved({"sale"})' = Moved({"sale"}) /\ Returned' = Returned
<1>1. IInv'
  BY Step DEF PayableInv
<1>2. Ledger'
  BY LedgerStays DEF PayableInv
<1>3. Index' = Index /\ Value' = Value /\ row' = row
  BY DEF Index, Value, settlementVars
<1>4. PaidOut' = PaidOut
  BY <1>3 DEF PaidOut, PaidOff, Net
<1>5. Owed' = Owed /\ Moved({"sale"})' = Moved({"sale"}) /\ Returned' = Returned
  BY <1>3 DEF Owed, Moved, Worth, Returned
<1> QED BY <1>1, <1>2, <1>4, <1>5

\* The balances PayableInv compares are numbers.
LEMMA PayableNumbers ==
  ASSUME PayableInv
  PROVE  /\ Owed \in Int /\ PaidOut \in Int /\ Moved({"sale"}) \in Int /\ Out \in Int /\ In \in Int
         /\ clearing \in Int /\ SumFunctionOnSet(Asked, OnItsWay) \in Int
         /\ Owed = Moved({"sale"}) - PaidOut - Out + In
         /\ clearing = SumFunctionOnSet(Asked, OnItsWay)
BY BalancesAreNumbers, OutIsANumber DEF PayableInv, IInv, Accounted, PayoutsFit

LEMMA RequestKeeps ==
  ASSUME PayableInv, UNCHANGED settlementVars, NEW p \in Payout, NEW actor \in Person,
         NEW amount \in 1..Owed, RequestPayout(p, amount, actor)
  PROVE  PayableInv'
<1>1. amount \in Nat /\ amount \in Int /\ -amount \in Int
  BY PayableNumbers
<1>2. Post("payout.requested", -amount, p) /\ payout[p].is = "none"
  BY DEF RequestPayout
<1>3. /\ IInv' /\ Ledger' /\ Owed' = Owed + (-amount) /\ PaidOut' = PaidOut
      /\ Moved({"sale"})' = Moved({"sale"}) /\ Returned' = Returned
  BY <1>1, <1>2, PayoutPosts, ForeignIds DEF Kind
<1>4. p \notin Returned /\ p \notin returning
  BY <1>2 DEF PayableInv, PayoutsFit
<1> DEFINE r == [is |-> "REQUESTED", amount |-> amount, maker |-> actor]
<1>5. /\ payout' = [payout EXCEPT ![p] = r] /\ clearing' = clearing + amount
      /\ collection' = collection /\ returning' = returning
  BY DEF RequestPayout
<1>6. payout'[p] = r /\ \A q \in Payout \ {p} : payout'[q] = payout[q]
  BY <1>5 DEF PayableInv, PayoutsFit
<1>7. PayoutsFit'
  <2>1. payout' \in [Payout -> [is : {"none", "REQUESTED", "PAID", "FAILED"}, amount : Nat,
                                maker : Person \cup {None}]]
    BY <1>1, <1>5 DEF PayableInv, PayoutsFit
  <2>2. \A q \in returning' \cup Returned' : q \in Payout /\ payout'[q].is = "FAILED"
    BY <1>3, <1>4, <1>5, <1>6 DEF PayableInv, PayoutsFit
  <2> QED BY <1>1, <1>5, <2>1, <2>2 DEF PayableInv, PayoutsFit
<1>8. /\ p \notin Taken /\ Taken' = Taken \cup {p} /\ p \notin OnItsWay
      /\ OnItsWay' = OnItsWay \cup {p} /\ In' = In
  <2>1. In' = In
    BY <1>5 DEF In, Brought, Confirmed
  <2>2. p \notin Taken /\ Taken' = Taken \cup {p}
    BY <1>2, <1>3, <1>4, <1>6 DEF Taken
  <2> QED BY <1>2, <1>6, <2>1, <2>2 DEF OnItsWay
<1> DEFINE f == Asked
           g == Asked'
<1>9. g[p] = amount /\ \A q \in Payout \ {p} : g[q] = f[q] /\ f[q] \in Int
  BY <1>6, TablesCount DEF Asked, PayableInv
<1> HIDE DEF f, g, r
<1>10. ASSUME NEW S \in SUBSET Payout, p \notin S
       PROVE  SumFunctionOnSet(g, S \cup {p}) = SumFunctionOnSet(f, S) + amount
  <2>1. IsFiniteSet(S) /\ g[p] \in Int /\ \A q \in S : f[q] \in Int /\ g[q] = f[q]
    BY <1>1, <1>9, <1>10, TablesCount DEF PayableInv
  <2> QED BY <1>9, <1>10, <2>1, SumJoins
<1>11. /\ SumFunctionOnSet(g, Taken \cup {p}) = SumFunctionOnSet(f, Taken) + amount
       /\ SumFunctionOnSet(g, OnItsWay \cup {p}) = SumFunctionOnSet(f, OnItsWay) + amount
  BY <1>8, <1>10, TablesCount DEF PayableInv
<1>12. Out' = Out + amount /\ SumFunctionOnSet(Asked, OnItsWay)' = SumFunctionOnSet(Asked, OnItsWay) + amount
  BY <1>8, <1>11 DEF Out, f, g
<1>13. clearing' = SumFunctionOnSet(Asked, OnItsWay)'
  BY <1>5, <1>12, PayableNumbers
<1>14. Owed' = Moved({"sale"})' - PaidOut' - Out' + In'
  BY <1>1, <1>3, <1>8, <1>12, PayableNumbers
<1> QED BY <1>3, <1>7, <1>13, <1>14 DEF PayableInv, Accounted

\* A status that changes alone leaves what was asked for.
LEMMA StatusAlone ==
  ASSUME PayoutsFit, NEW p \in Payout, NEW to \in {"PAID", "FAILED"},
         payout' = [payout EXCEPT ![p].is = to]
  PROVE  /\ payout' \in [Payout -> [is : {"none", "REQUESTED", "PAID", "FAILED"}, amount : Nat,
                                   maker : Person \cup {None}]]
         /\ payout'[p].is = to /\ \A q \in Payout \ {p} : payout'[q] = payout[q]
         /\ Asked' = Asked
<1> DEFINE r == [is |-> to, amount |-> payout[p].amount, maker |-> payout[p].maker]
<1>1. payout[p] \in [is : {"none", "REQUESTED", "PAID", "FAILED"}, amount : Nat, maker : Person \cup {None}]
  BY DEF PayoutsFit
<1>2. r = [payout[p] EXCEPT !.is = to]
  BY <1>1
<1>3. payout' = [payout EXCEPT ![p] = r]
  BY <1>2
<1>4. r \in [is : {"none", "REQUESTED", "PAID", "FAILED"}, amount : Nat, maker : Person \cup {None}]
      /\ r.is = to /\ r.amount = payout[p].amount
  BY <1>1
<1> HIDE DEF r
<1>5. payout'[p] = r /\ \A q \in Payout \ {p} : payout'[q] = payout[q]
  BY <1>3 DEF PayoutsFit
<1>6. Asked' = Asked
  BY <1>4, <1>5 DEF Asked
<1> QED BY <1>3, <1>4, <1>5, <1>6 DEF PayoutsFit

LEMMA ConfirmKeeps ==
  ASSUME PayableInv, UNCHANGED settlementVars, NEW p \in Payout, NEW actor \in Person, ConfirmPaid(p, actor)
  PROVE  PayableInv'
<1>1. /\ payout[p].is = "REQUESTED" /\ payout' = [payout EXCEPT ![p].is = "PAID"]
      /\ clearing' = clearing - payout[p].amount
      /\ posting' = posting /\ collection' = collection /\ returning' = returning
  BY DEF ConfirmPaid
<1>2. /\ IInv' /\ Ledger' /\ Owed' = Owed /\ PaidOut' = PaidOut
      /\ Moved({"sale"})' = Moved({"sale"}) /\ Returned' = Returned
  BY <1>1, NothingPosted
<1>3. p \notin Returned /\ p \notin returning
  BY <1>1 DEF PayableInv, PayoutsFit
<1>4. /\ payout' \in [Payout -> [is : {"none", "REQUESTED", "PAID", "FAILED"}, amount : Nat,
                                maker : Person \cup {None}]]
      /\ payout'[p].is = "PAID" /\ \A q \in Payout \ {p} : payout'[q] = payout[q]
  BY <1>1, StatusAlone DEF PayableInv
<1>5. Asked' = Asked
  BY <1>1, StatusAlone DEF PayableInv
<1>6. payout[p].amount \in Int /\ Asked[p] = payout[p].amount
  BY TablesCount DEF PayableInv
<1>7. PayoutsFit'
  <2>1. \A q \in returning' \cup Returned' : q \in Payout /\ payout'[q].is = "FAILED"
    BY <1>1, <1>2, <1>3, <1>4 DEF PayableInv, PayoutsFit
  <2>2. clearing' \in Int
    BY <1>1, <1>6, PayableNumbers
  <2> QED BY <1>1, <1>4, <2>1, <2>2 DEF PayableInv, PayoutsFit
<1>8. Taken' = Taken /\ p \in OnItsWay /\ OnItsWay' = OnItsWay \ {p}
  BY <1>1, <1>2, <1>3, <1>4 DEF Taken, OnItsWay
<1>9. In' = In /\ Out' = Out
  BY <1>1, <1>5, <1>8 DEF In, Brought, Confirmed, Out
<1>10. SumFunctionOnSet(Asked, OnItsWay \ {p}) = SumFunctionOnSet(Asked, OnItsWay) - payout[p].amount
  <2>1. IsFiniteSet(OnItsWay) /\ \A q \in OnItsWay : Asked[q] \in Int
    BY TablesCount DEF PayableInv
  <2>2. SumFunctionOnSet(Asked, OnItsWay) = Asked[p] + SumFunctionOnSet(Asked, OnItsWay \ {p})
    BY <1>8, <2>1, SumRemove
  <2>3. SumFunctionOnSet(Asked, OnItsWay \ {p}) \in Int
    BY TablesCount DEF PayableInv
  <2> QED BY <1>6, <2>2, <2>3
<1>11. clearing' = SumFunctionOnSet(Asked, OnItsWay)'
  BY <1>1, <1>5, <1>8, <1>10, PayableNumbers
<1>12. Owed' = Moved({"sale"})' - PaidOut' - Out' + In'
  BY <1>2, <1>9, PayableNumbers
<1> QED BY <1>2, <1>7, <1>11, <1>12 DEF PayableInv, Accounted

LEMMA FailKeeps ==
  ASSUME PayableInv, UNCHANGED settlementVars, NEW p \in Payout, FailPayout(p)
  PROVE  PayableInv'
<1>1. /\ payout[p].is = "REQUESTED" /\ payout' = [payout EXCEPT ![p].is = "FAILED"]
      /\ returning' = returning \cup {p}
      /\ posting' = posting /\ collection' = collection /\ clearing' = clearing
  BY DEF FailPayout
<1>2. /\ IInv' /\ Ledger' /\ Owed' = Owed /\ PaidOut' = PaidOut
      /\ Moved({"sale"})' = Moved({"sale"}) /\ Returned' = Returned
  BY <1>1, NothingPosted
<1>3. /\ payout' \in [Payout -> [is : {"none", "REQUESTED", "PAID", "FAILED"}, amount : Nat,
                                maker : Person \cup {None}]]
      /\ payout'[p].is = "FAILED" /\ \A q \in Payout \ {p} : payout'[q] = payout[q]
      /\ Asked' = Asked
  BY <1>1, StatusAlone DEF PayableInv
<1>4. PayoutsFit'
  <2>1. \A q \in returning' \cup Returned' : q \in Payout /\ payout'[q].is = "FAILED"
    BY <1>1, <1>2, <1>3 DEF PayableInv, PayoutsFit
  <2> QED BY <1>1, <1>3, <2>1 DEF PayableInv, PayoutsFit
<1>5. Taken' = Taken /\ OnItsWay' = OnItsWay
  BY <1>1, <1>2, <1>3 DEF Taken, OnItsWay
<1>6. In' = In /\ Out' = Out
  BY <1>1, <1>3, <1>5 DEF In, Brought, Confirmed, Out
<1>7. Accounted'
  BY <1>1, <1>2, <1>3, <1>5, <1>6 DEF PayableInv, Accounted
<1> QED BY <1>2, <1>4, <1>7 DEF PayableInv

LEMMA ReverseKeeps ==
  ASSUME PayableInv, UNCHANGED settlementVars, NEW p \in Payout, ReversePayout(p)
  PROVE  PayableInv'
<1> DEFINE amount == payout[p].amount
<1>1. /\ p \in returning \ Returned /\ Post("payout.failed", amount, p)
      /\ clearing' = clearing - amount /\ returning' = returning \ {p}
      /\ payout' = payout /\ collection' = collection
  BY DEF ReversePayout
<1>2. amount \in Int /\ Asked[p] = amount
  BY TablesCount DEF PayableInv
<1> HIDE DEF amount
<1>3. /\ IInv' /\ Ledger' /\ Owed' = Owed + amount /\ PaidOut' = PaidOut
      /\ Moved({"sale"})' = Moved({"sale"}) /\ Returned' = Returned \cup {p}
  BY <1>1, <1>2, PayoutPosts, ForeignIds DEF Kind
<1>4. payout[p].is = "FAILED"
  BY <1>1 DEF PayableInv, PayoutsFit
<1>5. PayoutsFit'
  <2>1. \A q \in returning' \cup Returned' : q \in Payout /\ payout'[q].is = "FAILED"
    BY <1>1, <1>3, <1>4 DEF PayableInv, PayoutsFit
  <2>2. clearing' \in Int
    BY <1>1, <1>2, PayableNumbers
  <2> QED BY <1>1, <2>1, <2>2 DEF PayableInv, PayoutsFit
<1>6. /\ p \in Taken /\ Taken' = Taken \ {p} /\ p \in OnItsWay /\ OnItsWay' = OnItsWay \ {p}
      /\ Asked' = Asked /\ In' = In
  <2>1. p \in Taken /\ Taken' = Taken \ {p}
    BY <1>1, <1>3, <1>4 DEF Taken
  <2>2. Asked' = Asked /\ In' = In
    BY <1>1 DEF Asked, In, Brought, Confirmed
  <2> QED BY <1>1, <1>4, <2>1, <2>2 DEF OnItsWay
<1>7. ASSUME NEW S \in SUBSET Payout, p \in S
      PROVE  SumFunctionOnSet(Asked, S \ {p}) = SumFunctionOnSet(Asked, S) - amount
  <2>1. IsFiniteSet(S) /\ \A q \in S : Asked[q] \in Int
    BY TablesCount DEF PayableInv
  <2>2. SumFunctionOnSet(Asked, S) = Asked[p] + SumFunctionOnSet(Asked, S \ {p})
    BY <1>7, <2>1, SumRemove
  <2>3. SumFunctionOnSet(Asked, S \ {p}) \in Int
    BY TablesCount DEF PayableInv
  <2> QED BY <1>2, <2>2, <2>3
<1>8. /\ SumFunctionOnSet(Asked, Taken \ {p}) = SumFunctionOnSet(Asked, Taken) - amount
      /\ SumFunctionOnSet(Asked, OnItsWay \ {p}) = SumFunctionOnSet(Asked, OnItsWay) - amount
  BY <1>6, <1>7, TablesCount DEF PayableInv
<1>9. Out' = Out - amount /\ clearing' = SumFunctionOnSet(Asked, OnItsWay)'
  BY <1>1, <1>6, <1>8, PayableNumbers DEF Out
<1>10. Owed' = Moved({"sale"})' - PaidOut' - Out' + In'
  BY <1>2, <1>3, <1>6, <1>9, PayableNumbers
<1> QED BY <1>3, <1>5, <1>9, <1>10 DEF PayableInv, Accounted

LEMMA DyingKeeps ==
  ASSUME PayableInv, UNCHANGED settlementVars, NEW p \in Payout, FailingDies(p)
  PROVE  PayableInv'
<1>1. /\ returning' \subseteq returning /\ posting' = posting /\ payout' = payout
      /\ collection' = collection /\ clearing' = clearing
  BY DEF FailingDies
<1>2. /\ IInv' /\ Ledger' /\ Owed' = Owed /\ PaidOut' = PaidOut
      /\ Moved({"sale"})' = Moved({"sale"}) /\ Returned' = Returned
  BY <1>1, NothingPosted
<1>3. PayoutsFit'
  BY <1>1, <1>2 DEF PayableInv, PayoutsFit
<1>4. /\ Taken' = Taken /\ OnItsWay' = OnItsWay /\ Asked' = Asked /\ Brought' = Brought
      /\ Confirmed' = Confirmed
  BY <1>1, <1>2 DEF Taken, OnItsWay, Asked, Brought, Confirmed
<1>5. Accounted'
  BY <1>1, <1>2, <1>4 DEF PayableInv, Accounted, Out, In
<1> QED BY <1>2, <1>3, <1>5 DEF PayableInv

\* The tables of payouts do not move when a collection's do.
LEMMA PayoutsRest ==
  ASSUME payout' = payout, Returned' = Returned
  PROVE  Taken' = Taken /\ OnItsWay' = OnItsWay /\ Asked' = Asked /\ Out' = Out
BY DEF Taken, OnItsWay, Asked, Out

LEMMA RecordKeeps ==
  ASSUME PayableInv, UNCHANGED settlementVars, NEW k \in Collection, NEW actor \in Person,
         NEW amount \in 1..(-Owed), RecordCollection(k, amount, actor)
  PROVE  PayableInv'
<1> DEFINE r == [is |-> "PENDING", amount |-> amount, maker |-> actor]
<1>1. /\ collection[k].is = "none" /\ collection' = [collection EXCEPT ![k] = r]
      /\ posting' = posting /\ payout' = payout /\ clearing' = clearing /\ returning' = returning
  BY DEF RecordCollection
<1>2. /\ IInv' /\ Ledger' /\ Owed' = Owed /\ PaidOut' = PaidOut
      /\ Moved({"sale"})' = Moved({"sale"}) /\ Returned' = Returned
  BY <1>1, NothingPosted
<1>3. amount \in Nat
  BY PayableNumbers
<1>4. collection'[k] = r /\ \A l \in Collection \ {k} : collection'[l] = collection[l]
  BY <1>1 DEF PayableInv, PayoutsFit
<1>5. PayoutsFit'
  <2>1. collection' \in [Collection -> [is : {"none", "PENDING", "CONFIRMED"}, amount : Nat,
                                        maker : Person \cup {None}]]
    BY <1>1, <1>3 DEF PayableInv, PayoutsFit
  <2> QED BY <1>1, <1>2, <2>1 DEF PayableInv, PayoutsFit
<1>6. Confirmed' = Confirmed /\ k \notin Confirmed
  BY <1>1, <1>4 DEF Confirmed
<1> DEFINE f == Brought
           g == Brought'
<1>7. \A l \in Confirmed : f[l] \in Int /\ g[l] = f[l]
  BY <1>4, <1>6, TablesCount DEF Brought, Confirmed, PayableInv
<1>8. IsFiniteSet(Confirmed)
  BY TablesCount DEF Confirmed, PayableInv
<1> HIDE DEF f, g
<1>9. SumFunctionOnSet(g, Confirmed) = SumFunctionOnSet(f, Confirmed)
  BY <1>7, <1>8, SumSame
<1>10. In' = In
  BY <1>6, <1>9 DEF In, f, g
<1>11. OnItsWay' = OnItsWay /\ Asked' = Asked /\ Out' = Out
  BY <1>1, <1>2, PayoutsRest
<1>12. Accounted'
  BY <1>1, <1>2, <1>10, <1>11 DEF PayableInv, Accounted
<1> QED BY <1>2, <1>5, <1>12 DEF PayableInv

LEMMA CollectKeeps ==
  ASSUME PayableInv, UNCHANGED settlementVars, NEW k \in Collection, NEW actor \in Person,
         ConfirmCollection(k, actor)
  PROVE  PayableInv'
<1> DEFINE amount == collection[k].amount
           r == [is |-> "CONFIRMED", amount |-> amount, maker |-> collection[k].maker]
<1>1. /\ collection[k].is = "PENDING" /\ collection' = [collection EXCEPT ![k].is = "CONFIRMED"]
      /\ Post("collection", amount, k)
      /\ payout' = payout /\ clearing' = clearing /\ returning' = returning
  BY DEF ConfirmCollection
<1>2. amount \in Int /\ Brought[k] = amount
  BY TablesCount DEF PayableInv
<1>3. collection[k] \in [is : {"none", "PENDING", "CONFIRMED"}, amount : Nat, maker : Person \cup {None}]
  BY DEF PayableInv, PayoutsFit
<1>4. r = [collection[k] EXCEPT !.is = "CONFIRMED"]
  BY <1>3
<1>5. collection' = [collection EXCEPT ![k] = r]
  BY <1>1, <1>4
<1>6. r \in [is : {"none", "PENDING", "CONFIRMED"}, amount : Nat, maker : Person \cup {None}]
      /\ r.is = "CONFIRMED" /\ r.amount = amount
  BY <1>3
<1> HIDE DEF amount, r
<1>7. /\ IInv' /\ Ledger' /\ Owed' = Owed + amount /\ PaidOut' = PaidOut
      /\ Moved({"sale"})' = Moved({"sale"}) /\ Returned' = Returned
  <2>1. "collection" \in Kind \ {"sale", "settlement.paid"} /\ k \in (Source \cup {None}) \ Settlement
    BY ForeignIds DEF Kind
  <2> QED BY <1>1, <1>2, <2>1, PayoutPosts
<1>8. collection'[k] = r /\ \A l \in Collection \ {k} : collection'[l] = collection[l]
  BY <1>5 DEF PayableInv, PayoutsFit
<1>9. PayoutsFit'
  <2>1. collection' \in [Collection -> [is : {"none", "PENDING", "CONFIRMED"}, amount : Nat,
                                        maker : Person \cup {None}]]
    BY <1>5, <1>6 DEF PayableInv, PayoutsFit
  <2> QED BY <1>1, <1>7, <2>1 DEF PayableInv, PayoutsFit
<1>10. Confirmed' = Confirmed \cup {k} /\ k \notin Confirmed
  BY <1>1, <1>6, <1>8 DEF Confirmed
<1> DEFINE f == Brought
           g == Brought'
<1>11. g[k] = amount /\ \A l \in Confirmed : f[l] \in Int /\ g[l] = f[l]
  BY <1>6, <1>8, <1>10, TablesCount DEF Brought, Confirmed, PayableInv
<1>12. IsFiniteSet(Confirmed)
  BY TablesCount DEF Confirmed, PayableInv
<1> HIDE DEF f, g
<1>13. SumFunctionOnSet(g, Confirmed \cup {k}) = SumFunctionOnSet(f, Confirmed) + amount
  BY <1>2, <1>10, <1>11, <1>12, SumJoins
<1>14. In' = In + amount
  BY <1>10, <1>13 DEF In, f, g
<1>15. OnItsWay' = OnItsWay /\ Asked' = Asked /\ Out' = Out
  BY <1>1, <1>7, PayoutsRest
<1>16. clearing' = SumFunctionOnSet(Asked, OnItsWay)'
  BY <1>1, <1>15, PayableNumbers
<1>17. Owed' = Moved({"sale"})' - PaidOut' - Out' + In'
  BY <1>2, <1>7, <1>14, <1>15, PayableNumbers
<1> QED BY <1>7, <1>9, <1>16, <1>17 DEF PayableInv, Accounted

LEMMA PayableAtFirst == ASSUME Init PROVE PayableInv
<1>1. IInv /\ Ledger
  BY Initially, LedgerAtFirst DEF Init
<1>2. Index = {} /\ \A s \in Settlement : row[s].is = "none"
  BY DEF Init, AccountInit, SettlementInit, Index, NoRow
<1>3. Returned = {} /\ Taken = {} /\ OnItsWay = {} /\ Confirmed = {} /\ PaidOff = {}
  BY <1>2 DEF Init, PayoutInit, Returned, Taken, OnItsWay, Confirmed, PaidOff
<1>4. PayoutsFit
  BY <1>3 DEF Init, PayoutInit, PayoutsFit
<1>5. /\ SumFunctionOnSet(Asked, OnItsWay) = 0 /\ Out = 0 /\ In = 0 /\ PaidOut = 0
      /\ Owed = 0 /\ Moved({"sale"}) = 0
  BY <1>2, <1>3, SumEmpty DEF Out, In, PaidOut, Owed, Moved, Worth
<1>6. clearing = 0
  BY DEF Init, PayoutInit
<1> QED BY <1>1, <1>4, <1>5, <1>6 DEF PayableInv, Accounted

(* No step of either engine breaks what holds of the account they share:    *)
(* a step of one is, to the other, a posting of a kind it does not know.    *)
THEOREM PayableStep == PayableInv /\ [Next]_<<posting, settlementVars, payoutVars>> => PayableInv'
<1> SUFFICES ASSUME PayableInv, [Next]_<<posting, settlementVars, payoutVars>> PROVE PayableInv'
  OBVIOUS
<1>1. CASE SettlementNext /\ UNCHANGED payoutVars
  <2>1. IInv'
    BY <1>1, Step DEF PayableInv, AccountNext
  <2> QED BY <1>1, <2>1, SettlementPayable
<1>2. CASE PayoutNext /\ UNCHANGED settlementVars
  <2>1. ASSUME NEW p \in Payout, PayoutStep(p) PROVE PayableInv'
    BY <1>2, <2>1, RequestKeeps, ConfirmKeeps, FailKeeps, ReverseKeeps, DyingKeeps DEF PayoutStep
  <2>2. ASSUME NEW k \in Collection, CollectionStep(k) PROVE PayableInv'
    BY <1>2, <2>2, RecordKeeps, CollectKeeps DEF CollectionStep
  <2> QED BY <1>2, <2>1, <2>2 DEF PayoutNext
<1>3. CASE Sell /\ UNCHANGED <<settlementVars, payoutVars>>
  BY <1>3, SalePayable
<1>4. CASE UNCHANGED <<posting, settlementVars, payoutVars>>
  <2>1. /\ IInv' /\ Ledger' /\ Owed' = Owed /\ PaidOut' = PaidOut
        /\ Moved({"sale"})' = Moved({"sale"}) /\ Returned' = Returned
    BY <1>4, NothingPosted
  <2>2. payout' = payout /\ collection' = collection /\ clearing' = clearing /\ returning' = returning
    BY <1>4 DEF payoutVars
  <2>3. PayoutsFit'
    BY <2>1, <2>2 DEF PayableInv, PayoutsFit
  <2>4. Accounted'
    BY <2>1, <2>2, PayoutsRest DEF PayableInv, Accounted, In, Brought, Confirmed
  <2> QED BY <2>1, <2>3, <2>4 DEF PayableInv
<1>5. QED
  BY <1>1, <1>2, <1>3, <1>4 DEF Next

(* Both engines' invariants hold in every interleaving of the two.          *)
THEOREM PayableInvariance == Spec => []PayableInv
<1>1. PayableInv /\ [Next]_<<posting, settlementVars, payoutVars>> => PayableInv'
  BY PayableStep
<1>2. QED
  BY <1>1, PayableAtFirst, PTL DEF Spec

(* The clearing account holds the payouts on their way or not yet given    *)
(* back, and the partner is owed the sales less the settlements and        *)
(* payouts made plus the collections confirmed: of whatever two engines    *)
(* post on one account, each move has its row, also when a process dies    *)
(* between the claim and the reversal (confirmPaid, markFailed, confirm,   *)
(* payFrom).                                                               *)
THEOREM MovesHaveRows == Spec => []EveryMoveHasItsRow
<1>1. PayableInv => EveryMoveHasItsRow
  BY AccountedIsTheProperty DEF PayableInv
<1>2. QED
  BY <1>1, PayableInvariance, PTL

(* The payout engine, which knows nothing of settlements, breaks none of   *)
(* what the settlement engine keeps on the account they share: a           *)
(* settlement is recorded once if it is paid, its attempts prove it, and   *)
(* the ledger agrees with the rows (payFrom, recordAttempt, createDraft).  *)
THEOREM SharedAccountIsSafe == Spec => [](PaidOnce /\ AttemptProvesPayment /\ LedgerAgrees)
<1>1. PayableInv => PaidOnce /\ AttemptProvesPayment /\ LedgerAgrees
  BY TrailOfBooks DEF PayableInv, IInv, Books, PaidOnce, Ledger
<1>2. QED
  BY <1>1, PayableInvariance, PTL

(* The two people are still needed beside the payout engine, which writes  *)
(* no settlement (confirmReconciliationOutcome).                           *)
THEOREM SharedDoubtTakesTwo == Spec => ResolvedByTwo
<1>1. PayableInv /\ [Next]_<<posting, settlementVars, payoutVars>> =>
        [\A s \in Settlement :
           row[s].is = Doubt /\ row'[s].is # Doubt =>
             /\ None \notin {row'[s].proposer, row'[s].confirmer}
             /\ row'[s].proposer # row'[s].confirmer
             /\ row'[s].reporter \notin {row'[s].proposer, row'[s].confirmer}]_<<posting, settlementVars>>
  <2>1. SUFFICES ASSUME PayableInv, Next, NEW s \in Settlement, row[s].is = Doubt, row'[s].is # Doubt
                 PROVE  /\ None \notin {row'[s].proposer, row'[s].confirmer}
                        /\ row'[s].proposer # row'[s].confirmer
                        /\ row'[s].reporter \notin {row'[s].proposer, row'[s].confirmer}
    OBVIOUS
  <2>2. row' # row
    BY <2>1
  <2>3. AccountNext
    BY <2>1, <2>2 DEF Next, AccountNext, SaleNext, settlementVars
  <2>4. QED
    BY <2>1, <2>3, DoubtTakesTwo DEF PayableInv
<1>2. QED
  BY <1>1, PayableInvariance, PTL DEF Spec, ResolvedByTwo
=============================================================================

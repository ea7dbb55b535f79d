----------------------------- MODULE BonusProofs -----------------------------
(***************************************************************************)
(* Proofs about a customer's bonus points.  DeferredLot: the liability     *)
(* follows the promise, a grant stands on turnover that is still there,    *)
(* and the turnover is what the later purchases contributed.  BonusWallet: *)
(* the counters agree with the lots and the reservations, no point is in   *)
(* two places, and a reservation ends once.                                *)
(***************************************************************************)
EXTENDS DeferredLot, BonusWallet, SumTheorems, TLAPS

-----------------------------------------------------------------------------
(* The deferred lot *)

LotType  == [status : {"DEFERRED", "AVAILABLE", "EXPIRED"}, refunded : 0..Amount,
             forfeited : 0..Amount, reclaimed : 0..Amount, progress : Int, granted : BOOLEAN]
Coins    == [left : Nat, held : Nat]
Reading  == [at : {"idle", "read", "confirmed"}, open : BOOLEAN, saw : Seen]

\* What a confirmation or the sweep has read was once the row, and a listed lot
\* had something left to grant.
Fits(saw) == saw.refunded + saw.forfeited <= Amount
SawsFit ==
  /\ \A p \in Purchase : Fits(confirm[p].saw) /\ (confirm[p].open => Rest(confirm[p].saw) > 0)
  /\ Fits(sweep.saw)

\* While the lot points to a grant, what is neither left nor held nor reclaimed
\* of it was spent or expired, and, unless a transaction acted on stale amounts,
\* the lot's remaining entitlement is that grant less what refunds reclaimed.
GrantBooks ==
  /\ lot.granted =>
       /\ lot.status = "AVAILABLE"
       /\ purse["live"].left + purse["live"].held + lot.reclaimed <= grant
       /\ stale \/ Rest(Snapshot) = grant - lot.reclaimed
  /\ ~lot.granted => purse["live"] = [left |-> 0, held |-> 0] /\ lot.reclaimed = 0

IInv == TypeOK /\ SawsFit /\ GrantBooks /\ BooksFollowThePromise

-----------------------------------------------------------------------------
(* The shape of the state *)

LEMMA Shape ==
  ASSUME TypeOK
  PROVE  /\ lot \in LotType /\ grant \in 0..Amount /\ liability \in Int /\ asked \in 0..Amount
         /\ purse["live"] \in Coins /\ purse["loose"] \in Coins /\ purse \in [Which -> Coins]
         /\ confirm \in [Purchase -> Reading] /\ sweep.saw \in Seen /\ sweep.listed \in BOOLEAN
         /\ Snapshot \in Seen /\ Fits(Snapshot) /\ Amount \in Nat
  BY Amounts DEF TypeOK, LotType, Coins, Which, Reading, Seen, Snapshot, Fits

LEMMA Detached ==
  ASSUME NEW r \in LotType, NEW n, n = [r EXCEPT !.granted = FALSE, !.reclaimed = 0]
  PROVE  /\ n \in LotType /\ ~n.granted /\ n.reclaimed = 0 /\ n.status = r.status
         /\ n.refunded = r.refunded /\ n.forfeited = r.forfeited
<1>1. n = [status |-> r.status, refunded |-> r.refunded, forfeited |-> r.forfeited,
           reclaimed |-> 0, progress |-> r.progress, granted |-> FALSE]
  BY DEF LotType
<1>2. 0 \in 0..Amount
  BY Amounts
<1> QED BY <1>1, <1>2 DEF LotType

LEMMA SmallerIs ==
  ASSUME NEW a \in Int, NEW b \in Int
  PROVE  /\ Smaller(a, b) \in Int /\ Smaller(a, b) <= a /\ Smaller(a, b) <= b
         /\ Smaller(a, b) = a \/ Smaller(a, b) = b
  BY DEF Smaller

\* The part of the invariant an action keeps when it touches only the turnover,
\* the contributions, the deadline and who is where.
LEMMA Frame ==
  ASSUME IInv, UNCHANGED <<grant, purse, liability, again, lapsed, stale>>,
         lot' = [lot EXCEPT !.progress = lot'.progress]
  PROVE  GrantBooks' /\ BooksFollowThePromise'
<1>1. /\ lot'.status = lot.status /\ lot'.refunded = lot.refunded
      /\ lot'.forfeited = lot.forfeited /\ lot'.reclaimed = lot.reclaimed
      /\ lot'.granted = lot.granted
  BY Shape DEF IInv, LotType
<1>2. Rest(Snapshot)' = Rest(Snapshot)
  BY <1>1 DEF Rest, Snapshot
<1>3. Owed' = Owed
  BY <1>1, <1>2 DEF Owed, InPurse, Promise
<1> QED BY <1>1, <1>2, <1>3 DEF IInv, GrantBooks, BooksFollowThePromise

-----------------------------------------------------------------------------
(* Init *)

LEMMA InitHolds == Init => IInv
<1> SUFFICES ASSUME Init PROVE IInv
  OBVIOUS
<1>1. TypeOK
  <2>1. /\ lot \in LotType /\ lot.refunded + lot.forfeited <= Amount
        /\ purse \in [Which -> Coins] /\ Nothing \in Seen
    BY Amounts DEF Init, LotType, Coins, Which, Nothing, Seen
  <2>2. confirm \in [Purchase -> Reading] /\ sweep \in [listed : BOOLEAN, saw : Seen]
    BY <2>1 DEF Init, Reading, Unread, NoSweep
  <2>3. given \in [Purchase -> {0, Gross}] /\ undone \in [Purchase -> 0..Gross]
    BY Amounts DEF Init
  <2>4. grant \in 0..Amount /\ liability \in Int /\ asked \in 0..Amount
    BY Amounts DEF Init
  <2> QED BY <2>1, <2>2, <2>3, <2>4 DEF Init, TypeOK, LotType, Coins, Reading
<1>2. SawsFit
  BY Amounts DEF Init, SawsFit, Fits, Unread, NoSweep, Nothing
<1>3. GrantBooks
  BY DEF Init, GrantBooks, Which
<1>4. BooksFollowThePromise
  BY Amounts DEF Init, BooksFollowThePromise, Owed, InPurse, Promise, Rest, Snapshot, Which
<1> QED BY <1>1, <1>2, <1>3, <1>4 DEF IInv

-----------------------------------------------------------------------------
(* Confirmations *)

LEMMA ConfirmReadStep ==
  ASSUME IInv, NEW p \in Purchase, ConfirmRead(p)
  PROVE  IInv'
<1>1. confirm' \in [Purchase -> Reading]
  BY Shape DEF IInv, ConfirmRead, Reading
<1>2. TypeOK'
  BY <1>1 DEF IInv, ConfirmRead, TypeOK, Reading, history
<1>3. SawsFit'
  <2>1. \A q \in Purchase : Fits(confirm'[q].saw) /\ (confirm'[q].open => Rest(confirm'[q].saw) > 0)
    BY Shape DEF IInv, ConfirmRead, SawsFit, Reading
  <2> QED BY <2>1 DEF IInv, ConfirmRead, SawsFit
<1>4. GrantBooks' /\ BooksFollowThePromise'
  BY Frame DEF ConfirmRead, history, IInv, TypeOK
<1> QED BY <1>2, <1>3, <1>4 DEF IInv

LEMMA ConfirmDiesStep ==
  ASSUME IInv, NEW p \in Purchase, ConfirmDies(p)
  PROVE  IInv'
<1>0. Unread \in Reading /\ Fits(Unread.saw) /\ ~Unread.open
  BY Amounts DEF Unread, Nothing, Reading, Seen, Fits
<1>1. TypeOK'
  BY <1>0 DEF IInv, ConfirmDies, TypeOK, Reading, history
<1>2. SawsFit'
  <2>1. \A q \in Purchase : Fits(confirm'[q].saw) /\ (confirm'[q].open => Rest(confirm'[q].saw) > 0)
    BY <1>0, Shape DEF IInv, ConfirmDies, SawsFit
  <2> QED BY <2>1 DEF IInv, ConfirmDies, SawsFit
<1>3. GrantBooks' /\ BooksFollowThePromise'
  BY Frame DEF ConfirmDies, history, IInv, TypeOK
<1> QED BY <1>1, <1>2, <1>3 DEF IInv

LEMMA ConfirmCommitStep ==
  ASSUME IInv, NEW p \in Purchase, ConfirmCommit(p)
  PROVE  IInv'
<1> DEFINE progress == lot.progress + Gross
           saw == confirm[p].saw
<1>0. progress \in Int /\ saw \in Seen /\ Fits(saw) /\ Rest(saw) \in 0..Amount
  BY Shape, Amounts DEF IInv, SawsFit, LotType, Reading, Seen, Fits, Rest
<1>1. confirm' \in [Purchase -> Reading] /\ SawsFit'
  <2>1. Confirmed \in Reading /\ Fits(Confirmed.saw) /\ ~Confirmed.open
    BY Amounts DEF Confirmed, Nothing, Reading, Seen, Fits
  <2>2. confirm' \in [Purchase -> Reading]
    BY <2>1, Shape DEF IInv, ConfirmCommit
  <2>3. \A q \in Purchase : Fits(confirm'[q].saw) /\ (confirm'[q].open => Rest(confirm'[q].saw) > 0)
    BY <2>1, Shape DEF IInv, ConfirmCommit, SawsFit
  <2> QED BY <2>2, <2>3 DEF IInv, ConfirmCommit, SawsFit
<1>2. given' \in [Purchase -> {0, Gross}]
  BY DEF IInv, TypeOK, ConfirmCommit
<1>3. CASE confirm[p].open /\ Unlock(p, progress) /\ lot.status = "DEFERRED"
  <2>1. /\ lot'.status = "AVAILABLE" /\ lot'.granted /\ lot'.refunded = lot.refunded
        /\ lot'.forfeited = lot.forfeited /\ lot'.reclaimed = lot.reclaimed
        /\ lot' \in LotType /\ ~lot.granted
    BY <1>0, <1>3, Shape DEF IInv, Unlock, LotType, GrantBooks
  <2>2. /\ purse["live"].left = 0 /\ purse["live"].held = 0 /\ lot.reclaimed = 0
    BY <2>1 DEF IInv, GrantBooks
  <2>3. /\ purse'["live"] = [left |-> Rest(saw), held |-> 0] /\ purse'["loose"] = purse["loose"]
        /\ purse' \in [Which -> Coins] /\ grant' = Rest(saw)
    BY <1>0, <1>3, <2>2, Shape DEF IInv, Unlock, Coins, Which
  <2>4. TypeOK'
    BY <1>0, <1>1, <1>2, <1>3, <2>1, <2>3, Shape DEF IInv, TypeOK, ConfirmCommit, Unlock, LotType, Coins, Reading
  <2>5. ~stale' => ~stale /\ Rest(saw) = Rest(Snapshot)
    BY <1>3 DEF Unlock
  <2>6. Rest(Snapshot)' = Rest(Snapshot) /\ Rest(Snapshot) \in Int
    BY <2>1, Shape DEF IInv, Rest, Snapshot, Seen
  <2>7. GrantBooks'
    BY <1>0, <2>1, <2>2, <2>3, <2>5, <2>6, Shape DEF GrantBooks
  <2>8. ~stale' => Owed' = Owed
    BY <1>0, <1>3, <2>1, <2>2, <2>3, <2>5, <2>6, Shape DEF IInv, Owed, InPurse, Promise, Coins
  <2>9. BooksFollowThePromise'
    BY <2>5, <2>8 DEF IInv, BooksFollowThePromise, ConfirmCommit
  <2> QED BY <1>1, <2>4, <2>7, <2>9 DEF IInv
<1>4. CASE lot' = [lot EXCEPT !.progress = progress] /\ UNCHANGED <<grant, purse, stale>>
  <2>1. lot' \in LotType /\ lot'.progress = progress
        /\ lot'.refunded = lot.refunded /\ lot'.forfeited = lot.forfeited
    BY <1>0, <1>4, Shape DEF IInv, LotType
  <2>2. GrantBooks' /\ BooksFollowThePromise'
    BY <1>4, <2>1, Frame DEF ConfirmCommit
  <2>3. TypeOK'
    BY <1>1, <1>2, <1>4, <2>1 DEF IInv, TypeOK, ConfirmCommit, LotType, Reading
  <2> QED BY <1>1, <2>2, <2>3 DEF IInv
<1>5. CASE UNCHANGED <<lot, grant, purse, given, stale>>
  <2>1. GrantBooks' /\ BooksFollowThePromise'
    BY <1>5, Frame DEF ConfirmCommit, IInv, TypeOK
  <2>2. TypeOK'
    BY <1>1, <1>5 DEF IInv, TypeOK, ConfirmCommit, Reading
  <2> QED BY <1>1, <2>1, <2>2 DEF IInv
<1> QED BY <1>3, <1>4, <1>5 DEF ConfirmCommit

-----------------------------------------------------------------------------
(* Refunds *)

LEMMA RefundOwnStep ==
  ASSUME IInv, NEW share \in 1..Amount, RefundOwn(share)
  PROVE  IInv'
<1> DEFINE ceiling == Rest(Snapshot)
           reduceBy == Smaller(share, ceiling)
           actual == IF lot.granted THEN Smaller(reduceBy, purse["live"].left) ELSE 0
           live == [purse["live"] EXCEPT !.left = @ - actual]
           cut == [lot EXCEPT !.refunded = @ + reduceBy]
<1>0. share \in Nat /\ ceiling \in 0..Amount
      /\ ceiling = Amount - lot.refunded - lot.forfeited
  BY Shape DEF IInv, Seen, Fits, Rest, Snapshot
<1>1. SawsFit'
  BY DEF IInv, SawsFit, RefundOwn
<1>2. asked' \in 0..Amount
  BY <1>0, Shape DEF IInv, RefundOwn
<1>3. CASE UNCHANGED <<lot, purse, liability>>
  <2>1. GrantBooks' /\ BooksFollowThePromise'
    BY <1>3, Frame DEF RefundOwn, history, IInv, TypeOK
  <2> QED BY <1>1, <1>2, <1>3, <2>1 DEF IInv, TypeOK, RefundOwn, history
<1>4. ASSUME lot.status \in {"DEFERRED", "AVAILABLE"}, ceiling > 0
      PROVE  /\ reduceBy \in 1..ceiling
             /\ cut \in LotType /\ cut.status = lot.status
             /\ cut.refunded = lot.refunded + reduceBy /\ cut.forfeited = lot.forfeited
             /\ cut.refunded + cut.forfeited <= Amount
             /\ cut.granted = lot.granted /\ cut.reclaimed = lot.reclaimed
  <2>1. reduceBy \in 1..ceiling
    BY <1>0, <1>4 DEF Smaller
  <2> HIDE DEF reduceBy
  <2>2. cut \in LotType /\ cut.refunded = lot.refunded + reduceBy
    BY <1>0, <2>1, Shape DEF IInv, LotType, Seen
  <2> QED BY <1>0, <2>1, <2>2, Shape DEF IInv, LotType
<1>5. CASE lot.status = "DEFERRED" /\ ceiling > 0 /\ lot' = cut
           /\ liability' = liability - reduceBy /\ UNCHANGED purse
  <2>1. ~lot.granted
    BY <1>5 DEF IInv, GrantBooks
  <2>2. GrantBooks'
    BY <1>4, <1>5, <2>1 DEF IInv, GrantBooks
  <2>3. Rest(Snapshot)' = ceiling - reduceBy
    BY <1>0, <1>4, <1>5, Shape DEF IInv, Rest, Snapshot, LotType, Seen
  <2>4. Owed' = Owed - reduceBy
    BY <1>0, <1>4, <1>5, <2>3, Shape DEF IInv, Owed, InPurse, Promise, Coins
  <2>5. BooksFollowThePromise'
    BY <1>4, <1>5, <2>4, <1>0, Shape DEF IInv, BooksFollowThePromise, RefundOwn, history, TypeOK,
       Owed, InPurse, Promise, Coins
  <2>6. TypeOK'
    BY <1>0, <1>2, <1>4, <1>5 DEF IInv, TypeOK, RefundOwn, history, LotType
  <2> QED BY <1>1, <2>2, <2>5, <2>6 DEF IInv
<1>6. CASE lot.status = "AVAILABLE" /\ ceiling > 0 /\ ~lot.granted /\ lot' = cut
           /\ UNCHANGED <<purse, liability>>
  <2>1. GrantBooks'
    BY <1>4, <1>6 DEF IInv, GrantBooks
  <2>2. Owed' = Owed
    BY <1>4, <1>6 DEF Owed, InPurse, Promise
  <2>3. BooksFollowThePromise'
    BY <1>6, <2>2 DEF IInv, BooksFollowThePromise, RefundOwn, history
  <2>4. TypeOK'
    BY <1>0, <1>2, <1>4, <1>6 DEF IInv, TypeOK, RefundOwn, history, LotType
  <2> QED BY <1>1, <2>1, <2>3, <2>4 DEF IInv
<1>7. CASE /\ lot.status = "AVAILABLE" /\ ceiling > 0 /\ lot.granted
           /\ liability' = liability - actual
           /\ \/ live.left = 0 /\ lot' = [cut EXCEPT !.granted = FALSE, !.reclaimed = 0]
                               /\ LetGo(live)
              \/ live.left > 0 /\ lot' = [cut EXCEPT !.reclaimed = @ + actual]
                               /\ purse' = [purse EXCEPT !["live"] = live]
  <2>1. /\ actual \in 0..reduceBy /\ actual <= purse["live"].left
        /\ actual = reduceBy \/ actual = purse["live"].left
    BY <1>0, <1>4, <1>7, Shape DEF IInv, Coins, Smaller
  <2> HIDE DEF actual
  <2>2. /\ live \in Coins /\ live.left = purse["live"].left - actual
        /\ live.held = purse["live"].held
    BY <1>4, <1>7, <2>1, Shape DEF IInv, Coins
  <2>3. /\ purse["live"].left + purse["live"].held + lot.reclaimed <= grant
        /\ stale \/ ceiling = grant - lot.reclaimed
    BY <1>7 DEF IInv, GrantBooks
  <2> HIDE DEF live, cut, reduceBy
  <2>4. /\ purse["live"].left \in Nat /\ purse["live"].held \in Nat
        /\ purse["loose"].left \in Nat /\ purse["loose"].held \in Nat
        /\ lot.reclaimed \in 0..Amount /\ grant \in 0..Amount /\ liability \in Int
    BY Shape DEF IInv, Coins, LotType
  <2>c. /\ cut \in LotType /\ cut.status = "AVAILABLE" /\ cut.refunded = lot.refunded + reduceBy
        /\ cut.forfeited = lot.forfeited /\ cut.refunded + cut.forfeited <= Amount
        /\ cut.granted /\ cut.reclaimed = lot.reclaimed
        /\ reduceBy \in 1..ceiling
    BY <1>4, <1>7
  <2>5. CASE live.left = 0 /\ lot' = [cut EXCEPT !.granted = FALSE, !.reclaimed = 0]
             /\ LetGo(live)
    <3>1. /\ lot' \in LotType /\ lot'.status = "AVAILABLE" /\ ~lot'.granted
          /\ lot'.reclaimed = 0 /\ lot'.refunded + lot'.forfeited <= Amount
      BY <2>c, <2>5, Detached
    <3>2. /\ purse'["live"] = [left |-> 0, held |-> 0]
          /\ purse'["loose"] = [left |-> purse["loose"].left, held |-> purse["loose"].held + live.held]
          /\ purse' \in [Which -> Coins]
      BY <2>2, <2>4, <2>5 DEF LetGo, Which, Coins
    <3>3. GrantBooks'
      BY <3>1, <3>2 DEF GrantBooks
    <3>4. Owed' = Owed - actual
      BY <1>7, <2>1, <2>2, <2>4, <2>5, <3>1, <3>2 DEF Owed, InPurse, Promise
    <3>5. BooksFollowThePromise'
      BY <1>4, <1>7, <2>1, <2>4, <3>4 DEF IInv, BooksFollowThePromise, RefundOwn, history, TypeOK,
         Owed, InPurse, Promise
    <3>6. TypeOK'
      BY <1>2, <1>4, <1>7, <2>1, <2>4, <3>1, <3>2
         DEF IInv, TypeOK, RefundOwn, history, LotType, Coins
    <3> QED BY <1>1, <3>3, <3>5, <3>6 DEF IInv
  <2>6. CASE live.left > 0 /\ lot' = [cut EXCEPT !.reclaimed = @ + actual]
             /\ purse' = [purse EXCEPT !["live"] = live]
    <3>1. actual = reduceBy
      BY <2>1, <2>2, <2>4, <2>6
    <3>2. /\ lot'.status = "AVAILABLE" /\ lot'.granted /\ lot'.reclaimed = lot.reclaimed + actual
          /\ lot'.refunded = lot.refunded + reduceBy /\ lot'.forfeited = lot.forfeited
          /\ lot' \in LotType /\ lot'.refunded + lot'.forfeited <= Amount
      <4>1. lot.reclaimed + actual \in 0..Amount
        BY <2>1, <2>2, <2>3, <2>4, <2>6, <2>c, Amounts
      <4> QED BY <2>c, <2>6, <4>1, Amounts DEF LotType
    <3>3. /\ purse'["live"] = live /\ purse'["loose"] = purse["loose"]
          /\ purse' \in [Which -> Coins]
      BY <2>2, <2>6, Shape DEF IInv, Which
    <3>4. Rest(Snapshot)' = ceiling - reduceBy
      BY <1>0, <1>4, <1>7, <3>2, Shape DEF IInv, Rest, Snapshot, LotType, Seen
    <3>5. GrantBooks'
      <4>1. grant' = grant /\ stale' = stale
        BY <1>4 DEF RefundOwn, history
      <4>2. purse'["live"].left + purse'["live"].held + lot'.reclaimed <= grant'
        BY <2>1, <2>2, <2>3, <2>4, <3>1, <3>2, <3>3, <4>1
      <4>3. stale' \/ Rest(Snapshot)' = grant' - lot'.reclaimed
        <5>1. CASE stale
          BY <4>1, <5>1
        <5>2. CASE ceiling = grant - lot.reclaimed
          <6>1. ceiling - reduceBy = grant - (lot.reclaimed + actual)
            BY <2>1, <2>4, <3>1, <5>2, Amounts
          <6> QED BY <3>2, <3>4, <4>1, <6>1
        <5> QED BY <2>3, <5>1, <5>2
      <4> QED BY <3>2, <4>2, <4>3 DEF GrantBooks
    <3>6. Owed' = Owed - actual
      <4>1. /\ purse'["live"].left = purse["live"].left - actual
            /\ purse'["live"].held = purse["live"].held /\ purse'["loose"] = purse["loose"]
        BY <2>2, <3>3
      <4>2. actual \in Int
        BY <2>1
      <4>3. lot'.status = "AVAILABLE"
        BY <3>2
      <4> QED BY <1>7, <2>4, <4>1, <4>2, <4>3 DEF Owed, InPurse, Promise
    <3>7. BooksFollowThePromise'
      BY <1>4, <1>7, <2>1, <2>4, <3>6 DEF IInv, BooksFollowThePromise, RefundOwn, history, TypeOK,
         Owed, InPurse, Promise
    <3>8. TypeOK'
      BY <1>2, <1>4, <1>7, <2>1, <2>4, <3>2, <3>3
         DEF IInv, TypeOK, RefundOwn, history, LotType, Coins
    <3> QED BY <1>1, <3>5, <3>7, <3>8 DEF IInv
  <2> QED BY <1>7, <2>5, <2>6
<1> QED BY <1>3, <1>5, <1>6, <1>7 DEF RefundOwn

LEMMA ReverseUnlockStep ==
  ASSUME IInv, NEW progress \in Int, lot.status = "AVAILABLE", lot.granted,
         ReverseUnlock(progress), UNCHANGED <<grant, lapsed, stale>>
  PROVE  /\ lot' \in LotType /\ lot'.refunded + lot'.forfeited <= Amount
         /\ purse' \in [Which -> Coins] /\ liability' \in Int /\ again' \in Nat
         /\ GrantBooks' /\ BooksFollowThePromise'
<1> DEFINE gone == grant - purse["live"].left - lot.reclaimed
           spent == IF gone > 0 THEN gone ELSE 0
           live == [purse["live"] EXCEPT !.left = 0]
<1>1. /\ purse["live"].left \in Nat /\ purse["live"].held \in Nat
      /\ purse["loose"].left \in Nat /\ purse["loose"].held \in Nat
      /\ lot.reclaimed \in 0..Amount /\ grant \in 0..Amount /\ liability \in Int
      /\ lot.refunded \in 0..Amount /\ lot.forfeited \in 0..Amount /\ Amount \in Nat
      /\ again \in Nat /\ lapsed \in Nat /\ stale \in BOOLEAN
  BY Shape DEF IInv, TypeOK, Coins, LotType
<1>2. /\ purse["live"].left + purse["live"].held + lot.reclaimed <= grant
      /\ stale \/ Rest(Snapshot) = grant - lot.reclaimed
  BY DEF IInv, GrantBooks
<1>3. spent = gone /\ spent \in Nat
  BY <1>1, <1>2
<1>4. /\ lot.refunded + lot.forfeited + spent <= Amount
      /\ lot' = [lot EXCEPT !.progress = progress, !.status = "DEFERRED", !.granted = FALSE,
                            !.reclaimed = 0, !.forfeited = @ + spent]
      /\ liability' = liability - spent /\ again' = again + spent /\ LetGo(live)
  BY DEF ReverseUnlock
<1>5. live.left = 0 /\ live.held = purse["live"].held
  BY Shape DEF IInv, Coins
<1> HIDE DEF live, spent
<1>6. lot' = [status |-> "DEFERRED", refunded |-> lot.refunded, forfeited |-> lot.forfeited + spent,
              reclaimed |-> 0, progress |-> progress, granted |-> FALSE]
  BY <1>4, Shape DEF IInv, LotType
<1>7. lot' \in LotType /\ lot'.refunded + lot'.forfeited <= Amount
  <2>1. lot.forfeited + spent \in 0..Amount /\ 0 \in 0..Amount
    BY <1>1, <1>3, <1>4
  <2>2. lot' \in LotType
    BY <1>1, <1>6, <2>1 DEF LotType
  <2>3. lot'.refunded = lot.refunded /\ lot'.forfeited = lot.forfeited + spent
    BY <1>6
  <2> QED BY <1>1, <1>3, <1>4, <2>2, <2>3
<1>8. /\ purse'["live"] = [left |-> 0, held |-> 0]
      /\ purse'["loose"] = [left |-> purse["loose"].left, held |-> purse["loose"].held + live.held]
      /\ purse' \in [Which -> Coins]
  BY <1>1, <1>4, <1>5 DEF LetGo, Which, Coins
<1>9. GrantBooks'
  BY <1>6, <1>8 DEF GrantBooks
<1>10. stale \/ Owed' = purse["live"].left + purse["live"].held
                        + purse["loose"].left + purse["loose"].held
  <2>1. Rest(Snapshot)' = Rest(Snapshot) - spent
    BY <1>1, <1>3, <1>6 DEF Rest, Snapshot
  <2>2. Promise' = Rest(Snapshot)'
    BY <1>6 DEF Promise
  <2>3. stale \/ Rest(Snapshot)' = purse["live"].left
    BY <1>1, <1>2, <1>3, <2>1
  <2>4. InPurse' = purse["live"].held + purse["loose"].left + purse["loose"].held
    BY <1>1, <1>5, <1>8 DEF InPurse
  <2> QED BY <1>1, <2>2, <2>3, <2>4 DEF Owed
<1>11. Owed = purse["live"].left + purse["live"].held + purse["loose"].left + purse["loose"].held
  BY <1>1 DEF Owed, InPurse, Promise
<1>12. BooksFollowThePromise'
  BY <1>1, <1>3, <1>4, <1>10, <1>11 DEF IInv, BooksFollowThePromise
<1> QED BY <1>1, <1>3, <1>4, <1>7, <1>8, <1>9, <1>12

LEMMA RefundLaterStep ==
  ASSUME IInv, NEW p \in Purchase, NEW n \in 1..Gross, RefundLater(p, n)
  PROVE  IInv'
<1> DEFINE progress == lot.progress - n
<1>1. progress \in Int /\ n \in 1..(given[p] - undone[p])
  BY Shape, Amounts DEF IInv, LotType, RefundLater
<1>2. undone' \in [Purchase -> 0..Gross]
  <2>1. given[p] \in {0, Gross} /\ undone[p] \in 0..Gross /\ Gross \in Nat
    BY Amounts DEF IInv, TypeOK
  <2>2. undone[p] + n \in 0..Gross
    BY <1>1, <2>1
  <2> QED BY <2>2 DEF IInv, TypeOK, RefundLater
<1>3. SawsFit'
  BY DEF IInv, SawsFit, RefundLater
<1>4. CASE lot.status = "AVAILABLE" /\ lot.granted /\ ReverseUnlock(progress)
  <2>1. /\ lot' \in LotType /\ lot'.refunded + lot'.forfeited <= Amount
        /\ purse' \in [Which -> Coins] /\ liability' \in Int /\ again' \in Nat
        /\ GrantBooks' /\ BooksFollowThePromise'
    BY <1>1, <1>4, ReverseUnlockStep DEF RefundLater
  <2>2. TypeOK'
    BY <1>2, <2>1 DEF IInv, TypeOK, RefundLater, LotType, Coins
  <2> QED BY <1>3, <2>1, <2>2 DEF IInv
<1>5. CASE lot' = [lot EXCEPT !.progress = progress] /\ UNCHANGED <<purse, liability, again>>
  <2>1. /\ lot' \in LotType /\ lot'.progress = progress
        /\ lot'.refunded = lot.refunded /\ lot'.forfeited = lot.forfeited
    BY <1>1, <1>5, Shape DEF IInv, LotType
  <2>2. GrantBooks' /\ BooksFollowThePromise'
    BY <1>5, <2>1, Frame DEF RefundLater
  <2>3. TypeOK'
    BY <1>2, <1>5, <2>1 DEF IInv, TypeOK, RefundLater, LotType
  <2> QED BY <1>3, <2>2, <2>3 DEF IInv
<1> QED BY <1>4, <1>5 DEF RefundLater

-----------------------------------------------------------------------------
(* The deadline *)

LEMMA DeadlineStep ==
  ASSUME IInv, DeadlinePasses \/ SweepList \/ SweepDies
  PROVE  IInv'
<1>0. /\ NoSweep \in [listed : BOOLEAN, saw : Seen] /\ Fits(NoSweep.saw)
      /\ [listed |-> TRUE, saw |-> Snapshot] \in [listed : BOOLEAN, saw : Seen]
      /\ Fits(Snapshot)
  BY Amounts, Shape DEF IInv, NoSweep, Nothing, Seen, Fits
<1>1. SawsFit'
  BY <1>0 DEF IInv, SawsFit, DeadlinePasses, SweepList, SweepDies
<1>2. GrantBooks' /\ BooksFollowThePromise'
  BY Frame DEF DeadlinePasses, SweepList, SweepDies, history, IInv, TypeOK
<1>3. TypeOK'
  BY <1>0 DEF IInv, TypeOK, DeadlinePasses, SweepList, SweepDies, history
<1> QED BY <1>1, <1>2, <1>3 DEF IInv

LEMMA SweepExpireStep ==
  ASSUME IInv, SweepExpire
  PROVE  IInv'
<1>0. NoSweep \in [listed : BOOLEAN, saw : Seen] /\ Fits(NoSweep.saw)
  BY Amounts DEF NoSweep, Nothing, Seen, Fits
<1>1. SawsFit'
  BY <1>0 DEF IInv, SawsFit, SweepExpire
<1>2. CASE UNCHANGED <<lot, liability, stale>>
  <2>1. GrantBooks' /\ BooksFollowThePromise'
    BY <1>2, Frame DEF SweepExpire, IInv, TypeOK
  <2>2. TypeOK'
    BY <1>0, <1>2 DEF IInv, TypeOK, SweepExpire
  <2> QED BY <1>1, <2>1, <2>2 DEF IInv
<1>3. CASE /\ lot.status = "DEFERRED" /\ lot' = [lot EXCEPT !.status = "EXPIRED"]
           /\ liability' = liability - Rest(sweep.saw)
           /\ stale' = (stale \/ sweep.saw # Snapshot)
  <2>1. /\ lot' \in LotType /\ lot'.status = "EXPIRED" /\ lot'.granted = lot.granted
        /\ lot'.reclaimed = lot.reclaimed /\ ~lot.granted
        /\ lot'.refunded = lot.refunded /\ lot'.forfeited = lot.forfeited
    BY <1>3, Shape DEF IInv, LotType, GrantBooks
  <2>2. Rest(sweep.saw) \in Int /\ liability \in Int /\ InPurse \in Int
    BY Shape DEF IInv, Rest, Seen, InPurse, Coins
  <2>3. TypeOK'
    BY <1>0, <1>3, <2>1, <2>2 DEF IInv, TypeOK, SweepExpire, LotType
  <2>4. GrantBooks'
    BY <2>1 DEF IInv, GrantBooks, SweepExpire
  <2>5. ~stale' => ~stale /\ Rest(sweep.saw) = Rest(Snapshot)
    BY <1>3 DEF IInv, TypeOK
  <2>6. Owed = InPurse + Rest(Snapshot) /\ Owed' = InPurse
    BY <1>3, <2>1, <2>2 DEF Owed, Promise, InPurse, SweepExpire
  <2>7. BooksFollowThePromise'
    BY <1>3, <2>2, <2>5, <2>6 DEF IInv, BooksFollowThePromise, SweepExpire, TypeOK
  <2> QED BY <1>1, <2>3, <2>4, <2>7 DEF IInv
<1> QED BY <1>2, <1>3 DEF SweepExpire

-----------------------------------------------------------------------------
(* The customer's points *)

LEMMA PurseStepHolds ==
  ASSUME IInv, NEW w \in Which, PurseStep(w)
  PROVE  IInv'
<1>0. /\ purse["live"].left \in Nat /\ purse["live"].held \in Nat
      /\ purse["loose"].left \in Nat /\ purse["loose"].held \in Nat
      /\ purse[w] \in Coins /\ liability \in Int /\ lapsed \in Nat /\ again \in Nat
      /\ lot.reclaimed \in 0..Amount /\ grant \in 0..Amount
      /\ lot.refunded \in 0..Amount /\ lot.forfeited \in 0..Amount /\ Amount \in Nat
  BY Shape DEF IInv, TypeOK, Coins, Which, LotType
<1>1. /\ SawsFit' /\ Rest(Snapshot)' = Rest(Snapshot) /\ Promise' = Promise
      /\ Promise \in Int /\ lot' = lot /\ grant' = grant /\ stale' = stale /\ again' = again
  BY <1>0 DEF IInv, SawsFit, PurseStep, Hold, GiveBack, Redeem, PointsExpire, history, Rest,
     Snapshot, Promise
<1> DEFINE l == purse'[w].left
           h == purse'[w].held
<1>2. /\ purse'[w] = [left |-> l, held |-> h] /\ l \in Nat /\ h \in Nat
      /\ purse' = [purse EXCEPT ![w] = [left |-> l, held |-> h]]
      /\ purse[w].left + purse[w].held > 0
      /\ l + h <= purse[w].left + purse[w].held
      /\ liability' - lapsed' = liability - lapsed - (purse[w].left + purse[w].held - l - h)
      /\ liability' \in Int /\ lapsed' \in Nat
  <2>0. purse \in [Which -> Coins] /\ purse[w].left \in Nat /\ purse[w].held \in Nat
    BY <1>0, Shape DEF IInv, Coins
  <2>1. CASE Hold(w)
    <3>1. /\ purse' = [purse EXCEPT ![w] = [left |-> purse[w].left - 1, held |-> purse[w].held + 1]]
          /\ purse[w].left > 0 /\ liability' = liability /\ lapsed' = lapsed
      BY <2>1 DEF Hold, history
    <3>2. l = purse[w].left - 1 /\ h = purse[w].held + 1
      BY <2>0, <3>1
    <3> QED BY <1>0, <2>0, <3>1, <3>2
  <2>2. CASE GiveBack(w)
    <3>1. /\ purse' = [purse EXCEPT ![w] = [left |-> purse[w].left + 1, held |-> purse[w].held - 1]]
          /\ purse[w].held > 0 /\ liability' = liability /\ lapsed' = lapsed
      BY <2>2 DEF GiveBack, history
    <3>2. l = purse[w].left + 1 /\ h = purse[w].held - 1
      BY <2>0, <3>1
    <3> QED BY <1>0, <2>0, <3>1, <3>2
  <2>3. CASE Redeem(w)
    <3>1. /\ purse' = [purse EXCEPT ![w] = [left |-> purse[w].left, held |-> purse[w].held - 1]]
          /\ purse[w].held > 0 /\ liability' = liability - 1 /\ lapsed' = lapsed
      BY <2>3 DEF Redeem, history
    <3>2. l = purse[w].left /\ h = purse[w].held - 1
      BY <2>0, <3>1
    <3> QED BY <1>0, <2>0, <3>1, <3>2
  <2>4. CASE PointsExpire(w)
    <3>1. /\ purse' = [purse EXCEPT ![w] = [left |-> 0, held |-> purse[w].held]]
          /\ purse[w].left > 0 /\ liability' = liability /\ lapsed' = lapsed + purse[w].left
      BY <2>4 DEF PointsExpire
    <3>2. l = 0 /\ h = purse[w].held
      BY <2>0, <3>1
    <3> QED BY <1>0, <2>0, <3>1, <3>2
  <2> QED BY <2>1, <2>2, <2>3, <2>4 DEF PurseStep
<1> HIDE DEF l, h
<1>3. /\ purse' \in [Which -> Coins]
      /\ \A v \in Which \ {w} : purse'[v] = purse[v]
  BY <1>2, Shape DEF IInv, Coins
<1>4. TypeOK'
  BY <1>2, <1>3 DEF IInv, TypeOK, Coins, PurseStep, Hold, GiveBack, Redeem, PointsExpire, history
<1> DEFINE v == IF w = "live" THEN "loose" ELSE "live"
           rest == purse[v].left + purse[v].held
           before == purse[w].left + purse[w].held + rest + Promise
           after == l + h + rest + Promise
<1>5. rest \in Int /\ purse'[v] = purse[v] /\ before \in Int /\ after \in Int
  BY <1>0, <1>1, <1>2, <1>3 DEF Which, Coins
<1>6. Owed = before
  BY <1>0, <1>1 DEF Owed, InPurse, Which, Coins
<1>7. Owed' = after
  <2>1. /\ l = purse'[w].left /\ h = purse'[w].held
        /\ purse'[v].left = purse[v].left /\ purse'[v].held = purse[v].held
    BY <1>2, <1>5
  <2>2. purse[v].left \in Nat /\ purse[v].held \in Nat
    BY <1>0 DEF Which
  <2>3. /\ w = "live" => purse'["live"] = purse'[w] /\ purse'["loose"] = purse[v]
        /\ w = "loose" => purse'["loose"] = purse'[w] /\ purse'["live"] = purse[v]
    BY <1>5
  <2>4. CASE w = "live"
    BY <1>0, <1>1, <1>2, <2>1, <2>2, <2>3, <2>4
       DEF Owed, InPurse, Promise, Rest, Snapshot
  <2>5. CASE w = "loose"
    BY <1>0, <1>1, <1>2, <2>1, <2>2, <2>3, <2>5
       DEF Owed, InPurse, Promise, Rest, Snapshot
  <2> QED BY <2>4, <2>5 DEF Which
<1>8. liability' - lapsed' = liability - lapsed - (before - after)
  BY <1>0, <1>1, <1>2, <1>5 DEF Coins
<1>9. BooksFollowThePromise'
  <2>1. CASE stale
    BY <1>1, <2>1 DEF BooksFollowThePromise
  <2>2. CASE liability = before - again + lapsed
    <3>1. liability' = after - again + lapsed'
      <4>1. PICK b \in Int, a \in Int, l1 \in Int, l2 \in Int, t1 \in Int, t2 \in Int :
              /\ b = before /\ a = after
              /\ l1 = liability /\ l2 = liability' /\ t1 = lapsed /\ t2 = lapsed'
        BY <1>0, <1>2, <1>5
      <4>2. l2 - t2 = l1 - t1 - (b - a) /\ l1 = b - again + t1
        BY <1>8, <2>2, <4>1
      <4>3. l2 = a - again + t2
        BY <1>0, <4>2
      <4> QED BY <4>1, <4>3
    <3> QED BY <1>1, <1>7, <3>1 DEF BooksFollowThePromise
  <2> QED BY <1>6, <2>1, <2>2 DEF IInv, BooksFollowThePromise
<1>10. GrantBooks'
  <2>1. CASE w = "live"
    <3>1. lot.granted
      BY <1>0, <1>2, <2>1 DEF IInv, GrantBooks
    <3> QED BY <1>0, <1>1, <1>2, <2>1, <3>1 DEF IInv, GrantBooks
  <2>2. CASE w = "loose"
    <3>1. purse'["live"] = purse["live"]
      BY <1>3, <2>2 DEF Which
    <3> QED BY <1>1, <3>1 DEF IInv, GrantBooks
  <2> QED BY <2>1, <2>2 DEF Which
<1> QED BY <1>1, <1>4, <1>9, <1>10 DEF IInv

-----------------------------------------------------------------------------
LEMMA NextHolds == IInv /\ [Next]_vars => IInv'
<1> SUFFICES ASSUME IInv, [Next]_vars PROVE IInv'
  OBVIOUS
<1>1. CASE \E p \in Purchase : ConfirmStep(p)
  BY <1>1, ConfirmReadStep, ConfirmCommitStep, ConfirmDiesStep DEF ConfirmStep
<1>2. CASE RefundStep
  BY <1>2, RefundOwnStep, RefundLaterStep DEF RefundStep
<1>3. CASE DeadlinePasses \/ SweepStep
  BY <1>3, DeadlineStep, SweepExpireStep DEF SweepStep
<1>4. CASE \E w \in Which : PurseStep(w)
  BY <1>4, PurseStepHolds
<1>5. CASE UNCHANGED vars
  <2>1. SawsFit' /\ TypeOK'
    BY <1>5 DEF IInv, vars, SawsFit, TypeOK
  <2>2. GrantBooks' /\ BooksFollowThePromise'
    BY <1>5, Frame DEF vars, IInv, TypeOK
  <2> QED BY <2>1, <2>2 DEF IInv
<1> QED BY <1>1, <1>2, <1>3, <1>4, <1>5 DEF Next

\* The inductive invariant.
THEOREM Invariance == Spec => []IInv
<1> QED BY InitHolds, NextHolds, PTL DEF Spec

\* For every amount, threshold and set of later purchases, refunds and
\* write-offs together stay within the lot's amount (the CHECK on the row).
THEOREM TypeCorrect == Spec => []TypeOK
<1>1. IInv => TypeOK
  BY DEF IInv
<1> QED BY <1>1, Invariance, PTL

\* For every amount, threshold and set of later purchases, BONUS_LIABILITY
\* carries what the customer can still be paid out of the lot, corrected by
\* what reverseUnlock released and what expired in the wallet.
THEOREM LiabilityIsRight == Spec => []BooksFollowThePromise
<1>1. IInv => BooksFollowThePromise
  BY DEF IInv
<1> QED BY <1>1, Invariance, PTL

-----------------------------------------------------------------------------
LEMMA GrantStandsStep ==
  ASSUME IInv, GrantStandsOnTurnover, [Next]_vars
  PROVE  GrantStandsOnTurnover'
<1>0. lot \in LotType
  BY Shape DEF IInv
<1>1. CASE lot' = lot
  BY <1>1 DEF GrantStandsOnTurnover
<1>2. ASSUME NEW p \in Purchase, ConfirmCommit(p)
      PROVE  GrantStandsOnTurnover'
  <2>0. Gross \in Nat /\ lot.progress \in Int /\ Required \in Nat
    BY <1>0, Amounts DEF LotType
  <2>1. CASE Unlock(p, lot.progress + Gross) /\ lot.progress + Gross >= Required
    <3>1. lot' = [lot EXCEPT !.progress = lot.progress + Gross, !.status = "AVAILABLE",
                             !.granted = TRUE]
      BY <2>1 DEF Unlock
    <3> QED BY <1>0, <2>1, <3>1 DEF GrantStandsOnTurnover, LotType
  <2>2. CASE lot' = [lot EXCEPT !.progress = lot.progress + Gross]
    <3>1. /\ lot'.granted = lot.granted /\ lot'.status = lot.status
          /\ lot'.progress = lot.progress + Gross
      BY <1>0, <2>2 DEF LotType
    <3> QED BY <2>0, <3>1 DEF GrantStandsOnTurnover
  <2> QED BY <1>1, <1>2, <2>1, <2>2 DEF ConfirmCommit
<1>3. ASSUME NEW share \in 1..Amount, RefundOwn(share)
      PROVE  GrantStandsOnTurnover'
  <2> DEFINE reduceBy == Smaller(share, Rest(Snapshot))
             actual == IF lot.granted THEN Smaller(reduceBy, purse["live"].left) ELSE 0
             cut == [lot EXCEPT !.refunded = @ + reduceBy]
  <2>1. /\ cut.granted = lot.granted /\ cut.status = lot.status /\ cut.progress = lot.progress
        /\ cut = [status |-> lot.status, refunded |-> lot.refunded + reduceBy,
                  forfeited |-> lot.forfeited, reclaimed |-> lot.reclaimed,
                  progress |-> lot.progress, granted |-> lot.granted]
    BY <1>0 DEF LotType
  <2> HIDE DEF cut
  <2>2. CASE lot' = cut
    BY <2>1, <2>2 DEF GrantStandsOnTurnover
  <2>3. CASE lot' = [cut EXCEPT !.granted = FALSE, !.reclaimed = 0]
    <3>1. ~lot'.granted
      BY <2>1, <2>3
    <3> QED BY <3>1 DEF GrantStandsOnTurnover
  <2>4. CASE lot' = [cut EXCEPT !.reclaimed = @ + actual]
    <3>1. /\ lot'.granted = lot.granted /\ lot'.status = lot.status
          /\ lot'.progress = lot.progress
      BY <2>1, <2>4
    <3> QED BY <3>1 DEF GrantStandsOnTurnover
  <2> QED BY <1>1, <1>3, <2>2, <2>3, <2>4 DEF RefundOwn, cut
<1>4. ASSUME NEW p \in Purchase, NEW n \in 1..Gross, RefundLater(p, n)
      PROVE  GrantStandsOnTurnover'
  <2> DEFINE progress == lot.progress - n
  <2>1. CASE ReverseUnlock(progress)
    <3>1. ~lot'.granted
      BY <1>0, <2>1 DEF ReverseUnlock, LotType
    <3> QED BY <3>1 DEF GrantStandsOnTurnover
  <2>2. CASE /\ ~(lot.status = "AVAILABLE" /\ lot.granted /\ progress < Required)
             /\ lot' = [lot EXCEPT !.progress = progress]
    <3>1. /\ lot'.granted = lot.granted /\ lot'.status = lot.status
          /\ lot'.progress = progress /\ progress \in Int /\ Required \in Int
      BY <1>0, <2>2, Amounts DEF LotType
    <3> QED BY <2>2, <3>1 DEF GrantStandsOnTurnover
  <2> QED BY <1>4, <2>1, <2>2 DEF RefundLater
<1>5. CASE SweepExpire
  <2>1. CASE lot.status = "DEFERRED" /\ lot' = [lot EXCEPT !.status = "EXPIRED"]
    <3>1. ~lot.granted /\ lot'.granted = lot.granted
      BY <1>0, <2>1 DEF GrantStandsOnTurnover, LotType
    <3> QED BY <3>1 DEF GrantStandsOnTurnover
  <2> QED BY <1>1, <1>5, <2>1 DEF SweepExpire
<1>6. CASE DeadlinePasses \/ SweepList \/ SweepDies \/ UNCHANGED vars
  BY <1>1, <1>6 DEF DeadlinePasses, SweepList, SweepDies, vars
<1>7. CASE \E w \in Which : PurseStep(w)
  BY <1>1, <1>7 DEF PurseStep, Hold, GiveBack, Redeem, PointsExpire
<1>8. CASE \E p \in Purchase : ConfirmRead(p) \/ ConfirmDies(p)
  BY <1>1, <1>8 DEF ConfirmRead, ConfirmDies
<1> QED BY <1>2, <1>3, <1>4, <1>5, <1>6, <1>7, <1>8 DEF Next, ConfirmStep, RefundStep, SweepStep

\* Whoever confirms, refunds, spends or expires: a grant is there only while the
\* turnover behind the lot still reaches its threshold.
THEOREM GrantNeedsTurnover == Spec => []GrantStandsOnTurnover
<1>1. Init => GrantStandsOnTurnover
  BY DEF Init, GrantStandsOnTurnover
<1> QED BY <1>1, GrantStandsStep, Invariance, PTL DEF Spec

-----------------------------------------------------------------------------
(* The turnover *)

\* A purchase contributes when it is confirmed, so once.
NotYet == \A p \in Purchase : confirm[p].at # "confirmed" => given[p] = 0 /\ undone[p] = 0

\* What a step may do to the turnover and to what made it up.
Contributes(p, n) ==
  /\ lot'.progress = lot.progress + n /\ Contribution'[p] = Contribution[p] + n
  /\ \A q \in Purchase \ {p} : Contribution'[q] = Contribution[q]
Stays == lot'.progress = lot.progress /\ UNCHANGED <<given, undone>>

LEMMA TurnoverInit == Init => NotYet /\ TurnoverIsReal
<1> SUFFICES ASSUME Init PROVE NotYet /\ TurnoverIsReal
  OBVIOUS
<1>1. \A p \in Purchase : Contribution[p] = 0
  BY DEF Init, Contribution
<1>2. SumFunctionOnSet(Contribution, Purchase) = 0
  BY <1>1, PurchasesEnd, SumZero
<1> QED BY <1>2 DEF Init, NotYet, TurnoverIsReal

LEMMA ConfirmContributes ==
  ASSUME TypeOK, NotYet, NEW p \in Purchase, ConfirmCommit(p)
  PROVE  NotYet' /\ (Stays \/ \E n \in Int : Contributes(p, n))
<1>0. /\ lot \in LotType /\ confirm \in [Purchase -> Reading] /\ Gross \in Int
      /\ given \in [Purchase -> {0, Gross}] /\ undone \in [Purchase -> 0..Gross]
  BY Shape, Amounts DEF TypeOK
<1>1. given[p] = 0 /\ undone[p] = 0
  BY DEF ConfirmCommit, NotYet
<1>2. NotYet'
  <2>1. confirm'[p].at = "confirmed" /\ undone' = undone
        /\ \A q \in Purchase \ {p} : confirm'[q] = confirm[q] /\ given'[q] = given[q]
    BY <1>0 DEF ConfirmCommit, Confirmed, Reading
  <2> QED BY <2>1 DEF NotYet
<1>3. CASE ~confirm[p].open
  BY <1>2, <1>3 DEF ConfirmCommit, Stays
<1>4. CASE confirm[p].open
  <2>1. given' = [given EXCEPT ![p] = Gross] /\ undone' = undone
    BY <1>4 DEF ConfirmCommit
  <2>2. lot'.progress = lot.progress + Gross
    BY <1>0, <1>4 DEF ConfirmCommit, Unlock, LotType
  <2>3. Contribution[p] = 0 /\ Contribution'[p] = Gross
        /\ \A q \in Purchase \ {p} : Contribution'[q] = Contribution[q]
    BY <1>0, <1>1, <2>1 DEF Contribution
  <2>4. Contributes(p, Gross)
    BY <1>0, <2>2, <2>3 DEF Contributes
  <2> QED BY <1>0, <1>2, <2>4
<1> QED BY <1>2, <1>3, <1>4

LEMMA RefundContributes ==
  ASSUME TypeOK, NotYet, NEW p \in Purchase, NEW n \in 1..Gross, RefundLater(p, n)
  PROVE  NotYet' /\ Contributes(p, -n)
<1>0. /\ lot \in LotType /\ Gross \in Nat
      /\ given \in [Purchase -> {0, Gross}] /\ undone \in [Purchase -> 0..Gross]
  BY Shape, Amounts DEF TypeOK
<1>1. /\ given' = given /\ confirm' = confirm /\ n \in 1..(given[p] - undone[p])
      /\ undone' = [undone EXCEPT ![p] = @ + n]
  BY DEF RefundLater
<1>2. lot'.progress = lot.progress - n
  BY <1>0 DEF RefundLater, ReverseUnlock, LotType
<1>3. Contribution'[p] = Contribution[p] - n
      /\ \A q \in Purchase \ {p} : Contribution'[q] = Contribution[q]
  BY <1>0, <1>1 DEF Contribution
<1>4. lot.progress \in Int /\ Contribution[p] \in Int /\ n \in Int
  BY <1>0 DEF LotType, Contribution
<1>5. NotYet'
  <2>1. given[p] # 0 \/ undone[p] # 0
    BY <1>0, <1>1
  <2> QED BY <1>1, <2>1, <1>0 DEF NotYet
<1> QED BY <1>2, <1>3, <1>4, <1>5 DEF Contributes

LEMMA OthersStay ==
  ASSUME TypeOK, NotYet, [Next]_vars, ~\E p \in Purchase : ConfirmCommit(p),
         ~\E p \in Purchase, n \in 1..Gross : RefundLater(p, n)
  PROVE  NotYet' /\ Stays
<1>0. lot \in LotType /\ confirm \in [Purchase -> Reading]
  BY Shape
<1>k. ASSUME UNCHANGED <<lot, given, undone, confirm>> PROVE NotYet' /\ Stays
  BY <1>k DEF NotYet, Stays
<1>1. ASSUME NEW p \in Purchase, ConfirmRead(p) \/ ConfirmDies(p) PROVE NotYet' /\ Stays
  <2>1. UNCHANGED <<lot, given, undone>>
    BY <1>1 DEF ConfirmRead, ConfirmDies
  <2>2. \A q \in Purchase : confirm'[q].at # "confirmed" => confirm[q].at # "confirmed"
    BY <1>0, <1>1 DEF ConfirmRead, ConfirmDies, Reading
  <2> QED BY <2>1, <2>2 DEF NotYet, Stays
<1>2. ASSUME NEW share \in 1..Amount, RefundOwn(share) PROVE NotYet' /\ Stays
  <2>1. UNCHANGED <<given, undone, confirm>>
    BY <1>2 DEF RefundOwn
  <2>2. lot'.progress = lot.progress
    BY <1>0, <1>2 DEF RefundOwn, LotType
  <2> QED BY <2>1, <2>2 DEF NotYet, Stays
<1>3. CASE SweepExpire
  <2>1. UNCHANGED <<given, undone, confirm>>
    BY <1>3 DEF SweepExpire
  <2>2. lot'.progress = lot.progress
    BY <1>0, <1>3 DEF SweepExpire, LotType
  <2> QED BY <2>1, <2>2 DEF NotYet, Stays
<1>4. CASE DeadlinePasses \/ SweepList \/ SweepDies \/ UNCHANGED vars
  BY <1>4, <1>k DEF DeadlinePasses, SweepList, SweepDies, vars
<1>5. CASE \E w \in Which : PurseStep(w)
  BY <1>5, <1>k DEF PurseStep, Hold, GiveBack, Redeem, PointsExpire
<1> QED BY <1>1, <1>2, <1>3, <1>4, <1>5 DEF Next, ConfirmStep, RefundStep, SweepStep

LEMMA ContributionChanges ==
  ASSUME NEW p \in Purchase, \A q \in Purchase : Contribution[q] \in Int, Contribution'[p] \in Int,
         \A q \in Purchase \ {p} : Contribution'[q] = Contribution[q]
  PROVE  SumFunctionOnSet(Contribution', Purchase)
           = SumFunctionOnSet(Contribution, Purchase) - Contribution[p] + Contribution'[p]
<1> DEFINE f == Contribution
           g == Contribution'
<1>1. /\ f[p] \in Int /\ g[p] \in Int /\ IsFiniteSet(Purchase)
      /\ \A q \in Purchase \ {p} : f[q] \in Int /\ g[q] = f[q]
  BY PurchasesEnd
<1> HIDE DEF f, g
<1>2. SumFunctionOnSet(g, Purchase) = SumFunctionOnSet(f, Purchase) - f[p] + g[p]
  BY <1>1, SumChange
<1> QED BY <1>2 DEF f, g

LEMMA ContributionAdds ==
  ASSUME TypeOK, TurnoverIsReal, NEW p \in Purchase, NEW n \in Int, Contributes(p, n)
  PROVE  TurnoverIsReal'
<1>1. lot.progress \in Int /\ \A q \in Purchase : Contribution[q] \in Int
  BY Amounts DEF TypeOK, Contribution
<1>2. /\ Contribution'[p] = Contribution[p] + n /\ lot'.progress = lot.progress + n
      /\ \A q \in Purchase \ {p} : Contribution'[q] = Contribution[q]
  BY DEF Contributes
<1>3. Contribution[p] \in Int /\ Contribution'[p] \in Int
  BY <1>1, <1>2
<1>4. SumFunctionOnSet(Contribution', Purchase) = SumFunctionOnSet(Contribution, Purchase) + n
  <2>1. SumFunctionOnSet(Contribution, Purchase) \in Int
    BY <1>1, PurchasesEnd, SumType
  <2> QED BY <1>1, <1>2, <1>3, <2>1, ContributionChanges
<1> QED BY <1>2, <1>4 DEF TurnoverIsReal

LEMMA TurnoverStep == TypeOK /\ NotYet /\ TurnoverIsReal /\ [Next]_vars => NotYet' /\ TurnoverIsReal'
<1> SUFFICES ASSUME TypeOK, NotYet, TurnoverIsReal, [Next]_vars PROVE NotYet' /\ TurnoverIsReal'
  OBVIOUS
<1>1. ASSUME Stays PROVE TurnoverIsReal'
  BY <1>1 DEF Stays, TurnoverIsReal, Contribution
<1>2. ASSUME NEW p \in Purchase, ConfirmCommit(p) PROVE NotYet' /\ TurnoverIsReal'
  BY <1>1, <1>2, ConfirmContributes, ContributionAdds
<1>3. ASSUME NEW p \in Purchase, NEW n \in 1..Gross, RefundLater(p, n) PROVE NotYet' /\ TurnoverIsReal'
  <2>1. -n \in Int
    OBVIOUS
  <2> QED BY <1>3, <2>1, RefundContributes, ContributionAdds
<1> QED BY <1>1, <1>2, <1>3, OthersStay

\* For any number of later purchases confirmed and refunded in any order, with
\* the lot's own refunds and its expiry in between: the turnover the lot counts
\* is what its contributions add up to.
THEOREM TurnoverAddsUp == Spec => []TurnoverIsReal
<1> QED BY TurnoverInit, TurnoverStep, TypeCorrect, PTL DEF Spec

-----------------------------------------------------------------------------
(* The wallet *)

Stages == {"none", "ACTIVE", "SETTLED", "RELEASED", "reversed"}

\* A settlement that has claimed a reservation keeps it ACTIVE until it commits.
ClaimedIsActive ==
  /\ hold = [h \in Reservation |-> [is |-> hold[h].is, of |-> hold[h].of]]
  /\ settling \in [Reservation -> [at : {"idle", "checked", "claimed"}, empty : SUBSET Lot]]
  /\ \A h \in Reservation : settling[h].at = "claimed" => hold[h].is = "ACTIVE"

LEMMA InitClaims == WalletInit => ClaimedIsActive
  BY DEF WalletInit, ClaimedIsActive, Idle

\* What a step may do to the reservations and to who is settling them.
Moves(h) ==
  \/ hold'[h] = hold[h]
  \/ hold[h].is = "none" /\ hold'[h].is = "ACTIVE"
  \/ hold[h].is = "ACTIVE" /\ hold'[h].is = "RELEASED" /\ settling[h].at # "claimed"
                           /\ settling' = settling
  \/ hold[h].is = "SETTLED" /\ hold'[h].is = "reversed"
  \/ settling[h].at = "claimed" /\ hold'[h].is = "SETTLED" /\ settling'[h].at = "idle"

LEMMA ReserveMoves ==
  ASSUME ClaimedIsActive, NEW g \in Reservation, NEW n, Reserve(g, n)
  PROVE  ClaimedIsActive' /\ \A h \in Reservation : Moves(h)
<1>1. /\ hold' = [hold EXCEPT ![g] = [is |-> "ACTIVE", of |-> Take(n)]]
      /\ hold[g].is = "none" /\ settling' = settling
  BY DEF Reserve
<1>2. /\ hold' = [h \in Reservation |-> [is |-> hold'[h].is, of |-> hold'[h].of]]
      /\ hold'[g].is = "ACTIVE" /\ \A h \in Reservation \ {g} : hold'[h] = hold[h]
  BY <1>1 DEF ClaimedIsActive
<1> QED BY <1>1, <1>2 DEF ClaimedIsActive, Moves

\* A step that moves one reservation to another stage and leaves the rest.
LEMMA OneStage ==
  ASSUME ClaimedIsActive, NEW g \in Reservation, NEW s \in Stages, hold' = [hold EXCEPT ![g].is = s]
  PROVE  /\ hold' = [h \in Reservation |-> [is |-> hold'[h].is, of |-> hold'[h].of]]
         /\ hold'[g].is = s /\ \A h \in Reservation \ {g} : hold'[h] = hold[h]
<1>1. hold[g] = [is |-> hold[g].is, of |-> hold[g].of]
  BY DEF ClaimedIsActive
<1>2. [hold[g] EXCEPT !.is = s] = [is |-> s, of |-> hold[g].of]
  BY <1>1
<1>3. hold' = [hold EXCEPT ![g] = [is |-> s, of |-> hold[g].of]]
  BY <1>2
<1> QED BY <1>3 DEF ClaimedIsActive

LEMMA SettleMoves ==
  ASSUME ClaimedIsActive, NEW g \in Reservation, SettleStep(g)
  PROVE  ClaimedIsActive' /\ \A h \in Reservation : Moves(h)
<1>1. CASE SettleCheck(g)
  <2>1. /\ hold' = hold /\ settling' \in [Reservation -> [at : {"idle", "checked", "claimed"}, empty : SUBSET Lot]]
        /\ settling'[g].at = "checked" /\ \A h \in Reservation \ {g} : settling'[h] = settling[h]
    BY <1>1 DEF SettleCheck, ClaimedIsActive
  <2> QED BY <2>1 DEF ClaimedIsActive, Moves
<1>2. CASE SettleClaim(g)
  <2>1. hold' = hold
    BY <1>2 DEF SettleClaim
  <2>2. CASE hold[g].is = "ACTIVE"
    <3> DEFINE E == {l \in Lot : hold[g].of[l] > 0 /\ lots[l].left = 0 /\ lots[l].is = "AVAILABLE"}
    <3>0. settling' = [settling EXCEPT ![g] = [at |-> "claimed", empty |-> E]] /\ E \in SUBSET Lot
      BY <1>2, <2>2 DEF SettleClaim
    <3> HIDE DEF E
    <3>1. /\ settling' \in [Reservation -> [at : {"idle", "checked", "claimed"}, empty : SUBSET Lot]]
          /\ \A h \in Reservation \ {g} : settling'[h] = settling[h]
      BY <3>0 DEF ClaimedIsActive
    <3> QED BY <2>1, <2>2, <3>1 DEF ClaimedIsActive, Moves
  <2>3. CASE hold[g].is # "ACTIVE"
    <3>1. /\ settling' \in [Reservation -> [at : {"idle", "checked", "claimed"}, empty : SUBSET Lot]]
          /\ settling'[g].at = "idle" /\ \A h \in Reservation \ {g} : settling'[h] = settling[h]
      BY <1>2, <2>3 DEF SettleClaim, ClaimedIsActive, Idle
    <3> QED BY <2>1, <3>1 DEF ClaimedIsActive, Moves
  <2> QED BY <2>2, <2>3
<1>3. CASE SettleCommit(g)
  <2>1. /\ settling[g].at = "claimed" /\ hold' = [hold EXCEPT ![g].is = "SETTLED"]
        /\ settling' = [settling EXCEPT ![g] = Idle]
    BY <1>3 DEF SettleCommit
  <2>2. /\ settling' \in [Reservation -> [at : {"idle", "checked", "claimed"}, empty : SUBSET Lot]]
        /\ settling'[g].at = "idle" /\ \A h \in Reservation \ {g} : settling'[h] = settling[h]
    BY <2>1 DEF ClaimedIsActive, Idle
  <2> QED BY <2>1, <2>2, OneStage DEF ClaimedIsActive, Moves, Stages
<1>4. CASE SettleDies(g)
  <2>1. /\ hold' = hold
        /\ settling' \in [Reservation -> [at : {"idle", "checked", "claimed"}, empty : SUBSET Lot]]
        /\ settling'[g].at = "idle" /\ \A h \in Reservation \ {g} : settling'[h] = settling[h]
    BY <1>4 DEF SettleDies, ClaimedIsActive, Idle
  <2> QED BY <2>1 DEF ClaimedIsActive, Moves
<1> QED BY <1>1, <1>2, <1>3, <1>4 DEF SettleStep

LEMMA ReleaseMoves ==
  ASSUME ClaimedIsActive, NEW g \in Reservation, ReleaseStep(g)
  PROVE  ClaimedIsActive' /\ \A h \in Reservation : Moves(h)
<1>1. CASE UNCHANGED <<hold, settling>>
  BY <1>1 DEF ClaimedIsActive, Moves
<1>2. CASE ReleaseCommit(g) /\ hold[g].is = "ACTIVE"
  <2>1. /\ hold' = [hold EXCEPT ![g].is = "RELEASED"] /\ settling' = settling
        /\ settling[g].at # "claimed"
    BY <1>2 DEF ReleaseCommit
  <2> QED BY <1>2, <2>1, OneStage DEF ClaimedIsActive, Moves, Stages
<1> QED BY <1>1, <1>2 DEF ReleaseStep, ReleaseCheck, ReleaseCommit, ReleaseDies

LEMMA ReverseMoves ==
  ASSUME ClaimedIsActive, NEW g \in Reservation, Reverse(g)
  PROVE  ClaimedIsActive' /\ \A h \in Reservation : Moves(h)
<1>1. /\ hold[g].is = "SETTLED" /\ hold' = [hold EXCEPT ![g].is = "reversed"]
      /\ settling' = settling
  BY DEF Reverse
<1> QED BY <1>1, OneStage DEF ClaimedIsActive, Moves, Stages

LEMMA EveryStepMoves == ClaimedIsActive /\ [WalletNext]_walletVars => ClaimedIsActive' /\ \A h \in Reservation : Moves(h)
<1> SUFFICES ASSUME ClaimedIsActive, [WalletNext]_walletVars
             PROVE  ClaimedIsActive' /\ \A h \in Reservation : Moves(h)
  OBVIOUS
<1>1. CASE \E h \in Reservation : HoldStep(h)
  BY <1>1, ReserveMoves, SettleMoves, ReleaseMoves, ReverseMoves DEF HoldStep
<1>2. CASE UNCHANGED <<hold, settling>>
  BY <1>2 DEF ClaimedIsActive, Moves
<1>3. CASE \/ \E l \in Lot : Arrives(l) \/ Expire(l)
           \/ \E n \in Points : ManualDebit(n)
           \/ \E s \in Sweeper : PromoteStep(s)
           \/ ClawStep
           \/ UNCHANGED walletVars
  BY <1>2, <1>3 DEF Arrives, Accrue, Restore, Expire, ManualDebit, PromoteStep, PromoteRead,
     PromoteCommit, PromoteDies, ClawStep, ClawRead, ClawCommit, ClawDies, walletVars
<1> QED BY <1>1, <1>3 DEF WalletNext

\* A claimed reservation stays ACTIVE under every other transaction.
THEOREM ClaimsHold == WalletSpec => []ClaimedIsActive
<1> QED BY InitClaims, EveryStepMoves, PTL DEF WalletSpec

\* For any number of lots, reservations and overlapping sweeps: a reservation is
\* spent or given back, never both, whoever races for it.
THEOREM EndsOnce == WalletSpec => HoldEndsOnce
<1>1. ClaimedIsActive /\ [WalletNext]_walletVars => [\A h \in Reservation : Final(hold[h].is, hold'[h].is)]_walletVars
  BY EveryStepMoves DEF ClaimedIsActive, Moves, Final
<1> QED BY <1>1, ClaimsHold, PTL DEF WalletSpec, HoldEndsOnce

-----------------------------------------------------------------------------
(* Its rows, its counters, and where every point is *)

LotRow   == [is : {"none", "PENDING", "AVAILABLE", "CONSUMED", "EXPIRED"}, left : Nat, all : 0..Most]
HoldRow  == [is : Stages, of : [Lot -> Nat]]
Counters == [available : Nat, pending : Nat, reserved : Nat, spent : Nat]

\* The rows of the three tables; a lot has no more left than it was issued with.
Rows ==
  /\ lots \in [Lot -> LotRow] /\ \A l \in Lot : lots[l].left <= lots[l].all
  /\ hold \in [Reservation -> HoldRow] /\ wallet \in Counters

LEMMA WalletShape ==
  ASSUME Rows
  PROVE  /\ lots \in [Lot -> LotRow] /\ hold \in [Reservation -> HoldRow] /\ wallet \in Counters
         /\ Left \in [Lot -> Nat] /\ IsFiniteSet(Lot) /\ Total(Left) \in Nat
         /\ \A h \in Reservation : hold[h].of \in [Lot -> Nat] /\ Held(h) \in Nat
         /\ \A S \in SUBSET Lot : IsFiniteSet(S) /\ Sum(S) \in Nat
         /\ \A S \in SUBSET Reservation : IsFiniteSet(S)
<1>1. /\ lots \in [Lot -> LotRow] /\ hold \in [Reservation -> HoldRow] /\ wallet \in Counters
      /\ Left \in [Lot -> Nat]
  BY DEF Rows, LotRow, Left
<1>2. IsFiniteSet(Lot)
  BY Sizes, FS_Interval DEF Lot
<1>3. \A h \in Reservation : hold[h].of \in [Lot -> Nat]
  BY <1>1 DEF HoldRow
<1>4. \A S \in SUBSET Lot : IsFiniteSet(S) /\ Sum(S) \in Nat
  BY <1>1, <1>2, FS_Subset, SumNat DEF Sum
<1>5. Total(Left) \in Nat /\ \A h \in Reservation : Held(h) \in Nat
  BY <1>1, <1>2, <1>3, SumNat DEF Total, Held
<1> QED BY <1>1, <1>2, <1>3, <1>4, <1>5, ReservationsEnd, FS_Subset

(* Points taken out of the lots *)

LEMMA TakeType ==
  ASSUME Rows, NEW n \in Nat
  PROVE  /\ Take(n) \in [Lot -> Nat]
         /\ \A l \in Lot : Take(n)[l] <= lots[l].left /\ (Take(n)[l] > 0 => l \in Spendable)
<1> SUFFICES ASSUME NEW l \in Lot
             PROVE  Take(n)[l] \in Nat /\ Take(n)[l] <= lots[l].left /\ (Take(n)[l] > 0 => l \in Spendable)
  BY DEF Take
<1> DEFINE still == n - Sum({k \in Spendable : k < l})
<1>1. Take(n)[l] = IF l \notin Spendable \/ still <= 0 THEN 0
                   ELSE IF still < lots[l].left THEN still ELSE lots[l].left
  BY DEF Take
<1>2. still \in Int /\ lots[l].left \in Nat
  <2>1. {k \in Spendable : k < l} \in SUBSET Lot
    BY DEF Spendable
  <2> QED BY <2>1, WalletShape DEF LotRow
<1> HIDE DEF still
<1> QED BY <1>1, <1>2

\* What the first m lots have to spend.
Upto(m) == {k \in Spendable : k <= m}

LEMMA TakeGrows ==
  ASSUME Rows, NEW n \in Nat, NEW k \in Lot
  PROVE  SumFunctionOnSet(Take(n), 1..k) = Take(n)[k] + SumFunctionOnSet(Take(n), 1..(k - 1))
<1> DEFINE f == Take(n)
           S == 1..k
<1>1. k \in S /\ S \ {k} = 1..(k - 1) /\ S \in SUBSET Lot
  BY Sizes DEF Lot
<1>2. IsFiniteSet(S) /\ f \in [Lot -> Nat]
  BY <1>1, WalletShape, TakeType
<1>3. \A x \in S : f[x] \in Int
  BY <1>1, <1>2
<1> HIDE DEF f, S
<1>4. SumFunctionOnSet(f, S) = f[k] + SumFunctionOnSet(f, S \ {k})
  BY <1>1, <1>2, <1>3, SumRemove
<1> QED BY <1>1, <1>4 DEF f, S

LEMMA UptoGrows ==
  ASSUME Rows, NEW k \in Lot
  PROVE  Sum(Upto(k)) = IF k \in Spendable THEN Sum(Upto(k - 1)) + lots[k].left ELSE Sum(Upto(k - 1))
<1>1. CASE k \notin Spendable
  <2>1. Upto(k) = Upto(k - 1)
    BY <1>1 DEF Upto, Spendable, Lot
  <2> QED BY <1>1, <2>1
<1>2. CASE k \in Spendable
  <2> DEFINE S == Upto(k - 1)
  <2>1. Upto(k) = S \cup {k} /\ k \notin S /\ S \in SUBSET Lot
    BY <1>2 DEF Upto, Spendable, Lot
  <2>2. Left \in [Lot -> Nat] /\ IsFiniteSet(S) /\ Sum(S) \in Nat
    BY <2>1, WalletShape
  <2> HIDE DEF S
  <2>3. Left[k] \in Int /\ \A x \in S : Left[x] \in Int
    BY <2>1, <2>2
  <2>4. SumFunctionOnSet(Left, S \cup {k}) = Left[k] + SumFunctionOnSet(Left, S)
    BY <2>1, <2>2, <2>3, SumAdd
  <2>5. Left[k] = lots[k].left
    BY DEF Left
  <2>6. Sum(S) = SumFunctionOnSet(Left, S) /\ Sum(Upto(k)) = SumFunctionOnSet(Left, S \cup {k})
    BY <2>1 DEF Sum
  <2>7. Sum(Upto(k)) = Sum(S) + lots[k].left
    BY <2>2, <2>3, <2>4, <2>5, <2>6
  <2> QED BY <1>2, <2>7 DEF S
<1> QED BY <1>1, <1>2

LEMMA TakePrefix ==
  ASSUME Rows, NEW n \in Nat, NEW m \in 0..Lots
  PROVE  SumFunctionOnSet(Take(n), 1..m) = IF Sum(Upto(m)) <= n THEN Sum(Upto(m)) ELSE n
<1> DEFINE Wrong(k) == SumFunctionOnSet(Take(n), 1..k) # IF Sum(Upto(k)) <= n THEN Sum(Upto(k)) ELSE n
           B == {1..k : k \in {i \in 0..Lots : Wrong(i)}}
<1>1. SUFFICES ASSUME B # {} PROVE FALSE
  OBVIOUS
<1>2. B \in SUBSET SUBSET Lot
  <2>1. \A k \in 0..Lots : 1..k \in SUBSET Lot
    BY Sizes DEF Lot
  <2> HIDE DEF Wrong
  <2> QED BY <2>1
<1>3. PICK T \in B : \A U \in B : U \subseteq T => U = T
  <2>1. IsFiniteSet(Lot)
    BY WalletShape
  <2> HIDE DEF B
  <2> QED BY <1>1, <1>2, <2>1, SmallestSubset
<1>4. PICK k \in 0..Lots : T = 1..k /\ Wrong(k)
  BY <1>3
<1>5. \A i \in 0..Lots : Upto(i) \in SUBSET Lot /\ Sum(Upto(i)) \in Nat
  BY WalletShape DEF Upto, Spendable
<1>6. k # 0
  <2>1. 1..0 = {} /\ Upto(0) = {}
    BY DEF Upto, Spendable, Lot
  <2>2. SumFunctionOnSet(Take(n), 1..0) = 0 /\ Sum(Upto(0)) = 0
    BY <2>1, SumEmpty DEF Sum
  <2> QED BY <1>4, <2>2
<1>7. k \in Lot /\ k - 1 \in 0..Lots /\ ~Wrong(k - 1)
  <2>1. k \in 1..Lots /\ k - 1 \in 0..Lots /\ 1..(k - 1) \subseteq 1..k
    BY <1>4, <1>6, Sizes
  <2>2. k \in 1..k /\ k \notin 1..(k - 1)
    BY <1>4, <2>1
  <2>3. 1..(k - 1) # T
    BY <1>4, <2>2
  <2> QED BY <1>3, <1>4, <2>1, <2>3 DEF Lot
<1> DEFINE before == Sum(Upto(k - 1))
<1>8. before \in Nat /\ SumFunctionOnSet(Take(n), 1..(k - 1)) = IF before <= n THEN before ELSE n
  BY <1>5, <1>7
<1>9. SumFunctionOnSet(Take(n), 1..k) = Take(n)[k] + SumFunctionOnSet(Take(n), 1..(k - 1))
  BY <1>7, TakeGrows
<1>10. {i \in Spendable : i < k} = Upto(k - 1)
  BY <1>7 DEF Upto, Spendable, Lot
<1>11. Take(n)[k] = IF k \notin Spendable \/ n - before <= 0 THEN 0
                    ELSE IF n - before < lots[k].left THEN n - before ELSE lots[k].left
  BY <1>7, <1>10 DEF Take
<1>12. Sum(Upto(k)) = IF k \in Spendable THEN before + lots[k].left ELSE before
  BY <1>7, UptoGrows
<1>13. lots[k].left \in Nat
  BY <1>7, WalletShape DEF LotRow
<1>14. Wrong(k)
  BY <1>4
<1> HIDE DEF before
<1> QED BY <1>8, <1>9, <1>11, <1>12, <1>13, <1>14

LEMMA TakeAll ==
  ASSUME Rows, NEW n \in Nat, Sum(Spendable) >= n
  PROVE  Total(Take(n)) = n
<1>1. Upto(Lots) = Spendable /\ Lots \in 0..Lots
  BY Sizes DEF Upto, Spendable, Lot
<1>2. Sum(Spendable) \in Nat
  BY WalletShape DEF Spendable
<1>3. SumFunctionOnSet(Take(n), 1..Lots) = IF Sum(Spendable) <= n THEN Sum(Spendable) ELSE n
  BY <1>1, TakePrefix
<1> QED BY <1>2, <1>3 DEF Total, Lot

-----------------------------------------------------------------------------
(* Sums over the lots *)

LEMMA OneLotChanges ==
  ASSUME Rows, lots' \in [Lot -> LotRow], NEW l \in Lot,
         \A k \in Lot \ {l} : lots'[k].left = lots[k].left
  PROVE  Total(Left)' = Total(Left) - lots[l].left + lots'[l].left
<1> DEFINE f == Left
           g == Left'
<1>1. /\ f[l] \in Int /\ g[l] \in Int /\ IsFiniteSet(Lot)
      /\ \A k \in Lot \ {l} : f[k] \in Int /\ g[k] = f[k]
  BY WalletShape DEF Left, LotRow
<1>0. f[l] = lots[l].left /\ g[l] = lots'[l].left
  BY DEF Left
<1> HIDE DEF f, g
<1>2. SumFunctionOnSet(g, Lot) = SumFunctionOnSet(f, Lot) - f[l] + g[l]
  BY <1>1, SumChange
<1>3. Total(Left) = SumFunctionOnSet(f, Lot) /\ Total(Left)' = SumFunctionOnSet(g, Lot)
  BY DEF Total, f, g
<1> QED BY <1>0, <1>2, <1>3

LEMMA NoLotChanges ==
  ASSUME \A k \in Lot : lots'[k].left = lots[k].left
  PROVE  Total(Left)' = Total(Left)
<1>1. Left' = Left
  BY DEF Left
<1> QED BY <1>1 DEF Total

\* t is what is moved from the first state of the lots to the second.
LEMMA LotsGain ==
  ASSUME NEW f \in [Lot -> Nat], NEW g \in [Lot -> Nat], NEW t \in [Lot -> Nat],
         \A k \in Lot : g[k] = f[k] + t[k]
  PROVE  Total(g) = Total(f) + Total(t)
<1>1. IsFiniteSet(Lot)
  BY Sizes, FS_Interval DEF Lot
<1>2. SumFunctionOnSet(g, Lot) = SumFunctionOnSet(f, Lot) + SumFunctionOnSet(t, Lot)
  BY <1>1, SumPlus
<1> QED BY <1>2 DEF Total

LEMMA LotsLose ==
  ASSUME Rows, lots' \in [Lot -> LotRow], NEW n \in Nat, Sum(Spendable) >= n,
         \A k \in Lot : lots'[k].left = lots[k].left - Take(n)[k]
  PROVE  Total(Left)' = Total(Left) - n
<1> DEFINE f == Left
           g == Left'
           t == Take(n)
<1>1. f \in [Lot -> Nat] /\ t \in [Lot -> Nat] /\ Total(t) = n /\ Total(f) \in Nat
  BY WalletShape, TakeType, TakeAll
<1>2. g \in [Lot -> Nat]
  BY DEF Left, LotRow
<1>3. \A k \in Lot : lots'[k].left \in Nat /\ lots[k].left \in Nat /\ t[k] \in Nat
  BY <1>1 DEF Rows, LotRow
<1>4. \A k \in Lot : f[k] = g[k] + t[k]
  <2> SUFFICES ASSUME NEW k \in Lot PROVE f[k] = g[k] + t[k]
    OBVIOUS
  <2>1. f[k] = lots[k].left /\ g[k] = lots'[k].left
    BY DEF Left
  <2>2. lots'[k].left = lots[k].left - t[k]
    OBVIOUS
  <2> HIDE DEF f, g, t
  <2> QED BY <1>3, <2>1, <2>2
<1>5. Total(Left)' = Total(g)
  BY DEF Total
<1>6. Total(g) \in Int
  BY <1>2, Sizes, FS_Interval, SumNat DEF Total, Lot
<1> HIDE DEF f, g, t
<1>7. Total(f) = Total(g) + Total(t)
  BY <1>1, <1>2, <1>4, LotsGain
<1> QED BY <1>1, <1>5, <1>6, <1>7 DEF f

LEMMA LotsRegain ==
  ASSUME Rows, lots' \in [Lot -> LotRow], NEW h \in Reservation,
         \A k \in Lot : lots'[k].left = lots[k].left + hold[h].of[k]
  PROVE  Total(Left)' = Total(Left) + Held(h)
<1> DEFINE f == Left
           g == Left'
           t == hold[h].of
<1>1. f \in [Lot -> Nat] /\ t \in [Lot -> Nat] /\ g \in [Lot -> Nat]
  BY WalletShape DEF Left, LotRow
<1>2. \A k \in Lot : g[k] = f[k] + t[k]
  BY DEF Left
<1>3. Total(Left)' = Total(g) /\ Held(h) = Total(t)
  BY DEF Total, Held
<1> HIDE DEF f, g, t
<1>4. Total(g) = Total(f) + Total(t)
  BY <1>1, <1>2, LotsGain
<1> QED BY <1>3, <1>4 DEF f

-----------------------------------------------------------------------------
(* Sums over the reservations *)

HeldIn(S) == SumFunctionOnSet(Kept, Holding(S))
HeldOf(l, S) == SumFunctionOnSet(From(l), Holding(S))

LEMMA HeldTypes ==
  ASSUME Rows
  PROVE  \A S : HeldIn(S) \in Nat /\ \A l \in Lot : HeldOf(l, S) \in Nat
<1> SUFFICES ASSUME NEW S PROVE HeldIn(S) \in Nat /\ \A l \in Lot : HeldOf(l, S) \in Nat
  OBVIOUS
<1>1. IsFiniteSet(Holding(S)) /\ Holding(S) \in SUBSET Reservation
  BY WalletShape DEF Holding
<1>2. \A h \in Reservation : Kept[h] \in Nat /\ \A l \in Lot : From(l)[h] \in Nat
  BY WalletShape DEF Kept, From
<1>3. HeldIn(S) \in Nat
  BY <1>1, <1>2, SumNat DEF HeldIn
<1>4. ASSUME NEW l \in Lot PROVE HeldOf(l, S) \in Nat
  BY <1>1, <1>2, SumNat DEF HeldOf
<1> QED BY <1>3, <1>4

\* The rows of the reservations, one of which the step may change.
OneHold(h) ==
  /\ Rows /\ hold' \in [Reservation -> HoldRow]
  /\ h \in Reservation /\ \A g \in Reservation \ {h} : hold'[g] = hold[g]

LEMMA HeldAfter ==
  ASSUME NEW h, OneHold(h)
  PROVE  /\ Held(h)' \in Nat /\ \A l \in Lot : hold'[h].of[l] \in Nat
         /\ \A g \in Reservation \ {h} : Held(g)' = Held(g)
<1>1. hold'[h].of \in [Lot -> Nat] /\ IsFiniteSet(Lot)
  BY WalletShape DEF OneHold, HoldRow
<1>2. Held(h)' \in Nat
  BY <1>1, SumNat DEF Held, Total
<1> QED BY <1>1, <1>2 DEF OneHold, Held, Total

LEMMA HoldJoins ==
  ASSUME NEW h, NEW S, OneHold(h), hold[h].is \notin S, hold'[h].is \in S
  PROVE  /\ HeldIn(S)' = HeldIn(S) + Held(h)'
         /\ \A l \in Lot : HeldOf(l, S)' = HeldOf(l, S) + hold'[h].of[l]
<1> DEFINE H == Holding(S)
           H2 == Holding(S)'
<1>1. H2 = H \cup {h} /\ h \notin H /\ H \in SUBSET Reservation /\ h \in Reservation
  BY DEF OneHold, Holding
<1>2. IsFiniteSet(H)
  BY <1>1, WalletShape DEF OneHold
<1>3. /\ Held(h)' \in Nat /\ \A l \in Lot : hold'[h].of[l] \in Nat
      /\ \A g \in Reservation \ {h} : Held(g)' = Held(g)
  BY HeldAfter
<1>4. \A g \in H : g \in Reservation \ {h} /\ Held(g) \in Nat /\ \A l \in Lot : hold[g].of[l] \in Nat
  BY <1>1, WalletShape DEF OneHold
<1>5. HeldIn(S)' = HeldIn(S) + Held(h)'
  <2> DEFINE f == Kept
             g == Kept'
  <2>1. /\ g[h] = Held(h)' /\ g[h] \in Int
        /\ \A x \in H : f[x] \in Int /\ g[x] = f[x]
    BY <1>1, <1>3, <1>4 DEF Kept
  <2>2. HeldIn(S) = SumFunctionOnSet(f, H) /\ HeldIn(S)' = SumFunctionOnSet(g, H \cup {h})
    BY <1>1 DEF HeldIn
  <2> HIDE DEF f, g, H, H2
  <2>3. SumFunctionOnSet(g, H \cup {h}) = SumFunctionOnSet(f, H) + g[h]
    BY <1>1, <1>2, <2>1, SumJoins
  <2> QED BY <2>1, <2>2, <2>3
<1>6. ASSUME NEW l \in Lot PROVE HeldOf(l, S)' = HeldOf(l, S) + hold'[h].of[l]
  <2> DEFINE f == From(l)
             g == From(l)'
  <2>1. /\ g[h] = hold'[h].of[l] /\ g[h] \in Int
        /\ \A x \in H : f[x] \in Int /\ g[x] = f[x]
    BY <1>1, <1>3, <1>4 DEF From, OneHold
  <2>2. HeldOf(l, S) = SumFunctionOnSet(f, H) /\ HeldOf(l, S)' = SumFunctionOnSet(g, H \cup {h})
    BY <1>1 DEF HeldOf
  <2> HIDE DEF f, g, H, H2
  <2>3. SumFunctionOnSet(g, H \cup {h}) = SumFunctionOnSet(f, H) + g[h]
    BY <1>1, <1>2, <2>1, SumJoins
  <2> QED BY <2>1, <2>2, <2>3
<1> QED BY <1>5, <1>6

LEMMA HoldLeaves ==
  ASSUME NEW h, NEW S, OneHold(h), hold[h].is \in S, hold'[h].is \notin S
  PROVE  /\ HeldIn(S)' = HeldIn(S) - Held(h)
         /\ \A l \in Lot : HeldOf(l, S)' = HeldOf(l, S) - hold[h].of[l]
<1> DEFINE H == Holding(S)
           H2 == Holding(S)'
<1>1. H2 = H \ {h} /\ h \in H /\ H \in SUBSET Reservation /\ h \in Reservation
  BY DEF OneHold, Holding
<1>2. IsFiniteSet(H)
  BY <1>1, WalletShape DEF OneHold
<1>3. \A g \in Reservation \ {h} : Held(g)' = Held(g)
  BY HeldAfter
<1>4. \A g \in H : g \in Reservation /\ Held(g) \in Nat /\ \A l \in Lot : hold[g].of[l] \in Nat
  BY <1>1, WalletShape DEF OneHold
<1>5. HeldIn(S)' = HeldIn(S) - Held(h)
  <2> DEFINE f == Kept
             g == Kept'
  <2>1. f[h] \in Int /\ \A x \in H \ {h} : f[x] \in Int /\ g[x] = f[x]
    BY <1>1, <1>3, <1>4 DEF Kept
  <2>4. f[h] = Held(h)
    BY <1>1 DEF Kept
  <2>2. HeldIn(S) = SumFunctionOnSet(f, H) /\ HeldIn(S)' = SumFunctionOnSet(g, H \ {h})
    BY <1>1 DEF HeldIn
  <2> HIDE DEF f, g, H, H2
  <2>3. SumFunctionOnSet(g, H \ {h}) = SumFunctionOnSet(f, H) - f[h]
    <3>1. IsFiniteSet(H) /\ h \in H /\ f[h] \in Int
      BY <1>1, <1>2, <2>1
    <3>2. \A x \in H \ {h} : f[x] \in Int /\ g[x] = f[x]
      BY <2>1
    <3> QED BY <3>1, <3>2, SumLeaves
  <2> QED BY <2>2, <2>3, <2>4
<1>6. ASSUME NEW l \in Lot PROVE HeldOf(l, S)' = HeldOf(l, S) - hold[h].of[l]
  <2> DEFINE f == From(l)
             g == From(l)'
  <2>1. f[h] \in Int /\ \A x \in H \ {h} : f[x] \in Int /\ g[x] = f[x]
    BY <1>1, <1>4 DEF From, OneHold
  <2>4. f[h] = hold[h].of[l]
    BY <1>1 DEF From
  <2>2. HeldOf(l, S) = SumFunctionOnSet(f, H) /\ HeldOf(l, S)' = SumFunctionOnSet(g, H \ {h})
    BY <1>1 DEF HeldOf
  <2> HIDE DEF f, g, H, H2
  <2>3. SumFunctionOnSet(g, H \ {h}) = SumFunctionOnSet(f, H) - f[h]
    <3>1. IsFiniteSet(H) /\ h \in H /\ f[h] \in Int
      BY <1>1, <1>2, <2>1
    <3>2. \A x \in H \ {h} : f[x] \in Int /\ g[x] = f[x]
      BY <2>1
    <3> QED BY <3>1, <3>2, SumLeaves
  <2> QED BY <2>2, <2>3, <2>4
<1> QED BY <1>5, <1>6

LEMMA HoldStays ==
  ASSUME NEW h, NEW S, OneHold(h), hold[h].is \in S <=> hold'[h].is \in S, hold'[h].of = hold[h].of
  PROVE  HeldIn(S)' = HeldIn(S) /\ \A l \in Lot : HeldOf(l, S)' = HeldOf(l, S)
<1>1. Holding(S)' = Holding(S)
  BY DEF OneHold, Holding
<1>2. \A g \in Reservation : hold'[g].of = hold[g].of
  BY DEF OneHold
<1>3. Kept' = Kept /\ \A l \in Lot : From(l)' = From(l)
  BY <1>2 DEF Kept, From, Held, Total
<1> QED BY <1>1, <1>3 DEF HeldIn, HeldOf

-----------------------------------------------------------------------------
\* The counters, the lots and the reservations agree.
Books ==
  /\ wallet.reserved = HeldIn({"ACTIVE"})
  /\ wallet.available + wallet.pending = Total(Left)
  /\ \A l \in Lot : /\ lots[l].left + HeldOf(l, {"ACTIVE", "SETTLED"}) <= lots[l].all
                    /\ lots[l].is = "none" => lots[l] = None

Sound == Rows /\ Books

LEMMA SoundInit == WalletInit => Sound
<1> SUFFICES ASSUME WalletInit PROVE Sound
  OBVIOUS
<1>1. Rows
  BY Sizes DEF WalletInit, Rows, LotRow, HoldRow, Stages, Counters, None, Nowhere
<1>2. Holding({"ACTIVE"}) = {} /\ Holding({"ACTIVE", "SETTLED"}) = {}
  BY DEF WalletInit, Holding
<1>3. HeldIn({"ACTIVE"}) = 0 /\ \A l \in Lot : HeldOf(l, {"ACTIVE", "SETTLED"}) = 0
  BY <1>2, SumEmpty DEF HeldIn, HeldOf
<1>4. Total(Left) = 0
  <2>1. IsFiniteSet(Lot) /\ \A l \in Lot : Left[l] = 0
    BY <1>1, WalletShape DEF WalletInit, Left, None
  <2> QED BY <2>1, SumZero DEF Total
<1> QED BY <1>1, <1>3, <1>4 DEF Sound, Books, WalletInit, None

LEMMA NoMove ==
  ASSUME Sound, UNCHANGED <<lots, hold, wallet>>
  PROVE  Sound'
<1>1. Left' = Left /\ Kept' = Kept /\ \A l : From(l)' = From(l) /\ \A S : Holding(S)' = Holding(S)
  BY DEF Left, Kept, From, Held, Total, Holding
<1> QED BY <1>1 DEF Sound, Rows, Books, HeldIn, HeldOf, Total

\* The reservations are left alone.
LEMMA HoldsIdle ==
  ASSUME hold' = hold
  PROVE  \A S : HeldIn(S)' = HeldIn(S) /\ \A l : HeldOf(l, S)' = HeldOf(l, S)
<1>1. Kept' = Kept /\ \A l : From(l)' = From(l) /\ \A S : Holding(S)' = Holding(S)
  BY DEF Kept, From, Held, Total, Holding
<1> QED BY <1>1 DEF HeldIn, HeldOf

LEMMA WalletRow ==
  ASSUME wallet \in Counters
  PROVE  /\ wallet = [available |-> wallet.available, pending |-> wallet.pending,
                      reserved |-> wallet.reserved, spent |-> wallet.spent]
         /\ wallet.available \in Nat /\ wallet.pending \in Nat
         /\ wallet.reserved \in Nat /\ wallet.spent \in Nat
  BY DEF Counters

LEMMA ArrivesSound ==
  ASSUME Sound, NEW l \in Lot, Arrives(l)
  PROVE  Sound'
<1>0. /\ lots \in [Lot -> LotRow] /\ wallet \in Counters /\ Points \subseteq Nat
      /\ HeldOf(l, {"ACTIVE", "SETTLED"}) \in Nat /\ Total(Left) \in Nat
  <2>1. HeldOf(l, {"ACTIVE", "SETTLED"}) \in Nat
    BY HeldTypes DEF Sound
  <2>2. Points \subseteq Nat
    BY Sizes DEF Points
  <2> QED BY <2>1, <2>2, WalletShape DEF Sound
<1>1. PICK n \in Points, s \in {"AVAILABLE", "PENDING"} :
         /\ IsNext(l) /\ hold' = hold
         /\ lots' = [lots EXCEPT ![l] = [is |-> s, left |-> n, all |-> n]]
         /\ \/ wallet' = [wallet EXCEPT !.available = @ + n]
            \/ wallet' = [wallet EXCEPT !.pending = @ + n]
            \/ n <= wallet.spent /\ wallet' = [wallet EXCEPT !.available = @ + n, !.spent = @ - n]
  BY DEF Arrives, Accrue, Restore
<1>2. lots[l] = None /\ HeldOf(l, {"ACTIVE", "SETTLED"}) = 0
  BY <1>0, <1>1 DEF IsNext, Sound, Books, None
<1>3. /\ [is |-> s, left |-> n, all |-> n] \in LotRow /\ n \in Nat
      /\ lots' \in [Lot -> LotRow] /\ lots'[l] = [is |-> s, left |-> n, all |-> n]
      /\ \A k \in Lot \ {l} : lots'[k] = lots[k]
  BY <1>0, <1>1 DEF LotRow, Points
<1>4. Total(Left)' = Total(Left) + n
  <2>1. Total(Left)' = Total(Left) - lots[l].left + lots'[l].left
    BY <1>3, OneLotChanges DEF Sound
  <2> QED BY <1>0, <1>2, <1>3, <2>1 DEF None
<1>5. wallet' \in Counters /\ wallet'.reserved = wallet.reserved
      /\ wallet'.available + wallet'.pending = wallet.available + wallet.pending + n
  <2>1. n \in Nat
    BY <1>3
  <2>2. CASE wallet' = [wallet EXCEPT !.available = @ + n]
    <3>1. wallet' = [available |-> wallet.available + n, pending |-> wallet.pending,
                          reserved |-> wallet.reserved, spent |-> wallet.spent]
      BY <1>0, <2>2, WalletRow
    <3> QED BY <1>0, <2>1, <2>2, <3>1, WalletRow DEF Counters
  <2>3. CASE wallet' = [wallet EXCEPT !.pending = @ + n]
    <3>1. wallet' = [available |-> wallet.available, pending |-> wallet.pending + n,
                          reserved |-> wallet.reserved, spent |-> wallet.spent]
      BY <1>0, <2>3, WalletRow
    <3> QED BY <1>0, <2>1, <2>3, <3>1, WalletRow DEF Counters
  <2>4. CASE n <= wallet.spent /\ wallet' = [wallet EXCEPT !.available = @ + n, !.spent = @ - n]
    <3>1. wallet' = [available |-> wallet.available + n, pending |-> wallet.pending,
                          reserved |-> wallet.reserved, spent |-> wallet.spent - n]
      BY <1>0, <2>4, WalletRow
    <3> QED BY <1>0, <2>1, <2>4, <3>1, WalletRow DEF Counters
  <2> QED BY <1>1, <2>2, <2>3, <2>4
<1>6. Rows'
  BY <1>1, <1>3, <1>5 DEF Sound, Rows
<1>7. \A k \in Lot : /\ lots'[k].left + HeldOf(k, {"ACTIVE", "SETTLED"})' <= lots'[k].all
                     /\ lots'[k].is = "none" => lots'[k] = None
  BY <1>1, <1>2, <1>3, HoldsIdle DEF Sound, Books
<1>8. HeldIn({"ACTIVE"})' = HeldIn({"ACTIVE"})
  BY <1>1, HoldsIdle
<1> QED BY <1>4, <1>5, <1>6, <1>7, <1>8 DEF Sound, Books

LEMMA ReserveSound ==
  ASSUME Sound, NEW h \in Reservation, NEW n \in Points, Reserve(h, n)
  PROVE  Sound'
<1> DEFINE t == Take(n)
           A == {"ACTIVE"}
           G == {"ACTIVE", "SETTLED"}
<1>0. /\ lots \in [Lot -> LotRow] /\ wallet \in Counters /\ n \in Nat
      /\ hold \in [Reservation -> HoldRow] /\ t \in [Lot -> Nat] /\ Total(t) = n
      /\ \A k \in Lot : t[k] <= lots[k].left
  BY WalletShape, TakeType, TakeAll DEF Sound, Points, Reserve
<1>1. /\ hold[h].is = "none" /\ Sum(Spendable) >= n /\ wallet.available >= n
      /\ hold' = [hold EXCEPT ![h] = [is |-> "ACTIVE", of |-> t]]
      /\ lots' = [l \in Lot |-> [lots[l] EXCEPT !.left = @ - t[l]]]
      /\ wallet' = [wallet EXCEPT !.available = @ - n, !.reserved = @ + n]
  BY DEF Reserve
<1> HIDE DEF t
<1>2. /\ lots' \in [Lot -> LotRow]
      /\ \A k \in Lot : /\ lots'[k].left = lots[k].left - t[k] /\ lots'[k].all = lots[k].all
                        /\ lots'[k].is = lots[k].is
  BY <1>0, <1>1 DEF LotRow
<1>3. /\ OneHold(h) /\ hold' \in [Reservation -> HoldRow] /\ hold'[h] = [is |-> "ACTIVE", of |-> t]
  BY <1>0, <1>1 DEF OneHold, Sound, HoldRow, Stages
<1>4. Total(Left)' = Total(Left) - n /\ Total(Left) \in Nat
  BY <1>0, <1>1, <1>2, LotsLose, WalletShape DEF Sound, t
<1>5. HeldIn(A)' = HeldIn(A) + Held(h)' /\ \A l \in Lot : HeldOf(l, G)' = HeldOf(l, G) + t[l]
  BY <1>1, <1>3, HoldJoins
<1>6. Held(h)' = n
  BY <1>0, <1>3 DEF Held, Total
<1>7. wallet' \in Counters /\ wallet'.reserved = wallet.reserved + n
      /\ wallet'.available = wallet.available - n /\ wallet'.pending = wallet.pending
  <2>1. wallet' = [available |-> wallet.available - n, pending |-> wallet.pending,
                   reserved |-> wallet.reserved + n, spent |-> wallet.spent]
    BY <1>0, <1>1, WalletRow
  <2> QED BY <1>0, <1>1, <2>1, WalletRow DEF Counters
<1>8. \A l \in Lot : /\ HeldOf(l, G) \in Nat /\ lots[l].left \in Nat /\ lots[l].all \in Nat
                     /\ t[l] \in Nat /\ lots[l].left + HeldOf(l, G) <= lots[l].all
  <2>1. \A l \in Lot : HeldOf(l, G) \in Nat
    BY HeldTypes DEF Sound
  <2>2. \A l \in Lot : lots[l].left \in Nat /\ lots[l].all \in Nat /\ t[l] \in Nat
    BY <1>0 DEF LotRow
  <2> QED BY <2>1, <2>2 DEF Sound, Books
<1>9. \A l \in Lot : /\ lots'[l].left + HeldOf(l, G)' <= lots'[l].all
                     /\ lots'[l].is = "none" => lots'[l] = None
  <2> SUFFICES ASSUME NEW l \in Lot PROVE /\ lots'[l].left + HeldOf(l, G)' <= lots'[l].all
                                          /\ lots'[l].is = "none" => lots'[l] = None
    OBVIOUS
  <2>1. lots'[l].left + HeldOf(l, G)' <= lots'[l].all
    BY <1>2, <1>5, <1>8
  <2>2. ASSUME lots'[l].is = "none" PROVE lots'[l] = None
    <3>1. lots[l] = None /\ t[l] = 0
      BY <1>0, <1>2, <2>2 DEF Sound, Books, None
    <3> QED BY <1>1, <3>1 DEF None
  <2> QED BY <2>1, <2>2
<1>10. \A l \in Lot : lots'[l].left <= lots'[l].all
  BY <1>0, <1>2, <1>8 DEF Sound, Rows
<1>11. Rows'
  BY <1>2, <1>3, <1>7, <1>10 DEF Rows
<1>12. wallet.reserved = HeldIn(A) /\ wallet.available + wallet.pending = Total(Left)
       /\ wallet.available \in Nat /\ wallet.pending \in Nat
  BY <1>0 DEF Sound, Books, Counters
<1>13. wallet'.reserved = HeldIn(A)' /\ wallet'.available + wallet'.pending = Total(Left)'
  BY <1>0, <1>4, <1>5, <1>6, <1>7, <1>12
<1> QED BY <1>9, <1>11, <1>13 DEF Sound, Books

-----------------------------------------------------------------------------
(* Steps on the lots and the counters *)

LEMMA LotsStep ==
  ASSUME Sound, hold' = hold, lots' \in [Lot -> LotRow], wallet' \in Counters,
         \A k \in Lot : /\ lots'[k].left <= lots[k].left /\ lots'[k].all = lots[k].all
                        /\ lots'[k].is = "none" => lots'[k] = lots[k],
         wallet'.reserved = wallet.reserved,
         wallet'.available + wallet'.pending = Total(Left)'
  PROVE  Sound'
<1> DEFINE G == {"ACTIVE", "SETTLED"}
<1>1. \A k \in Lot : /\ HeldOf(k, G)' = HeldOf(k, G) /\ HeldOf(k, G) \in Nat
                     /\ lots[k].left + HeldOf(k, G) <= lots[k].all
                     /\ lots[k].is = "none" => lots[k] = None
  BY HoldsIdle, HeldTypes DEF Sound, Books
<1>2. \A k \in Lot : /\ lots[k].left \in Nat /\ lots[k].all \in Nat /\ lots[k].left <= lots[k].all
                     /\ lots'[k].left \in Nat /\ lots'[k].all \in Nat
  BY DEF Sound, Rows, LotRow
<1>3. \A k \in Lot : lots'[k].left + HeldOf(k, G)' <= lots'[k].all /\ lots'[k].left <= lots'[k].all
  BY <1>1, <1>2
<1>4. \A k \in Lot : lots'[k].is = "none" => lots'[k] = None
  BY <1>1
<1>5. HeldIn({"ACTIVE"})' = HeldIn({"ACTIVE"})
  BY HoldsIdle
<1>6. Rows'
  BY <1>3 DEF Sound, Rows
<1> QED BY <1>3, <1>4, <1>5, <1>6 DEF Sound, Books

LEMMA DebitSound ==
  ASSUME Sound, NEW n \in Points, ManualDebit(n)
  PROVE  Sound'
<1> DEFINE t == Take(n)
<1>0. /\ lots \in [Lot -> LotRow] /\ wallet \in Counters /\ n \in Nat
      /\ t \in [Lot -> Nat] /\ Total(Left) \in Nat
      /\ \A k \in Lot : t[k] <= lots[k].left /\ (t[k] > 0 => k \in Spendable)
  BY WalletShape, TakeType DEF Sound, Points
<1>1. /\ hold' = hold /\ Sum(Spendable) >= n /\ wallet.available >= n
      /\ lots' = [l \in Lot |-> [lots[l] EXCEPT
                    !.left = @ - t[l],
                    !.is = IF t[l] > 0 /\ t[l] = lots[l].left THEN "CONSUMED" ELSE @]]
      /\ wallet' = [wallet EXCEPT !.available = @ - n, !.spent = @ + n]
  BY DEF ManualDebit
<1> HIDE DEF t
<1>2. ASSUME NEW k \in Lot
      PROVE  /\ lots'[k] \in LotRow /\ lots'[k].left = lots[k].left - t[k]
             /\ lots'[k].left <= lots[k].left /\ lots'[k].all = lots[k].all
             /\ lots'[k].is = "none" => lots'[k] = lots[k]
  <2> DEFINE s == IF t[k] > 0 /\ t[k] = lots[k].left THEN "CONSUMED" ELSE lots[k].is
  <2>1. lots[k] = [is |-> lots[k].is, left |-> lots[k].left, all |-> lots[k].all]
        /\ lots[k] \in LotRow
    BY <1>0 DEF LotRow
  <2>2. lots'[k] = [is |-> s, left |-> lots[k].left - t[k], all |-> lots[k].all]
    BY <1>1, <2>1
  <2>3. t[k] \in Nat /\ t[k] <= lots[k].left /\ lots[k].left \in Nat
    BY <1>0 DEF LotRow
  <2>4. lots'[k] \in LotRow
    BY <2>1, <2>2, <2>3 DEF LotRow
  <2>5. ASSUME lots'[k].is = "none" PROVE lots'[k] = lots[k]
    <3>1. lots[k].is = "none" /\ t[k] = 0
      BY <1>0, <2>2, <2>3, <2>5 DEF Spendable
    <3> QED BY <2>1, <2>2, <2>3, <3>1
  <2> QED BY <2>2, <2>3, <2>4, <2>5
<1>3. lots' \in [Lot -> LotRow]
  BY <1>1, <1>2
<1>4. Total(Left)' = Total(Left) - n
  BY <1>0, <1>1, <1>2, <1>3, LotsLose DEF Sound, t
<1>5. wallet' \in Counters /\ wallet'.reserved = wallet.reserved
      /\ wallet'.available = wallet.available - n /\ wallet'.pending = wallet.pending
  <2>1. wallet' = [available |-> wallet.available - n, pending |-> wallet.pending,
                   reserved |-> wallet.reserved, spent |-> wallet.spent + n]
    BY <1>0, <1>1, WalletRow
  <2>2. wallet.available - n \in Nat /\ wallet.spent + n \in Nat
    <3>1. wallet.available \in Nat /\ wallet.spent \in Nat
      BY <1>0, WalletRow
    <3>2. n \in Nat /\ wallet.available >= n
      BY <1>0, <1>1
    <3> QED BY <3>1, <3>2
  <2> QED BY <1>0, <2>1, <2>2, WalletRow DEF Counters
<1>6. wallet'.available + wallet'.pending = Total(Left)'
  <2>1. wallet.available + wallet.pending = Total(Left)
    BY DEF Sound, Books
  <2> QED BY <1>0, <1>4, <1>5, <2>1, WalletRow
<1> QED BY <1>1, <1>2, <1>3, <1>5, <1>6, LotsStep

LEMMA PromoteSound ==
  ASSUME Sound, NEW s \in Sweeper, PromoteCommit(s),
         promoting \in [Sweeper -> [lot : 0..Lots, moved : Nat]]
  PROVE  Sound'
<1> DEFINE l == promoting[s].lot
           moved == promoting[s].moved
<1>0. lots \in [Lot -> LotRow] /\ wallet \in Counters /\ moved \in Nat /\ Total(Left) \in Nat
  BY WalletShape DEF Sound
<1>1. /\ hold' = hold /\ wallet.pending >= moved /\ lots' = [lots EXCEPT ![l].is = "AVAILABLE"]
      /\ wallet' = [wallet EXCEPT !.pending = @ - moved, !.available = @ + moved]
  BY DEF PromoteCommit
<1> HIDE DEF l, moved
<1>2. ASSUME NEW k \in Lot
      PROVE  /\ lots'[k] \in LotRow /\ lots'[k].left = lots[k].left /\ lots'[k].all = lots[k].all
             /\ lots'[k].is = "none" => lots'[k] = lots[k]
  BY <1>0, <1>1 DEF LotRow
<1>3. lots' \in [Lot -> LotRow]
  BY <1>0, <1>1, <1>2
<1>4. Total(Left)' = Total(Left)
  BY <1>2, NoLotChanges
<1>5. wallet' \in Counters /\ wallet'.reserved = wallet.reserved
      /\ wallet'.available = wallet.available + moved /\ wallet'.pending = wallet.pending - moved
  <2>1. wallet' = [available |-> wallet.available + moved, pending |-> wallet.pending - moved,
                   reserved |-> wallet.reserved, spent |-> wallet.spent]
    BY <1>0, <1>1, WalletRow
  <2> QED BY <1>0, <1>1, <2>1, WalletRow DEF Counters
<1>6. wallet'.available + wallet'.pending = Total(Left)'
  <2>1. wallet.available + wallet.pending = Total(Left)
    BY DEF Sound, Books
  <2> QED BY <1>0, <1>4, <1>5, <2>1, WalletRow
<1>7. \A k \in Lot : lots'[k].left <= lots[k].left
  BY <1>0, <1>2 DEF LotRow
<1> QED BY <1>1, <1>2, <1>3, <1>5, <1>6, <1>7, LotsStep

\* Expiry and the clawback take n points out of one lot and out of one counter.
LEMMA OneLotLoses ==
  ASSUME Sound, hold' = hold, NEW l \in Lot, NEW n \in Nat, n <= lots[l].left,
         NEW s \in {"EXPIRED", "CONSUMED", lots[l].is},
         lots[l].is # "none" \/ n = 0,
         lots' = [lots EXCEPT ![l] = [is |-> s, left |-> lots[l].left - n, all |-> lots[l].all]],
         \/ wallet.available >= n /\ wallet' = [wallet EXCEPT !.available = @ - n]
         \/ wallet.pending >= n /\ wallet' = [wallet EXCEPT !.pending = @ - n]
  PROVE  Sound'
<1>0. lots \in [Lot -> LotRow] /\ wallet \in Counters /\ Total(Left) \in Nat
      /\ lots[l] = [is |-> lots[l].is, left |-> lots[l].left, all |-> lots[l].all]
  BY WalletShape DEF Sound, LotRow
<1>1. /\ lots'[l] = [is |-> s, left |-> lots[l].left - n, all |-> lots[l].all]
      /\ lots'[l] \in LotRow /\ \A k \in Lot \ {l} : lots'[k] = lots[k]
      /\ lots' \in [Lot -> LotRow]
  BY <1>0 DEF LotRow
<1>2. lots'[l].is = "none" => lots'[l] = lots[l]
  <2> SUFFICES ASSUME lots'[l].is = "none" PROVE lots'[l] = lots[l]
    OBVIOUS
  <2>1. s = lots[l].is /\ n = 0
    BY <1>1
  <2>2. lots[l].left - 0 = lots[l].left
    BY <1>0 DEF LotRow
  <2> QED BY <1>0, <1>1, <2>1, <2>2
<1>3. \A k \in Lot : /\ lots'[k].left <= lots[k].left /\ lots'[k].all = lots[k].all
                     /\ lots'[k].is = "none" => lots'[k] = lots[k]
  BY <1>0, <1>1, <1>2 DEF LotRow
<1>4. Total(Left)' = Total(Left) - n
  <2>1. Total(Left)' = Total(Left) - lots[l].left + lots'[l].left
    BY <1>1, OneLotChanges DEF Sound
  <2> QED BY <1>0, <1>1, <2>1 DEF LotRow
<1>5. wallet' \in Counters /\ wallet'.reserved = wallet.reserved
      /\ wallet'.available + wallet'.pending = wallet.available + wallet.pending - n
  <2>1. CASE wallet.available >= n /\ wallet' = [wallet EXCEPT !.available = @ - n]
    <3>1. wallet' = [available |-> wallet.available - n, pending |-> wallet.pending,
                     reserved |-> wallet.reserved, spent |-> wallet.spent]
      BY <1>0, <2>1, WalletRow
    <3> QED BY <1>0, <2>1, <3>1, WalletRow DEF Counters
  <2>2. CASE wallet.pending >= n /\ wallet' = [wallet EXCEPT !.pending = @ - n]
    <3>1. wallet' = [available |-> wallet.available, pending |-> wallet.pending - n,
                     reserved |-> wallet.reserved, spent |-> wallet.spent]
      BY <1>0, <2>2, WalletRow
    <3> QED BY <1>0, <2>2, <3>1, WalletRow DEF Counters
  <2> QED BY <2>1, <2>2
<1>6. wallet'.available + wallet'.pending = Total(Left)'
  <2>1. wallet.available + wallet.pending = Total(Left)
    BY DEF Sound, Books
  <2>2. wallet.available + wallet.pending - n = Total(Left)'
    BY <1>0, <1>4, <2>1, WalletRow
  <2> QED BY <1>5, <2>2
<1> QED BY <1>1, <1>3, <1>5, <1>6, LotsStep

LEMMA ExpireSound ==
  ASSUME Sound, NEW l \in Lot, Expire(l)
  PROVE  Sound'
<1>0. lots \in [Lot -> LotRow] /\ lots[l] \in LotRow
  BY DEF Sound, Rows
<1>1. lots[l].left \in Nat /\ lots[l].left - lots[l].left = 0
  BY <1>0 DEF LotRow
<1>2. lots' = [lots EXCEPT ![l] = [is |-> "EXPIRED", left |-> lots[l].left - lots[l].left,
                                   all |-> lots[l].all]]
  BY <1>0, <1>1 DEF Expire, LotRow
<1>3. /\ hold' = hold /\ lots[l].is # "none" /\ lots[l].left <= lots[l].left
      /\ \/ wallet.available >= lots[l].left
            /\ wallet' = [wallet EXCEPT !.available = @ - lots[l].left]
         \/ wallet.pending >= lots[l].left
            /\ wallet' = [wallet EXCEPT !.pending = @ - lots[l].left]
  BY <1>1 DEF Expire
<1> DEFINE n == lots[l].left
           s == "EXPIRED"
<1>4. /\ n \in Nat /\ s \in {"EXPIRED", "CONSUMED", lots[l].is}
      /\ lots' = [lots EXCEPT ![l] = [is |-> s, left |-> lots[l].left - n, all |-> lots[l].all]]
  BY <1>1, <1>2
<1>5. \/ wallet.available >= n /\ wallet' = [wallet EXCEPT !.available = @ - n]
      \/ wallet.pending >= n /\ wallet' = [wallet EXCEPT !.pending = @ - n]
  BY <1>3
<1>6. n <= lots[l].left
  BY <1>1
<1> HIDE DEF n, s
<1> QED BY <1>3, <1>4, <1>5, <1>6, OneLotLoses

LEMMA Rewritten ==
  ASSUME NEW r \in LotRow, NEW x, NEW s
  PROVE  [r EXCEPT !.left = x, !.is = s] = [is |-> s, left |-> x, all |-> r.all]
<1>1. r = [is |-> r.is, left |-> r.left, all |-> r.all]
  BY DEF LotRow
<1>2. PICK a, b, c : r = [is |-> a, left |-> b, all |-> c]
  BY <1>1
<1>3. [r EXCEPT !.left = x] = [is |-> a, left |-> x, all |-> c]
  BY <1>2
<1>4. [[is |-> a, left |-> x, all |-> c] EXCEPT !.is = s] = [is |-> s, left |-> x, all |-> c]
  OBVIOUS
<1>5. r.all = c
  BY <1>2
<1> QED BY <1>3, <1>4, <1>5

LEMMA ClawSound ==
  ASSUME Sound, ClawCommit, clawing.lot \in Lot, clawing.amount \in Nat
  PROVE  Sound'
<1> DEFINE l == clawing.lot
           n == clawing.amount
           s == IF clawing.drains THEN "CONSUMED" ELSE lots[l].is
<1>0. lots \in [Lot -> LotRow] /\ lots[l] \in LotRow
  BY DEF Sound, Rows
<1>1. lots' = [lots EXCEPT ![l] = [is |-> s, left |-> lots[l].left - n, all |-> lots[l].all]]
  <2>1. lots' = [lots EXCEPT ![l] = [lots[l] EXCEPT !.left = lots[l].left - n, !.is = s]]
    BY <1>0 DEF ClawCommit, LotRow
  <2>2. [lots[l] EXCEPT !.left = lots[l].left - n, !.is = s]
          = [is |-> s, left |-> lots[l].left - n, all |-> lots[l].all]
    BY <1>0, Rewritten
  <2> QED BY <2>1, <2>2
<1>2. lots[l].is # "none" \/ n = 0
  BY <1>0 DEF ClawCommit, Sound, Books, None
<1>3. n <= lots[l].left /\ s \in {"EXPIRED", "CONSUMED", lots[l].is}
  BY <1>0 DEF ClawCommit, LotRow
<1> QED BY <1>1, <1>2, <1>3, OneLotLoses DEF ClawCommit

-----------------------------------------------------------------------------
(* Steps on a reservation and the counters *)

LEMMA HeldTypesAfter ==
  ASSUME hold' \in [Reservation -> HoldRow]
  PROVE  \A S : HeldIn(S)' \in Nat /\ \A l \in Lot : HeldOf(l, S)' \in Nat
<1> SUFFICES ASSUME NEW S PROVE HeldIn(S)' \in Nat /\ \A l \in Lot : HeldOf(l, S)' \in Nat
  OBVIOUS
<1>1. IsFiniteSet(Holding(S)') /\ Holding(S)' \in SUBSET Reservation
  BY ReservationsEnd, FS_Subset DEF Holding
<1>2. IsFiniteSet(Lot) /\ \A h \in Reservation : hold'[h].of \in [Lot -> Nat]
  <2>1. IsFiniteSet(Lot)
    BY Sizes, FS_Interval DEF Lot
  <2> QED BY <2>1 DEF HoldRow
<1>3. \A h \in Reservation : Held(h)' \in Nat
  BY <1>2, SumNat DEF Held, Total
<1>4. HeldIn(S)' \in Nat
  <2> DEFINE f == Kept'
             H == Holding(S)'
  <2>1. \A h \in H : f[h] \in Nat
    BY <1>1, <1>3 DEF Kept
  <2>2. HeldIn(S)' = SumFunctionOnSet(f, H)
    BY DEF HeldIn
  <2> HIDE DEF f
  <2> QED BY <1>1, <2>1, <2>2, SumNat
<1>5. ASSUME NEW l \in Lot PROVE HeldOf(l, S)' \in Nat
  <2> DEFINE f == From(l)'
             H == Holding(S)'
  <2>1. \A h \in H : f[h] \in Nat
    BY <1>1, <1>2 DEF From
  <2>2. HeldOf(l, S)' = SumFunctionOnSet(f, H)
    BY DEF HeldOf
  <2> HIDE DEF f
  <2> QED BY <1>1, <2>1, <2>2, SumNat
<1> QED BY <1>4, <1>5

\* A reservation moves to another stage and keeps its allocations.
LEMMA StageMoves ==
  ASSUME Rows, NEW h \in Reservation, NEW s \in Stages, hold' = [hold EXCEPT ![h].is = s]
  PROVE  /\ OneHold(h) /\ hold'[h].is = s /\ hold'[h].of = hold[h].of
         /\ hold' \in [Reservation -> HoldRow]
<1>1. hold \in [Reservation -> HoldRow]
  BY DEF Rows
<1>2. [hold[h] EXCEPT !.is = s] = [is |-> s, of |-> hold[h].of]
  <2>1. hold[h] = [is |-> hold[h].is, of |-> hold[h].of]
    BY <1>1 DEF HoldRow
  <2> QED BY <2>1
<1>3. hold' = [hold EXCEPT ![h] = [is |-> s, of |-> hold[h].of]]
  BY <1>2
<1> QED BY <1>1, <1>3 DEF OneHold, HoldRow, Rows

LEMMA HandBackSound ==
  ASSUME Sound, NEW h \in Reservation, hold[h].is \in {"ACTIVE", "SETTLED"}, HandBack(h),
         NEW s \in {"RELEASED", "reversed"}, hold' = [hold EXCEPT ![h].is = s],
         wallet' \in Counters,
         wallet'.available + wallet'.pending = wallet.available + wallet.pending + Held(h),
         wallet'.reserved = HeldIn({"ACTIVE"})'
  PROVE  Sound'
<1> DEFINE t == hold[h].of
           G == {"ACTIVE", "SETTLED"}
<1>0. Rows /\ lots \in [Lot -> LotRow] /\ t \in [Lot -> Nat]
  BY WalletShape DEF Sound
<1>1. OneHold(h) /\ hold'[h].is = s /\ hold' \in [Reservation -> HoldRow] /\ s \notin G
  BY StageMoves DEF Sound, Stages
<1>2. \A l \in Lot : HeldOf(l, G)' = HeldOf(l, G) - t[l]
  BY <1>1, HoldLeaves
<1>3. \A l \in Lot : /\ HeldOf(l, G)' \in Nat /\ HeldOf(l, G) \in Nat /\ t[l] \in Nat
                     /\ lots[l].left \in Nat /\ lots[l].all \in Nat
                     /\ lots[l].left + HeldOf(l, G) <= lots[l].all
  <2>1. \A l \in Lot : HeldOf(l, G)' \in Nat /\ HeldOf(l, G) \in Nat
    BY <1>1, HeldTypesAfter, HeldTypes DEF Sound
  <2>2. \A l \in Lot : t[l] \in Nat /\ lots[l].left \in Nat /\ lots[l].all \in Nat
    BY <1>0 DEF LotRow
  <2> QED BY <2>1, <2>2 DEF Sound, Books
<1>4. ASSUME NEW k \in Lot
      PROVE  /\ lots'[k] \in LotRow /\ lots'[k].left = lots[k].left + t[k]
             /\ lots'[k].all = lots[k].all
             /\ lots'[k].is = "none" => lots'[k] = lots[k]
  <2>1. lots[k] = [is |-> lots[k].is, left |-> lots[k].left, all |-> lots[k].all]
        /\ lots[k] \in LotRow
    BY <1>0 DEF LotRow
  <2>2. CASE t[k] > 0
    <3>1. lots'[k] = [is |-> "AVAILABLE", left |-> lots[k].left + t[k], all |-> lots[k].all]
      <4>1. lots'[k] = [lots[k] EXCEPT !.left = lots[k].left + t[k], !.is = "AVAILABLE"]
        BY <2>2 DEF HandBack
      <4> QED BY <2>1, <4>1, Rewritten
    <3> QED BY <1>3, <2>1, <3>1 DEF LotRow
  <2>3. CASE ~(t[k] > 0)
    <3>1. lots'[k] = lots[k]
      BY <2>3 DEF HandBack
    <3>2. t[k] = 0
      BY <1>3, <2>3
    <3> QED BY <1>3, <2>1, <3>1, <3>2
  <2> QED BY <2>2, <2>3
<1>5. lots' \in [Lot -> LotRow]
  BY <1>4 DEF HandBack
<1>6. Total(Left)' = Total(Left) + Held(h)
  BY <1>4, <1>5, LotsRegain DEF Sound
<1>7. \A k \in Lot : lots'[k].left + HeldOf(k, G)' <= lots'[k].all /\ lots'[k].left <= lots'[k].all
  <2> SUFFICES ASSUME NEW k \in Lot
               PROVE  lots'[k].left + HeldOf(k, G)' <= lots'[k].all /\ lots'[k].left <= lots'[k].all
    OBVIOUS
  <2>1. /\ lots'[k].left = lots[k].left + t[k] /\ lots'[k].all = lots[k].all
        /\ HeldOf(k, G)' = HeldOf(k, G) - t[k]
    BY <1>2, <1>4
  <2> HIDE DEF t, G
  <2> QED BY <1>3, <2>1
<1>8. \A k \in Lot : lots'[k].is = "none" => lots'[k] = None
  BY <1>4 DEF Sound, Books
<1>9. wallet'.available + wallet'.pending = Total(Left)'
  <2>1. wallet.available + wallet.pending = Total(Left)
    BY DEF Sound, Books
  <2> QED BY <1>6, <2>1
<1>10. Rows'
  BY <1>1, <1>5, <1>7 DEF Rows
<1> QED BY <1>7, <1>8, <1>9, <1>10 DEF Sound, Books

LEMMA ReleaseSound ==
  ASSUME Sound, NEW h \in Reservation, ReleaseCommit(h)
  PROVE  Sound'
<1>1. CASE UNCHANGED <<lots, hold, wallet>>
  BY <1>1, NoMove
<1>2. CASE hold[h].is = "ACTIVE"
  <2> DEFINE n == Held(h)
             A == {"ACTIVE"}
  <2>1. /\ hold' = [hold EXCEPT ![h].is = "RELEASED"] /\ HandBack(h)
        /\ wallet' = [wallet EXCEPT !.reserved = @ - n, !.available = @ + n]
    BY <1>2 DEF ReleaseCommit
  <2>2. OneHold(h) /\ hold'[h].is = "RELEASED" /\ hold' \in [Reservation -> HoldRow]
    BY <2>1, StageMoves DEF Sound, Stages
  <2>3. HeldIn(A)' = HeldIn(A) - n
    BY <1>2, <2>2, HoldLeaves
  <2>4. HeldIn(A)' \in Nat /\ HeldIn(A) \in Nat
    BY <2>2, HeldTypesAfter, HeldTypes DEF Sound
  <2>5. wallet.reserved = HeldIn(A) /\ wallet \in Counters /\ n \in Nat
    BY WalletShape DEF Sound, Rows, Books
  <2> HIDE DEF n, A
  <2>6. wallet' = [available |-> wallet.available + n, pending |-> wallet.pending,
                   reserved |-> wallet.reserved - n, spent |-> wallet.spent]
    BY <2>1, <2>5, WalletRow
  <2>7. wallet.available + n \in Nat /\ wallet.reserved - n \in Nat
    BY <2>3, <2>4, <2>5, WalletRow
  <2>8. /\ wallet' \in Counters /\ wallet'.reserved = HeldIn(A)'
        /\ wallet'.available + wallet'.pending = wallet.available + wallet.pending + n
    BY <2>3, <2>5, <2>6, <2>7, WalletRow DEF Counters
  <2> QED BY <1>2, <2>1, <2>8, HandBackSound DEF n, A
<1> QED BY <1>1, <1>2 DEF ReleaseCommit

LEMMA ReverseSound ==
  ASSUME Sound, NEW h \in Reservation, Reverse(h)
  PROVE  Sound'
<1> DEFINE n == Held(h)
           A == {"ACTIVE"}
<1>1. /\ hold[h].is = "SETTLED" /\ wallet.spent >= n
      /\ hold' = [hold EXCEPT ![h].is = "reversed"] /\ HandBack(h)
      /\ wallet' = [wallet EXCEPT !.available = @ + n, !.spent = @ - n]
  BY DEF Reverse
<1>2. OneHold(h) /\ hold'[h].is = "reversed" /\ hold'[h].of = hold[h].of
  BY <1>1, StageMoves DEF Sound, Stages
<1>3. HeldIn(A)' = HeldIn(A)
  BY <1>1, <1>2, HoldStays
<1>4. wallet.reserved = HeldIn(A) /\ wallet \in Counters /\ n \in Nat
  BY WalletShape DEF Sound, Rows, Books
<1> HIDE DEF n, A
<1>5. wallet' = [available |-> wallet.available + n, pending |-> wallet.pending,
                 reserved |-> wallet.reserved, spent |-> wallet.spent - n]
  BY <1>1, <1>4, WalletRow
<1>6. wallet.available + n \in Nat /\ wallet.spent - n \in Nat
  BY <1>1, <1>4, WalletRow
<1>7. /\ wallet' \in Counters /\ wallet'.reserved = HeldIn(A)'
      /\ wallet'.available + wallet'.pending = wallet.available + wallet.pending + n
  BY <1>3, <1>4, <1>5, <1>6, WalletRow DEF Counters
<1> QED BY <1>1, <1>7, HandBackSound DEF n, A

LEMMA SettleSound ==
  ASSUME Sound, ClaimedIsActive, NEW h \in Reservation, SettleCommit(h)
  PROVE  Sound'
<1> DEFINE n == Held(h)
           A == {"ACTIVE"}
           G == {"ACTIVE", "SETTLED"}
<1>0. /\ Rows /\ lots \in [Lot -> LotRow] /\ wallet \in Counters /\ n \in Nat
      /\ wallet.reserved = HeldIn(A)
  BY WalletShape DEF Sound, Books
<1>1. /\ hold[h].is = "ACTIVE" /\ hold' = [hold EXCEPT ![h].is = "SETTLED"]
      /\ lots' = [l \in Lot |-> IF l \in settling[h].empty THEN [lots[l] EXCEPT !.is = "CONSUMED"]
                                                           ELSE lots[l]]
      /\ wallet' = [wallet EXCEPT !.reserved = @ - n, !.spent = @ + n]
  BY DEF SettleCommit, ClaimedIsActive
<1>2. /\ OneHold(h) /\ hold'[h].is = "SETTLED" /\ hold'[h].of = hold[h].of
      /\ hold' \in [Reservation -> HoldRow]
  BY <1>1, StageMoves DEF Sound, Stages
<1>3. HeldIn(A)' = HeldIn(A) - n
  BY <1>1, <1>2, HoldLeaves
<1>4. \A l \in Lot : HeldOf(l, G)' = HeldOf(l, G)
  BY <1>1, <1>2, HoldStays
<1>5. HeldIn(A)' \in Nat /\ HeldIn(A) \in Nat
  BY <1>2, HeldTypesAfter, HeldTypes DEF Sound
<1>6. ASSUME NEW k \in Lot
      PROVE  /\ lots'[k] \in LotRow /\ lots'[k].left = lots[k].left /\ lots'[k].all = lots[k].all
             /\ lots'[k].is = "none" => lots'[k] = lots[k]
  BY <1>0, <1>1 DEF LotRow
<1>7. lots' \in [Lot -> LotRow]
  BY <1>1, <1>6
<1>8. Total(Left)' = Total(Left)
  BY <1>6, NoLotChanges
<1>9. /\ wallet' \in Counters /\ wallet'.reserved = HeldIn(A)'
      /\ wallet'.available + wallet'.pending = wallet.available + wallet.pending
  <2> HIDE DEF n, A
  <2>1. wallet' = [available |-> wallet.available, pending |-> wallet.pending,
                   reserved |-> wallet.reserved - n, spent |-> wallet.spent + n]
    BY <1>0, <1>1, WalletRow
  <2>2. wallet.reserved - n \in Nat /\ wallet.spent + n \in Nat
    BY <1>0, <1>3, <1>5, WalletRow
  <2> QED BY <1>0, <1>3, <2>1, <2>2, WalletRow DEF Counters
<1>10. \A k \in Lot : /\ lots'[k].left + HeldOf(k, G)' <= lots'[k].all
                      /\ lots'[k].left <= lots'[k].all
                      /\ lots'[k].is = "none" => lots'[k] = None
  BY <1>4, <1>6 DEF Sound, Rows, Books
<1>11. Rows'
  BY <1>2, <1>7, <1>9, <1>10 DEF Rows
<1>12. wallet'.available + wallet'.pending = Total(Left)'
  BY <1>8, <1>9 DEF Sound, Books
<1> QED BY <1>9, <1>10, <1>11, <1>12 DEF Sound, Books

-----------------------------------------------------------------------------
(* Every step *)

\* What the open transactions have read.
Running ==
  /\ releasing \subseteq Reservation
  /\ promoting \in [Sweeper -> [lot : 0..Lots, moved : Nat]]
  /\ clawing \in [lot : 0..Lots, amount : Nat, pending : BOOLEAN, drains : BOOLEAN]
  /\ clawing # NoClaw => clawing.lot \in Lot

LEMMA RunningStep ==
  ASSUME Rows, Running, [WalletNext]_walletVars
  PROVE  Running'
<1>0. /\ \A l \in Lot : lots[l].left \in Nat /\ l \in 0..Lots
      /\ \A n \in Points : n \in Nat
      /\ 0 \in 0..Lots
  BY Sizes DEF Rows, LotRow, Lot, Points
<1>1. CASE UNCHANGED <<releasing, promoting, clawing>>
  BY <1>1 DEF Running
<1>2. ASSUME NEW h \in Reservation, ReleaseStep(h) PROVE Running'
  BY <1>2 DEF ReleaseStep, ReleaseCheck, ReleaseCommit, ReleaseDies, Running
<1>3. ASSUME NEW s \in Sweeper, PromoteStep(s) PROVE Running'
  <2>1. promoting' \in [Sweeper -> [lot : 0..Lots, moved : Nat]]
    BY <1>0, <1>3 DEF PromoteStep, PromoteRead, PromoteCommit, PromoteDies, Running, NoRun
  <2>2. UNCHANGED <<releasing, clawing>>
    BY <1>3 DEF PromoteStep, PromoteRead, PromoteCommit, PromoteDies
  <2> QED BY <2>1, <2>2 DEF Running
<1>4. CASE ClawStep
  <2>1. ASSUME NEW l \in Lot, NEW n \in Points, ClawRead(l, n) PROVE Running'
    <3> DEFINE amount == IF n < lots[l].left THEN n ELSE lots[l].left
    <3>1. clawing' = [lot |-> l, amount |-> amount, pending |-> lots[l].is = "PENDING",
                      drains |-> amount = lots[l].left]
      BY <2>1 DEF ClawRead
    <3>2. amount \in Nat
      BY <1>0
    <3> HIDE DEF amount
    <3>3. UNCHANGED <<releasing, promoting>>
      BY <2>1 DEF ClawRead
    <3> QED BY <1>0, <3>1, <3>2, <3>3 DEF Running
  <2>2. CASE ClawCommit \/ ClawDies
    <3>1. clawing' = NoClaw /\ UNCHANGED <<releasing, promoting>>
      BY <2>2 DEF ClawCommit, ClawDies
    <3>2. NoClaw \in [lot : 0..Lots, amount : Nat, pending : BOOLEAN, drains : BOOLEAN]
      BY <1>0 DEF NoClaw
    <3> QED BY <3>1, <3>2 DEF Running
  <2> QED BY <1>4, <2>1, <2>2 DEF ClawStep
<1>5. ASSUME NEW h \in Reservation, SettleStep(h) \/ Reverse(h) \/ \E n \in Points : Reserve(h, n)
      PROVE  Running'
  BY <1>1, <1>5 DEF SettleStep, SettleCheck, SettleClaim, SettleCommit, SettleDies, Reverse, Reserve
<1>6. CASE \/ \E l \in Lot : Arrives(l) \/ Expire(l)
           \/ \E n \in Points : ManualDebit(n)
           \/ UNCHANGED walletVars
  BY <1>1, <1>6 DEF Arrives, Accrue, Restore, Expire, ManualDebit, walletVars
<1> QED BY <1>2, <1>3, <1>4, <1>5, <1>6 DEF WalletNext, HoldStep

LEMMA SoundStep ==
  ASSUME Sound, Running, ClaimedIsActive, [WalletNext]_walletVars
  PROVE  Sound'
<1>1. ASSUME NEW l \in Lot, Arrives(l) \/ Expire(l) PROVE Sound'
  BY <1>1, ArrivesSound, ExpireSound
<1>2. ASSUME NEW h \in Reservation, HoldStep(h) PROVE Sound'
  <2>1. CASE \E n \in Points : Reserve(h, n)
    BY <2>1, ReserveSound
  <2>2. CASE SettleStep(h)
    <3>1. CASE UNCHANGED <<lots, hold, wallet>>
      BY <3>1, NoMove
    <3> QED BY <2>2, <3>1, SettleSound DEF SettleStep, SettleCheck, SettleClaim, SettleDies
  <2>3. CASE ReleaseStep(h)
    <3>1. CASE UNCHANGED <<lots, hold, wallet>>
      BY <3>1, NoMove
    <3> QED BY <2>3, <3>1, ReleaseSound DEF ReleaseStep, ReleaseCheck, ReleaseDies
  <2>4. CASE Reverse(h)
    BY <2>4, ReverseSound
  <2> QED BY <1>2, <2>1, <2>2, <2>3, <2>4 DEF HoldStep
<1>3. ASSUME NEW n \in Points, ManualDebit(n) PROVE Sound'
  BY <1>3, DebitSound
<1>4. ASSUME NEW s \in Sweeper, PromoteStep(s) PROVE Sound'
  <2>1. CASE UNCHANGED <<lots, hold, wallet>>
    BY <2>1, NoMove
  <2> QED BY <1>4, <2>1, PromoteSound DEF PromoteStep, PromoteRead, PromoteDies, Running
<1>5. CASE ClawStep
  <2>1. CASE UNCHANGED <<lots, hold, wallet>>
    BY <2>1, NoMove
  <2>2. CASE ClawCommit
    <3>1. clawing.lot \in Lot /\ clawing.amount \in Nat
      BY <2>2 DEF ClawCommit, Running
    <3> QED BY <2>2, <3>1, ClawSound
  <2> QED BY <1>5, <2>1, <2>2 DEF ClawStep, ClawRead, ClawDies
<1>6. CASE UNCHANGED walletVars
  BY <1>6, NoMove DEF walletVars
<1> QED BY <1>1, <1>2, <1>3, <1>4, <1>5, <1>6 DEF WalletNext

\* The inductive invariant.
WalletInv == Sound /\ Running /\ ClaimedIsActive

LEMMA RunningInit == WalletInit => Running
  BY Sizes DEF WalletInit, Running, NoRun, NoClaw

\* The counters, the lots and the reservations agree in every reachable state,
\* whatever the transactions that are open have read.
THEOREM WalletInvariance == WalletSpec => []WalletInv
<1>1. WalletInit => WalletInv
  BY SoundInit, RunningInit, InitClaims DEF WalletInv
<1>2. WalletInv /\ [WalletNext]_walletVars => WalletInv'
  BY SoundStep, RunningStep, EveryStepMoves DEF WalletInv, Sound
<1> QED BY <1>1, <1>2, PTL DEF WalletSpec

\* No balance and no lot is ever negative, and no lot has more left than it was
\* issued with: the writes that no CHECK of the migration guards (a release, a
\* settlement, a reversal) never need one.
THEOREM WalletTypeCorrect == WalletSpec => []WalletTypeOK
<1>1. WalletInv => WalletTypeOK
  BY DEF WalletInv, Sound, Running, Rows, ClaimedIsActive, WalletTypeOK, LotRow, HoldRow, Stages, Counters
<1> QED BY <1>1, WalletInvariance, PTL

\* For any number of lots and reservations, settled, released, swept and
\* compensated in any order: the reserved counter is what the ACTIVE ones hold.
THEOREM ReservedIsWhatIsHeld == WalletSpec => []ReservedIsHeld
<1>1. WalletInv => ReservedIsHeld
  BY DEF WalletInv, Sound, Books, ReservedIsHeld, HeldIn
<1> QED BY <1>1, WalletInvariance, PTL

\* Whatever arrives, is held, spent, given back, promoted, expired or clawed
\* back: the counters promise the points that the lots have left, no more and
\* no less.
THEOREM PointsAreInLots == WalletSpec => []NoPointFromNowhere
<1>1. WalletInv => NoPointFromNowhere
  BY DEF WalletInv, Sound, Books, NoPointFromNowhere
<1> QED BY <1>1, WalletInvariance, PTL

\* What a lot has left and what is held or spent of it never exceeds what it was
\* issued with, for any number of reservations on it.
THEOREM PointsAreInOnePlace == WalletSpec => []NoPointTwice
<1>1. WalletInv => NoPointTwice
  BY DEF WalletInv, Sound, Books, NoPointTwice, HeldOf
<1> QED BY <1>1, WalletInvariance, PTL
=============================================================================

----------------------------- MODULE DeferredLot -----------------------------
(***************************************************************************)
(* One deferred bonus lot: the share of a confirmed purchase that becomes  *)
(* spendable only once the customer's later purchases reach a turnover.    *)
(* Later purchases are confirmed by READ COMMITTED transactions that read  *)
(* the lot, then write it; refunds are SERIALIZABLE, so each is one step;  *)
(* the expiry sweep reads its list before its transactions. BONUS_LIABILITY*)
(* is followed for this lot alone, from the credit its purchase posted.    *)
(***************************************************************************)
EXTENDS Integers, FiniteSets, FiniteSetsExt

CONSTANTS Amount,     \* the lot's amount
          Required,   \* requiredTurnover
          Gross,      \* what each later purchase adds to the turnover
          Purchase    \* the later purchases

ASSUME Amounts == Amount \in Nat \ {0} /\ Required \in Nat \ {0} /\ Gross \in Nat \ {0}
ASSUME PurchasesEnd == IsFiniteSet(Purchase)

VARIABLES
  lot,        \* the deferred_bonus_lots row
  grant,      \* originalAmount of the bonus lot behind grantedBonusLotId
  purse,      \* points of the live grant, and of grants the lot let go of
  liability,  \* what BONUS_LIABILITY still carries for this lot
  asked,      \* deferred share of the refunds of the lot's own purchase
  given,      \* deferred_bonus_lot_contributions.amount
  undone,     \* ... .reversedAmount
  confirm,    \* where settlePurchase is for each purchase, and what it read
  sweep,      \* the row expireOverdueLots listed
  due,        \* the deadline has passed
  again,      \* history: posted by reverseUnlock
  lapsed,     \* history: granted points that expired in the wallet
  stale       \* history: a transaction used amounts that had changed

vars == <<lot, grant, purse, liability, asked, given, undone, confirm, sweep, due,
          again, lapsed, stale>>
history == <<again, lapsed, stale>>

Which == {"live", "loose"}
Seen  == [refunded : 0..Amount, forfeited : 0..Amount]
Nothing   == [refunded |-> 0, forfeited |-> 0]
Unread    == [at |-> "idle", open |-> FALSE, saw |-> Nothing]
Confirmed == [at |-> "confirmed", open |-> FALSE, saw |-> Nothing]
NoSweep   == [listed |-> FALSE, saw |-> Nothing]

TypeOK ==
  /\ lot \in [status : {"DEFERRED", "AVAILABLE", "EXPIRED"}, refunded : 0..Amount,
              forfeited : 0..Amount, reclaimed : 0..Amount, progress : Int, granted : BOOLEAN]
  /\ lot.refunded + lot.forfeited <= Amount
  /\ grant \in 0..Amount
  /\ purse \in [Which -> [left : Nat, held : Nat]]
  /\ liability \in Int
  /\ asked \in 0..Amount
  /\ given \in [Purchase -> {0, Gross}]
  /\ undone \in [Purchase -> 0..Gross]
  /\ confirm \in [Purchase -> [at : {"idle", "read", "confirmed"}, open : BOOLEAN, saw : Seen]]
  /\ sweep \in [listed : BOOLEAN, saw : Seen]
  /\ due \in BOOLEAN
  /\ again \in Nat /\ lapsed \in Nat /\ stale \in BOOLEAN

Init ==
  /\ lot = [status |-> "DEFERRED", refunded |-> 0, forfeited |-> 0, reclaimed |-> 0,
            progress |-> 0, granted |-> FALSE]
  /\ grant = 0
  /\ purse = [w \in Which |-> [left |-> 0, held |-> 0]]
  /\ liability = Amount
  /\ asked = 0
  /\ given = [p \in Purchase |-> 0]
  /\ undone = [p \in Purchase |-> 0]
  /\ confirm = [p \in Purchase |-> Unread]
  /\ sweep = NoSweep
  /\ due = FALSE
  /\ again = 0 /\ lapsed = 0 /\ stale = FALSE

Smaller(a, b) == IF a <= b THEN a ELSE b

Snapshot  == [refunded |-> lot.refunded, forfeited |-> lot.forfeited]
Rest(saw) == Amount - saw.refunded - saw.forfeited

(* What is left of a grant the lot no longer points to stays in the wallet. *)
LetGo(live) ==
  purse' = [live  |-> [left |-> 0, held |-> 0],
            loose |-> [left |-> purse["loose"].left + live.left,
                       held |-> purse["loose"].held + live.held]]

-----------------------------------------------------------------------------
(* A later purchase is confirmed *)

ConfirmRead(p) ==
  /\ confirm[p].at = "idle"
  /\ confirm' = [confirm EXCEPT ![p] =
                   [at |-> "read", saw |-> Snapshot,
                    open |-> lot.status = "DEFERRED" /\ ~due /\ Rest(Snapshot) > 0]]
  /\ UNCHANGED <<lot, grant, purse, liability, asked, given, undone, sweep, due, history>>

Unlock(p, progress) ==
  /\ lot' = [lot EXCEPT !.progress = progress, !.status = "AVAILABLE", !.granted = TRUE]
  /\ grant' = Rest(confirm[p].saw)
  /\ purse' = [purse EXCEPT !["live"].left = Rest(confirm[p].saw)]
  /\ stale' = (stale \/ confirm[p].saw # Snapshot)

ConfirmCommit(p) ==
  LET progress == lot.progress + Gross
      unlocks  == progress >= Required /\ lot.status = "DEFERRED"
  IN  /\ confirm[p].at = "read"
      /\ confirm' = [confirm EXCEPT ![p] = Confirmed]
      /\ \/ /\ ~confirm[p].open
            /\ UNCHANGED <<lot, grant, purse, given, stale>>
         \/ /\ confirm[p].open
            /\ given' = [given EXCEPT ![p] = Gross]
            /\ \/ unlocks /\ Unlock(p, progress)
               \/ ~unlocks /\ lot' = [lot EXCEPT !.progress = progress]
                           /\ UNCHANGED <<grant, purse, stale>>
      /\ UNCHANGED <<liability, asked, undone, sweep, due, again, lapsed>>

ConfirmDies(p) ==
  /\ confirm[p].at = "read"
  /\ confirm' = [confirm EXCEPT ![p] = Unread]
  /\ UNCHANGED <<lot, grant, purse, liability, asked, given, undone, sweep, due, history>>

-----------------------------------------------------------------------------
(* Refunds *)

\* Mutant: what a refund took back of a live grant is not remembered.
Mutant_Forgets(share) ==
  LET actual == Smaller(Smaller(share, Rest(Snapshot)), purse["live"].left)
  IN  /\ share \in 1..(Amount - asked) /\ lot.granted
      /\ asked' = asked + share
      /\ lot' = [lot EXCEPT !.refunded = @ + actual]
      /\ purse' = [purse EXCEPT !["live"].left = @ - actual]
      /\ liability' = liability - actual
      /\ UNCHANGED <<grant, given, undone, confirm, sweep, due, history>>

(* The purchase behind the lot is refunded: reverseForRefund of a share. *)
RefundOwn(share) ==
  LET ceiling  == Rest(Snapshot)
      reduceBy == Smaller(share, ceiling)
      actual   == IF lot.granted THEN Smaller(reduceBy, purse["live"].left) ELSE 0
      live     == [purse["live"] EXCEPT !.left = @ - actual]
      cut      == [lot EXCEPT !.refunded = @ + reduceBy]
  IN  /\ share \in 1..(Amount - asked)
      /\ asked' = asked + share
      /\ \/ /\ lot.status = "EXPIRED" \/ ceiling <= 0
            /\ UNCHANGED <<lot, purse, liability>>
         \/ /\ lot.status = "DEFERRED" /\ ceiling > 0
            /\ lot' = cut
            /\ liability' = liability - reduceBy
            /\ UNCHANGED purse
         \/ /\ lot.status = "AVAILABLE" /\ ceiling > 0 /\ ~lot.granted
            /\ lot' = cut
            /\ UNCHANGED <<purse, liability>>
         \/ /\ lot.status = "AVAILABLE" /\ ceiling > 0 /\ lot.granted
            /\ liability' = liability - actual
            /\ \/ live.left = 0 /\ lot' = [cut EXCEPT !.granted = FALSE, !.reclaimed = 0]
                                /\ LetGo(live)
               \/ live.left > 0 /\ lot' = [cut EXCEPT !.reclaimed = @ + actual]
                                /\ purse' = [purse EXCEPT !["live"] = live]
      /\ UNCHANGED <<grant, given, undone, confirm, sweep, due, history>>

(* reverseUnlock: the whole grant is void. What is no longer in its lot is   *)
(* taken for spent, written off the lot and released to platform revenue.    *)
(* The CHECK on the row refuses a write-off beyond the lot's amount.         *)
ReverseUnlock(progress) ==
  LET gone  == grant - purse["live"].left - lot.reclaimed
      spent == IF gone > 0 THEN gone ELSE 0
  IN  /\ lot.refunded + lot.forfeited + spent <= Amount
      /\ lot' = [lot EXCEPT !.progress = progress, !.status = "DEFERRED", !.granted = FALSE,
                            !.reclaimed = 0, !.forfeited = @ + spent]
      /\ LetGo([purse["live"] EXCEPT !.left = 0])
      /\ liability' = liability - spent
      /\ again' = again + spent

\* Mutants: an unlocked lot keeps its grant; every refund undoes the whole
\* contribution of its purchase.
Mutant_KeepsGrant(p, n) ==
  /\ n \in 1..(given[p] - undone[p]) /\ lot.status # "EXPIRED"
  /\ undone' = [undone EXCEPT ![p] = @ + n]
  /\ lot' = [lot EXCEPT !.progress = @ - n]
  /\ UNCHANGED <<purse, liability, grant, asked, given, confirm, sweep, due, history>>
Mutant_SkipsUnlocked(p, n) ==
  /\ n \in 1..(given[p] - undone[p]) /\ lot.status # "EXPIRED"
  /\ undone' = [undone EXCEPT ![p] = @ + n]
  /\ lot' = IF lot.status = "DEFERRED" THEN [lot EXCEPT !.progress = @ - n] ELSE lot
  /\ UNCHANGED <<purse, liability, grant, asked, given, confirm, sweep, due, history>>

(* A later purchase is refunded by n: reverseExternalContributions. *)
RefundLater(p, n) ==
  LET progress == lot.progress - n
      voids    == lot.status = "AVAILABLE" /\ lot.granted /\ progress < Required
  IN  /\ n \in 1..(given[p] - undone[p])
      /\ lot.status # "EXPIRED"
      /\ undone' = [undone EXCEPT ![p] = @ + n]
      /\ \/ voids /\ ReverseUnlock(progress)
         \/ ~voids /\ lot' = [lot EXCEPT !.progress = progress]
                   /\ UNCHANGED <<purse, liability, again>>
      /\ UNCHANGED <<grant, asked, given, confirm, sweep, due, lapsed, stale>>

-----------------------------------------------------------------------------
(* The deadline *)

DeadlinePasses ==
  /\ ~due
  /\ due' = TRUE
  /\ UNCHANGED <<lot, grant, purse, liability, asked, given, undone, confirm, sweep, history>>

SweepList ==
  /\ ~sweep.listed /\ due /\ lot.status = "DEFERRED"
  /\ sweep' = [listed |-> TRUE, saw |-> Snapshot]
  /\ UNCHANGED <<lot, grant, purse, liability, asked, given, undone, confirm, due, history>>

(* expireOne: claims the row, releases what the listed row had left. *)
SweepExpire ==
  /\ sweep.listed
  /\ sweep' = NoSweep
  /\ \/ /\ lot.status = "DEFERRED"
        /\ lot' = [lot EXCEPT !.status = "EXPIRED"]
        /\ liability' = liability - Rest(sweep.saw)
        /\ stale' = (stale \/ sweep.saw # Snapshot)
     \/ /\ lot.status # "DEFERRED"
        /\ UNCHANGED <<lot, liability, stale>>
  /\ UNCHANGED <<grant, purse, asked, given, undone, confirm, due, again, lapsed>>

SweepDies ==
  /\ sweep.listed
  /\ sweep' = NoSweep
  /\ UNCHANGED <<lot, grant, purse, liability, asked, given, undone, confirm, due, history>>

-----------------------------------------------------------------------------
(* The customer spends the points; a redemption releases their liability. *)

Hold(w) ==
  /\ purse[w].left > 0
  /\ purse' = [purse EXCEPT ![w] = [left |-> @.left - 1, held |-> @.held + 1]]
  /\ UNCHANGED <<lot, grant, liability, asked, given, undone, confirm, sweep, due, history>>

GiveBack(w) ==
  /\ purse[w].held > 0
  /\ purse' = [purse EXCEPT ![w] = [left |-> @.left + 1, held |-> @.held - 1]]
  /\ UNCHANGED <<lot, grant, liability, asked, given, undone, confirm, sweep, due, history>>

Redeem(w) ==
  /\ purse[w].held > 0
  /\ purse' = [purse EXCEPT ![w] = [left |-> @.left, held |-> @.held - 1]]
  /\ liability' = liability - 1
  /\ UNCHANGED <<lot, grant, asked, given, undone, confirm, sweep, due, history>>

(* expireLots: the wallet loses the points, the ledger is not told. *)
PointsExpire(w) ==
  /\ purse[w].left > 0
  /\ purse' = [purse EXCEPT ![w] = [left |-> 0, held |-> @.held]]
  /\ lapsed' = lapsed + purse[w].left
  /\ UNCHANGED <<lot, grant, liability, asked, given, undone, confirm, sweep, due, again, stale>>

-----------------------------------------------------------------------------
ConfirmStep(p) == ConfirmRead(p) \/ ConfirmCommit(p) \/ ConfirmDies(p)
RefundStep ==
  \/ \E share \in 1..Amount : RefundOwn(share)
  \/ \E p \in Purchase, n \in 1..Gross : RefundLater(p, n)
SweepStep == SweepList \/ SweepExpire \/ SweepDies
PurseStep(w) == Hold(w) \/ GiveBack(w) \/ Redeem(w) \/ PointsExpire(w)

Next ==
  \/ \E p \in Purchase : ConfirmStep(p)
  \/ RefundStep
  \/ DeadlinePasses
  \/ SweepStep
  \/ \E w \in Which : PurseStep(w)

Spec == Init /\ [][Next]_vars

-----------------------------------------------------------------------------
(* What the customer can still be paid out of this lot. *)
InPurse == purse["live"].left + purse["live"].held + purse["loose"].left + purse["loose"].held
Promise == IF lot.status = "DEFERRED" THEN Rest(Snapshot) ELSE 0
Owed    == InPurse + Promise

(* BONUS_LIABILITY carries what the customer can still be paid, less what    *)
(* reverseUnlock released and more what expired in the wallet unreleased:    *)
(* confirmations, refunds of both kinds, the sweep and every redemption keep *)
(* that balance as long as none of them acted on amounts that had changed    *)
(* since it read them.                                                       *)
BooksFollowThePromise == stale \/ liability = Owed - again + lapsed

(* A grant stands only on turnover that is still there: a refund that takes  *)
(* the turnover below the threshold takes the grant along in its transaction.*)
GrantStandsOnTurnover == lot.granted => lot.status = "AVAILABLE" /\ lot.progress >= Required

Contribution == [p \in Purchase |-> given[p] - undone[p]]

(* The turnover of the lot is what its contributions add up to, whoever      *)
(* confirms, refunds or expires in between.                                  *)
TurnoverIsReal == lot.progress = SumFunctionOnSet(Contribution, Purchase)

(* Refuted: once nothing is held, redeemed points have released their part of*)
(* the liability and no refund releases it again, so what the customer can   *)
(* still be paid out of this lot is covered.                                 *)
LiabilityCoversPoints ==
  stale \/ purse["live"].held + purse["loose"].held > 0 \/ liability >= Owed

(* Refuted: expiring the lot releases only what no refund has released.      *)
NeverReleasedBeyondBooked == again = 0 => liability >= 0
=============================================================================

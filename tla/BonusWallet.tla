----------------------------- MODULE BonusWallet -----------------------------
(***************************************************************************)
(* One customer's bonus points: the lots, the reservations that hold some  *)
(* of them, and the cached wallet counters (BonusEngineService). reserve,  *)
(* expireLots and the manual debit are SERIALIZABLE and write the wallet   *)
(* row, so each is one step; settle, promote and claw back are READ        *)
(* COMMITTED and are cut between what they read and what they commit.      *)
(***************************************************************************)
EXTENDS Integers, FiniteSets, FiniteSetsExt

CONSTANTS Lots,        \* how many lots there can be, numbered as they expire
          Reservation, \* the rows reserve can create
          Sweeper,     \* overlapping runs of promotePendingLots
          Most         \* the largest amount a call is made with

ASSUME Sizes == Lots \in Nat \ {0} /\ Most \in Nat \ {0}
ASSUME ReservationsEnd == IsFiniteSet(Reservation)

Lot == 1..Lots

VARIABLES
  lots,      \* bonus_lots: status, remainingAmount, originalAmount
  hold,      \* bonus_reservations with their allocations
  wallet,    \* the counters of the wallets row
  settling,  \* where settleReservation is for a reservation, and the lots it found empty
  releasing, \* reservations a releaseReservation has found ACTIVE
  promoting, \* the lot a promotion has read, and its remainingAmount
  clawing    \* what reverseAccrualLot has read

walletVars == <<lots, hold, wallet, settling, releasing, promoting, clawing>>

None   == [is |-> "none", left |-> 0, all |-> 0]
Idle   == [at |-> "idle", empty |-> {}]
NoRun  == [lot |-> 0, moved |-> 0]
NoClaw == [lot |-> 0, amount |-> 0, pending |-> FALSE, drains |-> FALSE]

Nowhere == [l \in Lot |-> 0]
Total(f) == SumFunctionOnSet(f, Lot)
Left     == [l \in Lot |-> lots[l].left]
Held(h)  == Total(hold[h].of)

WalletTypeOK ==
  /\ lots \in [Lot -> [is : {"none", "PENDING", "AVAILABLE", "CONSUMED", "EXPIRED"},
                      left : Nat, all : 0..Most]]
  /\ \A l \in Lot : lots[l].left <= lots[l].all
  /\ hold \in [Reservation -> [is : {"none", "ACTIVE", "SETTLED", "RELEASED", "reversed"},
                               of : [Lot -> Nat]]]
  /\ wallet \in [available : Nat, pending : Nat, reserved : Nat, spent : Nat]
  /\ settling \in [Reservation -> [at : {"idle", "checked", "claimed"}, empty : SUBSET Lot]]
  /\ releasing \subseteq Reservation
  /\ promoting \in [Sweeper -> [lot : 0..Lots, moved : Nat]]
  /\ clawing \in [lot : 0..Lots, amount : Nat, pending : BOOLEAN, drains : BOOLEAN]

WalletInit ==
  /\ lots = [l \in Lot |-> None]
  /\ hold = [h \in Reservation |-> [is |-> "none", of |-> Nowhere]]
  /\ wallet = [available |-> 0, pending |-> 0, reserved |-> 0, spent |-> 0]
  /\ settling = [h \in Reservation |-> Idle]
  /\ releasing = {}
  /\ promoting = [s \in Sweeper |-> NoRun]
  /\ clawing = NoClaw

-----------------------------------------------------------------------------
(* Points arrive *)

IsNext(l) == lots[l].is = "none" /\ \A k \in 1..(l - 1) : lots[k].is # "none"

Accrue(l, n, status) ==
  /\ IsNext(l)
  /\ lots' = [lots EXCEPT ![l] = [is |-> status, left |-> n, all |-> n]]
  /\ \/ status = "AVAILABLE" /\ wallet' = [wallet EXCEPT !.available = @ + n]
     \/ status = "PENDING"   /\ wallet' = [wallet EXCEPT !.pending = @ + n]
  /\ UNCHANGED <<hold, settling, releasing, promoting, clawing>>

(* restoreSpentBonus mints a fresh lot. *)
Restore(l, n) ==
  /\ IsNext(l) /\ n <= wallet.spent
  /\ lots' = [lots EXCEPT ![l] = [is |-> "AVAILABLE", left |-> n, all |-> n]]
  /\ wallet' = [wallet EXCEPT !.available = @ + n, !.spent = @ - n]
  /\ UNCHANGED <<hold, settling, releasing, promoting, clawing>>

-----------------------------------------------------------------------------
(* Points are held, spent or given back *)

Spendable == {l \in Lot : lots[l].is = "AVAILABLE" /\ lots[l].left > 0}
Sum(S)    == SumFunctionOnSet(Left, S)

(* n points out of the spendable lots, the oldest-expiring first. *)
Take(n) ==
  [l \in Lot |-> LET still == n - Sum({k \in Spendable : k < l})
                 IN  IF l \notin Spendable \/ still <= 0 THEN 0
                     ELSE IF still < lots[l].left THEN still ELSE lots[l].left]

Reserve(h, n) ==
  /\ hold[h].is = "none"
  /\ Sum(Spendable) >= n
  /\ hold' = [hold EXCEPT ![h] = [is |-> "ACTIVE", of |-> Take(n)]]
  /\ lots' = [l \in Lot |-> [lots[l] EXCEPT !.left = @ - Take(n)[l]]]
  /\ wallet' = [wallet EXCEPT !.available = @ - n, !.reserved = @ + n]
  /\ wallet.available >= n
  /\ UNCHANGED <<settling, releasing, promoting, clawing>>

SettleCheck(h) ==
  /\ settling[h].at = "idle" /\ hold[h].is = "ACTIVE"
  /\ settling' = [settling EXCEPT ![h].at = "checked"]
  /\ UNCHANGED <<lots, hold, wallet, releasing, promoting, clawing>>

\* Mutant: a plain update by id instead of a conditional one.
Mutant_PlainClaim(h) ==
  /\ settling[h].at = "checked"
  /\ settling' = [settling EXCEPT ![h] = [at |-> "claimed", empty |-> {}]]
  /\ UNCHANGED <<lots, hold, wallet, releasing, promoting, clawing>>

(* The conditional update locks the reservation until the commit; then each  *)
(* allocated lot is read.                                                    *)
SettleClaim(h) ==
  /\ settling[h].at = "checked"
  /\ \/ /\ hold[h].is = "ACTIVE"
        /\ settling' = [settling EXCEPT ![h] =
             [at |-> "claimed", empty |-> {l \in Lot : /\ hold[h].of[l] > 0
                                                       /\ lots[l].left = 0
                                                       /\ lots[l].is = "AVAILABLE"}]]
     \/ /\ hold[h].is # "ACTIVE"
        /\ settling' = [settling EXCEPT ![h] = Idle]
  /\ UNCHANGED <<lots, hold, wallet, releasing, promoting, clawing>>

SettleCommit(h) ==
  /\ settling[h].at = "claimed"
  /\ settling' = [settling EXCEPT ![h] = Idle]
  /\ hold' = [hold EXCEPT ![h].is = "SETTLED"]
  /\ lots' = [l \in Lot |-> IF l \in settling[h].empty THEN [lots[l] EXCEPT !.is = "CONSUMED"]
                                                      ELSE lots[l]]
  /\ wallet' = [wallet EXCEPT !.reserved = @ - Held(h), !.spent = @ + Held(h)]
  /\ UNCHANGED <<releasing, promoting, clawing>>

SettleDies(h) ==
  /\ settling[h].at # "idle"
  /\ settling' = [settling EXCEPT ![h] = Idle]
  /\ UNCHANGED <<lots, hold, wallet, releasing, promoting, clawing>>

ReleaseCheck(h) ==
  /\ h \notin releasing /\ hold[h].is = "ACTIVE"
  /\ releasing' = releasing \cup {h}
  /\ UNCHANGED <<lots, hold, wallet, settling, promoting, clawing>>

HandBack(h) ==
  lots' = [l \in Lot |-> IF hold[h].of[l] > 0
                         THEN [lots[l] EXCEPT !.left = @ + hold[h].of[l], !.is = "AVAILABLE"]
                         ELSE lots[l]]

\* Mutants: the reservation's row is updated by id alone; the lots keep what
\* they lost.
Mutant_ReleasesAnyway(h) ==
  /\ h \in releasing /\ settling[h].at # "claimed"
  /\ releasing' = releasing \ {h}
  /\ hold' = [hold EXCEPT ![h].is = "RELEASED"]
  /\ HandBack(h)
  /\ wallet' = [wallet EXCEPT !.reserved = @ - Held(h), !.available = @ + Held(h)]
  /\ UNCHANGED <<settling, promoting, clawing>>
Mutant_ForgetsLots(h) ==
  /\ h \in releasing /\ settling[h].at # "claimed" /\ hold[h].is = "ACTIVE"
  /\ releasing' = releasing \ {h}
  /\ hold' = [hold EXCEPT ![h].is = "RELEASED"]
  /\ wallet' = [wallet EXCEPT !.reserved = @ - Held(h), !.available = @ + Held(h)]
  /\ UNCHANGED <<lots, settling, promoting, clawing>>

(* The conditional update waits for a settlement that has claimed the row.   *)
ReleaseCommit(h) ==
  /\ h \in releasing /\ settling[h].at # "claimed"
  /\ releasing' = releasing \ {h}
  /\ \/ /\ hold[h].is = "ACTIVE"
        /\ hold' = [hold EXCEPT ![h].is = "RELEASED"]
        /\ HandBack(h)
        /\ wallet' = [wallet EXCEPT !.reserved = @ - Held(h), !.available = @ + Held(h)]
     \/ /\ hold[h].is # "ACTIVE"
        /\ UNCHANGED <<lots, hold, wallet>>
  /\ UNCHANGED <<settling, promoting, clawing>>

ReleaseDies(h) ==
  /\ h \in releasing
  /\ releasing' = releasing \ {h}
  /\ UNCHANGED <<lots, hold, wallet, settling, promoting, clawing>>

(* reverseSettlement.  Its look for an earlier REVERSAL claims nothing, but *)
(* each of its callers is the catch of the one call that settled.          *)
Reverse(h) ==
  /\ hold[h].is = "SETTLED" /\ wallet.spent >= Held(h)
  /\ hold' = [hold EXCEPT ![h].is = "reversed"]
  /\ HandBack(h)
  /\ wallet' = [wallet EXCEPT !.available = @ + Held(h), !.spent = @ - Held(h)]
  /\ UNCHANGED <<settling, releasing, promoting, clawing>>

ManualDebit(n) ==
  /\ Sum(Spendable) >= n /\ wallet.available >= n
  /\ lots' = [l \in Lot |-> [lots[l] EXCEPT
               !.left = @ - Take(n)[l],
               !.is = IF Take(n)[l] > 0 /\ Take(n)[l] = lots[l].left THEN "CONSUMED" ELSE @]]
  /\ wallet' = [wallet EXCEPT !.available = @ - n, !.spent = @ + n]
  /\ UNCHANGED <<hold, settling, releasing, promoting, clawing>>

-----------------------------------------------------------------------------
(* Sweeps *)

PromoteRead(s, l) ==
  /\ promoting[s] = NoRun /\ lots[l].is = "PENDING"
  /\ promoting' = [promoting EXCEPT ![s] = [lot |-> l, moved |-> lots[l].left]]
  /\ UNCHANGED <<lots, hold, wallet, settling, releasing, clawing>>

PromoteCommit(s) ==
  LET l == promoting[s].lot
      moved == promoting[s].moved
  IN  /\ promoting[s] # NoRun
      /\ wallet.pending >= moved
      /\ promoting' = [promoting EXCEPT ![s] = NoRun]
      /\ lots' = [lots EXCEPT ![l].is = "AVAILABLE"]
      /\ wallet' = [wallet EXCEPT !.pending = @ - moved, !.available = @ + moved]
      /\ UNCHANGED <<hold, settling, releasing, clawing>>

(* A CHECK refuses the counters, or the process dies. *)
PromoteDies(s) ==
  /\ promoting[s] # NoRun
  /\ promoting' = [promoting EXCEPT ![s] = NoRun]
  /\ UNCHANGED <<lots, hold, wallet, settling, releasing, clawing>>

Expire(l) ==
  /\ lots[l].is \in {"AVAILABLE", "PENDING"} /\ lots[l].left > 0
  /\ lots' = [lots EXCEPT ![l].is = "EXPIRED", ![l].left = 0]
  /\ \/ /\ lots[l].is = "AVAILABLE" /\ wallet.available >= lots[l].left
        /\ wallet' = [wallet EXCEPT !.available = @ - lots[l].left]
     \/ /\ lots[l].is = "PENDING" /\ wallet.pending >= lots[l].left
        /\ wallet' = [wallet EXCEPT !.pending = @ - lots[l].left]
  /\ UNCHANGED <<hold, settling, releasing, promoting, clawing>>

-----------------------------------------------------------------------------
(* reverseAccrualLot, inside a READ COMMITTED refund *)

ClawRead(l, n) ==
  /\ clawing = NoClaw
  /\ lots[l].is \notin {"none", "EXPIRED"} /\ lots[l].left > 0
  /\ LET amount == IF n < lots[l].left THEN n ELSE lots[l].left
     IN  clawing' = [lot |-> l, amount |-> amount, pending |-> lots[l].is = "PENDING",
                     drains |-> amount = lots[l].left]
  /\ UNCHANGED <<lots, hold, wallet, settling, releasing, promoting>>

ClawCommit ==
  LET l == clawing.lot
      n == clawing.amount
  IN  /\ clawing # NoClaw
      /\ lots[l].left >= n
      /\ clawing' = NoClaw
      /\ lots' = [lots EXCEPT ![l].left = @ - n,
                            ![l].is = IF clawing.drains THEN "CONSUMED" ELSE @]
      /\ \/ /\ clawing.pending /\ wallet.pending >= n
            /\ wallet' = [wallet EXCEPT !.pending = @ - n]
         \/ /\ ~clawing.pending /\ wallet.available >= n
            /\ wallet' = [wallet EXCEPT !.available = @ - n]
      /\ UNCHANGED <<hold, settling, releasing, promoting>>

ClawDies ==
  /\ clawing # NoClaw
  /\ clawing' = NoClaw
  /\ UNCHANGED <<lots, hold, wallet, settling, releasing, promoting>>

-----------------------------------------------------------------------------
Points == 1..Most

Arrives(l) ==
  \E n \in Points : Restore(l, n) \/ \E status \in {"AVAILABLE", "PENDING"} : Accrue(l, n, status)
SettleStep(h) == SettleCheck(h) \/ SettleClaim(h) \/ SettleCommit(h) \/ SettleDies(h)
ReleaseStep(h) == ReleaseCheck(h) \/ ReleaseCommit(h) \/ ReleaseDies(h)
HoldStep(h) == (\E n \in Points : Reserve(h, n)) \/ SettleStep(h) \/ ReleaseStep(h) \/ Reverse(h)
PromoteStep(s) == (\E l \in Lot : PromoteRead(s, l)) \/ PromoteCommit(s) \/ PromoteDies(s)
ClawStep == (\E l \in Lot, n \in Points : ClawRead(l, n)) \/ ClawCommit \/ ClawDies

WalletNext ==
  \/ \E l \in Lot : Arrives(l) \/ Expire(l)
  \/ \E h \in Reservation : HoldStep(h)
  \/ \E n \in Points : ManualDebit(n)
  \/ \E s \in Sweeper : PromoteStep(s)
  \/ ClawStep

WalletSpec == WalletInit /\ [][WalletNext]_walletVars

-----------------------------------------------------------------------------
Holding(stages) == {h \in Reservation : hold[h].is \in stages}
Kept    == [h \in Reservation |-> Held(h)]
From(l) == [h \in Reservation |-> hold[h].of[l]]

(* The reserved counter is what the ACTIVE reservations hold: settlements,   *)
(* releases by the customer, by a saga and by the sweep race for the same    *)
(* reservation, and exactly one of them moves its points.                    *)
ReservedIsHeld ==
  wallet.reserved = SumFunctionOnSet(Kept, Holding({"ACTIVE"}))

(* Every unspent point is in a lot and in a counter: no interleaving of      *)
(* holds, releases, reversals, sweeps and clawbacks makes or loses one, even *)
(* when it puts it under the wrong status.                                   *)
NoPointFromNowhere == wallet.available + wallet.pending = Total(Left)

(* No point is in two places: what a lot has left and what reservations hold *)
(* or have spent of it is no more than what it was issued with.              *)
NoPointTwice ==
  \A l \in Lot :
    lots[l].left + SumFunctionOnSet(From(l), Holding({"ACTIVE", "SETTLED"})) <= lots[l].all

Final(before, after) ==
  /\ before = "RELEASED" => after = "RELEASED"
  /\ before = "SETTLED"  => after \in {"SETTLED", "reversed"}
  /\ before = "reversed" => after = "reversed"

(* A reservation is spent or given back, never one after the other, but for  *)
(* the reversal of its settlement.                                           *)
HoldEndsOnce == [][\A h \in Reservation : Final(hold[h].is, hold'[h].is)]_walletVars

LeftIn(status) == Sum({l \in Lot : lots[l].is = status})

(* Refuted: the counters are what the lots of the matching status have left. *)
LotsBackBalances ==
  wallet.available = LeftIn("AVAILABLE") /\ wallet.pending = LeftIn("PENDING")
=============================================================================

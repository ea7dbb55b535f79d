--------------------------- MODULE PartnerPayable ---------------------------
(***************************************************************************)
(* The settlement engine and the payout engine on one partner's account.   *)
(* They share the ledger and nothing else: settlements go by the postings  *)
(* no settlement has claimed, payouts and collections by the balance.      *)
(***************************************************************************)
EXTENDS PartnerSettlement, PayoutEngine

(* Ids of different tables. *)
ASSUME Apart == Settlement \cap (Payout \cup Collection) = {}

Init == AccountInit /\ PayoutInit

Next ==
  \/ SettlementNext /\ UNCHANGED payoutVars
  \/ PayoutNext /\ UNCHANGED settlementVars
  \/ Sell /\ UNCHANGED <<settlementVars, payoutVars>>

Spec == Init /\ [][Next]_<<posting, settlementVars, payoutVars>>

-----------------------------------------------------------------------------
(* What must not go wrong *)

Taken   == {p \in Payout : payout[p].is # "none"} \ Returned
Asked   == [p \in Payout |-> payout[p].amount]
Brought == [k \in Collection |-> collection[k].amount]

(* Three tables and two accounts agree, whichever engine moved last and    *)
(* wherever a process died: the clearing account holds the payouts on      *)
(* their way or not yet returned, and the partner is owed the sales, less  *)
(* the settlements and payouts made, plus the collections confirmed        *)
(* (confirmPaid, markFailed, confirm, payFrom).                            *)
EveryMoveHasItsRow ==
  LET paid == {s \in Settlement : row[s].is = "PAID"}
      done == {k \in Collection : collection[k].is = "CONFIRMED"}
  IN  /\ clearing = SumFunctionOnSet(Asked, Taken \ {p \in Payout : payout[p].is = "PAID"})
      /\ Owed = Moved({"sale"}) - SumFunctionOnSet(Net, paid) - SumFunctionOnSet(Asked, Taken)
                 + SumFunctionOnSet(Brought, done)

-----------------------------------------------------------------------------
(* What the documentation says and the code does not do *)

(* A partner is not paid twice for the same sale: whatever the order of    *)
(* settlements and payouts, they do not come to more than the sales        *)
(* (PartnerSettlementService, settleable-kinds).                           *)
NoSalePaidTwice ==
  -Moved({"settlement.paid", "payout.requested", "payout.failed"})
    <= Worth({i \in Index : posting[i].kind = "sale" /\ posting[i].amount > 0})

(* The money of a payout the bank rejected goes back to the partner's      *)
(* balance (PayoutEngineService.markFailed).                               *)
RejectedIsReturned ==
  \A p \in Payout : payout[p].is = "FAILED" =>
    p \in returning \cup Returned
=============================================================================

---------------------------- MODULE PartnerAccount ----------------------------
(***************************************************************************)
(* One partner's PARTNER_PAYABLE account, the ledger account that          *)
(* settlements, payouts and collections all move.  A posting is positive   *)
(* when it raises what the platform owes the partner (a CREDIT).           *)
(***************************************************************************)
EXTENDS Integers, Sequences, FiniteSetsExt

CONSTANTS Sale,     \* what a sale can add to the account
          Refund,   \* what a refund can take back
          Person,   \* administrators, and people of the partner
          MaxSales, \* bound on the postings made by sales and refunds
          Source,   \* what a posting can be about: settlements, payouts, collections
          None      \* no person, no bank reference, nothing

ASSUME Amounts == /\ Sale \subseteq Nat \ {0} /\ Refund \subseteq Nat \ {0}
                  /\ MaxSales \in Nat

VARIABLE posting \* ledger_postings of the account, in the order of postedAt

(* SETTLEABLE_LEDGER_KINDS, whose members only differ in name. *)
Settleable == {"sale"}

Kind == {"sale", "settlement.paid", "payout.requested", "payout.failed", "collection"}

Posting == [kind : Kind, amount : Int, of : Source \cup {None}]

Index    == DOMAIN posting
Value    == [i \in Index |-> posting[i].amount]
Worth(I) == SumFunctionOnSet(Value, I)

(* What the platform owes: LedgerAccount.balance, which post keeps equal   *)
(* to the postings, with its sign turned.                                  *)
Owed == Worth(Index)

(* LedgerService.post, one side; `of` is its sourceId. *)
Post(kind, amount, of) == posting' = Append(posting, [kind |-> kind, amount |-> amount, of |-> of])

(* Checkout, refunds, EV charging and referrals post here as they go. *)
Sell ==
  \E amount \in Sale \cup {-n : n \in Refund} :
    /\ Cardinality({i \in Index : posting[i].kind = "sale"}) < MaxSales
    /\ Post("sale", amount, None)
=============================================================================

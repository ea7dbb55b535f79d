---------------------------- MODULE PayoutEngine ----------------------------
(***************************************************************************)
(* The other two ways money moves between the platform and one partner:    *)
(* a payout requested, confirmed or failed (PayoutEngineService) and a     *)
(* collection recorded and confirmed (PartnerCollectionService), both      *)
(* under dual control.  A request and a confirmation lock the account's    *)
(* row (FOR UPDATE) while they look at its balance, and a claim looks at   *)
(* the status again, so each is one step.                                  *)
(***************************************************************************)
EXTENDS PartnerAccount

CONSTANTS Payout,    \* payouts, one for each requester's idempotency key
          Collection \* transfers of the partner, one for each bank transaction

ASSUME PaymentsEnd == /\ IsFiniteSet(Payout) /\ IsFiniteSet(Collection)
                      /\ Payout \subseteq Source /\ Collection \subseteq Source

VARIABLES
  payout,     \* payouts
  collection, \* partner_collections
  clearing,   \* balance of BANK_CLEARING, as money on its way to the partner
  returning   \* payouts that are FAILED and whose reversal is the next call

payoutVars == <<payout, collection, clearing, returning>>

PayoutInit ==
  /\ payout = [p \in Payout |-> [is |-> "none", amount |-> 0, maker |-> None]]
  /\ collection = [k \in Collection |-> [is |-> "none", amount |-> 0, maker |-> None]]
  /\ clearing = 0
  /\ returning = {}

(* executePayout: a second call with the key finds the payout there. *)
RequestPayout(p, amount, actor) ==
  /\ payout[p].is = "none" /\ amount <= Owed
  /\ payout' = [payout EXCEPT ![p] = [is |-> "REQUESTED", amount |-> amount, maker |-> actor]]
  /\ Post("payout.requested", -amount, p)
  /\ clearing' = clearing + amount
  /\ UNCHANGED <<collection, returning>>

(* Mutant: the status is looked at before the claim and not by it. *)
Mutant_ConfirmsFailed(p, actor) ==
  /\ payout[p].is \in {"REQUESTED", "FAILED"} /\ actor # payout[p].maker
  /\ payout' = [payout EXCEPT ![p].is = "PAID"]
  /\ clearing' = clearing - payout[p].amount
  /\ UNCHANGED <<posting, collection, returning>>

(* The posting of confirmPaid is between the platform's own accounts. *)
ConfirmPaid(p, actor) ==
  /\ payout[p].is = "REQUESTED" /\ actor # payout[p].maker
  /\ payout' = [payout EXCEPT ![p].is = "PAID"]
  /\ clearing' = clearing - payout[p].amount
  /\ UNCHANGED <<posting, collection, returning>>

(* markFailed: the claim commits, and then the posting is reversed. *)
FailPayout(p) ==
  /\ payout[p].is = "REQUESTED"
  /\ payout' = [payout EXCEPT ![p].is = "FAILED"]
  /\ returning' = returning \cup {p}
  /\ UNCHANGED <<posting, collection, clearing>>

(* Reversed once: reversesId is unique. *)
Returned == {p \in Payout : \E i \in Index : posting[i].kind = "payout.failed" /\ posting[i].of = p}

ReversePayout(p) ==
  /\ p \in returning \ Returned
  /\ Post("payout.failed", payout[p].amount, p)
  /\ clearing' = clearing - payout[p].amount
  /\ returning' = returning \ {p}
  /\ UNCHANGED <<payout, collection>>

(* The process dies between the two. *)
FailingDies(p) ==
  /\ p \in returning
  /\ returning' = returning \ {p}
  /\ UNCHANGED <<posting, payout, collection, clearing>>

(* executePending; nothing but the confirmation depends on what it read. *)
RecordCollection(k, amount, actor) ==
  /\ collection[k].is = "none" /\ amount <= -Owed
  /\ collection' = [collection EXCEPT ![k] = [is |-> "PENDING", amount |-> amount, maker |-> actor]]
  /\ UNCHANGED <<posting, payout, clearing, returning>>

ConfirmCollection(k, actor) ==
  /\ collection[k].is = "PENDING" /\ actor # collection[k].maker
  /\ collection[k].amount <= -Owed
  /\ collection' = [collection EXCEPT ![k].is = "CONFIRMED"]
  /\ Post("collection", collection[k].amount, k)
  /\ UNCHANGED <<payout, clearing, returning>>

PayoutStep(p) ==
  \/ \E actor \in Person, n \in 1..Owed : RequestPayout(p, n, actor)
  \/ \E actor \in Person : ConfirmPaid(p, actor)
  \/ FailPayout(p)
  \/ ReversePayout(p)
  \/ FailingDies(p)

CollectionStep(k) ==
  \/ \E actor \in Person, n \in 1..(-Owed) : RecordCollection(k, n, actor)
  \/ \E actor \in Person : ConfirmCollection(k, actor)

PayoutNext ==
  \/ \E p \in Payout : PayoutStep(p)
  \/ \E k \in Collection : CollectionStep(k)
=============================================================================

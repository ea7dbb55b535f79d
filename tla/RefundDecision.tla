--------------------------- MODULE RefundDecision ---------------------------
(***************************************************************************)
(* Refunding one confirmed purchase.  A decision row says who asked and    *)
(* who agreed (PurchaseIntentRefundRequestService); the engine posts the   *)
(* refund (PurchaseIntentRefundService) behind an idempotency record that  *)
(* is scoped to the actor (IdempotencyService).  Each call is cut at every *)
(* statement that commits by itself, and may die at any of the cuts.       *)
(* Merchandise is counted in units of which every share is whole.          *)
(***************************************************************************)
EXTENDS Integers, FiniteSets, FiniteSetsExt

CONSTANTS Person,    \* whoever may ask for a refund
          Approver,  \* owners and managers
          Request,   \* ids of decisions somebody asked for
          Direct,    \* ids derived from an approver's own idempotency key
          Call,      \* approve() and refundDirectly() in flight
          Gross,     \* grossAmount, in units
          Amount,    \* the amounts asked for; 0 asks for whatever remains
          MaxFaults, \* bound on the statements that throw, calls that die and leases that lapse
          Pool, Earned, Bonus, \* contribution, points accrued and points spent, per unit
          None

ASSUME People == Approver \subseteq Person /\ None \notin Person /\ None \notin Request \cup Direct
ASSUME Apart  == Request \cap Direct = {}
ASSUME Rates  == /\ Gross \in Nat \ {0} /\ Pool \in Nat /\ Earned \in Nat /\ Bonus \in Nat
                 /\ Earned <= Pool
                 /\ Amount \subseteq 0..Gross /\ MaxFaults \in Nat
ASSUME Finitely == IsFiniteSet(Approver) /\ IsFiniteSet(Request \cup Direct)

VARIABLES
  row,      \* purchase_intent_refund_requests
  refund,   \* purchase_intent_refunds by (actorId, key): the amount, 0 when there is none
  key,      \* idempotency_records by (scope, key)
  call,     \* where each call is
  refunded, \* purchase_intents.refundedAmount
  lot,      \* what is left of the points the purchase accrued
  held,     \* points of the lot a reservation holds
  books,    \* ledger: PARTNER_PAYABLE, BONUS_LIABILITY, PLATFORM_REVENUE, and what went elsewhere
  released, \* history: the decisions settle() ever handed back
  faults    \* how many statements have thrown, calls died and leases lapsed

decisionVars == <<row, refund, key, call, refunded, lot, held, books, released, faults>>
money        == <<refund, refunded, lot, held, books>>

Decision == Request \cup Direct

NoRow  == [is |-> "none", by |-> None, decider |-> None, amount |-> 0, refund |-> None]
NoKey  == [is |-> "none", lapsed |-> FALSE]
Idle   == [at |-> "idle", of |-> None, as |-> None, got |-> None]

Settling == {"claiming", "looking", "lapsed", "finding", "posting", "undoing", "marking",
             "failed", "releasing", "held", "attaching"}

TypeOK ==
  /\ row \in [Decision -> [is : {"none", "PENDING", "APPROVED", "REJECTED"},
                           by : Person \cup {None}, decider : Approver \cup {None},
                           amount : Amount \cup {0}, refund : Approver \cup {None}]]
  /\ refund \in [Approver -> [Decision -> 0..Gross]]
  /\ key \in [Approver -> [Decision -> [is : {"none", "IN_FLIGHT", "COMPLETED"}, lapsed : BOOLEAN]]]
  /\ call \in [Call -> [at : Settling \cup {"idle", "approved"}, of : Decision \cup {None},
                        as : Approver \cup {None}, got : Approver \cup {None}]]
  /\ refunded \in 0..Gross
  /\ lot \in Nat /\ held \in Nat
  /\ books \in [payable : Int, liability : Int, revenue : Int, elsewhere : Int]
  /\ released \subseteq Decision
  /\ faults \in 0..MaxFaults

(* settlePurchase has confirmed the purchase: the partner is compensated   *)
(* for the points it took and owes the pool, of which the customers' part  *)
(* is owed to them.                                                        *)
Init ==
  /\ row = [d \in Decision |-> NoRow]
  /\ refund = [p \in Approver |-> [d \in Decision |-> 0]]
  /\ key = [p \in Approver |-> [d \in Decision |-> NoKey]]
  /\ call = [c \in Call |-> Idle]
  /\ refunded = 0
  /\ lot = Earned * Gross /\ held = 0
  /\ books = [payable |-> (Bonus - Pool) * Gross, liability |-> Earned * Gross,
              revenue |-> (Pool - Earned) * Gross, elsewhere |-> 0]
  /\ released = {}
  /\ faults = 0

NothingPending == \A d \in Decision : row[d].is # "PENDING"
Posted(d)      == {p \in Approver : refund[p][d] > 0}

Goes(c, at) == call' = [call EXCEPT ![c].at = at]
Ends(c)     == call' = [call EXCEPT ![c] = Idle]
Fails       == faults < MaxFaults /\ faults' = faults + 1
Attaches(c, p) == call' = [call EXCEPT ![c].at = "attaching", ![c].got = p]

-----------------------------------------------------------------------------
(* The decision *)

(* What remains is read before the insert and need not remain: no guard.   *)
Ask(d, p, amount) ==
  /\ row[d].is = "none" /\ NothingPending
  /\ row' = [row EXCEPT ![d] = [NoRow EXCEPT !.is = "PENDING", !.by = p, !.amount = amount]]
  /\ UNCHANGED <<money, key, call, released, faults>>

(* Mutant: the row is set to APPROVED whatever it has become. *)
Mutant_ClaimsAnyway(c, d, p) ==
  /\ call[c] = Idle
  /\ row[d].is \in {"PENDING", "APPROVED"} /\ p # row[d].by
  /\ row' = [row EXCEPT ![d].is = "APPROVED", ![d].decider = p]
  /\ call' = [call EXCEPT ![c] = [Idle EXCEPT !.at = "approved", !.of = d]]
  /\ UNCHANGED <<money, key, released, faults>>

(* Mutant: nobody compares the approver with the person who asked. *)
Mutant_ApprovesOwn(c, d, p) ==
  /\ call[c] = Idle
  /\ \/ row[d].is = "PENDING" /\ row' = [row EXCEPT ![d].is = "APPROVED", ![d].decider = p]
     \/ row[d].is = "APPROVED" /\ UNCHANGED row
  /\ call' = [call EXCEPT ![c] = [Idle EXCEPT !.at = "approved", !.of = d]]
  /\ UNCHANGED <<money, key, released, faults>>

(* The claim is conditional on PENDING; a row already APPROVED is finished *)
(* by whoever comes, the person who asked included.                        *)
Approve(c, d, p) ==
  /\ call[c] = Idle
  /\ \/ /\ row[d].is = "PENDING" /\ p # row[d].by
        /\ row' = [row EXCEPT ![d].is = "APPROVED", ![d].decider = p]
     \/ row[d].is = "APPROVED" /\ UNCHANGED row
  /\ call' = [call EXCEPT ![c] = [Idle EXCEPT !.at = "approved", !.of = d]]
  /\ UNCHANGED <<money, key, released, faults>>

Settle(c, d) ==
  IF row[d].refund # None THEN Ends(c)
  ELSE call' = [call EXCEPT ![c] = [Idle EXCEPT !.at = "claiming", !.of = d, !.as = row[d].decider]]

(* The row is read again, whatever its status: the refund is its decider's. *)
ApproveReads(c) ==
  /\ call[c].at = "approved"
  /\ Settle(c, call[c].of)
  /\ UNCHANGED <<money, row, key, released, faults>>

(* One transaction: the row of an earlier call with the same key, or a new *)
(* one unless somebody's request is waiting.                               *)
RefundDirectly(c, d, p, amount) ==
  /\ call[c] = Idle
  /\ \/ row[d].by = p /\ Settle(c, d) /\ UNCHANGED row
     \/ /\ row[d].is = "none" /\ NothingPending
        /\ row' = [row EXCEPT ![d] = [NoRow EXCEPT !.is = "APPROVED", !.by = p, !.decider = p,
                                                   !.amount = amount]]
        /\ call' = [call EXCEPT ![c] = [Idle EXCEPT !.at = "claiming", !.of = d, !.as = p]]
  /\ UNCHANGED <<money, key, released, faults>>

Reject(d, p) ==
  /\ row[d].is = "PENDING" /\ row[d].refund = None /\ p # row[d].by
  /\ row' = [row EXCEPT ![d].is = "REJECTED", ![d].decider = p]
  /\ UNCHANGED <<money, key, call, released, faults>>

-----------------------------------------------------------------------------
(* The idempotency record.  Its hash is of the row, which never changes. *)

KeyOf(c) == key[call[c].as][call[c].of]
SetKey(c, is) == key' = [key EXCEPT ![call[c].as][call[c].of] = [NoKey EXCEPT !.is = is]]

ClaimKey(c) ==
  /\ call[c].at = "claiming"
  /\ \/ KeyOf(c).is = "none" /\ SetKey(c, "IN_FLIGHT") /\ Goes(c, "finding")
     \/ KeyOf(c).is # "none" /\ Goes(c, "looking") /\ UNCHANGED key
  /\ UNCHANGED <<money, row, released, faults>>

(* A record deleted since the insert makes findUniqueOrThrow throw. *)
LookAtKey(c) ==
  /\ call[c].at = "looking"
  /\ \/ KeyOf(c).is = "none" /\ Goes(c, "failed")
     \/ KeyOf(c).is = "COMPLETED" /\ Attaches(c, call[c].as)
     \/ KeyOf(c).is = "IN_FLIGHT" /\ Goes(c, IF KeyOf(c).lapsed THEN "lapsed" ELSE "held")
  /\ UNCHANGED <<money, row, key, released, faults>>

ReclaimKey(c) ==
  /\ call[c].at = "lapsed"
  /\ IF KeyOf(c) = [is |-> "IN_FLIGHT", lapsed |-> TRUE]
     THEN SetKey(c, "IN_FLIGHT") /\ Goes(c, "finding")
     ELSE Goes(c, "held") /\ UNCHANGED key
  /\ UNCHANGED <<money, row, released, faults>>

CompleteKey(c) ==
  /\ call[c].at = "marking"
  /\ IF KeyOf(c).is = "none" THEN UNCHANGED key ELSE SetKey(c, "COMPLETED")
  /\ Attaches(c, call[c].as)
  /\ UNCHANGED <<money, row, released, faults>>

(* Whoever holds the record by now: it is deleted by scope and key. *)
DropKey(c) ==
  /\ call[c].at = "undoing"
  /\ SetKey(c, "none")
  /\ Goes(c, "failed")
  /\ UNCHANGED <<money, row, released, faults>>

KeyLapses(p, d) ==
  /\ key[p][d] = [is |-> "IN_FLIGHT", lapsed |-> FALSE]
  /\ key' = [key EXCEPT ![p][d].lapsed = TRUE]
  /\ Fails
  /\ UNCHANGED <<money, row, call, released>>

-----------------------------------------------------------------------------
(* The engine *)

FindByKey(c) ==
  /\ call[c].at = "finding"
  /\ Goes(c, IF refund[call[c].as][call[c].of] > 0 THEN "marking" ELSE "posting")
  /\ UNCHANGED <<money, row, key, released, faults>>

Remaining == Gross - refunded
Wanted(d) == IF row[d].amount = 0 THEN Remaining ELSE row[d].amount

Clawed(a) == Min({Earned * a, lot})

(* Mutant: the debit of the liability is the share, not what came back. *)
Mutant_DebitsTheShare(a) ==
  /\ refunded' = refunded + a
  /\ lot' = lot - Clawed(a) /\ held' = held
  /\ books' = [books EXCEPT !.payable = @ + Pool * a - Bonus * a,
                            !.liability = @ - Earned * a + Bonus * a,
                            !.revenue = @ - (Pool * a - Earned * a)]

(* The legs of reverseLoyaltyEffectsV2 and its posting: the pool comes     *)
(* back to the partner in full, the points as far as they are still there, *)
(* the rest is TuTak's; the points the customer spent are given back.      *)
Reverses(a) ==
  /\ refunded' = refunded + a
  /\ lot' = lot - Clawed(a) /\ held' = held
  /\ books' = [books EXCEPT !.payable = @ + Pool * a - Bonus * a,
                            !.liability = @ - Clawed(a) + Bonus * a,
                            !.revenue = @ - (Pool * a - Clawed(a))]

(* Mutant: the unique index on (actorId, idempotencyKey) is missing. *)
Mutant_PostsAgain(c) ==
  LET p == call[c].as  d == call[c].of IN
    /\ call[c].at = "posting"
    /\ Wanted(d) \in 1..Remaining
    /\ refund' = [refund EXCEPT ![p][d] = Wanted(d)] /\ Reverses(Wanted(d))
    /\ \E at \in {"marking", "undoing"} : Goes(c, at)
    /\ UNCHANGED <<row, key, released, faults>>

(* postRefund in its serializable transaction: refused when nothing or too *)
(* little remains, found when the same actor and key have posted, and      *)
(* otherwise posted, with an answer that may be lost after the commit.     *)
PostRefund(c) ==
  LET p == call[c].as  d == call[c].of IN
    /\ call[c].at = "posting"
    /\ \/ Wanted(d) \notin 1..Remaining /\ Goes(c, "undoing") /\ UNCHANGED money
       \/ /\ Wanted(d) \in 1..Remaining /\ refund[p][d] > 0
          /\ Goes(c, "marking") /\ UNCHANGED money
       \/ /\ Wanted(d) \in 1..Remaining /\ refund[p][d] = 0
          /\ refund' = [refund EXCEPT ![p][d] = Wanted(d)] /\ Reverses(Wanted(d))
          /\ \E at \in {"marking", "undoing"} : Goes(c, at)
    /\ UNCHANGED <<row, key, released, faults>>

-----------------------------------------------------------------------------
(* What settle() makes of it *)

(* A statement throws without having had an effect: run() catches what its *)
(* work threw, settle() the rest.                                          *)
Throws(c) ==
  /\ \/ call[c].at \in {"claiming", "looking", "lapsed", "undoing", "marking"} /\ Goes(c, "failed")
     \/ call[c].at \in {"finding", "posting"} /\ Goes(c, "undoing")
  /\ Fails
  /\ UNCHANGED <<money, row, key, released>>

(* postedRefundFor asks by the decision's key, whoever the actor. *)
LookForRefund(c) ==
  /\ call[c].at \in {"failed", "held"}
  /\ \/ \E p \in Posted(call[c].of) : Attaches(c, p)
     \/ Posted(call[c].of) = {} /\ IF call[c].at = "failed" THEN Goes(c, "releasing") ELSE Ends(c)
  /\ UNCHANGED <<money, row, key, released, faults>>

(* The decider stays on the row.  Another request that waits by now makes  *)
(* the one-pending index refuse the update.                                *)
Release(c) ==
  LET d == call[c].of IN
    /\ call[c].at = "releasing"
    /\ IF row[d].is = "APPROVED" /\ row[d].refund = None /\ NothingPending
       THEN row' = [row EXCEPT ![d].is = "PENDING"] /\ released' = released \cup {d}
       ELSE UNCHANGED <<row, released>>
    /\ Ends(c)
    /\ UNCHANGED <<money, key, faults>>

AttachRefund(c) ==
  /\ call[c].at = "attaching"
  /\ row' = [row EXCEPT ![call[c].of].refund = call[c].got]
  /\ Ends(c)
  /\ UNCHANGED <<money, key, released, faults>>

CallDies(c) ==
  /\ call[c] # Idle /\ Ends(c)
  /\ Fails
  /\ UNCHANGED <<money, row, key, released>>

(* A purchase elsewhere holds points, and spends them or gives them back   *)
(* (reserve, releaseReservation, postRedemptionCompensation).              *)
CustomerHolds(points) ==
  /\ held = 0 /\ points <= lot
  /\ lot' = lot - points /\ held' = points
  /\ UNCHANGED <<row, refund, key, call, refunded, books, released, faults>>

CustomerGivesBack ==
  /\ held > 0
  /\ lot' = lot + held /\ held' = 0
  /\ UNCHANGED <<row, refund, key, call, refunded, books, released, faults>>

CustomerSpends ==
  /\ held > 0 /\ held' = 0
  /\ books' = [books EXCEPT !.liability = @ - held, !.elsewhere = @ + held]
  /\ UNCHANGED <<row, refund, key, call, refunded, lot, released, faults>>

-----------------------------------------------------------------------------
DecisionStep ==
  \/ \E d \in Request, p \in Person, a \in Amount : Ask(d, p, a)
  \/ \E d \in Decision, p \in Approver : Reject(d, p)

CallStep(c) ==
  \/ \E d \in Decision, p \in Approver : Approve(c, d, p)
  \/ \E d \in Direct, p \in Approver, a \in Amount : RefundDirectly(c, d, p, a)
  \/ ApproveReads(c) \/ ClaimKey(c) \/ LookAtKey(c) \/ ReclaimKey(c)
  \/ FindByKey(c) \/ PostRefund(c) \/ CompleteKey(c) \/ DropKey(c)
  \/ Throws(c) \/ LookForRefund(c) \/ Release(c) \/ AttachRefund(c) \/ CallDies(c)

Next ==
  \/ DecisionStep
  \/ \E c \in Call : CallStep(c)
  \/ \E p \in Approver, d \in Decision : KeyLapses(p, d)
  \/ \E n \in 1..(Earned * Gross) : CustomerHolds(n)
  \/ CustomerGivesBack \/ CustomerSpends

Spec == Init /\ [][Next]_decisionVars

-----------------------------------------------------------------------------
(* What must not go wrong *)

(* Whatever order refunds, retries and purchases elsewhere come in, the    *)
(* partner is back at its share of what was not refunded, TuTak owes the   *)
(* points that are left, held or given back, and what could not be clawed  *)
(* back is TuTak's loss and nobody else's (reverseLoyaltyEffectsV2,        *)
(* postReversalLedgerV2).                                                  *)
BooksFollowTheRefund ==
  /\ books.payable = (Bonus - Pool) * (Gross - refunded)
  /\ books.liability = lot + held + Bonus * refunded
  /\ books.payable + books.liability + books.revenue + books.elsewhere = Bonus * Gross

(* A decision that settle() never handed back is refunded under one name,  *)
(* its decider's, however many approvers, retries and lapsed leases there  *)
(* were, and not at all when it ended REJECTED (approve, reject, settle).  *)
OneRefundUnlessReleased ==
  \A d \in Decision \ released :
    /\ \A p \in Posted(d) : row[d].is = "APPROVED" /\ p = row[d].decider
    /\ row[d].refund # None => row[d].is = "APPROVED"

(* Every refund stands on a decision row and was decided by somebody other *)
(* than the person who asked for it, and whatever a row or a stored answer *)
(* names was posted: a decision handed back, taken over or turned down in  *)
(* between included (settle, run, attachRefund).                           *)
EveryRefundIsOnRecord ==
  /\ \A d \in Decision : \A p \in Posted(d) : row[d].is # "none" /\ (d \in Request => p # row[d].by)
  /\ \A d \in Decision : row[d].refund # None => row[d].refund \in Posted(d)
  /\ \A d \in Decision, p \in Approver : key[p][d].is = "COMPLETED" => p \in Posted(d)

Refunds == [x \in Approver \X Decision |-> refund[x[1]][x[2]]]

(* refundedAmount is the sum of the refunds on record: none is posted over *)
(* another, none counted without its row (postRefund).                     *)
RefundedIsTheSum == refunded = SumFunction(Refunds)

-----------------------------------------------------------------------------
(* What the documentation says and the code does not do *)

(* One request can never become two refunds, whoever approves it (settle). *)
OneRefundPerDecision == \A d \in Decision : Cardinality(Posted(d)) <= 1

(* No row says REJECTED while its refund exists (reject). *)
RejectedIsNotRefunded == \A d \in Decision : row[d].is = "REJECTED" => Posted(d) = {}
=============================================================================

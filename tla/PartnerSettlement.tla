-------------------------- MODULE PartnerSettlement --------------------------
(***************************************************************************)
(* The settlement engine of one partner (PartnerSettlementService): a      *)
(* settlement claims postings, is approved, is paid by a bank transfer     *)
(* made by hand, and records what the bank answered.  Its transactions are *)
(* READ COMMITTED; a call whose commit does not look again at all it has   *)
(* read is cut in two, and `call` holds what it read.                      *)
(***************************************************************************)
EXTENDS PartnerAccount

CONSTANTS Settlement, \* settlement ids
          Ref,        \* bank transfer references
          Call,       \* calls in flight
          MaxTries    \* bound on the attempts a refusal or an unclear answer adds to

ASSUME NoneIsNothing == None \notin Settlement \cup Person \cup Ref
ASSUME Tries == MaxTries \in Nat
ASSUME Settlements == IsFiniteSet(Settlement) /\ Settlement \subseteq Source

VARIABLES
  row,     \* partner_settlements
  claim,   \* partner_settlement_entries: <<settlement, posting>>
  attempt, \* partner_settlement_transfer_attempts; rows alike in all we keep are one
  call,    \* what a call in flight has read
  fresh    \* history: settlements whose proposal was made since the bank's last unclear answer

settlementVars == <<row, claim, attempt, call, fresh>>

Open   == {"DRAFT", "READY", "APPROVED", "PAYMENT_PENDING"}
Doubt  == "REQUIRES_RECONCILIATION"
Status == Open \cup {"none", "PAID", "FAILED", "CANCELLED", Doubt}

(* TRANSFER_ATTEMPTABLE *)
Attemptable == {"APPROVED", "PAYMENT_PENDING", "FAILED"}

NoRow == [is |-> "none", net |-> 0, maker |-> None, reporter |-> None,
          outcome |-> "none", proposer |-> None, confirmer |-> None, ref |-> None]
Idle  == [op |-> "idle", of |-> None, by |-> None, saw |-> "none", ref |-> None,
          take |-> {}, net |-> 0]

Outcome == {"MONEY_MOVED", "MONEY_DID_NOT_MOVE"}

TypeOK ==
  /\ posting \in Seq(Posting)
  /\ row \in [Settlement -> [is : Status, net : Nat, maker : Person \cup {None},
                             reporter : Person \cup {None}, outcome : Outcome \cup {"none"},
                             proposer : Person \cup {None}, confirmer : Person \cup {None},
                             ref : Ref \cup {None}]]
  /\ claim \subseteq Settlement \X Index
  /\ attempt \subseteq [of : Settlement, ref : Ref \cup {None},
                        is : {"succeeded", "failed", "unresolved"}]
  /\ call \in [Call -> [op : {"idle", "draft", "insert", "pay", "propose", "confirm"},
                        of : Settlement \cup {None}, by : Person \cup {None},
                        saw : Status \cup Outcome \cup {"none"}, ref : Ref \cup {None},
                        take : SUBSET Index, net : Nat]]
  /\ fresh \subseteq Settlement

SettlementInit ==
  /\ row = [s \in Settlement |-> NoRow]
  /\ claim = {}
  /\ attempt = {}
  /\ call = [c \in Call |-> Idle]
  /\ fresh = {}

-----------------------------------------------------------------------------
(* The draft *)

Claimed   == {e[2] : e \in claim}
Unsettled == {i \in Index : posting[i].kind \in Settleable} \ Claimed

Returns(c) == call' = [call EXCEPT ![c] = Idle]

DraftOpens(c, p) ==
  /\ call[c] = Idle
  /\ \A s \in Settlement : row[s].is \notin Open
  /\ call' = [call EXCEPT ![c] = [Idle EXCEPT !.op = "draft", !.by = p]]
  /\ UNCHANGED <<posting, row, claim, attempt, fresh>>

(* periodEnd cuts the postings by postedAt, for which the order in which   *)
(* they committed stands here; what is left must be owed.                  *)
DraftReads(c, periodEnd) ==
  LET take == {i \in Unsettled : i <= periodEnd}
  IN  /\ call[c].op = "draft"
      /\ IF Worth(take) \in Nat \ {0}
         THEN call' = [call EXCEPT ![c] = [@ EXCEPT !.op = "insert", !.take = take, !.net = Worth(take)]]
         ELSE Returns(c)
      /\ UNCHANGED <<posting, row, claim, attempt, fresh>>

Drafted(c) == [NoRow EXCEPT !.is = "DRAFT", !.net = call[c].net, !.maker = call[c].by]

(* Mutant: createMany is told to skip the postings that are taken. *)
Mutant_SkipsDuplicates(c, s) ==
  /\ call[c].op = "insert" /\ row[s].is = "none"
  /\ row' = [row EXCEPT ![s] = Drafted(c)]
  /\ claim' = claim \cup ({s} \X (call[c].take \ Claimed))
  /\ Returns(c)
  /\ UNCHANGED <<posting, attempt, fresh>>

(* The unique index on ledgerPostingId lets one of two drafts through. *)
DraftInserts(c, s) ==
  /\ call[c].op = "insert" /\ row[s].is = "none"
  /\ IF call[c].take \cap Claimed = {}
     THEN row' = [row EXCEPT ![s] = Drafted(c)] /\ claim' = claim \cup ({s} \X call[c].take)
     ELSE UNCHANGED <<row, claim>>
  /\ Returns(c)
  /\ UNCHANGED <<posting, attempt, fresh>>

-----------------------------------------------------------------------------
(* From draft to transfer *)

Move(s, from, to) ==
  /\ row[s].is \in from
  /\ row' = [row EXCEPT ![s].is = to]
  /\ UNCHANGED <<posting, attempt, call, fresh>>

MarkReady(s) == Move(s, {"DRAFT"}, "READY") /\ UNCHANGED claim

Approve(s, p) ==
  /\ p # row[s].maker
  /\ Move(s, {"READY"}, "APPROVED") /\ UNCHANGED claim

MarkPaymentPending(s) == Move(s, Attemptable, "PAYMENT_PENDING") /\ UNCHANGED claim

Cancel(s) ==
  /\ Move(s, {"DRAFT", "READY"}, "CANCELLED")
  /\ claim' = {e \in claim : e[1] # s}

-----------------------------------------------------------------------------
(* What the bank answered *)

(* Mutant: the row to resolve is looked for by its reference alone. *)
Mutant_AnyonesAttempt(s, ref) == {a \in attempt : a.ref = ref /\ a.ref # None /\ a.is = "unresolved"}

(* The unresolved row an answer with this reference resolves, if any. *)
Waiting(s, ref) ==
  {a \in attempt : a.of = s /\ a.ref = ref /\ a.ref # None /\ a.is = "unresolved"}

(* recordAttempt: the waiting row becomes the answer, or a new one is made. *)
Record(s, ref, is) ==
  IF Waiting(s, ref) # {}
  THEN attempt' = (attempt \ Waiting(s, ref)) \cup {[a EXCEPT !.is = is] : a \in Waiting(s, ref)}
  ELSE attempt' = attempt \cup {[of |-> s, ref |-> ref, is |-> is]}

(* The unique indexes of both tables, on the reference and on successKey. *)
Unique(s, ref, is) ==
  /\ Waiting(s, ref) = {} => \A a \in attempt : ref # None => a.ref # ref
  /\ is = "succeeded" => \A a \in attempt : a.of = s => a.is # "succeeded"
ReferenceFree(s, ref) == \A t \in Settlement \ {s} : ref # None => row[t].ref # ref

(* reconciliation_needs_two_people, partner_reporter_does_not_resolve *)
TwoPeople(r) ==
  /\ r.confirmer # None => r.confirmer # r.proposer
  /\ r.reporter # None => r.reporter \notin {r.proposer, r.confirmer}

(* Mutants: the posting is not made on the transaction; the claim is by id. *)
Mutant_PostsOutside(s, status, r) ==
  /\ Post("settlement.paid", -row[s].net, s)
  /\ IF row[s].is = status /\ TwoPeople(r) /\ Unique(s, r.ref, "succeeded") /\ ReferenceFree(s, r.ref)
     THEN row' = [row EXCEPT ![s] = r] /\ Record(s, r.ref, "succeeded")
     ELSE UNCHANGED <<row, attempt>>
Mutant_PaysAnyway(s, status, r) ==
  IF row[s].is # "PAID" /\ TwoPeople(r) /\ Unique(s, r.ref, "succeeded") /\ ReferenceFree(s, r.ref)
  THEN /\ row' = [row EXCEPT ![s] = r]
       /\ Post("settlement.paid", -row[s].net, s)
       /\ Record(s, r.ref, "succeeded")
  ELSE UNCHANGED <<posting, row, attempt>>

(* payFrom, r being the row it writes: the posting, the claim on the       *)
(* status that was read and the attempt, or none of them.                  *)
PayFrom(s, status, r) ==
  IF row[s].is = status /\ TwoPeople(r) /\ Unique(s, r.ref, "succeeded") /\ ReferenceFree(s, r.ref)
  THEN /\ row' = [row EXCEPT ![s] = r]
       /\ Post("settlement.paid", -row[s].net, s)
       /\ Record(s, r.ref, "succeeded")
  ELSE UNCHANGED <<posting, row, attempt>>

PayReads(c, s, ref) ==
  /\ call[c] = Idle /\ row[s].is \in Attemptable
  /\ call' = [call EXCEPT ![c] = [Idle EXCEPT !.op = "pay", !.of = s, !.saw = row[s].is, !.ref = ref]]
  /\ UNCHANGED <<posting, row, claim, attempt, fresh>>

(* markPaid *)
PayCommits(c) ==
  LET s == call[c].of
  IN  /\ call[c].op = "pay"
      /\ PayFrom(s, call[c].saw, [row[s] EXCEPT !.is = "PAID", !.ref = call[c].ref])
      /\ Returns(c)
      /\ UNCHANGED <<claim, fresh>>

(* markFailed: the bank refused, and said so. *)
MarkFailed(s, ref) ==
  /\ row[s].is \in Attemptable /\ Cardinality(attempt) < MaxTries
  /\ Unique(s, ref, "failed")
  /\ row' = [row EXCEPT ![s].is = "FAILED"]
  /\ Record(s, ref, "failed")
  /\ UNCHANGED <<posting, claim, call, fresh>>

(* markRequiresReconciliation, or reportTransferProblem by a person of the *)
(* partner, which names no reference.  A proposal on the row stays on it.  *)
RaiseDoubt(s, ref, reporter) ==
  LET r == [row[s] EXCEPT !.is = Doubt, !.reporter = reporter]
  IN  /\ row[s].is \in Attemptable /\ Cardinality(attempt) < MaxTries
      /\ reporter # None => ref = None
      /\ TwoPeople(r) /\ Unique(s, ref, "unresolved")
      /\ row' = [row EXCEPT ![s] = r]
      /\ Record(s, ref, "unresolved")
      /\ fresh' = fresh \ {s}
      /\ UNCHANGED <<posting, claim, call>>

-----------------------------------------------------------------------------
(* Two people resolve a doubt *)

ProposeReads(c, s, p, outcome, ref) ==
  /\ call[c] = Idle /\ row[s].is = Doubt /\ p # row[s].reporter
  /\ outcome = "MONEY_DID_NOT_MOVE" => ref = row[s].ref
  /\ outcome = "MONEY_MOVED" => ref # None
  /\ call' = [call EXCEPT ![c] = [Idle EXCEPT !.op = "propose", !.of = s, !.by = p,
                                              !.saw = outcome, !.ref = ref]]
  /\ UNCHANGED <<posting, row, claim, attempt, fresh>>

(* The update is by id: only the constraints and the trigger on a PAID row *)
(* can refuse it.                                                          *)
ProposeCommits(c) ==
  LET s == call[c].of
      r == [row[s] EXCEPT !.outcome = call[c].saw, !.proposer = call[c].by,
                          !.confirmer = None, !.ref = call[c].ref]
  IN  /\ call[c].op = "propose"
      /\ IF row[s].is # "PAID" /\ TwoPeople(r) /\ ReferenceFree(s, call[c].ref)
         THEN row' = [row EXCEPT ![s] = r] /\ fresh' = (IF row[s].is = Doubt THEN fresh \cup {s} ELSE fresh)
         ELSE UNCHANGED <<row, fresh>>
      /\ Returns(c)
      /\ UNCHANGED <<posting, claim, attempt>>

(* confirmReconciliationOutcome reads the proposal before its transaction. *)
ConfirmReads(c, s, p) ==
  /\ call[c] = Idle /\ row[s].is = Doubt
  /\ row[s].outcome # "none" /\ p \notin {row[s].reporter, row[s].proposer}
  /\ call' = [call EXCEPT ![c] = [Idle EXCEPT !.op = "confirm", !.of = s, !.by = p,
                                              !.saw = row[s].outcome, !.ref = row[s].ref]]
  /\ UNCHANGED <<posting, row, claim, attempt, fresh>>

ConfirmMoved(c) ==
  LET s == call[c].of
  IN  /\ call[c].op = "confirm" /\ call[c].saw = "MONEY_MOVED"
      /\ PayFrom(s, Doubt, [row[s] EXCEPT !.is = "PAID", !.confirmer = call[c].by, !.ref = call[c].ref])
      /\ Returns(c)
      /\ UNCHANGED <<claim, fresh>>

ConfirmNotMoved(c) ==
  LET s == call[c].of
      r == [row[s] EXCEPT !.is = "FAILED", !.confirmer = call[c].by]
  IN  /\ call[c].op = "confirm" /\ call[c].saw = "MONEY_DID_NOT_MOVE"
      /\ IF row[s].is = Doubt /\ TwoPeople(r)
         THEN row' = [row EXCEPT ![s] = r] /\ Record(s, None, "failed")
         ELSE UNCHANGED <<row, attempt>>
      /\ Returns(c)
      /\ UNCHANGED <<posting, claim, fresh>>

-----------------------------------------------------------------------------

CallStep(c) ==
  \/ \E p \in Person : DraftOpens(c, p)
  \/ \E n \in Index : DraftReads(c, n)
  \/ \E s \in Settlement : DraftInserts(c, s)
  \/ \E s \in Settlement, ref \in Ref : PayReads(c, s, ref)
  \/ PayCommits(c)
  \/ \E s \in Settlement, p \in Person, o \in Outcome, ref \in Ref \cup {None} :
       ProposeReads(c, s, p, o, ref)
  \/ ProposeCommits(c)
  \/ \E s \in Settlement, p \in Person : ConfirmReads(c, s, p)
  \/ ConfirmMoved(c)
  \/ ConfirmNotMoved(c)

SettlementStep(s) ==
  \/ MarkReady(s)
  \/ \E p \in Person : Approve(s, p)
  \/ MarkPaymentPending(s)
  \/ Cancel(s)
  \/ \E ref \in Ref \cup {None} : MarkFailed(s, ref)
  \/ \E ref \in Ref \cup {None}, q \in Person \cup {None} : RaiseDoubt(s, ref, q)

SettlementNext ==
  \/ \E c \in Call : CallStep(c)
  \/ \E s \in Settlement : SettlementStep(s)

SaleNext == Sell /\ UNCHANGED settlementVars

AccountInit == posting = <<>> /\ SettlementInit

AccountNext ==
  \/ SettlementNext
  \/ SaleNext

SettlementSpec ==
  /\ AccountInit
  /\ [][AccountNext]_<<posting, settlementVars>>

-----------------------------------------------------------------------------
(* What must not go wrong *)

Net  == [s \in Settlement |-> row[s].net]
Live == {s \in Settlement : row[s].is \notin {"none", "PAID", "CANCELLED"}}
Moved(kinds) == Worth({i \in Index : posting[i].kind \in kinds})

(* The account and the settlements tell one story: what sales and refunds  *)
(* made and settlements paid is what nobody has claimed plus what live     *)
(* settlements still have to pay.  Two drafts that race over the same      *)
(* postings, a refund after a payment and a cancelled draft all move both  *)
(* sides (createDraft, payFrom, cancel).                                   *)
LedgerAgrees ==
  Moved(Settleable \cup {"settlement.paid"}) = Worth(Unsettled) + SumFunctionOnSet(Net, Live)

(* The money of a settlement is recorded once if it is PAID and not at all *)
(* otherwise, however many people press "paid" or confirm that it moved    *)
(* (payFrom).                                                              *)
PaidOnce ==
  \A s \in Settlement :
    /\ row[s].is # "PAID" => \A i \in Index : posting[i].of # s
    /\ row[s].is = "PAID" => \E i \in Index : /\ posting[i].of = s /\ posting[i].amount = -row[s].net
                                             /\ \A j \in Index \ {i} : posting[j].of # s

(* A settlement leaves a doubt only when a second person confirms what     *)
(* another proposed, and neither is the person of the partner who raised   *)
(* it, even when the proposal changes hands between the confirmation's     *)
(* read and its write (confirmReconciliationOutcome).                      *)
ResolvedByTwo ==
  [][\A s \in Settlement :
       row[s].is = Doubt /\ row'[s].is # Doubt =>
         /\ None \notin {row'[s].proposer, row'[s].confirmer}
         /\ row'[s].proposer # row'[s].confirmer
         /\ row'[s].reporter \notin {row'[s].proposer, row'[s].confirmer}]_<<posting, settlementVars>>

(* The trail a bank dispute is argued from: a settlement is PAID when one  *)
(* attempt of its own succeeded, under the reference it names, and under   *)
(* no other circumstance (recordAttempt).                                  *)
AttemptProvesPayment ==
  \A s \in Settlement :
    {a.ref : a \in {b \in attempt : b.of = s /\ b.is = "succeeded"}}
      = IF row[s].is = "PAID" THEN {row[s].ref} ELSE {}

-----------------------------------------------------------------------------
(* What the documentation says and the code does not do *)

(* Nothing can be confirmed that has not been proposed since: a doubt is   *)
(* resolved by a proposal made for it (proposeReconciliationOutcome).      *)
ProposedForThisDoubt ==
  [][\A s \in Settlement : row[s].is = Doubt /\ row'[s].is # Doubt => s \in fresh]_<<posting, settlementVars>>

(* When an unclear attempt is resolved its own row is updated, so no       *)
(* unresolved attempt is left on a settlement that is PAID (recordAttempt).*)
NoDoubtIsLeft ==
  \A a \in attempt : a.is = "unresolved" => row[a.of].is # "PAID"

(* A doubt ends in PAID only under the answer that the money moved, the    *)
(* one its row carries (confirmReconciliationOutcome).                     *)
PaidAsProposed ==
  [][\A s \in Settlement :
       row[s].is = Doubt /\ row'[s].is = "PAID" => row'[s].outcome = "MONEY_MOVED"]_<<posting, settlementVars>>
=============================================================================

----------------------------- MODULE EvCharging -----------------------------
(***************************************************************************)
(* Charging bays: reserving one, charging at it, stopping, the bill, and   *)
(* the operator's record (CDR) that comes later.                           *)
(*                                                                         *)
(* EvReservationsService, EvSessionsService.start / stop / the sweep of    *)
(* abandoned sessions, EvCdrReconciliationService and OutboxService with   *)
(* its handler of the contribution.  A transaction is one action.  What is *)
(* read before it is an action of its own wherever the transaction does    *)
(* not check it again.  A commit whose answer is lost is a commit, after   *)
(* which its caller goes to its catch.                                     *)
(***************************************************************************)
EXTENDS Naturals, FiniteSets

CONSTANTS
  Connector, \* connectors
  Remote,    \* those with an ocpiEvseUid: another operator meters them too
  Roaming,   \* those of ROAMING_CPO stations, which start() wants remote: their
             \* sessions are billed when the operator's CDR comes
  Hold,      \* reservations
  Session,   \* sessions
  Call,      \* calls of stop() in flight
  MaxPass,   \* reconciliation passes at work on one session at a time
  MaxTries,  \* MAX_ATTEMPTS of the outbox
  None

ASSUME Kinds ==
  /\ Roaming \subseteq Remote /\ Remote \subseteq Connector
  /\ None \notin Connector \cup Hold \cup Session
ASSUME Passes == MaxPass \in Nat
ASSUME Tries == MaxTries \in Nat

VARIABLES
  bay,        \* ev_connectors.status
  hold,       \* ev_reservations
  session,    \* ev_sessions
  bill,       \* what the session came to: transaction, CDR, points, contribution and
              \* its outbox event; and, as history, whether stop() heard it complete
  starting,   \* reservations a start() has found CONFIRMED
  cancelling, \* reservations a cancel() has found CONFIRMED
  listed,     \* sessions the sweep has found CHARGING for more than STALE_SESSION_HOURS
  stop,       \* what a call of stop() is about and how far it has come
  pass,       \* per session: its reconciliation, claimed and at work
  dropped     \* history: sessions a stop died on, or could not give the points back for

bayVars  == <<bay, hold, session>>
readVars == <<starting, cancelling, listed>>
vars     == <<bayVars, bill, readVars, stop, pass, dropped>>

NoBill == [txn |-> "none", cdr |-> "none", points |-> "none", earned |-> 0, posted |-> 0,
           event |-> "none", tries |-> 0, handling |-> 0, corrected |-> 0, heard |-> TRUE]
Idle   == [of |-> None, at |-> "idle"]

Stage == {"idle", "claimed", "open", "flagged", "held", "spent", "billed", "earned",
          "unheard", "unwound", "released"}

(* A session bears the marks of one way of being billed only: AWAITING_      *)
(* SETTLEMENT is for roaming connectors, a CDR to compare for remote ones. *)
Compared == {"PENDING", "MATCHED", "CORRECTED", "UNAVAILABLE"}

TypeOK ==
  /\ bay \in [Connector -> {"AVAILABLE", "RESERVED", "CHARGING"}]
  /\ hold \in [Hold -> [is : {"none", "CONFIRMED", "FULFILLED", "CANCELLED", "EXPIRED"},
                        at : Connector \cup {None}]]
  /\ \A h \in Hold : hold[h].is # "none" => hold[h].at \in Connector
  /\ session \in [Session -> [is : {"none", "CHARGING", "AWAITING_SETTLEMENT", "COMPLETED", "INVALID"},
                              at : Connector \cup {None}, by : Hold \cup {None}, stopped : BOOLEAN]]
  /\ \A s \in Session : session[s].is # "none" => session[s].at \in Connector
  /\ bill \in [Session -> [txn : {"none", "PENDING", "COMPLETED", "FAILED", "FLAGGED"},
                           cdr : {"none", "NOT_APPLICABLE"} \cup Compared,
                           points : {"none", "held", "spent", "returned"},
                           earned : Nat, posted : Nat, corrected : Nat,
                           event : {"none", "pending", "done"}, tries : 0..MaxTries,
                           handling : Nat, heard : BOOLEAN]]
  /\ starting \subseteq Hold /\ cancelling \subseteq Hold
  /\ listed \subseteq Session /\ dropped \subseteq Session
  /\ stop \in [Call -> [of : Session \cup {None}, at : Stage]]
  /\ \A c \in Call : stop[c].at # "idle" => stop[c].of \in Session
  /\ pass \in [Session -> [claimed : BOOLEAN, at : 0..MaxPass]]
  /\ \A s \in Session :
       /\ session[s].is = "AWAITING_SETTLEMENT" => session[s].at \in Roaming
       /\ bill[s].cdr \in Compared => session[s].at \in Remote \ Roaming

Init ==
  /\ bay = [k \in Connector |-> "AVAILABLE"]
  /\ hold = [h \in Hold |-> [is |-> "none", at |-> None]]
  /\ session = [s \in Session |-> [is |-> "none", at |-> None, by |-> None, stopped |-> FALSE]]
  /\ bill = [s \in Session |-> NoBill]
  /\ starting = {} /\ cancelling = {} /\ listed = {} /\ dropped = {}
  /\ stop = [c \in Call |-> Idle]
  /\ pass = [s \in Session |-> [claimed |-> FALSE, at |-> 0]]

-----------------------------------------------------------------------------
(* Reservations *)

Reserve(h, k) ==
  /\ hold[h].is = "none"
  /\ bay[k] = "AVAILABLE"
  /\ bay' = [bay EXCEPT ![k] = "RESERVED"]
  /\ hold' = [hold EXCEPT ![h] = [is |-> "CONFIRMED", at |-> k]]
  /\ UNCHANGED <<session, bill, readVars, stop, pass, dropped>>

(* updateMany where the connector is RESERVED, by whomever *)
Freed(k) == [bay EXCEPT ![k] = IF @ = "RESERVED" THEN "AVAILABLE" ELSE @]

CancelReads(h) ==
  /\ hold[h].is = "CONFIRMED"
  /\ cancelling' = cancelling \cup {h}
  /\ UNCHANGED <<bayVars, bill, starting, listed, stop, pass, dropped>>

CancelCommits(h) ==
  /\ h \in cancelling
  /\ cancelling' = cancelling \ {h}
  /\ bay' = Freed(hold[h].at)
  /\ hold' = [hold EXCEPT ![h].is = "CANCELLED"]
  /\ UNCHANGED <<session, bill, starting, listed, stop, pass, dropped>>

(* expireStaleReservations, one row: its claim repeats what the list found. *)
ExpireHold(h) ==
  /\ hold[h].is = "CONFIRMED"
  /\ bay' = Freed(hold[h].at)
  /\ hold' = [hold EXCEPT ![h].is = "EXPIRED"]
  /\ UNCHANGED <<session, bill, readVars, stop, pass, dropped>>

-----------------------------------------------------------------------------
(* Starting *)

Begin(s, k, h) ==
  /\ session[s].is = "none"
  /\ bay' = [bay EXCEPT ![k] = "CHARGING"]
  /\ session' = [session EXCEPT ![s] = [is |-> "CHARGING", at |-> k, by |-> h, stopped |-> FALSE]]
  /\ UNCHANGED <<bill, cancelling, listed, stop, pass, dropped>>

Start(s, k) ==
  /\ bay[k] = "AVAILABLE"
  /\ Begin(s, k, None)
  /\ UNCHANGED <<hold, starting>>

StartReads(h) ==
  /\ hold[h].is = "CONFIRMED"
  /\ starting' = starting \cup {h}
  /\ UNCHANGED <<bayVars, bill, cancelling, listed, stop, pass, dropped>>

(* The reservation is FULFILLED by id; its session's unique index is all   *)
(* that is asked of it.                                                    *)
StartHeld(h, s) ==
  /\ h \in starting
  /\ bay[hold[h].at] \in {"AVAILABLE", "RESERVED"}
  /\ \A t \in Session : session[t].by # h
  /\ Begin(s, hold[h].at, h)
  /\ hold' = [hold EXCEPT ![h].is = "FULFILLED"]
  /\ starting' = starting \ {h}

-----------------------------------------------------------------------------
(* Leaving the bay *)

(* releaseConnector *)
Release(s) ==
  /\ bay' = [bay EXCEPT ![session[s].at] = "AVAILABLE"]
  /\ session' = IF session[s].is = "CHARGING"
                THEN [session EXCEPT ![s].is = "INVALID", ![s].stopped = TRUE]
                ELSE session
  /\ UNCHANGED hold

Mutant_ListsUnstopped(s) ==
  /\ session[s].is = "CHARGING" /\ ~session[s].stopped
  /\ s \notin listed
  /\ listed' = listed \cup {s}
  /\ UNCHANGED <<bayVars, bill, starting, cancelling, stop, pass, dropped>>

SweepLists(s) ==
  /\ session[s].is = "CHARGING"
  /\ s \notin listed
  /\ listed' = listed \cup {s}
  /\ UNCHANGED <<bayVars, bill, starting, cancelling, stop, pass, dropped>>

SweepCloses(s) ==
  /\ s \in listed
  /\ Release(s)
  /\ listed' = listed \ {s}
  /\ UNCHANGED <<bill, starting, cancelling, stop, pass, dropped>>

-----------------------------------------------------------------------------
(* stopOnce *)

Of(c) == stop[c].of
At(c, stages) == stop[c].at \in stages
Goes(c, stage) == stop' = [stop EXCEPT ![c].at = stage]
Ends(c) == stop' = [stop EXCEPT ![c] = Idle]

Mutant_ClaimsAgain(c, s) ==
  /\ At(c, {"idle"})
  /\ session[s].is = "CHARGING"
  /\ session' = [session EXCEPT ![s].stopped = TRUE]
  /\ stop' = [stop EXCEPT ![c] = [of |-> s, at |-> "claimed"]]
  /\ UNCHANGED <<bay, hold, bill, readVars, pass, dropped>>

(* The stamp on stoppedAt: whoever sets it owns the stop.  It repeats what *)
(* stopOnce read before it.                                                *)
StopClaims(c, s) ==
  /\ At(c, {"idle"})
  /\ session[s].is = "CHARGING" /\ ~session[s].stopped
  /\ session' = [session EXCEPT ![s].stopped = TRUE]
  /\ stop' = [stop EXCEPT ![c] = [of |-> s, at |-> "claimed"]]
  /\ UNCHANGED <<bay, hold, bill, readVars, pass, dropped>>

Mutant_ParkKeepsBay(c) ==
  /\ At(c, {"claimed"})
  /\ session[Of(c)].at \in Roaming
  /\ session' = [session EXCEPT ![Of(c)].is = "AWAITING_SETTLEMENT"]
  /\ Ends(c)
  /\ UNCHANGED <<bay, hold, bill, readVars, pass, dropped>>

(* stopRoamingSession, after its remote command, whatever came of that. *)
Park(c) ==
  /\ At(c, {"claimed"})
  /\ session[Of(c)].at \in Roaming
  /\ bay' = [bay EXCEPT ![session[Of(c)].at] = "AVAILABLE"]
  /\ session' = [session EXCEPT ![Of(c)].is = "AWAITING_SETTLEMENT"]
  /\ Ends(c)
  /\ UNCHANGED <<hold, bill, readVars, pass, dropped>>

(* The reading is more than the connector could have delivered. *)
RefuseReading(c) ==
  /\ At(c, {"claimed"})
  /\ session[Of(c)].at \notin Roaming
  /\ Release(Of(c))
  /\ Ends(c)
  /\ UNCHANGED <<bill, readVars, pass, dropped>>

OpenBill(c) ==
  /\ At(c, {"claimed"})
  /\ session[Of(c)].at \notin Roaming
  /\ bill' = [bill EXCEPT ![Of(c)].txn = "PENDING"]
  /\ Goes(c, "open")
  /\ UNCHANGED <<bayVars, readVars, pass, dropped>>

Flag(c) ==
  /\ At(c, {"open"})
  /\ bill' = [bill EXCEPT ![Of(c)].txn = "FLAGGED"]
  /\ Goes(c, "flagged")
  /\ UNCHANGED <<bayVars, readVars, pass, dropped>>

FlagReleases(c) ==
  /\ At(c, {"flagged"})
  /\ Release(Of(c))
  /\ Ends(c)
  /\ UNCHANGED <<bill, readVars, pass, dropped>>

(* If the answer is lost, the catch has no reservation to compensate.      *)
HoldPoints(c) ==
  /\ At(c, {"open"})
  /\ bill' = [bill EXCEPT ![Of(c)].points = "held"]
  /\ Goes(c, "held") \/ Goes(c, "unwound")
  /\ UNCHANGED <<bayVars, readVars, pass, dropped>>

SpendPoints(c) ==
  /\ At(c, {"held"})
  /\ bill[Of(c)].points = "held"
  /\ bill' = [bill EXCEPT ![Of(c)].points = "spent"]
  /\ Goes(c, "spent")
  /\ UNCHANGED <<bayVars, readVars, pass, dropped>>

(* The wallet's own sweep of reservations nobody settled. *)
PointsLapse(s) ==
  /\ bill[s].points = "held"
  /\ bill' = [bill EXCEPT ![s].points = "returned"]
  /\ UNCHANGED <<bayVars, readVars, stop, pass, dropped>>

(* One transaction: the bay, the session and the CDR, whose sessionId is   *)
(* unique.                                                                 *)
Bill(c) ==
  /\ At(c, {"open", "spent"})
  /\ bill[Of(c)].cdr = "none"
  /\ bay' = [bay EXCEPT ![session[Of(c)].at] = "AVAILABLE"]
  /\ session' = [session EXCEPT ![Of(c)].is = "COMPLETED"]
  /\ bill' = [bill EXCEPT ![Of(c)].cdr = IF session[Of(c)].at \in Remote THEN "PENDING"
                                          ELSE "NOT_APPLICABLE"]
  /\ Goes(c, "billed")
  /\ UNCHANGED <<hold, readVars, pass, dropped>>

(* The points earned, the promise to book them and the completion, in one  *)
(* transaction inside the try.  If its answer is lost, the catch runs with *)
(* accruedLotId still null.                                                *)
Earn(c) ==
  /\ At(c, {"billed"})
  /\ \E heard \in BOOLEAN :
       /\ bill' = [bill EXCEPT ![Of(c)].txn = "COMPLETED", ![Of(c)].earned = @ + 1,
                               ![Of(c)].event = "pending", ![Of(c)].heard = heard]
       /\ Goes(c, IF heard THEN "earned" ELSE "unheard")
  /\ UNCHANGED <<bayVars, readVars, pass, dropped>>

(* Nothing to earn: markCompleted, inside the try as well. *)
Complete(c) ==
  /\ At(c, {"billed"})
  /\ \E heard \in BOOLEAN :
       /\ bill' = [bill EXCEPT ![Of(c)].txn = "COMPLETED", ![Of(c)].heard = heard]
       /\ IF heard THEN Ends(c) ELSE Goes(c, "unheard")
  /\ UNCHANGED <<bayVars, readVars, pass, dropped>>

(* postEvContributionLedgerIdempotent, serializable: looks, then posts. *)
Booked(n) == IF n = 0 THEN 1 ELSE n

PostNow(c) ==
  /\ At(c, {"earned"})
  /\ \/ bill' = [bill EXCEPT ![Of(c)].posted = Booked(@)]
     \/ UNCHANGED bill
  /\ Ends(c)
  /\ UNCHANGED <<bayVars, readVars, pass, dropped>>

(* drain's claim counts the try and hides the row for CLAIM_LEASE_MS,      *)
(* which a slow handler outlives.                                          *)
DrainClaims(s) ==
  /\ bill[s].event = "pending"
  /\ bill[s].tries < MaxTries
  /\ bill' = [bill EXCEPT ![s].tries = @ + 1, ![s].handling = @ + 1]
  /\ UNCHANGED <<bayVars, readVars, stop, pass, dropped>>

Mutant_MarksAnyway(s) ==
  /\ bill[s].handling > 0
  /\ \E posted \in {bill[s].posted, Booked(bill[s].posted)} :
       bill' = [bill EXCEPT ![s].handling = @ - 1, ![s].posted = posted, ![s].event = "done"]
  /\ UNCHANGED <<bayVars, readVars, stop, pass, dropped>>

(* The handler, and the row's own mark, which may fail after it.  Or the   *)
(* handler throws, or its worker dies: then nothing is left of the try but *)
(* its number.                                                             *)
Drain(s) ==
  /\ bill[s].handling > 0
  /\ \/ \E e \in {bill[s].event, "done"} :
          bill' = [bill EXCEPT ![s].handling = @ - 1, ![s].posted = Booked(@), ![s].event = e]
     \/ bill' = [bill EXCEPT ![s].handling = @ - 1]
  /\ UNCHANGED <<bayVars, readVars, stop, pass, dropped>>

(* deadLettered: no claim selects the row again. *)
DeadLettered(s) == bill[s].event = "pending" /\ bill[s].tries = MaxTries

Mutant_OnlyReleases(c) ==
  /\ At(c, {"open", "held", "spent", "billed", "unheard"})
  /\ bill' = [bill EXCEPT ![Of(c)].points = IF @ = "held" THEN "returned" ELSE @]
  /\ Goes(c, "unwound")
  /\ UNCHANGED <<bayVars, readVars, pass, dropped>>

(* The catch: compensateReservation, releaseConnector, markFailed.  With   *)
(* accruedLotId it never runs: nothing throws after the assignment.        *)
Unwind(c) ==
  /\ At(c, {"open", "held", "spent", "billed", "unheard"})
  /\ \/ /\ bill' = [bill EXCEPT ![Of(c)].points = IF @ = "none" THEN @ ELSE "returned"]
        /\ UNCHANGED dropped
     \/ /\ bill[Of(c)].points # "none"
        /\ dropped' = dropped \cup {Of(c)}
        /\ UNCHANGED bill
  /\ Goes(c, "unwound")
  /\ UNCHANGED <<bayVars, readVars, pass>>

UnwindReleases(c) ==
  /\ At(c, {"unwound"})
  /\ Release(Of(c)) \/ UNCHANGED bayVars
  /\ Goes(c, "released")
  /\ UNCHANGED <<bill, readVars, pass, dropped>>

(* By id: a transaction that is COMPLETED is FAILED by it, too. *)
MarkFailed(c) ==
  /\ At(c, {"released"})
  /\ bill' = [bill EXCEPT ![Of(c)].txn = "FAILED"]
  /\ Ends(c)
  /\ UNCHANGED <<bayVars, readVars, pass, dropped>>

(* The process dies; or stopOnce throws outside its try, as it does on     *)
(* points that exceed the cost.                                            *)
StopDies(c) ==
  /\ ~At(c, {"idle", "earned"})
  /\ dropped' = dropped \cup {Of(c)}
  /\ Ends(c)
  /\ UNCHANGED <<bayVars, bill, readVars, pass>>

-----------------------------------------------------------------------------
(* The operator's CDR *)

PassEnds(s) == pass' = [pass EXCEPT ![s].at = @ - 1]
PassLetsGo(s) == pass' = [pass EXCEPT ![s].at = @ - 1, ![s].claimed = FALSE]

(* reconcilingAt of a PENDING CDR, settlingAt of a session never billed.   *)
(* settlementGivenUpAt keeps a session off later lists and is not asked by *)
(* the claim: a pass that listed it before may come to it any time after.  *)
PassClaims(s) ==
  /\ \/ bill[s].cdr = "PENDING"
     \/ session[s].is = "AWAITING_SETTLEMENT"
  /\ ~pass[s].claimed
  /\ pass[s].at < MaxPass
  /\ pass' = [pass EXCEPT ![s].claimed = TRUE, ![s].at = @ + 1]
  /\ UNCHANGED <<bayVars, bill, readVars, stop, dropped>>

(* RECONCILE_CLAIM_STALE_AFTER_MS, with the pass dead or only slow. *)
ClaimLapses(s) ==
  /\ pass[s].claimed
  /\ pass' = [pass EXCEPT ![s].claimed = FALSE]
  /\ UNCHANGED <<bayVars, bill, readVars, stop, dropped>>

(* The pass dies, or throws with its claim in place. *)
PassDies(s) ==
  /\ pass[s].at > 0
  /\ PassEnds(s)
  /\ UNCHANGED <<bayVars, bill, readVars, stop, dropped>>

Correcting(s) == pass[s].at > 0 /\ session[s].at \notin Roaming
Settling(s)   == pass[s].at > 0 /\ session[s].at \in Roaming

(* No CDR yet, or for the last permitted time. *)
NoCdrYet(s) ==
  /\ Correcting(s)
  /\ PassLetsGo(s)
  /\ \E cdr \in {bill[s].cdr, "UNAVAILABLE"} : bill' = [bill EXCEPT ![s].cdr = cdr]
  /\ UNCHANGED <<bayVars, readVars, stop, dropped>>

(* MATCHED or UNDERBILLED, which differ by the alert. *)
CdrAgrees(s) ==
  /\ Correcting(s)
  /\ PassEnds(s)
  /\ bill' = [bill EXCEPT ![s].cdr = "MATCHED"]
  /\ UNCHANGED <<bayVars, readVars, stop, dropped>>

(* correctOvercharge: only a COMPLETED transaction is corrected, and the   *)
(* CDR is CORRECTED either way.                                            *)
CorrectOvercharge(s) ==
  /\ Correcting(s)
  /\ PassEnds(s)
  /\ bill' = [bill EXCEPT ![s].cdr = "CORRECTED",
                          ![s].corrected = @ + (IF bill[s].txn = "COMPLETED" THEN 1 ELSE 0)]
  /\ UNCHANGED <<bayVars, readVars, stop, dropped>>

(* completeAppInitiatedSession: one transaction for the session, its CDR,  *)
(* the points and the books; the CDR's sessionId is unique.                *)
SettleRoaming(s) ==
  /\ Settling(s)
  /\ bill[s].cdr = "none"
  /\ PassEnds(s)
  /\ session' = [session EXCEPT ![s].is = "COMPLETED"]
  /\ \E p \in {0, 1} : \E e \in 0..p :
       bill' = [bill EXCEPT ![s].txn = "COMPLETED", ![s].cdr = "NOT_APPLICABLE",
                            ![s].earned = @ + e, ![s].posted = @ + p]
  /\ UNCHANGED <<bay, hold, readVars, stop, dropped>>

(* The transaction is rolled back, or no CDR came, perhaps for the last time. *)
RoamingWaits(s) ==
  /\ Settling(s)
  /\ PassLetsGo(s)
  /\ UNCHANGED <<bayVars, bill, readVars, stop, dropped>>

-----------------------------------------------------------------------------

HoldStep(h) ==
  \/ \E k \in Connector : Reserve(h, k)
  \/ CancelReads(h)
  \/ CancelCommits(h)
  \/ ExpireHold(h)
  \/ StartReads(h)
  \/ \E s \in Session : StartHeld(h, s)

StopStep(c) ==
  \/ \E s \in Session : StopClaims(c, s)
  \/ Park(c)
  \/ RefuseReading(c)
  \/ OpenBill(c)
  \/ Flag(c)
  \/ FlagReleases(c)
  \/ HoldPoints(c)
  \/ SpendPoints(c)
  \/ Bill(c)
  \/ Earn(c)
  \/ Complete(c)
  \/ PostNow(c)
  \/ Unwind(c)
  \/ UnwindReleases(c)
  \/ MarkFailed(c)
  \/ StopDies(c)

SessionStep(s) ==
  \/ \E k \in Connector : Start(s, k)
  \/ SweepLists(s)
  \/ SweepCloses(s)
  \/ PointsLapse(s)
  \/ DrainClaims(s)
  \/ Drain(s)

PassStep(s) ==
  \/ PassClaims(s)
  \/ ClaimLapses(s)
  \/ PassDies(s)
  \/ NoCdrYet(s)
  \/ CdrAgrees(s)
  \/ CorrectOvercharge(s)
  \/ SettleRoaming(s)
  \/ RoamingWaits(s)

Next ==
  \/ \E h \in Hold : HoldStep(h)
  \/ \E c \in Call : StopStep(c)
  \/ \E s \in Session : SessionStep(s) \/ PassStep(s)

Spec == Init /\ [][Next]_vars

(* Time passes; the two sweeps come round (ev.expire-stale-reservations,   *)
(* ev.expire-stale-sessions), and reach every row of their lists.          *)
Fairness ==
  /\ \A h \in Hold : WF_vars(ExpireHold(h))
  /\ \A s \in Session : WF_vars(SweepLists(s)) /\ WF_vars(SweepCloses(s))

FairSpec == Spec /\ Fairness

-----------------------------------------------------------------------------
(* What must not go wrong *)

(* No bay is lost: one that is CHARGING is so for a session that is, and   *)
(* one that is RESERVED for a reservation that stands.  However a session  *)
(* or a reservation ends, its bay goes with it.                            *)
BaysAreAccountedFor ==
  \A k \in Connector :
    /\ bay[k] = "CHARGING" => \E s \in Session : session[s].is = "CHARGING" /\ session[s].at = k
    /\ bay[k] = "RESERVED" => \E h \in Hold : hold[h].is = "CONFIRMED" /\ hold[h].at = k

(* A session is COMPLETED exactly when it has its CDR, and nothing walks   *)
(* it back, whatever stops, sweeps and reconciliations overlap.  It earns  *)
(* once, and its transaction stands: unless the stop never heard that it   *)
(* had committed, and failed what it had completed (EarnedIsPaid).         *)
BilledOnce ==
  \A s \in Session :
    /\ bill[s].cdr # "none" <=> session[s].is = "COMPLETED"
    /\ bill[s].earned <= 1
    /\ bill[s].earned = 1 =>
         /\ session[s].is = "COMPLETED"
         /\ bill[s].txn = "COMPLETED" \/ ~bill[s].heard

(* What a session earned is in the ledger once, never twice; or the outbox *)
(* still tries to write it; or every permitted try has been used and its   *)
(* row is a dead letter, which nothing in the system posts and a person    *)
(* finds by deadLettered().  It is never marked processed without being    *)
(* posted.                                                                 *)
EveryEarningIsBooked ==
  \A s \in Session :
    /\ bill[s].posted <= 1
    /\ bill[s].earned = 1 =>
         \/ bill[s].posted = 1
         \/ bill[s].event = "pending" /\ bill[s].tries < MaxTries
         \/ DeadLettered(s)

(* When no stop is at work, the points a customer put in are spent on a    *)
(* completed transaction or are back; unless a stop died, or said that it  *)
(* could not give them back.                                               *)
AtWork(s) == \E c \in Call : Of(c) = s

PointsFollowTheBill ==
  \A s \in Session \ dropped :
    ~AtWork(s) => /\ bill[s].points = "spent" => bill[s].txn = "COMPLETED"
                  /\ bill[s].txn = "COMPLETED" => bill[s].points \in {"none", "spent"}

(* Every bay comes back: sessions nobody stops and stops that die are      *)
(* closed by the sweep, reservations nobody uses expire.                   *)
EveryBayComesBack == \A k \in Connector : bay[k] # "AVAILABLE" ~> bay[k] = "AVAILABLE"

-----------------------------------------------------------------------------
(* What the code does not keep *)

(* One cable, one customer: no two sessions charge at one bay (start's     *)
(* claim, and the condition on the release in cancel).                     *)
OneSessionPerBay ==
  \A s, t \in Session :
    /\ session[s].is = "CHARGING" /\ session[t].is = "CHARGING"
    /\ session[s].at = session[t].at
    => s = t

(* A reservation that stands has its bay: held for it, or in use. *)
HoldKeepsItsBay ==
  \A h \in Hold : hold[h].is = "CONFIRMED" => bay[hold[h].at] # "AVAILABLE"

(* A session that is COMPLETED, with nobody at work on it, was paid for. *)
CompletedIsPaid ==
  \A s \in Session \ dropped :
    session[s].is = "COMPLETED" /\ ~AtWork(s) => bill[s].txn = "COMPLETED"

(* What was earned, was earned on a transaction that stands. *)
EarnedIsPaid ==
  \A s \in Session : bill[s].earned = 1 /\ ~AtWork(s) => bill[s].txn = "COMPLETED"

(* A CDR is CORRECTED when, and only when, its transaction has been. *)
CorrectedIsCorrected ==
  \A s \in Session : bill[s].cdr = "CORRECTED" => bill[s].corrected = 1

=============================================================================

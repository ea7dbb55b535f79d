-------------------------- MODULE EvChargingProofs --------------------------
(* Proofs about EvCharging, for any number of connectors, reservations,     *)
(* sessions, stops and passes: no bay is lost, a session is billed once,    *)
(* its earning is booked, and its points follow its bill.                   *)
EXTENDS EvCharging, TLAPS

Sessions == [is : {"none", "CHARGING", "AWAITING_SETTLEMENT", "COMPLETED", "INVALID"},
             at : Connector \cup {None}, by : Hold \cup {None}, stopped : BOOLEAN]
Bills    == [txn : {"none", "PENDING", "COMPLETED", "FAILED", "FLAGGED"},
             cdr : {"none", "NOT_APPLICABLE"} \cup Compared,
             points : {"none", "held", "spent", "returned"},
             earned : Nat, posted : Nat, corrected : Nat, event : {"none", "pending", "done"},
             tries : 0..MaxTries, handling : Nat, heard : BOOLEAN]
Calls    == [of : Session \cup {None}, at : Stage]
Works    == [claimed : BOOLEAN, at : 0..MaxPass]

\* A session, its bill and its reconciliation agree, whoever is at work.
Sane(r, b, p) ==
  /\ r.is # "none" => r.at \in Connector
  /\ r.is = "none" => ~r.stopped
  /\ ~r.stopped => r.is \in {"none", "CHARGING"} /\ b = NoBill /\ p.at = 0
  /\ r.is = "AWAITING_SETTLEMENT" => r.at \in Roaming
  /\ b.cdr \in Compared => r.at \in Remote \ Roaming
  /\ b.cdr # "none" <=> r.is = "COMPLETED"
  /\ b.earned <= 1
  /\ b.earned = 1 => r.is = "COMPLETED" /\ (b.txn = "COMPLETED" \/ ~b.heard)
  /\ b.posted <= 1
  /\ b.earned = 1 => b.posted = 1 \/ b.event = "pending"
  /\ b.cdr = "none" => b.posted = 0
  /\ b.event # "none" => b.earned = 1 /\ r.at \notin Roaming
  /\ b.handling > 0 => b.event # "none"
  /\ r.at \in Roaming => b.points = "none"
  /\ p.at > 0 => IF r.at \in Roaming THEN r.is \in {"AWAITING_SETTLEMENT", "COMPLETED"}
                                     ELSE b.cdr \in Compared

\* What a stop that has come as far as stage has made of its session.
Fits(stage, r, b, gone) ==
  /\ r.stopped
  /\ stage # "claimed" => r.at \notin Roaming
  /\ r.at \in Roaming => r.is \notin {"AWAITING_SETTLEMENT", "COMPLETED"}
  /\ stage = "claimed" => b = NoBill
  /\ stage \in {"open", "flagged", "held", "spent"} => b.cdr = "none"
  /\ stage \in {"open", "flagged"} => b.points = "none"
  /\ stage = "held" => b.points \in {"held", "returned"}
  /\ stage = "spent" => b.points = "spent"
  /\ stage \in {"billed", "earned", "unheard"} =>
       b.points \in {"none", "spent"} /\ b.cdr # "none"
  /\ stage = "billed" => b.earned = 0
  /\ stage = "earned" => b.earned = 1 /\ b.txn = "COMPLETED"
  /\ stage = "unheard" => b.txn = "COMPLETED" /\ ~b.heard
  /\ stage \in {"unwound", "released"} =>
       /\ b.earned = 0 \/ ~b.heard
       /\ b.points # "spent" \/ gone

\* Nobody is at work on the session.
Rest(b, gone) ==
  gone \/ /\ b.points = "spent" => b.txn = "COMPLETED"
          /\ b.txn = "COMPLETED" => b.points \in {"none", "spent"}

SessionOK(s) ==
  /\ Sane(session[s], bill[s], pass[s])
  /\ \A c \in Call : Of(c) = s => Fits(stop[c].at, session[s], bill[s], s \in dropped)
  /\ ~AtWork(s) => Rest(bill[s], s \in dropped)

Owned ==
  /\ \A c \in Call : stop[c].at = "idle" <=> Of(c) = None
  /\ \A c, d \in Call : Of(c) = Of(d) /\ Of(c) # None => c = d

ReadsExist == \A h \in starting \cup cancelling : hold[h].is # "none"

IInv == TypeOK /\ BaysAreAccountedFor /\ Owned /\ ReadsExist
        /\ \A s \in Session : SessionOK(s)

LEMMA Shape ==
  ASSUME TypeOK
  PROVE  /\ session \in [Session -> Sessions] /\ bill \in [Session -> Bills]
         /\ stop \in [Call -> Calls] /\ pass \in [Session -> Works]
  BY DEF TypeOK, Sessions, Bills, Calls, Works

\* The part of TypeOK that relates a session to its bill.
LEMMA OneWayNext ==
  ASSUME \A s \in Session : SessionOK(s)'
  PROVE  \A s \in Session :
           /\ session'[s].is = "AWAITING_SETTLEMENT" => session'[s].at \in Roaming
           /\ bill'[s].cdr \in Compared => session'[s].at \in Remote \ Roaming
           /\ session'[s].is # "none" => session'[s].at \in Connector
  BY DEF SessionOK, Sane

(* The invariant holds before anybody has reserved or started. *)
THEOREM Initially == Init => IInv
<1> SUFFICES ASSUME Init PROVE IInv
  OBVIOUS
<1>1. TypeOK
  <2>1. 0 \in 0..MaxPass /\ 0 \in 0..MaxTries
    BY Passes, Tries
  <2>2. QED
    BY <2>1, Kinds DEF Init, TypeOK, NoBill, Idle, Stage, Compared
<1>2. BaysAreAccountedFor /\ Owned /\ ReadsExist
  BY Kinds DEF Init, BaysAreAccountedFor, Owned, ReadsExist, Of, Idle
<1>3. \A s \in Session : SessionOK(s)
  BY Kinds DEF Init, SessionOK, Sane, Fits, Rest, AtWork, Of, Idle, NoBill, Compared
<1>4. QED
  BY <1>1, <1>2, <1>3 DEF IInv

-----------------------------------------------------------------------------
(* What each kind of step preserves *)

(* A step that writes the records of one session, and moves no call but one *)
(* that is about it.                                                        *)
Records(s, r, b, p) ==
  /\ r \in Sessions /\ b \in Bills /\ p \in Works
  /\ session' = [session EXCEPT ![s] = r]
  /\ bill' = [bill EXCEPT ![s] = b]
  /\ pass' = [pass EXCEPT ![s] = p]
  /\ dropped \subseteq dropped' /\ dropped' \subseteq dropped \cup {s}
  /\ Sane(r, b, p)

(* Nobody's call moves: whatever stage one is in, it still fits. *)
LEMMA CallsStay ==
  ASSUME IInv, NEW s \in Session, NEW r, NEW b, NEW p, Records(s, r, b, p), stop' = stop,
         \A stage \in Stage : Fits(stage, session[s], bill[s], s \in dropped)
                              => Fits(stage, r, b, s \in dropped'),
         Rest(bill[s], s \in dropped) => Rest(b, s \in dropped')
  PROVE  Owned' /\ \A t \in Session : SessionOK(t)'
<1>1. Owned'
  BY DEF IInv, Owned, Of
<1>2. ASSUME NEW t \in Session, t # s PROVE SessionOK(t)'
  BY <1>2, Shape DEF IInv, SessionOK, Records, AtWork, Of
<1>3. SessionOK(s)'
  <2>1. session'[s] = r /\ bill'[s] = b /\ pass'[s] = p
    BY Shape DEF IInv, Records
  <2>2. \A c \in Call : stop[c].at \in Stage
    BY Shape DEF IInv, Calls
  <2>3. QED
    BY <2>1, <2>2 DEF IInv, SessionOK, Records, AtWork, Of
<1>4. QED
  BY <1>1, <1>2, <1>3

Moves(c, s, stage) == stop' = [stop EXCEPT ![c] = [of |-> s, at |-> stage]]

(* The call goes on to its next stage, or takes the session up. *)
LEMMA CallGoes ==
  ASSUME IInv, NEW s \in Session, NEW r, NEW b, NEW p, Records(s, r, b, p),
         NEW c \in Call, NEW stage \in Stage \ {"idle"},
         Moves(c, s, stage),
         Of(c) = s \/ (Of(c) = None /\ ~AtWork(s)),
         Fits(stage, r, b, s \in dropped')
  PROVE  Owned' /\ \A t \in Session : SessionOK(t)'
<1>1. stop'[c] = [of |-> s, at |-> stage] /\ \A d \in Call \ {c} : stop'[d] = stop[d]
  BY Shape DEF IInv, Moves
<1>2. \A d \in Call \ {c} : Of(d) # s
  BY Kinds DEF IInv, Owned, AtWork
<1>3. Owned'
  BY <1>1, <1>2, Kinds DEF IInv, Owned, Of
<1>4. ASSUME NEW t \in Session, t # s PROVE SessionOK(t)'
  <2>1. session'[t] = session[t] /\ bill'[t] = bill[t] /\ pass'[t] = pass[t]
        /\ (t \in dropped' <=> t \in dropped)
    BY <1>4, Shape DEF IInv, Records
  <2>2. \A d \in Call : Of(d)' = t <=> Of(d) = t
    BY <1>1, <1>4, Kinds DEF Of
  <2>3. \A d \in Call : Of(d) = t => stop'[d] = stop[d]
    BY <1>1, <1>4, Kinds
  <2>4. QED
    BY <2>1, <2>2, <2>3 DEF IInv, SessionOK, AtWork
<1>5. SessionOK(s)'
  <2>1. session'[s] = r /\ bill'[s] = b /\ pass'[s] = p
    BY Shape DEF IInv, Records
  <2>2. Of(c)' = s /\ \A d \in Call : Of(d)' = s => stop'[d].at = stage
    BY <1>1, <1>2 DEF Of
  <2>3. AtWork(s)'
    BY <2>2 DEF AtWork
  <2>4. QED
    BY <2>1, <2>2, <2>3 DEF SessionOK, Records
<1>6. QED
  BY <1>3, <1>4, <1>5

(* The call is over. *)
LEMMA CallEnds ==
  ASSUME IInv, NEW s \in Session, NEW r, NEW b, NEW p, Records(s, r, b, p),
         NEW c \in Call, Of(c) = s, stop' = [stop EXCEPT ![c] = Idle],
         Rest(b, s \in dropped')
  PROVE  Owned' /\ \A t \in Session : SessionOK(t)'
<1>1. stop'[c] = Idle /\ \A d \in Call \ {c} : stop'[d] = stop[d]
  BY Shape DEF IInv
<1>2. \A d \in Call \ {c} : Of(d) # s
  BY Kinds DEF IInv, Owned
<1>3. Owned'
  BY <1>1, <1>2, Kinds DEF IInv, Owned, Of, Idle
<1>4. ASSUME NEW t \in Session, t # s PROVE SessionOK(t)'
  <2>1. session'[t] = session[t] /\ bill'[t] = bill[t] /\ pass'[t] = pass[t]
        /\ (t \in dropped' <=> t \in dropped)
    BY <1>4, Shape DEF IInv, Records
  <2>2. \A d \in Call : Of(d)' = t <=> Of(d) = t
    BY <1>1, <1>4, Kinds DEF Of, Idle
  <2>3. \A d \in Call : Of(d) = t => stop'[d] = stop[d]
    BY <1>1, <1>4, Kinds
  <2>4. QED
    BY <2>1, <2>2, <2>3 DEF IInv, SessionOK, AtWork
<1>5. SessionOK(s)'
  <2>1. session'[s] = r /\ bill'[s] = b /\ pass'[s] = p
    BY Shape DEF IInv, Records
  <2>2. \A d \in Call : Of(d)' # s
    BY <1>1, <1>2, Kinds DEF Of, Idle
  <2>3. QED
    BY <2>1, <2>2 DEF SessionOK, Records
<1>6. QED
  BY <1>3, <1>4, <1>5

-----------------------------------------------------------------------------
(* Reservations, and what is read to be used later *)

LEMMA SessionsStay ==
  ASSUME IInv, UNCHANGED <<session, bill, stop, pass, dropped>>
  PROVE  Owned' /\ \A s \in Session : SessionOK(s)'
  BY DEF IInv, Owned, SessionOK, AtWork, Of

\* What a cancel and an expiry do alike: the reservation ends, and the bay it
\* names is freed if it is RESERVED.
Gives(h, is) == bay' = Freed(hold[h].at) /\ hold' = [hold EXCEPT ![h].is = is]

LEMMA GivenBack ==
  ASSUME IInv, NEW h \in Hold, NEW is \in {"CANCELLED", "EXPIRED"}, Gives(h, is), hold[h].is # "none",
         cancelling' \subseteq cancelling,
         UNCHANGED <<session, bill, starting, listed, stop, pass, dropped>>
  PROVE  TypeOK' /\ BaysAreAccountedFor' /\ ReadsExist'
<1>1. TypeOK'
  BY DEF IInv, Gives, Freed, TypeOK
<1>2. ASSUME NEW k \in Connector, bay'[k] = "CHARGING"
      PROVE  \E s \in Session : session[s].is = "CHARGING" /\ session[s].at = k
  <2>1. bay[k] = "CHARGING"
    BY <1>2 DEF Gives, Freed, IInv, TypeOK
  <2>2. QED
    BY <2>1 DEF IInv, BaysAreAccountedFor
<1>3. ASSUME NEW k \in Connector, bay'[k] = "RESERVED"
      PROVE  \E g \in Hold : hold'[g].is = "CONFIRMED" /\ hold'[g].at = k
  <2>1. bay[k] = "RESERVED" /\ hold[h].at # k
    BY <1>3 DEF Gives, Freed, IInv, TypeOK
  <2>2. PICK g \in Hold : hold[g].is = "CONFIRMED" /\ hold[g].at = k
    BY <2>1 DEF IInv, BaysAreAccountedFor
  <2>3. hold'[g] = hold[g]
    BY <2>1, <2>2 DEF Gives
  <2>4. QED
    BY <2>2, <2>3
<1>4. BaysAreAccountedFor'
  BY <1>2, <1>3 DEF BaysAreAccountedFor
<1>5. ReadsExist'
  <2>1. ASSUME NEW g \in starting \cup cancelling PROVE hold'[g].is # "none"
    BY <2>1 DEF Gives, IInv, ReadsExist, TypeOK
  <2>2. QED
    BY <2>1 DEF ReadsExist
<1>6. QED
  BY <1>1, <1>4, <1>5

LEMMA HoldPreserves ==
  ASSUME IInv, NEW h \in Hold,
         \/ \E k \in Connector : Reserve(h, k)
         \/ CancelReads(h) \/ CancelCommits(h) \/ ExpireHold(h) \/ StartReads(h)
  PROVE  IInv'
<1>1. Owned' /\ \A s \in Session : SessionOK(s)'
  BY SessionsStay DEF Reserve, CancelReads, CancelCommits, ExpireHold, StartReads, bayVars, readVars
<1>2. TypeOK' /\ BaysAreAccountedFor' /\ ReadsExist'
  <2>1. ASSUME NEW k \in Connector, Reserve(h, k) PROVE TypeOK' /\ BaysAreAccountedFor' /\ ReadsExist'
    BY <2>1 DEF IInv, Reserve, TypeOK, BaysAreAccountedFor, ReadsExist, readVars
  <2>2. CASE CancelReads(h)
    BY <2>2 DEF IInv, CancelReads, TypeOK, BaysAreAccountedFor, ReadsExist, bayVars
  <2>3. CASE CancelCommits(h)
    <3>1. Gives(h, "CANCELLED") /\ cancelling' \subseteq cancelling
      BY <2>3 DEF CancelCommits, Gives
    <3>2. hold[h].is # "none"
      BY <2>3 DEF CancelCommits, IInv, ReadsExist
    <3>3. QED
      BY <2>3, <3>1, <3>2, GivenBack DEF CancelCommits
  <2>4. CASE ExpireHold(h)
    <3>1. Gives(h, "EXPIRED") /\ cancelling' \subseteq cancelling /\ hold[h].is # "none"
      BY <2>4 DEF ExpireHold, Gives, readVars
    <3>2. QED
      BY <2>4, <3>1, GivenBack DEF ExpireHold, readVars
  <2>5. CASE StartReads(h)
    BY <2>5 DEF IInv, StartReads, TypeOK, BaysAreAccountedFor, ReadsExist, bayVars
  <2>6. QED
    BY <2>1, <2>2, <2>3, <2>4, <2>5
<1>3. QED
  BY <1>1, <1>2 DEF IInv

LEMMA ListPreserves ==
  ASSUME IInv, NEW s \in Session, SweepLists(s)
  PROVE  IInv'
<1>1. Owned' /\ \A t \in Session : SessionOK(t)'
  BY SessionsStay DEF SweepLists, bayVars
<1>2. TypeOK' /\ BaysAreAccountedFor' /\ ReadsExist'
  BY DEF IInv, SweepLists, TypeOK, BaysAreAccountedFor, ReadsExist, bayVars
<1>3. QED
  BY <1>1, <1>2 DEF IInv

-----------------------------------------------------------------------------
(* Starting and releasing *)

\* Whatever a session that starts was, nothing has happened to it.
LEMMA BeginPreserves ==
  ASSUME IInv, NEW s \in Session, NEW k \in Connector, NEW h \in Hold \cup {None}, Begin(s, k, h)
  PROVE  Owned' /\ \A t \in Session : SessionOK(t)'
<1> DEFINE r == [is |-> "CHARGING", at |-> k, by |-> h, stopped |-> FALSE]
<1>1. Sane(session[s], bill[s], pass[s]) /\ session[s].is = "none"
  BY DEF IInv, SessionOK, Begin
<1>2. Records(s, r, bill[s], pass[s])
  <2>1. Sane(r, bill[s], pass[s])
    BY <1>1 DEF Sane, NoBill, Compared
  <2>2. r \in Sessions /\ bill[s] \in Bills /\ pass[s] \in Works
    BY Shape DEF IInv, Sessions
  <2>3. QED
    BY <2>1, <2>2, Shape DEF IInv, Records, Begin
<1>3. \A stage \in Stage : ~Fits(stage, session[s], bill[s], s \in dropped)
  BY <1>1 DEF Sane, Fits
<1>4. stop' = stop /\ dropped' = dropped
  BY DEF Begin
<1> HIDE DEF r
<1>5. QED
  BY <1>2, <1>3, <1>4, CallsStay

LEMMA StartPreserves ==
  ASSUME IInv, NEW s \in Session, NEW k \in Connector, Start(s, k)
  PROVE  IInv'
<1>1. Owned' /\ \A t \in Session : SessionOK(t)'
  BY BeginPreserves DEF Start
<1>2. TypeOK' /\ ReadsExist'
  BY <1>1, OneWayNext DEF IInv, Start, Begin, TypeOK, ReadsExist
<1>3. BaysAreAccountedFor'
  BY DEF IInv, Start, Begin, TypeOK, BaysAreAccountedFor
<1>4. QED
  BY <1>1, <1>2, <1>3 DEF IInv

LEMMA StartHeldPreserves ==
  ASSUME IInv, NEW h \in Hold, NEW s \in Session, StartHeld(h, s)
  PROVE  IInv'
<1>1. hold[h].is # "none" /\ hold[h].at \in Connector
  BY DEF IInv, StartHeld, ReadsExist, TypeOK
<1>2. Owned' /\ \A t \in Session : SessionOK(t)'
  BY <1>1, BeginPreserves DEF StartHeld
<1>3. TypeOK' /\ ReadsExist'
  BY <1>1, <1>2, OneWayNext DEF IInv, StartHeld, Begin, TypeOK, ReadsExist
<1>4. BaysAreAccountedFor'
  BY <1>1 DEF IInv, StartHeld, Begin, TypeOK, BaysAreAccountedFor
<1>5. QED
  BY <1>2, <1>3, <1>4 DEF IInv

\* What releaseConnector makes of its session.
Released(r) == IF r.is = "CHARGING" THEN [r EXCEPT !.is = "INVALID", !.stopped = TRUE] ELSE r

LEMMA ReleaseKeeps ==
  ASSUME IInv, NEW s \in Session, Release(s)
  PROVE  /\ session' = [session EXCEPT ![s] = Released(session[s])]
         /\ Released(session[s]) \in Sessions
         /\ \A b, p : Sane(session[s], b, p) => Sane(Released(session[s]), b, p)
         /\ \A stage, b, gone : Fits(stage, session[s], b, gone)
                                => Fits(stage, Released(session[s]), b, gone)
         /\ BaysAreAccountedFor' /\ hold' = hold
         /\ bay' \in [Connector -> {"AVAILABLE", "RESERVED", "CHARGING"}]
         /\ session[s].is # "none" => session[s].at \in Connector
<1>1. session' = [session EXCEPT ![s] = Released(session[s])]
  BY Shape DEF IInv, Release, Released
<1>2. Released(session[s]) \in Sessions
  BY Shape DEF IInv, Released, Sessions
<1>3. session[s] \in Sessions
  BY Shape DEF IInv
<1>4. \A b, p : Sane(session[s], b, p) => Sane(Released(session[s]), b, p)
  BY <1>3 DEF Sane, Released, NoBill, Sessions
<1>5. \A stage, b, gone : Fits(stage, session[s], b, gone)
                          => Fits(stage, Released(session[s]), b, gone)
  BY <1>3 DEF Fits, Released, Sessions
<1>6. BaysAreAccountedFor'
  BY <1>1, <1>3, SMTT(60) DEF IInv, TypeOK, BaysAreAccountedFor, Release, Released, Sessions
<1>7. QED
  BY <1>1, <1>2, <1>4, <1>5, <1>6 DEF IInv, TypeOK, Release

LEMMA SweepPreserves ==
  ASSUME IInv, NEW s \in Session, SweepCloses(s)
  PROVE  IInv'
<1> DEFINE r == Released(session[s])
<1>1. Release(s) /\ UNCHANGED <<bill, starting, cancelling, stop, pass, dropped>>
  BY DEF SweepCloses
<1>2. Sane(session[s], bill[s], pass[s]) /\ bill[s] \in Bills /\ pass[s] \in Works
  BY Shape DEF IInv, SessionOK
<1>3. Records(s, r, bill[s], pass[s])
  BY <1>1, <1>2, ReleaseKeeps, Shape DEF IInv, Records
<1>4. Owned' /\ \A t \in Session : SessionOK(t)'
  BY <1>1, <1>3, ReleaseKeeps, CallsStay
<1>5. TypeOK'
  <2>1. session' \in [Session -> Sessions]
    BY <1>1, ReleaseKeeps, Shape DEF IInv
  <2>2. QED
    BY <1>1, <1>4, <2>1, OneWayNext, ReleaseKeeps DEF IInv, TypeOK, SweepCloses, Sessions
<1>6. QED
  BY <1>1, <1>4, <1>5, ReleaseKeeps DEF IInv, ReadsExist

-----------------------------------------------------------------------------
(* stopOnce *)

LEMMA AtStage ==
  ASSUME IInv, NEW c \in Call, ~At(c, {"idle"})
  PROVE  /\ Of(c) \in Session /\ Of(c) # None /\ AtWork(Of(c))
         /\ stop[c].at \in Stage \ {"idle"} /\ stop[c] = [of |-> Of(c), at |-> stop[c].at]
         /\ session[Of(c)] \in Sessions /\ bill[Of(c)] \in Bills /\ pass[Of(c)] \in Works
         /\ Sane(session[Of(c)], bill[Of(c)], pass[Of(c)])
         /\ Fits(stop[c].at, session[Of(c)], bill[Of(c)], Of(c) \in dropped)
<1>1. stop[c].at # "idle" /\ Of(c) \in Session /\ Of(c) # None
  BY Kinds DEF IInv, TypeOK, At, Of
<1>2. stop[c] \in Calls
  BY Shape DEF IInv
<1>3. session[Of(c)] \in Sessions /\ bill[Of(c)] \in Bills /\ pass[Of(c)] \in Works
  BY <1>1, Shape DEF IInv
<1>4. SessionOK(Of(c)) /\ AtWork(Of(c))
  BY <1>1 DEF IInv, AtWork
<1>5. stop[c].at \in Stage \ {"idle"} /\ stop[c] = [of |-> Of(c), at |-> stop[c].at]
  BY <1>1, <1>2 DEF Calls, Of
<1>6. QED
  BY <1>1, <1>3, <1>4, <1>5 DEF SessionOK

\* The rest of the invariant, once the sessions and the bays are seen to.
LEMMA Gather ==
  ASSUME IInv, NEW s \in Session, NEW r, NEW b, NEW p, Records(s, r, b, p),
         Owned', \A t \in Session : SessionOK(t)', BaysAreAccountedFor',
         bay' \in [Connector -> {"AVAILABLE", "RESERVED", "CHARGING"}],
         UNCHANGED <<hold, starting, cancelling>>, listed' \subseteq Session,
         stop' = stop \/ \E c \in Call, k \in Calls :
                            stop' = [stop EXCEPT ![c] = k] /\ (k.at # "idle" => k.of \in Session)
  PROVE  IInv'
<1>1. session' \in [Session -> Sessions] /\ bill' \in [Session -> Bills] /\ pass' \in [Session -> Works]
  BY Shape DEF IInv, Records
<1>2. stop' \in [Call -> Calls] /\ \A c \in Call : stop'[c].at # "idle" => stop'[c].of \in Session
  <2>1. CASE stop' = stop
    BY <2>1, Shape DEF IInv, TypeOK
  <2>2. ASSUME NEW c \in Call, NEW k \in Calls, stop' = [stop EXCEPT ![c] = k],
               k.at # "idle" => k.of \in Session
        PROVE  stop' \in [Call -> Calls] /\ \A d \in Call : stop'[d].at # "idle" => stop'[d].of \in Session
    BY <2>2, Shape DEF IInv, TypeOK
  <2>3. QED
    BY <2>1, <2>2
<1>3. dropped' \subseteq Session
  BY DEF IInv, TypeOK, Records
<1>4. TypeOK'
  BY <1>1, <1>2, <1>3, OneWayNext DEF IInv, TypeOK, Sessions, Bills, Calls, Works
<1>5. ReadsExist'
  BY DEF IInv, ReadsExist
<1>6. QED
  BY <1>4, <1>5 DEF IInv

LEMMA Quiet == BaysAreAccountedFor /\ UNCHANGED bayVars => BaysAreAccountedFor'
  BY DEF BaysAreAccountedFor, bayVars

LEMMA CallTypes ==
  /\ Idle \in Calls
  /\ \A s \in Session, stage \in Stage : [of |-> s, at |-> stage] \in Calls
  BY DEF Idle, Calls, Stage

LEMMA Unwritten ==
  ASSUME TypeOK, NEW s \in Session
  PROVE  /\ session = [session EXCEPT ![s] = session[s]]
         /\ bill = [bill EXCEPT ![s] = bill[s]]
         /\ pass = [pass EXCEPT ![s] = pass[s]]
<1>1. session \in [Session -> Sessions] /\ bill \in [Session -> Bills] /\ pass \in [Session -> Works]
  BY Shape
<1>2. QED
  BY <1>1

\* A stop that writes the bill, and goes on.
LEMMA BillGoes ==
  ASSUME IInv, NEW c \in Call, NEW s \in Session, Of(c) = s,
         NEW b \in Bills, NEW stage \in Stage \ {"idle"},
         bill' = [bill EXCEPT ![s] = b], Goes(c, stage), UNCHANGED <<bayVars, readVars, pass>>,
         dropped \subseteq dropped', dropped' \subseteq dropped \cup {s},
         Sane(session[s], b, pass[s]), Fits(stage, session[s], b, s \in dropped')
  PROVE  IInv'
<1>1. session[s] \in Sessions /\ pass[s] \in Works
  BY Shape DEF IInv
<1>2. Records(s, session[s], b, pass[s])
  BY <1>1, Unwritten DEF IInv, Records, bayVars
<1>3. Moves(c, s, stage)
  <2>1. stop \in [Call -> Calls]
    BY Shape DEF IInv
  <2>2. [stop[c] EXCEPT !.at = stage] = [of |-> s, at |-> stage]
    BY <2>1 DEF Calls, Of
  <2>3. QED
    BY <2>1, <2>2 DEF Goes, Moves
<1>4. Owned' /\ \A t \in Session : SessionOK(t)'
  BY <1>1, <1>2, <1>3, CallGoes
<1>5. BaysAreAccountedFor'
  BY Quiet DEF IInv
<1>6. bay' \in [Connector -> {"AVAILABLE", "RESERVED", "CHARGING"}] /\ listed' \subseteq Session
      /\ UNCHANGED <<hold, starting, cancelling>>
  BY DEF IInv, TypeOK, bayVars, readVars
<1>7. [of |-> s, at |-> stage] \in Calls
  BY CallTypes
<1>8. QED
  BY <1>1, <1>2, <1>3, <1>4, <1>5, <1>6, <1>7, Gather DEF Moves

\* A stop that writes the bill, and is over.
LEMMA BillEnds ==
  ASSUME IInv, NEW c \in Call, NEW s \in Session, Of(c) = s, NEW b \in Bills,
         bill' = [bill EXCEPT ![s] = b], Ends(c), UNCHANGED <<bayVars, readVars, pass>>,
         dropped \subseteq dropped', dropped' \subseteq dropped \cup {s},
         Sane(session[s], b, pass[s]), Rest(b, s \in dropped')
  PROVE  IInv'
<1>1. session[s] \in Sessions /\ pass[s] \in Works
  BY Shape DEF IInv
<1>2. Records(s, session[s], b, pass[s])
  BY <1>1, Unwritten DEF IInv, Records, bayVars
<1>3. Owned' /\ \A t \in Session : SessionOK(t)'
  BY <1>1, <1>2, CallEnds DEF Ends
<1>4. BaysAreAccountedFor'
  BY Quiet DEF IInv
<1>5. bay' \in [Connector -> {"AVAILABLE", "RESERVED", "CHARGING"}] /\ listed' \subseteq Session
      /\ UNCHANGED <<hold, starting, cancelling>>
  BY DEF IInv, TypeOK, bayVars, readVars
<1>6. Idle \in Calls /\ Idle.at = "idle"
  BY CallTypes DEF Idle
<1>7. QED
  BY <1>1, <1>2, <1>3, <1>4, <1>5, <1>6, Gather DEF Ends

\* The session a stop is about, by name.
LEMMA TheSession ==
  ASSUME IInv, NEW c \in Call, ~At(c, {"idle"})
  PROVE  \E s \in Session :
           /\ Of(c) = s
           /\ session[s] \in Sessions /\ bill[s] \in Bills /\ pass[s] \in Works
           /\ Sane(session[s], bill[s], pass[s])
           /\ Fits(stop[c].at, session[s], bill[s], s \in dropped)
  BY AtStage

\* The steps of a stop that write nothing but the bill.
LEMMA BillingPreserves ==
  ASSUME IInv, NEW c \in Call,
         \/ OpenBill(c) \/ Flag(c) \/ HoldPoints(c) \/ SpendPoints(c) \/ Earn(c)
         \/ Complete(c) \/ PostNow(c) \/ MarkFailed(c)
  PROVE  IInv'
<1>1. ~At(c, {"idle"})
  BY DEF OpenBill, Flag, HoldPoints, SpendPoints, Earn, Complete, PostNow, MarkFailed, At
<1>2. PICK s \in Session :
        /\ Of(c) = s
        /\ session[s] \in Sessions /\ bill[s] \in Bills /\ pass[s] \in Works
        /\ Sane(session[s], bill[s], pass[s])
        /\ Fits(stop[c].at, session[s], bill[s], s \in dropped)
  BY <1>1, TheSession
<1>3. CASE OpenBill(c)
  <2> DEFINE b == [bill[s] EXCEPT !.txn = "PENDING"]
  <2>1. b \in Bills /\ "open" \in Stage \ {"idle"}
    BY <1>2 DEF Bills, Stage
  <2>2. Sane(session[s], b, pass[s]) /\ Fits("open", session[s], b, s \in dropped)
    BY <1>2, <1>3 DEF OpenBill, Sane, Fits, At, NoBill, Bills, Of, Compared
  <2>3. QED
    BY <1>2, <1>3, <2>1, <2>2, BillGoes DEF OpenBill
<1>4. CASE Flag(c)
  <2> DEFINE b == [bill[s] EXCEPT !.txn = "FLAGGED"]
  <2>1. b \in Bills /\ "flagged" \in Stage \ {"idle"}
    BY <1>2 DEF Bills, Stage
  <2>2. Sane(session[s], b, pass[s]) /\ Fits("flagged", session[s], b, s \in dropped)
    BY <1>2, <1>4 DEF Flag, Sane, Fits, At, NoBill, Bills, Of
  <2>3. QED
    BY <1>2, <1>4, <2>1, <2>2, BillGoes DEF Flag
<1>5. CASE HoldPoints(c)
  <2> DEFINE b == [bill[s] EXCEPT !.points = "held"]
  <2>1. PICK stage \in {"held", "unwound"} : Goes(c, stage)
    BY <1>5 DEF HoldPoints
  <2>2. b \in Bills /\ stage \in Stage \ {"idle"}
    BY <1>2 DEF Bills, Stage
  <2>3. bill[s].earned = 0
    BY <1>2, <1>5 DEF HoldPoints, Sane, Fits, At, Bills
  <2>4. Sane(session[s], b, pass[s]) /\ Fits(stage, session[s], b, s \in dropped)
    BY <1>2, <1>5, <2>3 DEF HoldPoints, Sane, Fits, At, NoBill, Bills, Of
  <2>5. QED
    BY <1>2, <1>5, <2>1, <2>2, <2>4, BillGoes DEF HoldPoints
<1>6. CASE SpendPoints(c)
  <2> DEFINE b == [bill[s] EXCEPT !.points = "spent"]
  <2>1. b \in Bills /\ "spent" \in Stage \ {"idle"}
    BY <1>2 DEF Bills, Stage
  <2>2. Sane(session[s], b, pass[s]) /\ Fits("spent", session[s], b, s \in dropped)
    BY <1>2, <1>6 DEF SpendPoints, Sane, Fits, At, NoBill, Bills, Of
  <2>3. QED
    BY <1>2, <1>6, <2>1, <2>2, BillGoes DEF SpendPoints
<1>7. CASE Earn(c)
  <2>1. PICK heard \in BOOLEAN :
          /\ bill' = [bill EXCEPT ![Of(c)].txn = "COMPLETED", ![Of(c)].earned = @ + 1,
                                  ![Of(c)].event = "pending", ![Of(c)].heard = heard]
          /\ Goes(c, IF heard THEN "earned" ELSE "unheard")
    BY <1>7 DEF Earn
  <2> DEFINE b == [bill[s] EXCEPT !.txn = "COMPLETED", !.earned = 1, !.event = "pending",
                                  !.heard = heard]
             stage == IF heard THEN "earned" ELSE "unheard"
  <2>2. bill[s].earned + 1 = 1
    BY <1>2, <1>7 DEF Earn, Fits, At
  <2>3. b \in Bills /\ stage \in Stage \ {"idle"}
    BY <1>2 DEF Bills, Stage
  <2>4. Sane(session[s], b, pass[s])
    BY <1>2, <1>7 DEF Earn, Sane, Fits, At, NoBill, Bills, Of
  <2>5. Fits(stage, session[s], b, s \in dropped)
    BY <1>2, <1>7 DEF Earn, Fits, At, NoBill, Bills, Of
  <2>6. bill' = [bill EXCEPT ![s] = b]
    BY <1>2, <2>1, <2>2, Shape DEF IInv, Bills
  <2>7. Goes(c, stage)
    BY <2>1
  <2> HIDE DEF b, stage
  <2>8. QED
    BY <1>2, <1>7, <2>3, <2>4, <2>5, <2>6, <2>7, BillGoes DEF Earn
<1>8. CASE Complete(c)
  <2>1. PICK heard \in BOOLEAN :
          /\ bill' = [bill EXCEPT ![Of(c)].txn = "COMPLETED", ![Of(c)].heard = heard]
          /\ IF heard THEN Ends(c) ELSE Goes(c, "unheard")
    BY <1>8 DEF Complete
  <2> DEFINE b == [bill[s] EXCEPT !.txn = "COMPLETED", !.heard = heard]
  <2>2. b \in Bills /\ "unheard" \in Stage \ {"idle"}
    BY <1>2 DEF Bills, Stage
  <2>3. Sane(session[s], b, pass[s]) /\ Rest(b, s \in dropped)
        /\ (~heard => Fits("unheard", session[s], b, s \in dropped))
    BY <1>2, <1>8 DEF Complete, Sane, Fits, Rest, At, NoBill, Bills, Of
  <2>4. bill' = [bill EXCEPT ![s] = b]
    BY <1>2, <2>1, Shape DEF IInv, Bills
  <2> HIDE DEF b
  <2>5. CASE heard
    BY <1>2, <1>8, <2>1, <2>2, <2>3, <2>4, <2>5, BillEnds DEF Complete
  <2>6. CASE ~heard
    BY <1>2, <1>8, <2>1, <2>2, <2>3, <2>4, <2>6, BillGoes DEF Complete
  <2>7. QED
    BY <2>5, <2>6
<1>9. CASE PostNow(c)
  <2>1. PICK n \in {bill[s].posted, Booked(bill[s].posted)} :
               bill' = [bill EXCEPT ![s] = [bill[s] EXCEPT !.posted = n]]
    <3>1. bill[s] = [bill[s] EXCEPT !.posted = bill[s].posted]
      BY <1>2 DEF Bills
    <3>2. QED
      BY <1>2, <1>9, <3>1, Unwritten, Shape DEF IInv, PostNow
  <2> DEFINE b == [bill[s] EXCEPT !.posted = n]
  <2>2. bill[s].earned = 1 /\ bill[s].cdr # "none"
        /\ n \in {0, 1} /\ (bill[s].posted = 1 => n = 1)
    BY <1>2, <1>9 DEF PostNow, Sane, Fits, At, Bills, Of, Booked
  <2>3. b \in Bills
    BY <1>2, <2>2 DEF Bills
  <2>4. Sane(session[s], b, pass[s])
    BY <1>2, <2>2 DEF Sane, NoBill, Bills
  <2>5. Rest(b, s \in dropped)
    BY <1>2, <1>9 DEF PostNow, Fits, Rest, At, Bills
  <2> HIDE DEF b
  <2>6. bill' = [bill EXCEPT ![s] = b]
    BY <2>1 DEF b
  <2>7. QED
    BY <1>2, <1>9, <2>3, <2>4, <2>5, <2>6, BillEnds DEF PostNow
<1>10. CASE MarkFailed(c)
  <2> DEFINE b == [bill[s] EXCEPT !.txn = "FAILED"]
  <2>1. b \in Bills
    BY <1>2 DEF Bills
  <2>2. Sane(session[s], b, pass[s]) /\ Rest(b, s \in dropped)
    BY <1>2, <1>10 DEF MarkFailed, Sane, Fits, Rest, At, NoBill, Bills, Of
  <2>3. QED
    BY <1>2, <1>10, <2>1, <2>2, BillEnds DEF MarkFailed
<1>11. QED
  BY <1>3, <1>4, <1>5, <1>6, <1>7, <1>8, <1>9, <1>10

LEMMA ClaimPreserves ==
  ASSUME IInv, NEW c \in Call, NEW s \in Session, StopClaims(c, s)
  PROVE  IInv'
<1> DEFINE r == [session[s] EXCEPT !.stopped = TRUE]
<1>1. session[s] \in Sessions /\ bill[s] \in Bills /\ pass[s] \in Works
      /\ Sane(session[s], bill[s], pass[s]) /\ session[s].is = "CHARGING" /\ ~session[s].stopped
  BY Shape DEF IInv, SessionOK, StopClaims
<1>2. ~AtWork(s) /\ Of(c) = None
  BY <1>1, Kinds DEF IInv, SessionOK, AtWork, Fits, Owned, StopClaims, At
<1>3. r \in Sessions /\ Sane(r, bill[s], pass[s]) /\ Fits("claimed", r, bill[s], s \in dropped)
  BY <1>1 DEF Sessions, Sane, Fits, NoBill
<1>4. session' = [session EXCEPT ![s] = r]
  BY Shape DEF IInv, StopClaims
<1> HIDE DEF r
<1>5. Records(s, r, bill[s], pass[s])
  BY <1>1, <1>3, <1>4, Unwritten DEF IInv, StopClaims, Records
<1>6. Moves(c, s, "claimed") /\ "claimed" \in Stage \ {"idle"} /\ dropped' = dropped
  BY DEF StopClaims, Moves, Stage
<1>7. Owned' /\ \A t \in Session : SessionOK(t)'
  BY <1>2, <1>3, <1>5, <1>6, CallGoes
<1>8. BaysAreAccountedFor'
  BY DEF IInv, TypeOK, BaysAreAccountedFor, StopClaims
<1>9. bay' \in [Connector -> {"AVAILABLE", "RESERVED", "CHARGING"}] /\ listed' \subseteq Session
      /\ UNCHANGED <<hold, starting, cancelling>> /\ [of |-> s, at |-> "claimed"] \in Calls
  BY <1>6, CallTypes DEF IInv, TypeOK, StopClaims, readVars
<1>10. QED
  BY <1>5, <1>6, <1>7, <1>8, <1>9, Gather DEF Moves

LEMMA ParkPreserves ==
  ASSUME IInv, NEW c \in Call, Park(c)
  PROVE  IInv'
<1>1. PICK s \in Session :
        /\ Of(c) = s
        /\ session[s] \in Sessions /\ bill[s] \in Bills /\ pass[s] \in Works
        /\ Sane(session[s], bill[s], pass[s])
        /\ Fits(stop[c].at, session[s], bill[s], s \in dropped)
  BY TheSession DEF Park, At
<1> DEFINE r == [session[s] EXCEPT !.is = "AWAITING_SETTLEMENT"]
<1>2. r \in Sessions /\ Sane(r, bill[s], pass[s]) /\ Rest(bill[s], s \in dropped)
  BY <1>1, Kinds DEF Park, Sessions, Sane, Fits, Rest, At, NoBill, Compared
<1>3. session' = [session EXCEPT ![s] = r]
  BY <1>1, Shape DEF IInv, Park
<1> HIDE DEF r
<1>4. Records(s, r, bill[s], pass[s])
  BY <1>1, <1>2, <1>3, Unwritten DEF IInv, Park, Records
<1>5. Owned' /\ \A t \in Session : SessionOK(t)'
  BY <1>1, <1>2, <1>4, CallEnds DEF Park, Ends
<1>6. BaysAreAccountedFor'
  BY <1>1 DEF IInv, TypeOK, BaysAreAccountedFor, Park
<1>7. bay' \in [Connector -> {"AVAILABLE", "RESERVED", "CHARGING"}] /\ listed' \subseteq Session
      /\ UNCHANGED <<hold, starting, cancelling>> /\ Idle \in Calls /\ Idle.at = "idle"
  BY CallTypes DEF IInv, TypeOK, Park, readVars, Idle
<1>8. QED
  BY <1>1, <1>4, <1>5, <1>6, <1>7, Gather DEF Park, Ends

\* The session and its CDR complete together, and free the bay.
LEMMA BillPreserves ==
  ASSUME IInv, NEW c \in Call, Bill(c)
  PROVE  IInv'
<1>1. PICK s \in Session :
        /\ Of(c) = s
        /\ session[s] \in Sessions /\ bill[s] \in Bills /\ pass[s] \in Works
        /\ Sane(session[s], bill[s], pass[s])
        /\ Fits(stop[c].at, session[s], bill[s], s \in dropped)
  BY TheSession DEF Bill, At
<1> DEFINE r == [session[s] EXCEPT !.is = "COMPLETED"]
           b == [bill[s] EXCEPT !.cdr = IF session[s].at \in Remote THEN "PENDING"
                                        ELSE "NOT_APPLICABLE"]
<1>2. bill[s].earned = 0
  BY <1>1 DEF Bill, Sane, Fits, At, Bills
<1>3. r \in Sessions /\ b \in Bills /\ Sane(r, b, pass[s]) /\ Fits("billed", r, b, s \in dropped)
  <2>1. r \in Sessions /\ b \in Bills
    BY <1>1 DEF Sessions, Bills, Compared
  <2>2. session[s].at \notin Roaming /\ session[s].stopped
    BY <1>1 DEF Bill, Fits, At
  <2>3. Sane(r, b, pass[s])
    BY <1>1, <1>2, <2>2 DEF Bill, Sane, Sessions, Bills, Compared, Works
  <2>4. Fits("billed", r, b, s \in dropped)
    BY <1>1, <1>2, <2>2 DEF Bill, Fits, At, Sessions, Bills
  <2>5. QED
    BY <2>1, <2>3, <2>4
<1>4. session' = [session EXCEPT ![s] = r] /\ bill' = [bill EXCEPT ![s] = b]
  BY <1>1, Shape DEF IInv, Bill
<1>5. Moves(c, s, "billed") /\ "billed" \in Stage \ {"idle"} /\ dropped' = dropped
  <2>1. stop \in [Call -> Calls]
    BY Shape DEF IInv
  <2>2. [stop[c] EXCEPT !.at = "billed"] = [of |-> s, at |-> "billed"]
    BY <1>1, <2>1 DEF Calls, Of
  <2>3. QED
    BY <2>1, <2>2 DEF Bill, Goes, Moves, Stage
<1> HIDE DEF r, b
<1>6. Records(s, r, b, pass[s])
  BY <1>1, <1>3, <1>4, <1>5, Unwritten DEF IInv, Bill, Records
<1>7. Owned' /\ \A t \in Session : SessionOK(t)'
  BY <1>1, <1>3, <1>5, <1>6, CallGoes
<1>8. BaysAreAccountedFor'
  BY <1>1 DEF IInv, TypeOK, BaysAreAccountedFor, Bill
<1>9. bay' \in [Connector -> {"AVAILABLE", "RESERVED", "CHARGING"}] /\ listed' \subseteq Session
      /\ UNCHANGED <<hold, starting, cancelling>> /\ [of |-> s, at |-> "billed"] \in Calls
  BY <1>5, CallTypes DEF IInv, TypeOK, Bill, readVars
<1>10. QED
  BY <1>5, <1>6, <1>7, <1>8, <1>9, Gather DEF Moves

\* The two ends of a stop that never gets to a bill: the bay goes back.
LEMMA ReleasePreserves ==
  ASSUME IInv, NEW c \in Call, RefuseReading(c) \/ FlagReleases(c)
  PROVE  IInv'
<1>1. PICK s \in Session :
        /\ Of(c) = s
        /\ session[s] \in Sessions /\ bill[s] \in Bills /\ pass[s] \in Works
        /\ Sane(session[s], bill[s], pass[s])
        /\ Fits(stop[c].at, session[s], bill[s], s \in dropped)
  BY TheSession DEF RefuseReading, FlagReleases, At
<1>2. Release(s) /\ Ends(c) /\ UNCHANGED <<bill, readVars, pass, dropped>>
  BY <1>1 DEF RefuseReading, FlagReleases
<1> DEFINE r == Released(session[s])
<1>3. Records(s, r, bill[s], pass[s])
  BY <1>1, <1>2, ReleaseKeeps, Unwritten DEF IInv, Records
<1>4. Rest(bill[s], s \in dropped)
  BY <1>1 DEF RefuseReading, FlagReleases, Fits, Rest, At, NoBill
<1>5. Owned' /\ \A t \in Session : SessionOK(t)'
  BY <1>1, <1>2, <1>3, <1>4, CallEnds DEF Ends
<1>6. listed' \subseteq Session /\ UNCHANGED <<hold, starting, cancelling>>
      /\ Idle \in Calls /\ Idle.at = "idle"
  BY <1>2, ReleaseKeeps, CallTypes DEF IInv, TypeOK, readVars, Idle
<1>7. QED
  BY <1>2, <1>3, <1>5, <1>6, ReleaseKeeps, Gather DEF Ends

\* The catch: the points, the bay.
LEMMA UnwindPreserves ==
  ASSUME IInv, NEW c \in Call, Unwind(c) \/ UnwindReleases(c) \/ StopDies(c)
  PROVE  IInv'
<1>1. PICK s \in Session :
        /\ Of(c) = s
        /\ session[s] \in Sessions /\ bill[s] \in Bills /\ pass[s] \in Works
        /\ Sane(session[s], bill[s], pass[s])
        /\ Fits(stop[c].at, session[s], bill[s], s \in dropped)
  BY TheSession DEF Unwind, UnwindReleases, StopDies, At
<1>2. {"unwound", "released"} \subseteq Stage \ {"idle"}
  BY DEF Stage
<1>3. CASE Unwind(c)
  <2>1. (bill[s].earned = 0 \/ ~bill[s].heard) /\ session[s].at \notin Roaming
    BY <1>1, <1>3 DEF Unwind, Sane, Fits, At, Bills
  <2>2. CASE dropped' = dropped
             /\ bill' = [bill EXCEPT ![Of(c)].points = IF @ = "none" THEN @ ELSE "returned"]
    <3> DEFINE b == [bill[s] EXCEPT !.points = IF bill[s].points = "none" THEN "none" ELSE "returned"]
    <3>1. b \in Bills /\ Sane(session[s], b, pass[s]) /\ Fits("unwound", session[s], b, s \in dropped)
      BY <1>1, <1>3, <2>1 DEF Unwind, Sane, Fits, At, NoBill, Bills
    <3>2. bill' = [bill EXCEPT ![s] = b]
      BY <1>1, <2>2, Shape DEF IInv, Bills
    <3> HIDE DEF b
    <3>3. QED
      BY <1>1, <1>2, <1>3, <2>2, <3>1, <3>2, BillGoes DEF Unwind
  <2>3. CASE dropped' = dropped \cup {Of(c)} /\ bill' = bill
    <3>1. Fits("unwound", session[s], bill[s], s \in dropped')
      BY <1>1, <2>1, <2>3 DEF Fits
    <3>2. bill' = [bill EXCEPT ![s] = bill[s]]
      BY <2>3, Unwritten DEF IInv
    <3>3. QED
      BY <1>1, <1>2, <1>3, <2>3, <3>1, <3>2, BillGoes DEF Unwind
  <2>4. QED
    BY <1>3, <2>2, <2>3 DEF Unwind
<1>4. CASE StopDies(c)
  <2>1. Rest(bill[s], s \in dropped') /\ bill' = [bill EXCEPT ![s] = bill[s]]
    BY <1>1, <1>4, Unwritten DEF IInv, StopDies, Rest
  <2>2. QED
    BY <1>1, <1>4, <2>1, BillEnds DEF StopDies
<1>5. CASE UnwindReleases(c) /\ UNCHANGED bayVars
  <2>1. Fits("released", session[s], bill[s], s \in dropped) /\ bill' = [bill EXCEPT ![s] = bill[s]]
    BY <1>1, <1>5, Unwritten DEF IInv, UnwindReleases, Fits, At
  <2>2. QED
    BY <1>1, <1>2, <1>5, <2>1, BillGoes DEF UnwindReleases
<1>6. CASE UnwindReleases(c) /\ Release(Of(c))
  <2> DEFINE r == Released(session[s])
  <2>1. Release(s) /\ UNCHANGED <<bill, readVars, pass, dropped>>
    BY <1>1, <1>6 DEF UnwindReleases
  <2>2. Records(s, r, bill[s], pass[s])
    BY <1>1, <2>1, ReleaseKeeps, Unwritten DEF IInv, Records
  <2>3. Fits("released", session[s], bill[s], s \in dropped)
    BY <1>1, <1>6 DEF UnwindReleases, Fits, At
  <2>4. Fits("released", r, bill[s], s \in dropped)
    BY <2>1, <2>3, ReleaseKeeps
  <2>5. Moves(c, s, "released")
    <3>1. stop \in [Call -> Calls]
      BY Shape DEF IInv
    <3>2. [stop[c] EXCEPT !.at = "released"] = [of |-> s, at |-> "released"]
      BY <1>1, <3>1 DEF Calls, Of
    <3>3. QED
      BY <1>6, <3>1, <3>2 DEF UnwindReleases, Goes, Moves
  <2> HIDE DEF r
  <2>6. Owned' /\ \A t \in Session : SessionOK(t)'
    BY <1>1, <1>2, <2>1, <2>2, <2>4, <2>5, CallGoes
  <2>7. listed' \subseteq Session /\ UNCHANGED <<hold, starting, cancelling>>
        /\ [of |-> s, at |-> "released"] \in Calls
    BY <1>2, <2>1, ReleaseKeeps, CallTypes DEF IInv, TypeOK, readVars
  <2>8. QED
    BY <2>1, <2>2, <2>5, <2>6, <2>7, ReleaseKeeps, Gather DEF Moves
<1>7. QED
  BY <1>3, <1>4, <1>5, <1>6 DEF UnwindReleases

-----------------------------------------------------------------------------
(* The wallet's sweep, the outbox and the operator's CDR *)

\* Whoever writes the bill of a session behind the back of its stop leaves the
\* stop where it is, and what was settled settled.
LEMMA BehindTheStop ==
  ASSUME IInv, NEW s \in Session, NEW b \in Bills, NEW p \in Works,
         bill' = [bill EXCEPT ![s] = b], pass' = [pass EXCEPT ![s] = p],
         UNCHANGED <<bayVars, readVars, stop, dropped>>,
         Sane(session[s], b, p),
         \A stage \in Stage : Fits(stage, session[s], bill[s], s \in dropped)
                              => Fits(stage, session[s], b, s \in dropped),
         Rest(bill[s], s \in dropped) => Rest(b, s \in dropped)
  PROVE  IInv'
<1>1. Records(s, session[s], b, p)
  BY Shape, Unwritten DEF IInv, Records, bayVars
<1>2. stop' = stop /\ dropped' = dropped
  OBVIOUS
<1>3. Owned' /\ \A t \in Session : SessionOK(t)'
  BY <1>1, <1>2, CallsStay
<1>4. BaysAreAccountedFor'
  BY Quiet DEF IInv
<1>5. bay' \in [Connector -> {"AVAILABLE", "RESERVED", "CHARGING"}] /\ listed' \subseteq Session
      /\ UNCHANGED <<hold, starting, cancelling>>
  BY DEF IInv, TypeOK, bayVars, readVars
<1>6. QED
  BY <1>1, <1>2, <1>3, <1>4, <1>5, Gather

LEMMA TheRecords ==
  ASSUME IInv, NEW s \in Session
  PROVE  /\ session[s] \in Sessions /\ bill[s] \in Bills /\ pass[s] \in Works
         /\ Sane(session[s], bill[s], pass[s])
  BY Shape DEF IInv, SessionOK

LEMMA OthersPreserve ==
  ASSUME IInv, NEW s \in Session, PointsLapse(s) \/ DrainClaims(s) \/ Drain(s)
  PROVE  IInv'
<1>1. pass' = [pass EXCEPT ![s] = pass[s]]
  BY Unwritten DEF IInv, PointsLapse, DrainClaims, Drain
<1>2. CASE PointsLapse(s)
  <2> DEFINE b == [bill[s] EXCEPT !.points = "returned"]
  <2>1. b \in Bills /\ bill' = [bill EXCEPT ![s] = b]
    BY <1>2, TheRecords DEF PointsLapse, Bills
  <2>2. Sane(session[s], b, pass[s])
    BY <1>2, TheRecords DEF PointsLapse, Sane, Bills, NoBill
  <2>3. \A stage \in Stage : Fits(stage, session[s], bill[s], s \in dropped)
                             => Fits(stage, session[s], b, s \in dropped)
    BY <1>2, TheRecords DEF PointsLapse, Fits, Bills, NoBill
  <2>4. Rest(bill[s], s \in dropped) => Rest(b, s \in dropped)
    BY <1>2, TheRecords DEF PointsLapse, Rest, Bills
  <2> HIDE DEF b
  <2>5. QED
    BY <1>1, <1>2, <2>1, <2>2, <2>3, <2>4, TheRecords, BehindTheStop DEF PointsLapse
<1>3. CASE DrainClaims(s)
  <2> DEFINE b == [bill[s] EXCEPT !.tries = @ + 1, !.handling = @ + 1]
  <2>0. bill[s].tries + 1 \in 0..MaxTries /\ bill[s].handling + 1 \in Nat
    <3>1. bill[s].tries \in 0..MaxTries /\ bill[s].handling \in Nat
      BY TheRecords DEF Bills
    <3>2. QED
      BY <1>3, <3>1, Tries DEF DrainClaims
  <2>1. b \in Bills /\ bill' = [bill EXCEPT ![s] = b]
    BY <1>3, <2>0, TheRecords, Shape DEF IInv, DrainClaims, Bills
  <2>2. Sane(session[s], b, pass[s])
    BY <1>3, TheRecords DEF DrainClaims, Sane, Bills, NoBill
  <2>3. \A stage \in Stage : Fits(stage, session[s], bill[s], s \in dropped)
                             => Fits(stage, session[s], b, s \in dropped)
    BY <1>3, TheRecords DEF DrainClaims, Fits, Bills, NoBill
  <2>4. Rest(bill[s], s \in dropped) => Rest(b, s \in dropped)
    BY TheRecords DEF Rest, Bills
  <2> HIDE DEF b
  <2>5. QED
    BY <1>1, <1>3, <2>1, <2>2, <2>3, <2>4, TheRecords, BehindTheStop DEF DrainClaims
<1>4. CASE Drain(s)
  <2>1. \E n \in {bill[s].posted, Booked(bill[s].posted)}, e \in {bill[s].event, "done"} :
          /\ e = "done" => n = Booked(bill[s].posted) \/ bill[s].event = "done"
          /\ bill' = [bill EXCEPT ![s] = [bill[s] EXCEPT !.handling = @ - 1, !.posted = n,
                                                        !.event = e]]
    <3>1. CASE bill' = [bill EXCEPT ![s].handling = @ - 1]
      <4>1. [bill[s] EXCEPT !.handling = @ - 1]
              = [bill[s] EXCEPT !.handling = @ - 1, !.posted = bill[s].posted,
                                !.event = bill[s].event]
        BY TheRecords DEF Bills
      <4>2. QED
        BY <3>1, <4>1
    <3>2. CASE \E e \in {bill[s].event, "done"} :
                 bill' = [bill EXCEPT ![s].handling = @ - 1, ![s].posted = Booked(@),
                                      ![s].event = e]
      BY <3>2, Shape DEF IInv
    <3>3. QED
      BY <1>4, <3>1, <3>2 DEF Drain
  <2>2. PICK n \in {bill[s].posted, Booked(bill[s].posted)}, e \in {bill[s].event, "done"} :
          /\ e = "done" => n = Booked(bill[s].posted) \/ bill[s].event = "done"
          /\ bill' = [bill EXCEPT ![s] = [bill[s] EXCEPT !.handling = @ - 1, !.posted = n,
                                                        !.event = e]]
    BY <2>1
  <2> DEFINE b == [bill[s] EXCEPT !.handling = @ - 1, !.posted = n, !.event = e]
  <2>3. /\ bill[s].handling > 0 /\ bill[s].earned = 1 /\ bill[s].event \in {"pending", "done"}
        /\ n \in {0, 1} /\ (bill[s].posted = 1 => n = 1) /\ (e = "done" => n = 1)
        /\ bill[s].cdr # "none" /\ bill[s].handling - 1 \in Nat
    <3>1. bill[s].handling > 0 /\ bill[s].handling \in Nat
      BY <1>4, TheRecords DEF Drain, Bills
    <3>2. bill[s].event \in {"pending", "done"} /\ bill[s].earned = 1
      BY <3>1, TheRecords DEF Sane, Bills
    <3>3. bill[s].posted \in {0, 1} /\ bill[s].cdr # "none"
          /\ (bill[s].event = "done" => bill[s].posted = 1)
      BY <3>2, TheRecords DEF Sane, Bills
    <3>4. n \in {0, 1} /\ (bill[s].posted = 1 => n = 1) /\ (e = "done" => n = 1)
      BY <2>2, <3>3 DEF Booked
    <3>5. QED
      BY <3>1, <3>2, <3>3, <3>4
  <2>4. b \in Bills
    <3>1. e \in {"none", "pending", "done"} /\ n \in Nat
      BY <2>3
    <3>2. QED
      BY <2>3, <3>1, TheRecords DEF Bills
  <2>5. Sane(session[s], b, pass[s])
    BY <2>3, TheRecords DEF Sane, Bills, NoBill
  <2>6. \A stage \in Stage : Fits(stage, session[s], bill[s], s \in dropped)
                             => Fits(stage, session[s], b, s \in dropped)
    BY <2>3, TheRecords DEF Fits, Bills, NoBill
  <2>7. Rest(bill[s], s \in dropped) => Rest(b, s \in dropped)
    BY TheRecords DEF Rest, Bills
  <2> HIDE DEF b
  <2>8. bill' = [bill EXCEPT ![s] = b]
    BY <2>2 DEF b
  <2>9. QED
    BY <1>1, <1>4, <2>4, <2>5, <2>6, <2>7, <2>8, TheRecords, BehindTheStop DEF Drain
<1>5. QED
  BY <1>2, <1>3, <1>4

LEMMA OneLess ==
  ASSUME IInv, NEW s \in Session, pass[s].at > 0
  PROVE  pass[s].at - 1 \in 0..MaxPass
<1>1. pass[s].at \in 0..MaxPass
  BY TheRecords DEF Works
<1>2. QED
  BY <1>1, Passes

\* A pass that touches the claim only.
LEMMA ClaimOnly ==
  ASSUME IInv, NEW s \in Session, PassClaims(s) \/ ClaimLapses(s) \/ PassDies(s) \/ RoamingWaits(s)
  PROVE  IInv'
<1>1. \E p \in Works : /\ pass' = [pass EXCEPT ![s] = p]
                       /\ Sane(session[s], bill[s], p)
  <2>1. CASE PassClaims(s)
    <3> DEFINE p == [pass[s] EXCEPT !.claimed = TRUE, !.at = pass[s].at + 1]
    <3>1. p \in Works /\ pass' = [pass EXCEPT ![s] = p]
      BY <2>1, Passes, TheRecords, Shape DEF IInv, PassClaims, Works
    <3>2. Sane(session[s], bill[s], p)
      BY <2>1, TheRecords DEF PassClaims, Sane, Sessions, Bills, Works, NoBill, Compared
    <3>3. QED
      BY <3>1, <3>2
  <2>2. CASE ClaimLapses(s)
    <3> DEFINE p == [pass[s] EXCEPT !.claimed = FALSE]
    <3>1. p \in Works /\ pass' = [pass EXCEPT ![s] = p] /\ Sane(session[s], bill[s], p)
      BY <2>2, TheRecords, Shape DEF IInv, ClaimLapses, Works, Sane
    <3>2. QED
      BY <3>1
  <2>3. CASE PassDies(s)
    <3> DEFINE p == [pass[s] EXCEPT !.at = pass[s].at - 1]
    <3>1. p \in Works /\ pass' = [pass EXCEPT ![s] = p]
      BY <2>3, Passes, TheRecords, Shape DEF IInv, PassDies, PassEnds, Works
    <3>2. Sane(session[s], bill[s], p)
      BY <2>3, TheRecords DEF PassDies, Sane, Works
    <3>3. QED
      BY <3>1, <3>2
  <2>4. CASE RoamingWaits(s)
    <3> DEFINE p == [pass[s] EXCEPT !.at = pass[s].at - 1, !.claimed = FALSE]
    <3>1. p \in Works
      BY <2>4, OneLess, TheRecords DEF RoamingWaits, Settling, Works
    <3>2. pass' = [pass EXCEPT ![s] = p]
      BY <2>4, Shape DEF IInv, RoamingWaits, PassLetsGo, Works
    <3>3. Sane(session[s], bill[s], p)
      BY <2>4, TheRecords DEF RoamingWaits, Settling, Sane, Works
    <3>4. QED
      BY <3>1, <3>2, <3>3
  <2>5. QED
    BY <2>1, <2>2, <2>3, <2>4
<1>2. bill' = [bill EXCEPT ![s] = bill[s]] /\ UNCHANGED <<bayVars, readVars, stop, dropped>>
  BY Unwritten DEF IInv, PassClaims, ClaimLapses, PassDies, RoamingWaits
<1>3. QED
  BY <1>1, <1>2, TheRecords, BehindTheStop

LEMMA CorrectionPreserves ==
  ASSUME IInv, NEW s \in Session, NoCdrYet(s) \/ CdrAgrees(s) \/ CorrectOvercharge(s)
  PROVE  IInv'
<1>1. bill[s].cdr \in Compared /\ session[s].at \notin Roaming /\ pass[s].at > 0
  BY TheRecords DEF NoCdrYet, CdrAgrees, CorrectOvercharge, Correcting, Sane
<1>2. \E cdr \in Compared, n \in Nat :
        bill' = [bill EXCEPT ![s] = [bill[s] EXCEPT !.cdr = cdr, !.corrected = n]]
  <2>1. CASE NoCdrYet(s)
    <3>1. PICK cdr \in {bill[s].cdr, "UNAVAILABLE"} : bill' = [bill EXCEPT ![s].cdr = cdr]
      BY <2>1 DEF NoCdrYet
    <3>2. bill' = [bill EXCEPT ![s] = [bill[s] EXCEPT !.cdr = cdr, !.corrected = bill[s].corrected]]
      BY <3>1, TheRecords, Shape DEF IInv, Bills
    <3>3. cdr \in Compared /\ bill[s].corrected \in Nat
      BY <1>1, TheRecords DEF Compared, Bills
    <3>4. QED
      BY <3>2, <3>3
  <2>2. CASE CdrAgrees(s)
    <3>1. bill' = [bill EXCEPT ![s] = [bill[s] EXCEPT !.cdr = "MATCHED", !.corrected = bill[s].corrected]]
      BY <2>2, TheRecords, Shape DEF IInv, CdrAgrees, Bills
    <3>2. "MATCHED" \in Compared /\ bill[s].corrected \in Nat
      BY TheRecords DEF Compared, Bills
    <3>3. QED
      BY <3>1, <3>2
  <2>3. CASE CorrectOvercharge(s)
    <3> DEFINE n == bill[s].corrected + (IF bill[s].txn = "COMPLETED" THEN 1 ELSE 0)
    <3>1. bill' = [bill EXCEPT ![s] = [bill[s] EXCEPT !.cdr = "CORRECTED", !.corrected = n]]
      BY <2>3, TheRecords, Shape DEF IInv, CorrectOvercharge, Bills
    <3>2. "CORRECTED" \in Compared /\ n \in Nat
      BY TheRecords DEF Compared, Bills
    <3>3. QED
      BY <3>1, <3>2
  <2>4. QED
    BY <2>1, <2>2, <2>3
<1>3. PICK cdr \in Compared, n \in Nat :
        bill' = [bill EXCEPT ![s] = [bill[s] EXCEPT !.cdr = cdr, !.corrected = n]]
  BY <1>2
<1> DEFINE b == [bill[s] EXCEPT !.cdr = cdr, !.corrected = n]
<1>4. \E p \in Works : pass' = [pass EXCEPT ![s] = p]
  <2>1. [pass[s] EXCEPT !.at = pass[s].at - 1] \in Works
        /\ [pass[s] EXCEPT !.at = pass[s].at - 1, !.claimed = FALSE] \in Works
    BY <1>1, OneLess, TheRecords DEF Works
  <2>2. CASE NoCdrYet(s)
    <3>1. pass' = [pass EXCEPT ![s] = [pass[s] EXCEPT !.at = pass[s].at - 1, !.claimed = FALSE]]
      BY <2>2, Shape DEF IInv, NoCdrYet, PassLetsGo, Works
    <3>2. QED
      BY <2>1, <3>1
  <2>3. CASE CdrAgrees(s) \/ CorrectOvercharge(s)
    <3>1. pass' = [pass EXCEPT ![s] = [pass[s] EXCEPT !.at = pass[s].at - 1]]
      BY <2>3, Shape DEF IInv, CdrAgrees, CorrectOvercharge, PassEnds, Works
    <3>2. QED
      BY <2>1, <3>1
  <2>4. QED
    BY <2>2, <2>3
<1>5. b \in Bills
  BY TheRecords DEF Bills
<1>6. \A p : Sane(session[s], b, p)
  BY <1>1, TheRecords DEF Sane, Bills, NoBill, Compared
<1>7. \A stage \in Stage : Fits(stage, session[s], bill[s], s \in dropped)
                           => Fits(stage, session[s], b, s \in dropped)
  BY <1>1, TheRecords DEF Fits, Bills, NoBill, Compared
<1>8. Rest(bill[s], s \in dropped) => Rest(b, s \in dropped)
  BY TheRecords DEF Rest, Bills
<1>9. UNCHANGED <<bayVars, readVars, stop, dropped>>
  BY DEF NoCdrYet, CdrAgrees, CorrectOvercharge
<1> HIDE DEF b
<1>10. bill' = [bill EXCEPT ![s] = b]
  BY <1>3 DEF b
<1>11. QED
  BY <1>4, <1>5, <1>6, <1>7, <1>8, <1>9, <1>10, BehindTheStop

LEMMA SettlePreserves ==
  ASSUME IInv, NEW s \in Session, SettleRoaming(s)
  PROVE  IInv'
<1>1. /\ session[s].at \in Roaming /\ pass[s].at > 0 /\ bill[s].cdr = "none"
      /\ session[s].is = "AWAITING_SETTLEMENT" /\ session[s].stopped
      /\ bill[s].earned = 0 /\ bill[s].posted = 0 /\ bill[s].points = "none"
      /\ bill[s].event = "none"
  BY TheRecords DEF SettleRoaming, Settling, Sane, Bills
<1>2. PICK n \in {0, 1} : \E k \in 0..n :
        bill' = [bill EXCEPT ![s].txn = "COMPLETED", ![s].cdr = "NOT_APPLICABLE",
                             ![s].earned = @ + k, ![s].posted = @ + n]
  BY DEF SettleRoaming
<1>3. PICK e \in 0..n :
        bill' = [bill EXCEPT ![s].txn = "COMPLETED", ![s].cdr = "NOT_APPLICABLE",
                             ![s].earned = @ + e, ![s].posted = @ + n]
  BY <1>2
<1>4. n \in Nat /\ n <= 1 /\ e \in {0, 1} /\ (e = 1 => n = 1)
  BY <1>2, <1>3
<1> DEFINE r == [session[s] EXCEPT !.is = "COMPLETED"]
           b == [bill[s] EXCEPT !.txn = "COMPLETED", !.cdr = "NOT_APPLICABLE",
                                !.earned = e, !.posted = n]
           p == [pass[s] EXCEPT !.at = pass[s].at - 1]
<1>5. r \in Sessions /\ b \in Bills /\ p \in Works
  <2>1. r \in Sessions
    BY TheRecords DEF Sessions
  <2>2. b \in Bills
    <3>1. e \in Nat /\ n \in Nat /\ bill[s] \in Bills
      BY <1>4, TheRecords
    <3>2. QED
      BY <3>1 DEF Bills
  <2>3. p \in Works
    BY <1>1, OneLess, TheRecords DEF Works
  <2>4. QED
    BY <2>1, <2>2, <2>3
<1>6. Sane(r, b, p)
  BY <1>4, <1>1, TheRecords DEF Sane, Sessions, Bills, Works, Compared
<1>7. session' = [session EXCEPT ![s] = r] /\ bill' = [bill EXCEPT ![s] = b]
      /\ pass' = [pass EXCEPT ![s] = p]
  <2>1. bill[s].earned + e = e /\ bill[s].posted + n = n
    BY <1>4, <1>1
  <2>2. QED
    BY <1>1, <1>3, <2>1, Shape DEF IInv, SettleRoaming, PassEnds, Bills
<1>8. \A stage \in Stage : ~Fits(stage, session[s], bill[s], s \in dropped)
  BY <1>1 DEF Fits
<1>9. Rest(b, s \in dropped)
  BY <1>1, TheRecords DEF Rest, Bills
<1>10. stop' = stop /\ UNCHANGED <<bay, hold, readVars, dropped>>
  BY DEF SettleRoaming
<1> HIDE DEF r, b, p
<1>11. Records(s, r, b, p)
  BY <1>5, <1>6, <1>7, <1>10 DEF Records
<1>12. Owned' /\ \A t \in Session : SessionOK(t)'
  BY <1>8, <1>9, <1>10, <1>11, CallsStay
<1>13. BaysAreAccountedFor'
  BY <1>1, <1>7, <1>10 DEF IInv, TypeOK, BaysAreAccountedFor
<1>14. bay' \in [Connector -> {"AVAILABLE", "RESERVED", "CHARGING"}] /\ listed' \subseteq Session
       /\ UNCHANGED <<hold, starting, cancelling>>
  BY <1>10 DEF IInv, TypeOK, readVars
<1>15. QED
  BY <1>10, <1>11, <1>12, <1>13, <1>14, Gather

-----------------------------------------------------------------------------
(* The theorems *)

LEMMA StopPreserves ==
  ASSUME IInv, NEW c \in Call, StopStep(c)
  PROVE  IInv'
  BY ClaimPreserves, ParkPreserves, BillPreserves, ReleasePreserves, UnwindPreserves,
     BillingPreserves DEF StopStep

LEMMA StartsPreserve ==
  ASSUME IInv, NEW h \in Hold, HoldStep(h)
  PROVE  IInv'
  BY HoldPreserves, StartHeldPreserves DEF HoldStep

LEMMA SessionPreserves ==
  ASSUME IInv, NEW s \in Session, SessionStep(s) \/ PassStep(s)
  PROVE  IInv'
<1>1. CASE SessionStep(s)
  BY <1>1, StartPreserves, ListPreserves, SweepPreserves, OthersPreserve DEF SessionStep
<1>2. CASE PassStep(s)
  BY <1>2, ClaimOnly, CorrectionPreserves, SettlePreserves DEF PassStep
<1>3. QED
  BY <1>1, <1>2

LEMMA StutterPreserves == IInv /\ UNCHANGED vars => IInv'
<1> SUFFICES ASSUME IInv, UNCHANGED vars PROVE IInv'
  OBVIOUS
<1>1. TypeOK'
  BY DEF IInv, TypeOK, vars, bayVars, readVars
<1>2. Owned' /\ \A s \in Session : SessionOK(s)'
  BY SessionsStay DEF vars, bayVars
<1>3. BaysAreAccountedFor' /\ ReadsExist'
  BY DEF IInv, BaysAreAccountedFor, ReadsExist, vars, bayVars, readVars
<1>4. QED
  BY <1>1, <1>2, <1>3 DEF IInv

(* No start, stop, sweep, reconciliation or delivery breaks the invariant. *)
THEOREM Preserved == IInv /\ [Next]_vars => IInv'
<1> SUFFICES ASSUME IInv, [Next]_vars PROVE IInv'
  OBVIOUS
<1>1. CASE Next
  BY <1>1, StartsPreserve, StopPreserves, SessionPreserves DEF Next
<1>2. CASE UNCHANGED vars
  BY <1>2, StutterPreserves
<1>3. QED
  BY <1>1, <1>2

\* The inductive invariant holds for any number of connectors, reservations,
\* sessions, stops in flight and reconciliations.
THEOREM Invariance == Spec => []IInv
  BY Initially, Preserved, PTL DEF Spec

\* Types, and the one way in which a session is billed.
THEOREM TypeCorrect == Spec => []TypeOK
<1>1. IInv => TypeOK
  BY DEF IInv
<1>2. QED
  BY <1>1, Invariance, PTL

\* No bay is lost, however sessions and reservations end: a bay that is taken
\* is taken by one that stands.
THEOREM NoBayIsLost == Spec => []BaysAreAccountedFor
<1>1. IInv => BaysAreAccountedFor
  BY DEF IInv
<1>2. QED
  BY <1>1, Invariance, PTL

\* A session is COMPLETED exactly when it has its CDR, and earns once, on a
\* transaction that stands unless the stop never heard that it had committed.
THEOREM OneBill == Spec => []BilledOnce
<1>1. IInv => BilledOnce
  BY DEF IInv, SessionOK, Sane, BilledOnce
<1>2. QED
  BY <1>1, Invariance, PTL

\* What was earned is in the books once, or the outbox still tries to write it,
\* or its row is a dead letter: never marked processed and not posted.
THEOREM EarningsAreBooked == Spec => []EveryEarningIsBooked
<1>1. ASSUME IInv PROVE EveryEarningIsBooked
  <2>1. ASSUME NEW s \in Session, bill[s].event = "pending"
        PROVE  bill[s].tries < MaxTries \/ DeadLettered(s)
    <3>1. bill[s].tries \in 0..MaxTries
      BY <1>1, TheRecords DEF Bills
    <3>2. QED
      BY <2>1, <3>1, Tries DEF DeadLettered
  <2>2. QED
    BY <1>1, <2>1 DEF IInv, SessionOK, Sane, EveryEarningIsBooked
<1>2. QED
  BY <1>1, Invariance, PTL

\* Points spent on a charge stand with a completed transaction or are back.
THEOREM PointsAreFollowed == Spec => []PointsFollowTheBill
<1>1. IInv => PointsFollowTheBill
  BY DEF IInv, SessionOK, Rest, PointsFollowTheBill
<1>2. QED
  BY <1>1, Invariance, PTL
=============================================================================

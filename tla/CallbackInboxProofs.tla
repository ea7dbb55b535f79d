------------------------ MODULE CallbackInboxProofs ------------------------
(* Proofs about CallbackInbox: its invariants, and that it implements the  *)
(* durable queue of DurableWork.                                           *)
EXTENDS CallbackInbox, TLAPS

InHand == {"settling", "settled", "failed", "dead"}

\* A worker past the lock has one row in hand.
OneInHand == \A w \in Worker : current[w] # None <=> phase[w] \in InHand

\* What is held was recorded, and its holder's try is already counted.
HeldIsCounted ==
  \A w \in Worker, c \in Callback :
    Holds(w, c) => status[c] # "absent" /\ tries[w][c] < attempts[c]

SettledIsAnswered ==
  \A w \in Worker : phase[w] = "settled" => answered[BillOf[current[w]]]

\* The inductive invariant.
IInv ==
  /\ TypeOK
  /\ OneInHand
  /\ HeldIsCounted
  /\ EveryClaimSpendsATry
  /\ SettledIsAnswered
  /\ DoneMeansSettled
  /\ DeadMeansExhausted

USE DEF Pending, Phases, rowVars, workerVars

-----------------------------------------------------------------------------
(* The inductive invariant *)

LEMMA InvInit == Init => IInv
  BY BillOfType, BoundsType, NoneIsNew
  DEF Init, IInv, TypeOK, OneInHand, InHand, HeldIsCounted, Holds,
      EveryClaimSpendsATry, SettledIsAnswered, DoneMeansSettled, DeadMeansExhausted

LEMMA TypeStep == TypeOK /\ OneInHand /\ [Next]_vars => TypeOK'
<1> SUFFICES ASSUME TypeOK, OneInHand, [Next]_vars PROVE TypeOK'
  OBVIOUS
<1>t. /\ status \in [Callback -> Pending \cup {"absent", "PROCESSED", "DEAD"}]
      /\ attempts \in [Callback -> 0..MaxAttempts]
      /\ due \in [Callback -> BOOLEAN]
      /\ batch \in [Worker -> SUBSET Callback]
      /\ current \in [Worker -> Callback \cup {None}]
      /\ tries \in [Worker -> [Callback -> 0..MaxAttempts]]
      /\ phase \in [Worker -> Phases]
      /\ lock \in [Bill -> Worker \cup {None}]
      /\ answered \in [Bill -> BOOLEAN]
      /\ alerted \in [Callback -> BOOLEAN] /\ cut \subseteq Callback
  BY DEF TypeOK
<1>h. \A w \in Worker : phase[w] \in InHand => current[w] \in Callback
  BY <1>t DEF OneInHand
<1>1. ASSUME NEW c \in Callback, Record(c) \/ ComesDue(c) PROVE TypeOK'
  <2>1. /\ status' = status \/ status' = [status EXCEPT ![c] = "RECEIVED"]
        /\ due' = [due EXCEPT ![c] = TRUE]
        /\ UNCHANGED <<attempts, workerVars, lock, answered, alerted, cut>>
    BY <1>1 DEF Record, ComesDue
  <2>2. status' \in [Callback -> Pending \cup {"absent", "PROCESSED", "DEAD"}]
    BY <2>1, <1>t DEF Pending
  <2>3. due' \in [Callback -> BOOLEAN]
    BY <2>1, <1>t
  <2> QED BY <2>1, <2>2, <2>3, <1>t DEF workerVars, TypeOK
<1>2. ASSUME NEW w \in Worker, NEW rows \in SUBSET Callback, Claim(w, rows) PROVE TypeOK'
  <2>1. status' \in [Callback -> Pending \cup {"absent", "PROCESSED", "DEAD"}]
    BY <1>2, <1>t DEF Claim
  <2>2. attempts' \in [Callback -> 0..MaxAttempts]
    BY <1>2, <1>t, BoundsType DEF Claim, Claimable
  <2>3. tries' \in [Worker -> [Callback -> 0..MaxAttempts]]
    BY <1>2, <1>t DEF Claim
  <2>4. /\ due' \in [Callback -> BOOLEAN]
        /\ batch' \in [Worker -> SUBSET Callback]
        /\ phase' \in [Worker -> Phases]
    BY <1>2, <1>t DEF Claim
  <2> QED BY <1>2, <1>t, <2>1, <2>2, <2>3, <2>4 DEF Claim, TypeOK
<1>3. ASSUME NEW w \in Worker, NEW c \in Callback, Busy(w, c) \/ Start(w, c) PROVE TypeOK'
  <2>1. batch' \in [Worker -> SUBSET Callback]
    <3>1. batch' = [batch EXCEPT ![w] = batch[w] \ {c}]
      BY <1>3 DEF Busy, Start
    <3>2. batch[w] \ {c} \in SUBSET Callback
      BY <1>t
    <3> QED BY <1>t, <3>1, <3>2
  <2>2. current' \in [Worker -> Callback \cup {None}]
    <3>1. current' = [current EXCEPT ![w] = c]
      BY <1>3 DEF Busy, Start
    <3> QED BY <1>t, <3>1
  <2>3. phase' \in [Worker -> Phases]
    <3>1. phase' = [phase EXCEPT ![w] = "failed"] \/ phase' = [phase EXCEPT ![w] = "settling"]
      BY <1>3 DEF Busy, Start
    <3> QED BY <1>t, <3>1
  <2>4. lock' \in [Bill -> Worker \cup {None}]
    <3>1. lock' = lock \/ lock' = [lock EXCEPT ![BillOf[c]] = w]
      BY <1>3 DEF Busy, Start
    <3> QED BY <1>t, <3>1
  <2>5. UNCHANGED <<status, attempts, due, tries, answered, alerted, cut>>
    BY <1>3 DEF Busy, Start
  <2> QED BY <1>t, <2>1, <2>2, <2>3, <2>4, <2>5 DEF TypeOK
<1>4. ASSUME NEW w \in Worker, SettleReturns(w) \/ SettleThrows(w) PROVE TypeOK'
  <2>1. answered' \in [Bill -> BOOLEAN]
    BY <1>4, <1>t DEF SettleReturns, SettleThrows
  <2>2. phase' \in [Worker -> Phases]
    BY <1>4, <1>t DEF SettleReturns, SettleThrows
  <2>3. lock' \in [Bill -> Worker \cup {None}]
    BY <1>4, <1>t DEF SettleReturns, SettleThrows, Release
  <2>4. UNCHANGED <<status, attempts, due, batch, current, tries, alerted, cut>>
    BY <1>4 DEF SettleReturns, SettleThrows, rowVars
  <2> QED BY <1>t, <2>1, <2>2, <2>3, <2>4 DEF TypeOK
<1>n. ASSUME NEW w \in Worker, NextRow(w)
      PROVE  /\ current' \in [Worker -> Callback \cup {None}] /\ phase' \in [Worker -> Phases]
             /\ batch' \in [Worker -> SUBSET Callback]
             /\ tries' \in [Worker -> [Callback -> 0..MaxAttempts]]
  BY <1>n, <1>t DEF NextRow
<1>5. ASSUME NEW w \in Worker, MarkProcessed(w) \/ MarkThrows(w) PROVE TypeOK'
  <2>1. CASE MarkProcessed(w)
    <3>1. status' \in [Callback -> Pending \cup {"absent", "PROCESSED", "DEAD"}]
      BY <2>1, <1>t DEF MarkProcessed
    <3> QED BY <2>1, <1>t, <1>n, <3>1 DEF MarkProcessed, TypeOK
  <2>2. CASE MarkThrows(w)
    BY <2>2, <1>t DEF MarkThrows, TypeOK
  <2> QED BY <1>5, <2>1, <2>2
<1>6. ASSUME NEW w \in Worker, Retry(w) \/ GiveUp(w) PROVE TypeOK'
  <2>1. CASE Retry(w)
    <3>1. /\ status' \in [Callback -> Pending \cup {"absent", "PROCESSED", "DEAD"}]
          /\ due' \in [Callback -> BOOLEAN]
      BY <2>1, <1>t DEF Retry
    <3> QED BY <2>1, <1>t, <1>n, <3>1 DEF Retry, TypeOK
  <2>2. CASE GiveUp(w)
    <3>1. /\ status' \in [Callback -> Pending \cup {"absent", "PROCESSED", "DEAD"}]
          /\ phase' \in [Worker -> Phases]
      BY <2>2, <1>t DEF GiveUp
    <3> QED BY <2>2, <1>t, <3>1 DEF GiveUp, TypeOK
  <2> QED BY <1>6, <2>1, <2>2
<1>7. ASSUME NEW w \in Worker, Alert(w) PROVE TypeOK'
  <2>1. alerted' \in [Callback -> BOOLEAN]
    BY <1>7, <1>t DEF Alert
  <2> QED BY <1>7, <1>t, <1>n, <2>1 DEF Alert, TypeOK
<1>8. ASSUME NEW w \in Worker, FailureThrows(w) \/ Crash(w) PROVE TypeOK'
  <2>1. /\ batch' = [batch EXCEPT ![w] = {}] /\ current' = [current EXCEPT ![w] = None]
        /\ phase' = [phase EXCEPT ![w] = "idle"]
        /\ UNCHANGED <<status, attempts, due, tries, lock, answered, alerted>>
        /\ cut' \subseteq cut \cup Callback
    BY <1>8 DEF FailureThrows, Crash, Drops
  <2>2. /\ batch' \in [Worker -> SUBSET Callback] /\ current' \in [Worker -> Callback \cup {None}]
        /\ phase' \in [Worker -> Phases]
    BY <1>t, <2>1
  <2> QED BY <1>t, <2>1, <2>2 DEF TypeOK
<1>9. ASSUME NEW b \in Bill, LockLapses(b) PROVE TypeOK'
  <2>1. lock' \in [Bill -> Worker \cup {None}]
    BY <1>9, <1>t DEF LockLapses
  <2> QED BY <1>9, <1>t, <2>1 DEF LockLapses, TypeOK
<1>10. CASE UNCHANGED vars
  BY <1>10, <1>t DEF vars, TypeOK
<1> QED BY <1>1, <1>2, <1>3, <1>4, <1>5, <1>6, <1>7, <1>8, <1>9, <1>10 DEF Next, WorkerStep

\* A worker that has no row, or goes on to the next one.
LEMMA HandStep == TypeOK /\ OneInHand /\ [Next]_vars => OneInHand'
<1> SUFFICES ASSUME TypeOK, OneInHand, [Next]_vars PROVE OneInHand'
  OBVIOUS
<1> USE BillOfType, BoundsType, NoneIsNew DEF TypeOK, OneInHand, InHand
<1>1. CASE \E c \in Callback : Record(c) \/ ComesDue(c)
  BY <1>1 DEF Record, ComesDue
<1>2. ASSUME NEW w \in Worker, NEW rows \in SUBSET Callback, Claim(w, rows) PROVE OneInHand'
  BY <1>2 DEF Claim
<1>3. ASSUME NEW w \in Worker, NEW c \in Callback, Busy(w, c) \/ Start(w, c) PROVE OneInHand'
  <2>1. /\ current' = [current EXCEPT ![w] = c]
        /\ phase' = [phase EXCEPT ![w] = "failed"] \/ phase' = [phase EXCEPT ![w] = "settling"]
    BY <1>3 DEF Busy, Start
  <2>2. current'[w] = c /\ phase'[w] \in {"failed", "settling"}
    BY <2>1
  <2>3. \A v \in Worker : v # w => current'[v] = current[v] /\ phase'[v] = phase[v]
    BY <2>1
  <2> QED BY <2>2, <2>3
<1>4. ASSUME NEW w \in Worker, SettleReturns(w) \/ SettleThrows(w) PROVE OneInHand'
  <2>1. /\ phase[w] = "settling" /\ UNCHANGED current
        /\ phase' = [phase EXCEPT ![w] = "settled"] \/ phase' = [phase EXCEPT ![w] = "failed"]
    BY <1>4 DEF SettleReturns, SettleThrows
  <2>2. current'[w] = current[w] /\ phase'[w] \in {"settled", "failed"}
    BY <2>1
  <2>3. \A v \in Worker : v # w => current'[v] = current[v] /\ phase'[v] = phase[v]
    BY <2>1
  <2> QED BY <2>1, <2>2, <2>3
<1>5. ASSUME NEW w \in Worker, MarkProcessed(w) \/ MarkThrows(w) PROVE OneInHand'
  BY <1>5, SMTT(30) DEF MarkProcessed, MarkThrows, NextRow
<1>6. ASSUME NEW w \in Worker, Retry(w) \/ GiveUp(w) \/ FailureThrows(w) \/ Alert(w)
      PROVE OneInHand'
  BY <1>6 DEF Retry, GiveUp, FailureThrows, Drops, Alert, NextRow
<1>7. ASSUME NEW w \in Worker, Crash(w) PROVE OneInHand'
  BY <1>7 DEF Crash, Drops
<1>8. ASSUME NEW b \in Bill, LockLapses(b) PROVE OneInHand'
  BY <1>8 DEF LockLapses
<1>9. CASE UNCHANGED vars
  BY <1>9 DEF vars
<1> QED BY <1>1, <1>2, <1>3, <1>4, <1>5, <1>6, <1>7, <1>8, <1>9 DEF Next, WorkerStep

\* Claims are the only thing that makes a worker hold a row, and they count.
LEMMA HeldStep ==
  TypeOK /\ HeldIsCounted /\ EveryClaimSpendsATry /\ [Next]_vars
  => HeldIsCounted' /\ EveryClaimSpendsATry'
<1> SUFFICES ASSUME TypeOK, HeldIsCounted, EveryClaimSpendsATry, [Next]_vars
             PROVE  HeldIsCounted' /\ EveryClaimSpendsATry'
  OBVIOUS
<1> USE BillOfType, BoundsType, NoneIsNew DEF TypeOK
\* A step by which no row is taken up, put back to "absent" or loses a try.
<1>a. ASSUME UNCHANGED <<attempts, tries>>,
             \A w \in Worker, c \in Callback : Holds(w, c)' => Holds(w, c),
             \A c \in Callback : status[c] # "absent" => status'[c] # "absent"
      PROVE  HeldIsCounted' /\ EveryClaimSpendsATry'
  BY <1>a DEF HeldIsCounted, EveryClaimSpendsATry
<1>1. ASSUME NEW w \in Worker, NEW rows \in SUBSET Callback, Claim(w, rows)
      PROVE  HeldIsCounted' /\ EveryClaimSpendsATry'
  <2>1. \A v \in Worker, c \in Callback :
          Holds(v, c)' => \/ Holds(v, c) /\ tries'[v][c] = tries[v][c] /\ (v # w \/ c \notin rows)
                          \/ v = w /\ c \in rows /\ tries'[v][c] = attempts[c]
    <3> SUFFICES ASSUME NEW v \in Worker, NEW c \in Callback, Holds(v, c)'
                 PROVE  \/ Holds(v, c) /\ tries'[v][c] = tries[v][c] /\ (v # w \/ c \notin rows)
                        \/ v = w /\ c \in rows /\ tries'[v][c] = attempts[c]
      OBVIOUS
    <3>1. CASE v = w
      BY <1>1, <3>1 DEF Claim, Holds
    <3>2. CASE v # w
      BY <1>1, <3>2 DEF Claim, Holds
    <3> QED BY <3>1, <3>2
  <2>2. \A c \in Callback : /\ attempts[c] <= attempts'[c]
                            /\ c \in rows => attempts'[c] = attempts[c] + 1
                            /\ status[c] # "absent" => status'[c] # "absent"
                            /\ c \in rows => status'[c] # "absent"
    BY <1>1 DEF Claim
  <2>3. HeldIsCounted'
    <3> SUFFICES ASSUME NEW v \in Worker, NEW c \in Callback, Holds(v, c)'
                 PROVE  status'[c] # "absent" /\ tries'[v][c] < attempts'[c]
      BY DEF HeldIsCounted
    <3>1. attempts[c] \in Nat /\ attempts'[c] \in Nat /\ tries[v][c] \in Nat
      BY <1>1 DEF Claim
    <3> QED BY <2>1, <2>2, <3>1 DEF HeldIsCounted
  <2>4. EveryClaimSpendsATry'
    <3> SUFFICES ASSUME NEW u \in Worker, NEW v \in Worker, NEW c \in Callback,
                        Holds(u, c)', Holds(v, c)', u # v
                 PROVE  tries'[u][c] # tries'[v][c]
      BY DEF EveryClaimSpendsATry
    <3>1. attempts[c] \in Nat /\ tries[u][c] \in Nat /\ tries[v][c] \in Nat
      OBVIOUS
    <3>2. /\ Holds(u, c) => tries[u][c] < attempts[c]
          /\ Holds(v, c) => tries[v][c] < attempts[c]
          /\ Holds(u, c) /\ Holds(v, c) => tries[u][c] # tries[v][c]
      BY DEF HeldIsCounted, EveryClaimSpendsATry
    <3>3. /\ \/ Holds(u, c) /\ tries'[u][c] = tries[u][c]
             \/ u = w /\ tries'[u][c] = attempts[c]
          /\ \/ Holds(v, c) /\ tries'[v][c] = tries[v][c]
             \/ v = w /\ tries'[v][c] = attempts[c]
      BY <2>1
    <3> HIDE DEF TypeOK
    <3> QED BY <3>1, <3>2, <3>3
  <2> QED BY <2>3, <2>4
<1>2. ASSUME NEW c \in Callback, Record(c) \/ ComesDue(c)
      PROVE  HeldIsCounted' /\ EveryClaimSpendsATry'
  BY <1>2, <1>a DEF Record, ComesDue, Holds
<1>3. ASSUME NEW w \in Worker, NEW c \in Callback, Busy(w, c) \/ Start(w, c)
      PROVE  HeldIsCounted' /\ EveryClaimSpendsATry'
  <2>1. \A v \in Worker, d \in Callback : Holds(v, d)' => Holds(v, d)
    BY <1>3 DEF Busy, Start, Holds
  <2> QED BY <1>3, <1>a, <2>1 DEF Busy, Start
<1>4. ASSUME NEW w \in Worker, SettleReturns(w) \/ SettleThrows(w)
      PROVE  HeldIsCounted' /\ EveryClaimSpendsATry'
  BY <1>4, <1>a DEF SettleReturns, SettleThrows, Holds
<1>5. ASSUME NEW w \in Worker,
             \/ MarkProcessed(w) \/ MarkThrows(w) \/ Retry(w) \/ GiveUp(w)
             \/ FailureThrows(w) \/ Alert(w) \/ Crash(w)
      PROVE  HeldIsCounted' /\ EveryClaimSpendsATry'
  <2>1. \A v \in Worker, d \in Callback : Holds(v, d)' => Holds(v, d)
    BY <1>5 DEF MarkProcessed, MarkThrows, Retry, GiveUp, FailureThrows, Alert, Crash, Drops, NextRow,
                Holds
  <2>2. \A d \in Callback : status[d] # "absent" => status'[d] # "absent"
    BY <1>5 DEF MarkProcessed, MarkThrows, Retry, GiveUp, FailureThrows, Alert, Crash, Drops
  <2>3. UNCHANGED <<attempts, tries>>
    BY <1>5 DEF MarkProcessed, MarkThrows, Retry, GiveUp, FailureThrows, Alert, Crash, Drops, NextRow
  <2> QED BY <1>a, <2>1, <2>2, <2>3
<1>6. ASSUME NEW b \in Bill, LockLapses(b) PROVE HeldIsCounted' /\ EveryClaimSpendsATry'
  BY <1>6, <1>a DEF LockLapses, Holds
<1>7. CASE UNCHANGED vars
  BY <1>7, <1>a DEF vars, Holds
<1> QED BY <1>1, <1>2, <1>3, <1>4, <1>5, <1>6, <1>7 DEF Next, WorkerStep

\* What counts as done or settled has been answered, and answers stay.
LEMMA DoneStep ==
  /\ TypeOK /\ OneInHand /\ SettledIsAnswered /\ DoneMeansSettled /\ [Next]_vars
  => SettledIsAnswered' /\ DoneMeansSettled'
<1> SUFFICES ASSUME TypeOK, OneInHand, SettledIsAnswered, DoneMeansSettled, [Next]_vars
             PROVE  SettledIsAnswered' /\ DoneMeansSettled'
  BY DEF TypeOK
<1> USE BillOfType, BoundsType, NoneIsNew DEF TypeOK, OneInHand, InHand
\* Answers stay; a worker becomes "settled", or a row PROCESSED, on one.
<1>a. ASSUME \A b \in Bill : answered[b] => answered'[b],
             \A w \in Worker : phase'[w] = "settled" =>
               \/ phase[w] = "settled" /\ current'[w] = current[w]
               \/ answered'[BillOf[current'[w]]],
             \A c \in Callback : status'[c] = "PROCESSED" =>
               status[c] = "PROCESSED" \/ answered'[BillOf[c]]
      PROVE  SettledIsAnswered' /\ DoneMeansSettled'
  <2>1. SettledIsAnswered'
    <3> SUFFICES ASSUME NEW w \in Worker, phase'[w] = "settled"
                 PROVE  answered'[BillOf[current'[w]]]
      BY DEF SettledIsAnswered
    <3>1. CASE phase[w] = "settled" /\ current'[w] = current[w]
      <4>1. current[w] \in Callback
        BY <3>1
      <4>2. BillOf[current[w]] \in Bill /\ answered[BillOf[current[w]]]
        BY <3>1, <4>1 DEF SettledIsAnswered
      <4> QED BY <1>a, <3>1, <4>2
    <3> QED BY <1>a, <3>1
  <2>2. DoneMeansSettled'
    BY <1>a DEF DoneMeansSettled
  <2> QED BY <2>1, <2>2
<1>1. ASSUME NEW c \in Callback, Record(c) \/ ComesDue(c)
      PROVE  SettledIsAnswered' /\ DoneMeansSettled'
  BY <1>1, <1>a DEF Record, ComesDue
<1>2. ASSUME NEW w \in Worker, NEW rows \in SUBSET Callback, Claim(w, rows)
      PROVE  SettledIsAnswered' /\ DoneMeansSettled'
  BY <1>2, <1>a DEF Claim
<1>3. ASSUME NEW w \in Worker, NEW c \in Callback, Busy(w, c) \/ Start(w, c)
      PROVE  SettledIsAnswered' /\ DoneMeansSettled'
  BY <1>3, <1>a DEF Busy, Start
<1>4. ASSUME NEW w \in Worker, SettleReturns(w)
      PROVE  SettledIsAnswered' /\ DoneMeansSettled'
  <2>1. BillOf[current[w]] \in Bill
    BY <1>4 DEF SettleReturns
  <2>2. answered' = [answered EXCEPT ![BillOf[current[w]]] = TRUE]
        /\ phase' = [phase EXCEPT ![w] = "settled"] /\ UNCHANGED <<status, current>>
    BY <1>4 DEF SettleReturns
  <2> QED BY <1>a, <2>1, <2>2
<1>5. ASSUME NEW w \in Worker, SettleThrows(w)
      PROVE  SettledIsAnswered' /\ DoneMeansSettled'
  <2>1. \A b \in Bill : answered[b] => answered'[b]
    BY <1>5 DEF SettleThrows
  <2> QED BY <1>5, <1>a, <2>1 DEF SettleThrows
<1>6. ASSUME NEW w \in Worker, MarkProcessed(w)
      PROVE  SettledIsAnswered' /\ DoneMeansSettled'
  <2>1. current[w] \in Callback /\ answered[BillOf[current[w]]]
    BY <1>6 DEF MarkProcessed, SettledIsAnswered
  <2> QED BY <1>6, <1>a, <2>1 DEF MarkProcessed, NextRow
<1>7. ASSUME NEW w \in Worker,
             \/ MarkThrows(w) \/ Retry(w) \/ GiveUp(w)
             \/ FailureThrows(w) \/ Alert(w) \/ Crash(w)
      PROVE  SettledIsAnswered' /\ DoneMeansSettled'
  <2>1. UNCHANGED answered
    BY <1>7 DEF MarkThrows, Retry, GiveUp, FailureThrows, Alert, Crash, Drops
  <2>2. \A v \in Worker : phase'[v] = "settled" => phase[v] = "settled" /\ current'[v] = current[v]
    BY <1>7 DEF MarkThrows, Retry, GiveUp, FailureThrows, Alert, Crash, Drops, NextRow
  <2>3. \A c \in Callback : status'[c] = "PROCESSED" => status[c] = "PROCESSED"
    BY <1>7 DEF MarkThrows, Retry, GiveUp, FailureThrows, Alert, Crash, Drops
  <2> QED BY <1>a, <2>1, <2>2, <2>3
<1>8. ASSUME NEW b \in Bill, LockLapses(b) PROVE SettledIsAnswered' /\ DoneMeansSettled'
  BY <1>8, <1>a DEF LockLapses
<1>9. CASE UNCHANGED vars
  BY <1>9, <1>a DEF vars
<1> QED BY <1>1, <1>2, <1>3, <1>4, <1>5, <1>6, <1>7, <1>8, <1>9 DEF Next, WorkerStep

\* Tries are spent by claims, which take no dead row, and a worker gives up
\* only when its own try was the last.
LEMMA DeadStep ==
  TypeOK /\ OneInHand /\ HeldIsCounted /\ DeadMeansExhausted /\ [Next]_vars => DeadMeansExhausted'
<1> SUFFICES ASSUME TypeOK, OneInHand, HeldIsCounted, DeadMeansExhausted, [Next]_vars
             PROVE  DeadMeansExhausted'
  OBVIOUS
<1> USE BillOfType, BoundsType, NoneIsNew DEF TypeOK, OneInHand, InHand, DeadMeansExhausted
<1>1. ASSUME NEW w \in Worker, NEW rows \in SUBSET Callback, Claim(w, rows)
      PROVE  DeadMeansExhausted'
  BY <1>1 DEF Claim, Claimable
<1>2. ASSUME NEW w \in Worker, GiveUp(w) PROVE DeadMeansExhausted'
  <2>1. current[w] \in Callback
    BY <1>2 DEF GiveUp
  <2>2. tries[w][current[w]] < attempts[current[w]]
    BY <2>1 DEF HeldIsCounted, Holds
  <2>3. attempts[current[w]] = MaxAttempts
    <3>1. attempts[current[w]] \in 0..MaxAttempts /\ tries[w][current[w]] \in 0..MaxAttempts
      BY <2>1
    <3>2. tries[w][current[w]] + 1 >= MaxAttempts
      BY <1>2 DEF GiveUp, LastTry
    <3> HIDE DEF TypeOK, OneInHand, DeadMeansExhausted
    <3> QED BY <2>2, <3>1, <3>2
  <2> QED BY <1>2, <2>1, <2>3 DEF GiveUp
<1>3. ASSUME UNCHANGED attempts,
             \A c \in Callback : status'[c] = "DEAD" => status[c] = "DEAD"
      PROVE  DeadMeansExhausted'
  BY <1>3
<1>4. ASSUME NEW c \in Callback, Record(c) \/ ComesDue(c) PROVE DeadMeansExhausted'
  BY <1>3, <1>4 DEF Record, ComesDue
<1>5. ASSUME NEW w \in Worker,
             \/ \E c \in Callback : Busy(w, c) \/ Start(w, c)
             \/ SettleReturns(w) \/ SettleThrows(w) \/ MarkThrows(w)
             \/ FailureThrows(w) \/ Alert(w) \/ Crash(w)
      PROVE  DeadMeansExhausted'
  BY <1>3, <1>5 DEF Busy, Start, SettleReturns, SettleThrows, MarkThrows, FailureThrows, Alert,
                    Crash, Drops
<1>6. ASSUME NEW w \in Worker, MarkProcessed(w) \/ Retry(w) PROVE DeadMeansExhausted'
  BY <1>3, <1>6 DEF MarkProcessed, Retry
<1>7. ASSUME NEW b \in Bill, LockLapses(b) PROVE DeadMeansExhausted'
  BY <1>3, <1>7 DEF LockLapses
<1>8. CASE UNCHANGED vars
  BY <1>3, <1>8 DEF vars
<1> QED BY <1>1, <1>2, <1>4, <1>5, <1>6, <1>7, <1>8 DEF Next, WorkerStep

LEMMA InvStep == IInv /\ [Next]_vars => IInv'
  BY TypeStep, HandStep, HeldStep, DoneStep, DeadStep DEF IInv

\* The inductive invariant holds of every number of callbacks, bills and
\* workers, of every batch size and every limit of tries.
THEOREM Invariance == Spec => []IInv
  BY InvInit, InvStep, PTL DEF Spec

\* Rows, workers' hands and locks keep to their domains.
THEOREM TypeCorrect == Spec => []TypeOK
<1>1. IInv => TypeOK
  BY DEF IInv
<1> QED BY Invariance, <1>1, PTL

\* drain() never marks PROCESSED a callback whose bill was not answered.
THEOREM DoneIsDone == Spec => []DoneMeansSettled
<1>1. IInv => DoneMeansSettled
  BY DEF IInv
<1> QED BY Invariance, <1>1, PTL

\* Workers that share a row read different attempts in their claims.
THEOREM ClaimsCount == Spec => []EveryClaimSpendsATry
<1>1. IInv => EveryClaimSpendsATry
  BY DEF IInv
<1> QED BY Invariance, <1>1, PTL

\* recordFailure declares a callback dead only after its last try.
THEOREM NobodyGivesUpEarly == Spec => []DeadMeansExhausted
<1>1. IInv => DeadMeansExhausted
  BY DEF IInv
<1> QED BY Invariance, <1>1, PTL

-----------------------------------------------------------------------------
(* Terminal rows *)

\* No step takes a PROCESSED row elsewhere, or a DEAD one anywhere but there.
LEMMA TerminalStep ==
  TypeOK /\ OneInHand /\ [Next]_vars =>
    \A c \in Callback : /\ status[c] = "PROCESSED" => status'[c] = "PROCESSED"
                        /\ status[c] = "DEAD" => status'[c] \in {"DEAD", "PROCESSED"}
<1> SUFFICES ASSUME TypeOK, OneInHand, [Next]_vars
             PROVE  \A c \in Callback :
                      /\ status[c] = "PROCESSED" => status'[c] = "PROCESSED"
                      /\ status[c] = "DEAD" => status'[c] \in {"DEAD", "PROCESSED"}
  OBVIOUS
<1> DEFINE Kept == \A c \in Callback :
                     /\ status[c] = "PROCESSED" => status'[c] = "PROCESSED"
                     /\ status[c] = "DEAD" => status'[c] \in {"DEAD", "PROCESSED"}
<1> USE DEF TypeOK, OneInHand, InHand
<1>1. ASSUME UNCHANGED status PROVE Kept
  BY <1>1
<1>2. ASSUME NEW c \in Callback, Record(c) \/ ComesDue(c) PROVE Kept
  BY <1>2 DEF Record, ComesDue
<1>3. ASSUME NEW w \in Worker, NEW rows \in SUBSET Callback, Claim(w, rows) PROVE Kept
  BY <1>3 DEF Claim, Claimable
<1>4. ASSUME NEW w \in Worker, MarkProcessed(w) \/ Retry(w) \/ GiveUp(w) PROVE Kept
  BY <1>4 DEF MarkProcessed, Retry, GiveUp
<1>5. ASSUME NEW w \in Worker,
             \/ SettleReturns(w) \/ SettleThrows(w) \/ MarkThrows(w)
             \/ FailureThrows(w) \/ Alert(w) \/ Crash(w)
      PROVE  Kept
  BY <1>1, <1>5 DEF SettleReturns, SettleThrows, MarkThrows, FailureThrows, Alert, Crash, Drops
<1>6. ASSUME NEW b \in Bill, LockLapses(b) PROVE Kept
  BY <1>1, <1>6 DEF LockLapses
<1>7. ASSUME NEW w \in Worker, NEW c \in Callback, Busy(w, c) \/ Start(w, c) PROVE Kept
  BY <1>1, <1>7 DEF Busy, Start
<1>8. CASE UNCHANGED vars
  BY <1>1, <1>8 DEF vars
<1>9. Kept
  BY <1>2, <1>3, <1>4, <1>5, <1>6, <1>7, <1>8 DEF Next, WorkerStep
<1> QED BY <1>9

\* The CHECK on pendingKey and the immutability trigger together keep a late
\* worker's failure from reopening a finished or abandoned callback.
THEOREM TerminalStaysTerminal == Spec => TerminalIsNeverReopened
<1>1. IInv /\ [Next]_vars =>
        [\A c \in Callback : /\ status[c] = "PROCESSED" => status'[c] = "PROCESSED"
                             /\ status[c] = "DEAD" => status'[c] \in {"DEAD", "PROCESSED"}]_vars
  BY TerminalStep DEF IInv
<1> QED BY Invariance, <1>1, PTL DEF Spec, TerminalIsNeverReopened

-----------------------------------------------------------------------------
(* Rows without an outcome *)

IdleIsEmpty == \A w \in Worker : phase[w] = "idle" => batch[w] = {}
DeadInHand  == \A w \in Worker : phase[w] = "dead" => status[current[w]] \notin Pending

FreshIsUntried == \A c \in Callback : status[c] = "absent" => attempts[c] = 0

\* What the strandedness of a row rests on, besides IInv.
StrandInv == IdleIsEmpty /\ DeadInHand /\ FreshIsUntried /\ OnlyCutIsStranded

LEMMA StrandInit == Init => StrandInv
  BY BoundsType DEF Init, StrandInv, IdleIsEmpty, DeadInHand, FreshIsUntried,
                    OnlyCutIsStranded

LEMMA FreshStep ==
  TypeOK /\ OneInHand /\ HeldIsCounted /\ FreshIsUntried /\ [Next]_vars => FreshIsUntried'
<1> SUFFICES ASSUME TypeOK, OneInHand, HeldIsCounted, FreshIsUntried, [Next]_vars
             PROVE  FreshIsUntried'
  OBVIOUS
<1> USE DEF TypeOK, OneInHand, InHand, FreshIsUntried
<1>1. ASSUME NEW c \in Callback, Record(c) \/ ComesDue(c) PROVE FreshIsUntried'
  BY <1>1 DEF Record, ComesDue
<1>2. ASSUME NEW w \in Worker, NEW rows \in SUBSET Callback, Claim(w, rows)
      PROVE  FreshIsUntried'
  BY <1>2 DEF Claim
<1>3. ASSUME NEW w \in Worker, NEW c \in Callback, Busy(w, c) \/ Start(w, c)
      PROVE  FreshIsUntried'
  BY <1>3 DEF Busy, Start
<1>5. ASSUME NEW w \in Worker, MarkProcessed(w) \/ Retry(w) \/ GiveUp(w)
      PROVE  FreshIsUntried'
  BY <1>5 DEF MarkProcessed, Retry, GiveUp
<1>6. ASSUME NEW w \in Worker, \/ SettleReturns(w) \/ SettleThrows(w) \/ MarkThrows(w)
                               \/ FailureThrows(w) \/ Alert(w) \/ Crash(w)
      PROVE  FreshIsUntried'
  BY <1>6 DEF SettleReturns, SettleThrows, MarkThrows, FailureThrows, Alert, Crash, Drops
<1>7. ASSUME NEW b \in Bill, LockLapses(b) PROVE FreshIsUntried'
  BY <1>7 DEF LockLapses
<1>8. CASE UNCHANGED vars
  BY <1>8 DEF vars
<1> QED BY <1>1, <1>2, <1>3, <1>5, <1>6, <1>7, <1>8 DEF Next, WorkerStep

LEMMA IdleStep == TypeOK /\ IdleIsEmpty /\ [Next]_vars => IdleIsEmpty'
<1> SUFFICES ASSUME TypeOK, IdleIsEmpty, [Next]_vars PROVE IdleIsEmpty'
  OBVIOUS
<1> USE DEF TypeOK, IdleIsEmpty
<1>1. CASE \E c \in Callback : Record(c) \/ ComesDue(c)
  BY <1>1 DEF Record, ComesDue
<1>2. ASSUME NEW w \in Worker, NEW rows \in SUBSET Callback, Claim(w, rows) PROVE IdleIsEmpty'
  BY <1>2 DEF Claim
<1>3. ASSUME NEW w \in Worker, NEW c \in Callback, Busy(w, c) \/ Start(w, c)
      PROVE  IdleIsEmpty'
  <2>1. \A v \in Worker : v # w => batch'[v] = batch[v] /\ phase'[v] = phase[v]
    BY <1>3 DEF Busy, Start
  <2>2. phase'[w] # "idle"
    BY <1>3 DEF Busy, Start
  <2> QED BY <2>1, <2>2
<1>4. ASSUME NEW w \in Worker,
             SettleReturns(w) \/ SettleThrows(w) \/ MarkThrows(w) \/ GiveUp(w)
      PROVE  IdleIsEmpty'
  BY <1>4 DEF SettleReturns, SettleThrows, MarkThrows, GiveUp
<1>5. ASSUME NEW w \in Worker, MarkProcessed(w) \/ Retry(w) \/ Alert(w) PROVE IdleIsEmpty'
  <2>1. NextRow(w)
    BY <1>5 DEF MarkProcessed, Retry, Alert
  <2> QED BY <2>1 DEF NextRow
<1>6. ASSUME NEW w \in Worker, FailureThrows(w) \/ Crash(w) PROVE IdleIsEmpty'
  BY <1>6 DEF FailureThrows, Crash, Drops
<1>7. ASSUME NEW b \in Bill, LockLapses(b) PROVE IdleIsEmpty'
  BY <1>7 DEF LockLapses
<1>8. CASE UNCHANGED vars
  BY <1>8 DEF vars
<1> QED BY <1>1, <1>2, <1>3, <1>4, <1>5, <1>6, <1>7, <1>8 DEF Next, WorkerStep

LEMMA DeadInHandStep ==
  TypeOK /\ OneInHand /\ HeldIsCounted /\ DeadInHand /\ [Next]_vars => DeadInHand'
<1> SUFFICES ASSUME TypeOK, OneInHand, HeldIsCounted, DeadInHand, [Next]_vars
             PROVE  DeadInHand'
  OBVIOUS
<1> USE NoneIsNew DEF TypeOK, OneInHand, InHand
\* A row somebody has in hand, once finished with, stays so.
<1>a. ASSUME \A c \in Callback :
               status[c] \notin Pending /\ status[c] # "absent" => status'[c] \notin Pending,
             \A w \in Worker :
               phase'[w] = "dead" => phase[w] = "dead" /\ current'[w] = current[w]
      PROVE  DeadInHand'
  <2> SUFFICES ASSUME NEW w \in Worker, phase'[w] = "dead"
               PROVE  status'[current'[w]] \notin Pending
    BY DEF DeadInHand
  <2>1. phase[w] = "dead" /\ current'[w] = current[w]
    BY <1>a
  <2>2. current[w] \in Callback
    BY <2>1
  <2>3. status[current[w]] \notin Pending /\ status[current[w]] # "absent"
    BY <2>1, <2>2 DEF DeadInHand, HeldIsCounted, Holds
  <2> QED BY <1>a, <2>1, <2>2, <2>3
<1>1. ASSUME NEW c \in Callback, Record(c) \/ ComesDue(c) PROVE DeadInHand'
  BY <1>1, <1>a DEF Record, ComesDue
<1>2. ASSUME NEW w \in Worker, NEW rows \in SUBSET Callback, Claim(w, rows) PROVE DeadInHand'
  BY <1>2, <1>a DEF Claim, Claimable
<1>3. ASSUME NEW w \in Worker, NEW c \in Callback, Busy(w, c) \/ Start(w, c)
      PROVE  DeadInHand'
  <2>1. \A v \in Worker : v # w => current'[v] = current[v] /\ phase'[v] = phase[v]
    BY <1>3 DEF Busy, Start
  <2>2. phase'[w] # "dead" /\ status' = status
    BY <1>3 DEF Busy, Start
  <2> QED BY <1>a, <2>1, <2>2
<1>4. ASSUME NEW w \in Worker, SettleReturns(w) \/ SettleThrows(w) \/ MarkThrows(w)
      PROVE  DeadInHand'
  BY <1>4, <1>a DEF SettleReturns, SettleThrows, MarkThrows
<1>5. ASSUME NEW w \in Worker, MarkProcessed(w) \/ Retry(w) \/ Alert(w) PROVE DeadInHand'
  <2>1. \A v \in Worker : v # w => current'[v] = current[v] /\ phase'[v] = phase[v]
    BY <1>5 DEF MarkProcessed, Retry, Alert, NextRow
  <2>2. phase'[w] # "dead"
    BY <1>5 DEF MarkProcessed, Retry, Alert, NextRow
  <2>3. \A c \in Callback :
          status[c] \notin Pending /\ status[c] # "absent" => status'[c] \notin Pending
    BY <1>5 DEF MarkProcessed, Retry, Alert
  <2> QED BY <1>a, <2>1, <2>2, <2>3
<1>6. ASSUME NEW w \in Worker, GiveUp(w) PROVE DeadInHand'
  <2> SUFFICES ASSUME NEW v \in Worker, phase'[v] = "dead"
               PROVE  status'[current'[v]] \notin Pending
    BY DEF DeadInHand
  <2>1. current' = current /\ status' = [status EXCEPT ![current[w]] = "DEAD"]
    BY <1>6 DEF GiveUp
  <2>2. current[v] \in Callback
    BY <1>6 DEF GiveUp
  <2>3. v = w \/ status[current[v]] \notin Pending
    BY <1>6 DEF GiveUp, DeadInHand
  <2> QED BY <2>1, <2>2, <2>3
<1>7. ASSUME NEW w \in Worker, FailureThrows(w) \/ Crash(w) PROVE DeadInHand'
  BY <1>7, <1>a DEF FailureThrows, Crash, Drops
<1>8. ASSUME NEW b \in Bill, LockLapses(b) PROVE DeadInHand'
  BY <1>8, <1>a DEF LockLapses
<1>9. CASE UNCHANGED vars
  BY <1>9, <1>a DEF vars
<1> QED BY <1>1, <1>2, <1>3, <1>4, <1>5, <1>6, <1>7, <1>8, <1>9 DEF Next, WorkerStep

LEMMA StrandedStep ==
  TypeOK /\ OneInHand /\ StrandInv /\ [Next]_vars => OnlyCutIsStranded'
<1> SUFFICES ASSUME TypeOK, OneInHand, IdleIsEmpty, DeadInHand, FreshIsUntried,
                    OnlyCutIsStranded, [Next]_vars
             PROVE  OnlyCutIsStranded'
  BY DEF StrandInv
<1> USE BoundsType, NoneIsNew DEF TypeOK
<1> DEFINE LastTryOf(w, c) == Holds(w, c) /\ tries[w][c] + 1 = MaxAttempts
\* No try is counted, and a last try is let go only with an outcome or cut off.
<1>a. ASSUME UNCHANGED <<attempts, tries>>, cut \subseteq cut',
             \A c \in Callback : status'[c] \in Pending /\ attempts[c] = MaxAttempts =>
               status[c] \in Pending \/ c \in cut',
             \A w \in Worker, c \in Callback :
               LastTryOf(w, c) /\ status'[c] \in Pending => Holds(w, c)' \/ c \in cut'
      PROVE  OnlyCutIsStranded'
  BY <1>a DEF OnlyCutIsStranded
<1>1. ASSUME NEW c \in Callback, Record(c) \/ ComesDue(c) PROVE OnlyCutIsStranded'
  <2>1. UNCHANGED <<attempts, tries, cut, batch, current>>
    BY <1>1 DEF Record, ComesDue
  <2>2. \A d \in Callback : status'[d] \in Pending /\ attempts[d] = MaxAttempts =>
          status[d] \in Pending
    BY <1>1 DEF Record, ComesDue, FreshIsUntried
  <2> QED BY <1>a, <2>1, <2>2 DEF Holds
<1>2. ASSUME NEW w \in Worker, NEW rows \in SUBSET Callback, Claim(w, rows)
      PROVE  OnlyCutIsStranded'
  <2> SUFFICES ASSUME NEW c \in Callback, status'[c] \in Pending, attempts'[c] = MaxAttempts,
                      c \notin cut
               PROVE  \E v \in Worker : Holds(v, c)' /\ tries'[v][c] + 1 = MaxAttempts
    BY <1>2 DEF Claim, OnlyCutIsStranded
  <2>1. CASE c \in rows
    <3>1. Holds(w, c)' /\ tries'[w][c] = attempts[c]
      BY <1>2, <2>1 DEF Claim, Holds
    <3>2. attempts'[c] = attempts[c] + 1
      BY <1>2, <2>1 DEF Claim
    <3> QED BY <3>1, <3>2
  <2>2. CASE c \notin rows
    <3>1. attempts[c] = MaxAttempts /\ status[c] \in Pending
      BY <1>2, <2>2 DEF Claim
    <3>2. PICK v \in Worker : Holds(v, c) /\ tries[v][c] + 1 = MaxAttempts
      BY <3>1 DEF OnlyCutIsStranded
    <3>3. v # w
      BY <1>2, <3>2 DEF Claim, Holds, IdleIsEmpty, OneInHand, InHand
    <3>4. Holds(v, c)' /\ tries'[v] = tries[v]
      BY <1>2, <3>2, <3>3 DEF Claim, Holds
    <3> QED BY <3>2, <3>4
  <2> QED BY <2>1, <2>2
<1>3. ASSUME NEW w \in Worker, NEW c \in Callback, Busy(w, c) \/ Start(w, c)
      PROVE  OnlyCutIsStranded'
  <2>1. \A v \in Worker, d \in Callback : Holds(v, d) => Holds(v, d)'
    <3> SUFFICES ASSUME NEW v \in Worker, NEW d \in Callback, Holds(v, d) PROVE Holds(v, d)'
      OBVIOUS
    <3>1. current[w] = None /\ c \in batch[w]
      BY <1>3 DEF Busy, Start, OneInHand, InHand
    <3>2. /\ batch' = [batch EXCEPT ![w] = batch[w] \ {c}]
          /\ current' = [current EXCEPT ![w] = c]
      BY <1>3 DEF Busy, Start
    <3>3. CASE v = w
      BY <3>1, <3>2, <3>3 DEF Holds
    <3>4. CASE v # w
      BY <3>2, <3>4 DEF Holds
    <3> QED BY <3>3, <3>4
  <2>2. UNCHANGED <<status, attempts, tries, cut>>
    BY <1>3 DEF Busy, Start
  <2> QED BY <1>a, <2>1, <2>2
<1>4. ASSUME NEW w \in Worker, SettleReturns(w) \/ SettleThrows(w) \/ MarkThrows(w)
      PROVE  OnlyCutIsStranded'
  BY <1>4, <1>a DEF SettleReturns, SettleThrows, MarkThrows, Holds
\* On to the next row: the one in hand has an outcome, or it was no last try.
<1>n. ASSUME NEW w \in Worker, NextRow(w), UNCHANGED <<attempts, cut>>,
             \A c \in Callback : status'[c] \in Pending => status[c] \in Pending,
             ~LastTry(w) \/ status'[current[w]] \notin Pending
      PROVE  OnlyCutIsStranded'
  <2>1. \A v \in Worker, c \in Callback :
          LastTryOf(v, c) /\ status'[c] \in Pending => Holds(v, c)'
    <3> SUFFICES ASSUME NEW v \in Worker, NEW c \in Callback, LastTryOf(v, c),
                        status'[c] \in Pending
                 PROVE  Holds(v, c)'
      OBVIOUS
    <3>1. CASE v = w
      <4>1. current[w] # c
        BY <1>n, <3>1 DEF LastTry
      <4> QED BY <1>n, <3>1, <4>1 DEF NextRow, Holds
    <3>2. CASE v # w
      BY <1>n, <3>2 DEF NextRow, Holds
    <3> QED BY <3>1, <3>2
  <2>2. tries' = tries
    BY <1>n DEF NextRow
  <2> QED BY <1>a, <1>n, <2>1, <2>2
<1>5. ASSUME NEW w \in Worker, MarkProcessed(w) PROVE OnlyCutIsStranded'
  <2>1. current[w] \in Callback
    BY <1>5 DEF MarkProcessed, OneInHand, InHand
  <2>2. status' = [status EXCEPT ![current[w]] = "PROCESSED"]
    BY <1>5 DEF MarkProcessed
  <2>3. /\ \A c \in Callback : status'[c] \in Pending => status[c] \in Pending
        /\ status'[current[w]] \notin Pending
    BY <2>1, <2>2
  <2> QED BY <1>5, <1>n, <2>3 DEF MarkProcessed
<1>6. ASSUME NEW w \in Worker, Retry(w) PROVE OnlyCutIsStranded'
  <2>1. \A c \in Callback : status'[c] \in Pending => status[c] \in Pending
    BY <1>6 DEF Retry
  <2> QED BY <1>6, <1>n, <2>1 DEF Retry
<1>7. ASSUME NEW w \in Worker, Alert(w) PROVE OnlyCutIsStranded'
  <2>1. status[current[w]] \notin Pending /\ status' = status
    BY <1>7 DEF Alert, DeadInHand
  <2> QED BY <1>7, <1>n, <2>1 DEF Alert
<1>8. ASSUME NEW w \in Worker, GiveUp(w) PROVE OnlyCutIsStranded'
  <2>1. \A c \in Callback : status'[c] \in Pending => status[c] \in Pending
    BY <1>8 DEF GiveUp
  <2> QED BY <1>8, <1>a, <2>1 DEF GiveUp, Holds
<1>9. ASSUME NEW w \in Worker, FailureThrows(w) \/ Crash(w) PROVE OnlyCutIsStranded'
  <2>1. Drops(w)
    BY <1>9 DEF FailureThrows, Crash
  <2>2. \A v \in Worker, c \in Callback : LastTryOf(v, c) => Holds(v, c)' \/ c \in cut'
    BY <2>1 DEF Drops, Holds
  <2> QED BY <1>a, <2>1, <2>2 DEF Drops
<1>10. ASSUME NEW b \in Bill, LockLapses(b) PROVE OnlyCutIsStranded'
  BY <1>10, <1>a DEF LockLapses, Holds
<1>11. CASE UNCHANGED vars
  BY <1>11, <1>a DEF vars, Holds
<1> QED BY <1>1, <1>2, <1>3, <1>4, <1>5, <1>6, <1>7, <1>8, <1>9, <1>10, <1>11
        DEF Next, WorkerStep

\* A row can be left PROCESSING with no try and no outcome only if its last try
\* was cut off: every other try ends PROCESSED, RECEIVED with tries left, or DEAD.
THEOREM StrandedOnlyIfCut == Spec => []OnlyCutIsStranded
<1>1. IInv /\ StrandInv /\ [Next]_vars => StrandInv'
  BY IdleStep, DeadInHandStep, FreshStep, StrandedStep DEF IInv, StrandInv
<1>2. StrandInv => OnlyCutIsStranded
  BY DEF StrandInv
<1> QED BY Invariance, StrandInit, <1>1, <1>2, PTL DEF Spec

-----------------------------------------------------------------------------
(* The inbox implements the durable queue *)

LEMMA MapInit == Init => Abstract!Init
  BY BillOfType DEF Init, Abstract!Init, WorkState, WorkEffect

\* Steps that leave each row in its abstract state and the answers alone.
LEMMA MapStutter ==
  ASSUME TypeOK,
         UNCHANGED answered,
         \A c \in Callback : \/ status'[c] = status[c]
                             \/ status[c] \in Pending /\ status'[c] \in Pending
  PROVE  UNCHANGED <<WorkState, WorkEffect>>
<1>1. WorkEffect' = WorkEffect
  BY DEF WorkEffect
<1>2. WorkState' = WorkState
  BY DEF WorkState
<1> QED BY <1>1, <1>2

\* A settlement that commits performs the work of every callback of its bill.
LEMMA MapAnswer ==
  ASSUME TypeOK, NEW d \in Callback, status[d] # "absent", UNCHANGED status,
         answered' = [answered EXCEPT ![BillOf[d]] = TRUE]
  PROVE  Abstract!Next
<1> DEFINE I == {c \in Callback : BillOf[c] = BillOf[d]}
<1>1. WorkState[d] \in {"owed", "dead", "done"}
  BY DEF WorkState, TypeOK
<1>2. WorkState' = WorkState
  BY DEF WorkState
<1>3. WorkEffect' = [c \in Callback |-> WorkEffect[c] \/ c \in I]
  <2>1. \A c \in Callback : answered'[BillOf[c]] = (answered[BillOf[c]] \/ c \in I)
    <3> TAKE c \in Callback
    <3>1. BillOf[c] \in Bill /\ BillOf[d] \in Bill /\ answered \in [Bill -> BOOLEAN]
      BY BillOfType DEF TypeOK
    <3>2. CASE BillOf[c] = BillOf[d]
      BY <3>1, <3>2
    <3>3. CASE BillOf[c] # BillOf[d]
      BY <3>1, <3>3
    <3> QED BY <3>2, <3>3
  <2>2. \A c \in Callback : WorkEffect[c] = answered[BillOf[c]]
    BY DEF WorkEffect
  <2>3. WorkEffect' = [c \in Callback |-> answered'[BillOf[c]]]
    BY DEF WorkEffect
  <2>4. \A c \in Callback : answered'[BillOf[c]] = (WorkEffect[c] \/ c \in I)
    <3> TAKE c \in Callback
    <3>1. answered[BillOf[c]] \in BOOLEAN /\ answered'[BillOf[c]] \in BOOLEAN
      BY BillOfType DEF TypeOK
    <3> HIDE DEF I
    <3> QED BY <2>1, <2>2, <3>1
  <2> HIDE DEF I
  <2> QED BY <2>3, <2>4, Zenon
<1>4. I \in SUBSET Callback /\ d \in I
  OBVIOUS
<1>5. Abstract!Perform(I)
  BY <1>1, <1>2, <1>3, <1>4 DEF Abstract!Perform
<1> QED BY <1>4, <1>5 DEF Abstract!Next

LEMMA MapStep ==
  IInv /\ [Next]_vars => [Abstract!Next]_<<WorkState, WorkEffect>>
<1> SUFFICES ASSUME IInv, [Next]_vars
             PROVE  Abstract!Next \/ UNCHANGED <<WorkState, WorkEffect>>
  OBVIOUS
<1>a. /\ TypeOK /\ OneInHand /\ HeldIsCounted /\ SettledIsAnswered
  BY DEF IInv
<1>h. ASSUME NEW w \in Worker, phase[w] \in InHand
      PROVE  current[w] \in Callback /\ status[current[w]] # "absent"
  BY <1>a, <1>h DEF TypeOK, OneInHand, HeldIsCounted, Holds
<1>1. ASSUME NEW c \in Callback, Record(c) PROVE Abstract!Accept(c)
  <2>1. WorkState[c] = "absent"
    BY <1>1 DEF Record, WorkState
  <2>2. WorkState' = [WorkState EXCEPT ![c] = "owed"]
    BY <1>1, <1>a DEF Record, WorkState, TypeOK
  <2>3. WorkEffect' = WorkEffect
    BY <1>1 DEF Record, WorkEffect
  <2> QED BY <2>1, <2>2, <2>3 DEF Abstract!Accept
<1>2. ASSUME NEW c \in Callback, ComesDue(c) PROVE UNCHANGED <<WorkState, WorkEffect>>
  BY <1>2, <1>a, MapStutter DEF ComesDue
<1>3. ASSUME NEW w \in Worker, NEW rows \in SUBSET Callback, Claim(w, rows)
      PROVE  UNCHANGED <<WorkState, WorkEffect>>
  BY <1>3, <1>a, MapStutter DEF Claim, Claimable
<1>4. ASSUME NEW w \in Worker, SettleReturns(w) PROVE Abstract!Next
  <2>1. phase[w] \in InHand
    BY <1>4 DEF SettleReturns, InHand
  <2> QED BY <1>4, <1>a, <1>h, <2>1, MapAnswer DEF SettleReturns
<1>5. ASSUME NEW w \in Worker, SettleThrows(w)
      PROVE  Abstract!Next \/ UNCHANGED <<WorkState, WorkEffect>>
  <2>1. phase[w] \in InHand
    BY <1>5 DEF SettleThrows, InHand
  <2>2. current[w] \in Callback /\ status[current[w]] # "absent"
    BY <1>h, <2>1
  <2>3. BillOf[current[w]] \in Bill /\ answered \in [Bill -> BOOLEAN]
    BY <1>a, <2>2, BillOfType DEF TypeOK
  <2>4. \/ answered' = [answered EXCEPT ![BillOf[current[w]]] = TRUE]
        \/ answered' = answered
    BY <1>5, <2>3 DEF SettleThrows
  <2>5. UNCHANGED status
    BY <1>5 DEF SettleThrows
  <2> QED BY <1>a, <2>2, <2>4, <2>5, MapAnswer, MapStutter
<1>6. ASSUME NEW w \in Worker, MarkProcessed(w)
      PROVE  Abstract!Next \/ UNCHANGED <<WorkState, WorkEffect>>
  <2> DEFINE c == current[w]
  <2>1. c \in Callback /\ status[c] # "absent"
    BY <1>6, <1>h DEF MarkProcessed, InHand
  <2>2. WorkEffect[c] = TRUE
    BY <1>6, <1>a, <2>1, BillOfType DEF MarkProcessed, SettledIsAnswered, WorkEffect, TypeOK
  <2>3. WorkEffect' = WorkEffect
    BY <1>6 DEF MarkProcessed, WorkEffect
  <2>4. status' = [status EXCEPT ![c] = "PROCESSED"]
    BY <1>6 DEF MarkProcessed
  <2>5. CASE status[c] = "PROCESSED"
    BY <1>a, <1>6, <2>1, <2>4, <2>5, MapStutter DEF MarkProcessed, TypeOK
  <2>6. CASE status[c] # "PROCESSED"
    <3>1. WorkState[c] \in {"owed", "dead"}
      BY <1>a, <2>1, <2>6 DEF TypeOK, WorkState
    <3>2. WorkState' = [WorkState EXCEPT ![c] = "done"]
      BY <1>a, <2>1, <2>4 DEF TypeOK, WorkState
    <3>3. Abstract!Finish(c)
      BY <2>2, <2>3, <3>1, <3>2 DEF Abstract!Finish
    <3> QED BY <2>1, <3>3 DEF Abstract!Next
  <2> QED BY <2>5, <2>6
<1>7. ASSUME NEW w \in Worker, GiveUp(w)
      PROVE  Abstract!Next \/ UNCHANGED <<WorkState, WorkEffect>>
  <2> DEFINE c == current[w]
  <2>1. c \in Callback /\ status[c] # "absent" /\ status[c] # "PROCESSED"
    BY <1>7, <1>h DEF GiveUp, InHand
  <2>2. status' = [status EXCEPT ![c] = "DEAD"] /\ UNCHANGED answered
    BY <1>7 DEF GiveUp
  <2>3. CASE status[c] = "DEAD"
    BY <1>a, <2>1, <2>2, <2>3, MapStutter DEF TypeOK
  <2>4. CASE status[c] # "DEAD"
    <3>1. WorkState[c] = "owed"
      BY <1>a, <2>1, <2>4 DEF TypeOK, WorkState
    <3>2. WorkState' = [WorkState EXCEPT ![c] = "dead"]
      BY <1>a, <2>1, <2>2 DEF TypeOK, WorkState
    <3>3. WorkEffect' = WorkEffect
      BY <2>2 DEF WorkEffect
    <3>4. Abstract!GiveUp(c)
      BY <3>1, <3>2, <3>3 DEF Abstract!GiveUp
    <3> QED BY <2>1, <3>4 DEF Abstract!Next
  <2> QED BY <2>3, <2>4
<1>8. ASSUME NEW w \in Worker, Retry(w) PROVE UNCHANGED <<WorkState, WorkEffect>>
  BY <1>8, <1>a, MapStutter DEF Retry, TypeOK
<1>9. ASSUME NEW w \in Worker, MarkThrows(w) \/ FailureThrows(w) \/ Alert(w) \/ Crash(w)
      PROVE  UNCHANGED <<WorkState, WorkEffect>>
  BY <1>9, <1>a, MapStutter DEF MarkThrows, FailureThrows, Alert, Crash, Drops
<1>10. ASSUME NEW w \in Worker, NEW c \in Callback, Busy(w, c) \/ Start(w, c)
       PROVE  UNCHANGED <<WorkState, WorkEffect>>
  BY <1>10, <1>a, MapStutter DEF Busy, Start
<1>11. ASSUME NEW b \in Bill, LockLapses(b) PROVE UNCHANGED <<WorkState, WorkEffect>>
  BY <1>11, <1>a, MapStutter DEF LockLapses
<1>12. CASE UNCHANGED vars
  BY <1>12, <1>a, MapStutter DEF vars
<1>13. ASSUME NEW c \in Callback, Record(c) PROVE Abstract!Next
  BY <1>1, <1>13 DEF Abstract!Next
<1> QED BY <1>2, <1>3, <1>4, <1>5, <1>6, <1>7, <1>8, <1>9, <1>10, <1>11, <1>12, <1>13
        DEF Next, WorkerStep

\* The inbox is a durable queue: verified callbacks are never forgotten, are
\* done only once their bill is answered, and otherwise stay for a person.
THEOREM Refinement == Spec => ImplementsDurableWork
  BY Invariance, MapInit, MapStep, PTL DEF Spec, ImplementsDurableWork, Abstract!Spec

=============================================================================

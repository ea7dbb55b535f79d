--------------------------- MODULE CallbackInbox ---------------------------
(***************************************************************************)
(* The inbox of verified provider callbacks and the workers that settle    *)
(* them: a leased claim of a batch, an advisory lock per bill, retries     *)
(* with back-off and a dead letter.  A worker works through its batch one  *)
(* row at a time and may die anywhere; a lease or a lock may lapse under a *)
(* worker that is merely slow.                                             *)
(***************************************************************************)
EXTENDS Naturals, FiniteSets

CONSTANTS Callback,      \* dedupe keys of verified FINAL callbacks
          Bill,
          BillOf,        \* the bill a callback is about
          Worker,
          MaxAttempts,   \* 10 in the code
          BatchSize,     \* 20 in the code
          None

ASSUME BillOfType == BillOf \in [Callback -> Bill]
ASSUME BoundsType == MaxAttempts \in Nat \ {0} /\ BatchSize \in Nat \ {0}
ASSUME NoneIsNew == None \notin Callback \cup Worker

VARIABLES
  status,    \* psp_callback_inbox.status of the row, "absent" before it
  attempts,
  due,       \* nextAttemptAt has passed
  batch,     \* rows a worker has claimed and not yet taken up
  current,   \* the row it is working on
  tries,     \* attempts of each row as read by its claim, per worker
  phase,     \* where in drain() the worker is
  lock,      \* holder of the Redis lock of a bill
  answered,  \* settleVerifiedConfirmation has committed for the bill
  alerted,   \* a person was told that the row is dead
  cut        \* history: rows whose last permitted try ended with nothing recorded

vars == <<status, attempts, due, batch, current, tries, phase, lock, answered, alerted, cut>>
rowVars == <<status, attempts, due>>
workerVars == <<batch, current, tries, phase>>

Pending == {"RECEIVED", "PROCESSING"}
Phases  == {"idle", "claimed", "settling", "settled", "failed", "dead"}

TypeOK ==
  /\ status \in [Callback -> Pending \cup {"absent", "PROCESSED", "DEAD"}]
  /\ attempts \in [Callback -> 0..MaxAttempts]
  /\ due \in [Callback -> BOOLEAN]
  /\ batch \in [Worker -> SUBSET Callback]
  /\ current \in [Worker -> Callback \cup {None}]
  /\ tries \in [Worker -> [Callback -> 0..MaxAttempts]]
  /\ phase \in [Worker -> Phases]
  /\ lock \in [Bill -> Worker \cup {None}]
  /\ answered \in [Bill -> BOOLEAN]
  /\ alerted \in [Callback -> BOOLEAN]
  /\ cut \subseteq Callback

Init ==
  /\ status = [c \in Callback |-> "absent"]
  /\ attempts = [c \in Callback |-> 0]
  /\ due = [c \in Callback |-> FALSE]
  /\ batch = [w \in Worker |-> {}]
  /\ current = [w \in Worker |-> None]
  /\ tries = [w \in Worker |-> [c \in Callback |-> 0]]
  /\ phase = [w \in Worker |-> "idle"]
  /\ lock = [b \in Bill |-> None]
  /\ answered = [b \in Bill |-> FALSE]
  /\ alerted = [c \in Callback |-> FALSE]
  /\ cut = {}

\* record: a duplicate collides with its row and changes nothing.
Record(c) ==
  /\ status[c] = "absent"
  /\ status' = [status EXCEPT ![c] = "RECEIVED"]
  /\ due' = [due EXCEPT ![c] = TRUE]
  /\ UNCHANGED <<attempts, workerVars, lock, answered, alerted, cut>>

\* A back-off ends, or a lease lapses, its holder dead or merely slow.
ComesDue(c) ==
  /\ status[c] \in Pending /\ ~due[c]
  /\ due' = [due EXCEPT ![c] = TRUE]
  /\ UNCHANGED <<status, attempts, workerVars, lock, answered, alerted, cut>>

-----------------------------------------------------------------------------
(* drain *)

\* Mutant: no limit to the tries.
Mutant_NoTryLimit(c) == status[c] \in Pending /\ due[c] /\ attempts[c] <= MaxAttempts

Claimable(c) == status[c] \in Pending /\ due[c] /\ attempts[c] < MaxAttempts

\* FOR UPDATE SKIP LOCKED, the try spent and the lease taken in one
\* transaction.  Which rows a claim gets depends on what others have locked.
Claim(w, rows) ==
  /\ phase[w] = "idle"
  /\ rows # {} /\ Cardinality(rows) <= BatchSize
  /\ \A c \in rows : Claimable(c)
  /\ status' = [c \in Callback |-> IF c \in rows THEN "PROCESSING" ELSE status[c]]
  /\ attempts' = [c \in Callback |-> IF c \in rows THEN attempts[c] + 1 ELSE attempts[c]]
  /\ due' = [c \in Callback |-> due[c] /\ c \notin rows]
  /\ batch' = [batch EXCEPT ![w] = rows]
  /\ tries' = [tries EXCEPT ![w] =
                 [c \in Callback |-> IF c \in rows THEN attempts[c] ELSE @[c]]]
  /\ phase' = [phase EXCEPT ![w] = "claimed"]
  /\ UNCHANGED <<current, lock, answered, alerted, cut>>

\* settle, withLock: "being settled by another worker" is thrown, or Redis does
\* not answer.
Busy(w, c) ==
  /\ phase[w] = "claimed" /\ c \in batch[w]
  /\ batch' = [batch EXCEPT ![w] = @ \ {c}]
  /\ current' = [current EXCEPT ![w] = c]
  /\ phase' = [phase EXCEPT ![w] = "failed"]
  /\ UNCHANGED <<rowVars, tries, lock, answered, alerted, cut>>

Start(w, c) ==
  /\ phase[w] = "claimed" /\ c \in batch[w]
  /\ lock[BillOf[c]] = None
  /\ lock' = [lock EXCEPT ![BillOf[c]] = w]
  /\ batch' = [batch EXCEPT ![w] = @ \ {c}]
  /\ current' = [current EXCEPT ![w] = c]
  /\ phase' = [phase EXCEPT ![w] = "settling"]
  /\ UNCHANGED <<rowVars, tries, answered, alerted, cut>>

\* The finally block: release the lock only if it is still one's own.  A
\* failed release leaves it to its TTL.
Release(w, b) ==
  \/ lock' = [lock EXCEPT ![b] = IF @ = w THEN None ELSE @]
  \/ UNCHANGED lock

\* The settlement commits, or finds itself already done.
SettleReturns(w) ==
  LET b == BillOf[current[w]] IN
  /\ phase[w] = "settling"
  /\ answered' = [answered EXCEPT ![b] = TRUE]
  /\ Release(w, b)
  /\ phase' = [phase EXCEPT ![w] = "settled"]
  /\ UNCHANGED <<rowVars, batch, current, tries, alerted, cut>>

\* It throws, possibly with only the answer to its COMMIT lost.
SettleThrows(w) ==
  LET b == BillOf[current[w]] IN
  /\ phase[w] = "settling"
  /\ \E committed \in BOOLEAN :
       answered' = [answered EXCEPT ![b] = @ \/ committed]
  /\ Release(w, b)
  /\ phase' = [phase EXCEPT ![w] = "failed"]
  /\ UNCHANGED <<rowVars, batch, current, tries, alerted, cut>>

\* Mutant: a drain settles one row and leaves the rest of its batch to the next.
Mutant_OneRowPerTick(w) ==
  /\ current' = [current EXCEPT ![w] = None]
  /\ phase' = [phase EXCEPT ![w] = "idle"]
  /\ batch' = [batch EXCEPT ![w] = {}]
  /\ UNCHANGED tries

\* The row is finished with; on to the rest of the batch.
NextRow(w) ==
  /\ current' = [current EXCEPT ![w] = None]
  /\ phase' = [phase EXCEPT ![w] = IF batch[w] = {} THEN "idle" ELSE "claimed"]
  /\ UNCHANGED <<batch, tries>>

\* An update by id alone, whatever has become of the row.
MarkProcessed(w) ==
  /\ phase[w] = "settled"
  /\ status' = [status EXCEPT ![current[w]] = "PROCESSED"]
  /\ NextRow(w)
  /\ UNCHANGED <<attempts, due, lock, answered, alerted, cut>>

MarkThrows(w) ==
  /\ phase[w] = "settled"
  /\ phase' = [phase EXCEPT ![w] = "failed"]
  /\ UNCHANGED <<rowVars, batch, current, tries, lock, answered, alerted, cut>>

LastTry(w) == tries[w][current[w]] + 1 >= MaxAttempts

\* recordFailure with tries left.  The CHECK on pendingKey refuses the update
\* once the row is DEAD, the immutability trigger once it is PROCESSED.
Retry(w) ==
  /\ phase[w] = "failed" /\ ~LastTry(w)
  /\ status[current[w]] \in Pending
  /\ status' = [status EXCEPT ![current[w]] = "RECEIVED"]
  /\ due' = [due EXCEPT ![current[w]] = FALSE]
  /\ NextRow(w)
  /\ UNCHANGED <<attempts, lock, answered, alerted, cut>>

\* Mutant: a row nobody can settle is cleared away.
Mutant_ClearsTheQueue(w) ==
  /\ phase[w] = "failed" /\ LastTry(w)
  /\ status' = [status EXCEPT ![current[w]] = "PROCESSED"]
  /\ phase' = [phase EXCEPT ![w] = "dead"]
  /\ UNCHANGED <<attempts, due, batch, current, tries, lock, answered, alerted, cut>>

GiveUp(w) ==
  /\ phase[w] = "failed" /\ LastTry(w)
  /\ status[current[w]] # "PROCESSED"
  /\ status' = [status EXCEPT ![current[w]] = "DEAD"]
  /\ phase' = [phase EXCEPT ![w] = "dead"]
  /\ UNCHANGED <<attempts, due, batch, current, tries, lock, answered, alerted, cut>>

Holds(w, c) == c \in batch[w] \/ current[w] = c

\* Everything the worker holds is dropped, its tries counted and their outcome
\* unrecorded: the row in hand and the rest of the batch alike.
Drops(w) ==
  /\ cut' = cut \cup {c \in Callback : Holds(w, c) /\ tries[w][c] + 1 >= MaxAttempts}
  /\ batch' = [batch EXCEPT ![w] = {}]
  /\ current' = [current EXCEPT ![w] = None]
  /\ phase' = [phase EXCEPT ![w] = "idle"]
  /\ UNCHANGED <<rowVars, tries, lock, answered, alerted>>

\* The update is refused by the CHECK or the trigger, or the database is away:
\* it throws out of drain(), whose worker lives on.
FailureThrows(w) == phase[w] = "failed" /\ Drops(w)

Alert(w) ==
  /\ phase[w] = "dead"
  /\ alerted' = [alerted EXCEPT ![current[w]] = TRUE]
  /\ NextRow(w)
  /\ UNCHANGED <<rowVars, lock, answered, cut>>

\* The process dies.  Its claims, and its lock, outlive it.  So it is when the
\* claim commits and its answer is lost, or when the alert throws.
Crash(w) == phase[w] # "idle" /\ Drops(w)

\* BILL_LOCK_TTL_MS is over, whoever holds the lock.
LockLapses(b) ==
  /\ lock[b] # None
  /\ lock' = [lock EXCEPT ![b] = None]
  /\ UNCHANGED <<rowVars, workerVars, answered, alerted, cut>>

-----------------------------------------------------------------------------
WorkerStep(w) ==
  \/ \E c \in Callback : Busy(w, c) \/ Start(w, c)
  \/ SettleReturns(w) \/ SettleThrows(w)
  \/ MarkProcessed(w) \/ MarkThrows(w)
  \/ Retry(w) \/ GiveUp(w) \/ FailureThrows(w) \/ Alert(w)

Next ==
  \/ \E c \in Callback : Record(c) \/ ComesDue(c)
  \/ \E w \in Worker : \/ \E rows \in SUBSET Callback : Claim(w, rows)
                       \/ WorkerStep(w) \/ Crash(w)
  \/ \E b \in Bill : LockLapses(b)

Spec == Init /\ [][Next]_vars

\* Time passes, the sweep's tick comes every five seconds, and a worker that
\* is not dead gets on with its batch.
Fairness ==
  /\ \A c \in Callback : WF_vars(ComesDue(c))
  /\ \A w \in Worker : /\ WF_vars(\E rows \in SUBSET Callback : Claim(w, rows))
                       /\ WF_vars(WorkerStep(w))

FairSpec == Spec /\ Fairness

-----------------------------------------------------------------------------
(* Safety *)

\* A callback marked PROCESSED has had its effect: no crash, lapsed lease or
\* busy lock turns "somebody is on it" into "done".
DoneMeansSettled ==
  \A c \in Callback : status[c] = "PROCESSED" => answered[BillOf[c]]

\* Every claim spends a try of its own: workers that share a row because a
\* lease lapsed read different attempts, so a poisonous row cannot spin.
EveryClaimSpendsATry ==
  \A v, w \in Worker, c \in Callback :
    Holds(v, c) /\ Holds(w, c) /\ v # w => tries[v][c] # tries[w][c]

\* Nobody gives up on a payment before every try was used.
DeadMeansExhausted ==
  \A c \in Callback : status[c] = "DEAD" => attempts[c] = MaxAttempts

\* The exception of EveryCallbackEnds is no wider than it says: a row with no
\* try left and no outcome is in the hands of the worker that took its last
\* try, or that try was cut off.
OnlyCutIsStranded ==
  \A c \in Callback :
    status[c] \in Pending /\ attempts[c] = MaxAttempts =>
      c \in cut \/ \E w \in Worker : Holds(w, c) /\ tries[w][c] + 1 = MaxAttempts

\* A late worker's failure never reopens what another finished or gave up on.
TerminalIsNeverReopened ==
  [][\A c \in Callback :
       /\ status[c] = "PROCESSED" => status'[c] = "PROCESSED"
       /\ status[c] = "DEAD" => status'[c] \in {"DEAD", "PROCESSED"}]_vars

\* The inbox as a durable queue.
WorkState ==
  [c \in Callback |-> CASE status[c] \in Pending     -> "owed"
                       [] status[c] = "PROCESSED"   -> "done"
                       [] status[c] = "DEAD"        -> "dead"
                       [] OTHER                     -> "absent"]
WorkEffect == [c \in Callback |-> answered[BillOf[c]]]
Abstract == INSTANCE DurableWork WITH
              Item <- Callback, state <- WorkState, effect <- WorkEffect
ImplementsDurableWork == Abstract!Spec

(* Liveness *)

\* A recorded callback is settled or declared dead, whatever its tries met: a
\* busy or lapsed lock, a lapsed lease, a throw, a worker's death, a batch that
\* another row's failure dropped.  Except one thing, which strands it
\* (NeverStranded): that its last permitted try, of however many that had
\* failed in whatever way, was cut off, its worker dead or recordFailure thrown.
EveryCallbackEnds ==
  \A c \in Callback :
    status[c] \in Pending ~> status[c] \in {"PROCESSED", "DEAD"} \/ c \in cut

-----------------------------------------------------------------------------
\* "the lease makes the row reclaimable once it lapses rather than stranded
\* for ever": the comment on the claim.
NeverStranded ==
  \A c \in Callback : status[c] \in Pending ~> status[c] \in {"PROCESSED", "DEAD"}

\* "Never silently dropped: the row stays, and somebody is told": the comment on
\* the dead letter.
DeadIsTold ==
  \A c \in Callback : status[c] = "DEAD" ~> alerted[c] \/ status[c] = "PROCESSED"
=============================================================================

--------------------------- MODULE InboundDelivery ---------------------------
(***************************************************************************)
(* The consumer delivery ledger inbound_email_event_deliveries             *)
(* (inboundEmailDurableStore.ts), the gate in front of the consumers       *)
(* (inboundEmailConsumerDedupe.ts, internalNotificationSubscriber.ts) and  *)
(* the sweeper that re-drives what was not delivered.                      *)
(*                                                                         *)
(* The module follows ONE outbox event: rows of different events share     *)
(* nothing.  Each consumer has a ledger row for the event.  The bus keeps  *)
(* stream entries of the event (publishes and forced re-publishes) and     *)
(* offers an entry to a consumer until its handler returns normally.  The  *)
(* bus hands an entry of a slow or dead process to another, so several     *)
(* handlers may work on one entry.                                         *)
(*                                                                         *)
(* A consumer in Tx reserves, produces its effect and marks 'delivered' in *)
(* one Postgres transaction: its row is locked or invisible to others from *)
(* the reservation to the commit, so the transaction is one step here.     *)
(* Every other consumer commits its reservation, produces an external      *)
(* effect and then completes or fails under its lease.                     *)
(***************************************************************************)
EXTENDS Integers, FiniteSets

CONSTANTS
  Consumer,       \* gated event consumers
  Audiences,      \* sets of consumers an event may be for, by its type
  Tx,             \* those that deliver in one transaction (internal notifications)
  Swallow,        \* those whose un-gated dispatch swallows an effect's error
  Handler,        \* concurrent handler invocations, over all processes
  Entry,          \* names of stream entries, reused once acknowledged everywhere
  Caps,           \* values of getDurableMaxAttempts() in force in some process
  MaxCrashes,     \* bound: handler crashes in a behaviour
  MaxSlow,        \* bound: reservations that run out under a running handler
  MaxOutages,     \* bound: ledger statements that fail
  MaxDisconnects, \* bound: handlers that cannot reach the tenant database
  MaxMishaps      \* bound: all four together

ASSUME ConsumerAssumption ==
  Tx \subseteq Consumer /\ Swallow \subseteq Consumer /\ Audiences \subseteq SUBSET Consumer
ASSUME CapsAssumption     == Caps \subseteq Nat \ {0} /\ Caps # {}
ASSUME BoundsAssumption   == {MaxCrashes, MaxSlow, MaxOutages, MaxDisconnects,
                             MaxMishaps} \subseteq Nat

VARIABLES
  audience,   \* the consumers that subscribe to the event's type
  row,        \* [Consumer -> ledger row of the event]
  open,       \* [Consumer -> entries the consumer has not acknowledged]
  forced,     \* entries published with force
  redrive,    \* a republish_outbox_event job is queued
  run,        \* [Handler -> location, consumer, entry, lease token, cap of its process]
  effects,    \* observer: times the consumer's effect happened
  failures,   \* observer: failed effects charged to the consumer's row
  excuses,    \* observer: expired reservations, effects reported failed or un-gated
  reached,    \* observer: consumers that have acknowledged an entry
  swallowed,  \* observer: consumers that have acknowledged a lost effect
  crashes, slow, outages, disconnects   \* counters for the bounds

bus       == <<audience, open, forced, redrive, reached>>
observers == <<effects, failures, excuses, swallowed>>
bounds    == <<crashes, slow, outages, disconnects>>
vars == <<audience, row, open, forced, redrive, reached, run, effects, failures, excuses,
          swallowed, crashes, slow, outages, disconnects>>

NULL == 0

TerminalStatuses == {"delivered", "terminal_failed"}
Statuses  == {"none", "delivering", "retryable_failed"} \cup TerminalStatuses
Holding   == {"effect", "complete", "fail"}
Locations == {"idle", "gate", "takeover", "retake", "deadletter", "unledgered",
              "bypass", "record"} \cup Holding

NoRow == [status |-> "none", attempts |-> 0, version |-> 0, token |-> NULL,
          expired |-> FALSE, due |-> TRUE]
Idle  == [pc |-> "idle", con |-> NULL, ent |-> NULL, held |-> NULL, cap |-> NULL]

Init ==
  /\ audience \in Audiences
  /\ row      = [c \in Consumer |-> NoRow]
  /\ open     = [c \in Consumer |-> {}]
  /\ forced   = {} /\ redrive = FALSE /\ reached = {}
  /\ run      = [h \in Handler |-> Idle]
  /\ effects  = [c \in Consumer |-> 0]
  /\ failures = [c \in Consumer |-> 0]
  /\ excuses  = [c \in Consumer |-> 0]
  /\ swallowed = {}
  /\ crashes = 0 /\ slow = 0 /\ outages = 0 /\ disconnects = 0

Mishap(n, bound) == n < bound /\ crashes + slow + outages + disconnects < MaxMishaps

Terminal(c) == row[c].status \in TerminalStatuses
At(h, l)    == run[h].pc = l
Goto(h, l)  == run' = [run EXCEPT ![h].pc = l]
Count(f, c) == [f EXCEPT ![c] = @ + 1]

-----------------------------------------------------------------------------
(* The bus, as the gate sees it.                                           *)

InUse == UNION {open[c] : c \in Consumer} \cup {run[h].ent : h \in Handler}

\* A publish puts an entry in front of every consumer.
Offer(e) ==
  /\ e \notin InUse
  /\ open' = [c \in Consumer |-> IF c \in audience THEN open[c] \cup {e} ELSE {}]

\* The outbox dispatcher publishes the event (again after a crash or a lost
\* reply: see InboundOutbox).
Publish(e) ==
  /\ Offer(e)
  /\ forced' = forced \ {e}
  /\ UNCHANGED <<audience, row, redrive, reached, run, observers, bounds>>

\* A handler returns normally: the bus acknowledges the entry.
Ack(h) ==
  LET r == run[h] IN
  /\ open'    = [open EXCEPT ![r.con] = @ \ {r.ent}]
  /\ reached' = reached \cup {r.con}
  /\ run'     = [run EXCEPT ![h] = Idle]

\* A handler throws: the entry stays pending and is delivered again.
Throw(h) == run' = [run EXCEPT ![h] = Idle] /\ UNCHANGED <<open, reached>>

\* The bus's processed sets drop an entry of an event a consumer has already
\* handled, unless the entry was published with force.
DropDuplicate(c, e) ==
  /\ e \in open[c] \ forced
  /\ c \in reached
  /\ open' = [open EXCEPT ![c] = @ \ {e}]
  /\ UNCHANGED <<audience, row, forced, redrive, reached, run, observers, bounds>>

\* The handler is invoked in a process whose cap is k; getConnection succeeds.
Start(h, c, e, k) ==
  /\ At(h, "idle")
  /\ e \in open[c]
  /\ run' = [run EXCEPT ![h] = [pc |-> "gate", con |-> c, ent |-> e, held |-> NULL, cap |-> k]]
  /\ UNCHANGED <<row, bus, observers, bounds>>

\* getConnection fails (for a transactional consumer also when
\* isInboundOutboxEvent fails): the event is dispatched without the ledger.
StartDisconnected(h, c, e) ==
  /\ At(h, "idle")
  /\ e \in open[c]
  /\ Mishap(disconnects, MaxDisconnects)
  /\ disconnects' = disconnects + 1
  /\ run' = [run EXCEPT ![h] = [pc |-> "bypass", con |-> c, ent |-> e, held |-> NULL, cap |-> NULL]]
  /\ UNCHANGED <<row, bus, observers, crashes, slow, outages>>

-----------------------------------------------------------------------------
(* Statements on a row.                                                    *)

\* A fresh lease: the INSERT has version 0, every reclaim the next one.
Lease(h, c, n, v) ==
  /\ row' = [row EXCEPT ![c] = [status |-> "delivering", attempts |-> n, version |-> v,
                                token |-> v + 1, expired |-> FALSE, due |-> TRUE]]
  /\ run' = [run EXCEPT ![h].pc = "effect", ![h].held = v + 1]

\* The WHERE clause of complete and fail.
Fenced(h) ==
  LET r == row[run[h].con] IN r.status = "delivering" /\ r.token = run[h].held

Finished(r, st) == [r EXCEPT !.status = st, !.token = NULL, !.expired = FALSE, !.due = TRUE]

\* Fault: the cap is compared before the attempt is counted, and one less is enough.
ChargedEarly(r, k) ==
  IF r.attempts + 2 >= k
  THEN Finished([r EXCEPT !.attempts = @ + 1], "terminal_failed")
  ELSE [Finished([r EXCEPT !.attempts = @ + 1], "retryable_failed") EXCEPT !.due = FALSE]

\* The patch of a failure: one more attempt, terminal at the cap k, else
\* retryable after a backoff; the lease is cleared either way.
Charged(r, k) ==
  IF r.attempts + 1 >= k
  THEN Finished([r EXCEPT !.attempts = @ + 1], "terminal_failed")
  ELSE [Finished([r EXCEPT !.attempts = @ + 1], "retryable_failed") EXCEPT !.due = FALSE]

\* deadletterInboundEventDelivery: guarded by the status alone.
Deadletter(c) ==
  row' = [row EXCEPT ![c] = IF @.status = "retryable_failed" THEN Finished(@, "terminal_failed") ELSE @]

-----------------------------------------------------------------------------
(* withInboundOutboxDelivery: reserve, effect, complete.                   *)

\* reserveInboundOutboxEventDelivery: INSERT ... ON CONFLICT DO NOTHING.
ReserveInsert(h) ==
  LET c == run[h].con IN
  /\ At(h, "gate") /\ c \notin Tx
  /\ row[c].status = "none"
  /\ Lease(h, c, 0, 0)
  /\ UNCHANGED <<bus, observers, bounds>>

\* The row exists: the SELECT decides what to try next.  Delivered, given up,
\* in progress or not due: the gate says skip and the entry is acknowledged.
ReserveSkip(h, k) ==
  LET r == row[run[h].con] IN
  /\ At(h, "gate") /\ run[h].con \notin Tx
  /\ \/ Terminal(run[h].con)
     \/ r.status = "delivering" /\ ~r.expired
     \/ r.status = "retryable_failed" /\ r.attempts < k /\ ~r.due
  /\ Ack(h)
  /\ UNCHANGED <<audience, row, forced, redrive, observers, bounds>>

ReserveLook(h, k) ==
  LET r == row[run[h].con] IN
  /\ At(h, "gate") /\ run[h].con \notin Tx
  /\ \/ r.status = "delivering" /\ r.expired /\ Goto(h, "takeover")
     \/ r.status = "retryable_failed" /\ r.attempts >= k /\ Goto(h, "deadletter")
     \/ r.status = "retryable_failed" /\ r.attempts < k /\ r.due /\ Goto(h, "retake")
  /\ UNCHANGED <<row, bus, observers, bounds>>

\* Fault: a reservation is taken over whether or not its lease has run out.
ExpiredReservationAny(r) == r.status = "delivering"

\* The WHERE clauses of the two reclaiming UPDATEs.
ExpiredReservation(r) == r.status = "delivering" /\ r.expired
DueRetry(r, k) == r.status = "retryable_failed" /\ r.attempts < k /\ r.due

\* The expired reservation of a crashed handler: same attempt count.
Takeover(h) ==
  LET c == run[h].con IN
  /\ At(h, "takeover")
  /\ ExpiredReservation(row[c])
  /\ Lease(h, c, row[c].attempts, row[c].version + 1)
  /\ UNCHANGED <<bus, observers, bounds>>

\* A failed delivery that is due: one more attempt.
Retake(h, k) ==
  LET c == run[h].con IN
  /\ At(h, "retake")
  /\ DueRetry(row[c], k)
  /\ Lease(h, c, row[c].attempts + 1, row[c].version + 1)
  /\ UNCHANGED <<bus, observers, bounds>>

\* The row changed between SELECT and UPDATE: 'in_progress', skip.
ReserveRace(h, k) ==
  /\ \/ At(h, "takeover") /\ ~ExpiredReservation(row[run[h].con])
     \/ At(h, "retake") /\ ~DueRetry(row[run[h].con], k)
  /\ Ack(h)
  /\ UNCHANGED <<audience, row, forced, redrive, observers, bounds>>

ReserveDeadletter(h) ==
  /\ At(h, "deadletter")
  /\ Deadletter(run[h].con)
  /\ Ack(h)
  /\ UNCHANGED <<audience, forced, redrive, observers, bounds>>

\* The effect (a mail, a webhook POST, an index update) happens.
Effect(h) ==
  /\ At(h, "effect")
  /\ effects' = Count(effects, run[h].con)
  /\ Goto(h, "complete")
  /\ UNCHANGED <<row, bus, failures, excuses, swallowed, bounds>>

\* The effect throws; the outside world may have seen it all the same.
EffectThrows(h) ==
  LET c == run[h].con IN
  /\ At(h, "effect")
  /\ \/ UNCHANGED <<effects, excuses>>
     \/ effects' = Count(effects, c) /\ excuses' = Count(excuses, c)
  /\ Goto(h, "fail")
  /\ UNCHANGED <<row, bus, failures, swallowed, bounds>>

\* completeInboundOutboxEventDelivery; the result is not looked at.
Complete(h) ==
  /\ At(h, "complete")
  /\ row' = [row EXCEPT ![run[h].con] = IF Fenced(h) THEN Finished(@, "delivered") ELSE @]
  /\ Ack(h)
  /\ UNCHANGED <<audience, forced, redrive, observers, bounds>>

\* The completion UPDATE fails: the catch block charges a failure although the
\* effect has happened.
CompleteError(h) ==
  /\ At(h, "complete")
  /\ Mishap(outages, MaxOutages)
  /\ outages' = outages + 1
  /\ excuses' = Count(excuses, run[h].con)
  /\ Goto(h, "fail")
  /\ UNCHANGED <<row, bus, effects, failures, swallowed, crashes, slow, disconnects>>

\* failInboundOutboxEventDelivery; a superseded handler records nothing.
Fail(h, k) ==
  LET c == run[h].con IN
  /\ At(h, "fail")
  /\ row'      = [row EXCEPT ![c] = IF Fenced(h) THEN Charged(@, k) ELSE @]
  /\ failures' = IF Fenced(h) THEN Count(failures, c) ELSE failures
  /\ Ack(h)
  /\ UNCHANGED <<audience, forced, redrive, effects, excuses, swallowed, bounds>>

\* Fault: an unrecorded failure is acknowledged like a recorded one.
FailErrorAck(h) ==
  /\ At(h, "fail") \/ At(h, "record")
  /\ Mishap(outages, MaxOutages)
  /\ outages' = outages + 1
  /\ Ack(h)
  /\ UNCHANGED <<audience, row, forced, redrive, observers, crashes, slow, disconnects>>

\* The failure cannot be recorded: rethrown, so the bus delivers again.
FailError(h) ==
  /\ At(h, "fail") \/ At(h, "record")
  /\ Mishap(outages, MaxOutages)
  /\ outages' = outages + 1
  /\ Throw(h)
  /\ UNCHANGED <<audience, row, forced, redrive, observers, crashes, slow, disconnects>>

\* A ledger statement of the reservation fails: fail open, the effect runs
\* without a row.
ReserveError(h) ==
  /\ \E l \in {"gate", "takeover", "retake", "deadletter"} : At(h, l)
  /\ run[h].con \notin Tx
  /\ Mishap(outages, MaxOutages)
  /\ outages' = outages + 1
  /\ Goto(h, "unledgered")
  /\ UNCHANGED <<row, bus, observers, crashes, slow, disconnects>>

\* The effect without a reservation: done and acknowledged, or thrown to the
\* bus - except that a consumer in Swallow whose connection failed logs the
\* error and returns (webhooks, RMM alerts; internal notifications, whose handlers
\* rethrow only inside the ledger's transaction).
EffectUnledgered(h) ==
  LET c == run[h].con IN
  /\ At(h, "unledgered") \/ At(h, "bypass")
  /\ \/ /\ effects' = Count(effects, c)
        /\ excuses' = Count(excuses, c)
        /\ Ack(h)
        /\ UNCHANGED swallowed
     \/ /\ Throw(h)
        /\ ~(At(h, "bypass") /\ c \in Swallow)
        /\ UNCHANGED <<effects, excuses, swallowed>>
     \/ /\ At(h, "bypass") /\ c \in Swallow
        /\ Ack(h)
        /\ swallowed' = swallowed \cup {c}
        /\ UNCHANGED <<effects, excuses>>
  /\ UNCHANGED <<audience, row, forced, redrive, failures, bounds>>

-----------------------------------------------------------------------------
(* handleTransactionalOutboxDelivery: reserve, effect and mark in one      *)
(* transaction.                                                            *)

\* What reserveInboundOutboxEventDelivery would grant inside the transaction.
Reservable(r, k) == r.status = "none" \/ ExpiredReservation(r) \/ DueRetry(r, k)

\* Fault: the effect commits and the mark is left to a later transaction.
TxDeliverUnmarked(h, k) ==
  LET c == run[h].con IN
  /\ At(h, "gate") /\ c \in Tx
  /\ Reservable(row[c], k)
  /\ effects' = Count(effects, c)
  /\ Ack(h)
  /\ UNCHANGED <<audience, row, forced, redrive, failures, excuses, swallowed, bounds>>

\* Reservation, notification rows and the 'delivered' mark commit together.
TxDeliver(h, k) ==
  LET c == run[h].con
      r == row[c]
      n == IF r.status = "retryable_failed" THEN 1 ELSE 0
      v == IF r.status = "none" THEN 0 ELSE 1 IN
  /\ At(h, "gate") /\ c \in Tx
  /\ Reservable(r, k)
  /\ row' = [row EXCEPT ![c] = Finished([r EXCEPT !.attempts = @ + n, !.version = @ + v], "delivered")]
  /\ effects' = Count(effects, c)
  /\ Ack(h)
  /\ UNCHANGED <<audience, forced, redrive, failures, excuses, swallowed, bounds>>

\* The effect or a statement fails: everything is rolled back, nothing is
\* visible, and the failure is recorded outside the transaction.
TxRollback(h, k) ==
  /\ At(h, "gate") /\ run[h].con \in Tx
  /\ Reservable(row[run[h].con], k)
  /\ Goto(h, "record")
  /\ UNCHANGED <<row, bus, observers, bounds>>

\* The reservation says skip; over the cap the transaction commits the
\* dead-letter.
TxSkip(h, k) ==
  LET c == run[h].con IN
  /\ At(h, "gate") /\ c \in Tx
  /\ ~Reservable(row[c], k)
  /\ IF row[c].attempts >= k THEN Deadletter(c) ELSE UNCHANGED row
  /\ Ack(h)
  /\ UNCHANGED <<audience, forced, redrive, observers, bounds>>

\* The upsert of recordInboundOutboxEventDeliveryFailure: it has no fence, and
\* leaves a finished row alone.
Recorded(r, k) ==
  IF r.status \in {"none", "retryable_failed", "delivering"} THEN Charged(r, k) ELSE r

RecordFailure(h, k) ==
  LET c == run[h].con IN
  /\ At(h, "record")
  /\ row'      = [row EXCEPT ![c] = Recorded(@, k)]
  /\ failures' = IF Terminal(c) THEN failures ELSE Count(failures, c)
  /\ Ack(h)
  /\ UNCHANGED <<audience, forced, redrive, effects, excuses, swallowed, bounds>>

-----------------------------------------------------------------------------
(* The sweeper, time and crashes.                                          *)

\* findRecoverableInboundEventDeliveries
Recoverable(c) ==
  \/ ExpiredReservation(row[c])
  \/ row[c].status = "retryable_failed" /\ row[c].due

\* Over the cap the sweeper dead-letters a row of a list it has read earlier: since
\* then the attempts can only have grown and the UPDATE looks at the status, so
\* the row may be one that has failed again and is not due.
SweepDeadletter(c, k) ==
  /\ row[c].status = "retryable_failed" /\ row[c].attempts >= k
  /\ Deadletter(c)
  /\ UNCHANGED <<bus, run, observers, bounds>>

\* Under the cap it queues one re-publish.
SweepRedrive(c, k) ==
  /\ Recoverable(c) /\ ~(row[c].status = "retryable_failed" /\ row[c].attempts >= k)
  /\ ~redrive
  /\ redrive' = TRUE
  /\ UNCHANGED <<audience, row, open, forced, reached, run, observers, bounds>>

\* Fault: the re-publish carries no force flag.
RepublishPlain(e) ==
  /\ redrive
  /\ Offer(e)
  /\ redrive' = FALSE
  /\ forced'  = forced \ {e}
  /\ UNCHANGED <<audience, row, reached, run, observers, bounds>>

\* processInboundOutboxRepublishJob; a refused publish keeps the job.
Republish(e) ==
  /\ redrive
  /\ Offer(e)
  /\ redrive' = FALSE
  /\ forced'  = forced \cup {e}
  /\ UNCHANGED <<audience, row, reached, run, observers, bounds>>

Owned(c) == \E h \in Handler : run[h].pc \in Holding /\ run[h].con = c /\ run[h].held = row[c].token

LeaseExpires(c) ==
  /\ row[c].status = "delivering" /\ ~row[c].expired
  /\ Owned(c) => Mishap(slow, MaxSlow)
  /\ slow'    = IF Owned(c) THEN slow + 1 ELSE slow
  /\ row'     = [row EXCEPT ![c].expired = TRUE]
  /\ excuses' = Count(excuses, c)
  /\ UNCHANGED <<bus, run, effects, failures, swallowed, crashes, outages, disconnects>>

BackoffPasses(c) ==
  /\ row[c].status = "retryable_failed" /\ ~row[c].due
  /\ row' = [row EXCEPT ![c].due = TRUE]
  /\ UNCHANGED <<bus, run, observers, bounds>>

\* The process dies: its entry stays pending and the bus hands it to another.
\* An un-gated effect may have happened before the crash.
Crash(h) ==
  /\ ~At(h, "idle")
  /\ Mishap(crashes, MaxCrashes)
  /\ crashes' = crashes + 1
  /\ Throw(h)
  /\ \/ UNCHANGED <<effects, excuses>>
     \/ /\ At(h, "bypass") \/ At(h, "unledgered")
        /\ effects' = Count(effects, run[h].con) /\ excuses' = Count(excuses, run[h].con)
  /\ UNCHANGED <<audience, row, forced, redrive, failures, swallowed, slow, outages, disconnects>>

Invoke(h) ==
  \E c \in Consumer : \E e \in open[c] :
    StartDisconnected(h, c, e) \/ \E k \in Caps : Start(h, c, e, k)
Step(h) ==
  \/ ReserveInsert(h) \/ Takeover(h) \/ ReserveDeadletter(h) \/ ReserveError(h)
  \/ Effect(h) \/ EffectThrows(h) \/ Complete(h) \/ CompleteError(h)
  \/ FailError(h) \/ EffectUnledgered(h)
  \/ \E k \in Caps :
       /\ run[h].cap = k
       /\ \/ ReserveSkip(h, k) \/ ReserveLook(h, k) \/ Retake(h, k) \/ ReserveRace(h, k)
          \/ Fail(h, k) \/ TxDeliver(h, k) \/ TxRollback(h, k) \/ TxSkip(h, k)
          \/ RecordFailure(h, k)
Sweep(c) == \E k \in Caps : SweepDeadletter(c, k) \/ SweepRedrive(c, k)
Time(c)  == LeaseExpires(c) \/ BackoffPasses(c)

Next ==
  \/ \E h \in Handler : Invoke(h) \/ Step(h) \/ Crash(h)
  \/ \E c \in Consumer : Sweep(c) \/ Time(c) \/ \E e \in open[c] : DropDuplicate(c, e)
  \/ \E e \in Entry : Publish(e) \/ Republish(e)

Spec == Init /\ [][Next]_vars

\* The bus offers pending entries until they are acknowledged and drops the
\* duplicates it recognises, handlers end, the sweeper runs every minute and
\* queued jobs are worked off.
Due(c) == {e \in open[c] : e \in forced \/ c \notin reached}
Fairness ==
  /\ \A h \in Handler : WF_vars(Step(h))
  /\ \A c \in Consumer : /\ SF_vars(\E h \in Handler, k \in Caps : \E e \in Due(c) :
                                   Start(h, c, e, k))
                         /\ WF_vars(\E e \in open[c] : DropDuplicate(c, e))
                         /\ WF_vars(Sweep(c)) /\ WF_vars(Time(c))
  /\ SF_vars(\E e \in Entry : Republish(e))

FairSpec == Spec /\ Fairness

-----------------------------------------------------------------------------
(* Properties.                                                             *)

CapMin == CHOOSE k \in Caps : \A j \in Caps : k <= j

TypeOK ==
  /\ audience \in Audiences
  /\ row \in [Consumer -> [status : Statuses, attempts : Nat, version : Nat, token : Nat,
                           expired : BOOLEAN, due : BOOLEAN]]
  /\ open \in [Consumer -> SUBSET Entry]
  /\ forced \subseteq Entry /\ redrive \in BOOLEAN
  /\ reached \subseteq Consumer /\ swallowed \subseteq Consumer
  /\ run \in [Handler -> [pc : Locations, con : Consumer \cup {NULL},
                          ent : Entry \cup {NULL}, held : Nat, cap : Nat]]
  /\ \A h \in Handler : ~At(h, "idle") => run[h].con \in Consumer /\ run[h].ent \in Entry
  /\ effects \in [Consumer -> Nat] /\ failures \in [Consumer -> Nat] /\ excuses \in [Consumer -> Nat]
  /\ crashes \in Nat /\ slow \in Nat /\ outages \in Nat /\ disconnects \in Nat

\* "True exactly-once" of the transactional consumer: its effect has happened
\* exactly as often as its row says delivered, however often the event is
\* published, re-driven or handled at the same time.  Each effect beyond that
\* was dispatched past the ledger when the gate could not be reached.
TxExactlyOnce ==
  \A c \in Tx : effects[c] = excuses[c] + IF row[c].status = "delivered" THEN 1 ELSE 0

\* A row that reads 'delivered' is never a promise: the effect has happened.
DeliveredMeansDone == \A c \in Consumer : row[c].status = "delivered" => effects[c] >= 1

\* The bounded duplicate window of external effects: each duplicate is paid
\* for by a lease that ran out, an effect that was reported as failed, or an
\* effect that had to run without the ledger.
DuplicatesAccountedFor == \A c \in Consumer : effects[c] <= 1 + excuses[c]

\* An acknowledged event is never lost: the consumer's effect has happened or
\* its row makes the sweeper or a redelivery come back.  The one way out is the
\* un-gated dispatch of a Swallow consumer, which logs the error and returns.
AcknowledgedNotLost ==
  \A c \in reached \ swallowed : row[c].status # "none" \/ effects[c] >= 1

\* A delivery is given up only after real failures: as many as the cap for the
\* transactional consumer, and about half of it for the others, whose retries
\* are charged twice (once by the reservation, once by the failure).
GivenUpAfterRetries ==
  \A c \in Consumer :
    row[c].status = "terminal_failed" =>
      failures[c] >= IF c \in Tx THEN CapMin ELSE (CapMin + 2) \div 2

\* A finished row is never reopened, downgraded or rewritten.
TerminalIsFinal == [][\A c \in Consumer : Terminal(c) => row'[c] = row[c]]_vars

\* Nobody but the handler that holds the lease ends a committed reservation;
\* the unfenced failure record never meets one.
OnlyHolderEnds ==
  [][\A c \in Consumer :
       row[c].status = "delivering" /\ row'[c].status # "delivering" =>
         \E h \in Handler : run[h].con = c /\ run[h].held = row[c].token
                            /\ run[h].pc \in {"complete", "fail"} /\ run'[h] = Idle]_vars

\* The promise of InboundMessage, for the transactional consumers: a delivery is
\* decided once, and its effect is produced by that decision or not at all.
\* Effects dispatched past the ledger are none of the ledger's.
Decision(c) == CASE row[c].status = "delivered" -> "succeeded"
                 [] row[c].status = "terminal_failed" -> "terminal_failed"
                 [] OTHER -> "open"
Promise == INSTANCE InboundMessage WITH
             Message <- Tx, outcome <- [c \in Tx |-> Decision(c)],
             made <- [c \in Tx |-> effects[c] - excuses[c]]
Implements == Promise!Spec

\* Done without a row: the ledger or the database was out of reach.
DoneUngated(c) == row[c].status = "none" /\ (effects[c] >= 1 \/ c \in swallowed)

\* What was once offered to a consumer is delivered or given up, and the
\* re-driving stops (republish with force, sweep, bounded retries).
EventuallySettled ==
  \A c \in Consumer : (open[c] # {}) ~> (Terminal(c) \/ DoneUngated(c))

=============================================================================

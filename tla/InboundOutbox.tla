---------------------------- MODULE InboundOutbox ----------------------------
(***************************************************************************)
(* The transactional outbox of the inbound pipeline: the ledger            *)
(* inbound_email_outbox (inboundEmailDurableStore.ts) and the dispatcher   *)
(* that publishes its rows (inboundEmailOutboxDispatcher.ts).              *)
(*                                                                         *)
(* A row is one logical event, inserted by the core transaction.  A        *)
(* dispatcher is one execution of processInboundOutboxJob: it claims the   *)
(* row, talks to Redis with no transaction open, then records the outcome  *)
(* under its lease.  Wake-ups are at-least-once, so dispatchers start at   *)
(* any time; they may crash at any step, and a lease may run out under a   *)
(* dispatcher that still waits for Redis.  Redis may refuse a publish, or  *)
(* accept it and lose the reply.                                           *)
(***************************************************************************)
EXTENDS Integers, FiniteSets

CONSTANTS
  Outbox,       \* rows of inbound_email_outbox
  Dispatcher,   \* concurrent executions of processInboundOutboxJob
  Caps,         \* values of getDurableMaxAttempts() in force in some process
  MaxCrashes,   \* bound: dispatcher crashes in a behaviour
  MaxSlow,      \* bound: leases that run out under a dispatcher that still runs
  MaxLost       \* bound: publishes accepted by Redis whose reply is lost

ASSUME CapsAssumption   == Caps \subseteq Nat \ {0} /\ Caps # {}
ASSUME FiniteAssumption == IsFiniteSet(Dispatcher)
ASSUME BoundsAssumption == {MaxCrashes, MaxSlow, MaxLost} \subseteq Nat

VARIABLES
  row,        \* [Outbox -> the columns the dispatcher reads or writes]
  pc,         \* where each dispatcher is in processInboundOutboxJob
  job,        \* the row each dispatcher was woken for
  held,       \* lease token returned by the dispatcher's claim
  tries,      \* attempt_count returned by the dispatcher's claim
  doomed,     \* rows the sweeper has read as over the cap
  sent,       \* observer: times the event was accepted by Redis
  expiries,   \* observer: leases of the row that ran out
  lost,       \* observer: accepted publishes the dispatcher saw fail
  crashes, slow   \* counters for the bounds

dispatcher == <<pc, job, held, tries>>
observers  == <<sent, expiries, lost>>
vars == <<row, pc, job, held, tries, doomed, sent, expiries, lost, crashes, slow>>

NULL == 0

TerminalStatuses == {"published", "terminal_failed"}
Statuses   == {"pending", "publishing", "retryable_failed"} \cup TerminalStatuses
Holding    == {"publish", "markPublished", "markFailed"}
Locations  == {"idle", "missed", "deadletter", "reread", "reclaim"} \cup Holding

\* insertOutboxRow, as the core transaction leaves the row.
NewRow == [status |-> "pending", attempts |-> 0, version |-> 0, token |-> NULL,
           expired |-> FALSE, due |-> TRUE]

Init ==
  /\ row       = [o \in Outbox |-> NewRow]
  /\ pc        = [d \in Dispatcher |-> "idle"]
  /\ job       \in [Dispatcher -> Outbox]
  /\ held      = [d \in Dispatcher |-> NULL]
  /\ tries     = [d \in Dispatcher |-> 0]
  /\ doomed    = {}
  /\ sent      = [o \in Outbox |-> 0]
  /\ expiries  = [o \in Outbox |-> 0]
  /\ lost      = [o \in Outbox |-> 0]
  /\ crashes   = 0 /\ slow = 0

Goto(d, l) == pc' = [pc EXCEPT ![d] = l]
Terminal(o) == row[o].status \in TerminalStatuses

-----------------------------------------------------------------------------
(* Statements on a row.                                                    *)

\* The two conditional UPDATEs of claimOutboxRow, for a process whose cap is c.
Claimable(o, c) ==
  \/ row[o].status = "pending"
  \/ row[o].status = "retryable_failed" /\ row[o].attempts < c /\ row[o].due

OverCap(o, c) ==
  row[o].status = "retryable_failed" /\ row[o].due /\ row[o].attempts >= c

\* Fault: any publishing row may be taken over, whether its lease is live or not.
ReclaimableAlways(o) == row[o].status = "publishing"

\* Fault: only failed rows are recovered, a publishing row stays as it is.
ReclaimableFailed(o) == row[o].status = "retryable_failed" /\ row[o].expired

\* The WHERE clause of reclaimOutboxRow.
Reclaimable(o) == row[o].status = "publishing" /\ row[o].expired

\* Fault: the fence checks the status and not the lease.
FencedByStatus(d) == row[job[d]].status = "publishing"

\* The WHERE clause of transitionOutboxRow (token and version change together).
Fenced(d) == row[job[d]].status = "publishing" /\ row[job[d]].token = held[d]

\* The patch of a claim (n = attempt_count + 1) or of a reclaim (n unchanged),
\* and the row returned to the dispatcher.
Lease(d, o, n) ==
  LET v == row[o].version + 1 IN
  /\ row'   = [row EXCEPT ![o] = [status |-> "publishing", attempts |-> n, version |-> v,
                                  token |-> v, expired |-> FALSE, due |-> TRUE]]
  /\ held'  = [held  EXCEPT ![d] = v]
  /\ tries' = [tries EXCEPT ![d] = n]
  /\ Goto(d, "publish")

\* A terminal patch clears the lease and next_attempt_at.
Finished(r, st) == [r EXCEPT !.status = st, !.token = NULL, !.expired = FALSE, !.due = TRUE]

\* The failure patch: terminal once the claim's attempt_count reaches the cap,
\* else retryable after a backoff (the lease columns are left as they are).
Failure(r, n, c) ==
  IF n >= c THEN Finished(r, "terminal_failed")
            ELSE [r EXCEPT !.status = "retryable_failed", !.due = FALSE]

-----------------------------------------------------------------------------
(* processInboundOutboxJob                                                 *)

\* A wake-up is delivered and claimOutboxRow takes the row.
Claim(d, o, c) ==
  /\ pc[d] = "idle"
  /\ Claimable(o, c)
  /\ job' = [job EXCEPT ![d] = o]
  /\ Lease(d, o, row[o].attempts + 1)
  /\ UNCHANGED <<doomed, observers, crashes, slow>>

\* Neither UPDATE matched.  Every SELECT that follows is a step of its own, so
\* the row may change in between.
ClaimMiss(d, o, c) ==
  /\ pc[d] = "idle"
  /\ ~Claimable(o, c)
  /\ job' = [job EXCEPT ![d] = o]
  /\ Goto(d, "missed")
  /\ UNCHANGED <<row, held, tries, doomed, observers, crashes, slow>>

\* claimOutboxRow reads the row to name the reason; over the cap it goes on to
\* deadletterOutboxRow.
Diagnose(d, c) ==
  /\ pc[d] = "missed"
  /\ Goto(d, IF OverCap(job[d], c) THEN "deadletter" ELSE "reread")
  /\ UNCHANGED <<row, job, held, tries, doomed, observers, crashes, slow>>

\* Fault: the dead-letter UPDATE has no status in its WHERE clause.
DeadletterUnguarded(o) == row' = [row EXCEPT ![o] = Finished(@, "terminal_failed")]

\* deadletterOutboxRow: guarded by the status alone.
Deadletter(o) ==
  row' = [row EXCEPT ![o] = IF @.status = "retryable_failed" THEN Finished(@, "terminal_failed") ELSE @]

DeadletterClaim(d) ==
  /\ pc[d] = "deadletter"
  /\ Deadletter(job[d])
  /\ Goto(d, "reread")
  /\ UNCHANGED <<job, held, tries, doomed, observers, crashes, slow>>

\* The dispatcher reads the row again.  A publishing row whose lease has run
\* out is taken over; in every other case the job ends (ack, defer or retry)
\* and the queue or the sweeper brings the row back if it is not terminal.
Reread(d) ==
  /\ pc[d] = "reread"
  /\ Goto(d, IF Reclaimable(job[d]) THEN "reclaim" ELSE "idle")
  /\ UNCHANGED <<row, job, held, tries, doomed, observers, crashes, slow>>

Reclaim(d) ==
  /\ pc[d] = "reclaim"
  /\ Reclaimable(job[d])
  /\ Lease(d, job[d], row[job[d]].attempts)
  /\ UNCHANGED <<job, doomed, observers, crashes, slow>>

\* Another dispatcher was faster: ack if terminal, else defer.
ReclaimRace(d) ==
  /\ pc[d] = "reclaim"
  /\ ~Reclaimable(job[d])
  /\ Goto(d, "idle")
  /\ UNCHANGED <<row, job, held, tries, doomed, observers, crashes, slow>>

\* publishEvent(strict): Redis accepts the event under the stable id outbox_id.
Publish(d) ==
  /\ pc[d] = "publish"
  /\ sent' = [sent EXCEPT ![job[d]] = @ + 1]
  /\ Goto(d, "markPublished")
  /\ UNCHANGED <<row, job, held, tries, doomed, expiries, lost, crashes, slow>>

\* Redis refuses, and the strict publisher throws.
PublishRefused(d) ==
  /\ pc[d] = "publish"
  /\ Goto(d, "markFailed")
  /\ UNCHANGED <<row, job, held, tries, doomed, observers, crashes, slow>>

\* Redis accepts and the reply is lost: the dispatcher sees a failure.
PublishReplyLost(d) ==
  /\ pc[d] = "publish"
  /\ lost[job[d]] < MaxLost
  /\ sent' = [sent EXCEPT ![job[d]] = @ + 1]
  /\ lost' = [lost EXCEPT ![job[d]] = @ + 1]
  /\ Goto(d, "markFailed")
  /\ UNCHANGED <<row, job, held, tries, doomed, expiries, crashes, slow>>

\* The fenced transition to 'published'; if the lease was superseded nothing is
\* written and the job is retried.
MarkPublished(d) ==
  /\ pc[d] = "markPublished"
  /\ row' = [row EXCEPT ![job[d]] = IF Fenced(d) THEN Finished(@, "published") ELSE @]
  /\ Goto(d, "idle")
  /\ UNCHANGED <<job, held, tries, doomed, observers, crashes, slow>>

\* The fenced transition after a failure, for a process whose cap is c.
MarkFailed(d, c) ==
  /\ pc[d] = "markFailed"
  /\ row' = [row EXCEPT ![job[d]] = IF Fenced(d) THEN Failure(@, tries[d], c) ELSE @]
  /\ Goto(d, "idle")
  /\ UNCHANGED <<job, held, tries, doomed, observers, crashes, slow>>

-----------------------------------------------------------------------------
(* The sweeper, time and crashes.                                          *)

\* sweepTenantDurableWork reads the row as over the cap and, in another
\* statement, dead-letters it.
SweepRead(o, c) ==
  /\ OverCap(o, c)
  /\ o \notin doomed
  /\ doomed' = doomed \cup {o}
  /\ UNCHANGED <<row, dispatcher, observers, crashes, slow>>

SweepDeadletter(o) ==
  /\ o \in doomed
  /\ Deadletter(o)
  /\ doomed' = doomed \ {o}
  /\ UNCHANGED <<dispatcher, observers, crashes, slow>>

\* A dispatcher that holds the row's current lease.
Owned(o) == \E d \in Dispatcher : pc[d] \in Holding /\ job[d] = o /\ held[d] = row[o].token

\* lease_expires_at passes; nothing renews an outbox lease.
LeaseExpires(o) ==
  /\ row[o].status = "publishing" /\ ~row[o].expired
  /\ Owned(o) => slow < MaxSlow
  /\ slow' = IF Owned(o) THEN slow + 1 ELSE slow
  /\ row'  = [row EXCEPT ![o].expired = TRUE]
  /\ expiries' = [expiries EXCEPT ![o] = @ + 1]
  /\ UNCHANGED <<dispatcher, doomed, sent, lost, crashes>>

BackoffPasses(o) ==
  /\ row[o].status = "retryable_failed" /\ ~row[o].due
  /\ row' = [row EXCEPT ![o].due = TRUE]
  /\ UNCHANGED <<dispatcher, doomed, observers, crashes, slow>>

Crash(d) ==
  /\ pc[d] # "idle"
  /\ crashes < MaxCrashes
  /\ crashes' = crashes + 1
  /\ Goto(d, "idle")
  /\ UNCHANGED <<row, job, held, tries, doomed, observers, slow>>

Wake(d)  == \E o \in Outbox, c \in Caps : Claim(d, o, c) \/ ClaimMiss(d, o, c)
Step(d)  ==
  \/ \E c \in Caps : Diagnose(d, c) \/ MarkFailed(d, c)
  \/ DeadletterClaim(d) \/ Reread(d) \/ Reclaim(d) \/ ReclaimRace(d)
  \/ Publish(d) \/ PublishRefused(d) \/ PublishReplyLost(d) \/ MarkPublished(d)
Sweep(o) == SweepDeadletter(o) \/ \E c \in Caps : SweepRead(o, c)
Time(o)  == LeaseExpires(o) \/ BackoffPasses(o)

Next ==
  \/ \E d \in Dispatcher : Wake(d) \/ Step(d) \/ Crash(d)
  \/ \E o \in Outbox : Sweep(o) \/ Time(o)

Spec == Init /\ [][Next]_vars

\* The sweeper looks at every due row on each pass (findDueOutbox, oldest
\* first) and enqueues a job for it, jobs run to their end, and time passes.
WakeFor(o) == \E d \in Dispatcher, c \in Caps : Claim(d, o, c) \/ (Reclaimable(o) /\ ClaimMiss(d, o, c))
Fairness ==
  /\ \A d \in Dispatcher : WF_vars(Step(d))
  /\ \A o \in Outbox : SF_vars(WakeFor(o)) /\ WF_vars(Sweep(o)) /\ WF_vars(Time(o))

FairSpec == Spec /\ Fairness

-----------------------------------------------------------------------------
(* Properties.                                                             *)

TypeOK ==
  /\ row  \in [Outbox -> [status : Statuses, attempts : Nat, version : Nat, token : Nat,
                          expired : BOOLEAN, due : BOOLEAN]]
  /\ pc   \in [Dispatcher -> Locations]
  /\ job  \in [Dispatcher -> Outbox]
  /\ held \in [Dispatcher -> Nat]
  /\ tries \in [Dispatcher -> Nat]
  /\ doomed \subseteq Outbox
  /\ sent \in [Outbox -> Nat] /\ expiries \in [Outbox -> Nat] /\ lost \in [Outbox -> Nat]
  /\ crashes \in Nat /\ slow \in Nat

\* The outbox never claims a publish that did not happen: a row reads
\* 'published' only when Redis accepted its event.
PublishedMeansSent == \A o \in Outbox : row[o].status = "published" => sent[o] >= 1

\* At-least-once has a price the code bounds: an event goes out a second time
\* only after a lease on it ran out, or after a publish that Redis
\* accepted was reported as failed ("An unexpired lease is deferred, never
\* re-published").
DuplicatesAccountedFor == \A o \in Outbox : sent[o] <= 1 + expiries[o] + lost[o]

\* The attempt cap bounds the claims of a row, and a row is given up only after
\* as many claims as some cap in force.
RetryBudget ==
  \A o \in Outbox :
    /\ \E c \in Caps : row[o].attempts <= c
    /\ row[o].status = "terminal_failed" => \E c \in Caps : row[o].attempts >= c

\* A finished row is never reopened or rewritten, whatever stale dispatcher,
\* sweeper decision or wake-up comes late.
TerminalIsFinal == [][\A o \in Outbox : Terminal(o) => row'[o] = row[o]]_vars

\* Only the dispatcher whose lease is on the row ends its publication.
OnlyHolderEnds ==
  [][\A o \in Outbox :
       row[o].status = "publishing" /\ row'[o].status # "publishing" =>
         \E d \in Dispatcher : job[d] = o /\ held[d] = row[o].token
                               /\ pc[d] \in {"markPublished", "markFailed"} /\ pc'[d] = "idle"]_vars

\* Every event is published or given up, despite crashes, slow dispatchers and
\* lost replies.
EventuallySettled == \A o \in Outbox : <>[]Terminal(o)

=============================================================================

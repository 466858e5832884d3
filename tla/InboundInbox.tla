---------------------------- MODULE InboundInbox ----------------------------
(***************************************************************************)
(* The inbound_email_inbox ledger and the core processor that works on it  *)
(* (shared/services/email/inboundEmailDurableStore.ts and                  *)
(* inboundEmailCoreProcessor.ts).                                          *)
(*                                                                         *)
(* A row is a staged message.  A worker is one execution of                *)
(* processInboundInbox: it claims the row with a fresh lease token, reads  *)
(* and parses the source outside any transaction, and commits the ticket,  *)
(* the comment, the effect rows and the terminal status in one short       *)
(* transaction.  Workers start at any time (the Redis wake-ups are         *)
(* at-least-once), run concurrently, may crash at any step, and may keep   *)
(* running after their lease has expired and another worker has reclaimed  *)
(* the row.                                                                *)
(***************************************************************************)
EXTENDS Integers, FiniteSets

CONSTANTS
  Inbox,        \* rows of inbound_email_inbox
  Worker,       \* concurrent executions of processInboundInbox
  Caps,         \* values of getDurableMaxAttempts() in force in some process
  Modes,        \* durable modes in force in some process
  MaxCrashes,   \* bound: worker crashes in a behaviour
  MaxSlow,      \* bound: leases that expire under a worker that still runs
  MaxReleases   \* bound: shadow-mode releases of a claim

ASSUME CapsAssumption   == Caps \subseteq Nat \ {0} /\ Caps # {}
ASSUME ModesAssumption  == Modes \subseteq {"shadow", "enforce"}
ASSUME BoundsAssumption == {MaxCrashes, MaxSlow, MaxReleases} \subseteq Nat

VARIABLES
  status,     \* inbound_email_inbox.status
  attempts,   \* attempt_count
  version,    \* lease_version
  token,      \* lease_token; 0 is NULL
  expired,    \* lease_expires_at has passed
  due,        \* next_attempt_at is NULL or has passed
  reason,     \* outcome_reason, as far as the properties tell reasons apart
  effects,    \* effect types in inbound_email_effects for the row
  made,       \* observer: commits that created a ticket or comment for the row
  pc,         \* where each worker is in processInboundInbox
  job,        \* the row each worker was woken for
  held,       \* the lease token each worker claimed with
  tries,      \* attempt_count of the row the claim returned
  mode,       \* params.mode of each worker
  acked,      \* observer: why wake-ups of the row were acknowledged
  doomed,     \* rows the sweeper has read as over the cap
  crashes, slow, releases   \* counters for the bounds

row     == <<status, attempts, version, token, expired, due, reason, effects, made>>
worker  == <<pc, job, held, tries, mode>>
bounds  == <<crashes, slow, releases>>
vars    == <<status, attempts, version, token, expired, due, reason, effects, made,
             pc, job, held, tries, mode, acked, doomed, crashes, slow, releases>>

NULL == 0

TerminalStatuses == {"succeeded", "skipped", "terminal_failed"}
Statuses    == {"received", "processing", "retryable_failed"} \cup TerminalStatuses
EffectTypes == {"ticket", "comment"}
Reasons     == {"none", "exhausted", "permanent", "policy"}
Claimed     == {"release", "prepare", "commit", "markRetryable", "markTerminal"}
Locations   == {"idle", "missed", "deadletter", "reclaim"} \cup Claimed
Acks        == {"stored", "commit", "exhausted", "permanent"}

Terminal(i) == status[i] \in TerminalStatuses

Init ==
  /\ status   = [i \in Inbox |-> "received"]
  /\ attempts = [i \in Inbox |-> 0]
  /\ version  = [i \in Inbox |-> 0]
  /\ token    = [i \in Inbox |-> NULL]
  /\ expired  = [i \in Inbox |-> FALSE]
  /\ due      = [i \in Inbox |-> TRUE]
  /\ reason   = [i \in Inbox |-> "none"]
  /\ effects  = [i \in Inbox |-> {}]
  /\ made     = [i \in Inbox |-> 0]
  /\ pc       = [w \in Worker |-> "idle"]
  /\ job      \in [Worker -> Inbox]
  /\ held     = [w \in Worker |-> NULL]
  /\ tries    = [w \in Worker |-> 0]
  /\ mode     \in [Worker -> Modes]
  /\ acked    = [i \in Inbox |-> {}]
  /\ doomed   = {}
  /\ crashes  = 0 /\ slow = 0 /\ releases = 0

-----------------------------------------------------------------------------
(* Statements on the row.                                                  *)

\* Fault: the fence compares lease_version only.
FencedByVersion(w) == version[job[w]] = held[w]

\* The WHERE clause of every fenced UPDATE: status, token and version of the
\* claim (a token is generated with its version, so the token stands for both).
Fenced(w) ==
  LET i == job[w] IN status[i] = "processing" /\ token[i] = held[w]

\* The two conditional UPDATEs of claimInbox, for a process whose cap is c.
Claimable(i, c) ==
  \/ status[i] = "received"
  \/ status[i] = "retryable_failed" /\ attempts[i] < c /\ due[i]

OverCap(i, c) == status[i] = "retryable_failed" /\ due[i] /\ attempts[i] >= c

\* Fault: a reclaim takes over the lease without a new token.
LeaseSameToken(w, i, n) ==
  LET t == IF status[i] = "processing" THEN token[i] ELSE version[i] + 1 IN
  /\ status'   = [status   EXCEPT ![i] = "processing"]
  /\ attempts' = [attempts EXCEPT ![i] = n]
  /\ version'  = [version  EXCEPT ![i] = t]
  /\ token'    = [token    EXCEPT ![i] = t]
  /\ expired'  = [expired  EXCEPT ![i] = FALSE]
  /\ due'      = [due      EXCEPT ![i] = TRUE]
  /\ held'     = [held     EXCEPT ![w] = t]
  /\ tries'    = [tries    EXCEPT ![w] = n]
  /\ UNCHANGED <<reason, effects, made>>

\* makeLeaseFields, lease_version + 1, and the row returned to the worker.
Lease(w, i, n) ==
  /\ status'   = [status   EXCEPT ![i] = "processing"]
  /\ attempts' = [attempts EXCEPT ![i] = n]
  /\ version'  = [version  EXCEPT ![i] = @ + 1]
  /\ token'    = [token    EXCEPT ![i] = version[i] + 1]
  /\ expired'  = [expired  EXCEPT ![i] = FALSE]
  /\ due'      = [due      EXCEPT ![i] = TRUE]
  /\ held'     = [held     EXCEPT ![w] = version[i] + 1]
  /\ tries'    = [tries    EXCEPT ![w] = n]
  /\ UNCHANGED <<reason, effects, made>>

\* A terminal UPDATE clears the lease and next_attempt_at.
Finish(i, st, why) ==
  /\ status'  = [status  EXCEPT ![i] = st]
  /\ reason'  = [reason  EXCEPT ![i] = why]
  /\ token'   = [token   EXCEPT ![i] = NULL]
  /\ expired' = [expired EXCEPT ![i] = FALSE]
  /\ due'     = [due     EXCEPT ![i] = TRUE]
  /\ UNCHANGED <<attempts, version>>

\* The retryable UPDATE keeps the lease columns and sets next_attempt_at.
Postpone(i) ==
  /\ status' = [status EXCEPT ![i] = "retryable_failed"]
  /\ due'    = [due    EXCEPT ![i] = FALSE]
  /\ UNCHANGED <<attempts, version, token, expired, reason>>

Goto(w, l) == pc' = [pc EXCEPT ![w] = l]
Ack(i, a)  == acked' = [acked EXCEPT ![i] = @ \cup {a}]

-----------------------------------------------------------------------------
(* Claiming: claimInbox, then what processInboundInbox does when the claim *)
(* returns no row.                                                         *)

ClaimInbox(w, i, m, c) ==
  /\ pc[w] = "idle"
  /\ m = "shadow" => releases < MaxReleases
  /\ Claimable(i, c)
  /\ Lease(w, i, attempts[i] + 1)
  /\ job'  = [job  EXCEPT ![w] = i]
  /\ mode' = [mode EXCEPT ![w] = m]
  /\ Goto(w, IF m = "shadow" THEN "release" ELSE "prepare")
  /\ UNCHANGED <<acked, doomed, bounds>>

\* No UPDATE matched.  The row read next decides whether it is dead-lettered.
ClaimMiss(w, i, m, c) ==
  /\ pc[w] = "idle"
  /\ m = "shadow" => releases < MaxReleases
  /\ ~Claimable(i, c)
  /\ job'  = [job  EXCEPT ![w] = i]
  /\ mode' = [mode EXCEPT ![w] = m]
  /\ Goto(w, IF OverCap(i, c) THEN "deadletter" ELSE "missed")
  /\ UNCHANGED <<row, held, tries, acked, doomed, bounds>>

\* deadletterInbox: the UPDATE repeats the status of the row that was read,
\* neither its attempts nor its due time.
DeadletterInbox(i) ==
  \/ /\ status[i] = "retryable_failed"
     /\ Finish(i, "terminal_failed", "exhausted")
     /\ UNCHANGED <<effects, made>>
  \/ /\ status[i] # "retryable_failed"
     /\ UNCHANGED row

ClaimDeadletter(w) ==
  /\ pc[w] = "deadletter"
  /\ DeadletterInbox(job[w])
  /\ Goto(w, "missed")
  /\ UNCHANGED <<job, held, tries, mode, acked, doomed, bounds>>

\* Fault: a row that another worker is processing passes for a duplicate.
ReadMissedAsDuplicate(w) ==
  /\ pc[w] = "missed"
  /\ Ack(job[w], "stored") /\ Goto(w, "idle")
  /\ UNCHANGED <<row, job, held, tries, mode, doomed, bounds>>

\* Fault: an expired lease is deferred like a live one.
ReadMissedNoReclaim(w) ==
  /\ pc[w] = "missed"
  /\ IF Terminal(job[w]) THEN Ack(job[w], "stored") ELSE UNCHANGED acked
  /\ Goto(w, "idle")
  /\ UNCHANGED <<row, job, held, tries, mode, doomed, bounds>>

\* The re-read after a missed claim: a stored outcome is acknowledged, a live
\* lease is deferred, an expired one is reclaimed.
ReadMissed(w) ==
  LET i == job[w] IN
  /\ pc[w] = "missed"
  /\ \/ Terminal(i) /\ Ack(i, "stored") /\ Goto(w, "idle")
     \/ /\ status[i] = "processing" /\ expired[i]
        /\ Goto(w, "reclaim") /\ UNCHANGED acked
     \/ /\ ~Terminal(i) /\ ~(status[i] = "processing" /\ expired[i])
        /\ Goto(w, "idle") /\ UNCHANGED acked
  /\ UNCHANGED <<row, job, held, tries, mode, doomed, bounds>>

\* Fault: a reclaim counts as an attempt.
ReclaimCounting(w) ==
  LET i == job[w] IN
  /\ pc[w] = "reclaim"
  /\ \/ /\ status[i] = "processing" /\ expired[i]
        /\ Lease(w, i, attempts[i] + 1)
        /\ Goto(w, IF mode[w] = "shadow" THEN "release" ELSE "prepare")
     \/ /\ ~(status[i] = "processing" /\ expired[i])
        /\ Goto(w, "idle")
        /\ UNCHANGED <<row, held, tries>>
  /\ UNCHANGED <<job, mode, acked, doomed, bounds>>

\* reclaimInbox: only an expired lease is taken over; attempt_count stays.
ReclaimInbox(w) ==
  LET i == job[w] IN
  /\ pc[w] = "reclaim"
  /\ \/ /\ status[i] = "processing" /\ expired[i]
        /\ Lease(w, i, attempts[i])
        /\ Goto(w, IF mode[w] = "shadow" THEN "release" ELSE "prepare")
        /\ UNCHANGED acked
     \/ /\ ~(status[i] = "processing" /\ expired[i])
        /\ IF Terminal(i) THEN Ack(i, "stored") ELSE UNCHANGED acked
        /\ Goto(w, "idle")
        /\ UNCHANGED <<row, held, tries>>
  /\ UNCHANGED <<job, mode, doomed, bounds>>

\* Shadow mode: releaseInboxClaim hands the row back without a terminal write.
ReleaseInboxClaim(w) ==
  LET i == job[w] IN
  /\ pc[w] = "release"
  /\ \/ /\ Fenced(w)
        /\ status'   = [status  EXCEPT ![i] = "received"]
        /\ token'    = [token   EXCEPT ![i] = NULL]
        /\ expired'  = [expired EXCEPT ![i] = FALSE]
        /\ due'      = [due     EXCEPT ![i] = TRUE]
        /\ releases' = releases + 1
        /\ UNCHANGED <<attempts, version, reason, effects, made>>
     \/ ~Fenced(w) /\ UNCHANGED <<row, releases>>
  /\ Goto(w, "idle")
  /\ UNCHANGED <<job, held, tries, mode, acked, doomed, crashes, slow>>

-----------------------------------------------------------------------------
(* Processing a claimed row.                                               *)

\* Read the staged source, verify its digest and parse it, outside any
\* transaction: it succeeds, fails in a way worth retrying (source missing,
\* object store unavailable), or fails for good (digest mismatch, bad MIME).
Prepare(w) ==
  /\ pc[w] = "prepare"
  /\ \E l \in {"commit", "markRetryable", "markTerminal"} : Goto(w, l)
  /\ UNCHANGED <<row, job, held, tries, mode, acked, doomed, bounds>>

\* lockInboxForUpdate also refuses a lease that has expired by its clock.
Locked(w) == Fenced(w) /\ ~expired[job[w]]

\* The writes of runCommitPhase for each outcome of processInboundEmailInApp.
\* 'deduped' links the existing ticket and comment or gives the row up.
CommitPhase(i) ==
  \/ /\ \E e \in {EffectTypes, {"comment"}} : effects' = [effects EXCEPT ![i] = e]
     /\ made' = [made EXCEPT ![i] = @ + 1]
     /\ Finish(i, "succeeded", "none")
  \/ /\ effects' = [effects EXCEPT ![i] = EffectTypes]
     /\ Finish(i, "succeeded", "none")
     /\ UNCHANGED made
  \/ /\ \/ Finish(i, "skipped", "policy")
        \/ Finish(i, "terminal_failed", "permanent")
     /\ UNCHANGED <<effects, made>>

\* The core transaction commits.  When effect rows exist already it writes
\* nothing and the stored outcome of the locked row is acknowledged
\* (terminalReplay).  Otherwise the worker acknowledges what it wrote, or the
\* reply to COMMIT is lost and it takes the transaction for failed.
Commit(w) ==
  LET i == job[w] IN
  /\ pc[w] = "commit"
  /\ Locked(w)
  /\ IF effects[i] # {}
     THEN Ack(i, "stored") /\ Goto(w, "idle") /\ UNCHANGED row
     ELSE /\ CommitPhase(i)
          /\ \/ Ack(i, "commit") /\ Goto(w, "idle")
             \/ UNCHANGED acked /\ Goto(w, "markRetryable")
  /\ UNCHANGED <<job, held, tries, mode, doomed, bounds>>

\* Fault: the ticket is created outside the transaction that rolls back.
RollbackKeepsTicket(w) ==
  LET i == job[w] IN
  /\ pc[w] = "commit"
  /\ IF Locked(w) THEN Goto(w, "markRetryable") ELSE Goto(w, "idle")
  /\ made' = IF Locked(w) THEN [made EXCEPT ![i] = @ + 1] ELSE made
  /\ UNCHANGED <<status, attempts, version, token, expired, due, reason, effects,
                 job, held, tries, mode, acked, doomed, bounds>>

\* The transaction rolls back: the fence is superseded (defer), or a write in
\* it fails (mark the row retryable).
CommitRollback(w) ==
  /\ pc[w] = "commit"
  /\ IF Locked(w) THEN Goto(w, "markRetryable") ELSE Goto(w, "idle")
  /\ UNCHANGED <<row, job, held, tries, mode, acked, doomed, bounds>>

\* markRetryable: the attempt count of the claim decides whether this failure
\* is the last one.
MarkRetryable(w, c) ==
  LET i == job[w] IN
  /\ pc[w] = "markRetryable"
  /\ \/ /\ Fenced(w) /\ tries[w] >= c
        /\ Finish(i, "terminal_failed", "exhausted")
        /\ Ack(i, "exhausted")
        /\ UNCHANGED <<effects, made>>
     \/ /\ Fenced(w) /\ tries[w] < c
        /\ Postpone(i)
        /\ UNCHANGED <<effects, made, acked>>
     \/ /\ ~Fenced(w)
        /\ UNCHANGED <<row, acked>>
  /\ Goto(w, "idle")
  /\ UNCHANGED <<job, held, tries, mode, doomed, bounds>>

\* markTerminalFailed: the result of the fenced UPDATE is not looked at; the
\* wake-up is acknowledged either way.
MarkTerminalFailed(w) ==
  LET i == job[w] IN
  /\ pc[w] = "markTerminal"
  /\ IF Fenced(w)
     THEN Finish(i, "terminal_failed", "permanent") /\ UNCHANGED <<effects, made>>
     ELSE UNCHANGED row
  /\ Ack(i, "permanent")
  /\ Goto(w, "idle")
  /\ UNCHANGED <<job, held, tries, mode, doomed, bounds>>

\* The consumer's heartbeat renews the registered lease, late or not.
RenewInbox(w) ==
  /\ pc[w] \in Claimed
  /\ Fenced(w) /\ expired[job[w]]
  /\ expired' = [expired EXCEPT ![job[w]] = FALSE]
  /\ UNCHANGED <<status, attempts, version, token, due, reason, effects, made,
                 worker, acked, doomed, bounds>>

-----------------------------------------------------------------------------
(* The sweeper, time and failures.                                         *)

\* sweepTenantDurableWork reads the due rows, then dead-letters the ones over
\* its cap one by one; in shadow mode it leaves the inbox alone.
SweepRead(i, c) ==
  /\ "enforce" \in Modes
  /\ OverCap(i, c)
  /\ doomed' = doomed \cup {i}
  /\ UNCHANGED <<row, worker, acked, bounds>>

SweepDeadletter(i) ==
  /\ i \in doomed
  /\ doomed' = doomed \ {i}
  /\ DeadletterInbox(i)
  /\ UNCHANGED <<worker, acked, bounds>>

Holds(w, i) == /\ job[w] = i /\ held[w] = token[i]
               /\ pc[w] \in Claimed

\* A lease nobody renews runs out: its worker is gone, or is only slow.
LeaseExpires(i) ==
  /\ status[i] = "processing" /\ ~expired[i]
  /\ \/ (\A w \in Worker : ~Holds(w, i)) /\ UNCHANGED slow
     \/ (\E w \in Worker : Holds(w, i)) /\ slow < MaxSlow /\ slow' = slow + 1
  /\ expired' = [expired EXCEPT ![i] = TRUE]
  /\ UNCHANGED <<status, attempts, version, token, due, reason, effects, made,
                 worker, acked, doomed, crashes, releases>>

BackoffElapses(i) ==
  /\ status[i] = "retryable_failed" /\ ~due[i]
  /\ due' = [due EXCEPT ![i] = TRUE]
  /\ UNCHANGED <<status, attempts, version, token, expired, reason, effects, made,
                 worker, acked, doomed, bounds>>

\* The process dies: the transaction it was in rolls back, the lease stays.
Crash(w) ==
  /\ pc[w] # "idle"
  /\ crashes < MaxCrashes
  /\ crashes' = crashes + 1
  /\ Goto(w, "idle")
  /\ UNCHANGED <<row, job, held, tries, mode, acked, doomed, slow, releases>>

-----------------------------------------------------------------------------
Wake(w, i) ==
  \E m \in Modes, c \in Caps : ClaimInbox(w, i, m, c) \/ ClaimMiss(w, i, m, c)

Step(w) ==
  \/ ClaimDeadletter(w) \/ ReadMissed(w) \/ ReclaimInbox(w) \/ ReleaseInboxClaim(w)
  \/ Prepare(w) \/ Commit(w) \/ CommitRollback(w)
  \/ (\E c \in Caps : MarkRetryable(w, c)) \/ MarkTerminalFailed(w)

Sweep(i) == (\E c \in Caps : SweepRead(i, c)) \/ SweepDeadletter(i)

Next ==
  \/ \E w \in Worker : Step(w) \/ RenewInbox(w) \/ Crash(w)
  \/ \E w \in Worker, i \in Inbox : Wake(w, i)
  \/ \E i \in Inbox : Sweep(i) \/ LeaseExpires(i) \/ BackoffElapses(i)

Spec == Init /\ [][Next]_vars

\* A running worker takes its next step; a row is woken again and again (the
\* sweeper re-enqueues every due row); leases of dead workers and back-offs
\* run out.  Nothing obliges a heartbeat, a crash or a slow worker.
Fairness ==
  /\ \A w \in Worker : WF_vars(Step(w))
  /\ \A i \in Inbox : /\ SF_vars(\E w \in Worker : Wake(w, i))
                       /\ WF_vars(LeaseExpires(i))
                       /\ WF_vars(BackoffElapses(i))

FairSpec == Spec /\ Fairness

-----------------------------------------------------------------------------
(* Properties.                                                             *)

\* The columns and the worker's locals stay in their domains.
TypeOK ==
  /\ status   \in [Inbox -> Statuses]
  /\ attempts \in [Inbox -> Nat]
  /\ version  \in [Inbox -> Nat]
  /\ token    \in [Inbox -> Nat]
  /\ expired  \in [Inbox -> BOOLEAN]
  /\ due      \in [Inbox -> BOOLEAN]
  /\ reason   \in [Inbox -> Reasons]
  /\ effects  \in [Inbox -> SUBSET EffectTypes]
  /\ made     \in [Inbox -> Nat]
  /\ pc       \in [Worker -> Locations]
  /\ job      \in [Worker -> Inbox]
  /\ held     \in [Worker -> Nat]
  /\ tries    \in [Worker -> Nat]
  /\ mode     \in [Worker -> Modes]
  /\ acked    \in [Inbox -> SUBSET Acks]
  /\ doomed   \subseteq Inbox
  /\ crashes \in Nat /\ slow \in Nat /\ releases \in Nat

\* Exactly once: whatever workers crash, overlap or lose the reply to COMMIT,
\* a message has effect rows exactly when its row is 'succeeded', and its
\* ticket or comment has been created at most once, never for a row that is
\* anything but 'succeeded' (processInboundInbox, runCommitPhase).
EffectsExactlyOnce ==
  \A i \in Inbox : /\ effects[i] # {} <=> status[i] = "succeeded"
                   /\ made[i] <= 1
                   /\ made[i] = 1 => status[i] = "succeeded"

\* Fencing: the token of the row is in the hands of at most one running worker
\* (claimInbox, reclaimInbox).
OneHolder ==
  \A i \in Inbox, v, w \in Worker :
     status[i] = "processing" /\ Holds(v, i) /\ Holds(w, i) => v = w

\* A worker acknowledges a wake-up with a stored outcome, with its own commit
\* or with its last attempt only when the row is terminal, so an ACK never
\* drops the wake-up of an undecided message (storedOutcomeDisposition, the
\* 'ack' returns of processInboundInbox).
AckFromDurableState ==
  \A i \in Inbox : acked[i] \ {"permanent"} # {} => Terminal(i)

\* Retry budget: a row given up for its attempts has made at least as many as
\* some process allows, and apart from the claims that shadow mode handed back
\* no row is attempted more often than the largest cap (claimInbox,
\* markRetryable, deadletterInbox).
RetryBudget ==
  \A i \in Inbox :
     /\ reason[i] = "exhausted" => \E c \in Caps : attempts[i] >= c
     /\ \E c \in Caps : attempts[i] <= c + releases

\* A decided message stays decided: no late worker, sweep or retry rewrites a
\* terminal row (the fence of transitionInbox, the status guards of
\* claimInbox, reclaimInbox and deadletterInbox).
KeepsDecided ==
  \A i \in Inbox : Terminal(i) => /\ status'[i] = status[i]
                                  /\ reason'[i] = reason[i]
                                  /\ effects'[i] = effects[i]
                                  /\ made'[i] = made[i]
TerminalForever == [][KeepsDecided]_vars

\* Every staged message is decided in the end, although workers crash, stall
\* and fail (the retry cap, the reclaim of expired leases, the sweeper).
EventuallyDecided == \A i \in Inbox : <>Terminal(i)

\* The ledger and its workers implement the promise of InboundMessage.
Decision(i) == IF Terminal(i) THEN status[i] ELSE "open"
Promise == INSTANCE InboundMessage WITH
             Message <- Inbox, outcome <- [i \in Inbox |-> Decision(i)], made <- made
Implements == Promise!Spec
=============================================================================

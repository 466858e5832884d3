--------------------------- MODULE InboundIngress ---------------------------
(***************************************************************************)
(* The inbound_email_ingress ledger of one provider and the work that      *)
(* stages its messages (inboundEmailDurableStore.ts,                       *)
(* inboundEmailIngressStagingWorker.ts, the ingress part of                *)
(* inboundEmailRecovery.ts, and the pause columns of email_providers that  *)
(* EmailProviderLifecycleService.ts writes).                               *)
(*                                                                         *)
(* Message m of the mailbox is the m-th to arrive; row m is its pointer    *)
(* (Microsoft reconcile pointer, Gmail notification with historyId m, IMAP *)
(* uid m).  A worker is a stage_ingress job ("job"), an IMAP sync that     *)
(* stages the source it has fetched ("sync"), or a recovery sweep that     *)
(* dead-letters an over-cap row ("sweep").  The provider may be paused and *)
(* resumed at any time.                                                    *)
(***************************************************************************)
EXTENDS Integers, FiniteSetsExt

CONSTANTS
  ProviderTypes,\* the provider_type values of interest
  N,            \* bound: messages that arrive
  Worker,       \* concurrent jobs, syncs and sweeps
  MaxAttempts,  \* getDurableMaxAttempts()
  Threshold,    \* INBOUND_AUTH_FAILURE_PAUSE_THRESHOLD
  MaxPauses,    \* bound: pauses, manual and automatic
  MaxCrashes,   \* bound: worker crashes
  MaxSlow       \* bound: leases that expire under a worker that still runs

ASSUME TypeAssumption   == ProviderTypes \subseteq {"microsoft", "google", "imap"}
ASSUME LimitsAssumption == {N, MaxAttempts, Threshold} \subseteq Nat \ {0}
ASSUME BoundsAssumption == {MaxPauses, MaxCrashes, MaxSlow} \subseteq Nat

Message == 1..N

VARIABLES
  kind,       \* provider_type
  arrived,    \* messages 1..arrived are in the mailbox
  status,     \* inbound_email_ingress.status; "absent" before the insert
  attempts,   \* attempt_count
  version,    \* lease_version
  token,      \* lease_token; 0 is NULL
  expired,    \* lease_expires_at has passed
  due,        \* next_attempt_at is NULL or has passed
  reason,     \* observer: why the row was given up
  inboxed,    \* messages with a staged source and an inbound_email_inbox row
  cursor,     \* last_reconciliation_at, history_id or last_uid, as a message
  pause,      \* inbound_paused_at and inbound_pause_reason
  failures,   \* inbound_auth_failure_count
  watch,      \* Gmail: whether a watch is registered with the provider
  watchId,    \* Gmail: historyId of a watch response not yet stored; -1 is none
  baseline,   \* observer: the newest cursor a watch registration wrote
  at,         \* the workers: where each is, and its locals
  pauses, crashes, slow        \* counters for the bounds

row      == <<status, attempts, version, token, expired, due, reason>>
source   == <<inboxed, cursor>>
provider == <<arrived, pause, failures, watch, watchId, baseline, pauses>>
bounds   == <<kind, crashes, slow>>
vars     == <<row, source, provider, at, bounds>>

NULL == 0

TerminalStatuses == {"staged", "terminal_failed"}
Statuses   == {"absent", "received", "staging", "retryable_failed"} \cup TerminalStatuses
Reasons    == {"none", "exhausted", "permanent"}
Pauses     == {"none", "manual", "auth_failure"}
Kinds      == {"job", "sync", "sweep"}
Errors     == {"retryable", "permanent"}
Claimed    == {"fetch", "persist", "advance", "finish", "failed", "parkClaim", "mark"}
Locations  == {"idle", "claim", "overCap", "deadletter", "parkCheck", "park", "missed",
               "catchUp", "reclaim", "synced"} \cup Claimed

\* A worker: its place in the code, its kind, the row it works on, the lease
\* token and attempt count of its claim, the messages it has fetched and not
\* yet persisted, and the class of the error it is handling.
WorkerState == [pc : Locations, via : Kinds, job : Message, held : Nat, tries : Nat,
                todo : SUBSET Message, err : Errors]
Idle == [pc |-> "idle", via |-> "job", job |-> 1, held |-> NULL, tries |-> 0,
         todo |-> {}, err |-> "retryable"]

Paused      == pause # "none"
Terminal(i) == status[i] \in TerminalStatuses

Init ==
  /\ kind \in ProviderTypes
  /\ arrived  = 0
  /\ status   = [i \in Message |-> "absent"]
  /\ attempts = [i \in Message |-> 0]
  /\ version  = [i \in Message |-> 0]
  /\ token    = [i \in Message |-> NULL]
  /\ expired  = [i \in Message |-> FALSE]
  /\ due      = [i \in Message |-> TRUE]
  /\ reason   = [i \in Message |-> "none"]
  /\ inboxed  = {} /\ cursor = 0
  /\ pause    = "none" /\ failures = 0
  /\ watch    = "registered" /\ watchId = -1 /\ baseline = 0
  /\ at       = [w \in Worker |-> Idle]
  /\ pauses = 0 /\ crashes = 0 /\ slow = 0

-----------------------------------------------------------------------------
(* Statements on the row.                                                  *)

At(w, l)     == at[w].pc = l
Become(w, s) == at' = [at EXCEPT ![w] = s]

\* A worker moves on; one that is done forgets its locals.
Goto(w, l) == Become(w, IF l = "idle" THEN Idle ELSE [at[w] EXCEPT !.pc = l])

\* The WHERE clause of every fenced UPDATE of a claimed row.
Fenced(w) == status[at[w].job] = "staging" /\ token[at[w].job] = at[w].held

\* Fault: a retryable row is claimed whatever its attempt count.
ClaimableUncapped(i) == status[i] = "received" \/ (status[i] = "retryable_failed" /\ due[i])

\* The two conditional UPDATEs of claimIngress.
Claimable(i) ==
  \/ status[i] = "received"
  \/ status[i] = "retryable_failed" /\ attempts[i] < MaxAttempts /\ due[i]

OverCap(i) == status[i] = "retryable_failed" /\ due[i] /\ attempts[i] >= MaxAttempts

\* makeLeaseFields and lease_version + 1; the worker goes on at l with the row
\* it got back and the sources s it has in hand.
Lease(w, i, n, l, s) ==
  /\ status'   = [status   EXCEPT ![i] = "staging"]
  /\ attempts' = [attempts EXCEPT ![i] = n]
  /\ version'  = [version  EXCEPT ![i] = @ + 1]
  /\ token'    = [token    EXCEPT ![i] = version[i] + 1]
  /\ expired'  = [expired  EXCEPT ![i] = FALSE]
  /\ due'      = [due      EXCEPT ![i] = TRUE]
  /\ Become(w, [at[w] EXCEPT !.pc = l, !.held = version[i] + 1, !.tries = n, !.todo = s])
  /\ UNCHANGED reason

\* A terminal UPDATE clears the lease.
Settle(i, st, why) ==
  /\ status'  = [status  EXCEPT ![i] = st]
  /\ token'   = [token   EXCEPT ![i] = NULL]
  /\ expired' = [expired EXCEPT ![i] = FALSE]
  /\ due'     = [due     EXCEPT ![i] = TRUE]
  /\ reason'  = [reason  EXCEPT ![i] = why]
  /\ UNCHANGED <<attempts, version>>

\* The retryable UPDATE keeps the lease columns and sets next_attempt_at.
Postpone(i) ==
  /\ status' = [status EXCEPT ![i] = "retryable_failed"]
  /\ due'    = [due    EXCEPT ![i] = FALSE]
  /\ UNCHANGED <<attempts, version, token, expired, reason>>

\* The row is put aside for the length of the pause, its attempts voided.
Park(i) ==
  /\ status'   = [status   EXCEPT ![i] = "retryable_failed"]
  /\ attempts' = [attempts EXCEPT ![i] = 0]
  /\ token'    = [token    EXCEPT ![i] = NULL]
  /\ expired'  = [expired  EXCEPT ![i] = FALSE]
  /\ due'      = [due      EXCEPT ![i] = FALSE]
  /\ UNCHANGED <<version, reason>>

\* Fault: the conflicting row is reset, as by an upsert with merge.
InsertMerging(i) ==
  /\ status' = [status EXCEPT ![i] = "received"]
  /\ UNCHANGED <<attempts, version, token, expired, due, reason>>

\* upsertIngress: insert, on conflict ignore, return the row there is.
Insert(i) ==
  /\ status' = [status EXCEPT ![i] = IF @ = "absent" THEN "received" ELSE @]
  /\ UNCHANGED <<attempts, version, token, expired, due, reason>>

-----------------------------------------------------------------------------
(* The provider: mail arrives, pointers are persisted, ingestion is paused *)
(* and resumed.                                                            *)

Arrive ==
  /\ arrived < N
  /\ arrived' = arrived + 1
  /\ UNCHANGED <<row, source, pause, failures, watch, watchId, baseline, pauses,
                 at, bounds>>

\* persistIngressPointer: webhook, notification or reconcile pass, once or again.
PersistIngressPointer(i) ==
  /\ kind # "imap" /\ i <= arrived
  /\ Insert(i)
  /\ UNCHANGED <<source, provider, at, bounds>>

\* The same for the auth-pause recovery, which revives a terminal row.
ReviveTerminalIngress(i) ==
  /\ kind = "microsoft" /\ pause = "auth_failure" /\ status[i] = "terminal_failed"
  /\ status'   = [status   EXCEPT ![i] = "received"]
  /\ attempts' = [attempts EXCEPT ![i] = 0]
  /\ reason'   = [reason   EXCEPT ![i] = "none"]
  /\ UNCHANGED <<version, token, expired, due, source, provider, at, bounds>>

PauseProvider ==
  /\ ~Paused /\ pauses < MaxPauses
  /\ pause' = "manual" /\ pauses' = pauses + 1
  /\ watch' = "stopped"
  /\ UNCHANGED <<row, source, arrived, failures, watchId, baseline, at, bounds>>

\* resumeProvider, and clearAuthPause at the end of an auth recovery: the
\* counter starts afresh.  A Gmail recovery has registered a watch by then, an
\* IMAP recovery has armed a resync from uid 1.
ResumeProvider ==
  /\ Paused
  /\ kind = "google" /\ pause = "auth_failure" => watch = "registered" /\ watchId = -1
  /\ cursor' = IF kind = "imap" /\ pause = "auth_failure" THEN 0 ELSE cursor
  /\ pause' = "none" /\ failures' = 0
  /\ UNCHANGED <<row, inboxed, arrived, watch, watchId, baseline, pauses, at, bounds>>

\* establishProviderDelivery for Gmail: after a manual resume, before the end
\* of an auth recovery.  The watch answers with the mailbox's current historyId.
RegisterWatch ==
  /\ kind = "google"
  /\ watch = "stopped" /\ watchId = -1 /\ pause # "manual"
  /\ watch' = "registered" /\ watchId' = arrived
  /\ UNCHANGED <<row, source, arrived, pause, failures, baseline, pauses, at, bounds>>

\* That historyId then replaces the stored cursor, whatever it is by now; a
\* failure of the UPDATE is only logged.
StoreWatch ==
  /\ watchId # -1
  /\ \/ cursor' = watchId /\ baseline' = Max({baseline, watchId})
     \/ UNCHANGED <<cursor, baseline>>
  /\ watchId' = -1
  /\ UNCHANGED <<row, inboxed, arrived, pause, failures, watch, pauses, at, bounds>>

-----------------------------------------------------------------------------
(* Claiming a row: claimIngress, with deadletterIngress for a row over the *)
(* cap, and what processIngressStageJob does when there is no claim.       *)

Begin(w, k, i, l) == Become(w, [Idle EXCEPT !.pc = l, !.via = k, !.job = i])

\* The pause gate of processIngressStageJob; a paused wake-up is dropped.
Wake(w, i) ==
  /\ At(w, "idle")
  /\ status[i] # "absent" /\ ~Paused
  /\ Begin(w, "job", i, "claim")
  /\ UNCHANGED <<row, source, provider, bounds>>

\* stageIngressFromReadySource for uid i: the row is inserted, or read.
ReadySource(w, i) ==
  /\ i <= arrived
  /\ Insert(i)
  /\ Begin(w, "sync", i, IF Terminal(i) THEN "synced" ELSE "claim")
  /\ UNCHANGED <<source, provider, bounds>>

\* One listener syncs a folder.
SyncStart(w) ==
  /\ kind = "imap" /\ At(w, "idle")
  /\ \A v \in Worker : at[v].via # "sync"
  /\ ReadySource(w, cursor + 1)

\* The sweep has read row i as due and over the cap, its provider not paused.
SweepRead(w, i) ==
  /\ At(w, "idle")
  /\ OverCap(i) /\ ~Paused
  /\ Begin(w, "sweep", i, "deadletter")
  /\ UNCHANGED <<row, source, provider, bounds>>

\* Where a worker goes on once a row could not be claimed.
Unclaimed(w) ==
  Goto(w, CASE at[w].via = "job"  -> "missed"
            [] at[w].via = "sync" -> "synced"
            [] OTHER              -> "idle")

ClaimIngress(w) ==
  LET i == at[w].job IN
  /\ At(w, "claim")
  /\ \/ /\ Claimable(i)
        /\ IF at[w].via = "sync" THEN Lease(w, i, attempts[i] + 1, "persist", {i})
                                 ELSE Lease(w, i, attempts[i] + 1, "fetch", {})
     \/ /\ ~Claimable(i)
        /\ IF OverCap(i) THEN Goto(w, "overCap") ELSE Unclaimed(w)
        /\ UNCHANGED row
  /\ UNCHANGED <<source, provider, bounds>>

\* The early pause read of claimIngress.
ReadPauseOverCap(w) ==
  /\ At(w, "overCap")
  /\ IF Paused THEN Unclaimed(w) ELSE Goto(w, "deadletter")
  /\ UNCHANGED <<row, source, provider, bounds>>

\* Fault: the terminal UPDATE relies on the pause read before it.
DeadletterUnguarded(w) ==
  LET i == at[w].job IN
  /\ At(w, "deadletter")
  /\ \/ /\ status[i] = "retryable_failed"
        /\ Settle(i, "terminal_failed", "exhausted")
        /\ Unclaimed(w)
     \/ /\ status[i] # "retryable_failed"
        /\ Goto(w, "parkCheck")
        /\ UNCHANGED row
  /\ UNCHANGED <<source, provider, bounds>>

\* deadletterIngress: the terminal UPDATE repeats the status and the pause
\* state, not the attempts of the row that was read.
DeadletterIngress(w) ==
  LET i == at[w].job IN
  /\ At(w, "deadletter")
  /\ \/ /\ status[i] = "retryable_failed" /\ ~Paused
        /\ Settle(i, "terminal_failed", "exhausted")
        /\ Unclaimed(w)
     \/ /\ ~(status[i] = "retryable_failed" /\ ~Paused)
        /\ Goto(w, "parkCheck")
        /\ UNCHANGED row
  /\ UNCHANGED <<source, provider, bounds>>

ReadPauseToPark(w) ==
  /\ At(w, "parkCheck")
  /\ IF Paused THEN Goto(w, "park") ELSE Unclaimed(w)
  /\ UNCHANGED <<row, source, provider, bounds>>

ParkOverCap(w) ==
  /\ At(w, "park")
  /\ IF status[at[w].job] = "retryable_failed" THEN Park(at[w].job) ELSE UNCHANGED row
  /\ Unclaimed(w)
  /\ UNCHANGED <<source, provider, bounds>>

\* Fault: an expired lease is deferred like a live one.
ReadMissedNoReclaim(w) ==
  /\ At(w, "missed")
  /\ Goto(w, IF Terminal(at[w].job) /\ kind = "microsoft" THEN "catchUp" ELSE "idle")
  /\ UNCHANGED <<row, source, provider, bounds>>

\* The re-read of a job without a claim.  A settled row, staged or not, lets
\* the Microsoft cursor catch up; an expired lease is reclaimed.
ReadMissed(w) ==
  LET i == at[w].job IN
  /\ At(w, "missed")
  /\ Goto(w, CASE Terminal(i) /\ kind = "microsoft"          -> "catchUp"
               [] status[i] = "staging" /\ expired[i]        -> "reclaim"
               [] OTHER                                      -> "idle")
  /\ UNCHANGED <<row, source, provider, bounds>>

\* The cursor UPDATEs, monotonic in the statement (GREATEST, or history_id <).
AdvanceCursor(i) == cursor' = Max({cursor, i})

\* maybeAdvanceMicrosoftReconcileCursor swallows its errors.
CatchUp(w) ==
  /\ At(w, "catchUp")
  /\ AdvanceCursor(at[w].job) \/ UNCHANGED cursor
  /\ Goto(w, "idle")
  /\ UNCHANGED <<row, inboxed, provider, bounds>>

\* reclaimIngress: only an expired lease is taken over; attempt_count stays.
ReclaimIngress(w) ==
  LET i == at[w].job IN
  /\ At(w, "reclaim")
  /\ \/ /\ status[i] = "staging" /\ expired[i]
        /\ Lease(w, i, attempts[i], "fetch", {})
     \/ /\ ~(status[i] = "staging" /\ expired[i])
        /\ Goto(w, "idle")
        /\ UNCHANGED row
  /\ UNCHANGED <<source, provider, bounds>>

-----------------------------------------------------------------------------
(* Staging a claimed row: stageIngressSources, transitionIngress and the   *)
(* error path.                                                             *)

Fail(w, e) == Become(w, [at[w] EXCEPT !.pc = "failed", !.err = e, !.todo = {}])

\* Fault: only the message of the notification is staged.
ListingOwnMessage(w) == {at[w].job}

\* What the provider returns for the row: Gmail lists the history since the
\* stored cursor, the others fetch the one message.
Listing(w) == IF kind = "google" THEN (cursor + 1)..arrived ELSE {at[w].job}

\* Source access succeeds (recordSourceAccessSuccess); an empty Gmail history
\* is an error that is not retried.
FetchSource(w) ==
  /\ At(w, "fetch")
  /\ failures' = 0
  /\ \/ Listing(w) # {} /\ Become(w, [at[w] EXCEPT !.pc = "persist", !.todo = Listing(w)])
     \/ Listing(w) = {} /\ Fail(w, "permanent")
  /\ UNCHANGED <<row, source, arrived, pause, watch, watchId, baseline, pauses,
                 bounds>>

FetchError(w) ==
  /\ At(w, "fetch")
  /\ \E e \in Errors : Fail(w, e)
  /\ UNCHANGED <<row, source, provider, bounds>>

\* recordUnrecoverableAuthFailure: the count and the pause in one transaction.
\* Gmail sources are downloaded one by one, so it may come half-way.
FetchAuthFailure(w) ==
  /\ At(w, "fetch") \/ (kind = "google" /\ At(w, "persist"))
  /\ \E e \in Errors : Fail(w, e)
  /\ \/ Paused /\ UNCHANGED <<failures, pause, watch, pauses>>
     \/ /\ ~Paused /\ failures + 1 < Threshold
        /\ failures' = failures + 1 /\ UNCHANGED <<pause, watch, pauses>>
     \/ /\ ~Paused /\ failures + 1 >= Threshold
        /\ pauses < MaxPauses /\ pauses' = pauses + 1
        /\ failures' = failures + 1 /\ pause' = "auth_failure" /\ watch' = "stopped"
  /\ UNCHANGED <<row, source, arrived, watchId, baseline, bounds>>

\* The next message, or what follows once every fetched source is persisted.
Persisted(w, m) ==
  Become(w, [at[w] EXCEPT !.todo = at[w].todo \ {m},
                          !.pc = IF at[w].todo # {m} THEN "persist"
                                 ELSE IF kind = "imap" THEN "finish" ELSE "advance"])

\* Fault: a failed download is skipped.
PersistSkipping(w) ==
  /\ At(w, "persist")
  /\ \E m \in at[w].todo : /\ \A n \in at[w].todo : m <= n
                          /\ inboxed' \in {inboxed, inboxed \cup {m}}
                          /\ Persisted(w, m)
  /\ UNCHANGED <<row, cursor, provider, bounds>>

\* persistStagedInbox: upload and upsertInbox, idempotent, in listing order.
PersistStagedInbox(w) ==
  /\ At(w, "persist")
  /\ \E m \in at[w].todo : /\ \A n \in at[w].todo : m <= n
                          /\ inboxed' = inboxed \cup {m}
                          /\ Persisted(w, m)
  /\ UNCHANGED <<row, cursor, provider, bounds>>

\* A download, an upload or the insert fails.
PersistError(w) ==
  /\ At(w, "persist")
  /\ \E e \in Errors : Fail(w, e)
  /\ UNCHANGED <<row, source, provider, bounds>>

\* The cursor moves before the row is staged, whoever holds the lease by now.
\* Only the Microsoft UPDATE swallows its errors.
AdvanceProviderCursor(w) ==
  /\ At(w, "advance")
  /\ \/ AdvanceCursor(at[w].job) /\ Goto(w, "finish")
     \/ kind = "microsoft" /\ Goto(w, "finish") /\ UNCHANGED cursor
     \/ kind = "google" /\ Fail(w, "retryable") /\ UNCHANGED cursor
  /\ UNCHANGED <<row, inboxed, provider, bounds>>

\* The fenced transition to 'staged'; a lost fence leaves the row alone.
TransitionStaged(w) ==
  /\ At(w, "finish")
  /\ IF Fenced(w) THEN Settle(at[w].job, "staged", "none") ELSE UNCHANGED row
  /\ Goto(w, IF at[w].via = "sync" THEN "synced" ELSE "idle")
  /\ UNCHANGED <<source, provider, bounds>>

\* The error path reads the pause state before it decides.  Direct staging
\* does not: it postpones the row, whatever its attempts, and aborts the sync.
HandleError(w) ==
  /\ At(w, "failed")
  /\ \/ /\ at[w].via = "job"
        /\ Goto(w, IF Paused THEN "parkClaim" ELSE "mark")
        /\ UNCHANGED row
     \/ /\ at[w].via = "sync"
        /\ IF Fenced(w) THEN Postpone(at[w].job) ELSE UNCHANGED row
        /\ Goto(w, "idle")
  /\ UNCHANGED <<source, provider, bounds>>

ParkIngressWhilePaused(w) ==
  /\ At(w, "parkClaim")
  /\ IF Fenced(w) THEN Park(at[w].job) ELSE UNCHANGED row
  /\ Goto(w, "idle")
  /\ UNCHANGED <<source, provider, bounds>>

MarkFailed(w) ==
  /\ At(w, "mark")
  /\ IF ~Fenced(w) THEN UNCHANGED row
     ELSE IF at[w].err = "retryable" /\ at[w].tries < MaxAttempts
          THEN Postpone(at[w].job)
          ELSE Settle(at[w].job, "terminal_failed",
                      IF at[w].err = "retryable" THEN "exhausted" ELSE "permanent")
  /\ Goto(w, "idle")
  /\ UNCHANGED <<source, provider, bounds>>

\* The IMAP sync goes on with the next uid, or ends and stores last_uid.  What
\* stageReadyInboundSource returned is not looked at.
SyncNext(w) ==
  /\ At(w, "synced")
  /\ ReadySource(w, at[w].job + 1)

SyncEnd(w) ==
  /\ At(w, "synced")
  /\ cursor' = at[w].job
  /\ Goto(w, "idle")
  /\ UNCHANGED <<row, inboxed, provider, bounds>>

-----------------------------------------------------------------------------
(* Time and failures.                                                      *)

Holds(w, i) == at[w].pc \in Claimed /\ at[w].job = i /\ at[w].held = token[i]

\* Nothing renews an ingress lease: it runs out under a slow worker too.
LeaseExpires(i) ==
  /\ status[i] = "staging" /\ ~expired[i]
  /\ \/ (\A w \in Worker : ~Holds(w, i)) /\ UNCHANGED slow
     \/ (\E w \in Worker : Holds(w, i)) /\ slow < MaxSlow /\ slow' = slow + 1
  /\ expired' = [expired EXCEPT ![i] = TRUE]
  /\ UNCHANGED <<status, attempts, version, token, due, reason, source, provider,
                 at, kind, crashes>>

BackoffElapses(i) ==
  /\ status[i] = "retryable_failed" /\ ~due[i]
  /\ due' = [due EXCEPT ![i] = TRUE]
  /\ UNCHANGED <<status, attempts, version, token, expired, reason, source, provider,
                 at, bounds>>

Crash(w) ==
  /\ ~At(w, "idle") /\ crashes < MaxCrashes
  /\ crashes' = crashes + 1
  /\ Goto(w, "idle")
  /\ UNCHANGED <<row, source, provider, kind, slow>>

-----------------------------------------------------------------------------
Step(w) ==
  \/ ClaimIngress(w) \/ ReadPauseOverCap(w) \/ DeadletterIngress(w)
  \/ ReadPauseToPark(w) \/ ParkOverCap(w) \/ ReadMissed(w) \/ CatchUp(w)
  \/ ReclaimIngress(w) \/ FetchSource(w) \/ FetchError(w) \/ FetchAuthFailure(w)
  \/ PersistStagedInbox(w) \/ PersistError(w) \/ AdvanceProviderCursor(w)
  \/ TransitionStaged(w) \/ HandleError(w) \/ ParkIngressWhilePaused(w)
  \/ MarkFailed(w) \/ SyncNext(w) \/ SyncEnd(w)

Next ==
  \/ Arrive \/ PauseProvider \/ ResumeProvider \/ RegisterWatch \/ StoreWatch
  \/ \E i \in Message : \/ PersistIngressPointer(i) \/ ReviveTerminalIngress(i)
                        \/ LeaseExpires(i) \/ BackoffElapses(i)
  \/ \E w \in Worker : Step(w) \/ SyncStart(w) \/ Crash(w)
  \/ \E w \in Worker, i \in Message : Wake(w, i) \/ SweepRead(w, i)

Spec == Init /\ [][Next]_vars

\* A running worker takes its next step, the sweeper wakes every row that is
\* due again and again, leases nobody holds and back-offs run out.  Nothing
\* obliges a pause, a resume, a crash or a slow worker.
Fairness ==
  /\ \A w \in Worker : WF_vars(Step(w))
  /\ \A i \in Message : /\ SF_vars(\E w \in Worker : Wake(w, i))
                        /\ WF_vars(LeaseExpires(i)) /\ WF_vars(BackoffElapses(i))

FairSpec == Spec /\ Fairness

-----------------------------------------------------------------------------
(* Properties.                                                             *)

\* The columns and the worker's locals stay in their domains.
TypeOK ==
  /\ kind     \in ProviderTypes
  /\ arrived  \in 0..N
  /\ status   \in [Message -> Statuses]
  /\ attempts \in [Message -> Nat]
  /\ version  \in [Message -> Nat]
  /\ token    \in [Message -> Nat]
  /\ expired  \in [Message -> BOOLEAN]
  /\ due      \in [Message -> BOOLEAN]
  /\ reason   \in [Message -> Reasons]
  /\ inboxed  \subseteq Message /\ cursor \in 0..N
  /\ pause    \in Pauses /\ failures \in 0..Threshold
  /\ watch    \in {"stopped", "registered"}
  /\ watchId  \in -1..N /\ baseline \in 0..N
  /\ at       \in [Worker -> WorkerState]
  /\ pauses \in Nat /\ crashes \in Nat /\ slow \in Nat

Covered(m) == m \in inboxed \/ m <= baseline

\* A row is 'staged' only when its message has an inbox row, although the
\* lease may have changed hands between the insert and the transition and a
\* batch may have failed half-way.  For Gmail, messages older than a newly
\* registered watch are excepted (processIngressStageJob, stageGoogleSources).
StagedIsDurable == \A i \in Message : status[i] = "staged" => Covered(i)

\* The Gmail history cursor covers only messages with an inbox row, or older
\* than the last registered watch, in whatever order notifications are staged
\* (stageGoogleSources lists from the stored cursor and raises it at the end).
HistoryCursorSound == kind = "google" => \A m \in 1..cursor : Covered(m)

\* A row waiting for its next attempt is never given up while the provider is
\* paused, even when the pause lands after the sweep or the claim has read it
\* as over the cap (deadletterIngress).
DeadletterRespectsPause ==
  [][\A i \in Message :
       status[i] = "retryable_failed" /\ status'[i] = "terminal_failed" => ~Paused]_vars

\* No row is claimed more often than the cap allows before it is parked or
\* revived (claimIngress, markers of the worker and of direct staging).
AttemptsCapped == \A i \in Message : attempts[i] <= MaxAttempts

\* A staged message stays staged: no late worker, park, sweep or duplicate
\* notification takes it back (the fence and the status guards).
KeepsStaged ==
  /\ \A i \in Message : status[i] = "staged" => status'[i] = "staged"
  /\ inboxed \subseteq inboxed'
StagedForever == [][KeepsStaged]_vars

\* The cursor that staging writes never goes back; only a new Gmail watch or
\* an IMAP resync moves it down.
CursorRises == [][cursor' < cursor => \/ watchId # -1 /\ watchId' = -1
                                      \/ kind = "imap"]_vars

\* Once the provider stays unpaused every pointer is settled in the end,
\* although workers crash, stall and fail.
EventuallySettled ==
  (<>[]~Paused) => \A i \in Message : (status[i] # "absent") ~> Terminal(i)

\* inboundEmailIngressStagingWorker.ts: "Never advances a provider cursor past a
\* message whose source could not be staged - producers persist ingress before
\* cursor advancement".  EmailWebhookMaintenanceService.ts and emailService.ts
\* say the same of last_reconciliation_at and of last_uid.
CursorOnlyPastStaged ==
  \A i \in 1..cursor : status[i] # "absent" => i \in inboxed
=============================================================================

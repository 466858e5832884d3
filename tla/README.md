# Verification of Alga PSA's durable inbound email pipeline

Alga PSA is a large TypeScript application (tickets, billing, projects, portals,
integrations). Where its correctness rests on concurrency and failure is, first of all,
the **durable inbound email pipeline**: provider notifications become tickets and comments,
exactly once, and events, notifications and mails follow, although workers crash, leases
expire, wake-ups are duplicated, providers are paused and several processes work on the
same rows. A second such part is the **credit account of the AI gateway**. This project
models both in TLA+, checks them with TLC and proves the safety of every component with
TLAPS.

## 1. Inventory

    provider --> producers --> inbound_email_ingress --> staging worker --> inbound_email_inbox
                                     ^                        |                    |
     pause / resume / recovery ------+        provider cursors+             core processor
                                                                                   |
        consumers <-- deliveries <-- event bus <-- outbox dispatcher <-- effects, outbox, artifacts

Redis carries wake-ups (V2 queue) and events (streams); Postgres rows are the truth. The
recovery sweeper re-creates lost wake-ups and dead-letters rows over their retry cap.

| Component | State | Operations | What makes it correct | Module |
|---|---|---|---|---|
| Inbox ledger, core processor (`inboundEmailCoreProcessor.ts`, inbox part of `inboundEmailDurableStore.ts`) | status, attempts, lease (owner, token, version, expiry), outcome; effect rows | claim, reclaim, release (shadow), commit, mark retryable / terminal, dead-letter | effects exactly once, one lease holder, ACK only from durable state, retry budget, every message decided | `InboundInbox` |
| Ingress ledger, staging worker (`inboundEmailIngressStagingWorker.ts`, producer) | the same columns; provider cursors | persist pointer, claim, reclaim, stage, park, revive, dead-letter, advance cursor | nothing marked staged that is not; cursors do not pass unstaged mail; paused rows survive; every pointer settled | `InboundIngress` (partly) |
| IMAP listener (`services/email-service`) | folder cursor | sync, direct staging | `last_uid` only past staged mail | in `InboundIngress` (partly) |
| Outbox ledger and dispatcher (`inboundEmailOutboxDispatcher.ts`) | status, attempts, lease | claim, publish, mark, dead-letter | an event is published at least once or given up; duplicates are accounted for | `InboundOutbox` |
| Delivery ledger (`inboundEmailConsumerDedupe.ts`, gated subscribers) | reservation per event and consumer | reserve, take over, deliver, complete, fail, re-drive, republish | transactional effects exactly once, leased ones within a window, nothing acknowledged is lost | `InboundDelivery` |
| Event bus (`packages/event-bus`) | streams, pending entries, processed and handled sets, dead letters | publish, read, claim pending, dispatch, acknowledge, dead-letter | acknowledged means handled or dead-lettered; bounded redelivery; strict publishes are never silent | `EventBus` (partly) |
| Redis queue V2 and its consumer (`unifiedInboundEmailQueueV2.ts`, `...ConsumerV2.ts`) | ready, delayed, processing, inflight, leases, dead letters | enqueue, claim, ack, fail, defer, renew, reclaim, pump | a job is in exactly one place; no hand-out and no giving-up that nothing accounts for; only the holder settles | `InboundQueue` |
| Provider lifecycle (`EmailProviderLifecycleService.ts`, Gmail) | pause, failure count, watch, `history_id` | pause, auto-pause, resume, recover, reconnect, renew, reset | told once per pause; no message between cursor and durable rows; a dead watch shows | `ProviderLifecycle` (partly) |
| Recovery sweeper (`inboundEmailRecovery.ts`) | none of its own | sweep, backfill, mirror | never terminalizes what a pause or a worker holds | with each ledger (partly) |
| AI gateway (`services/ai-gateway`) | account, ledger, top-up jobs, webhook events | debit, grant, renew, adjust, enqueue, claim, charge, webhooks | balance is the ledger, one grant per payment told of, bounded overshoot, one active job | `AiGateway` (partly) |
| Artifact ledger, webhook maintenance, legacy queue, distributed lock, workflow runtime, delayed outbound mail, inventory, billing, SLA, jobs, UI, integrations | | | | not modelled (section 6) |

The hard behaviours are listed line by line as hazards in `PROJECT.json`: a worker that
outlives its lease; a crash or a lost reply between a transaction and its ACK; decisions
taken on a row read earlier (dead-letter, park, pause, admission); cursors shared by
pointers staged out of order; a pause, a new Gmail watch or a second recovery landing in
the middle; a handler that times out and runs on; two processes on one stream entry;
webhooks repeated, reordered and sent under several event ids; processes with different caps and modes.

## 2. Modules

| Module | What it is |
|---|---|
| `InboundMessage` | The abstract promise: a message is decided once; its ticket or comment is created at most once, together with that decision. |
| `InboundInbox` | The inbox ledger, its workers, the sweeper, time and crashes. Refines `InboundMessage`. |
| `InboundIngress` | The ingress ledger of one provider with its jobs, IMAP syncs and sweeps, cursor, pause state and Gmail watch. |
| `InboundOutbox` | The outbox ledger and `processInboundOutboxJob`. |
| `InboundDelivery` | The delivery rows of one event, the gate before its consumers, and re-driving. Its transactional consumers refine `InboundMessage`. |
| `EventBus` | One stream of the event bus, its publishers and the processes of its group. |
| `InboundQueue` | The Lua scripts of the V2 queue and the loop that consumes it. |
| `ProviderLifecycle` | Pauses, resumes, recoveries, reconnects and renewals of one Gmail provider. |
| `AiGateway` | One credit account with its requests, poller ticks, jobs and webhooks. |
| `<module>Proofs` | Theorems about the module (every one but `InboundMessage`). |
| `MC<module>` | Sets of processes as model values and, where used, their symmetry. |

How the components meet. `InboundInbox`, and `InboundDelivery` for its transactional
consumers, implement `InboundMessage` by refinement mappings. The others meet at an interface that one side promises and the other assumes: a
row that `InboundIngress` stages is a row `InboundInbox` starts with; a commit of
`InboundInbox` inserts the row with which `InboundOutbox` starts; a publish that
`InboundOutbox` records is an entry in `EventBus` (`StrictNeverSilent` is what makes its
"accepted" mean written); an entry that `EventBus` offers again until it is acknowledged is
`Invoke` and `Start` of `InboundDelivery`; and a job of `InboundQueue` is the wake-up that each
ledger takes as at-least-once. `InboundIngress` and `ProviderLifecycle` both have pauses:
the first for what they do to rows and cursors of any provider, the second for the steps of
the operations themselves, on Gmail.

Operators with a comment that starts with "Fault" are wrong variants of the definition that
follows them. Nothing refers to them; they are substituted one at a time to see that the
properties notice.

### InboundInbox and the code

One variable per column, `effects` for the rows of `inbound_email_effects`, and one function
per local of a running `processInboundInbox` (`pc`, `job`, `held`, `tries`, `mode`). A
random lease token is represented by the `lease_version` it was generated with, so token
and version are one number. Time is two booleans per row: the lease has expired, the
back-off has elapsed.

One action is one SQL statement or one transaction, because Postgres makes exactly these
atomic. `claimInbox` runs two UPDATEs and a read; the three are one action (`ClaimInbox` or
`ClaimMiss`), since a miss followed by a later read equals a miss at the time of that read.
Its dead-letter UPDATE is an action of its own, as are the re-read and the reclaim. Reading
and parsing the source (`Prepare`) may succeed, fail worth a retry, or fail for good. The
core transaction commits (`Commit`, whose reply may be lost), or rolls back
(`CommitRollback`). An exception thrown by a statement outside the transaction leaves the
worker as a crash does. `made` and `acked` are observers: no action reads them. `acked`
holds why wake-ups were acknowledged; the ACK of a shadow release, which is by design not
about an outcome, is not recorded. `Caps` and `Modes` are sets because each process reads
its own environment; every claim, miss, failure and sweep picks one.

### InboundIngress and the code

The mailbox is the sequence of messages `1..arrived`; message `m` is at once the `m`-th
received time (Microsoft), the notification with `historyId` `m` (Gmail) and the uid `m`
(IMAP), and its ingress row has the same number, so that all three cursors are numbers in
`0..N`. `kind`, chosen in the initial state from `ProviderTypes`, selects the provider. A
worker record is one execution of `processIngressStageJob` ("job"), one IMAP sync of a
folder ("sync", at most one at a time), or one dead-letter decision of the sweeper
("sweep"). All Microsoft pointers are maintenance-reconcile pointers, the ones that move
`last_reconciliation_at`.

The pause reads are separate from the writes that follow them, as in the code: the gate of
the job (`Wake`), the early read in `claimIngress` (`ReadPauseOverCap`), the guard inside
the terminal UPDATE (`DeadletterIngress`), the fresh read before parking
(`ReadPauseToPark`), and the read in the error path (`HandleError`). A Gmail watch is
registered in one step and its `historyId` stored in a later one (`RegisterWatch`,
`StoreWatch`). `reason` and `baseline` are observers.

### InboundOutbox and the code

`row` is a record per outbox row; a dispatcher is one `processInboundOutboxJob`. The claim
misses, diagnoses, dead-letters, re-reads and reclaims as in the inbox, one statement per
action. No transaction is open while the dispatcher talks to Redis: `Publish`,
`PublishRefused` and `PublishReplyLost` are the three things that may come of it, and the
fenced writes that follow (`MarkPublished`, `MarkFailed`) change nothing when the lease has
gone. `sent`, `expiries` and `lost` are observers.

### InboundDelivery and the code

One event; `audience` is the set of consumers its type is for. A handler record holds the
cap of the process it runs in. A consumer in `Tx` reserves,
has its effect and marks 'delivered' in one transaction (`TxDeliver`, `TxRollback`,
`TxSkip`), with the failure recorded in a second, unfenced one (`RecordFailure`). The others
go through the reservation and the lease of `withInboundOutboxDelivery`. A gate that cannot
reach the tenant or the ledger dispatches past it (`Bypass`, `EffectUnledgered`), as the
code does; `Swallow` names the consumers whose un-gated dispatch logs an error and returns
when the connection failed: webhooks, RMM alerts, and the internal notifications, whose
handlers rethrow only when the ledger's transaction asks them to
(`internalNotificationSubscriber.ts:218`, `:483`, dispatched without it at `:3052`). The
other consumers (ticket emails, search, surveys, SLA) rethrow. The sweeper's list may be
old when it gives a row up, so `SweepDeadletter` does not ask whether the row is still due.
The sweeper re-drives due rows through a republish job, which writes a forced entry.
Entries may be handled by two handlers at once, since the bus hands on the entries of slow
processes.

### EventBus and the code

`publish` writes the workflow stream, the event stream and the channel stream in this
order; a failure in the middle is thrown in strict mode and swallowed otherwise. One stream
is followed further: `Read` takes a batch of new entries, `ClaimPending` the entries whose
idle time is over `claimTimeout`, also those of a process that still works. `CheckEvent` to
`Ack` are the reads and writes of `processed_events` and `processed_event_handlers` around
each handler, `DeadLetterCheck` to `DeadLetterMark` those of the dead-letter path, each Redis command
an action, each of which may fail (`RedisFails`) and leave the entry pending.

### InboundQueue and the code

Each Lua script is one action (`Claim`, `Ack`, `Fail`, `Defer`, `Renew`, `Reclaim`, `Pump`),
written on the same lists, hashes and sorted sets; the processing list, of which scripts only
add and remove a payload, is the number of copies of each. A sorted set's score matters only by
whether it has passed. What a handler returns is a free choice: nothing ties an ACK, a
deferral or an enqueue to the state of the record (section 4). `ReturnsRetry` is a handler
that throws, and one that outlives its time: it is not stopped, but it does not renew the
claim either, so what it does afterwards reaches ledgers and not the queue. `SettleThrows` is a Redis call whose reply
is lost: the script may have run or not. A supervised consumer's loop is restarted after an
error; that of a consumer in `Unsupervised` stays dead. `RedisLosesData` empties every
structure.

### ProviderLifecycle and the code

Each operation is a record with its place in the function and its locals; its steps are
database statements and Gmail calls. `pause` and `autoPause` stop the watch, clear its
columns and (automatic) notify; `resume` lifts a manual pause; `recover`, `reconnect` and
`renew` take the cursor (`Snapshot`), validate, register the watch, store its columns, list
the interval, hand each message off and clear the pause. When Gmail rejects the saved
cursor, the adapter registers a new watch before the listing by time (`relist`).
`ResetGoogleProviders` takes cursor and expiration away (`NoCursor`); a listing without a
cursor starts from the time of the pause or just before the notification, a reconnect that
began without one reads the column again (`Gate`), and what these pass over is `skipped`.
The durable hand-off and the legacy one are both "handed". Any reason other than
'auth_failure' counts as 'manual'. An announcement is lost with its process, or when there
is no notifier or the delivery fails (`inboundAuthPauseNotifier.ts:70-88`, "best-effort");
`silent` has the pauses whose own announcement was, and is their only excuse in
`PauseAnnounced`. `told`, `silent`, `skipped`, `abandoned` and `strayStop` are observers.

### AiGateway and the code

One account. Every ledger write locks the account row and is one transaction, hence one
action; so is a webhook with the insert of its event id. A request is admitted on an
unlocked read (`Admit`), called, debited after the fact (`PersistUsage`), and enqueues a
top-up job in a further transaction. A tick claims a job, charges, and waits for the
webhook; an UPDATE of a tick that throws is recorded as a failure of the job (`Throws`). A
PaymentIntent is `<<job, attempt>>`, its idempotency key. Webhooks arrive at any time and in
any order. An event is `<<kind, object, n>>`: the `n`-th event id under which Stripe tells
the same of the same object, so that `seen` stops the same event, and only `refs`, the
`stripe_ref` of the grants, stops the same payment under another id. `AddonCompleted` binds
a subscription to the account; an invoice of one that is not bound is recorded and grants
nothing. `heard` (the invoices an event of which found the account), `withdrawn`,
`reclaims`, `booked` and `granted` are observers.

## 3. What TLC checks

| Run | Instance | Checks |
|---|---|---|
| `inbox` | 1 row, 2 workers, caps {1,2}, enforce and shadow, 1 crash, 1 slow lease, 1 release | `EffectsExactlyOnce`, `OneHolder`, `AckFromDurableState`, `RetryBudget`, `Implements`, `EventuallyDecided` |
| `ingress` | 3 provider types, 2 messages, 2 workers, 1 attempt, 1 pause, 1 slow lease | `StagedIsDurable`, `HistoryCursorSound`, `AttemptsCapped`, `StagedForever`, `DeadletterRespectsPause` |
| `ingress_live` | 3 provider types, 1 message, 2 workers, 2 attempts, 1 pause, 1 crash | `EventuallySettled` |
| `outbox` | 1 row, 2 dispatchers, caps {2,3}, 1 crash, 1 slow lease, 1 lost reply | `DuplicatesAccountedFor`, `OnlyHolderEnds`, `TerminalIsFinal`, `EventuallySettled` |
| `delivery` | a leased consumer that rethrows, a leased or a transactional one that swallows, 2 handlers, 1 entry name, caps {2,4}, 1 mishap of any kind | `TxExactlyOnce`, `DuplicatesAccountedFor`, `AcknowledgedNotLost`, `GivenUpAfterRetries`, `EventuallySettled` |
| `bus` | 1 strict event, 2 entries, 2 processes, 2 handlers, batch 1, 1 delivery, 1 mishap | `AckedMeansHandled`, `RerunsAccountedFor`, `RedeliveryBounded`, `StrictNeverSilent`, `EventuallyAcked` |
| `queue` | 1 job, 2 consumers (1 unsupervised), 2 attempts, 1 deferral, 3 mishaps | `OnePlace`, `StructuresAgree`, `HandOutsAccountedFor`, `OnlyHolderSettles`, `EventuallySettled` |
| `recovery` | 2 messages, 2 operations at a time of 3, threshold 1, 2 pauses, 1 mishap | `ToldOncePerPause`, `GapFree`, `DeadWatchIsNoticed`, `PauseAnnounced` |
| `gateway` | 2 requests, 2 ticks, 1 subscription with 2 invoices, 1 checkout, 2 jobs, 2 intents, all amounts 1, grace and threshold 0, 2 attempts, 1 mishap (adjustment, crash, stale job or second event id) | `LedgerSound`, `OvershootBounded`, `OneActiveJob`, `AttemptsAccountedFor`, `SuccessIsFinal` |
| `ingress_catch_up` | 1 Microsoft message | `CursorOnlyPastStaged`, violated (finding 1) |
| `recovery_gap` | 2 messages, 1 operation at a time | `RecoveryLeavesNoGap`, violated (finding 2) |
| `gateway_charges` | as `gateway`, threshold 1, without adjustments | `OneChargePerNeed`, violated (finding 3) |

All passing runs finish without an error; the largest, `gateway`, has about 1.4 million
distinct states. Deadlock is checked except in `bus`, `queue`, `recovery` and `recovery_gap`: there the
system may rightly be at rest for ever (every entry acknowledged, every job settled, or all
bounded operations begun).

**Bounds.** Rows of a ledger do not interact (each statement names one row by its key), so
one row stands for all; ingress rows share a cursor, so `ingress` has two. Two processes
give every race between a holder and a usurper. Two different caps make processes disagree;
with a cap of 2 or more, the last attempt
differs from one before it, and the caps 2 and 4 of `delivery` leave rows that one process
retries and another one gives up. In `bus` the second entry is a
forced or repeated publish of the same event, which is what the processed sets are about,
and the cap of one delivery puts the dead-letter path within reach of one mishap. In
`recovery`, three operations, two at a time, let a late recovery meet the next pause. In
`gateway`, amounts of one credit make every threshold meet its neighbours, and with a threshold
of zero it takes two requests in flight or an adjustment to ask for a top-up; two charges of
one job that are both granted, a late failure after a success and a second job are all
within reach. A debit that is split over both buckets needs a dearer call, and
`AiGatewayProofs` has every amount. The
threshold of one in `recovery` makes every failing call reach the transition; the counting
before it decides nothing else. `ingress_live` has a crash and no slow worker, since the two
end a lease alike; what a slow one writes late is in `ingress`. The numbers of
crashes, slow leases, lost replies and the like bound failures, not the protocol, and the
theorems of section 5 hold for all their values. `ingress` runs with a single attempt and
without crashes: a slow worker that loses its lease does all that a crashed one does, and
writes besides.

**Fairness.** A running worker takes its next step (`WF`): it is a JavaScript function
that the event loop continues, or a crash, which is counted. No crash, slow lease, pause,
resume, successful publish or commit is assumed to happen. Besides:

- *inbox, ingress, outbox.* Each row is woken again and again (`SF`, strong because the
  process slots are shared): the sweeper runs on a schedule and re-enqueues every row that
  `findDueInbox` / `findDueIngress` / `findDueOutbox` returns. Leases and back-offs are
  wall-clock times and run out (`WF Time`). The outbox also needs the sweep that
  dead-letters a row in its last lease (`WF Sweep`).
  `EventuallySettled` of the ingress is conditional on the provider staying unpaused from
  some time on, since the code promises nothing before.
- *delivery.* The bus offers an entry until it is acknowledged (`SF Start` of a due entry),
  drops the duplicates it recognises (`WF`), the sweeper runs, time passes, and a queued
  republish job is run (`SF Republish`).
- *bus.* `WF Step` of each process and `WF GoStale`: idle time grows by itself.
- *queue.* The loop turns, a handler returns or times out, Redis answers, time passes.
  Nothing makes a handler succeed: a job that always fails is given up, which is settled
  too. Crashes, stalls and losses are bounded: a job that kills its consumer each time is
  handed out again and again with its attempt unchanged, and only the attempts of its row
  end that.
- *recovery.* An operation that has begun takes its next step or is counted as a mishap
  (a death of its process, or an announcement that is not delivered).

The gateway has no liveness property: what its jobs need in the end is a webhook of Stripe,
and two ways in which a top-up never comes are in section 4.

## 4. Findings

Each is a line of the repository's docs or comments that the code does not keep.

1. `ingress_catch_up`: the wake-up of a `terminal_failed` row advances the Microsoft cursor
   past a message that was never staged (`inboundEmailIngressStagingWorker.ts:94`). The row
   itself survives as a record of the message.
2. `recovery_gap`: a recovery that fails or dies after it has registered its watch has
   raised `history_id` past the paused interval; the retry lists from there, finds nothing
   and clears the pause (`EmailProviderLifecycleService.ts:525`).
3. `gateway_charges`: a tick that dies after the charge, or takes a lost reply for a
   failure, is followed by an attempt with another idempotency key, and one need of credit
   is charged twice (`autoTopup/worker.ts:131`). Both charges are granted.

Other places met while modelling, where code and comment differ or a case is left open.
The models contain the behaviour where it is in their scope, and no property asserts the
stronger reading:

- A permanent failure is acknowledged although its fenced write was lost
  (`inboundEmailCoreProcessor.ts:203`); `AckFromDurableState` excepts it, and the row is
  still leased or due.
- "ACK only follows a durable terminal state" (`unifiedInboundEmailQueueConsumerV2.ts:10`)
  is not kept by the handlers: the staging worker acknowledges a row that is paused, parked
  or lost to another holder (`inboundEmailIngressStagingWorker.ts:71-78`, `:229`,
  `:236-247`), the core processor a shadow release and a permanent failure whose write was
  lost (`inboundEmailCoreProcessor.ts:158`, `:203`), and the job processor everything while
  the mode is off (`unifiedInboundEmailQueueJobProcessorV2.ts:66-69`). The rows stay due or
  parked, and the sweeper or the resume re-creates their wake-ups. `InboundQueue` therefore
  promises nothing about the record behind an ACK; `AckFromDurableState` says what holds of
  the inbox, `EventuallySettled` what holds of the pointers.
- `GREATEST` over messages staged out of order passes unstaged ones
  (`inboundEmailIngressStagingWorker.ts:321`), a watch registered on resume moves
  `history_id` past pointers that are not yet staged (`GmailAdapter.ts:307`), and the IMAP
  sync ignores that a uid was not staged by it (`emailService.ts:881`). In all three the
  ingress rows remain; `HistoryCursorSound` says what does hold for Gmail.
- With a null `history_id` (after `resetGoogleProvidersToDisconnected`) a reconnect's
  recovery reads the column again (`EmailProviderLifecycleService.ts:523-528`), which by then
  holds the cursor of the new watch, although the comment above it (`:518-521`) rules that
  out: the paused interval is listed from the new cursor. `GapFree` counts it as skipped.
- An old dead-letter decision gives up an ingress row parked with a fresh budget
  (`inboundEmailDurableStore.ts:358`).
- The retries of a leased consumer are charged twice, so that about half the cap is used
  (`GivenUpAfterRetries` has the number), and an un-gated dispatch may swallow an error
  (`webhookSubscriber.ts:87`, `internalNotificationSubscriber.ts:3052`): the entry is
  acknowledged with neither an effect nor a row.
- The announcement of an automatic pause is best-effort: where no notifier is registered, or
  its delivery fails, nobody is told (`inboundAuthPauseNotifier.ts:70-88`), and nothing
  tries again.
- An `invoice.paid` that arrives before the `checkout.session.completed` of its subscription
  finds no account, is recorded as processed and grants nothing (`stripe/webhook.ts:147-153`,
  `:376`), though the plan gives each paid invoice a renewal
  (`2026-07-20-ai-usage-billing-plan.md:298-299`); Stripe does not order the two.
  `LedgerSound` counts only the invoices that found their account.
- An entry may be copied to the dead-letter stream twice (`eventBus.ts:696`), and is put
  before its handlers once more than `maxDeliveries` (`eventBus.ts:660`).
- A stale top-up job is reclaimed beyond `MAX_ATTEMPTS` (`AttemptsAccountedFor` says by how
  much); a job in `awaiting_webhook` whose webhook never comes blocks the account's
  top-ups (`autoTopup/worker.ts:90`); a crash between the debit and the enqueue loses that
  enqueue until the next debit (`chatCompletions.ts:97`).

## 5. What is proved

Every theorem holds for all values of the constants under the named assumptions of its
module: sets of processes, handlers, requests are arbitrary (finite where a cardinality is
counted), caps are non-empty sets of positive numbers, bounds are natural numbers. A property
in parentheses is the one that the theorem states.

**`InboundInboxProofs`.** `TypeCorrect`, `ExactlyOnce` (`EffectsExactlyOnce`),
`DecidedForever` (`TerminalForever`), `ImplementsPromise` (`Implements`), `Fencing`
(`OneHolder`), `AckIsDurable` (`AckFromDurableState`), `BudgetKept` (`RetryBudget`).
`DecisionStep` shows that every step either leaves status class, reason, effects and `made`
of all rows alone, or decides one row that was open; the first, second and third read off
it. `OneHolder` is not inductive: a worker with an old token could meet a row that gets the
same token again. `LeaseInv` adds that the token of a row being processed is its version,
that no worker holds a token above the version of its row, that one worker holds the
current one, and that the attempt count of a claim is not above that of the row. `AckStep`:
an ACK other than 'permanent' is added only when the row is terminal after the step.
`BudgetInv`: a row on its way to the dead letters had exhausted some cap when it was read,
attempts never go down, and a 'received' row has an attempt left or was handed back.

**`InboundIngressProofs`.** `TypeCorrect`, `StagedHasSource` (`StagedIsDurable`),
`StagedNeverTakenBack` (`StagedForever`), `PauseShieldsRows` (`DeadletterRespectsPause`),
`CapHolds` (`AttemptsCapped`), `HistoryCursorIsSound` (`HistoryCursorSound`),
`CursorNeverGoesBack`. `RowsStep` sorts what a step does to rows into claims, ends and
openings. The cap needs to know which claims are on their way (`AttemptsInv`). The cursor
needs `CoverInv`: what a worker has listed and not yet staged is still owed by it
(`WorkerInv`, `Owed`), so that the cursor it will write covers only what it has staged, and
what others write meanwhile only adds inbox rows.

**`InboundOutboxProofs`.** `TypeCorrect`, `FinishedForever` (`TerminalIsFinal`),
`HolderAloneEnds` (`OnlyHolderEnds`), `DuplicatesAccounted` (`DuplicatesAccountedFor`),
`PublishedWasSent`, `BudgetKept`. `DuplicateInv` counts the publications made together with
the dispatchers that are about to make one (`Sending`): they are at most the expiries, the
lost replies, and one if the row is under a lease that has neither run out nor is about to
be given back (`Fresh`). It needs the fencing of `LeaseInv`, `PublishedWasSent` that of
`SentInv`.

**`InboundDeliveryProofs`.** `TypeCorrect`, `ExactlyOnce` (`TxExactlyOnce`),
`DeliveredWasDone`, `NothingAckedIsLost` (`AcknowledgedNotLost`), `FinishedForever`,
`HolderAloneEnds`. The steps are sorted by what they do to rows, handlers, bus and
observers (`RowStep`, `RunStep`, `BusStep`, `ObsStep`); `PromiseInv` says that a handler on
its way to return normally has a row or an effect behind it; `Sole` and `RowMove` carry the
fencing. `DuplicatesArePaidFor` (`DuplicatesAccountedFor`) and `GivenUpAfterFailures`
(`GivenUpAfterRetries`) read off `AccountInv`. Neither bound on the past is inductive; the
invariant also counts what may still come: the effects seen, the handlers between their
reservation and the end of their effect, and one more if the row may still be leased
anew, are at most the excuses and one (`Paid`), and the attempts of a row are its failures, or
about twice that for a leased consumer, which pays again at the next reservation (`Charges`).
Every step of a handler is one of few kinds (`Turn`: a lease, an effect, an excuse, a
delivery, a charge, giving up), each of which moves the account in one way.
`ImplementsPromise` (`Implements`) shows from `TxExactlyOnce`'s invariant and `OneRow`, a
step writes the row of at most one consumer, that the transactional consumers implement
`InboundMessage`: initial state to initial state, each step to a decision or a stutter. TLC
agrees on the instance of `delivery`, but no run lists it.

**`EventBusProofs`.** `TypeCorrect`, `NothingAckedIsLost` (`AckedMeansHandled`),
`RedeliveryStops` (`RedeliveryBounded`), `StrictSpeaksUp` (`StrictNeverSilent`).
`HandledInv` says that every mark, and every handler a process has crossed off its list,
stands for a run that succeeded; since runs only grow (`Grows`), what was true of a process
in the middle of a batch stays true whatever others do. `PassInv` counts an entry's passes
against its deliveries and the processes that wait to begin one. `RerunsArePaidFor`
(`RerunsAccountedFor`) needs the runs to come: `Account` adds to the runs of a handler the
plain entries of the event that are new, stale or nobody's (`Unclaimed`), those that wait
in a batch (`Queued`) and the processes about to run the handler (`Claimants`), and bounds
the sum by plain entries, forced passes and mishaps. A step takes from one of these and puts
at most as much on another (`Balanced`, `TakenAway`, `PutOn`), or is a mishap or a forced
pass, which raises the bound; a handler that is marked has neither unclaimed nor queued
entries any more.

**`InboundQueueProofs`.** `TypeCorrect`, `EveryHandOutAccountedFor` (`HandOutsAccountedFor`),
`EveryJobInOnePlace` (`OnePlace`), `ClaimStructuresAgree` (`StructuresAgree`),
`OnlyTheHolderSettles` (`OnlyHolderSettles`). Each
structure has its typing (`ReadyOK`, `ClaimOK`, `DelayOK`, `ConsumerOK`, `ObserverOK`) with a
lemma per script. `HandOutsAccountedFor` needs two strengthenings: `TriesInv`, every payload
in the structures carries as its attempt the number of failures of its job, and `Covered`,
which adds to the hand-outs a claim whose deadline has passed, and to what pays for them the
claim that stands. `PlaceInv` gives every structure
its part (at most one entry of a job in the ready list, the same jobs in the claim hash, the
deadlines and the processing list, the same jobs among due dates and deferred payloads) and
counts, per job, the places it stands in (`Tally`); a script is then a move from one place to
another, and the loss of Redis empties all. `Tokens` is the fencing: a token given out is
never above the counter, and two consumers do not work with one token.

**`ProviderLifecycleProofs`.** `TypeCorrect`, `ToldOnce` (`ToldOncePerPause`),
`DeadWatchShows` (`DeadWatchIsNoticed`). `ToldInv` says that of one pause at most one
operation is on its way to notify, and then nobody has; each step is quiet, begins a pause
or tells (`Quiet`, `Begins`, `Tells`). `WatchInv`: while Gmail has no watch, the columns
show none or a teardown is about to clear them, and nobody is about to store one, unless a
teardown strayed. `NoGap` (`GapFree`) needs `GapInv`: `GapFree` speaks of the stored cursor,
but a watch stored late may lower it or raise it to what an operation noted long before. So
every message up to the stored cursor, or up to the cursor any operation has noted
(`Passed`), is handed off, skipped, or still ahead of a recovery past its watch, beyond the
cursor that this one noted (`Covers`).

**`AiGatewayProofs`.** `TypeCorrect`, `LedgerAlwaysSound` (`LedgerSound`),
`OvershootIsBounded` (`OvershootBounded`), `AlwaysOneActiveJob` (`OneActiveJob`),
`AttemptsAccounted` (`AttemptsAccountedFor`), `SuccessForever` (`SuccessIsFinal`).
`LedgerSound` needs `RefsKnown`: the reference of a grant is there exactly if an event of its
payment was processed (for an invoice: was heard), so that an event grants when it is the
first of its payment and never again, whatever its id; the overshoot bound is
inductive with the ledger, since a debit that outgrows the grace limit ends a request in
flight. It also needs that a withdrawal is counted.

**Only model-checked.** Liveness: `EventuallyDecided` of the inbox, `EventuallySettled` of
ingress, outbox, deliveries and queue, `EventuallyAcked` of the bus and `PauseAnnounced` of
the lifecycle. Their proofs rest on fairness and `ENABLED`, which the prover does not
handle. Every invariant and every action property of the passing runs is stated by a
theorem above. The violated properties of the last three runs have counterexamples, not
proofs.

## 6. Not modelled

In the modelled components:

- Contents: MIME, identities, object keys, digests, prices. Two deliveries with the same
  identity and digest are one row, by the unique index. Clock skew between a process and
  the database.
- `InboundInbox`: rows imported as terminal by the legacy backfill.
- `InboundIngress`: Gmail rows with explicit message ids written by a recovery, Microsoft
  webhook pointers without cursor, `email_processed_messages`, UIDVALIDITY changes, the
  15-minute margin and the listing of Graph reconcile passes. Durable mode 'off', in which
  nothing of this runs.
- `EventBus`: gradual registration of subscribers in a starting process (`eventBus.ts:531`),
  trimming of streams by length (`:901`), connection handling, and the older client under
  `shared/workflow/streams`.
- `InboundQueue`: payloads that do not parse. The ready list is worked off from the end
  where jobs are added (`unifiedInboundEmailQueueV2.ts:51`), so an old job may wait behind
  new ones for ever; the model has no stream of new jobs.
- `ProviderLifecycle`: the recoveries of Microsoft and IMAP, which list by received time or
  uid and move no cursor of their own, the digest of the notification, tokens that come back
  through the OAuth callback, and the staging of a row handed off before a reset, which
  writes its old cursor back.
- `AiGateway`: the subscription status and consents (an arbitrary answer of the admission),
  a subscription that ends or goes to another account, `auto_topup_failure_count` and gateway events (no
  decision reads them), pricing, streaming and appliance registration.
- The sweeper's wake-ups are unbounded in number while a row stays due
  (`inboundEmailRecovery.ts:166`); the models take wake-ups as free.

Components left out:

- *Artifact ledger and worker*: a leased ledger with the shape of the outbox, with object
  storage behind it.
- *Webhook maintenance and Graph reconciliation*: its pointers and its renewals are inputs
  of `InboundIngress` and `ProviderLifecycle`; its scan windows are not modelled.
- *Backfill and mirror* of the sweeper, and the *legacy queue and processor (V1)*, which the
  durable pipeline supersedes.
- *Distributed lock*, *workflow runtime V2*, *delayed outbound mail and rate limiting*,
  *inventory*, *SLA tracking*, *background jobs*: they have state machines of their own and
  share nothing with the pipeline but the database.
- *Billing*: mostly date and money arithmetic per request, without concurrency to explore.
- *Portals, UI, mobile, integrations, extension runner, appliance*: request/response and
  presentation code, generated registries, and external systems.

The repository has about two million lines, most of them of this last kind; the modelled
share is small by count and is chosen for where interleavings and failures decide.

## 7. Where to go on

1. Proofs: `ImplementsPromise` as a property of the `delivery` run; leased consumers and
   the outbox as implementations of an at-least-once promise with a counted excess.
2. The artifact ledger; explicit Gmail rows in `InboundIngress`.
3. A composition of queue and one ledger: "a wake-up lost with Redis is re-created".
4. Rate limiting and delayed outbound mail, the distributed lock, the workflow runtime.

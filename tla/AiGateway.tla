------------------------------ MODULE AiGateway ------------------------------
(***************************************************************************)
(* The credit account of the AI gateway (services/ai-gateway): admission   *)
(* and debit of chat requests, the credit ledger, Stripe webhooks, and the *)
(* durable auto-top-up jobs with their poller.                             *)
(*                                                                         *)
(* The module follows ONE account; accounts share nothing.  Every ledger   *)
(* write locks the account row and is one transaction, and so is a webhook *)
(* with the insert of its event id.  A request and a poller tick are       *)
(* sequences of such steps, run in any number of gateway processes.        *)
(*                                                                         *)
(* A PaymentIntent is <<job, attempt>>, its idempotency key; an invoice is *)
(* <<subscription, number>>.  What Stripe says of them reaches the gateway *)
(* by webhook, at any time, in any order and any number of times, under    *)
(* one event id or several.                                                *)
(***************************************************************************)
EXTENDS Integers, FiniteSets

CONSTANTS
  Request,        \* concurrent chat requests
  Tick,           \* concurrent executions of AutoTopupWorker.runOnce
  Subscription,   \* subscriptions the account's add-on is bought with
  Invoice,        \* their paid invoices
  Checkout,       \* paid top-up checkouts
  MaxCost,        \* credits of the dearest call
  Allotment,      \* monthlyIncludedCredits of the tier
  Pack,           \* credits of the top-up pack
  Grace,          \* grace_limit_credits
  Threshold,      \* auto_topup_threshold_credits
  MaxAttempts,    \* AI_GATEWAY_AUTO_TOPUP_MAX_ATTEMPTS
  MaxJobs,        \* bound: auto-top-up jobs
  MaxIntents,     \* bound: PaymentIntents
  MaxAdjustments, \* bound: manual adjustments
  MaxCrashes,     \* bound: ticks that die
  MaxSlow,        \* bound: jobs that go stale under a tick that still runs
  MaxEchoes,      \* bound: further event ids of what has had one
  MaxMishaps      \* bound: the last four together

ASSUME AmountsAssumption ==
  /\ {MaxCost, Allotment, Pack, MaxAttempts} \subseteq Nat \ {0}
  /\ {Grace, Threshold} \subseteq Nat
ASSUME FiniteAssumption ==
  /\ IsFiniteSet(Request) /\ Request # {}
  /\ IsFiniteSet(Invoice) /\ IsFiniteSet(Checkout)
ASSUME InvoiceAssumption == Invoice \subseteq Subscription \X Nat
ASSUME BoundsAssumption ==
  {MaxJobs, MaxIntents, MaxAdjustments, MaxCrashes, MaxSlow, MaxEchoes, MaxMishaps}
    \subseteq Nat

Job    == 1 .. MaxJobs
Bucket == {"included", "topup"}

VARIABLES
  balance,    \* included_balance and topup_balance of the account
  booked,     \* the credits of credit_ledger, summed by bucket
  granted,    \* those of its grant_included and grant_topup entries
  refs,       \* stripe_ref of its grants
  bound,      \* stripe_subscription_id
  enabled,    \* auto_topup_enabled
  request,    \* where each request is
  job,        \* rows of auto_topup_jobs
  tick,       \* where each tick is, and the job it has claimed
  unsettled,  \* PaymentIntents in status processing
  charged,    \* those that succeeded
  declined,   \* those that failed
  seen,       \* stripe_webhook_events
  heard,      \* observer: invoices an event of which found the account
  withdrawn,  \* observer: credits that adjustments and expiries took away
  reclaims,   \* observer: times a stale job was claimed
  adjustments, crashes, slow   \* counters for the bounds

account   == <<balance, booked, granted, refs, withdrawn>>
binding   == <<bound, heard>>
stripe    == <<unsettled, charged, declined>>
bounds    == <<adjustments, crashes, slow>>
vars == <<balance, booked, granted, refs, bound, enabled, request, job, tick, unsettled,
          charged, declined, seen, heard, withdrawn, reclaims, adjustments, crashes, slow>>

Active   == {"pending", "processing", "awaiting_webhook"}
Statuses == Active \cup {"absent", "succeeded", "failed"}
Idle     == [pc |-> "idle", job |-> 0, attempt |-> 0]

Init ==
  /\ balance = [b \in Bucket |-> 0]
  /\ booked = balance /\ granted = balance
  /\ refs = {} /\ seen = {} /\ bound = "none" /\ heard = {}
  /\ enabled = FALSE
  /\ request = [r \in Request |-> "idle"]
  /\ job = [j \in Job |-> [status |-> "absent", attempts |-> 0]]
  /\ tick = [w \in Tick |-> Idle]
  /\ unsettled = {} /\ charged = {} /\ declined = {}
  /\ withdrawn = 0
  /\ reclaims = [j \in Job |-> 0]
  /\ adjustments = 0 /\ crashes = 0 /\ slow = 0

Lesser(x, y) == IF x < y THEN x ELSE y
Echoes       == {e \in seen : e[3] > 1}
Mishap(n, b) == n < b /\ adjustments + crashes + slow + Cardinality(Echoes) < MaxMishaps
Total        == balance["included"] + balance["topup"]

-----------------------------------------------------------------------------
(* The ledger: one entry per bucket touched, in the transaction that       *)
(* changes the balances.                                                   *)

Book(f, b, n) == [f EXCEPT ![b] = @ + n]

\* debitUsage with planUsageDebit: the included credits burn first, the rest
\* is taken from the top-up bucket, below zero if need be.
DebitUsage(n) ==
  LET fromIncluded == IF balance["included"] > 0 THEN Lesser(balance["included"], n) ELSE 0
      fromTopup    == n - fromIncluded IN
  /\ balance' = [balance EXCEPT !["included"] = @ - fromIncluded, !["topup"] = @ - fromTopup]
  /\ booked'  = Book(Book(booked, "included", -fromIncluded), "topup", -fromTopup)
  /\ UNCHANGED <<granted, refs, withdrawn>>

\* renewMonthlyCycle with planMonthlyRenewal: a positive remainder expires, a
\* deficit carries over.
RenewMonthlyCycle(ref) ==
  LET expired == IF balance["included"] > 0 THEN balance["included"] ELSE 0 IN
  IF ref \in refs THEN UNCHANGED account
  ELSE /\ balance' = [balance EXCEPT !["included"] = @ - expired + Allotment]
       /\ booked'  = Book(Book(booked, "included", -expired), "included", Allotment)
       /\ granted' = Book(granted, "included", Allotment)
       /\ refs' = refs \cup {ref}
       /\ withdrawn' = withdrawn + (IF expired > Allotment THEN expired - Allotment ELSE 0)

\* Fault: the stripe_ref is not looked up.
GrantTopupAgain(ref) ==
  /\ balance' = Book(balance, "topup", Pack)
  /\ booked'  = Book(booked, "topup", Pack)
  /\ granted' = Book(granted, "topup", Pack)
  /\ refs' = refs \cup {ref}
  /\ UNCHANGED withdrawn

\* grantTopup: once per stripe_ref.
GrantTopup(ref) ==
  IF ref \in refs THEN UNCHANGED account
  ELSE /\ balance' = Book(balance, "topup", Pack)
       /\ booked'  = Book(booked, "topup", Pack)
       /\ granted' = Book(granted, "topup", Pack)
       /\ refs' = refs \cup {ref}
       /\ UNCHANGED withdrawn

\* adjustCredits, by an administrator.
AdjustCredits(b, n) ==
  /\ Mishap(adjustments, MaxAdjustments)
  /\ adjustments' = adjustments + 1
  /\ balance' = Book(balance, b, n)
  /\ booked'  = Book(booked, b, n)
  /\ withdrawn' = IF n < 0 THEN withdrawn - n ELSE withdrawn
  /\ UNCHANGED <<granted, refs, binding, enabled, request, job, tick, stripe, seen,
                 reclaims, crashes, slow>>

-----------------------------------------------------------------------------
(* A chat request (chatCompletions.ts).                                    *)

\* Fault: the balance is not looked at.
AdmitUnjudged(r) ==
  /\ request[r] = "idle"
  /\ request' = [request EXCEPT ![r] = "call"]
  /\ UNCHANGED <<account, binding, enabled, job, tick, stripe, seen, reclaims, bounds>>

\* The account row is read by the authentication and judged by checkAdmission;
\* the subscription status and the consent may be anything.
Admit(r) ==
  /\ request[r] = "idle"
  /\ Total + Grace > 0
  /\ request' = [request EXCEPT ![r] = "call"]
  /\ UNCHANGED <<account, binding, enabled, job, tick, stripe, seen, reclaims, bounds>>

\* The provider fails or tells no usage, or the process dies: no debit.
CallFails(r) ==
  /\ request[r] = "call"
  /\ request' = [request EXCEPT ![r] = "idle"]
  /\ UNCHANGED <<account, binding, enabled, job, tick, stripe, seen, reclaims, bounds>>

\* persistUsage: the debit, and the settings its transaction has read.
PersistUsage(r) ==
  /\ request[r] = "call"
  /\ \E n \in 1 .. MaxCost : DebitUsage(n)
  /\ request' = [request EXCEPT ![r] =
       IF enabled /\ Total' < Threshold THEN "enqueue" ELSE "idle"]
  /\ UNCHANGED <<binding, enabled, job, tick, stripe, seen, reclaims, bounds>>

\* enqueueAutoTopup: ON CONFLICT DO NOTHING on the index of active jobs; jobs are
\* numbered as they are made.
EnqueueAutoTopup(r) ==
  /\ request[r] = "enqueue"
  /\ request' = [request EXCEPT ![r] = "idle"]
  /\ \/ /\ \E j \in Job : job[j].status \in Active
        /\ UNCHANGED job
     \/ /\ \A j \in Job : job[j].status \notin Active
        /\ \E j \in Job :
             /\ job[j].status = "absent" /\ \A i \in 1 .. j - 1 : job[i].status # "absent"
             /\ job' = [job EXCEPT ![j].status = "pending"]
  /\ UNCHANGED <<account, binding, enabled, tick, stripe, seen, reclaims, bounds>>

\* The pack cannot be resolved, or the process dies: the debit stands.
EnqueueFails(r) ==
  /\ request[r] = "enqueue"
  /\ request' = [request EXCEPT ![r] = "idle"]
  /\ UNCHANGED <<account, binding, enabled, job, tick, stripe, seen, reclaims, bounds>>

-----------------------------------------------------------------------------
(* Auto top-up (autoTopup/worker.ts).                                      *)

Set(j, s) == job' = [job EXCEPT ![j].status = s]
Leave(w)  == tick' = [tick EXCEPT ![w] = Idle]

\* claimNextJob takes a pending job whose back-off is over, or a processing one
\* whose lease is, and counts the attempt.  Either may have passed at any time;
\* a lease that passes under a tick still at work counts as slow.  The
\* account's switch is read in the same transaction.
Working(j) == \E w \in Tick : /\ tick[w].pc # "idle"
                              /\ tick[w].job = j /\ tick[w].attempt = job[j].attempts
Claim(w, j) ==
  /\ tick[w].pc = "idle"
  /\ \/ /\ job[j].status = "pending"
        /\ UNCHANGED <<reclaims, slow>>
     \/ /\ job[j].status = "processing"
        /\ reclaims' = [reclaims EXCEPT ![j] = @ + 1]
        /\ IF Working(j) THEN Mishap(slow, MaxSlow) /\ slow' = slow + 1 ELSE UNCHANGED slow
  /\ job' = [job EXCEPT ![j] = [status |-> "processing", attempts |-> @.attempts + 1]]
  /\ tick' = [tick EXCEPT ![w] = [pc      |-> IF enabled THEN "charge" ELSE "inactive",
                                  job     |-> j,
                                  attempt |-> job[j].attempts + 1]]
  /\ UNCHANGED <<account, binding, enabled, request, stripe, seen, adjustments, crashes>>

\* An UPDATE of the tick throws: what follows is recordAutoTopupFailure.
Throws(w) == tick' = [tick EXCEPT ![w].pc = "failure"] /\ UNCHANGED job

\* markInactiveJobFailed
MarkInactive(w) ==
  /\ tick[w].pc = "inactive"
  /\ \/ /\ IF job[tick[w].job].status = "processing"
           THEN Set(tick[w].job, "failed")
           ELSE UNCHANGED job
        /\ Leave(w)
     \/ Throws(w)
  /\ UNCHANGED <<account, binding, enabled, request, stripe, seen, reclaims, bounds>>

\* createAutoTopupPaymentIntent: Stripe charges at once, later, or not at all;
\* a price or customer that does not fit makes no PaymentIntent; and the reply
\* may be lost, which the tick takes for a failure.
Charge(w) ==
  LET intent == <<tick[w].job, tick[w].attempt>>
      Goto(l) == tick' = [tick EXCEPT ![w].pc = l] IN
  /\ tick[w].pc = "charge"
  /\ \/ /\ charged' = charged \cup {intent}
        /\ Goto("await") \/ Goto("failure")
        /\ UNCHANGED <<unsettled, declined>>
     \/ /\ unsettled' = unsettled \cup {intent}
        /\ Goto("await") \/ Goto("failure")
        /\ UNCHANGED <<charged, declined>>
     \/ /\ declined' = declined \cup {intent}
        /\ Goto("failure")
        /\ UNCHANGED <<charged, unsettled>>
     \/ /\ Goto("failure")
        /\ UNCHANGED stripe
  /\ Cardinality(unsettled' \cup charged' \cup declined') <= MaxIntents
  /\ UNCHANGED <<account, binding, enabled, request, job, seen, reclaims, bounds>>

\* Fault: the update does not ask for status processing.
AwaitWebhookAlways(w) ==
  /\ tick[w].pc = "await"
  /\ Set(tick[w].job, "awaiting_webhook")
  /\ Leave(w)
  /\ UNCHANGED <<account, binding, enabled, request, stripe, seen, reclaims, bounds>>

\* The PaymentIntent is made: the job waits for the webhook, if still processing.
AwaitWebhook(w) ==
  /\ tick[w].pc = "await"
  /\ \/ /\ IF job[tick[w].job].status = "processing"
           THEN Set(tick[w].job, "awaiting_webhook")
           ELSE UNCHANGED job
        /\ Leave(w)
     \/ Throws(w)
  /\ UNCHANGED <<account, binding, enabled, request, stripe, seen, reclaims, bounds>>

\* Fault: jobs that have ended are failed again.
RecordFailureAlways(j) ==
  IF job[j].attempts >= MaxAttempts
  THEN Set(j, "failed") /\ enabled' = FALSE
  ELSE Set(j, "pending") /\ UNCHANGED enabled

\* Fault: one attempt more than the cap.
RecordFailureOneMore(j) ==
  IF job[j].status \notin {"processing", "awaiting_webhook"} THEN UNCHANGED <<job, enabled>>
  ELSE IF job[j].attempts > MaxAttempts
       THEN Set(j, "failed") /\ enabled' = FALSE
       ELSE Set(j, "pending") /\ UNCHANGED enabled

\* recordAutoTopupFailure: a job at its cap is given up and the switch is
\* turned off; the others wait for their back-off.
RecordAutoTopupFailure(j) ==
  IF job[j].status \notin {"processing", "awaiting_webhook"} THEN UNCHANGED <<job, enabled>>
  ELSE IF job[j].attempts >= MaxAttempts
       THEN Set(j, "failed") /\ enabled' = FALSE
       ELSE Set(j, "pending") /\ UNCHANGED enabled

TickFails(w) ==
  /\ tick[w].pc = "failure"
  /\ RecordAutoTopupFailure(tick[w].job)
  /\ Leave(w)
  /\ UNCHANGED <<account, binding, request, stripe, seen, reclaims, bounds>>

\* The process dies, or the transaction of recordAutoTopupFailure is aborted:
\* it locks the job and then the account, the success webhook the other way.
TickCrashes(w) ==
  /\ tick[w].pc # "idle"
  /\ Mishap(crashes, MaxCrashes)
  /\ crashes' = crashes + 1
  /\ Leave(w)
  /\ UNCHANGED <<account, binding, enabled, request, job, stripe, seen, reclaims, adjustments, slow>>

-----------------------------------------------------------------------------
(* Stripe and its webhooks (stripe/webhook.ts).  A delivery that fails is  *)
(* rolled back and leaves no trace.                                        *)

\* An asynchronous PaymentIntent comes to its end.
Settle(intent) ==
  /\ intent \in unsettled
  /\ unsettled' = unsettled \ {intent}
  /\ \/ charged' = charged \cup {intent} /\ UNCHANGED declined
     \/ declined' = declined \cup {intent} /\ UNCHANGED charged
  /\ UNCHANGED <<account, binding, enabled, request, job, tick, seen, reclaims, bounds>>

\* stripe_webhook_events: an event id is processed once.  The n-th event that says
\* this of x is <<kind, x, n>>.
Receive(kind, x) ==
  \E n \in 1 .. MaxEchoes + 1 :
    /\ <<kind, x, n>> \notin seen
    /\ n > 1 => <<kind, x, n - 1>> \in seen /\ Mishap(Cardinality(Echoes), MaxEchoes)
    /\ seen' = seen \cup {<<kind, x, n>>}

\* processCheckoutCompleted, for the add-on: the subscription is the account's now.
AddonCompleted(s) ==
  /\ Receive("addon", s)
  /\ bound' = s
  /\ UNCHANGED <<account, heard, enabled, request, job, tick, stripe, reclaims, bounds>>

\* processInvoicePaid; when no account is bound to the subscription, the event is
\* done with and grants nothing.
InvoicePaid(i) ==
  /\ Receive("invoice", i)
  /\ \/ bound # i[1] /\ UNCHANGED <<account, heard>>
     \/ bound = i[1] /\ RenewMonthlyCycle(<<"invoice", i>>) /\ heard' = heard \cup {i}
  /\ UNCHANGED <<bound, enabled, request, job, tick, stripe, reclaims, bounds>>

\* processCheckoutCompleted, for a top-up
CheckoutCompleted(c) ==
  /\ Receive("checkout", c)
  /\ GrantTopup(<<"checkout", c>>)
  /\ UNCHANGED <<binding, enabled, request, job, tick, stripe, reclaims, bounds>>

\* processAutoTopupSucceeded: the grant, and the job whatever its status.
AutoTopupSucceeded(intent) ==
  /\ intent \in charged
  /\ Receive("succeeded", intent)
  /\ GrantTopup(<<"intent", intent>>)
  /\ Set(intent[1], "succeeded")
  /\ UNCHANGED <<binding, enabled, request, tick, stripe, reclaims, bounds>>

\* processAutoTopupFailed: charged to whatever attempt the job is at.
AutoTopupFailed(intent) ==
  /\ intent \in declined
  /\ Receive("failed", intent)
  /\ RecordAutoTopupFailure(intent[1])
  /\ UNCHANGED <<account, binding, request, tick, stripe, reclaims, bounds>>

\* updateAutoTopup: the settings page; active jobs are left alone.
UpdateAutoTopup ==
  /\ enabled' = ~enabled
  /\ UNCHANGED <<account, binding, request, job, tick, stripe, seen, reclaims, bounds>>

-----------------------------------------------------------------------------
Next ==
  \/ \E r \in Request : Admit(r) \/ CallFails(r) \/ PersistUsage(r)
                        \/ EnqueueAutoTopup(r) \/ EnqueueFails(r)
  \/ \E w \in Tick : \/ \E j \in Job : Claim(w, j)
                     \/ MarkInactive(w) \/ Charge(w) \/ AwaitWebhook(w)
                     \/ TickFails(w) \/ TickCrashes(w)
  \/ \E intent \in unsettled : Settle(intent)
  \/ \E intent \in charged : AutoTopupSucceeded(intent)
  \/ \E intent \in declined : AutoTopupFailed(intent)
  \/ \E s \in Subscription : AddonCompleted(s)
  \/ \E i \in Invoice : InvoicePaid(i)
  \/ \E c \in Checkout : CheckoutCompleted(c)
  \/ \E b \in Bucket, n \in {-1, 1} : AdjustCredits(b, n)
  \/ UpdateAutoTopup

Spec == Init /\ [][Next]_vars

-----------------------------------------------------------------------------
(* Properties.                                                             *)

Intent == Job \X Nat

TypeOK ==
  /\ balance \in [Bucket -> Int]
  /\ booked \in [Bucket -> Int] /\ granted \in [Bucket -> Nat]
  /\ bound \in Subscription \cup {"none"} /\ enabled \in BOOLEAN
  /\ request \in [Request -> {"idle", "call", "enqueue"}]
  /\ job \in [Job -> [status : Statuses, attempts : Nat]]
  /\ tick \in [Tick -> [pc : {"idle", "inactive", "charge", "await", "failure"},
                        job : Job \cup {0}, attempt : Nat]]
  /\ \A w \in Tick : tick[w].pc # "idle" => tick[w].job \in Job
  /\ unsettled \subseteq Intent /\ charged \subseteq Intent /\ declined \subseteq Intent
  /\ heard \subseteq Invoice
  /\ \A e \in seen : e[3] \in 1 .. MaxEchoes + 1
  /\ {withdrawn, adjustments, crashes, slow} \subseteq Nat
  /\ reclaims \in [Job -> Nat]

\* The balances are what the ledger adds up to, and the ledger holds one grant for
\* each payment a processed event told of, under however many event ids, again or
\* out of order: a top-up always, an invoice once an event of it has found its
\* subscription bound to the account.  An invoice whose events all came before
\* checkout.session.completed is paid for and never granted.
Payments == {p \in {<<e[1], e[2]>> : e \in seen} : p[1] \in {"checkout", "succeeded"}}
LedgerSound ==
  /\ balance = booked
  /\ granted["included"] = Allotment * Cardinality(heard)
  /\ granted["topup"]    = Pack * Cardinality(Payments)

\* Requests are admitted on a balance read without a lock and debited after
\* the fact: the account never sinks below its grace limit by more than one
\* call for each request that was in flight.
InFlight == {r \in Request : request[r] = "call"}
OvershootBounded ==
  Total + Grace + withdrawn + MaxCost * Cardinality(Request) > MaxCost * Cardinality(InFlight)

\* Repeated debits below the threshold and retries make no second active job.
OneActiveJob ==
  \A i, j \in Job : job[i].status \in Active /\ job[j].status \in Active => i = j

\* The attempts beyond the cap are reclaims of jobs that had gone stale.
AttemptsAccountedFor == \A j \in Job : job[j].attempts <= MaxAttempts + reclaims[j]

\* A paid top-up stays paid: no late failure and no late tick reopens it.
SuccessIsFinal ==
  [][\A j \in Job : job[j].status = "succeeded" => job'[j].status = "succeeded"]_vars

\* "It must be idempotent per account+cycle-of-need" (ai-usage-billing-plan.md:
\* 220): a job charges the customer once.  A reclaim after a crash uses a new
\* idempotency key and charges again.
OneChargePerNeed == \A i, k \in charged : i[1] = k[1] => i = k
=============================================================================

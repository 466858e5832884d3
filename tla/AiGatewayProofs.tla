--------------------------- MODULE AiGatewayProofs ---------------------------
(***************************************************************************)
(* Proofs about AiGateway, for any requests, ticks and payments, any       *)
(* amounts, any cap and any bounds.                                        *)
(***************************************************************************)
EXTENDS AiGateway, FiniteSetTheorems, TLAPS

-----------------------------------------------------------------------------
(* The operators on balances and jobs.                                     *)

\* Book adds to one bucket.
LEMMA BookFact ==
  ASSUME NEW S \in {Int, Nat}, NEW f \in [Bucket -> S], NEW b \in Bucket, NEW n \in Int, f[b] + n \in S
  PROVE  /\ Book(f, b, n) \in [Bucket -> S]
         /\ \A x \in Bucket : Book(f, b, n)[x] = IF x = b THEN f[x] + n ELSE f[x]
BY DEF Book

\* Two functions on the buckets are equal if they agree on both.
LEMMA BucketsEqual ==
  ASSUME NEW f \in [Bucket -> Int], NEW g \in [Bucket -> Int],
         f["included"] = g["included"], f["topup"] = g["topup"]
  PROVE  f = g
<1>1. \A b \in Bucket : f[b] = g[b]
  BY DEF Bucket
<1>2. QED BY <1>1

\* A debit takes n credits in all, and the ledger moves with the balance.
LEMMA DebitFact ==
  ASSUME balance \in [Bucket -> Int], booked = balance, NEW n \in Nat, DebitUsage(n)
  PROVE  /\ balance' \in [Bucket -> Int] /\ booked' = balance'
         /\ Total' = Total - n
<1> DEFINE x == IF balance["included"] > 0 THEN Lesser(balance["included"], n) ELSE 0
           y == n - x
           g == Book(booked, "included", -x)
<1>1. "included" \in Bucket /\ "topup" \in Bucket /\ "included" # "topup"
  BY DEF Bucket
<1>2. balance["included"] \in Int /\ balance["topup"] \in Int
  BY <1>1
<1>3. x \in Int /\ y \in Int
  BY <1>2 DEF Lesser
<1>4. balance' = [balance EXCEPT !["included"] = @ - x, !["topup"] = @ - y]
  BY DEF DebitUsage
<1>5. booked' = Book(g, "topup", -y)
  BY DEF DebitUsage
<1> HIDE DEF x
<1>6. /\ balance' \in [Bucket -> Int]
      /\ balance'["included"] = balance["included"] - x
      /\ balance'["topup"] = balance["topup"] - y
  BY <1>1, <1>2, <1>3, <1>4
<1>7. /\ g \in [Bucket -> Int]
      /\ g["included"] = balance["included"] - x /\ g["topup"] = balance["topup"]
  BY <1>1, <1>2, <1>3, BookFact
<1>8. /\ booked' \in [Bucket -> Int]
      /\ booked'["included"] = balance["included"] - x
      /\ booked'["topup"] = balance["topup"] - y
  BY <1>1, <1>2, <1>3, <1>5, <1>7, BookFact
<1>9. booked' = balance'
  BY <1>6, <1>8, BucketsEqual
<1>10. Total' = Total - n
  BY <1>2, <1>3, <1>6 DEF Total
<1>11. QED BY <1>6, <1>9, <1>10

\* What a renewal, unless it is a repetition, does to the account.
LEMMA RenewFact ==
  ASSUME balance \in [Bucket -> Int], booked = balance, granted \in [Bucket -> Nat], withdrawn \in Nat,
         NEW ref, ref \notin refs, RenewMonthlyCycle(ref)
  PROVE  /\ balance' \in [Bucket -> Int] /\ booked' = balance'
         /\ granted' \in [Bucket -> Nat]
         /\ granted'["included"] = granted["included"] + Allotment
         /\ granted'["topup"] = granted["topup"]
         /\ refs' = refs \cup {ref} /\ withdrawn' \in Nat
         /\ Total' + withdrawn' >= Total + withdrawn
<1> DEFINE x == IF balance["included"] > 0 THEN balance["included"] ELSE 0
           g == Book(booked, "included", -x)
<1>a. Allotment \in Nat
  BY AmountsAssumption
<1>1. "included" \in Bucket /\ "topup" \in Bucket /\ "included" # "topup"
  BY DEF Bucket
<1>2. balance["included"] \in Int /\ balance["topup"] \in Int
  BY <1>1
<1>3. x \in Nat
  BY <1>2
<1>4. /\ balance' = [balance EXCEPT !["included"] = @ - x + Allotment]
      /\ withdrawn' = withdrawn + (IF x > Allotment THEN x - Allotment ELSE 0)
      /\ refs' = refs \cup {ref}
  BY DEF RenewMonthlyCycle
<1>5. booked' = Book(g, "included", Allotment) /\ granted' = Book(granted, "included", Allotment)
  BY DEF RenewMonthlyCycle
<1> HIDE DEF x
<1>6. /\ balance' \in [Bucket -> Int]
      /\ balance'["included"] = balance["included"] - x + Allotment
      /\ balance'["topup"] = balance["topup"]
  BY <1>a, <1>1, <1>2, <1>3, <1>4
<1>7. /\ g \in [Bucket -> Int]
      /\ g["included"] = balance["included"] - x /\ g["topup"] = balance["topup"]
  BY <1>1, <1>2, <1>3, BookFact
<1>8. /\ booked' \in [Bucket -> Int]
      /\ booked'["included"] = balance["included"] - x + Allotment
      /\ booked'["topup"] = balance["topup"]
  BY <1>a, <1>1, <1>2, <1>3, <1>5, <1>7, BookFact
<1>9. booked' = balance'
  BY <1>6, <1>8, BucketsEqual
<1>10. /\ granted' \in [Bucket -> Nat]
       /\ granted'["included"] = granted["included"] + Allotment
       /\ granted'["topup"] = granted["topup"]
  BY <1>a, <1>1, <1>5, BookFact
<1>11. withdrawn' \in Nat /\ Total' + withdrawn' >= Total + withdrawn
  BY <1>a, <1>2, <1>3, <1>4, <1>6 DEF Total
<1>12. QED BY <1>4, <1>6, <1>9, <1>10, <1>11

\* What a grant, unless it is a repetition, does to the account.
LEMMA GrantFact ==
  ASSUME balance \in [Bucket -> Int], booked = balance, granted \in [Bucket -> Nat], withdrawn \in Nat,
         NEW ref, ref \notin refs, GrantTopup(ref)
  PROVE  /\ balance' \in [Bucket -> Int] /\ booked' = balance'
         /\ granted' \in [Bucket -> Nat]
         /\ granted'["included"] = granted["included"]
         /\ granted'["topup"] = granted["topup"] + Pack
         /\ refs' = refs \cup {ref} /\ withdrawn' \in Nat
         /\ Total' + withdrawn' >= Total + withdrawn
<1>a. Pack \in Nat
  BY AmountsAssumption
<1>1. "included" \in Bucket /\ "topup" \in Bucket /\ "included" # "topup"
  BY DEF Bucket
<1>2. balance["included"] \in Int /\ balance["topup"] \in Int
  BY <1>1
<1>3. /\ balance' = Book(balance, "topup", Pack) /\ booked' = balance'
      /\ granted' = Book(granted, "topup", Pack)
      /\ refs' = refs \cup {ref} /\ withdrawn' = withdrawn
  BY DEF GrantTopup
<1>4. /\ balance' \in [Bucket -> Int]
      /\ balance'["included"] = balance["included"] /\ balance'["topup"] = balance["topup"] + Pack
  <2>1. balance["topup"] + Pack \in Int /\ Pack \in Int
    BY <1>a, <1>2
  <2>2. Book(balance, "topup", Pack) \in [Bucket -> Int]
    BY <1>1, <2>1, BookFact
  <2>3. QED
    BY <1>1, <1>3, <2>1, <2>2 DEF Book
<1>5. /\ granted' \in [Bucket -> Nat]
      /\ granted'["included"] = granted["included"] /\ granted'["topup"] = granted["topup"] + Pack
  BY <1>a, <1>1, <1>3, BookFact
<1>6. Total' + withdrawn' >= Total + withdrawn
  BY <1>a, <1>2, <1>3, <1>4 DEF Total
<1>7. QED BY <1>3, <1>4, <1>5, <1>6

-----------------------------------------------------------------------------
(* Type correctness, together with: the balances are what the ledger says. *)

Balanced == balance = booked
Typed    == TypeOK /\ Balanced

LEMMA TypeInit == Init => Typed
<1> SUFFICES ASSUME Init PROVE Typed
  OBVIOUS
<1>1. /\ balance \in [Bucket -> Int] /\ booked \in [Bucket -> Int] /\ granted \in [Bucket -> Nat]
      /\ balance = booked
  BY DEF Init
<1>2. job \in [Job -> [status : Statuses, attempts : Nat]] /\ reclaims \in [Job -> Nat]
  BY DEF Init, Statuses
<1>3. /\ tick \in [Tick -> [pc : {"idle", "inactive", "charge", "await", "failure"},
                            job : Job \cup {0}, attempt : Nat]]
      /\ \A w \in Tick : tick[w].pc # "idle" => tick[w].job \in Job
  BY DEF Init, Idle
<1>4. /\ unsettled = {} /\ charged = {} /\ declined = {}
      /\ withdrawn = 0 /\ adjustments = 0 /\ crashes = 0 /\ slow = 0
      /\ enabled \in BOOLEAN
  BY DEF Init
<1>5. /\ request \in [Request -> {"idle", "call", "enqueue"}]
      /\ seen = {} /\ bound = "none" /\ heard = {}
  BY DEF Init
<1>6. TypeOK
  BY <1>1, <1>2, <1>3, <1>4, <1>5 DEF TypeOK
<1>7. QED
  BY <1>1, <1>6 DEF Typed, Balanced

\* The steps that leave the account alone and the events as they are.
Quiet ==
  \/ \E r \in Request : Admit(r) \/ CallFails(r) \/ EnqueueAutoTopup(r) \/ EnqueueFails(r)
  \/ \E w \in Tick : \/ \E j \in Job : Claim(w, j)
                     \/ MarkInactive(w) \/ Charge(w) \/ AwaitWebhook(w)
                     \/ TickFails(w) \/ TickCrashes(w)
  \/ \E intent \in unsettled : Settle(intent)
  \/ UpdateAutoTopup

LEMMA QuietSteps ==
  ASSUME Quiet
  PROVE  UNCHANGED <<balance, booked, granted, refs, bound, seen, heard, withdrawn>>
BY DEF Quiet, account, binding, Throws, Admit, CallFails, EnqueueAutoTopup, EnqueueFails, Claim, MarkInactive,
       Charge, AwaitWebhook, TickFails, TickCrashes, Settle, UpdateAutoTopup

\* The failure record keeps the rows and the switch in their domains.
LEMMA FailureTypes ==
  ASSUME TypeOK, NEW j \in Job, RecordAutoTopupFailure(j)
  PROVE  job' \in [Job -> [status : Statuses, attempts : Nat]] /\ enabled' \in BOOLEAN
<1>1. ASSUME NEW st \in Statuses, Set(j, st)
      PROVE  job' \in [Job -> [status : Statuses, attempts : Nat]]
  BY <1>1 DEF TypeOK, Set
<1>2. "failed" \in Statuses /\ "pending" \in Statuses
  BY DEF Statuses, Active
<1>3. CASE UNCHANGED <<job, enabled>>
  BY <1>3 DEF TypeOK
<1>4. CASE Set(j, "failed") /\ enabled' = FALSE
  BY <1>1, <1>2, <1>4
<1>5. CASE Set(j, "pending") /\ UNCHANGED enabled
  BY <1>1, <1>2, <1>5 DEF TypeOK
<1>6. QED
  BY <1>3, <1>4, <1>5 DEF RecordAutoTopupFailure

\* The part of the type invariant that a step of the account alone leaves.
LEMMA AccountTypes ==
  ASSUME TypeOK, UNCHANGED <<enabled, job, tick, unsettled, charged, declined, reclaims>>,
         balance' \in [Bucket -> Int], booked' \in [Bucket -> Int], granted' \in [Bucket -> Nat],
         request' \in [Request -> {"idle", "call", "enqueue"}],
         bound' \in Subscription \cup {"none"}, heard' \subseteq Invoice,
         \A e \in seen' : e[3] \in 1 .. MaxEchoes + 1,
         {withdrawn', adjustments', crashes', slow'} \subseteq Nat
  PROVE  TypeOK'
BY DEF TypeOK

LEMMA QuietTypes ==
  ASSUME Typed, Quiet
  PROVE  Typed'
<1> USE DEF Typed, bounds, stripe, Set, Leave
<1>0. UNCHANGED <<balance, booked, granted, refs, bound, seen, heard, withdrawn>> /\ Balanced'
  BY QuietSteps DEF Balanced
<1>1. ASSUME NEW r \in Request, Admit(r) \/ CallFails(r) \/ EnqueueFails(r) PROVE TypeOK'
  BY <1>0, <1>1 DEF Admit, CallFails, EnqueueFails, TypeOK
<1>2. ASSUME NEW r \in Request, EnqueueAutoTopup(r) PROVE TypeOK'
  <2>1. job' \in [Job -> [status : Statuses, attempts : Nat]]
    BY <1>2 DEF EnqueueAutoTopup, TypeOK, Statuses, Active
  <2>2. QED
    BY <1>0, <1>2, <2>1 DEF EnqueueAutoTopup, TypeOK
<1>3. ASSUME NEW w \in Tick, NEW j \in Job, Claim(w, j) PROVE TypeOK'
  <2>1. job[j].attempts + 1 \in Nat
    BY DEF TypeOK
  <2>2. job' \in [Job -> [status : Statuses, attempts : Nat]]
    BY <1>3, <2>1 DEF Claim, TypeOK, Statuses, Active
  <2>3. /\ tick' \in [Tick -> [pc : {"idle", "inactive", "charge", "await", "failure"},
                               job : Job \cup {0}, attempt : Nat]]
        /\ \A v \in Tick : tick'[v].pc # "idle" => tick'[v].job \in Job
    BY <1>3, <2>1 DEF Claim, TypeOK
  <2>4. reclaims' \in [Job -> Nat] /\ slow' \in Nat
    BY <1>3 DEF Claim, TypeOK
  <2>5. QED
    BY <1>0, <1>3, <2>2, <2>3, <2>4 DEF Claim, TypeOK
<1>t. ASSUME NEW w \in Tick, Leave(w)
      PROVE  /\ tick' \in [Tick -> [pc : {"idle", "inactive", "charge", "await", "failure"},
                                    job : Job \cup {0}, attempt : Nat]]
             /\ \A v \in Tick : tick'[v].pc # "idle" => tick'[v].job \in Job
  BY <1>t DEF TypeOK, Idle
<1>y. ASSUME NEW w \in Tick, tick[w].pc # "idle", Throws(w)
      PROVE  /\ tick' \in [Tick -> [pc : {"idle", "inactive", "charge", "await", "failure"},
                                    job : Job \cup {0}, attempt : Nat]]
             /\ \A v \in Tick : tick'[v].pc # "idle" => tick'[v].job \in Job
  BY <1>y DEF TypeOK, Throws
<1>4. ASSUME NEW w \in Tick, MarkInactive(w) PROVE TypeOK'
  <2>1. job' \in [Job -> [status : Statuses, attempts : Nat]]
    BY <1>4 DEF MarkInactive, TypeOK, Statuses, Throws
  <2>2. Leave(w) \/ Throws(w)
    BY <1>4 DEF MarkInactive
  <2>3. QED
    BY <1>0, <1>4, <1>t, <1>y, <2>1, <2>2 DEF MarkInactive, TypeOK
<1>5. ASSUME NEW w \in Tick, AwaitWebhook(w) PROVE TypeOK'
  <2>1. job' \in [Job -> [status : Statuses, attempts : Nat]]
    BY <1>5 DEF AwaitWebhook, TypeOK, Statuses, Active, Throws
  <2>2. Leave(w) \/ Throws(w)
    BY <1>5 DEF AwaitWebhook
  <2>3. QED
    BY <1>0, <1>5, <1>t, <1>y, <2>1, <2>2 DEF AwaitWebhook, TypeOK
<1>6. ASSUME NEW w \in Tick, TickFails(w) PROVE TypeOK'
  <2>1. tick[w].job \in Job
    BY <1>6 DEF TickFails, TypeOK
  <2>2. job' \in [Job -> [status : Statuses, attempts : Nat]] /\ enabled' \in BOOLEAN
    BY <1>6, <2>1, FailureTypes DEF TickFails
  <2>3. QED
    BY <1>0, <1>6, <1>t, <2>2 DEF TickFails, TypeOK
<1>7. ASSUME NEW w \in Tick, TickCrashes(w) PROVE TypeOK'
  <2>1. /\ crashes' \in Nat /\ Leave(w)
        /\ UNCHANGED <<enabled, request, job, unsettled, charged, declined, reclaims,
                       adjustments, slow>>
    BY <1>7 DEF TickCrashes, TypeOK
  <2>2. QED
    BY <1>0, <1>t, <2>1 DEF TypeOK
<1>8. ASSUME NEW w \in Tick, Charge(w) PROVE TypeOK'
  <2>1. <<tick[w].job, tick[w].attempt>> \in Intent
    BY <1>8 DEF Charge, TypeOK, Intent
  <2>2. unsettled' \subseteq Intent /\ charged' \subseteq Intent /\ declined' \subseteq Intent
    BY <1>8, <2>1 DEF Charge, TypeOK
  <2>3. /\ tick' \in [Tick -> [pc : {"idle", "inactive", "charge", "await", "failure"},
                               job : Job \cup {0}, attempt : Nat]]
        /\ \A v \in Tick : tick'[v].pc # "idle" => tick'[v].job \in Job
    <3>1. PICK l \in {"await", "failure"} : tick' = [tick EXCEPT ![w].pc = l]
      BY <1>8 DEF Charge
    <3>2. tick[w].job \in Job
      BY <1>8 DEF Charge, TypeOK
    <3>3. QED BY <3>1, <3>2 DEF TypeOK
  <2>4. QED
    BY <1>0, <1>8, <2>2, <2>3 DEF Charge, TypeOK
<1>9. ASSUME NEW x \in unsettled, Settle(x) PROVE TypeOK'
  BY <1>0, <1>9 DEF Settle, TypeOK
<1>10. CASE UpdateAutoTopup
  BY <1>0, <1>10 DEF UpdateAutoTopup, TypeOK
<1>11. QED
  BY <1>0, <1>1, <1>2, <1>3, <1>4, <1>5, <1>6, <1>7, <1>8, <1>9, <1>10 DEF Quiet

-----------------------------------------------------------------------------
(* The ledger.  The stripe_ref of a grant is there exactly when an event   *)
(* of its payment was processed, for an invoice one that found the         *)
(* account: what brings a second event id finds the reference there.       *)

RefsKnown ==
  /\ IsFiniteSet(Payments) /\ IsFiniteSet(heard)
  /\ \A i \in Invoice : <<"invoice", i>> \in refs <=> i \in heard
  /\ \A c \in Checkout : <<"checkout", c>> \in refs <=> <<"checkout", c>> \in Payments
  /\ \A x \in Intent : <<"intent", x>> \in refs <=> <<"succeeded", x>> \in Payments
Ledger == Typed /\ RefsKnown /\ LedgerSound

\* An event brings its payment, if it tells of one, and no other.
LEMMA EventFact ==
  ASSUME TypeOK, NEW kind, NEW x, Receive(kind, x)
  PROVE  /\ \A e \in seen' : e[3] \in 1 .. MaxEchoes + 1
         /\ Payments' = IF kind \in {"checkout", "succeeded"}
                        THEN Payments \cup {<<kind, x>>} ELSE Payments
<1>1. PICK n \in 1 .. MaxEchoes + 1 : seen' = seen \cup {<<kind, x, n>>}
  BY DEF Receive
<1>2. \A e \in seen' : e[3] \in 1 .. MaxEchoes + 1
  BY <1>1 DEF TypeOK
<1> DEFINE Told(S) == {<<e[1], e[2]>> : e \in S}
<1>3. Told(seen') = Told(seen) \cup {<<kind, x>>}
  <2>1. Told(seen \cup {<<kind, x, n>>}) = Told(seen) \cup Told({<<kind, x, n>>})
    OBVIOUS
  <2>2. Told({<<kind, x, n>>}) = {<<kind, x>>}
    OBVIOUS
  <2>3. QED BY <1>1, <2>1, <2>2
<1>4. QED
  BY <1>2, <1>3 DEF Payments

\* One of n packs more.
LEMMA OneMore ==
  ASSUME NEW a \in Nat, NEW n \in Nat
  PROVE  a * (n + 1) = a * n + a
OBVIOUS

\* One element more, unless it is there.
LEMMA OneElementMore ==
  ASSUME NEW S, IsFiniteSet(S), NEW x
  PROVE  /\ IsFiniteSet(S \cup {x}) /\ Cardinality(S) \in Nat
         /\ Cardinality(S \cup {x}) = Cardinality(S) + (IF x \in S THEN 0 ELSE 1)
<1>1. IsFiniteSet(S \cup {x}) /\ Cardinality(S) \in Nat
  BY FS_AddElement, FS_CardinalityType
<1>2. CASE x \in S
  <2>1. S \cup {x} = S
    BY <1>2
  <2>2. QED BY <1>1, <1>2, <2>1
<1>3. CASE x \notin S
  BY <1>1, <1>3, FS_AddElement
<1>4. QED BY <1>1, <1>2, <1>3

LEMMA LedgerInit == Init => Ledger
<1> SUFFICES ASSUME Init PROVE Ledger
  OBVIOUS
<1>1. Typed
  BY TypeInit
<1>2. seen = {} /\ heard = {} /\ refs = {} /\ balance = booked
      /\ granted["included"] = 0 /\ granted["topup"] = 0
  BY DEF Init, Bucket
<1>3. Payments = {}
  BY <1>2 DEF Payments
<1>4. RefsKnown
  BY <1>2, <1>3, FS_EmptySet DEF RefsKnown
<1>5. LedgerSound
  BY <1>2, <1>3, FS_EmptySet, AmountsAssumption DEF LedgerSound
<1>6. QED BY <1>1, <1>4, <1>5 DEF Ledger

\* A step that grants nothing and hears of no payment that was not known.
LEMMA LedgerKept ==
  ASSUME Ledger, Typed', UNCHANGED <<granted, refs, heard>>, Payments' = Payments
  PROVE  Ledger'
BY DEF Ledger, Typed, Balanced, RefsKnown, LedgerSound

\* A top-up is granted by the first event of its payment and by no other.
LEMMA TopupOnce ==
  ASSUME Ledger, NEW kind \in {"checkout", "succeeded"}, NEW x, Receive(kind, x),
         NEW ref, GrantTopup(ref), ref \in refs <=> <<kind, x>> \in Payments
  PROVE  /\ balance' \in [Bucket -> Int] /\ booked' = balance' /\ granted' \in [Bucket -> Nat]
         /\ withdrawn' \in Nat
         /\ refs' = refs \cup {ref} /\ Payments' = Payments \cup {<<kind, x>>}
         /\ IsFiniteSet(Payments')
         /\ granted'["included"] = granted["included"]
         /\ granted'["topup"] = Pack * Cardinality(Payments')
<1>f. /\ TypeOK /\ balance \in [Bucket -> Int] /\ booked = balance
      /\ granted \in [Bucket -> Nat] /\ withdrawn \in Nat /\ Pack \in Nat
      /\ IsFiniteSet(Payments) /\ granted["topup"] = Pack * Cardinality(Payments)
  BY AmountsAssumption DEF Ledger, Typed, Balanced, TypeOK, RefsKnown, LedgerSound
<1>1. Payments' = Payments \cup {<<kind, x>>}
  BY <1>f, EventFact
<1>2. /\ IsFiniteSet(Payments') /\ Cardinality(Payments) \in Nat
      /\ Cardinality(Payments') = Cardinality(Payments) + (IF <<kind, x>> \in Payments THEN 0 ELSE 1)
  BY <1>f, <1>1, OneElementMore
<1>3. CASE ref \in refs
  BY <1>f, <1>1, <1>2, <1>3 DEF GrantTopup, account
<1>4. CASE ref \notin refs
  <2>1. Cardinality(Payments') = Cardinality(Payments) + 1
    BY <1>2, <1>4
  <2>2. Pack * Cardinality(Payments') = Pack * Cardinality(Payments) + Pack
    BY <1>f, <1>2, <2>1, OneMore
  <2>3. QED BY <1>f, <1>1, <1>2, <1>4, <2>2, GrantFact
<1>5. QED BY <1>3, <1>4

LEMMA LedgerNext == Ledger /\ [Next]_vars => Ledger'
<1> SUFFICES ASSUME Ledger, [Next]_vars PROVE Ledger'
  OBVIOUS
<1> USE DEF stripe, bounds
<1>f. /\ TypeOK /\ balance \in [Bucket -> Int] /\ booked = balance
      /\ granted \in [Bucket -> Nat] /\ withdrawn \in Nat
      /\ Allotment \in Nat /\ Pack \in Nat
      /\ granted["included"] \in Nat /\ granted["topup"] \in Nat
  BY AmountsAssumption DEF Ledger, Typed, Balanced, TypeOK, Bucket
<1>s. UNCHANGED seen => Payments' = Payments
  BY DEF Payments
<1>1. CASE Quiet
  BY <1>1, <1>s, QuietTypes, QuietSteps, LedgerKept DEF Ledger
<1>2. CASE UNCHANGED vars
  <2>1. Typed'
    BY <1>2 DEF Ledger, Typed, TypeOK, Balanced, vars
  <2>2. QED
    BY <1>2, <1>s, <2>1, LedgerKept DEF vars
<1>3. ASSUME NEW r \in Request, PersistUsage(r) PROVE Ledger'
  <2>1. PICK n \in 1 .. MaxCost : DebitUsage(n)
    BY <1>3 DEF PersistUsage
  <2>2. n \in Nat
    BY AmountsAssumption
  <2>3. balance' \in [Bucket -> Int] /\ booked' = balance'
    BY <1>f, <2>1, <2>2, DebitFact
  <2>4. UNCHANGED <<granted, refs, withdrawn, bound, enabled, job, tick, unsettled, charged,
                    declined, seen, heard, reclaims, adjustments, crashes, slow>>
    BY <1>3, <2>1 DEF PersistUsage, DebitUsage, binding
  <2>5. request' \in [Request -> {"idle", "call", "enqueue"}]
    BY <1>3, <1>f DEF PersistUsage, TypeOK
  <2>6. TypeOK'
    BY <1>f, <2>3, <2>4, <2>5, AccountTypes DEF TypeOK
  <2>7. QED
    BY <1>s, <2>3, <2>4, <2>6, LedgerKept DEF Typed, Balanced
<1>4. ASSUME NEW b \in Bucket, NEW n \in {-1, 1}, AdjustCredits(b, n) PROVE Ledger'
  <2>1. balance[b] + n \in Int /\ n \in Int
    BY <1>f
  <2>2. balance' = Book(balance, b, n) /\ booked' = balance'
    BY <1>4, <1>f DEF AdjustCredits
  <2>3. balance' \in [Bucket -> Int]
    BY <1>f, <2>1, <2>2, BookFact
  <2>4. withdrawn' \in Nat /\ adjustments' \in Nat
    BY <1>4, <1>f DEF AdjustCredits, TypeOK
  <2>5. UNCHANGED <<granted, refs, bound, enabled, request, job, tick, unsettled, charged,
                    declined, seen, heard, reclaims, crashes, slow>>
    BY <1>4 DEF AdjustCredits, binding
  <2>6. TypeOK'
    BY <1>f, <2>2, <2>3, <2>4, <2>5, AccountTypes DEF TypeOK
  <2>7. QED
    BY <1>s, <2>2, <2>5, <2>6, LedgerKept DEF Typed, Balanced
<1>k. /\ \A c \in Checkout : <<"checkout", c>> \in refs <=> <<"checkout", c>> \in Payments
      /\ \A x \in Intent : <<"intent", x>> \in refs <=> <<"succeeded", x>> \in Payments
  BY DEF Ledger, RefsKnown
<1>5. ASSUME NEW i \in Invoice, InvoicePaid(i) PROVE Ledger'
  <2> DEFINE k == <<"invoice", i>>
  <2>1. /\ Receive("invoice", i)
        /\ UNCHANGED <<bound, enabled, request, job, tick, unsettled, charged, declined, reclaims,
                       adjustments, crashes, slow>>
    BY <1>5 DEF InvoicePaid
  <2>2. (\A e \in seen' : e[3] \in 1 .. MaxEchoes + 1) /\ Payments' = Payments
    BY <1>f, <2>1, EventFact
  <2>t. ASSUME balance' \in [Bucket -> Int], booked' = balance', granted' \in [Bucket -> Nat],
               withdrawn' \in Nat, heard' \subseteq Invoice
        PROVE  Typed'
    <3>1. TypeOK'
      BY <1>f, <2>1, <2>2, <2>t, AccountTypes DEF TypeOK
    <3>2. QED BY <2>t, <3>1 DEF Typed, Balanced
  <2>h. heard \subseteq Invoice /\ IsFiniteSet(heard) /\ (k \in refs <=> i \in heard)
    BY <1>f DEF TypeOK, Ledger, RefsKnown
  <2>3. CASE UNCHANGED <<account, heard>>
    BY <1>f, <2>2, <2>3, <2>h, <2>t, LedgerKept DEF account
  <2>4. CASE RenewMonthlyCycle(k) /\ heard' = heard \cup {i} /\ k \in refs
    <3>1. heard' = heard
      BY <2>4, <2>h
    <3>2. QED BY <2>3, <2>4, <3>1 DEF RenewMonthlyCycle
  <2>5. CASE RenewMonthlyCycle(k) /\ heard' = heard \cup {i} /\ k \notin refs
    <3>1. /\ balance' \in [Bucket -> Int] /\ booked' = balance' /\ granted' \in [Bucket -> Nat]
          /\ granted'["included"] = granted["included"] + Allotment
          /\ granted'["topup"] = granted["topup"]
          /\ refs' = refs \cup {k} /\ withdrawn' \in Nat
      BY <1>f, <2>5, RenewFact
    <3>2. /\ IsFiniteSet(heard') /\ Cardinality(heard) \in Nat
          /\ Cardinality(heard') = Cardinality(heard) + 1
      BY <2>5, <2>h, OneElementMore
    <3>3. granted'["included"] = Allotment * Cardinality(heard')
      BY <1>f, <3>1, <3>2, OneMore DEF Ledger, LedgerSound
    <3>4. LedgerSound'
      BY <2>2, <3>1, <3>3 DEF Ledger, LedgerSound
    <3>5. RefsKnown'
      BY <2>2, <2>5, <3>1, <3>2 DEF Ledger, RefsKnown
    <3>6. Typed'
      BY <2>5, <2>h, <2>t, <3>1
    <3>7. QED BY <3>4, <3>5, <3>6 DEF Ledger
  <2>6. QED BY <1>5, <2>3, <2>4, <2>5 DEF InvoicePaid
<1>6. ASSUME NEW c \in Checkout, CheckoutCompleted(c) PROVE Ledger'
  <2> DEFINE k == <<"checkout", c>>
  <2>1. /\ Receive("checkout", c) /\ GrantTopup(k)
        /\ UNCHANGED <<bound, heard, enabled, request, job, tick, unsettled, charged, declined,
                       reclaims, adjustments, crashes, slow>>
    BY <1>6 DEF CheckoutCompleted, binding
  <2>2. /\ balance' \in [Bucket -> Int] /\ booked' = balance' /\ granted' \in [Bucket -> Nat]
        /\ withdrawn' \in Nat
        /\ refs' = refs \cup {k} /\ Payments' = Payments \cup {<<"checkout", c>>}
        /\ IsFiniteSet(Payments')
        /\ granted'["included"] = granted["included"]
        /\ granted'["topup"] = Pack * Cardinality(Payments')
    BY <1>k, <2>1, TopupOnce
  <2>3. \A e \in seen' : e[3] \in 1 .. MaxEchoes + 1
    BY <1>f, <2>1, EventFact
  <2>4. LedgerSound'
    BY <2>1, <2>2 DEF Ledger, LedgerSound
  <2>5. RefsKnown'
    BY <2>1, <2>2 DEF Ledger, RefsKnown
  <2>6. TypeOK'
    BY <1>f, <2>1, <2>2, <2>3, AccountTypes DEF TypeOK
  <2>7. QED BY <2>2, <2>4, <2>5, <2>6 DEF Ledger, Typed, Balanced
<1>7. ASSUME NEW x \in charged, AutoTopupSucceeded(x) PROVE Ledger'
  <2> DEFINE k == <<"intent", x>>
  <2>1. /\ Receive("succeeded", x) /\ GrantTopup(k) /\ Set(x[1], "succeeded")
        /\ UNCHANGED <<bound, heard, enabled, request, tick, unsettled, charged, declined,
                       reclaims, adjustments, crashes, slow>>
    BY <1>7 DEF AutoTopupSucceeded, binding
  <2>x. x \in Intent /\ x[1] \in Job
    BY <1>f DEF TypeOK, Intent
  <2>2. /\ balance' \in [Bucket -> Int] /\ booked' = balance' /\ granted' \in [Bucket -> Nat]
        /\ withdrawn' \in Nat
        /\ refs' = refs \cup {k} /\ Payments' = Payments \cup {<<"succeeded", x>>}
        /\ IsFiniteSet(Payments')
        /\ granted'["included"] = granted["included"]
        /\ granted'["topup"] = Pack * Cardinality(Payments')
    BY <1>k, <2>1, <2>x, TopupOnce
  <2>3. \A e \in seen' : e[3] \in 1 .. MaxEchoes + 1
    BY <1>f, <2>1, EventFact
  <2>4. LedgerSound'
    BY <2>1, <2>2 DEF Ledger, LedgerSound
  <2>5. RefsKnown'
    BY <2>1, <2>2 DEF Ledger, RefsKnown
  <2>6. job' \in [Job -> [status : Statuses, attempts : Nat]]
    BY <1>f, <2>1, <2>x DEF TypeOK, Set, Statuses
  <2>7. TypeOK'
    BY <1>f, <2>1, <2>2, <2>3, <2>6 DEF TypeOK
  <2>8. QED BY <2>2, <2>4, <2>5, <2>7 DEF Ledger, Typed, Balanced
<1>8. ASSUME NEW x \in declined, AutoTopupFailed(x) PROVE Ledger'
  <2>1. /\ Receive("failed", x) /\ RecordAutoTopupFailure(x[1])
        /\ UNCHANGED <<balance, booked, granted, refs, withdrawn, bound, heard, request, tick,
                       unsettled, charged, declined, reclaims, adjustments, crashes, slow>>
    BY <1>8 DEF AutoTopupFailed, account, binding
  <2>x. x[1] \in Job
    BY <1>f DEF TypeOK, Intent
  <2>2. (\A e \in seen' : e[3] \in 1 .. MaxEchoes + 1) /\ Payments' = Payments
    BY <1>f, <2>1, EventFact
  <2>3. job' \in [Job -> [status : Statuses, attempts : Nat]] /\ enabled' \in BOOLEAN
    BY <1>f, <2>1, <2>x, FailureTypes
  <2>4. TypeOK'
    BY <1>f, <2>1, <2>2, <2>3 DEF TypeOK
  <2>5. QED BY <1>f, <2>1, <2>2, <2>4, LedgerKept DEF Typed, Balanced
<1>9. ASSUME NEW s \in Subscription, AddonCompleted(s) PROVE Ledger'
  <2>1. /\ Receive("addon", s) /\ bound' = s
        /\ UNCHANGED <<balance, booked, granted, refs, withdrawn, heard, enabled, request, job, tick,
                       unsettled, charged, declined, reclaims, adjustments, crashes, slow>>
    BY <1>9 DEF AddonCompleted, account
  <2>2. (\A e \in seen' : e[3] \in 1 .. MaxEchoes + 1) /\ Payments' = Payments
    BY <1>f, <2>1, EventFact
  <2>3. TypeOK'
    BY <1>f, <2>1, <2>2 DEF TypeOK
  <2>4. QED BY <1>f, <2>1, <2>2, <2>3, LedgerKept DEF Typed, Balanced
<1>10. QED
  BY <1>1, <1>2, <1>3, <1>4, <1>5, <1>6, <1>7, <1>8, <1>9 DEF Next, Quiet

\* The model is well-typed.
THEOREM TypeCorrect == Spec => []TypeOK
<1>1. Ledger => TypeOK
  BY DEF Ledger, Typed
<1>2. QED BY <1>1, LedgerInit, LedgerNext, PTL DEF Spec

\* The balances are the sum of the ledger, and the ledger holds one grant for
\* each top-up Stripe has told of and for each invoice that found its account,
\* under however many event ids, delivered again or out of order.
THEOREM LedgerAlwaysSound == Spec => []LedgerSound
<1>1. Ledger => LedgerSound
  BY DEF Ledger
<1>2. QED BY <1>1, LedgerInit, LedgerNext, PTL DEF Spec

-----------------------------------------------------------------------------
(* The overshoot below the grace limit.                                    *)

\* A request more or less in flight, and MaxCost times their number.
LEMMA InFlightFact ==
  /\ IsFiniteSet(InFlight) /\ Cardinality(InFlight) \in Nat
  /\ Cardinality(Request) \in Nat /\ Cardinality(Request) > 0
  /\ Cardinality(InFlight) <= Cardinality(Request)
<1>1. InFlight \in SUBSET Request
  BY DEF InFlight
<1>2. IsFiniteSet(Request) /\ Request # {}
  BY FiniteAssumption
<1>3. IsFiniteSet(InFlight) /\ Cardinality(InFlight) <= Cardinality(Request)
  BY <1>1, <1>2, FS_Subset
<1>4. Cardinality(InFlight) \in Nat /\ Cardinality(Request) \in Nat
  BY <1>2, <1>3, FS_CardinalityType
<1>5. Cardinality(Request) # 0
  BY <1>2, FS_EmptySet
<1>6. QED BY <1>3, <1>4, <1>5

LEMMA Monotone ==
  ASSUME NEW a \in Nat, NEW m \in Nat, NEW n \in Nat, m <= n
  PROVE  a * m <= a * n /\ a * n \in Nat /\ a * m \in Nat
<1>1. PICK k \in Nat : n = m + k
  BY n - m \in Nat
<1>2. a * k \in Nat /\ a * m \in Nat
  OBVIOUS
<1>3. a * n = a * m + a * k
  BY <1>1
<1>4. QED BY <1>2, <1>3

LEMMA OvershootInit == Init => OvershootBounded
<1> SUFFICES ASSUME Init PROVE OvershootBounded
  OBVIOUS
<1>1. InFlight = {}
  BY DEF Init, InFlight
<1>2. Cardinality(InFlight) = 0
  BY <1>1, FS_EmptySet
<1>3. MaxCost \in Nat /\ MaxCost > 0 /\ Grace \in Nat
  BY AmountsAssumption
<1>4. Total = 0 /\ withdrawn = 0
  BY DEF Init, Total, Bucket
<1>5. Cardinality(Request) \in Nat /\ Cardinality(Request) >= 1
  BY InFlightFact
<1>6. MaxCost * 1 <= MaxCost * Cardinality(Request) /\ MaxCost * Cardinality(Request) \in Nat
  BY <1>3, <1>5, Monotone
<1>7. QED
  BY <1>2, <1>3, <1>4, <1>6 DEF OvershootBounded

\* A step that costs nothing and admits nobody.
LEMMA OvershootKept ==
  ASSUME OvershootBounded, Typed, Typed',
         Total' + withdrawn' >= Total + withdrawn,
         request' = request
  PROVE  OvershootBounded'
<1>1. InFlight' = InFlight
  BY DEF InFlight
<1>2. /\ \A b \in {"included", "topup"} : balance[b] \in Int /\ balance'[b] \in Int
      /\ withdrawn \in Nat /\ withdrawn' \in Nat
      /\ Grace \in Nat /\ MaxCost \in Nat
  BY AmountsAssumption DEF Typed, TypeOK, Bucket
<1>3. Cardinality(Request) \in Nat /\ Cardinality(InFlight) \in Nat
  BY InFlightFact
<1>4. MaxCost * Cardinality(Request) \in Nat /\ MaxCost * Cardinality(InFlight) \in Nat
  BY <1>2, <1>3, Monotone
<1> DEFINE x == MaxCost * Cardinality(Request)
           y == MaxCost * Cardinality(InFlight)
<1>5. x \in Nat /\ y \in Nat /\ Total + Grace + withdrawn + x > y
  BY <1>4 DEF OvershootBounded
<1>6. OvershootBounded' <=> Total' + Grace + withdrawn' + x > y
  BY <1>1 DEF OvershootBounded
<1> HIDE DEF x, y
<1>7. Total' + Grace + withdrawn' + x > y
  BY <1>2, <1>5 DEF Total
<1>8. QED BY <1>6, <1>7

LEMMA OvershootNext == Ledger /\ OvershootBounded /\ [Next]_vars => OvershootBounded'
<1> SUFFICES ASSUME Ledger, OvershootBounded, [Next]_vars PROVE OvershootBounded'
  OBVIOUS
<1> USE DEF stripe, bounds
<1>l. Ledger'
  BY LedgerNext
<1>f. /\ Typed /\ Typed' /\ TypeOK
      /\ balance \in [Bucket -> Int] /\ booked = balance
      /\ granted \in [Bucket -> Nat] /\ withdrawn \in Nat /\ withdrawn' \in Nat
      /\ balance["included"] \in Int /\ balance["topup"] \in Int
  BY <1>l DEF Ledger, Typed, Balanced, TypeOK, Bucket
<1>t. Total \in Int /\ Total' \in Int
  BY <1>f DEF Typed, TypeOK, Total, Bucket
<1>a. MaxCost \in Nat /\ MaxCost > 0 /\ Grace \in Nat
  BY AmountsAssumption
<1>c. /\ IsFiniteSet(InFlight) /\ Cardinality(InFlight) \in Nat
      /\ Cardinality(Request) \in Nat /\ Cardinality(InFlight) <= Cardinality(Request)
      /\ MaxCost * Cardinality(Request) \in Nat /\ MaxCost * Cardinality(InFlight) \in Nat
  BY <1>a, InFlightFact, Monotone
<1>1. ASSUME NEW r \in Request, Admit(r) PROVE OvershootBounded'
  <2>1. InFlight' \in SUBSET Request
    BY DEF InFlight
  <2>2. IsFiniteSet(InFlight') /\ Cardinality(InFlight') <= Cardinality(Request)
    BY <2>1, FiniteAssumption, FS_Subset
  <2>3. Cardinality(InFlight') \in Nat
    BY <2>2, FS_CardinalityType
  <2>4. MaxCost * Cardinality(InFlight') <= MaxCost * Cardinality(Request)
        /\ MaxCost * Cardinality(InFlight') \in Nat
    BY <1>a, <1>c, <2>2, <2>3, Monotone
  <2>5. Total + Grace > 0 /\ Total' = Total /\ withdrawn' = withdrawn
    BY <1>1 DEF Admit, account, Total
  <2>6. QED
    BY <1>a, <1>c, <1>f, <1>t, <2>4, <2>5 DEF OvershootBounded
<1>2. ASSUME NEW r \in Request, request[r] = "call", request' = [request EXCEPT ![r] = "idle"]
                                \/ request' = [request EXCEPT ![r] = "enqueue"]
      PROVE  /\ MaxCost * Cardinality(InFlight)' = MaxCost * Cardinality(InFlight) - MaxCost
             /\ MaxCost * Cardinality(InFlight)' \in Nat
  <2>1. InFlight' = InFlight \ {r} /\ r \in InFlight
    BY <1>2, <1>f DEF TypeOK, InFlight
  <2>2. Cardinality(InFlight \ {r}) = Cardinality(InFlight) - 1 /\ IsFiniteSet(InFlight \ {r})
    BY <1>c, <2>1, FS_RemoveElement
  <2>3. Cardinality(InFlight \ {r}) \in Nat
    BY <2>2, FS_CardinalityType
  <2>4. MaxCost * (Cardinality(InFlight \ {r}) + 1) = MaxCost * Cardinality(InFlight \ {r}) + MaxCost
    BY <1>a, <2>3, OneMore
  <2>5. Cardinality(InFlight \ {r}) + 1 = Cardinality(InFlight)
    BY <1>c, <2>2, <2>3
  <2>6. MaxCost * Cardinality(InFlight \ {r}) \in Nat
    BY <1>a, <2>3
  <2>7. QED
    BY <1>a, <1>c, <2>1, <2>4, <2>5, <2>6
<1>3. ASSUME NEW r \in Request, CallFails(r) PROVE OvershootBounded'
  <2>1. Total' = Total /\ withdrawn' = withdrawn
    BY <1>3 DEF CallFails, account, Total
  <2>2. /\ MaxCost * Cardinality(InFlight)' = MaxCost * Cardinality(InFlight) - MaxCost
        /\ MaxCost * Cardinality(InFlight)' \in Nat
    BY <1>2, <1>3 DEF CallFails
  <2>3. QED
    BY <1>a, <1>c, <1>f, <1>t, <2>1, <2>2 DEF OvershootBounded
<1>4. ASSUME NEW r \in Request, PersistUsage(r) PROVE OvershootBounded'
  <2>1. PICK n \in 1 .. MaxCost : DebitUsage(n)
    BY <1>4 DEF PersistUsage
  <2>2. n \in Nat /\ n <= MaxCost
    BY <1>a
  <2>3. Total' = Total - n /\ withdrawn' = withdrawn
    BY <1>f, <2>1, <2>2, DebitFact DEF DebitUsage
  <2>4. /\ MaxCost * Cardinality(InFlight)' = MaxCost * Cardinality(InFlight) - MaxCost
        /\ MaxCost * Cardinality(InFlight)' \in Nat
    BY <1>2, <1>4 DEF PersistUsage
  <2>5. QED
    BY <1>a, <1>c, <1>f, <1>t, <2>2, <2>3, <2>4 DEF OvershootBounded
<1>5. ASSUME NEW r \in Request, EnqueueAutoTopup(r) \/ EnqueueFails(r) PROVE OvershootBounded'
  <2>1. InFlight' = InFlight /\ Total' = Total /\ withdrawn' = withdrawn
    BY <1>5, <1>f DEF EnqueueAutoTopup, EnqueueFails, account, Total, InFlight, TypeOK
  <2>2. QED
    BY <2>1 DEF OvershootBounded
<1>6. ASSUME NEW w \in Tick, \/ \E j \in Job : Claim(w, j)
                             \/ MarkInactive(w) \/ Charge(w) \/ AwaitWebhook(w)
                             \/ TickFails(w) \/ TickCrashes(w)
      PROVE  OvershootBounded'
  <2>1. request' = request /\ balance' = balance /\ withdrawn' = withdrawn
    BY <1>6 DEF Claim, MarkInactive, Charge, AwaitWebhook, TickFails, TickCrashes, account
  <2>2. QED
    BY <2>1 DEF OvershootBounded, InFlight, Total
<1>7. CASE UpdateAutoTopup \/ (\E x \in unsettled : Settle(x)) \/ (\E x \in declined : AutoTopupFailed(x))
           \/ (\E s \in Subscription : AddonCompleted(s)) \/ UNCHANGED vars
  <2>1. request' = request /\ balance' = balance /\ withdrawn' = withdrawn
    BY <1>7 DEF UpdateAutoTopup, Settle, AutoTopupFailed, AddonCompleted, account, vars
  <2>2. QED
    BY <2>1 DEF OvershootBounded, InFlight, Total
<1>8. ASSUME NEW i \in Invoice, InvoicePaid(i) PROVE OvershootBounded'
  <2>1. Total' + withdrawn' >= Total + withdrawn
    <3>1. CASE RenewMonthlyCycle(<<"invoice", i>>) /\ <<"invoice", i>> \notin refs
      BY <1>f, <3>1, RenewFact
    <3>2. CASE UNCHANGED account
      BY <1>f, <1>t, <3>2 DEF account, Total
    <3>3. QED BY <1>8, <3>1, <3>2 DEF InvoicePaid, RenewMonthlyCycle
  <2>2. QED BY <1>8, <1>f, <2>1, OvershootKept DEF InvoicePaid
<1>9. ASSUME NEW ref, GrantTopup(ref), request' = request PROVE OvershootBounded'
  <2>1. Total' + withdrawn' >= Total + withdrawn
    <3>1. CASE ref \notin refs
      BY <1>9, <1>f, <3>1, GrantFact
    <3>2. CASE ref \in refs
      BY <1>9, <1>f, <1>t, <3>2 DEF GrantTopup, account, Total
    <3>3. QED BY <3>1, <3>2
  <2>2. QED BY <1>9, <1>f, <2>1, OvershootKept
<1>10. ASSUME NEW b \in Bucket, NEW n \in {-1, 1}, AdjustCredits(b, n) PROVE OvershootBounded'
  <2>1. balance[b] + n \in Int /\ n \in Int
    BY <1>f
  <2>2. balance' = Book(balance, b, n)
    BY <1>10 DEF AdjustCredits
  <2>3. \A x \in Bucket : balance'[x] = IF x = b THEN balance[x] + n ELSE balance[x]
    BY <1>f, <2>1, <2>2, BookFact
  <2>4. Total' = Total + n
    BY <1>f, <2>1, <2>3 DEF Total, Bucket
  <2>5. withdrawn' = IF n < 0 THEN withdrawn - n ELSE withdrawn
    BY <1>10 DEF AdjustCredits
  <2>6. Total' + withdrawn' >= Total + withdrawn
    BY <1>f, <1>t, <2>1, <2>4, <2>5
  <2>7. QED BY <1>10, <1>f, <2>6, OvershootKept DEF AdjustCredits
<1>11. QED
  BY <1>1, <1>3, <1>4, <1>5, <1>6, <1>7, <1>8, <1>9, <1>10
  DEF Next, CheckoutCompleted, AutoTopupSucceeded

\* However many requests were admitted on the same balance, the account is
\* below its grace limit by less than one call for each of them.
THEOREM OvershootIsBounded == Spec => []OvershootBounded
<1>1. Init => Ledger /\ OvershootBounded
  BY LedgerInit, OvershootInit
<1>2. Ledger /\ OvershootBounded /\ [Next]_vars => (Ledger /\ OvershootBounded)'
  BY LedgerNext, OvershootNext
<1>3. QED BY <1>1, <1>2, PTL DEF Spec

-----------------------------------------------------------------------------
(* The auto-top-up jobs.                                                   *)

\* What a step may do to a job j, and all that it may do to the others.
Enqueued(j) ==
  /\ \A i \in Job : job[i].status \notin Active
  /\ job[j].status = "absent" /\ Set(j, "pending") /\ UNCHANGED reclaims
Claimed(j) ==
  /\ job' = [job EXCEPT ![j] = [status |-> "processing", attempts |-> @.attempts + 1]]
  /\ \/ job[j].status = "pending" /\ UNCHANGED reclaims
     \/ job[j].status = "processing" /\ reclaims' = [reclaims EXCEPT ![j] = @ + 1]
Moved(j) ==
  /\ job[j].status \in {"processing", "awaiting_webhook"}
  /\ \/ Set(j, "failed") \/ Set(j, "awaiting_webhook")
     \/ job[j].attempts < MaxAttempts /\ Set(j, "pending")
  /\ UNCHANGED reclaims
Paid(j) == Set(j, "succeeded") /\ UNCHANGED reclaims
JobStep == \E j \in Job : Enqueued(j) \/ Claimed(j) \/ Moved(j) \/ Paid(j)

LEMMA JobSteps ==
  ASSUME TypeOK, [Next]_vars
  PROVE  UNCHANGED <<job, reclaims>> \/ JobStep
<1> USE DEF stripe, bounds, account
<1>r. ASSUME NEW j \in Job, RecordAutoTopupFailure(j), UNCHANGED reclaims
      PROVE  UNCHANGED <<job, reclaims>> \/ Moved(j)
  <2>1. job[j].attempts \in Nat /\ MaxAttempts \in Nat
    BY AmountsAssumption DEF TypeOK
  <2>2. QED BY <1>r, <2>1 DEF RecordAutoTopupFailure, Moved
<1>t. \A w \in Tick : tick[w].pc # "idle" => tick[w].job \in Job
  BY DEF TypeOK
<1>x. \A x \in charged \cup declined : x[1] \in Job
  BY DEF TypeOK, Intent
<1>1. ASSUME NEW r \in Request, EnqueueAutoTopup(r)
      PROVE  UNCHANGED <<job, reclaims>> \/ JobStep
  BY <1>1 DEF EnqueueAutoTopup, Enqueued, JobStep, Set
<1>2. ASSUME NEW r \in Request, Admit(r) \/ CallFails(r) \/ PersistUsage(r) \/ EnqueueFails(r)
      PROVE  UNCHANGED <<job, reclaims>>
  BY <1>2 DEF Admit, CallFails, PersistUsage, EnqueueFails
<1>3. ASSUME NEW w \in Tick, NEW j \in Job, Claim(w, j) PROVE JobStep
  BY <1>3 DEF Claim, Claimed, JobStep
<1>4. ASSUME NEW w \in Tick, MarkInactive(w) \/ AwaitWebhook(w)
      PROVE  UNCHANGED <<job, reclaims>> \/ JobStep
  BY <1>4, <1>t DEF MarkInactive, AwaitWebhook, Throws, Moved, JobStep
<1>5. ASSUME NEW w \in Tick, TickFails(w) PROVE UNCHANGED <<job, reclaims>> \/ JobStep
  BY <1>5, <1>r, <1>t DEF TickFails, JobStep
<1>6. ASSUME NEW w \in Tick, Charge(w) \/ TickCrashes(w) PROVE UNCHANGED <<job, reclaims>>
  BY <1>6 DEF Charge, TickCrashes
<1>7. ASSUME NEW x \in charged, AutoTopupSucceeded(x) PROVE JobStep
  BY <1>7, <1>x DEF AutoTopupSucceeded, Paid, JobStep
<1>8. ASSUME NEW x \in declined, AutoTopupFailed(x)
      PROVE  UNCHANGED <<job, reclaims>> \/ JobStep
  BY <1>8, <1>r, <1>x DEF AutoTopupFailed, JobStep
<1>9. CASE \/ UpdateAutoTopup \/ UNCHANGED vars
           \/ \E x \in unsettled : Settle(x)
           \/ \E s \in Subscription : AddonCompleted(s)
           \/ \E i \in Invoice : InvoicePaid(i)
           \/ \E c \in Checkout : CheckoutCompleted(c)
           \/ \E b \in Bucket, n \in {-1, 1} : AdjustCredits(b, n)
  BY <1>9 DEF UpdateAutoTopup, vars, Settle, AddonCompleted, InvoicePaid, CheckoutCompleted, AdjustCredits
<1>10. QED
  BY <1>1, <1>2, <1>3, <1>4, <1>5, <1>6, <1>7, <1>8, <1>9 DEF Next

LEMMA OneActiveJobInit == Init => OneActiveJob
BY DEF Init, OneActiveJob, Active

LEMMA OneActiveJobNext == TypeOK /\ OneActiveJob /\ [Next]_vars => OneActiveJob'
<1> SUFFICES ASSUME TypeOK, OneActiveJob, [Next]_vars PROVE OneActiveJob'
  OBVIOUS
<1>a. ASSUME \A i \in Job : job'[i].status \in Active => job[i].status \in Active
      PROVE  OneActiveJob'
  BY <1>a DEF OneActiveJob
<1>1. CASE UNCHANGED <<job, reclaims>>
  BY <1>1, <1>a
<1>2. ASSUME NEW j \in Job, Enqueued(j) PROVE OneActiveJob'
  BY <1>2 DEF Enqueued, Set, OneActiveJob, TypeOK
<1>3. ASSUME NEW j \in Job, Claimed(j) PROVE OneActiveJob'
  BY <1>3, <1>a DEF Claimed, TypeOK, Active
<1>4. ASSUME NEW j \in Job, Moved(j) PROVE OneActiveJob'
  BY <1>4, <1>a DEF Moved, Set, TypeOK, Active
<1>5. ASSUME NEW j \in Job, Paid(j) PROVE OneActiveJob'
  BY <1>5, <1>a DEF Paid, Set, TypeOK, Active
<1>6. QED
  BY <1>1, <1>2, <1>3, <1>4, <1>5, JobSteps DEF JobStep

\* Debits below the threshold, retries, webhooks and stale ticks together never
\* make two active jobs of one account.
THEOREM AlwaysOneActiveJob == Spec => []OneActiveJob
<1>1. Init => Ledger /\ OneActiveJob
  BY LedgerInit, OneActiveJobInit
<1>2. Ledger /\ OneActiveJob /\ [Next]_vars => (Ledger /\ OneActiveJob)'
  BY LedgerNext, OneActiveJobNext DEF Ledger, Typed
<1>3. QED BY <1>1, <1>2, PTL DEF Spec

\* Inductive: a job that waits for a claim has attempts left.
AttemptsInv ==
  \A j \in Job : /\ job[j].attempts <= MaxAttempts + reclaims[j]
                 /\ job[j].status = "absent" => job[j].attempts = 0
                 /\ job[j].status = "pending" => job[j].attempts < MaxAttempts

LEMMA AttemptsInit == Init => AttemptsInv
BY AmountsAssumption DEF Init, AttemptsInv

LEMMA AttemptsNext == TypeOK /\ AttemptsInv /\ [Next]_vars => AttemptsInv'
<1> SUFFICES ASSUME TypeOK, AttemptsInv, [Next]_vars PROVE AttemptsInv'
  OBVIOUS
<1>t. /\ \A j \in Job : job[j].attempts \in Nat /\ reclaims[j] \in Nat
      /\ MaxAttempts \in Nat /\ MaxAttempts > 0
      /\ job \in [Job -> [status : Statuses, attempts : Nat]] /\ reclaims \in [Job -> Nat]
  BY AmountsAssumption DEF TypeOK
<1>1. CASE UNCHANGED <<job, reclaims>>
  BY <1>1 DEF AttemptsInv
<1>2. ASSUME NEW j \in Job, Enqueued(j) PROVE AttemptsInv'
  BY <1>2, <1>t DEF Enqueued, Set, AttemptsInv
<1>3. ASSUME NEW j \in Job, Claimed(j) PROVE AttemptsInv'
  <2>1. CASE job[j].status = "pending" /\ UNCHANGED reclaims
    BY <1>3, <1>t, <2>1 DEF Claimed, AttemptsInv
  <2>2. CASE job[j].status = "processing" /\ reclaims' = [reclaims EXCEPT ![j] = @ + 1]
    BY <1>3, <1>t, <2>2 DEF Claimed, AttemptsInv
  <2>3. QED BY <1>3, <2>1, <2>2 DEF Claimed
<1>4. ASSUME NEW j \in Job, Moved(j) PROVE AttemptsInv'
  BY <1>4, <1>t DEF Moved, Set, AttemptsInv
<1>5. ASSUME NEW j \in Job, Paid(j) PROVE AttemptsInv'
  BY <1>5, <1>t DEF Paid, Set, AttemptsInv
<1>6. QED
  BY <1>1, <1>2, <1>3, <1>4, <1>5, JobSteps DEF JobStep

\* Every attempt beyond the cap is the reclaim of a job that had gone stale.
THEOREM AttemptsAccounted == Spec => []AttemptsAccountedFor
<1>1. Init => Ledger /\ AttemptsInv
  BY LedgerInit, AttemptsInit
<1>2. Ledger /\ AttemptsInv /\ [Next]_vars => (Ledger /\ AttemptsInv)'
  BY LedgerNext, AttemptsNext DEF Ledger, Typed
<1>3. AttemptsInv => AttemptsAccountedFor
  BY DEF AttemptsInv, AttemptsAccountedFor
<1>4. QED BY <1>1, <1>2, <1>3, PTL DEF Spec

LEMMA SuccessStep ==
  ASSUME TypeOK, [Next]_vars
  PROVE  \A j \in Job : job[j].status = "succeeded" => job'[j].status = "succeeded"
<1>1. CASE UNCHANGED <<job, reclaims>>
  BY <1>1
<1>2. ASSUME NEW i \in Job, Enqueued(i) \/ Claimed(i) \/ Moved(i) \/ Paid(i)
      PROVE  \A j \in Job : job[j].status = "succeeded" => job'[j].status = "succeeded"
  BY <1>2 DEF TypeOK, Enqueued, Claimed, Moved, Paid, Set
<1>3. QED
  BY <1>1, <1>2, JobSteps DEF JobStep

\* No late failure, tick or claim reopens a job whose payment has succeeded.
THEOREM SuccessForever == Spec => SuccessIsFinal
<1>1. Ledger /\ [Next]_vars =>
        [\A j \in Job : job[j].status = "succeeded" => job'[j].status = "succeeded"]_vars
  BY SuccessStep DEF Ledger, Typed
<1>2. QED
  BY <1>1, LedgerInit, LedgerNext, PTL DEF Spec, SuccessIsFinal
=============================================================================

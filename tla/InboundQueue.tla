---------------------------- MODULE InboundQueue ----------------------------
(***************************************************************************)
(* The Redis wake-up queue of the inbound pipeline                         *)
(* (unifiedInboundEmailQueueV2.ts) and the loop that consumes it           *)
(* (unifiedInboundEmailQueueConsumerV2.ts).                                *)
(*                                                                         *)
(* Every Redis mutation is one Lua script, hence one action.  Between two  *)
(* scripts of a consumer the others run, leases pass, Redis may lose its   *)
(* data or a reply, and the consumer's process may die.  The durable       *)
(* record a job points to is not part of this module: a handler may answer *)
(* ack, retry or defer whatever the record's state is.  A handler that     *)
(* times out runs on, but no longer touches the queue.                     *)
(***************************************************************************)
EXTENDS Integers, FiniteSets, SequencesExt

CONSTANTS
  Job,          \* job ids (randomUUID), each used for one enqueue
  Consumer,     \* instances of UnifiedInboundEmailQueueConsumerV2
  Unsupervised, \* those that no supervisor restarts when their loop dies
  MaxAttempts,  \* cfg.maxAttempts
  MaxDefers,    \* bound: defer dispositions per job
  MaxStalls,    \* bound: leases that run out under a running consumer
  MaxCrashes,   \* bound: consumer crashes
  MaxFaults,    \* bound: Redis calls that fail, ownership losses reported by Postgres
  MaxLosses,    \* bound: times Redis loses its data
  MaxMishaps    \* bound: the last four together

ASSUME QueueAssumption ==
  /\ IsFiniteSet(Job)
  /\ Unsupervised \subseteq Consumer
  /\ MaxAttempts \in Nat \ {0}
  /\ {MaxDefers, MaxStalls, MaxCrashes, MaxFaults, MaxLosses, MaxMishaps} \subseteq Nat

VARIABLES
  ready,        \* list of payloads; RPUSH and RPOPLPUSH work on its right end
  processing,   \* list of the payloads in work, by how often each stands in it
  inflight,     \* hash jobId -> claim (NoClaim: no field)
  lease,        \* sorted set of claim deadlines, by what its score says now
  delayed,      \* sorted set of deferred jobs, by what its score says now
  delayedData,  \* hash jobId -> payload of a deferred job (NoPayload: no field)
  dlq,          \* dead letter list, as the set of its jobs
  pc, claim,    \* of each consumer: where processClaim is, and its claim
  sent, acked, wiped,            \* observers: jobs enqueued, acked, lost by Redis
  claims, expiries, fails, defers,  \* observers: per job
  stalls, crashes, faults, losses   \* counters for the bounds

queue     == <<ready, processing, inflight, lease, delayed, delayedData, dlq>>
consumer  == <<pc, claim>>
observers == <<sent, acked, wiped, claims, expiries, fails, defers>>
counters  == <<stalls, crashes, faults, losses>>
vars == <<ready, processing, inflight, lease, delayed, delayedData, dlq, pc, claim,
          sent, acked, wiped, claims, expiries, fails, defers,
          stalls, crashes, faults, losses>>

NoPayload == [job |-> "none", attempt |-> -1]
NoClaim   == [payload |-> NoPayload, token |-> 0]
Payload   == [job : Job, attempt : 0 .. MaxAttempts - 1]
Claims    == [payload : Payload, token : Nat \ {0}]

Working   == {"handle", "ack", "retry", "defer", "fail"}
Locations == {"idle", "poll", "claim", "dead"} \cup Working
Scores    == {"none", "later", "past"}

Mishap(n, bound) == n < bound /\ stalls + crashes + faults + losses < MaxMishaps

Goto(c, l) == pc' = [pc EXCEPT ![c] = l]
JobOf(c)   == claim[c].payload.job

Empty ==
  [ready |-> << >>, processing |-> [p \in Payload |-> 0],
   inflight |-> [j \in Job |-> NoClaim], lease |-> [j \in Job |-> "none"],
   delayed |-> [j \in Job |-> "none"], delayedData |-> [j \in Job |-> NoPayload]]

Init ==
  /\ ready = Empty.ready /\ processing = Empty.processing
  /\ inflight = Empty.inflight /\ lease = Empty.lease
  /\ delayed = Empty.delayed /\ delayedData = Empty.delayedData
  /\ dlq = {}
  /\ pc = [c \in Consumer |-> "idle"]
  /\ claim = [c \in Consumer |-> NoClaim]
  /\ sent = {} /\ acked = {} /\ wiped = {}
  /\ claims = [j \in Job |-> 0] /\ expiries = [j \in Job |-> 0]
  /\ fails = [j \in Job |-> 0] /\ defers = [j \in Job |-> 0]
  /\ stalls = 0 /\ crashes = 0 /\ faults = 0 /\ losses = 0

-----------------------------------------------------------------------------
(* The Lua scripts.                                                        *)

\* Fault: the token is not compared, a claim on the job is enough.
FencedByPresence(c) == inflight[JobOf(c)] # NoClaim

\* The claim of consumer c is still the one in the inflight hash.
Fenced(c) == inflight[JobOf(c)] # NoClaim /\ inflight[JobOf(c)].token = claim[c].token

\* HDEL and ZREM of the claims on the jobs of J.
DropClaims(J) ==
  /\ inflight' = [j \in Job |-> IF j \in J THEN NoClaim ELSE inflight[j]]
  /\ lease'    = [j \in Job |-> IF j \in J THEN "none" ELSE lease[j]]

\* LREM processing 1 originalPayload, for each of these claims.
Leave(J) ==
  processing' = [p \in Payload |->
                   IF p.job \in J /\ inflight[p.job].payload = p /\ processing[p] > 0
                   THEN processing[p] - 1 ELSE processing[p]]

\* enqueueInboundEmailDurableJob, by a producer or by the recovery sweeper, for a
\* record that may have been decided since it was read.  Nobody looks whether
\* another wake-up for it is on its way.
Enqueue(j) ==
  /\ j \notin sent
  /\ ready' = Append(ready, [job |-> j, attempt |-> 0])
  /\ sent'  = sent \cup {j}
  /\ UNCHANGED <<processing, inflight, lease, delayed, delayedData, dlq, consumer,
                 acked, wiped, claims, expiries, fails, defers, counters>>

\* Fault: a reclaim counts as an attempt.
ReclaimExpiredCounting ==
  LET expired == {j \in Job : lease[j] = "past"}
      Charge(p) == IF p.attempt + 1 < MaxAttempts THEN [p EXCEPT !.attempt = @ + 1] ELSE p IN
  /\ \E s \in SetToSeqs({j \in expired : inflight[j] # NoClaim}) :
       ready' = ready \o [i \in 1 .. Len(s) |-> Charge(inflight[s[i]].payload)]
  /\ Leave(expired) /\ DropClaims(expired)

\* RECLAIM: every expired claim goes back to ready with its original payload,
\* in the order of the scores (any order here), and a deadline without a claim is
\* cleared.  One reclaim takes up to 20.
ReclaimExpired ==
  LET expired == {j \in Job : lease[j] = "past"} IN
  /\ \E s \in SetToSeqs({j \in expired : inflight[j] # NoClaim}) :
       ready' = ready \o [i \in 1 .. Len(s) |-> inflight[s[i]].payload]
  /\ Leave(expired) /\ DropClaims(expired)

\* PUMP: every due deferred job goes back to ready.
PumpDelayed ==
  LET due == {j \in Job : delayed[j] = "past"} IN
  /\ \E s \in SetToSeqs({j \in due : delayedData[j] # NoPayload}) :
       ready' = ready \o [i \in 1 .. Len(s) |-> delayedData[s[i]]]
  /\ delayed'     = [j \in Job |-> IF j \in due THEN "none" ELSE delayed[j]]
  /\ delayedData' = [j \in Job |-> IF j \in due THEN NoPayload ELSE delayedData[j]]

\* Fault: the claim is recorded without a deadline.
TakeReadyNoDeadline(c) ==
  LET p == Last(ready)
      k == [payload |-> p, token |-> claims[p.job] + 1] IN
  /\ ready'      = Front(ready)
  /\ processing' = [processing EXCEPT ![p] = @ + 1]
  /\ inflight'   = [inflight EXCEPT ![p.job] = k]
  /\ claim'      = [claim EXCEPT ![c] = k]
  /\ claims'     = [claims EXCEPT ![p.job] = @ + 1]
  /\ UNCHANGED lease

\* CLAIM: RPOPLPUSH, then the claim with a new token and a new deadline.
TakeReady(c) ==
  LET p == Last(ready)
      k == [payload |-> p, token |-> claims[p.job] + 1] IN
  /\ ready'      = Front(ready)
  /\ processing' = [processing EXCEPT ![p] = @ + 1]
  /\ inflight'   = [inflight EXCEPT ![p.job] = k]
  /\ lease'      = [lease EXCEPT ![p.job] = "later"]
  /\ claim'      = [claim EXCEPT ![c] = k]
  /\ claims'     = [claims EXCEPT ![p.job] = @ + 1]

\* ACK
AckScript(c) ==
  IF Fenced(c)
  THEN /\ Leave({JobOf(c)}) /\ DropClaims({JobOf(c)})
       /\ acked' = acked \cup {JobOf(c)}
  ELSE UNCHANGED <<processing, inflight, lease, acked>>

\* FAIL compares the attempt that would come next with the cap.
OutOfAttempts(n) == n >= MaxAttempts

\* Fault: the job is put back before its token is looked at.
FailUnfenced(c) ==
  LET j == JobOf(c)
      p == [claim[c].payload EXCEPT !.attempt = @ + 1] IN
  /\ fails' = [fails EXCEPT ![j] = @ + 1]
  /\ IF OutOfAttempts(p.attempt) THEN dlq' = dlq \cup {j} /\ UNCHANGED ready
                                 ELSE ready' = Append(ready, p) /\ UNCHANGED dlq
  /\ IF Fenced(c) THEN Leave({j}) /\ DropClaims({j}) ELSE UNCHANGED <<processing, inflight, lease>>

\* FAIL
FailScript(c) ==
  LET j == JobOf(c)
      p == [inflight[j].payload EXCEPT !.attempt = @ + 1] IN
  IF Fenced(c)
  THEN /\ Leave({j}) /\ DropClaims({j})
       /\ fails' = [fails EXCEPT ![j] = @ + 1]
       /\ IF OutOfAttempts(p.attempt) THEN dlq' = dlq \cup {j} /\ UNCHANGED ready
                                      ELSE ready' = Append(ready, p) /\ UNCHANGED dlq
  ELSE UNCHANGED <<ready, processing, inflight, lease, dlq, fails>>

\* DEFER: the deadline may be past already (untilMs is at least now).
DeferScript(c) ==
  LET j == JobOf(c) IN
  IF Fenced(c)
  THEN /\ Leave({j}) /\ DropClaims({j})
       /\ delayedData' = [delayedData EXCEPT ![j] = inflight[j].payload]
       /\ delayed'     = [delayed EXCEPT ![j] = "later"]
       /\ defers'      = [defers EXCEPT ![j] = @ + 1]
  ELSE UNCHANGED <<processing, inflight, lease, delayed, delayedData, defers>>

-----------------------------------------------------------------------------
(* runOnce                                                                 *)

Reclaim(c) ==
  /\ pc[c] = "idle"
  /\ ReclaimExpired
  /\ Goto(c, "poll")
  /\ UNCHANGED <<delayed, delayedData, dlq, claim, observers, counters>>

\* claimInboundEmailDurableJob pumps before every attempt to claim.
Pump(c) ==
  /\ pc[c] = "poll"
  /\ PumpDelayed
  /\ Goto(c, "claim")
  /\ UNCHANGED <<processing, inflight, lease, dlq, claim, observers, counters>>

Claim(c) ==
  /\ pc[c] = "claim"
  /\ ready # << >>
  /\ TakeReady(c)
  /\ Goto(c, "handle")
  /\ UNCHANGED <<delayed, delayedData, dlq, sent, acked, wiped, expiries, fails,
                 defers, counters>>

\* Nothing is ready and the block time is over (polling again before that is the
\* same with a reclaim that finds nothing): runOnce ends.
ClaimEmpty(c) ==
  /\ pc[c] = "claim"
  /\ ready = << >>
  /\ Goto(c, "idle")
  /\ UNCHANGED <<queue, claim, observers, counters>>

-----------------------------------------------------------------------------
(* The handler (processUnifiedInboundEmailDurableJob) under processClaim.  *)

\* The record is terminal, or parked, in shadow mode, its lease lost, its
\* provider paused, the durable mode off: no guard stands for all of these.
ReturnsAck(c) ==
  /\ pc[c] = "handle"
  /\ Goto(c, "ack")
  /\ UNCHANGED <<queue, claim, observers, counters>>

\* A retry disposition; or the handler throws, or withTimeoutAndAbort rejects
\* while the handler runs on: both end in the catch block.
ReturnsRetry(c) ==
  /\ pc[c] = "handle"
  /\ \E l \in {"retry", "fail"} : Goto(c, l)
  /\ UNCHANGED <<queue, claim, observers, counters>>

\* The record was read as in work elsewhere (a live Postgres lease) or not due.
ReturnsDefer(c) ==
  /\ pc[c] = "handle"
  /\ defers[JobOf(c)] < MaxDefers
  /\ Goto(c, "defer")
  /\ UNCHANGED <<queue, claim, observers, counters>>

\* Fault: RENEW writes the deadline without looking at the claim.
RenewBlindly(c) ==
  /\ pc[c] = "handle"
  /\ lease' = [lease EXCEPT ![JobOf(c)] = "later"]
  /\ UNCHANGED <<ready, processing, inflight, delayed, delayedData, dlq, consumer,
                 observers, counters>>

\* A heartbeat: RENEW moves the deadline of the claim it is fenced by.
Renew(c) ==
  /\ pc[c] = "handle"
  /\ Fenced(c)
  /\ lease' = [lease EXCEPT ![JobOf(c)] = "later"]
  /\ UNCHANGED <<ready, processing, inflight, delayed, delayedData, dlq, consumer,
                 observers, counters>>

\* A heartbeat that finds the claim superseded: the handler is aborted and the job
\* is dropped with no disposition.
RenewLost(c) ==
  /\ pc[c] = "handle"
  /\ ~Fenced(c)
  /\ Goto(c, "idle")
  /\ UNCHANGED <<queue, claim, observers, counters>>

\* The Redis renewal fails, or the Postgres lease is lost, which the record's
\* own commit also causes.
RenewFails(c) ==
  /\ pc[c] = "handle"
  /\ Mishap(faults, MaxFaults)
  /\ faults' = faults + 1
  /\ Goto(c, "idle")
  /\ UNCHANGED <<queue, claim, observers, stalls, crashes, losses>>

Ack(c) ==
  /\ pc[c] = "ack"
  /\ AckScript(c)
  /\ Goto(c, "idle")
  /\ UNCHANGED <<ready, delayed, delayedData, dlq, claim, sent, wiped, claims,
                 expiries, fails, defers, counters>>

\* The failure of a retry disposition, or (in the catch block) of an error.
Fail(c) ==
  /\ pc[c] \in {"retry", "fail"}
  /\ FailScript(c)
  /\ Goto(c, "idle")
  /\ UNCHANGED <<delayed, delayedData, claim, sent, acked, wiped, claims,
                 expiries, defers, counters>>

Defer(c) ==
  /\ pc[c] = "defer"
  /\ DeferScript(c)
  /\ Goto(c, "idle")
  /\ UNCHANGED <<ready, dlq, claim, sent, acked, wiped, claims, expiries,
                 fails, counters>>

\* The call of a disposition throws, its script run or not: the catch block
\* fails the job.
SettleThrows(c) ==
  /\ pc[c] \in {"ack", "retry", "defer"}
  /\ Mishap(faults, MaxFaults)
  /\ faults' = faults + 1
  /\ \/ UNCHANGED <<queue, observers>>
     \/ /\ pc[c] = "ack" /\ AckScript(c)
        /\ UNCHANGED <<ready, delayed, delayedData, dlq, sent, wiped, claims, expiries, fails, defers>>
     \/ /\ pc[c] = "retry" /\ FailScript(c)
        /\ UNCHANGED <<delayed, delayedData, sent, acked, wiped, claims, expiries, defers>>
     \/ /\ pc[c] = "defer" /\ DeferScript(c)
        /\ UNCHANGED <<ready, dlq, sent, acked, wiped, claims, expiries, fails>>
  /\ Goto(c, "fail")
  /\ UNCHANGED <<claim, stalls, crashes, losses>>

\* A Redis error outside the try block ends start().  A supervisor restarts the
\* process; the consumer of server/src/bin stays down while the V1 loop of the
\* same process runs on.
LoopDies(c) ==
  /\ pc[c] \in {"idle", "poll", "claim", "fail"}
  /\ Mishap(faults, MaxFaults)
  /\ faults' = faults + 1
  /\ Goto(c, IF c \in Unsupervised THEN "dead" ELSE "idle")
  /\ UNCHANGED <<queue, claim, observers, stalls, crashes, losses>>

-----------------------------------------------------------------------------
(* The environment.                                                        *)

\* The process of a consumer dies with its handlers, and starts again.
Crash(c) ==
  /\ pc[c] # "idle"
  /\ Mishap(crashes, MaxCrashes)
  /\ crashes' = crashes + 1
  /\ Goto(c, "idle")
  /\ UNCHANGED <<queue, claim, observers, stalls, faults, losses>>

\* A consumer that works under the current claim of the job.
Held(j) == \E c \in Consumer : pc[c] \in Working
                               /\ JobOf(c) = j /\ Fenced(c)

LeaseExpires(j) ==
  /\ lease[j] = "later"
  /\ Held(j) => Mishap(stalls, MaxStalls)
  /\ stalls'   = IF Held(j) THEN stalls + 1 ELSE stalls
  /\ lease'    = [lease EXCEPT ![j] = "past"]
  /\ expiries' = [expiries EXCEPT ![j] = @ + 1]
  /\ UNCHANGED <<ready, processing, inflight, delayed, delayedData, dlq, consumer, sent,
                 acked, wiped, claims, fails, defers, crashes, faults, losses>>

DelayPasses(j) ==
  /\ delayed[j] = "later"
  /\ delayed' = [delayed EXCEPT ![j] = "past"]
  /\ UNCHANGED <<ready, processing, inflight, lease, delayedData, dlq, consumer,
                 observers, counters>>

\* The jobs Redis still has to deliver.
Queued ==
  {j \in Job : \/ \E i \in DOMAIN ready : ready[i].job = j
               \/ inflight[j] # NoClaim
               \/ delayedData[j] # NoPayload}

\* Redis restarts without its data.
RedisLosesData ==
  /\ Queued # {}
  /\ Mishap(losses, MaxLosses)
  /\ losses' = losses + 1
  /\ wiped'  = wiped \cup Queued
  /\ ready' = Empty.ready /\ processing' = Empty.processing
  /\ inflight' = Empty.inflight /\ lease' = Empty.lease
  /\ delayed' = Empty.delayed /\ delayedData' = Empty.delayedData
  /\ UNCHANGED <<dlq, consumer, sent, acked, claims, expiries, fails, defers,
                 stalls, crashes, faults>>

Loop(c)    == Reclaim(c) \/ Pump(c) \/ Claim(c) \/ ClaimEmpty(c)
Returns(c) == ReturnsAck(c) \/ ReturnsRetry(c) \/ ReturnsDefer(c)
Settle(c)  == Ack(c) \/ Fail(c) \/ Defer(c)
Beat(c)    == Renew(c) \/ RenewLost(c) \/ RenewFails(c)
Time(j)    == LeaseExpires(j) \/ DelayPasses(j)

Next ==
  \/ \E j \in Job : Enqueue(j) \/ Time(j)
  \/ \E c \in Consumer : Loop(c) \/ Returns(c) \/ Settle(c) \/ Beat(c)
                         \/ SettleThrows(c) \/ LoopDies(c) \/ Crash(c)
  \/ RedisLosesData

Spec == Init /\ [][Next]_vars

\* The loop turns, a handler returns or times out, Redis answers, time passes.
\* Nothing brings a new job.
Fairness ==
  /\ \A c \in Consumer : WF_vars(Loop(c)) /\ WF_vars(Returns(c)) /\ WF_vars(Settle(c))
  /\ \A j \in Job : WF_vars(Time(j))

FairSpec == Spec /\ Fairness

-----------------------------------------------------------------------------
(* Properties.                                                             *)

\* The Redis structures and the consumers' locals stay in their domains: no
\* payload is put back with its attempts spent.
TypeOK ==
  /\ ready \in Seq(Payload)
  /\ processing \in [Payload -> Nat]
  /\ inflight \in [Job -> Claims \cup {NoClaim}]
  /\ lease \in [Job -> Scores] /\ delayed \in [Job -> Scores]
  /\ delayedData \in [Job -> Payload \cup {NoPayload}]
  /\ dlq \subseteq Job
  /\ pc \in [Consumer -> Locations]
  /\ claim \in [Consumer -> Claims \cup {NoClaim}]
  /\ sent \subseteq Job /\ acked \subseteq Job /\ wiped \subseteq Job
  /\ {claims, expiries, fails, defers} \subseteq [Job -> Nat]
  /\ {stalls, crashes, faults, losses} \subseteq Nat

Count(b) == IF b THEN 1 ELSE 0

\* How many times the job stands in one of the places a job can be.
Places(j) ==
  Cardinality({i \in DOMAIN ready : ready[i].job = j})
  + Count(inflight[j] # NoClaim) + Count(delayedData[j] # NoPayload)
  + Count(j \in dlq) + Count(j \in acked) + Count(j \in wiped)

\* No script and no crash, stale call or lost reply between two scripts loses a
\* job or makes two of it: an enqueued job is ready, claimed, deferred, dead,
\* acked, or was lost with Redis' data, and only one of these.
OnePlace == \A j \in Job : Places(j) = IF j \in sent THEN 1 ELSE 0

\* The three structures of a claim and the two of a deferral never drift apart:
\* a payload left in processing, or a deadline without a claim, would never be
\* found again by reclaim.
StructuresAgree ==
  /\ \A j \in Job : lease[j] # "none" <=> inflight[j] # NoClaim
  /\ \A j \in Job : delayed[j] # "none" <=> delayedData[j] # NoPayload
  /\ \A p \in Payload :
       processing[p] = Cardinality({j \in Job : inflight[j] # NoClaim /\ inflight[j].payload = p})

\* A job is handed out once, and once more for each failure, each deferral and each
\* deadline that passed; and it is dead-lettered after MaxAttempts failures of its
\* handler, never for deadlines, deferrals, or a failure that is reported twice or
\* by a consumer that no longer holds it.
HandOutsAccountedFor ==
  \A j \in Job :
    /\ claims[j] <= 1 + fails[j] + defers[j] + expiries[j]
    /\ j \in dlq => fails[j] = MaxAttempts

\* A claim whose deadline has not passed is ended by its own holder, by nobody
\* else (a late ack, fail or defer of an earlier claim changes nothing), unless
\* Redis loses its data.
OnlyHolderSettles ==
  [][\A j \in Job :
       lease[j] = "later" /\ inflight'[j] # inflight[j] =>
         \/ \E c \in Consumer : claim[c] = inflight[j] /\ pc[c] \in Working
                                /\ pc'[c] # pc[c]
         \/ losses' = losses + 1]_vars

\* Every job is acked, given up or lost with Redis, whatever consumers crash,
\* stall or lose a reply, as long as one of them is restarted.
EventuallySettled == \A j \in Job : j \in sent ~> j \in acked \cup dlq \cup wiped

=============================================================================

-------------------------- MODULE InboundQueueProofs --------------------------
(***************************************************************************)
(* Proofs about InboundQueue, for any jobs, consumers and bounds.          *)
(***************************************************************************)
EXTENDS InboundQueue, FiniteSetTheorems, SequenceTheorems, TLAPS

-----------------------------------------------------------------------------
(* The type invariant in parts.  A deadline stands only beside a claim, a  *)
(* due date only beside a payload, and a consumer at work has a claim.     *)

ReadyOK == ready \in Seq(Payload)

InWorkOK == processing \in [Payload -> Nat]

ClaimOK ==
  /\ inflight \in [Job -> Claims \cup {NoClaim}]
  /\ lease \in [Job -> Scores]
  /\ \A j \in Job : lease[j] # "none" => inflight[j] \in Claims

DelayOK ==
  /\ delayed \in [Job -> Scores]
  /\ delayedData \in [Job -> Payload \cup {NoPayload}]
  /\ \A j \in Job : delayed[j] # "none" => delayedData[j] \in Payload

ConsumerOK ==
  /\ pc \in [Consumer -> Locations]
  /\ claim \in [Consumer -> Claims \cup {NoClaim}]
  /\ \A c \in Consumer : pc[c] \in Working => claim[c] \in Claims

ObserverOK ==
  /\ dlq \subseteq Job
  /\ sent \subseteq Job /\ acked \subseteq Job /\ wiped \subseteq Job
  /\ claims \in [Job -> Nat] /\ expiries \in [Job -> Nat]
  /\ fails \in [Job -> Nat] /\ defers \in [Job -> Nat]
  /\ stalls \in Nat /\ crashes \in Nat /\ faults \in Nat /\ losses \in Nat

TypeInv == ReadyOK /\ InWorkOK /\ ClaimOK /\ DelayOK /\ ConsumerOK /\ ObserverOK

-----------------------------------------------------------------------------
LEMMA Domains ==
  /\ MaxAttempts \in Nat \ {0}
  /\ NoClaim \notin Claims
  /\ \A k \in Claims : /\ k.payload \in Payload /\ k.payload.job \in Job
                       /\ k.payload.attempt \in 0 .. MaxAttempts - 1 /\ k.token \in Nat \ {0}
  /\ Working \subseteq Locations
  BY QueueAssumption DEF NoClaim, Claims, Payload, Working, Locations

\* A consumer at work has a job.
LEMMA Worked ==
  ASSUME TypeInv, NEW c \in Consumer, pc[c] \in Working
  PROVE  JobOf(c) \in Job /\ claim[c] \in Claims
  BY Domains DEF TypeInv, ConsumerOK, JobOf

LEMMA Moves ==
  ASSUME ConsumerOK, NEW c \in Consumer, NEW l \in Locations, Goto(c, l),
         l \in Working => claim'[c] \in Claims,
         claim' \in [Consumer -> Claims \cup {NoClaim}],
         \A d \in Consumer \ {c} : claim'[d] = claim[d]
  PROVE  ConsumerOK'
  BY DEF ConsumerOK, Goto

LEMMA Stays ==
  ASSUME ConsumerOK, NEW c \in Consumer, NEW l \in Locations, Goto(c, l),
         l \in Working => pc[c] \in Working, UNCHANGED claim
  PROVE  ConsumerOK'
  BY DEF ConsumerOK, Goto

-----------------------------------------------------------------------------
(* The scripts.                                                            *)

\* An order of a finite set of jobs is a sequence of them.
LEMMA Orders ==
  ASSUME NEW S \in SUBSET Job, NEW s \in SetToSeqs(S)
  PROVE  s \in Seq(S) /\ Len(s) \in Nat /\ \A i \in 1 .. Len(s) : s[i] \in S
<1>1. Cardinality(S) \in Nat
  BY QueueAssumption, FS_Subset, FS_CardinalityType
<1>2. s \in [1 .. Cardinality(S) -> S]
  BY DEF SetToSeqs
<1>3. s \in Seq(S)
  BY <1>1, <1>2, SeqDef
<1>4. QED BY <1>3, LenProperties, ElementOfSeq

\* A function on the indices of a sequence with payloads for values is one.
LEMMA Payloads ==
  ASSUME NEW n \in Nat, NEW f \in [1 .. n -> Payload] PROVE f \in Seq(Payload)
  BY SeqDef

LEMMA DropType ==
  ASSUME ClaimOK, NEW J, DropClaims(J) PROVE ClaimOK'
  BY DEF ClaimOK, DropClaims, Scores

LEMMA LeaveType ==
  ASSUME InWorkOK, NEW J, Leave(J) PROVE InWorkOK'
  BY DEF InWorkOK, Leave

LEMMA ReclaimType ==
  ASSUME TypeInv, ReclaimExpired PROVE ReadyOK' /\ InWorkOK' /\ ClaimOK'
<1> DEFINE S == {j \in {k \in Job : lease[k] = "past"} : inflight[j] # NoClaim}
<1>1. PICK s \in SetToSeqs(S) : ready' = ready \o [i \in 1 .. Len(s) |-> inflight[s[i]].payload]
  BY DEF ReclaimExpired
<1>2. /\ Len(s) \in Nat /\ \A i \in 1 .. Len(s) : s[i] \in S
  BY <1>1, Orders
<1>3. \A j \in S : inflight[j].payload \in Payload
  BY Domains DEF TypeInv, ClaimOK
<1> HIDE DEF S
<1>4. [i \in 1 .. Len(s) |-> inflight[s[i]].payload] \in Seq(Payload)
  <2>1. [i \in 1 .. Len(s) |-> inflight[s[i]].payload] \in [1 .. Len(s) -> Payload]
    BY <1>2, <1>3
  <2>2. QED BY <1>2, <2>1, Payloads
<1>5. ReadyOK'
  BY <1>1, <1>4, ConcatProperties DEF TypeInv, ReadyOK
<1>6. QED BY <1>5, DropType, LeaveType DEF ReclaimExpired, TypeInv

LEMMA PumpType ==
  ASSUME TypeInv, PumpDelayed PROVE ReadyOK' /\ DelayOK'
<1> DEFINE S == {j \in {k \in Job : delayed[k] = "past"} : delayedData[j] # NoPayload}
<1>1. PICK s \in SetToSeqs(S) : ready' = ready \o [i \in 1 .. Len(s) |-> delayedData[s[i]]]
  BY DEF PumpDelayed
<1>2. /\ Len(s) \in Nat /\ \A i \in 1 .. Len(s) : s[i] \in S
  BY <1>1, Orders
<1>3. \A j \in S : delayedData[j] \in Payload
  BY DEF TypeInv, DelayOK
<1> HIDE DEF S
<1>4. [i \in 1 .. Len(s) |-> delayedData[s[i]]] \in Seq(Payload)
  <2>1. [i \in 1 .. Len(s) |-> delayedData[s[i]]] \in [1 .. Len(s) -> Payload]
    BY <1>2, <1>3
  <2>2. QED BY <1>2, <2>1, Payloads
<1>5. ReadyOK'
  BY <1>1, <1>4, ConcatProperties DEF TypeInv, ReadyOK
<1>6. DelayOK'
  BY DEF PumpDelayed, TypeInv, DelayOK, Scores
<1>7. QED BY <1>5, <1>6

LEMMA LastReady ==
  ASSUME ReadyOK, ready # << >> PROVE Last(ready) \in Payload /\ Last(ready).job \in Job
<1>1. ready \in Seq(Payload) /\ Len(ready) \in 1 .. Len(ready)
  BY EmptySeq DEF ReadyOK
<1>2. ready[Len(ready)] \in Payload
  BY <1>1, ElementOfSeq
<1>3. QED BY <1>2 DEF Last, Payload

\* CLAIM takes a payload off the list and gives it to the consumer.
LEMMA TakeType ==
  ASSUME TypeInv, NEW c \in Consumer, ready # << >>, TakeReady(c)
  PROVE  /\ ReadyOK' /\ InWorkOK' /\ ClaimOK' /\ claims' \in [Job -> Nat]
         /\ claim' \in [Consumer -> Claims \cup {NoClaim}] /\ claim'[c] \in Claims
         /\ \A d \in Consumer \ {c} : claim'[d] = claim[d]
<1> DEFINE p == Last(ready)
           k == [payload |-> p, token |-> claims[p.job] + 1]
<1>1. ready \in Seq(Payload) /\ Len(ready) \in Nat \ {0}
  BY EmptySeq DEF TypeInv, ReadyOK
<1>2. p \in Payload /\ p.job \in Job
  BY LastReady DEF TypeInv
<1>3. k \in Claims
  BY <1>2 DEF TypeInv, ObserverOK, Claims
<1>4. ReadyOK'
  <2>1. ready' = SubSeq(ready, 1, Len(ready) - 1)
    BY DEF TakeReady, Front
  <2>2. \A i \in 1 .. Len(ready) - 1 : ready[i] \in Payload
    BY <1>1, ElementOfSeq
  <2>3. QED BY <1>1, <2>1, <2>2, SubSeqProperties DEF ReadyOK
<1>5. /\ inflight' = [inflight EXCEPT ![p.job] = k] /\ lease' = [lease EXCEPT ![p.job] = "later"]
      /\ claim' = [claim EXCEPT ![c] = k] /\ claims' = [claims EXCEPT ![p.job] = claims[p.job] + 1]
      /\ processing' = [processing EXCEPT ![p] = processing[p] + 1]
  BY DEF TakeReady
<1> HIDE DEF p, k
<1>6. ClaimOK'
  BY <1>2, <1>3, <1>5 DEF TypeInv, ClaimOK, Scores
<1>7. InWorkOK'
  BY <1>2, <1>5 DEF TypeInv, InWorkOK
<1>8. QED BY <1>2, <1>3, <1>4, <1>5, <1>6, <1>7 DEF TypeInv, ConsumerOK, ObserverOK

LEMMA AckType ==
  ASSUME TypeInv, NEW c \in Consumer, pc[c] \in Working, AckScript(c)
  PROVE  InWorkOK' /\ ClaimOK' /\ acked' \in {acked, acked \cup {JobOf(c)}}
  BY DropType, LeaveType DEF AckScript, TypeInv, ClaimOK, InWorkOK

\* FAIL puts the payload back with one attempt more only below the cap.
LEMMA FailType ==
  ASSUME TypeInv, NEW c \in Consumer, pc[c] \in Working, FailScript(c)
  PROVE  ReadyOK' /\ InWorkOK' /\ ClaimOK' /\ dlq' \subseteq Job /\ fails' \in [Job -> Nat]
<1> DEFINE j == JobOf(c)
           p == [inflight[j].payload EXCEPT !.attempt = inflight[j].payload.attempt + 1]
<1>1. j \in Job
  BY Worked
<1>2. CASE Fenced(c)
  <2>1. inflight[j] \in Claims
    BY <1>1, <1>2 DEF TypeInv, ClaimOK, Fenced
  <2>2. inflight[j].payload \in Payload
    BY <2>1, Domains
  <2>3. p.attempt = inflight[j].payload.attempt + 1 /\ p.job = inflight[j].payload.job
        /\ p = [job |-> p.job, attempt |-> p.attempt]
    BY <2>2 DEF Payload
  <2>4. ~OutOfAttempts(p.attempt) => p \in Payload
    BY <2>2, <2>3, Domains DEF OutOfAttempts, Payload
  <2>5. /\ DropClaims({j}) /\ Leave({j}) /\ fails' = [fails EXCEPT ![j] = fails[j] + 1]
        /\ \/ OutOfAttempts(p.attempt) /\ dlq' = dlq \cup {j} /\ UNCHANGED ready
           \/ ~OutOfAttempts(p.attempt) /\ ready' = Append(ready, p) /\ UNCHANGED dlq
    BY <1>2 DEF FailScript
  <2> HIDE DEF p, j
  <2>6. ReadyOK'
    BY <2>4, <2>5 DEF TypeInv, ReadyOK
  <2>7. QED BY <1>1, <2>5, <2>6, DropType, LeaveType DEF TypeInv, ObserverOK
<1>3. CASE ~Fenced(c)
  BY <1>3 DEF FailScript, TypeInv, ReadyOK, InWorkOK, ClaimOK, ObserverOK
<1>4. QED BY <1>2, <1>3

LEMMA DeferType ==
  ASSUME TypeInv, NEW c \in Consumer, pc[c] \in Working, DeferScript(c)
  PROVE  InWorkOK' /\ ClaimOK' /\ DelayOK' /\ defers' \in [Job -> Nat]
<1>1. JobOf(c) \in Job
  BY Worked
<1>2. CASE Fenced(c)
  <2>1. inflight[JobOf(c)].payload \in Payload
    BY <1>1, <1>2, Domains DEF TypeInv, ClaimOK, Fenced
  <2>2. /\ DropClaims({JobOf(c)}) /\ Leave({JobOf(c)})
        /\ delayedData' = [delayedData EXCEPT ![JobOf(c)] = inflight[JobOf(c)].payload]
        /\ delayed' = [delayed EXCEPT ![JobOf(c)] = "later"]
        /\ defers' = [defers EXCEPT ![JobOf(c)] = defers[JobOf(c)] + 1]
    BY <1>2 DEF DeferScript
  <2>3. QED BY <1>1, <2>1, <2>2, DropType, LeaveType DEF TypeInv, DelayOK, ObserverOK, Scores
<1>3. CASE ~Fenced(c)
  BY <1>3 DEF DeferScript, TypeInv, InWorkOK, ClaimOK, DelayOK, ObserverOK
<1>4. QED BY <1>2, <1>3

-----------------------------------------------------------------------------
(* Type correctness.                                                       *)

LEMMA TypeInit == Init => TypeInv
  BY EmptySeq, Domains
     DEF Init, Empty, TypeInv, ReadyOK, InWorkOK, ClaimOK, DelayOK, ConsumerOK, ObserverOK, Scores,
         Locations, Working

LEMMA TypeNext == TypeInv /\ [Next]_vars => TypeInv'
<1> SUFFICES ASSUME TypeInv, [Next]_vars PROVE TypeInv'
  OBVIOUS
<1> USE DEF queue, consumer, observers, counters
<1>t. ReadyOK /\ InWorkOK /\ ClaimOK /\ DelayOK /\ ConsumerOK /\ ObserverOK
  BY DEF TypeInv
<1>u. /\ UNCHANGED ready => ReadyOK'
      /\ UNCHANGED processing => InWorkOK'
      /\ UNCHANGED <<inflight, lease>> => ClaimOK'
      /\ UNCHANGED <<delayed, delayedData>> => DelayOK'
      /\ UNCHANGED consumer => ConsumerOK'
      /\ UNCHANGED <<dlq, observers, counters>> => ObserverOK'
  BY <1>t DEF ReadyOK, InWorkOK, ClaimOK, DelayOK, ConsumerOK, ObserverOK
<1>l. {"idle", "poll", "claim", "dead"} \cap Working = {}
      /\ {"idle", "poll", "claim", "dead"} \cup Working \subseteq Locations
      /\ {"handle", "ack", "retry", "defer", "fail"} = Working
  BY DEF Working, Locations
<1>1. ASSUME NEW j \in Job, Enqueue(j) PROVE TypeInv'
  <2>1. [job |-> j, attempt |-> 0] \in Payload
    BY Domains DEF Payload
  <2>2. ReadyOK'
    BY <1>1, <1>t, <2>1 DEF Enqueue, ReadyOK
  <2>3. ObserverOK'
    BY <1>1, <1>t DEF Enqueue, ObserverOK
  <2>4. QED BY <1>1, <1>u, <2>2, <2>3 DEF Enqueue, TypeInv
<1>2. ASSUME NEW j \in Job, LeaseExpires(j) PROVE TypeInv'
  <2>1. ClaimOK'
    BY <1>2, <1>t DEF LeaseExpires, ClaimOK, Scores
  <2>2. ObserverOK'
    BY <1>2, <1>t DEF LeaseExpires, ObserverOK
  <2>3. QED BY <1>2, <1>u, <2>1, <2>2 DEF LeaseExpires, TypeInv
<1>3. ASSUME NEW j \in Job, DelayPasses(j) PROVE TypeInv'
  <2>1. DelayOK'
    BY <1>3, <1>t DEF DelayPasses, DelayOK, Scores
  <2>2. QED BY <1>3, <1>u, <2>1 DEF DelayPasses, TypeInv
<1>4. CASE RedisLosesData
  <2>1. ReadyOK' /\ InWorkOK' /\ ClaimOK' /\ DelayOK'
    BY <1>4, EmptySeq DEF RedisLosesData, Empty, ReadyOK, InWorkOK, ClaimOK, DelayOK, Scores
  <2>2. Queued \subseteq Job
    BY DEF Queued
  <2>3. ObserverOK'
    BY <1>4, <1>t, <2>2 DEF RedisLosesData, ObserverOK
  <2>4. QED BY <1>4, <1>u, <2>1, <2>3 DEF RedisLosesData, TypeInv
<1>5. ASSUME NEW c \in Consumer, Loop(c) PROVE TypeInv'
  <2>1. CASE Reclaim(c)
    <3>1. ConsumerOK'
      BY <1>l, <1>t, <2>1, Stays DEF Reclaim, ConsumerOK
    <3>2. QED BY <1>u, <2>1, <3>1, ReclaimType DEF Reclaim, TypeInv
  <2>2. CASE Pump(c)
    <3>1. ConsumerOK'
      BY <1>l, <1>t, <2>2, Stays DEF Pump, ConsumerOK
    <3>2. QED BY <1>u, <2>2, <3>1, PumpType DEF Pump, TypeInv
  <2>3. CASE Claim(c)
    <3>1. /\ ReadyOK' /\ InWorkOK' /\ ClaimOK' /\ claims' \in [Job -> Nat]
          /\ claim' \in [Consumer -> Claims \cup {NoClaim}] /\ claim'[c] \in Claims
          /\ \A d \in Consumer \ {c} : claim'[d] = claim[d]
      BY <2>3, TakeType DEF Claim
    <3>2. ConsumerOK'
      BY <1>l, <1>t, <2>3, <3>1, Moves DEF Claim, ConsumerOK
    <3>3. ObserverOK'
      BY <1>t, <2>3, <3>1 DEF Claim, ObserverOK
    <3>4. QED BY <1>u, <2>3, <3>1, <3>2, <3>3 DEF Claim, TypeInv
  <2>4. CASE ClaimEmpty(c)
    <3>1. ConsumerOK'
      BY <1>l, <1>t, <2>4, Stays DEF ClaimEmpty, ConsumerOK
    <3>2. QED BY <1>u, <2>4, <3>1 DEF ClaimEmpty, TypeInv
  <2>5. QED BY <1>5, <2>1, <2>2, <2>3, <2>4 DEF Loop
\* The consumer moves and its claim stays.
<1>6. ASSUME NEW c \in Consumer, NEW l \in Locations, Goto(c, l),
             l \in Working => pc[c] \in Working, UNCHANGED claim
      PROVE  ConsumerOK'
  BY <1>6, <1>t, Stays
<1>7. ASSUME NEW c \in Consumer, Returns(c) PROVE TypeInv'
  BY <1>6, <1>7, <1>l, <1>u
     DEF Returns, ReturnsAck, ReturnsRetry, ReturnsDefer, TypeInv
<1>8. ASSUME NEW c \in Consumer, Settle(c) PROVE TypeInv'
  <2>1. JobOf(c) \in Job
    BY <1>8, <1>l, Worked DEF Settle, Ack, Fail, Defer
  <2>2. ConsumerOK'
    BY <1>6, <1>8, <1>l DEF Settle, Ack, Fail, Defer
  <2>3. CASE Ack(c)
    <3>1. InWorkOK' /\ ClaimOK' /\ acked' \in {acked, acked \cup {JobOf(c)}}
      BY <1>l, <2>3, AckType DEF Ack
    <3>2. ObserverOK'
      BY <1>t, <2>1, <2>3, <3>1 DEF Ack, ObserverOK
    <3>3. QED BY <1>u, <2>2, <2>3, <3>1, <3>2 DEF Ack, TypeInv
  <2>4. CASE Fail(c)
    <3>1. ReadyOK' /\ InWorkOK' /\ ClaimOK' /\ dlq' \subseteq Job /\ fails' \in [Job -> Nat]
      BY <1>l, <2>4, FailType DEF Fail
    <3>2. ObserverOK'
      BY <1>t, <2>4, <3>1 DEF Fail, ObserverOK
    <3>3. QED BY <1>u, <2>2, <2>4, <3>1, <3>2 DEF Fail, TypeInv
  <2>5. CASE Defer(c)
    <3>1. InWorkOK' /\ ClaimOK' /\ DelayOK' /\ defers' \in [Job -> Nat]
      BY <1>l, <2>5, DeferType DEF Defer
    <3>2. ObserverOK'
      BY <1>t, <2>5, <3>1 DEF Defer, ObserverOK
    <3>3. QED BY <1>u, <2>2, <2>5, <3>1, <3>2 DEF Defer, TypeInv
  <2>6. QED BY <1>8, <2>3, <2>4, <2>5 DEF Settle
<1>9. ASSUME NEW c \in Consumer, Beat(c) PROVE TypeInv'
  <2>1. CASE Renew(c)
    <3>1. JobOf(c) \in Job /\ inflight[JobOf(c)] # NoClaim
      BY <1>l, <2>1, Worked DEF Renew, Fenced
    <3>2. ClaimOK'
      BY <1>t, <2>1, <3>1 DEF Renew, ClaimOK, Scores
    <3>3. QED BY <1>u, <2>1, <3>2 DEF Renew, TypeInv
  <2>2. CASE RenewLost(c)
    BY <1>6, <1>l, <1>u, <2>2 DEF RenewLost, TypeInv
  <2>3. CASE RenewFails(c)
    <3>1. ConsumerOK'
      BY <1>6, <1>l, <2>3 DEF RenewFails
    <3>2. ObserverOK'
      BY <1>t, <2>3 DEF RenewFails, ObserverOK
    <3>3. QED BY <1>u, <2>3, <3>1, <3>2 DEF RenewFails, TypeInv
  <2>4. QED BY <1>9, <2>1, <2>2, <2>3 DEF Beat
<1>10. ASSUME NEW c \in Consumer, SettleThrows(c) PROVE TypeInv'
  <2>1. JobOf(c) \in Job /\ pc[c] \in Working
    BY <1>10, <1>l, Worked DEF SettleThrows
  <2>2. ConsumerOK'
    BY <1>6, <1>10, <1>l, <2>1 DEF SettleThrows
  <2>3. faults' \in Nat
    BY <1>10, <1>t DEF SettleThrows, ObserverOK
  <2>4. CASE UNCHANGED <<queue, observers>>
    <3>1. ObserverOK'
      BY <1>10, <1>t, <2>3, <2>4 DEF SettleThrows, ObserverOK
    <3>2. QED BY <1>u, <2>2, <2>4, <3>1 DEF TypeInv
  <2>5. CASE AckScript(c) /\ UNCHANGED <<ready, delayed, delayedData, dlq, sent, wiped, claims,
                                         expiries, fails, defers>>
    <3>1. InWorkOK' /\ ClaimOK' /\ acked' \in {acked, acked \cup {JobOf(c)}}
      BY <2>1, <2>5, AckType
    <3>2. ObserverOK'
      BY <1>10, <1>t, <2>1, <2>3, <2>5, <3>1 DEF SettleThrows, ObserverOK
    <3>3. QED BY <1>u, <2>2, <2>5, <3>1, <3>2 DEF TypeInv
  <2>6. CASE FailScript(c) /\ UNCHANGED <<delayed, delayedData, sent, acked, wiped, claims,
                                          expiries, defers>>
    <3>1. ReadyOK' /\ InWorkOK' /\ ClaimOK' /\ dlq' \subseteq Job /\ fails' \in [Job -> Nat]
      BY <2>1, <2>6, FailType
    <3>2. ObserverOK'
      BY <1>10, <1>t, <2>3, <2>6, <3>1 DEF SettleThrows, ObserverOK
    <3>3. QED BY <1>u, <2>2, <2>6, <3>1, <3>2 DEF TypeInv
  <2>7. CASE DeferScript(c) /\ UNCHANGED <<ready, dlq, sent, acked, wiped, claims, expiries, fails>>
    <3>1. InWorkOK' /\ ClaimOK' /\ DelayOK' /\ defers' \in [Job -> Nat]
      BY <2>1, <2>7, DeferType
    <3>2. ObserverOK'
      BY <1>10, <1>t, <2>3, <2>7, <3>1 DEF SettleThrows, ObserverOK
    <3>3. QED BY <1>u, <2>2, <2>7, <3>1, <3>2 DEF TypeInv
  <2>8. QED BY <1>10, <2>4, <2>5, <2>6, <2>7 DEF SettleThrows
<1>11. ASSUME NEW c \in Consumer, LoopDies(c) \/ Crash(c) PROVE TypeInv'
  <2>1. PICK l \in {"dead", "idle"} : Goto(c, l)
    BY <1>11 DEF LoopDies, Crash
  <2>2. ConsumerOK'
    BY <1>11, <1>l, <1>t, <2>1, Stays DEF LoopDies, Crash
  <2>3. ObserverOK'
    BY <1>11, <1>t DEF LoopDies, Crash, ObserverOK
  <2>4. QED BY <1>11, <1>u, <2>2, <2>3 DEF LoopDies, Crash, TypeInv
<1>12. CASE UNCHANGED vars
  BY <1>12, <1>u DEF vars, TypeInv
<1>13. QED
  BY <1>1, <1>2, <1>3, <1>4, <1>5, <1>7, <1>8, <1>9, <1>10, <1>11, <1>12
     DEF Next, Time

LEMMA TypeAlways == Spec => []TypeInv
  BY TypeInit, TypeNext, PTL DEF Spec

\* The structures and the locals stay in their domains; no payload is put back
\* with its attempts spent (claim, fail and defer scripts, reclaim and pump).
THEOREM TypeCorrect == Spec => []TypeOK
<1>1. TypeInv => TypeOK
  BY DEF TypeInv, ReadyOK, InWorkOK, ClaimOK, DelayOK, ConsumerOK, ObserverOK, TypeOK
<1>2. QED BY <1>1, TypeAlways, PTL

-----------------------------------------------------------------------------
(* Where a job stands.  Redis keeps it in one place at a time: the number  *)
(* of places is an invariant once the hashes are known to be keyed by the  *)
(* job of their payload and the scores to stand beside an entry.           *)

InReady(j) == \E i \in DOMAIN ready : ready[i].job = j

OneEntry == \A i, k \in DOMAIN ready : ready[i].job = ready[k].job => i = k

ClaimsAgree ==
  \A j \in Job : /\ lease[j] # "none" <=> inflight[j] # NoClaim
                 /\ inflight[j] # NoClaim => inflight[j].payload.job = j

DelaysAgree ==
  \A j \in Job : /\ delayed[j] # "none" <=> delayedData[j] # NoPayload
                 /\ delayedData[j] # NoPayload => delayedData[j].job = j

InWorkAgrees == \A p \in Payload : processing[p] = Count(inflight[p.job].payload = p)

TallyOf(j) ==
  Count(InReady(j)) + Count(inflight[j] # NoClaim) + Count(delayedData[j] # NoPayload)
  + Count(j \in dlq) + Count(j \in acked) + Count(j \in wiped) = Count(j \in sent)

Tally == \A j \in Job : TallyOf(j)

PlaceInv == OneEntry /\ ClaimsAgree /\ DelaysAgree /\ InWorkAgrees /\ Tally

LEMMA NoPayloadOutside == NoPayload \notin Payload
  BY Domains DEF NoPayload, Payload

\* The orders of a finite set of jobs name each of them once.
LEMMA OrdersOnce ==
  ASSUME NEW S \in SUBSET Job, NEW s \in SetToSeqs(S)
  PROVE  /\ \A i, k \in 1 .. Len(s) : s[i] = s[k] => i = k
         /\ \A j \in S : \E i \in 1 .. Len(s) : s[i] = j
<1>1. IsFiniteSet(S) /\ Cardinality(S) \in Nat
  BY QueueAssumption, FS_Subset, FS_CardinalityType
<1>2. /\ s \in [1 .. Cardinality(S) -> S]
      /\ \A i, k \in 1 .. Cardinality(S) : i # k => s[i] # s[k]
  BY DEF SetToSeqs
<1>3. s \in Injection(1 .. Cardinality(S), S)
  BY <1>2 DEF Injection, IsInjective
<1>4. Cardinality(1 .. Cardinality(S)) = Cardinality(S)
  BY <1>1, FS_Interval
<1>5. s \in Surjection(1 .. Cardinality(S), S)
  BY <1>1, <1>3, <1>4, FS_Injection
<1>6. \A j \in S : \E i \in 1 .. Cardinality(S) : s[i] = j
  BY <1>5 DEF Surjection
<1>7. Len(s) = Cardinality(S)
  BY <1>1, <1>2, LenProperties, SeqDef
<1>8. QED BY <1>2, <1>6, <1>7

\* RPUSH of a job that is not on the list.
LEMMA AppendReady ==
  ASSUME ReadyOK, OneEntry, NEW p \in Payload, ~InReady(p.job), ready' = Append(ready, p)
  PROVE  OneEntry' /\ \A j : InReady(j)' <=> InReady(j) \/ j = p.job
<1>1. /\ Len(ready) \in Nat /\ DOMAIN ready = 1 .. Len(ready)
      /\ DOMAIN ready' = 1 .. Len(ready) + 1
      /\ \A i \in 1 .. Len(ready) : ready'[i] = ready[i]
      /\ ready'[Len(ready) + 1] = p
  BY AppendProperties, LenProperties DEF ReadyOK
<1>2. QED BY <1>1 DEF OneEntry, InReady

\* The right end is taken.
LEMMA FrontReady ==
  ASSUME ReadyOK, OneEntry, ready # << >>, ready' = Front(ready)
  PROVE  /\ OneEntry' /\ InReady(Last(ready).job)
         /\ \A j : InReady(j)' <=> InReady(j) /\ j # Last(ready).job
<1>1. /\ Len(ready) \in Nat \ {0} /\ DOMAIN ready = 1 .. Len(ready)
      /\ \A i \in 1 .. Len(ready) : ready[i] \in Payload
  BY EmptySeq, LenProperties, ElementOfSeq DEF ReadyOK
<1>2. ready' = SubSeq(ready, 1, Len(ready) - 1) /\ Last(ready) = ready[Len(ready)]
  BY DEF Front, Last
<1>3. /\ DOMAIN ready' = 1 .. Len(ready) - 1
      /\ \A i \in 1 .. Len(ready) - 1 : ready'[i] = ready[i]
  BY <1>1, <1>2, SubSeqProperties
<1>4. OneEntry'
  BY <1>1, <1>3 DEF OneEntry
<1>5. InReady(Last(ready).job)
  BY <1>1, <1>2 DEF InReady
<1>6. ASSUME NEW j PROVE InReady(j)' <=> InReady(j) /\ j # Last(ready).job
  <2>1. \A n \in Nat \ {0} : \A i \in 1 .. n : i \in 1 .. n - 1 \/ i = n
    OBVIOUS
  <2>2. \A i \in 1 .. Len(ready) - 1 : i \in 1 .. Len(ready) /\ ready[i].job # Last(ready).job
    BY <1>1, <1>2 DEF OneEntry
  <2>3. InReady(j)' <=> \E i \in 1 .. Len(ready) - 1 : ready[i].job = j
    BY <1>3 DEF InReady
  <2>4. InReady(j) <=> \E i \in 1 .. Len(ready) : ready[i].job = j
    BY <1>1 DEF InReady
  <2>5. ready[Len(ready)].job = Last(ready).job /\ Len(ready) \in 1 .. Len(ready)
    BY <1>1, <1>2
  <2>6. QED BY <1>1, <2>1, <2>2, <2>3, <2>4, <2>5
<1>7. QED BY <1>4, <1>5, <1>6

\* RPUSH of several jobs, none on the list and each once.
LEMMA ConcatReady ==
  ASSUME ReadyOK, OneEntry, NEW n \in Nat, NEW f \in [1 .. n -> Payload],
         \A i, k \in 1 .. n : f[i].job = f[k].job => i = k,
         \A i \in 1 .. n : ~InReady(f[i].job),
         ready' = ready \o f
  PROVE  OneEntry' /\ \A j : InReady(j)' <=> InReady(j) \/ \E i \in 1 .. n : f[i].job = j
<1>1. f \in Seq(Payload) /\ Len(f) = n
  BY Payloads, LenProperties, SeqDef
<1>2. Len(ready) \in Nat /\ DOMAIN ready = 1 .. Len(ready)
  BY LenProperties DEF ReadyOK
<1>3. /\ ready' \in Seq(Payload) /\ Len(ready') = Len(ready) + n
      /\ \A i \in 1 .. Len(ready) + n : ready'[i] = IF i <= Len(ready) THEN ready[i]
                                                                     ELSE f[i - Len(ready)]
  BY <1>1, ConcatProperties DEF ReadyOK
<1>4. DOMAIN ready' = 1 .. Len(ready) + n
  BY <1>3, LenProperties
<1>5. \A k \in 1 .. Len(ready) + n :
        \/ k \in 1 .. Len(ready) /\ ready'[k] = ready[k]
        \/ k > Len(ready) /\ k - Len(ready) \in 1 .. n /\ ready'[k] = f[k - Len(ready)]
  BY <1>2, <1>3
<1>6. /\ \A i \in 1 .. Len(ready) : i \in 1 .. Len(ready) + n /\ ~(i > Len(ready))
      /\ \A i \in 1 .. n : /\ Len(ready) + i \in 1 .. Len(ready) + n
                           /\ Len(ready) + i > Len(ready) /\ (Len(ready) + i) - Len(ready) = i
  BY <1>2
<1>7. ASSUME NEW j PROVE InReady(j)' <=> InReady(j) \/ \E i \in 1 .. n : f[i].job = j
  <2>1. InReady(j)' <=> \E i \in 1 .. Len(ready) + n : ready'[i].job = j
    BY <1>4 DEF InReady
  <2>2. InReady(j) <=> \E i \in 1 .. Len(ready) : ready[i].job = j
    BY <1>2 DEF InReady
  <2>3. InReady(j)' => InReady(j) \/ \E i \in 1 .. n : f[i].job = j
    BY <1>5, <2>1, <2>2
  <2>4. InReady(j) => InReady(j)'
    BY <1>5, <1>6, <2>1, <2>2
  <2>5. ASSUME NEW i \in 1 .. n, f[i].job = j PROVE InReady(j)'
    <3>1. PICK k \in 1 .. Len(ready) + n : k > Len(ready) /\ k - Len(ready) = i
      BY <1>6
    <3>2. ~(k \in 1 .. Len(ready))
      BY <1>2, <3>1
    <3>3. QED BY <1>5, <2>1, <2>5, <3>1, <3>2
  <2>6. QED BY <2>3, <2>4, <2>5
<1>8. OneEntry'
  <2>1. SUFFICES ASSUME NEW i \in 1 .. Len(ready) + n, NEW k \in 1 .. Len(ready) + n,
                        ready'[i].job = ready'[k].job
                 PROVE  i = k
    BY <1>4 DEF OneEntry
  <2>2. /\ \A h \in 1 .. Len(ready), g \in 1 .. Len(ready) : ready[h].job = ready[g].job => h = g
        /\ \A h \in 1 .. Len(ready), g \in 1 .. n : ready[h].job # f[g].job
    BY <1>2 DEF OneEntry, InReady
  <2>3. \/ i \in 1 .. Len(ready) /\ ready'[i] = ready[i]
        \/ i > Len(ready) /\ i - Len(ready) \in 1 .. n /\ ready'[i] = f[i - Len(ready)]
    BY <1>5
  <2>4. \/ k \in 1 .. Len(ready) /\ ready'[k] = ready[k]
        \/ k > Len(ready) /\ k - Len(ready) \in 1 .. n /\ ready'[k] = f[k - Len(ready)]
    BY <1>5
  <2>5. i - Len(ready) = k - Len(ready) => i = k
    BY <1>2
  <2>6. QED BY <2>1, <2>2, <2>3, <2>4, <2>5
<1>9. QED BY <1>7, <1>8

\* A claim that is dropped leaves nothing behind, in work or as a deadline.
LEMMA DropAgrees ==
  ASSUME TypeInv, ClaimsAgree, InWorkAgrees, NEW J, DropClaims(J), Leave(J)
  PROVE  ClaimsAgree' /\ InWorkAgrees'
<1>1. ClaimsAgree'
  BY DEF ClaimsAgree, DropClaims
<1>2. ASSUME NEW p \in Payload PROVE processing'[p] = Count(inflight'[p.job].payload = p)
  <2>1. p.job \in Job /\ p # NoPayload
    BY NoPayloadOutside DEF Payload
  <2>2. NoClaim.payload = NoPayload
    BY DEF NoClaim
  <2>3. processing[p] = Count(inflight[p.job].payload = p)
    BY DEF InWorkAgrees
  <2>4. processing'[p] = IF p.job \in J /\ inflight[p.job].payload = p /\ processing[p] > 0
                         THEN processing[p] - 1 ELSE processing[p]
    BY DEF Leave
  <2>5. inflight'[p.job] = IF p.job \in J THEN NoClaim ELSE inflight[p.job]
    BY <2>1 DEF DropClaims
  <2>6. QED BY <2>1, <2>2, <2>3, <2>4, <2>5 DEF Count
<1>3. QED BY <1>1, <1>2 DEF InWorkAgrees

\* What one place says of the others.
LEMMA Alone ==
  ASSUME Tally, NEW j \in Job
  PROVE  /\ InReady(j) => inflight[j] = NoClaim /\ delayedData[j] = NoPayload
         /\ inflight[j] # NoClaim => delayedData[j] = NoPayload
         /\ InReady(j) \/ inflight[j] # NoClaim \/ delayedData[j] # NoPayload =>
              j \in sent /\ j \notin dlq /\ j \notin acked /\ j \notin wiped
         /\ j \notin sent => /\ ~InReady(j) /\ inflight[j] = NoClaim /\ delayedData[j] = NoPayload
                             /\ j \notin dlq /\ j \notin acked /\ j \notin wiped
  BY DEF Tally, TallyOf, Count

\* CLAIM moves a job from the list to a claim of its own.
LEMMA TakePlace ==
  ASSUME TypeInv, PlaceInv, NEW c \in Consumer, ready # << >>, TakeReady(c),
         UNCHANGED <<delayed, delayedData, dlq, acked, wiped, sent>>
  PROVE  /\ PlaceInv'
         /\ inflight[Last(ready).job] = NoClaim
         /\ \A j \in Job : j # Last(ready).job => inflight'[j] = inflight[j]
<1> DEFINE p == Last(ready)
           k == [payload |-> p, token |-> claims[p.job] + 1]
<1>1. p \in Payload /\ p.job \in Job
  BY LastReady DEF TypeInv
<1>2. /\ OneEntry' /\ InReady(p.job) /\ \A j : InReady(j)' <=> InReady(j) /\ j # p.job
  BY FrontReady DEF TypeInv, PlaceInv, TakeReady
<1>3. /\ inflight' = [inflight EXCEPT ![p.job] = k] /\ lease' = [lease EXCEPT ![p.job] = "later"]
      /\ processing' = [processing EXCEPT ![p] = processing[p] + 1]
  BY DEF TakeReady
<1>4. k.payload = p /\ k # NoClaim
  BY <1>1, NoPayloadOutside DEF NoClaim
<1> HIDE DEF p, k
<1>5. inflight[p.job] = NoClaim
  BY <1>1, <1>2, Alone DEF PlaceInv
<1>6. /\ inflight'[p.job] = k /\ \A j \in Job : j # p.job => inflight'[j] = inflight[j]
      /\ lease'[p.job] = "later" /\ \A j \in Job : j # p.job => lease'[j] = lease[j]
  BY <1>1, <1>3 DEF TypeInv, ClaimOK
<1>7. ClaimsAgree'
  BY <1>4, <1>6 DEF PlaceInv, ClaimsAgree
<1>8. InWorkAgrees'
  <2>1. SUFFICES ASSUME NEW q \in Payload PROVE processing'[q] = Count(inflight'[q.job].payload = q)
    BY DEF InWorkAgrees
  <2>2. q.job \in Job /\ processing[q] = Count(inflight[q.job].payload = q)
    BY DEF PlaceInv, InWorkAgrees, Payload
  <2>3. CASE q = p
    <3>1. processing'[q] = processing[q] + 1
      BY <1>3, <2>3 DEF TypeInv, InWorkOK
    <3>2. processing[q] = 0
      BY <1>1, <1>5, <2>2, <2>3, NoPayloadOutside DEF Count, NoClaim
    <3>3. QED BY <1>4, <1>6, <2>3, <3>1, <3>2 DEF Count
  <2>4. CASE q # p
    <3>1. processing'[q] = processing[q]
      BY <1>3, <2>4 DEF TypeInv, InWorkOK
    <3>2. CASE q.job # p.job
      BY <1>6, <2>2, <3>1, <3>2
    <3>3. CASE q.job = p.job
      BY <1>4, <1>5, <1>6, <2>2, <2>4, <3>1, <3>3, NoPayloadOutside DEF Count, NoClaim
    <3>4. QED BY <3>2, <3>3
  <2>5. QED BY <2>3, <2>4
<1>9. Tally'
  <2>1. SUFFICES ASSUME NEW j \in Job PROVE TallyOf(j)'
    BY DEF Tally
  <2>2. TallyOf(j)
    BY DEF PlaceInv, Tally
  <2>3. CASE j = p.job
    BY <1>2, <1>4, <1>5, <1>6, <2>2, <2>3 DEF TallyOf, Count
  <2>4. CASE j # p.job
    BY <1>2, <1>6, <2>2, <2>4 DEF TallyOf, Count
  <2>5. QED BY <2>3, <2>4
<1>10. DelaysAgree'
  BY DEF PlaceInv, DelaysAgree
<1>11. QED BY <1>2, <1>5, <1>6, <1>7, <1>8, <1>9, <1>10 DEF PlaceInv, p

LEMMA ReclaimPlace ==
  ASSUME TypeInv, PlaceInv, ReclaimExpired,
         UNCHANGED <<delayed, delayedData, dlq, acked, wiped, sent>>
  PROVE  PlaceInv' /\ \A j \in Job : lease[j] # "past" => inflight'[j] = inflight[j]
<1> DEFINE E == {j \in Job : lease[j] = "past"}
           S == {j \in E : inflight[j] # NoClaim}
<1>1. PICK s \in SetToSeqs(S) : ready' = ready \o [i \in 1 .. Len(s) |-> inflight[s[i]].payload]
  BY DEF ReclaimExpired
<1>2. /\ Len(s) \in Nat /\ \A i \in 1 .. Len(s) : s[i] \in S
      /\ \A i, k \in 1 .. Len(s) : s[i] = s[k] => i = k
      /\ \A j \in S : \E i \in 1 .. Len(s) : s[i] = j
  <2>1. S \in SUBSET Job
    OBVIOUS
  <2> HIDE DEF S
  <2>2. QED BY <1>1, <2>1, Orders, OrdersOnce
<1>3. \A j \in S : /\ j \in Job /\ inflight[j] # NoClaim
                   /\ inflight[j].payload \in Payload /\ inflight[j].payload.job = j
  BY Domains DEF TypeInv, ClaimOK, PlaceInv, ClaimsAgree
<1>4. DropClaims(E) /\ Leave(E)
  BY DEF ReclaimExpired
<1>5. ClaimsAgree' /\ InWorkAgrees'
  BY <1>4, DropAgrees DEF PlaceInv
<1>6. \A j \in Job : /\ inflight'[j] = IF j \in S THEN NoClaim ELSE inflight[j]
                     /\ lease[j] # "past" => j \notin S
  BY <1>4 DEF DropClaims
<1> HIDE DEF S, E
<1> DEFINE f == [i \in 1 .. Len(s) |-> inflight[s[i]].payload]
<1>7. /\ f \in [1 .. Len(s) -> Payload] /\ \A i \in 1 .. Len(s) : f[i].job = s[i]
  BY <1>2, <1>3
<1>8. ready' = ready \o f
  BY <1>1
<1> HIDE DEF f
<1>9. \A i \in 1 .. Len(s) : ~InReady(f[i].job)
  BY <1>2, <1>3, <1>7, Alone DEF PlaceInv
<1>10. OneEntry' /\ \A j : InReady(j)' <=> InReady(j) \/ \E i \in 1 .. Len(s) : f[i].job = j
  <2>1. ReadyOK /\ OneEntry /\ Len(s) \in Nat
    BY <1>2 DEF TypeInv, PlaceInv
  <2>2. \A i, k \in 1 .. Len(s) : f[i].job = f[k].job => i = k
    BY <1>2, <1>7
  <2>3. QED BY <1>7, <1>8, <1>9, <2>1, <2>2, ConcatReady
<1>11. \A j : InReady(j)' <=> InReady(j) \/ j \in S
  BY <1>2, <1>7, <1>10
<1>12. Tally'
  <2>1. SUFFICES ASSUME NEW j \in Job PROVE TallyOf(j)'
    BY DEF Tally
  <2>2. TallyOf(j) /\ (InReady(j) => j \notin S)
    BY <1>3, Alone DEF PlaceInv, Tally
  <2>3. QED BY <1>3, <1>6, <1>11, <2>2 DEF TallyOf, Count
<1>13. DelaysAgree'
  BY DEF PlaceInv, DelaysAgree
<1>14. QED BY <1>5, <1>6, <1>10, <1>12, <1>13 DEF PlaceInv

LEMMA PumpPlace ==
  ASSUME TypeInv, PlaceInv, PumpDelayed,
         UNCHANGED <<processing, inflight, lease, dlq, acked, wiped, sent>>
  PROVE  PlaceInv'
<1> DEFINE E == {j \in Job : delayed[j] = "past"}
           S == {j \in E : delayedData[j] # NoPayload}
<1>1. PICK s \in SetToSeqs(S) : ready' = ready \o [i \in 1 .. Len(s) |-> delayedData[s[i]]]
  BY DEF PumpDelayed
<1>2. /\ Len(s) \in Nat /\ \A i \in 1 .. Len(s) : s[i] \in S
      /\ \A i, k \in 1 .. Len(s) : s[i] = s[k] => i = k
      /\ \A j \in S : \E i \in 1 .. Len(s) : s[i] = j
  <2>1. S \in SUBSET Job
    OBVIOUS
  <2> HIDE DEF S
  <2>2. QED BY <1>1, <2>1, Orders, OrdersOnce
<1>3. \A j \in S : /\ j \in Job /\ delayedData[j] # NoPayload
                   /\ delayedData[j] \in Payload /\ delayedData[j].job = j
  BY DEF TypeInv, DelayOK, PlaceInv, DelaysAgree
<1>4. \A j \in Job : delayedData'[j] = IF j \in S THEN NoPayload ELSE delayedData[j]
  BY DEF PumpDelayed
<1>5. DelaysAgree'
  BY DEF PumpDelayed, PlaceInv, DelaysAgree
<1> HIDE DEF S, E
<1> DEFINE f == [i \in 1 .. Len(s) |-> delayedData[s[i]]]
<1>7. /\ f \in [1 .. Len(s) -> Payload] /\ \A i \in 1 .. Len(s) : f[i].job = s[i]
  BY <1>2, <1>3
<1>8. ready' = ready \o f
  BY <1>1
<1> HIDE DEF f
<1>9. \A i \in 1 .. Len(s) : ~InReady(f[i].job)
  BY <1>2, <1>3, <1>7, Alone DEF PlaceInv
<1>10. OneEntry' /\ \A j : InReady(j)' <=> InReady(j) \/ \E i \in 1 .. Len(s) : f[i].job = j
  <2>1. ReadyOK /\ OneEntry /\ Len(s) \in Nat
    BY <1>2 DEF TypeInv, PlaceInv
  <2>2. \A i, k \in 1 .. Len(s) : f[i].job = f[k].job => i = k
    BY <1>2, <1>7
  <2>3. QED BY <1>7, <1>8, <1>9, <2>1, <2>2, ConcatReady
<1>11. \A j : InReady(j)' <=> InReady(j) \/ j \in S
  BY <1>2, <1>7, <1>10
<1>12. Tally'
  <2>1. SUFFICES ASSUME NEW j \in Job PROVE TallyOf(j)'
    BY DEF Tally
  <2>2. TallyOf(j) /\ (InReady(j) => j \notin S)
    BY <1>3, Alone DEF PlaceInv, Tally
  <2>3. QED BY <1>3, <1>4, <1>11, <2>2 DEF TallyOf, Count
<1>13. ClaimsAgree' /\ InWorkAgrees'
  BY DEF PlaceInv, ClaimsAgree, InWorkAgrees
<1>14. QED BY <1>5, <1>10, <1>12, <1>13 DEF PlaceInv

LEMMA ReadyStays ==
  ASSUME OneEntry, UNCHANGED ready PROVE OneEntry' /\ \A j : InReady(j)' <=> InReady(j)
  BY DEF OneEntry, InReady

LEMMA PlaceStays ==
  ASSUME PlaceInv,
         UNCHANGED <<ready, processing, inflight, lease, delayed, delayedData, dlq, sent, acked, wiped>>
  PROVE  PlaceInv'
<1>1. OneEntry' /\ \A j : InReady(j)' <=> InReady(j)
  BY ReadyStays DEF PlaceInv
<1>2. ClaimsAgree' /\ DelaysAgree' /\ InWorkAgrees'
  BY DEF PlaceInv, ClaimsAgree, DelaysAgree, InWorkAgrees
<1>3. ASSUME NEW j \in Job PROVE TallyOf(j)'
  <2>1. TallyOf(j)
    BY DEF PlaceInv, Tally
  <2>2. QED BY <1>1, <2>1 DEF TallyOf, Count
<1>4. QED BY <1>1, <1>2, <1>3 DEF PlaceInv, Tally

\* A disposition drops one claim, whose payload is the job's.
LEMMA Dropped ==
  ASSUME TypeInv, PlaceInv, NEW c \in Consumer, pc[c] \in Working, Fenced(c),
         DropClaims({JobOf(c)}), Leave({JobOf(c)})
  PROVE  /\ ClaimsAgree' /\ InWorkAgrees'
         /\ JobOf(c) \in Job /\ inflight[JobOf(c)] # NoClaim
         /\ inflight[JobOf(c)].payload \in Payload /\ inflight[JobOf(c)].payload.job = JobOf(c)
         /\ inflight'[JobOf(c)] = NoClaim
         /\ \A k \in Job : k # JobOf(c) => inflight'[k] = inflight[k]
<1>1. JobOf(c) \in Job /\ inflight[JobOf(c)] # NoClaim
  BY Worked DEF Fenced
<1>2. inflight[JobOf(c)].payload \in Payload /\ inflight[JobOf(c)].payload.job = JobOf(c)
  BY <1>1, Domains DEF TypeInv, ClaimOK, PlaceInv, ClaimsAgree
<1>3. ClaimsAgree' /\ InWorkAgrees'
  BY DropAgrees DEF PlaceInv
<1>4. QED BY <1>1, <1>2, <1>3 DEF DropClaims

LEMMA AckPlace ==
  ASSUME TypeInv, PlaceInv, NEW c \in Consumer, pc[c] \in Working, AckScript(c),
         UNCHANGED <<ready, delayed, delayedData, dlq, wiped, sent>>
  PROVE  PlaceInv'
<1>1. CASE Fenced(c)
  <2>1. DropClaims({JobOf(c)}) /\ Leave({JobOf(c)}) /\ acked' = acked \cup {JobOf(c)}
    BY <1>1 DEF AckScript
  <2>2. OneEntry' /\ DelaysAgree' /\ \A j : InReady(j)' <=> InReady(j)
    BY ReadyStays DEF PlaceInv, DelaysAgree
  <2>3. Tally'
    <3>1. SUFFICES ASSUME NEW j \in Job PROVE TallyOf(j)'
      BY DEF Tally
    <3>2. TallyOf(j)
      BY DEF PlaceInv, Tally
    <3>3. /\ j = JobOf(c) => inflight[j] # NoClaim /\ inflight'[j] = NoClaim /\ j \in acked'
          /\ j # JobOf(c) => inflight'[j] = inflight[j] /\ (j \in acked' <=> j \in acked)
      BY <1>1, <2>1, Dropped
    <3>4. QED BY <2>2, <3>2, <3>3 DEF TallyOf, Count
  <2>4. QED BY <1>1, <2>1, <2>2, <2>3, Dropped DEF PlaceInv
<1>2. CASE ~Fenced(c)
  BY <1>2, PlaceStays DEF AckScript
<1>3. QED BY <1>1, <1>2

LEMMA FailPlace ==
  ASSUME TypeInv, PlaceInv, NEW c \in Consumer, pc[c] \in Working, FailScript(c),
         UNCHANGED <<delayed, delayedData, acked, wiped, sent>>
  PROVE  PlaceInv'
<1> DEFINE j == JobOf(c)
           q == inflight[j].payload
           p == [q EXCEPT !.attempt = q.attempt + 1]
<1>1. CASE Fenced(c)
  <2>1. /\ DropClaims({j}) /\ Leave({j})
        /\ \/ OutOfAttempts(p.attempt) /\ dlq' = dlq \cup {j} /\ UNCHANGED ready
           \/ ~OutOfAttempts(p.attempt) /\ ready' = Append(ready, p) /\ UNCHANGED dlq
    BY <1>1 DEF FailScript
  <2>2. /\ ClaimsAgree' /\ InWorkAgrees' /\ j \in Job /\ inflight[j] # NoClaim
        /\ q \in Payload /\ q.job = j /\ inflight'[j] = NoClaim
        /\ \A k \in Job : k # j => inflight'[k] = inflight[k]
    BY <1>1, <2>1, Dropped
  <2>3. p.job = j /\ (~OutOfAttempts(p.attempt) => p \in Payload)
    <3>1. p.job = q.job /\ p.attempt = q.attempt + 1 /\ p = [job |-> p.job, attempt |-> p.attempt]
      BY <2>2 DEF Payload
    <3>2. QED BY <2>2, <3>1, Domains DEF OutOfAttempts, Payload
  <2> HIDE DEF p, q, j
  <2>4. ~InReady(j) /\ delayedData[j] = NoPayload /\ j \in sent /\ j \notin dlq
        /\ j \notin acked /\ j \notin wiped
    BY <2>2, Alone DEF PlaceInv
  <2>5. DelaysAgree'
    BY DEF PlaceInv, DelaysAgree
  <2>6. CASE OutOfAttempts(p.attempt) /\ dlq' = dlq \cup {j} /\ UNCHANGED ready
    <3>1. OneEntry' /\ \A k : InReady(k)' <=> InReady(k)
      BY <2>6, ReadyStays DEF PlaceInv
    <3>2. ASSUME NEW k \in Job PROVE TallyOf(k)'
      <4>1. TallyOf(k)
        BY DEF PlaceInv, Tally
      <4>2. k \in dlq' <=> k = j \/ k \in dlq
        BY <2>6
      <4>3. QED BY <2>2, <2>4, <3>1, <4>1, <4>2 DEF TallyOf, Count
    <3>3. QED BY <2>2, <2>5, <3>1, <3>2 DEF PlaceInv, Tally
  <2>7. CASE ~OutOfAttempts(p.attempt) /\ ready' = Append(ready, p) /\ UNCHANGED dlq
    <3>1. ReadyOK /\ OneEntry /\ p \in Payload /\ ~InReady(p.job) /\ ready' = Append(ready, p)
      BY <2>3, <2>4, <2>7 DEF PlaceInv, TypeInv
    <3>2. OneEntry' /\ \A k : InReady(k)' <=> InReady(k) \/ k = p.job
      BY <3>1, AppendReady
    <3>3. ASSUME NEW k \in Job PROVE TallyOf(k)'
      <4>1. TallyOf(k)
        BY DEF PlaceInv, Tally
      <4>2. InReady(k)' <=> InReady(k) \/ k = j
        BY <2>3, <3>2
      <4>3. QED BY <2>2, <2>4, <2>7, <4>1, <4>2 DEF TallyOf, Count
    <3>4. QED BY <2>2, <2>5, <3>2, <3>3 DEF PlaceInv, Tally
  <2>8. QED BY <2>1, <2>6, <2>7
<1>2. CASE ~Fenced(c)
  BY <1>2, PlaceStays DEF FailScript
<1>3. QED BY <1>1, <1>2

LEMMA DeferPlace ==
  ASSUME TypeInv, PlaceInv, NEW c \in Consumer, pc[c] \in Working, DeferScript(c),
         UNCHANGED <<ready, dlq, acked, wiped, sent>>
  PROVE  PlaceInv'
<1> DEFINE j == JobOf(c)
           q == inflight[j].payload
<1>1. CASE Fenced(c)
  <2>1. /\ DropClaims({j}) /\ Leave({j})
        /\ delayedData' = [delayedData EXCEPT ![j] = q] /\ delayed' = [delayed EXCEPT ![j] = "later"]
    BY <1>1 DEF DeferScript
  <2>2. /\ ClaimsAgree' /\ InWorkAgrees' /\ j \in Job /\ inflight[j] # NoClaim
        /\ q \in Payload /\ q.job = j /\ inflight'[j] = NoClaim
        /\ \A k \in Job : k # j => inflight'[k] = inflight[k]
    BY <1>1, <2>1, Dropped
  <2> HIDE DEF q, j
  <2>3. q # NoPayload
    BY <2>2, NoPayloadOutside
  <2>4. /\ delayedData'[j] = q /\ delayed'[j] = "later"
        /\ \A k \in Job : k # j => delayedData'[k] = delayedData[k] /\ delayed'[k] = delayed[k]
    BY <2>1, <2>2 DEF TypeInv, DelayOK
  <2>5. DelaysAgree'
    BY <2>2, <2>3, <2>4 DEF PlaceInv, DelaysAgree
  <2>6. OneEntry' /\ \A k : InReady(k)' <=> InReady(k)
    BY ReadyStays DEF PlaceInv
  <2>7. Tally'
    <3>1. SUFFICES ASSUME NEW k \in Job PROVE TallyOf(k)'
      BY DEF Tally
    <3>2. TallyOf(k)
      BY DEF PlaceInv, Tally
    <3>3. k = j => delayedData[k] = NoPayload
      BY <2>2, Alone DEF PlaceInv
    <3>4. QED BY <2>2, <2>3, <2>4, <2>6, <3>2, <3>3 DEF TallyOf, Count
  <2>8. QED BY <2>2, <2>5, <2>6, <2>7 DEF PlaceInv
<1>2. CASE ~Fenced(c)
  BY <1>2, PlaceStays DEF DeferScript
<1>3. QED BY <1>1, <1>2

LEMMA EnqueuePlace ==
  ASSUME TypeInv, PlaceInv, NEW j \in Job, Enqueue(j) PROVE PlaceInv'
<1> DEFINE p == [job |-> j, attempt |-> 0]
<1>1. p \in Payload /\ p.job = j
  BY Domains DEF Payload
<1>2. ready' = Append(ready, p) /\ j \notin sent /\ sent' = sent \cup {j}
      /\ UNCHANGED <<processing, inflight, lease, delayed, delayedData, dlq, acked, wiped>>
  BY DEF Enqueue
<1> HIDE DEF p
<1>3. ~InReady(j) /\ inflight[j] = NoClaim /\ delayedData[j] = NoPayload
      /\ j \notin dlq /\ j \notin acked /\ j \notin wiped
  BY <1>2, Alone DEF PlaceInv
<1>4. ReadyOK /\ OneEntry /\ ~InReady(p.job)
  BY <1>1, <1>3 DEF TypeInv, PlaceInv
<1>5. OneEntry' /\ \A k : InReady(k)' <=> InReady(k) \/ k = p.job
  BY <1>1, <1>2, <1>4, AppendReady
<1>6. ASSUME NEW k \in Job PROVE TallyOf(k)'
  <2>1. TallyOf(k)
    BY DEF PlaceInv, Tally
  <2>2. InReady(k)' <=> InReady(k) \/ k = j
    BY <1>1, <1>5
  <2>3. QED BY <1>2, <1>3, <2>1, <2>2 DEF TallyOf, Count
<1>7. ClaimsAgree' /\ DelaysAgree' /\ InWorkAgrees'
  BY <1>2 DEF PlaceInv, ClaimsAgree, DelaysAgree, InWorkAgrees
<1>8. QED BY <1>5, <1>6, <1>7 DEF PlaceInv, Tally

\* Redis loses its data: what it held is lost, once each.
LEMMA LossPlace ==
  ASSUME TypeInv, PlaceInv, RedisLosesData PROVE PlaceInv'
<1>1. /\ ready' = << >> /\ processing' = [p \in Payload |-> 0]
      /\ inflight' = [j \in Job |-> NoClaim] /\ lease' = [j \in Job |-> "none"]
      /\ delayed' = [j \in Job |-> "none"] /\ delayedData' = [j \in Job |-> NoPayload]
      /\ wiped' = wiped \cup Queued /\ UNCHANGED <<dlq, acked, sent>>
  BY DEF RedisLosesData, Empty
<1>2. DOMAIN ready' = {}
  BY <1>1
<1>3. OneEntry' /\ \A j : ~InReady(j)'
  BY <1>2 DEF OneEntry, InReady
<1>4. ClaimsAgree' /\ DelaysAgree'
  BY <1>1 DEF ClaimsAgree, DelaysAgree
<1>5. InWorkAgrees'
  <2>1. ASSUME NEW p \in Payload PROVE processing'[p] = Count(inflight'[p.job].payload = p)
    <3>1. p.job \in Job /\ p # NoPayload /\ processing'[p] = 0
      BY <1>1, NoPayloadOutside DEF Payload
    <3>2. inflight'[p.job].payload = NoPayload
      BY <1>1, <3>1 DEF NoClaim
    <3>3. QED BY <3>1, <3>2 DEF Count
  <2>2. QED BY <2>1 DEF InWorkAgrees
<1>6. ASSUME NEW j \in Job PROVE TallyOf(j)'
  <2>1. TallyOf(j)
    BY DEF PlaceInv, Tally
  <2>2. j \in wiped' <=> \/ j \in wiped \/ InReady(j)
                        \/ inflight[j] # NoClaim \/ delayedData[j] # NoPayload
    BY <1>1 DEF Queued, InReady
  <2>3. inflight'[j] = NoClaim /\ delayedData'[j] = NoPayload /\ ~InReady(j)'
    BY <1>1, <1>3
  <2>4. (j \in dlq' <=> j \in dlq) /\ (j \in acked' <=> j \in acked) /\ (j \in sent' <=> j \in sent)
    BY <1>1
  <2>5. QED BY <2>1, <2>2, <2>3, <2>4 DEF TallyOf, Count
<1>7. QED BY <1>3, <1>4, <1>5, <1>6 DEF PlaceInv, Tally

LEMMA PlaceInit == Init => PlaceInv
<1> SUFFICES ASSUME Init PROVE PlaceInv
  OBVIOUS
<1>1. /\ ready = << >> /\ processing = [p \in Payload |-> 0]
      /\ inflight = [j \in Job |-> NoClaim] /\ lease = [j \in Job |-> "none"]
      /\ delayed = [j \in Job |-> "none"] /\ delayedData = [j \in Job |-> NoPayload]
      /\ dlq = {} /\ sent = {} /\ acked = {} /\ wiped = {}
  BY DEF Init, Empty
<1>2. DOMAIN ready = {}
  BY <1>1
<1>3. OneEntry /\ \A j : ~InReady(j)
  BY <1>2 DEF OneEntry, InReady
<1>4. ClaimsAgree /\ DelaysAgree
  BY <1>1 DEF ClaimsAgree, DelaysAgree
<1>5. InWorkAgrees
  <2>1. ASSUME NEW p \in Payload PROVE processing[p] = Count(inflight[p.job].payload = p)
    <3>1. p.job \in Job /\ p # NoPayload /\ processing[p] = 0
      BY <1>1, NoPayloadOutside DEF Payload
    <3>2. inflight[p.job].payload = NoPayload
      BY <1>1, <3>1 DEF NoClaim
    <3>3. QED BY <3>1, <3>2 DEF Count
  <2>2. QED BY <2>1 DEF InWorkAgrees
<1>6. Tally
  BY <1>1, <1>3 DEF Tally, TallyOf, Count
<1>7. QED BY <1>3, <1>4, <1>5, <1>6 DEF PlaceInv

\* A deadline that moves stands beside its claim.
LEMMA LeaseMoves ==
  ASSUME TypeInv, PlaceInv, NEW j \in Job, inflight[j] # NoClaim, NEW l, l # "none",
         lease' = [lease EXCEPT ![j] = l],
         UNCHANGED <<ready, processing, inflight, delayed, delayedData, dlq, sent, acked, wiped>>
  PROVE  PlaceInv'
<1>1. OneEntry' /\ \A k : InReady(k)' <=> InReady(k)
  BY ReadyStays DEF PlaceInv
<1>2. ClaimsAgree'
  BY DEF TypeInv, ClaimOK, PlaceInv, ClaimsAgree
<1>3. DelaysAgree' /\ InWorkAgrees'
  BY DEF PlaceInv, DelaysAgree, InWorkAgrees
<1>4. ASSUME NEW k \in Job PROVE TallyOf(k)'
  <2>1. TallyOf(k)
    BY DEF PlaceInv, Tally
  <2>2. QED BY <1>1, <2>1 DEF TallyOf, Count
<1>5. QED BY <1>1, <1>2, <1>3, <1>4 DEF PlaceInv, Tally

LEMMA DueMoves ==
  ASSUME TypeInv, PlaceInv, NEW j \in Job, DelayPasses(j) PROVE PlaceInv'
<1>1. OneEntry' /\ \A k : InReady(k)' <=> InReady(k)
  BY ReadyStays DEF PlaceInv, DelayPasses
<1>2. DelaysAgree'
  BY DEF TypeInv, DelayOK, PlaceInv, DelaysAgree, DelayPasses
<1>3. ClaimsAgree' /\ InWorkAgrees'
  BY DEF PlaceInv, ClaimsAgree, InWorkAgrees, DelayPasses
<1>4. ASSUME NEW k \in Job PROVE TallyOf(k)'
  <2>1. TallyOf(k)
    BY DEF PlaceInv, Tally
  <2>2. QED BY <1>1, <2>1 DEF TallyOf, Count, DelayPasses, observers
<1>5. QED BY <1>1, <1>2, <1>3, <1>4 DEF PlaceInv, Tally

LEMMA PlaceNext == TypeInv /\ PlaceInv /\ [Next]_vars => PlaceInv'
<1> SUFFICES ASSUME TypeInv, PlaceInv, [Next]_vars PROVE PlaceInv'
  OBVIOUS
<1> USE DEF queue, consumer, observers, counters
<1>l. {"handle", "ack", "retry", "defer", "fail"} = Working
  BY DEF Working
<1>1. ASSUME NEW j \in Job, Enqueue(j) \/ Time(j) PROVE PlaceInv'
  <2>1. CASE LeaseExpires(j)
    <3>1. inflight[j] # NoClaim
      BY <2>1 DEF LeaseExpires, PlaceInv, ClaimsAgree
    <3>2. QED BY <2>1, <3>1, LeaseMoves DEF LeaseExpires
  <2>2. QED BY <1>1, <2>1, EnqueuePlace, DueMoves DEF Time
<1>2. CASE RedisLosesData
  BY <1>2, LossPlace
<1>3. ASSUME NEW c \in Consumer, Loop(c) PROVE PlaceInv'
  BY <1>3, ReclaimPlace, PumpPlace, TakePlace, PlaceStays DEF Loop, Reclaim, Pump, Claim, ClaimEmpty
<1>4. ASSUME NEW c \in Consumer, Settle(c) PROVE PlaceInv'
  BY <1>4, <1>l, AckPlace, FailPlace, DeferPlace DEF Settle, Ack, Fail, Defer
<1>5. ASSUME NEW c \in Consumer, SettleThrows(c) PROVE PlaceInv'
  BY <1>5, <1>l, AckPlace, FailPlace, DeferPlace, PlaceStays DEF SettleThrows
<1>6. ASSUME NEW c \in Consumer, Renew(c) PROVE PlaceInv'
  <2>1. JobOf(c) \in Job /\ inflight[JobOf(c)] # NoClaim
    BY <1>6, <1>l, Worked DEF Renew, Fenced
  <2>2. QED BY <1>6, <2>1, LeaseMoves DEF Renew
<1>7. ASSUME NEW c \in Consumer,
             Returns(c) \/ RenewLost(c) \/ RenewFails(c) \/ LoopDies(c) \/ Crash(c)
      PROVE  PlaceInv'
  BY <1>7, PlaceStays
     DEF Returns, ReturnsAck, ReturnsRetry, ReturnsDefer, RenewLost, RenewFails, LoopDies, Crash
<1>8. CASE UNCHANGED vars
  BY <1>8, PlaceStays DEF vars
<1>9. QED BY <1>1, <1>2, <1>3, <1>4, <1>5, <1>6, <1>7, <1>8 DEF Next, Beat

LEMMA PlaceAlways == Spec => []PlaceInv
  BY PlaceInit, PlaceNext, TypeAlways, PTL DEF Spec

\* A list with one entry of a job counts it once.
LEMMA Entries ==
  ASSUME OneEntry, NEW j
  PROVE  Cardinality({i \in DOMAIN ready : ready[i].job = j}) = Count(InReady(j))
<1> DEFINE I == {i \in DOMAIN ready : ready[i].job = j}
<1>1. CASE InReady(j)
  <2>1. PICK i \in DOMAIN ready : ready[i].job = j
    BY <1>1 DEF InReady
  <2>2. I = {i}
    BY <2>1 DEF OneEntry
  <2>3. QED BY <1>1, <2>2, FS_Singleton DEF Count
<1>2. CASE ~InReady(j)
  <2>1. I = {}
    BY <1>2 DEF InReady
  <2>2. QED BY <1>2, <2>1, FS_EmptySet DEF Count
<1>3. QED BY <1>1, <1>2

\* No script, crash, stale call or lost reply between two scripts loses a job or
\* makes two of it.
THEOREM EveryJobInOnePlace == Spec => []OnePlace
<1>1. PlaceInv => OnePlace
  BY Entries DEF PlaceInv, OnePlace, Places, Tally, TallyOf, Count
<1>2. QED BY <1>1, PlaceAlways, PTL

\* A claim stands in the hash, as a deadline and in processing, or in none of
\* them; a deferral as a due date and a payload, or as neither.
THEOREM ClaimStructuresAgree == Spec => []StructuresAgree
<1>1. ASSUME TypeInv, PlaceInv PROVE StructuresAgree
  <2>1. ASSUME NEW p \in Payload
        PROVE  processing[p] = Cardinality({j \in Job : inflight[j] # NoClaim /\ inflight[j].payload = p})
    <3> DEFINE S == {j \in Job : inflight[j] # NoClaim /\ inflight[j].payload = p}
    <3>1. p.job \in Job /\ p # NoPayload /\ processing[p] = Count(inflight[p.job].payload = p)
      BY <1>1, NoPayloadOutside DEF PlaceInv, InWorkAgrees, Payload
    <3>2. inflight[p.job].payload = p => S = {p.job}
      BY <1>1, <3>1 DEF PlaceInv, ClaimsAgree, NoClaim
    <3>3. inflight[p.job].payload # p => S = {}
      BY <1>1, <3>1 DEF PlaceInv, ClaimsAgree
    <3>4. QED BY <3>1, <3>2, <3>3, FS_Singleton, FS_EmptySet DEF Count
  <2>2. QED BY <1>1, <2>1 DEF StructuresAgree, PlaceInv, ClaimsAgree, DelaysAgree
<1>2. QED BY <1>1, PlaceAlways, TypeAlways, PTL

-----------------------------------------------------------------------------
(* Who ends a claim.  Tokens are handed out in ascending order for a job,  *)
(* so a token names one claim and a consumer that passes the comparison of *)
(* the script holds the claim in the hash.                                 *)

Tokens ==
  /\ \A j \in Job : inflight[j] # NoClaim => inflight[j].token <= claims[j]
  /\ \A c \in Consumer :
       claim[c] # NoClaim => /\ claim[c].token <= claims[JobOf(c)]
                             /\ Fenced(c) => claim[c] = inflight[JobOf(c)]

\* Claims that are dropped or stay, and no new one.
LEMMA TokensStay ==
  ASSUME TypeInv, Tokens, UNCHANGED <<claim, claims>>,
         \A j \in Job : inflight'[j] \in {inflight[j], NoClaim}
  PROVE  Tokens'
<1>1. \A c \in Consumer : claim[c] # NoClaim => JobOf(c) \in Job
  BY Domains DEF TypeInv, ConsumerOK, JobOf
<1>2. ASSUME NEW c \in Consumer, claim[c] # NoClaim
      PROVE  claim[c].token <= claims[JobOf(c)] /\ (Fenced(c)' => claim[c] = inflight'[JobOf(c)])
  <2>1. JobOf(c) \in Job /\ JobOf(c)' = JobOf(c)
    BY <1>1, <1>2 DEF JobOf
  <2>2. Fenced(c)' => Fenced(c) /\ inflight'[JobOf(c)] = inflight[JobOf(c)]
    BY <2>1 DEF Fenced
  <2>3. QED BY <1>2, <2>2 DEF Tokens
<1>3. \A j \in Job : inflight'[j] # NoClaim => inflight'[j].token <= claims[j]
  BY DEF Tokens
<1>4. QED BY <1>2, <1>3 DEF Tokens, JobOf

\* A new claim has a token above those of all earlier claims on the job.
LEMMA TokensTake ==
  ASSUME TypeInv, PlaceInv, Tokens, NEW c \in Consumer, ready # << >>, TakeReady(c)
  PROVE  Tokens'
<1> DEFINE p == Last(ready)
           k == [payload |-> p, token |-> claims[p.job] + 1]
<1>1. p \in Payload /\ p.job \in Job
  BY LastReady DEF TypeInv
<1>2. /\ inflight' = [inflight EXCEPT ![p.job] = k] /\ claim' = [claim EXCEPT ![c] = k]
      /\ claims' = [claims EXCEPT ![p.job] = claims[p.job] + 1]
  BY DEF TakeReady
<1>3. k.payload = p /\ k.token = claims[p.job] + 1
  OBVIOUS
<1> HIDE DEF p, k
<1>4. /\ inflight'[p.job] = k /\ \A j \in Job : j # p.job => inflight'[j] = inflight[j]
      /\ claims'[p.job] = claims[p.job] + 1 /\ \A j \in Job : j # p.job => claims'[j] = claims[j]
      /\ claim'[c] = k /\ \A d \in Consumer : d # c => claim'[d] = claim[d]
      /\ claims \in [Job -> Nat]
  BY <1>1, <1>2 DEF TypeInv, ClaimOK, ConsumerOK, ObserverOK
<1>5. ASSUME NEW j \in Job, inflight'[j] # NoClaim PROVE inflight'[j].token <= claims'[j]
  BY <1>1, <1>3, <1>4, <1>5 DEF Tokens
<1>6. ASSUME NEW d \in Consumer, claim'[d] # NoClaim
      PROVE  /\ claim'[d].token <= claims'[JobOf(d)']
             /\ Fenced(d)' => claim'[d] = inflight'[JobOf(d)']
  <2>1. CASE d = c
    <3>1. JobOf(d)' = p.job
      BY <1>3, <1>4, <2>1 DEF JobOf
    <3>2. QED BY <1>1, <1>3, <1>4, <2>1, <3>1
  <2>2. CASE d # c
    <3>1. claim[d] \in Claims /\ claim'[d] = claim[d]
      BY <1>4, <1>6, <2>2 DEF TypeInv, ConsumerOK
    <3>2. JobOf(d)' = JobOf(d) /\ JobOf(d) \in Job /\ claim[d].token \in Nat
      BY <3>1, Domains DEF JobOf
    <3>3. claim[d].token <= claims[JobOf(d)] /\ (Fenced(d) => claim[d] = inflight[JobOf(d)])
      BY <1>6, <3>1 DEF Tokens
    <3>4. CASE JobOf(d) = p.job
      <4>1. claims[p.job] \in Nat /\ claim[d].token <= claims[p.job]
        BY <1>1, <1>4, <3>3, <3>4
      <4>2. k.token # claim[d].token /\ claim[d].token <= claims'[p.job]
        BY <1>3, <1>4, <3>2, <4>1
      <4>3. ~Fenced(d)'
        BY <1>4, <3>1, <3>2, <3>4, <4>2 DEF Fenced
      <4>4. QED BY <3>1, <3>2, <3>4, <4>2, <4>3
    <3>5. CASE JobOf(d) # p.job
      <4>1. claims'[JobOf(d)] = claims[JobOf(d)] /\ inflight'[JobOf(d)] = inflight[JobOf(d)]
        BY <1>4, <3>2, <3>5
      <4>2. Fenced(d)' => Fenced(d)
        BY <3>1, <3>2, <4>1 DEF Fenced
      <4>3. QED BY <3>1, <3>2, <3>3, <4>1, <4>2
    <3>6. QED BY <3>4, <3>5
  <2>3. QED BY <2>1, <2>2
<1>7. QED BY <1>5, <1>6 DEF Tokens

\* What each step does to the claims in the hash: a new one where none was, an
\* expired one dropped, a fenced one dropped by its consumer, or all lost.
Ends(c) == Fenced(c) /\ pc[c] \in Working /\ pc'[c] # pc[c]

Touches(j) ==
  \/ inflight'[j] = inflight[j]
  \/ inflight[j] = NoClaim
  \/ lease[j] = "past"
  \/ \E c \in Consumer : JobOf(c) = j /\ Ends(c)
  \/ losses' = losses + 1

LEMMA ScriptTouches ==
  ASSUME TypeInv, NEW c \in Consumer, pc[c] \in Working,
         AckScript(c) \/ FailScript(c) \/ DeferScript(c)
  PROVE  /\ \A j \in Job : inflight'[j] \in {inflight[j], NoClaim}
         /\ \A j \in Job : inflight'[j] # inflight[j] => j = JobOf(c) /\ Fenced(c)
<1>1. CASE Fenced(c)
  <2>1. DropClaims({JobOf(c)})
    BY <1>1 DEF AckScript, FailScript, DeferScript
  <2>2. QED BY <1>1, <2>1 DEF DropClaims
<1>2. CASE ~Fenced(c)
  BY <1>2 DEF AckScript, FailScript, DeferScript
<1>3. QED BY <1>1, <1>2

LEMMA TokensNext ==
  TypeInv /\ PlaceInv /\ Tokens /\ [Next]_vars => Tokens' /\ \A j \in Job : Touches(j)
<1> SUFFICES ASSUME TypeInv, PlaceInv, Tokens, [Next]_vars
             PROVE  Tokens' /\ \A j \in Job : Touches(j)
  OBVIOUS
<1> USE DEF queue, consumer, observers, counters
<1>l. {"handle", "ack", "retry", "defer", "fail"} = Working /\ {"idle", "poll", "claim"} \cap Working = {}
  BY DEF Working
<1>t. pc \in [Consumer -> Locations]
  BY DEF TypeInv, ConsumerOK
<1>s. ASSUME UNCHANGED <<inflight, claim, claims>> PROVE Tokens' /\ \A j \in Job : Touches(j)
  BY <1>s, TokensStay DEF Touches
<1>1. ASSUME NEW j \in Job, Enqueue(j) \/ Time(j) PROVE Tokens' /\ \A k \in Job : Touches(k)
  BY <1>1, <1>s DEF Enqueue, Time, LeaseExpires, DelayPasses
<1>2. CASE RedisLosesData
  <2>1. UNCHANGED <<claim, claims>> /\ losses' = losses + 1 /\ inflight' = [j \in Job |-> NoClaim]
    BY <1>2 DEF RedisLosesData, Empty
  <2>2. QED BY <2>1, TokensStay DEF Touches
<1>3. ASSUME NEW c \in Consumer, Loop(c) PROVE Tokens' /\ \A j \in Job : Touches(j)
  <2>1. CASE Reclaim(c)
    <3>1. \A j \in Job : /\ inflight'[j] \in {inflight[j], NoClaim}
                         /\ lease[j] # "past" => inflight'[j] = inflight[j]
      BY <2>1 DEF Reclaim, ReclaimExpired, DropClaims
    <3>2. QED BY <2>1, <3>1, TokensStay DEF Reclaim, Touches
  <2>2. CASE Claim(c)
    <3>1. Tokens'
      BY <2>2, TokensTake DEF Claim
    <3>2. /\ inflight[Last(ready).job] = NoClaim
          /\ \A j \in Job : j # Last(ready).job => inflight'[j] = inflight[j]
      BY <2>2, TakePlace DEF Claim
    <3>3. QED BY <3>1, <3>2 DEF Touches
  <2>3. CASE Pump(c) \/ ClaimEmpty(c)
    BY <1>s, <2>3 DEF Pump, ClaimEmpty
  <2>4. QED BY <1>3, <2>1, <2>2, <2>3 DEF Loop
<1>4. ASSUME NEW c \in Consumer, pc[c] \in Working, NEW l, Goto(c, l), l # pc[c],
             AckScript(c) \/ FailScript(c) \/ DeferScript(c), UNCHANGED <<claim, claims>>
      PROVE  Tokens' /\ \A j \in Job : Touches(j)
  <2>1. pc'[c] # pc[c]
    BY <1>4, <1>t DEF Goto
  <2>2. /\ \A j \in Job : inflight'[j] \in {inflight[j], NoClaim}
        /\ \A j \in Job : inflight'[j] # inflight[j] => j = JobOf(c) /\ Fenced(c)
    BY <1>4, ScriptTouches
  <2>3. QED BY <1>4, <2>1, <2>2, TokensStay DEF Touches, Ends
<1>5. ASSUME NEW c \in Consumer, Settle(c) PROVE Tokens' /\ \A j \in Job : Touches(j)
  BY <1>4, <1>5, <1>l DEF Settle, Ack, Fail, Defer
<1>6. ASSUME NEW c \in Consumer, SettleThrows(c) PROVE Tokens' /\ \A j \in Job : Touches(j)
  <2>1. pc[c] \in Working /\ pc[c] # "fail" /\ Goto(c, "fail") /\ UNCHANGED claim
    BY <1>6, <1>l DEF SettleThrows
  <2>2. CASE UNCHANGED <<queue, observers>>
    BY <1>s, <2>1, <2>2
  <2>3. CASE (AckScript(c) \/ FailScript(c) \/ DeferScript(c)) /\ UNCHANGED claims
    BY <1>4, <2>1, <2>3
  <2>4. QED BY <1>6, <2>2, <2>3 DEF SettleThrows
<1>7. ASSUME NEW c \in Consumer,
             Returns(c) \/ Beat(c) \/ LoopDies(c) \/ Crash(c)
      PROVE  Tokens' /\ \A j \in Job : Touches(j)
  BY <1>7, <1>s
     DEF Returns, ReturnsAck, ReturnsRetry, ReturnsDefer, Beat, Renew, RenewLost,
         RenewFails, LoopDies, Crash
<1>8. CASE UNCHANGED vars
  BY <1>8, <1>s DEF vars
<1>9. QED BY <1>1, <1>2, <1>3, <1>5, <1>6, <1>7, <1>8 DEF Next

LEMMA TokensAlways == Spec => []Tokens
<1>1. Init => Tokens
  BY DEF Init, Empty, Tokens
<1>2. QED BY <1>1, TokensNext, TypeAlways, PlaceAlways, PTL DEF Spec

\* A claim whose deadline has not passed is ended by the consumer that holds it:
\* a late ack, fail or defer, a reclaim or a new claim never touches it.
THEOREM OnlyTheHolderSettles == Spec => OnlyHolderSettles
<1>1. ASSUME TypeInv, PlaceInv, Tokens, [Next]_vars, NEW j \in Job,
             lease[j] = "later", inflight'[j] # inflight[j]
      PROVE  \/ \E c \in Consumer : claim[c] = inflight[j] /\ pc[c] \in Working /\ pc'[c] # pc[c]
             \/ losses' = losses + 1
  <2>1. inflight[j] # NoClaim
    BY <1>1 DEF PlaceInv, ClaimsAgree
  <2>2. Touches(j)
    BY <1>1, TokensNext
  <2>3. CASE \E c \in Consumer : JobOf(c) = j /\ Ends(c)
    <3>1. PICK c \in Consumer : JobOf(c) = j /\ Ends(c)
      BY <2>3
    <3>2. claim[c] # NoClaim
      BY <1>1, <3>1, Worked, Domains DEF Ends
    <3>3. QED BY <1>1, <3>1, <3>2 DEF Tokens, Ends
  <2>4. QED BY <1>1, <2>1, <2>2, <2>3 DEF Touches
<1>2. TypeInv /\ PlaceInv /\ Tokens /\ [Next]_vars =>
        [\A j \in Job :
           lease[j] = "later" /\ inflight'[j] # inflight[j] =>
             \/ \E c \in Consumer : claim[c] = inflight[j] /\ pc[c] \in Working
                                    /\ pc'[c] # pc[c]
             \/ losses' = losses + 1]_vars
  BY <1>1
<1>3. QED BY <1>2, TypeAlways, PlaceAlways, TokensAlways, PTL DEF Spec, OnlyHolderSettles
-----------------------------------------------------------------------------
(* How often a job is handed out.  The attempt in the payload of a job is  *)
(* the number of its failures wherever the payload stands, and the claims  *)
(* on a job beyond one are covered by what ended the earlier ones.         *)

\* The payload p stands in ready, in a claim or in a deferral.
Carried(p) ==
  \/ \E i \in DOMAIN ready : ready[i] = p
  \/ \E j \in Job : inflight[j] # NoClaim /\ inflight[j].payload = p
  \/ \E j \in Job : delayedData[j] # NoPayload /\ delayedData[j] = p

TriesInv ==
  /\ \A p : Carried(p) => p.attempt = fails[p.job]
  /\ \A j \in dlq : fails[j] = MaxAttempts
  /\ \A j \in Job : j \notin sent => fails[j] = 0

\* A hand-out that no failure, deferral or deadline has ended.
InHand(j) == inflight[j] # NoClaim \/ j \in acked \/ j \in wiped

CoveredOf(j) ==
  claims[j] + Count(lease[j] = "past") <= fails[j] + defers[j] + expiries[j] + Count(InHand(j))

Covered == \A j \in Job : CoveredOf(j)

\* No payload changes.
LEMMA TriesStay ==
  ASSUME TriesInv, UNCHANGED <<fails, dlq>>, sent \subseteq sent', \A p : Carried(p)' => Carried(p)
  PROVE  TriesInv'
  BY DEF TriesInv

\* What stands at an index of a concatenation.
LEMMA ConcatRange ==
  ASSUME ReadyOK, NEW n \in Nat, NEW f \in [1 .. n -> Payload], ready' = ready \o f,
         NEW i \in DOMAIN ready'
  PROVE  (\E k \in DOMAIN ready : ready[k] = ready'[i]) \/ (\E k \in 1 .. n : f[k] = ready'[i])
<1>1. f \in Seq(Payload) /\ Len(f) = n
  BY Payloads, LenProperties, SeqDef
<1>2. Len(ready) \in Nat /\ DOMAIN ready = 1 .. Len(ready)
  BY LenProperties DEF ReadyOK
<1>3. /\ ready' \in Seq(Payload) /\ Len(ready') = Len(ready) + n
      /\ \A k \in 1 .. Len(ready) + n : ready'[k] = IF k <= Len(ready) THEN ready[k]
                                                                     ELSE f[k - Len(ready)]
  BY <1>1, ConcatProperties DEF ReadyOK
<1>4. i \in 1 .. Len(ready) + n
  BY <1>3, LenProperties
<1>5. CASE i <= Len(ready)
  <2>1. i \in DOMAIN ready /\ ready'[i] = ready[i]
    BY <1>2, <1>3, <1>4, <1>5
  <2>2. QED BY <2>1
<1>6. CASE ~(i <= Len(ready))
  <2>1. i - Len(ready) \in 1 .. n /\ ready'[i] = f[i - Len(ready)]
    BY <1>2, <1>3, <1>4, <1>6
  <2>2. QED BY <2>1
<1>7. QED BY <1>5, <1>6

LEMMA AppendRange ==
  ASSUME ReadyOK, NEW p \in Payload, ready' = Append(ready, p), NEW i \in DOMAIN ready'
  PROVE  ready'[i] = p \/ \E k \in DOMAIN ready : ready'[i] = ready[k]
<1>1. /\ Len(ready) \in Nat /\ DOMAIN ready = 1 .. Len(ready)
      /\ DOMAIN ready' = 1 .. Len(ready) + 1
      /\ \A k \in 1 .. Len(ready) : ready'[k] = ready[k]
      /\ ready'[Len(ready) + 1] = p
  BY AppendProperties, LenProperties DEF ReadyOK
<1>2. i \in 1 .. Len(ready) \/ i = Len(ready) + 1
  BY <1>1
<1>3. QED BY <1>1, <1>2

\* RECLAIM and PUMP move payloads as they are.
LEMMA ReclaimTries ==
  ASSUME TypeInv, TriesInv, ReclaimExpired, UNCHANGED <<delayedData, dlq, fails, sent>>
  PROVE  TriesInv'
<1> DEFINE S == {j \in {k \in Job : lease[k] = "past"} : inflight[j] # NoClaim}
<1>1. PICK s \in SetToSeqs(S) : ready' = ready \o [i \in 1 .. Len(s) |-> inflight[s[i]].payload]
  BY DEF ReclaimExpired
<1>2. Len(s) \in Nat /\ \A i \in 1 .. Len(s) : s[i] \in S
  BY <1>1, Orders
<1>3. \A j \in S : j \in Job /\ inflight[j] # NoClaim /\ inflight[j].payload \in Payload
  BY Domains DEF TypeInv, ClaimOK
<1>4. \A j \in Job : inflight'[j] \in {inflight[j], NoClaim}
  BY DEF ReclaimExpired, DropClaims
<1> HIDE DEF S
<1> DEFINE f == [i \in 1 .. Len(s) |-> inflight[s[i]].payload]
<1>5. f \in [1 .. Len(s) -> Payload] /\ \A i \in 1 .. Len(s) : Carried(f[i])
  BY <1>2, <1>3 DEF Carried
<1>6. ready' = ready \o f /\ ReadyOK
  BY <1>1 DEF TypeInv
<1> HIDE DEF f
<1>7. ASSUME NEW i \in DOMAIN ready' PROVE Carried(ready'[i])
  <2>1. (\E k \in DOMAIN ready : ready[k] = ready'[i]) \/ (\E k \in 1 .. Len(s) : f[k] = ready'[i])
    BY <1>2, <1>5, <1>6, ConcatRange
  <2>2. CASE \E k \in DOMAIN ready : ready[k] = ready'[i]
    BY <2>2 DEF Carried
  <2>3. CASE \E k \in 1 .. Len(s) : f[k] = ready'[i]
    BY <1>5, <2>3
  <2>4. QED BY <2>1, <2>2, <2>3
<1>8. ASSUME NEW p, Carried(p)' PROVE Carried(p)
  BY <1>4, <1>7, <1>8 DEF Carried
<1>9. QED BY <1>8, TriesStay

LEMMA PumpTries ==
  ASSUME TypeInv, TriesInv, PumpDelayed, UNCHANGED <<inflight, dlq, fails, sent>>
  PROVE  TriesInv'
<1> DEFINE S == {j \in {k \in Job : delayed[k] = "past"} : delayedData[j] # NoPayload}
<1>1. PICK s \in SetToSeqs(S) : ready' = ready \o [i \in 1 .. Len(s) |-> delayedData[s[i]]]
  BY DEF PumpDelayed
<1>2. Len(s) \in Nat /\ \A i \in 1 .. Len(s) : s[i] \in S
  BY <1>1, Orders
<1>3. \A j \in S : j \in Job /\ delayedData[j] # NoPayload /\ delayedData[j] \in Payload
  BY DEF TypeInv, DelayOK
<1>4. \A j \in Job : delayedData'[j] \in {delayedData[j], NoPayload}
  BY DEF PumpDelayed
<1> HIDE DEF S
<1> DEFINE f == [i \in 1 .. Len(s) |-> delayedData[s[i]]]
<1>5. f \in [1 .. Len(s) -> Payload] /\ \A i \in 1 .. Len(s) : Carried(f[i])
  BY <1>2, <1>3 DEF Carried
<1>6. ready' = ready \o f /\ ReadyOK
  BY <1>1 DEF TypeInv
<1> HIDE DEF f
<1>7. ASSUME NEW i \in DOMAIN ready' PROVE Carried(ready'[i])
  <2>1. (\E k \in DOMAIN ready : ready[k] = ready'[i]) \/ (\E k \in 1 .. Len(s) : f[k] = ready'[i])
    BY <1>2, <1>5, <1>6, ConcatRange
  <2>2. CASE \E k \in DOMAIN ready : ready[k] = ready'[i]
    BY <2>2 DEF Carried
  <2>3. CASE \E k \in 1 .. Len(s) : f[k] = ready'[i]
    BY <1>5, <2>3
  <2>4. QED BY <2>1, <2>2, <2>3
<1>8. ASSUME NEW p, Carried(p)' PROVE Carried(p)
  BY <1>4, <1>7, <1>8 DEF Carried
<1>9. QED BY <1>8, TriesStay

LEMMA TakeTries ==
  ASSUME TypeInv, TriesInv, NEW c \in Consumer, ready # << >>, TakeReady(c),
         UNCHANGED <<delayedData, dlq, fails, sent>>
  PROVE  TriesInv'
<1>1. /\ Len(ready) \in Nat \ {0} /\ DOMAIN ready = 1 .. Len(ready)
      /\ \A i \in 1 .. Len(ready) : ready[i] \in Payload
  BY EmptySeq, LenProperties, ElementOfSeq DEF TypeInv, ReadyOK
<1>2. ready' = SubSeq(ready, 1, Len(ready) - 1) /\ Last(ready) = ready[Len(ready)]
  BY DEF TakeReady, Front, Last
<1>3. /\ DOMAIN ready' = 1 .. Len(ready) - 1
      /\ \A i \in 1 .. Len(ready) - 1 : ready'[i] = ready[i]
  BY <1>1, <1>2, SubSeqProperties
<1>4. \A i \in DOMAIN ready' : i \in DOMAIN ready /\ ready'[i] = ready[i]
  BY <1>1, <1>3
<1>5. Carried(Last(ready))
  BY <1>1, <1>2 DEF Carried
<1>6. \A j \in Job : inflight'[j] = inflight[j] \/ inflight'[j].payload = Last(ready)
  BY DEF TakeReady, TypeInv, ClaimOK
<1>7. ASSUME NEW p, Carried(p)' PROVE Carried(p)
  BY <1>4, <1>5, <1>6, <1>7 DEF Carried
<1>8. QED BY <1>7, TriesStay

LEMMA DeferTries ==
  ASSUME TypeInv, TriesInv, NEW c \in Consumer, pc[c] \in Working, DeferScript(c),
         UNCHANGED <<ready, dlq, fails, sent>>
  PROVE  TriesInv'
<1>1. CASE Fenced(c)
  <2>1. JobOf(c) \in Job /\ inflight[JobOf(c)] # NoClaim
    BY <1>1, Worked DEF Fenced
  <2>2. /\ \A j \in Job : inflight'[j] \in {inflight[j], NoClaim}
        /\ \A j \in Job : delayedData'[j] \in {delayedData[j], inflight[JobOf(c)].payload}
    BY <1>1 DEF DeferScript, DropClaims, TypeInv, DelayOK
  <2>3. ASSUME NEW p, Carried(p)' PROVE Carried(p)
    BY <2>1, <2>2, <2>3 DEF Carried
  <2>4. QED BY <2>3, TriesStay
<1>2. CASE ~Fenced(c)
  BY <1>2, TriesStay DEF DeferScript, Carried
<1>3. QED BY <1>1, <1>2

\* FAIL is the one script that writes a new attempt: the payload it has read stood
\* in the claim alone.
LEMMA FailTries ==
  ASSUME TypeInv, PlaceInv, TriesInv, NEW c \in Consumer, pc[c] \in Working, FailScript(c),
         UNCHANGED <<delayedData, sent>>
  PROVE  TriesInv'
<1> DEFINE j == JobOf(c)
           q == inflight[j].payload
           p == [q EXCEPT !.attempt = q.attempt + 1]
<1>1. CASE Fenced(c)
  <2>1. /\ DropClaims({j}) /\ Leave({j}) /\ fails' = [fails EXCEPT ![j] = fails[j] + 1]
        /\ \/ OutOfAttempts(p.attempt) /\ dlq' = dlq \cup {j} /\ UNCHANGED ready
           \/ ~OutOfAttempts(p.attempt) /\ ready' = Append(ready, p) /\ UNCHANGED dlq
    BY <1>1 DEF FailScript
  <2>2. /\ j \in Job /\ inflight[j] # NoClaim /\ q \in Payload /\ q.job = j
        /\ inflight'[j] = NoClaim /\ \A k \in Job : k # j => inflight'[k] = inflight[k]
    BY <1>1, <2>1, Dropped
  <2>3. p.job = j /\ p.attempt = q.attempt + 1 /\ q.attempt \in 0 .. MaxAttempts - 1
    BY <2>2 DEF Payload
  <2>4. q.attempt = fails[j]
    BY <2>2 DEF TriesInv, Carried
  <2>p. ~OutOfAttempts(p.attempt) => p \in Payload
    <3>1. p = [job |-> p.job, attempt |-> p.attempt]
      BY <2>2 DEF Payload
    <3>2. QED BY <2>2, <2>3, <3>1, Domains DEF OutOfAttempts, Payload
  <2> HIDE DEF p, q, j
  <2>5. ~InReady(j) /\ delayedData[j] = NoPayload /\ j \in sent /\ j \notin dlq
    BY <2>2, Alone DEF PlaceInv
  <2>6. /\ fails'[j] = fails[j] + 1 /\ \A k : k \in Job /\ k # j => fails'[k] = fails[k]
        /\ fails[j] \in Nat /\ p.attempt = fails'[j]
    BY <2>1, <2>2, <2>3, <2>4 DEF TypeInv, ObserverOK
  <2>7. \A i \in DOMAIN ready' : ready'[i] = p \/ \E k \in DOMAIN ready : ready'[i] = ready[k]
    <3>1. CASE UNCHANGED ready
      BY <3>1
    <3>2. CASE ~OutOfAttempts(p.attempt) /\ ready' = Append(ready, p)
      BY <2>p, <3>2, AppendRange DEF TypeInv
    <3>3. QED BY <2>1, <3>1, <3>2
  <2>8. ASSUME NEW r, Carried(r)' PROVE r.attempt = fails'[r.job]
    <3>1. CASE r = p
      BY <2>3, <2>6, <3>1
    <3>2. CASE \E k \in DOMAIN ready : r = ready[k]
      <4>1. r.job # j /\ Carried(r)
        BY <2>5, <3>2 DEF InReady, Carried
      <4>2. r \in Payload
        BY <3>2, ElementOfSeq, LenProperties DEF TypeInv, ReadyOK
      <4>3. r.job \in Job
        BY <4>2 DEF Payload
      <4>4. QED BY <2>6, <4>1, <4>3 DEF TriesInv
    <3>3. CASE \E k \in Job : inflight'[k] # NoClaim /\ inflight'[k].payload = r
      <4>1. r.job # j /\ r.job \in Job /\ Carried(r)
        BY <2>2, <3>3 DEF Carried, PlaceInv, ClaimsAgree
      <4>2. QED BY <2>6, <4>1 DEF TriesInv
    <3>4. CASE \E k \in Job : delayedData[k] # NoPayload /\ delayedData[k] = r
      <4>1. r.job # j /\ r.job \in Job /\ Carried(r)
        BY <2>5, <3>4 DEF Carried, PlaceInv, DelaysAgree
      <4>2. QED BY <2>6, <4>1 DEF TriesInv
    <3>5. QED BY <2>7, <2>8, <3>1, <3>2, <3>3, <3>4 DEF Carried
  <2>9. ASSUME NEW k \in dlq' PROVE fails'[k] = MaxAttempts
    <3>1. CASE k \in dlq
      BY <2>5, <2>6, <3>1 DEF TriesInv, TypeInv, ObserverOK
    <3>2. CASE k \notin dlq
      BY <2>1, <2>3, <2>4, <2>6, <3>2, Domains DEF OutOfAttempts
    <3>3. QED BY <3>1, <3>2
  <2>10. \A k \in Job : k \notin sent' => fails'[k] = 0
    BY <2>5, <2>6 DEF TriesInv
  <2>11. QED BY <2>8, <2>9, <2>10 DEF TriesInv
<1>2. CASE ~Fenced(c)
  BY <1>2, TriesStay DEF FailScript, Carried
<1>3. QED BY <1>1, <1>2

LEMMA EnqueueTries ==
  ASSUME TypeInv, TriesInv, NEW j \in Job, Enqueue(j) PROVE TriesInv'
<1> DEFINE p == [job |-> j, attempt |-> 0]
<1>1. /\ j \notin sent /\ sent' = sent \cup {j} /\ ready' = Append(ready, p)
      /\ UNCHANGED <<inflight, delayedData, dlq, fails>>
  BY DEF Enqueue, observers
<1>2. p.job = j /\ p.attempt = 0 /\ fails[j] = 0
  BY <1>1 DEF TriesInv
<1>p. p \in Payload
  BY Domains DEF Payload
<1> HIDE DEF p
<1>3. \A i \in DOMAIN ready' : ready'[i] = p \/ \E k \in DOMAIN ready : ready'[i] = ready[k]
  BY <1>1, <1>p, AppendRange DEF TypeInv
<1>4. ASSUME NEW r, Carried(r)' PROVE r = p \/ Carried(r)
  BY <1>1, <1>3, <1>4 DEF Carried
<1>5. ASSUME NEW r, Carried(r)' PROVE r.attempt = fails'[r.job]
  BY <1>1, <1>2, <1>4, <1>5 DEF TriesInv
<1>6. QED BY <1>1, <1>5 DEF TriesInv

\* A job stays covered when its hand-out stays or its deadline goes, when it fails
\* or is deferred, and when its deadline passes.
LEMMA CoveredKept ==
  ASSUME TypeInv, TypeInv', NEW j \in Job, CoveredOf(j), claims'[j] = claims[j],
         fails'[j] >= fails[j], defers'[j] >= defers[j], expiries'[j] >= expiries[j],
         \/ (lease'[j] = "past" => lease[j] = "past") /\ (InHand(j) => InHand(j)')
         \/ lease[j] = "past" /\ lease'[j] # "past"
         \/ fails'[j] + defers'[j] > fails[j] + defers[j] /\ lease'[j] # "past"
         \/ expiries'[j] > expiries[j] /\ (InHand(j) => InHand(j)')
  PROVE  CoveredOf(j)'
<1>1. /\ claims[j] \in Nat /\ fails[j] \in Nat /\ defers[j] \in Nat /\ expiries[j] \in Nat
      /\ fails'[j] \in Nat /\ defers'[j] \in Nat /\ expiries'[j] \in Nat
  BY DEF TypeInv, ObserverOK
<1>2. QED BY <1>1 DEF CoveredOf, Count

\* The three scripts that end a claim.
LEMMA SettleCovered ==
  ASSUME TypeInv, TypeInv', Covered, NEW c \in Consumer, pc[c] \in Working,
         \/ AckScript(c) /\ UNCHANGED <<fails, defers>>
         \/ FailScript(c) /\ UNCHANGED <<acked, defers>>
         \/ DeferScript(c) /\ UNCHANGED <<acked, fails>>,
         UNCHANGED <<claims, expiries, wiped>>
  PROVE  Covered'
<1>1. SUFFICES ASSUME NEW j \in Job PROVE CoveredOf(j)'
  BY DEF Covered
<1>2. /\ CoveredOf(j) /\ JobOf(c) \in Job
      /\ claims[j] \in Nat /\ fails[j] \in Nat /\ defers[j] \in Nat /\ expiries[j] \in Nat
      /\ fails \in [Job -> Nat] /\ defers \in [Job -> Nat]
  BY Worked DEF Covered, TypeInv, ObserverOK
<1>3. CASE ~Fenced(c)
  <2>1. UNCHANGED <<inflight, lease, acked, fails, defers>>
    BY <1>3 DEF AckScript, FailScript, DeferScript
  <2>2. QED BY <1>2, <2>1, CoveredKept DEF InHand
<1>4. CASE Fenced(c)
  <2>1. DropClaims({JobOf(c)})
    BY <1>4 DEF AckScript, FailScript, DeferScript
  <2>2. /\ j = JobOf(c) => lease'[j] = "none"
        /\ j # JobOf(c) => inflight'[j] = inflight[j] /\ lease'[j] = lease[j]
    BY <2>1 DEF DropClaims
  <2>3. CASE AckScript(c) /\ UNCHANGED <<fails, defers>>
    <3>1. acked' = acked \cup {JobOf(c)}
      BY <1>4, <2>3 DEF AckScript
    <3>2. QED BY <1>2, <2>2, <2>3, <3>1, CoveredKept DEF InHand
  <2>4. CASE FailScript(c) /\ UNCHANGED <<acked, defers>>
    <3>1. fails' = [fails EXCEPT ![JobOf(c)] = fails[JobOf(c)] + 1]
      BY <1>4, <2>4 DEF FailScript
    <3>2. fails'[j] = IF j = JobOf(c) THEN fails[j] + 1 ELSE fails[j]
      BY <1>2, <3>1
    <3>3. QED BY <1>2, <2>2, <2>4, <3>2, CoveredKept DEF InHand
  <2>5. CASE DeferScript(c) /\ UNCHANGED <<acked, fails>>
    <3>1. defers' = [defers EXCEPT ![JobOf(c)] = defers[JobOf(c)] + 1]
      BY <1>4, <2>5 DEF DeferScript
    <3>2. defers'[j] = IF j = JobOf(c) THEN defers[j] + 1 ELSE defers[j]
      BY <1>2, <3>1
    <3>3. QED BY <1>2, <2>2, <2>5, <3>2, CoveredKept DEF InHand
  <2>6. QED BY <2>3, <2>4, <2>5
<1>5. QED BY <1>3, <1>4

LEMMA CoveredStays ==
  ASSUME TypeInv, TypeInv', Covered,
         UNCHANGED <<inflight, lease, claims, fails, defers, expiries, acked, wiped>>
  PROVE  Covered'
<1>1. SUFFICES ASSUME NEW j \in Job PROVE CoveredOf(j)'
  BY DEF Covered
<1>2. CoveredOf(j)
  BY DEF Covered
<1>3. QED BY <1>2 DEF CoveredOf, InHand, Count

LEMMA HandsNext ==
  TypeInv /\ PlaceInv /\ TriesInv /\ Covered /\ [Next]_vars => TriesInv' /\ Covered'
<1> SUFFICES ASSUME TypeInv, PlaceInv, TriesInv, Covered, [Next]_vars PROVE TriesInv' /\ Covered'
  OBVIOUS
<1> USE DEF queue, consumer, observers, counters
<1>l. {"handle", "ack", "retry", "defer", "fail"} = Working
  BY DEF Working
<1>t. TypeInv'
  BY TypeNext
<1>n. \A j \in Job : /\ CoveredOf(j) /\ claims[j] \in Nat /\ fails[j] \in Nat
                     /\ defers[j] \in Nat /\ expiries[j] \in Nat
  BY DEF Covered, TypeInv, ObserverOK
<1>c. ASSUME UNCHANGED <<ready, inflight, delayedData>> PROVE \A p : Carried(p)' => Carried(p)
  BY <1>c DEF Carried
<1>1. ASSUME NEW j \in Job, Enqueue(j) PROVE TriesInv' /\ Covered'
  BY <1>1, <1>t, EnqueueTries, CoveredStays DEF Enqueue
<1>2. ASSUME NEW j \in Job, LeaseExpires(j) PROVE TriesInv' /\ Covered'
  <2>1. TriesInv'
    BY <1>2, <1>c, TriesStay DEF LeaseExpires
  <2>2. ASSUME NEW k \in Job PROVE CoveredOf(k)'
    <3>1. /\ expiries'[k] = IF k = j THEN expiries[k] + 1 ELSE expiries[k]
          /\ k # j => lease'[k] = lease[k]
      BY <1>2, <1>n DEF LeaseExpires, TypeInv, ClaimOK, ObserverOK
    <3>2. QED BY <1>2, <1>n, <1>t, <3>1, CoveredKept DEF LeaseExpires, InHand
  <2>3. QED BY <2>1, <2>2 DEF Covered
<1>3. ASSUME NEW j \in Job, DelayPasses(j) PROVE TriesInv' /\ Covered'
  BY <1>3, <1>c, <1>t, TriesStay, CoveredStays DEF DelayPasses
<1>4. CASE RedisLosesData
  <2>1. /\ ready' = << >> /\ inflight' = [j \in Job |-> NoClaim]
        /\ lease' = [j \in Job |-> "none"] /\ delayedData' = [j \in Job |-> NoPayload]
        /\ wiped' = wiped \cup Queued
        /\ UNCHANGED <<dlq, sent, acked, claims, fails, defers, expiries>>
    BY <1>4 DEF RedisLosesData, Empty
  <2>2. DOMAIN ready' = {}
    BY <2>1
  <2>3. \A p : ~Carried(p)'
    BY <2>1, <2>2 DEF Carried
  <2>4. TriesInv'
    BY <2>1, <2>3, TriesStay
  <2>5. ASSUME NEW k \in Job PROVE CoveredOf(k)'
    <3>1. lease'[k] = "none" /\ (InHand(k) => InHand(k)')
      BY <2>1 DEF InHand, Queued
    <3>2. QED BY <1>n, <1>t, <2>1, <3>1, CoveredKept
  <2>6. QED BY <2>4, <2>5 DEF Covered
<1>5. ASSUME NEW c \in Consumer, Loop(c) PROVE TriesInv' /\ Covered'
  <2>1. CASE Reclaim(c)
    <3>1. TriesInv'
      BY <2>1, ReclaimTries DEF Reclaim
    <3>2. ASSUME NEW k \in Job PROVE CoveredOf(k)'
      <4>1. \/ lease[k] = "past" /\ lease'[k] = "none"
            \/ lease'[k] = lease[k] /\ inflight'[k] = inflight[k]
        BY <2>1 DEF Reclaim, ReclaimExpired, DropClaims
      <4>2. UNCHANGED <<claims, fails, defers, expiries, acked, wiped>>
        BY <2>1 DEF Reclaim
      <4>3. QED BY <1>n, <1>t, <4>1, <4>2, CoveredKept DEF InHand
    <3>3. QED BY <3>1, <3>2 DEF Covered
  <2>2. CASE Claim(c)
    <3>1. TriesInv'
      BY <2>2, TakeTries DEF Claim
    <3>2. Last(ready).job \in Job /\ InReady(Last(ready).job)
      BY <2>2, LastReady, FrontReady DEF Claim, TakeReady, TypeInv, PlaceInv
    <3>3. /\ \A k \in Job : k # Last(ready).job =>
               claims'[k] = claims[k] /\ lease'[k] = lease[k] /\ inflight'[k] = inflight[k]
          /\ claims'[Last(ready).job] = claims[Last(ready).job] + 1
          /\ lease'[Last(ready).job] = "later"
          /\ UNCHANGED <<fails, defers, expiries, acked, wiped>>
      BY <2>2, <3>2 DEF Claim, TakeReady, TypeInv, ClaimOK, ObserverOK
    <3>4. ASSUME NEW k \in Job PROVE CoveredOf(k)'
      <4>1. CASE k # Last(ready).job
        BY <1>n, <1>t, <3>3, <4>1, CoveredKept DEF InHand
      <4>2. CASE k = Last(ready).job
        <5>1. ~InHand(k) /\ inflight'[k] # NoClaim
          <6>1. ~InHand(k)
            BY <3>2, <4>2, Alone DEF PlaceInv, InHand
          <6>2. lease'[k] # "none" /\ PlaceInv'
            BY <2>2, <3>3, <4>2, TakePlace DEF Claim
          <6>3. QED BY <6>1, <6>2 DEF PlaceInv, ClaimsAgree
        <5>2. claims[k] <= fails[k] + defers[k] + expiries[k]
          BY <1>n, <5>1 DEF CoveredOf, Count
        <5>3. QED BY <1>n, <3>3, <4>2, <5>1, <5>2 DEF CoveredOf, InHand, Count
      <4>3. QED BY <4>1, <4>2
    <3>5. QED BY <3>1, <3>4 DEF Covered
  <2>3. CASE Pump(c)
    BY <1>t, <2>3, PumpTries, CoveredStays DEF Pump
  <2>4. CASE ClaimEmpty(c)
    BY <1>c, <1>t, <2>4, TriesStay, CoveredStays DEF ClaimEmpty
  <2>5. QED BY <1>5, <2>1, <2>2, <2>3, <2>4 DEF Loop
\* A disposition, whose script runs.
<1>6. ASSUME NEW c \in Consumer, pc[c] \in Working,
             \/ AckScript(c) /\ UNCHANGED <<ready, delayedData, dlq, fails, defers>>
             \/ FailScript(c) /\ UNCHANGED <<delayedData, acked, defers>>
             \/ DeferScript(c) /\ UNCHANGED <<ready, dlq, acked, fails>>,
             UNCHANGED <<sent, claims, expiries, wiped>>
      PROVE  TriesInv' /\ Covered'
  <2>1. Covered'
    BY <1>6, <1>t, SettleCovered
  <2>2. CASE AckScript(c) /\ UNCHANGED <<ready, delayedData, dlq, fails>>
    <3>1. \A j \in Job : inflight'[j] \in {inflight[j], NoClaim}
      BY <2>2 DEF AckScript, DropClaims
    <3>2. \A p : Carried(p)' => Carried(p)
      BY <2>2, <3>1 DEF Carried
    <3>3. QED BY <1>6, <2>1, <2>2, <3>2, TriesStay
  <2>3. QED BY <1>6, <2>1, <2>2, FailTries, DeferTries
<1>7. ASSUME NEW c \in Consumer, Settle(c) PROVE TriesInv' /\ Covered'
  BY <1>6, <1>7, <1>l DEF Settle, Ack, Fail, Defer
<1>8. ASSUME NEW c \in Consumer, SettleThrows(c) PROVE TriesInv' /\ Covered'
  <2>1. CASE UNCHANGED <<queue, observers>>
    BY <1>c, <1>t, <2>1, TriesStay, CoveredStays
  <2>2. CASE ~UNCHANGED <<queue, observers>>
    BY <1>6, <1>8, <1>l, <2>2 DEF SettleThrows
  <2>3. QED BY <2>1, <2>2
<1>9. ASSUME NEW c \in Consumer, Renew(c) PROVE TriesInv' /\ Covered'
  <2>1. TriesInv'
    BY <1>9, <1>c, TriesStay DEF Renew
  <2>2. ASSUME NEW k \in Job PROVE CoveredOf(k)'
    <3>1. lease'[k] = "past" => lease[k] = "past"
      BY <1>9 DEF Renew, TypeInv, ClaimOK
    <3>2. QED BY <1>9, <1>n, <1>t, <3>1, CoveredKept DEF Renew, InHand
  <2>3. QED BY <2>1, <2>2 DEF Covered
<1>10. ASSUME NEW c \in Consumer,
              Returns(c) \/ RenewLost(c) \/ RenewFails(c) \/ LoopDies(c) \/ Crash(c)
       PROVE  TriesInv' /\ Covered'
  <2>1. UNCHANGED <<queue, observers>>
    BY <1>10 DEF Returns, ReturnsAck, ReturnsRetry, ReturnsDefer, RenewLost, RenewFails,
                 LoopDies, Crash
  <2>2. QED BY <1>c, <1>t, <2>1, TriesStay, CoveredStays
<1>11. CASE UNCHANGED vars
  BY <1>11, <1>c, <1>t, TriesStay, CoveredStays DEF vars
<1>12. QED
  BY <1>1, <1>2, <1>3, <1>4, <1>5, <1>7, <1>8, <1>9, <1>10, <1>11 DEF Next, Time, Beat

LEMMA HandsInit == Init => TriesInv /\ Covered
<1> SUFFICES ASSUME Init PROVE TriesInv /\ Covered
  OBVIOUS
<1>1. /\ ready = << >> /\ inflight = [j \in Job |-> NoClaim] /\ lease = [j \in Job |-> "none"]
      /\ delayedData = [j \in Job |-> NoPayload] /\ dlq = {}
      /\ claims = [j \in Job |-> 0] /\ fails = [j \in Job |-> 0]
      /\ defers = [j \in Job |-> 0] /\ expiries = [j \in Job |-> 0]
  BY DEF Init, Empty
<1>2. DOMAIN ready = {}
  BY <1>1
<1>3. TriesInv
  BY <1>1, <1>2 DEF TriesInv, Carried
<1>4. Covered
  BY <1>1 DEF Covered, CoveredOf, Count
<1>5. QED BY <1>3, <1>4

\* A job is handed out once and once more per failure, deferral and passed deadline,
\* and is dead-lettered after MaxAttempts failures: stale calls, lost replies and
\* reclaims neither hand it out more often nor use up its attempts.
THEOREM EveryHandOutAccountedFor == Spec => []HandOutsAccountedFor
<1>1. ASSUME TypeInv, TriesInv, Covered PROVE HandOutsAccountedFor
  <2>1. ASSUME NEW j \in Job PROVE claims[j] <= 1 + fails[j] + defers[j] + expiries[j]
    <3>1. /\ claims[j] \in Nat /\ fails[j] \in Nat /\ defers[j] \in Nat /\ expiries[j] \in Nat
          /\ CoveredOf(j)
      BY <1>1 DEF TypeInv, ObserverOK, Covered
    <3>2. QED BY <3>1 DEF CoveredOf, Count
  <2>2. QED BY <1>1, <2>1 DEF HandOutsAccountedFor, TriesInv
<1>2. QED BY <1>1, HandsInit, HandsNext, TypeAlways, PlaceAlways, PTL DEF Spec
=============================================================================

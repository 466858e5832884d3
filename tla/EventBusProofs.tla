---------------------------- MODULE EventBusProofs ----------------------------
(***************************************************************************)
(* Proofs about EventBus, for any events, handlers, processes and bounds.  *)
(***************************************************************************)
EXTENDS EventBus, FiniteSetTheorems, WellFoundedInduction, TLAPS

-----------------------------------------------------------------------------
(* What a process works on, and the entries it can meet.                   *)

RunType == [pc : Locations, batch : SUBSET Entry, over : SUBSET Entry,
            cur : Entry \cup {0}, todo : SUBSET Sub, sub : Sub \cup {NoOne}, bad : BOOLEAN]

\* Entries are written in order, and a process has only written ones in hand.
Work ==
  /\ Written = 1 .. Cardinality(Written)
  /\ \A i \in Written : log[i].event \in Event
  /\ \A p \in Process :
       /\ run[p].batch \subseteq Written
       /\ run[p].pc \notin {"idle", "batch"} => run[p].cur \in Written
       /\ run[p].pc \in {"run", "mark"} => run[p].sub \in Sub

WorkInv == TypeOK /\ Work

LEMMA EntryFacts ==
  /\ MaxEntries \in Nat /\ MaxDeliveries \in Nat /\ Batch \in Nat
  /\ Entry \subseteq Nat \ {0} /\ 0 \notin Entry
  /\ IsFiniteSet(Entry)
<1>1. MaxEntries \in Nat /\ MaxDeliveries \in Nat /\ Batch \in Nat
  BY BoundsAssumption, ConfigAssumption
<1>2. QED BY <1>1, FS_Interval DEF Entry

\* A set of numbers has a least one (from the initial segments it spans).
LEMMA OldestOf ==
  ASSUME NEW S \in SUBSET Nat, S # {}
  PROVE  \E x \in S : \A y \in S : x <= y
<1> DEFINE Upto(x) == 1 .. x
           T == {Upto(x) : x \in S}
<1>1. T \subseteq FiniteSubsetsOf(Nat) /\ T # {}
  <2>1. \A x \in S : Upto(x) \in FiniteSubsetsOf(Nat)
    <3>1. ASSUME NEW x \in S PROVE IsFiniteSet(Upto(x)) /\ Upto(x) \subseteq Nat
      <4>1. 1 \in Int /\ x \in Int
        OBVIOUS
      <4>2. QED BY <4>1, FS_Interval
    <3>2. QED BY <3>1 DEF FiniteSubsetsOf
  <2>2. QED BY <2>1
<1>2. PICK X \in T : \A Y \in T : <<Y, X>> \notin StrictSubsetOrdering(Nat)
  <2> HIDE DEF T
  <2>1. QED BY <1>1, FS_StrictSubsetOrderingWellFounded, WFMin
<1>3. PICK x \in S : X = Upto(x)
  BY <1>2
<1>4. ASSUME NEW y \in S PROVE x <= y
  <2>1. ~(Upto(y) \subseteq Upto(x) /\ Upto(y) # Upto(x))
    <3>1. Upto(y) \in T /\ Upto(y) \subseteq Nat /\ Upto(x) \subseteq Nat
      OBVIOUS
    <3>2. <<Upto(y), Upto(x)>> \notin StrictSubsetOrdering(Nat)
      <4> HIDE DEF T
      <4>1. QED BY <1>2, <1>3, <3>1
    <3> HIDE DEF Upto
    <3>3. QED BY <3>1, <3>2 DEF StrictSubsetOrdering
  <2>2. SUFFICES ASSUME y < x PROVE FALSE
    OBVIOUS
  <2>3. Upto(y) \subseteq Upto(x) /\ x \in Upto(x) /\ x \notin Upto(y)
    BY <2>2
  <2>4. QED BY <2>1, <2>3
<1>5. QED BY <1>4

LEMMA IdleType == Idle \in RunType
BY DEF Idle, RunType, Locations

\* The next entry a publish writes, and what it leaves written.
NextIndex == Cardinality(Written) + 1

LEMMA AppendFacts ==
  ASSUME WorkInv, HasRoom, NEW v \in Event, NEW f \in BOOLEAN, Append(v, f)
  PROVE  /\ NextIndex \in Entry \ Written
         /\ log' = [log EXCEPT ![NextIndex] = [event |-> v, force |-> f]]
         /\ st'  = [st EXCEPT ![NextIndex] = "new"]
         /\ Written' = Written \cup {NextIndex}
         /\ Written' = 1 .. Cardinality(Written')
<1>1. Cardinality(Written) \in Nat /\ Written \subseteq Entry /\ IsFiniteSet(Written)
  BY EntryFacts, FS_Subset, FS_CardinalityType DEF Written
<1>2. NextIndex \in Entry /\ NextIndex \notin Written
  BY <1>1, EntryFacts DEF HasRoom, Entry, WorkInv, Work, NextIndex
<1>3. log' = [log EXCEPT ![NextIndex] = [event |-> v, force |-> f]]
      /\ st' = [st EXCEPT ![NextIndex] = "new"]
  BY DEF Append, NextIndex
<1>4. Written' = Written \cup {NextIndex}
  <2>1. \A i \in Entry : st'[i] # "none" <=> st[i] # "none" \/ i = NextIndex
    BY <1>2, <1>3 DEF WorkInv, TypeOK
  <2>2. QED BY <1>2, <2>1 DEF Written
<1>5. Cardinality(Written \cup {NextIndex}) = NextIndex
  BY <1>1, <1>2, FS_AddElement DEF NextIndex
<1>6. Written \cup {NextIndex} = 1 .. NextIndex
  BY <1>1 DEF WorkInv, Work, NextIndex
<1>7. Cardinality(Written') = NextIndex
  BY <1>4, <1>5
<1>8. Written' = 1 .. Cardinality(Written')
  BY <1>4, <1>6, <1>7
<1>9. QED BY <1>2, <1>3, <1>4, <1>8

LEMMA WorkInit == Init => WorkInv
<1> SUFFICES ASSUME Init PROVE WorkInv
  OBVIOUS
<1>1. Written = {} /\ Cardinality(Written) = 0
  BY FS_EmptySet DEF Init, Written
<1>2. TypeOK
  BY IdleType, EntryFacts DEF Init, TypeOK, RunType, Streams
<1>3. Work
  BY <1>1 DEF Init, Work, Idle
<1>4. QED BY <1>2, <1>3 DEF WorkInv

\* A step of one process: what it leaves of the stream and of the others.
LEMMA OneProcess ==
  ASSUME WorkInv, NEW p \in Process, NEW r \in RunType,
         run' = [run EXCEPT ![p] = r],
         UNCHANGED <<log, pub, written>>,
         st' \in [Entry -> {"none", "new", "pending", "acked"}], Written' = Written,
         r.batch \subseteq Written,
         r.pc \notin {"idle", "batch"} => r.cur \in Written,
         r.pc \in {"run", "mark"} => r.sub \in Sub,
         stale' \subseteq Entry, marker' \subseteq Entry, processed' \subseteq Event,
         handled' \subseteq Event \X Sub, deliveries' \in [Entry -> Nat],
         done' \in [Event -> [Sub -> Nat]], passes' \in [Entry -> Nat], dead' \in [Entry -> Nat]
  PROVE  WorkInv'
<1>1. run' \in [Process -> RunType] /\ run'[p] = r
      /\ \A q \in Process \ {p} : run'[q] = run[q]
  BY DEF WorkInv, TypeOK, RunType
<1>2. TypeOK'
  BY <1>1 DEF WorkInv, TypeOK, RunType
<1>3. Work'
  BY <1>1 DEF WorkInv, Work
<1>4. QED BY <1>2, <1>3 DEF WorkInv

LEMMA WorkNext == WorkInv /\ [Next]_vars => WorkInv'
<1> SUFFICES ASSUME WorkInv, [Next]_vars PROVE WorkInv'
  OBVIOUS
<1> USE EntryFacts DEF Goto, At, publisher, sets, observers, bounds, stream
<1>t. /\ \A p \in Process : run[p] \in RunType /\ run[p].batch \subseteq Written
      /\ st \in [Entry -> {"none", "new", "pending", "acked"}]
      /\ stale \subseteq Entry /\ marker \subseteq Entry /\ processed \subseteq Event
      /\ handled \subseteq Event \X Sub /\ deliveries \in [Entry -> Nat]
      /\ done \in [Event -> [Sub -> Nat]] /\ passes \in [Entry -> Nat] /\ dead \in [Entry -> Nat]
      /\ Written \subseteq Entry
  BY DEF WorkInv, TypeOK, Work, RunType, Written
<1>w. UNCHANGED st => Written' = Written
  BY DEF Written
\* A process moves on and nothing else changes but the observers and the sets.
<1>p. ASSUME NEW p \in Process, NEW r \in RunType, run' = [run EXCEPT ![p] = r],
             UNCHANGED <<log, st, deliveries, stale, pub, written>>,
             r.batch \subseteq run[p].batch,
             r.pc \notin {"idle", "batch"} => r.cur \in Written,
             r.pc \in {"run", "mark"} => r.sub \in Sub,
             marker' \subseteq Entry, processed' \subseteq Event, handled' \subseteq Event \X Sub,
             done' \in [Event -> [Sub -> Nat]], passes' \in [Entry -> Nat],
             dead' \in [Entry -> Nat]
      PROVE  WorkInv'
  <2>1. r.batch \subseteq Written
    BY <1>p, <1>t
  <2>2. st' = st /\ stale' = stale /\ deliveries' = deliveries
    BY <1>p
  <2>3. QED BY <1>p, <1>t, <1>w, <2>1, <2>2, OneProcess
<1>q. \A p \in Process :
        /\ run[p].pc \notin {"idle", "batch"} =>
             run[p].cur \in Written /\ EventOf(p) \in Event
        /\ run[p].pc \in {"run", "mark"} => run[p].sub \in Sub
  BY DEF WorkInv, Work, EventOf
\* The writing of a stream.
<1>a. ASSUME NEW v \in Event, NEW f \in BOOLEAN, HasRoom, Append(v, f),
             pub' \in [Event -> Streams \cup {"ok"}], written' \in [Event -> SUBSET Streams],
             UNCHANGED <<sets, run, observers>>
      PROVE  WorkInv'
  <2>1. UNCHANGED <<deliveries, stale>>
    BY <1>a DEF Append
  <2>i. /\ NextIndex \in Entry \ Written
        /\ log' = [log EXCEPT ![NextIndex] = [event |-> v, force |-> f]]
        /\ st'  = [st EXCEPT ![NextIndex] = "new"]
        /\ Written' = Written \cup {NextIndex}
        /\ Written' = 1 .. Cardinality(Written')
    BY <1>a, AppendFacts
  <2>2. TypeOK'
    BY <1>a, <2>1, <2>i DEF WorkInv, TypeOK
  <2>3. Work'
    <3>1. Written \subseteq Written'
      BY <2>i
    <3>2. \A i \in Written' : log'[i].event \in Event
      BY <1>t, <2>i DEF WorkInv, TypeOK, Work
    <3>3. Written' = 1 .. Cardinality(Written')
      BY <2>i
    <3>4. run' = run
      BY <1>a
    <3>5. QED BY <3>1, <3>2, <3>3, <3>4 DEF WorkInv, Work
  <2>4. QED BY <2>2, <2>3 DEF WorkInv
<1>b. ASSUME UNCHANGED <<stream, sets, run, observers>>,
             pub' \in [Event -> Streams \cup {"ok"}], written' \in [Event -> SUBSET Streams]
      PROVE  WorkInv'
  <2>1. TypeOK'
    BY <1>b DEF WorkInv, TypeOK
  <2>2. Work'
    BY <1>b, <1>w DEF WorkInv, Work
  <2>3. QED BY <2>1, <2>2 DEF WorkInv
<1>1. ASSUME NEW v \in Event, PublishStep(v) \/ Republish(v) PROVE WorkInv'
  <2>1. CASE PublishWorkflow(v)
    BY <1>b, <2>1 DEF PublishWorkflow, WorkInv, TypeOK, Streams
  <2>2. CASE PublishStream(v)
    BY <1>a, <2>2 DEF PublishStream, WorkInv, TypeOK, Streams
  <2>3. CASE PublishChannel(v)
    BY <1>b, <2>3 DEF PublishChannel, WorkInv, TypeOK, Streams
  <2>4. CASE PublishFails(v)
    BY <1>b, <2>4 DEF PublishFails, WorkInv, TypeOK, Streams
  <2>5. CASE Republish(v)
    BY <1>a, <2>5 DEF Republish, WorkInv, TypeOK
  <2>6. QED BY <1>1, <2>1, <2>2, <2>3, <2>4, <2>5 DEF PublishStep
<1>2. ASSUME NEW p \in Process, Step(p) PROVE WorkInv'
  <2> DEFINE r == run[p]
  <2>t. r \in RunType /\ r.batch \subseteq Written
    BY <1>t
  <2>1. CASE Read(p)
    <3> DEFINE b == Oldest(New)
               r1 == [[[Idle EXCEPT !.pc = "batch"] EXCEPT !.batch = b] EXCEPT !.over = {}]
    <3>1. b \subseteq Written /\ New \subseteq Entry
      BY DEF Oldest, New, Written
    <3>2. st' \in [Entry -> {"none", "new", "pending", "acked"}] /\ Written' = Written
      BY <1>t, <2>1, <3>1 DEF Read, Written
    <3>3. r1 \in RunType /\ r1.batch = b /\ r1.pc = "batch"
      BY <1>t, <3>1, IdleType DEF RunType, Locations, Idle
    <3>4. run' = [run EXCEPT ![p] = r1] /\ stale' \subseteq Entry /\ deliveries' \in [Entry -> Nat]
      BY <1>t, <2>1 DEF Read, Take
    <3>5. UNCHANGED <<log, pub, written, marker, processed, handled, done, passes, dead>>
      BY <2>1 DEF Read
    <3> HIDE DEF r1, b
    <3>6. QED BY <1>t, <3>1, <3>2, <3>3, <3>4, <3>5, OneProcess
  <2>2. CASE ClaimPending(p)
    <3> DEFINE o == {i \in Stale : OverCap(i)}
               r1 == [[[Idle EXCEPT !.pc = "batch"] EXCEPT !.batch = Stale] EXCEPT !.over = o]
    <3>1. Stale \subseteq Written /\ o \subseteq Stale
      BY DEF Oldest, Stale, Pending, Written
    <3>3. r1 \in RunType /\ r1.batch = Stale /\ r1.pc = "batch"
      BY <1>t, <3>1, IdleType DEF RunType, Locations, Idle
    <3>4. run' = [run EXCEPT ![p] = r1] /\ stale' \subseteq Entry /\ deliveries' \in [Entry -> Nat]
      BY <1>t, <2>2 DEF ClaimPending, Take
    <3>5. QED BY <1>t, <1>w, <2>2, <3>1, <3>3, <3>4, OneProcess DEF ClaimPending, Take
  <2>3. CASE NextEntry(p)
    <3> DEFINE i == Min(r.batch)
               dl == i \in r.over
    <3>1. i \in r.batch /\ i \in Entry
      <4>1. r.batch # {} /\ r.batch \subseteq Nat
        BY <1>t, <2>3, <2>t DEF NextEntry, RunType
      <4>2. \E x \in r.batch : \A y \in r.batch : x <= y
        BY <4>1, <2>t, OldestOf
      <4>3. QED BY <4>2, <2>t, <1>t DEF Min
    <3> HIDE DEF i
    <3>2. CASE i \in r.over
      <4>1. run' = [run EXCEPT ![p] = [[[r EXCEPT !.pc = "dlCheck"] EXCEPT !.batch = r.batch \ {i}]
                                         EXCEPT !.cur = i]]
            /\ passes' = passes
        BY <2>3, <3>2 DEF NextEntry, i
      <4> DEFINE r1 == [[[r EXCEPT !.pc = "dlCheck"] EXCEPT !.batch = r.batch \ {i}]
                           EXCEPT !.cur = i]
      <4>2. r1 \in RunType /\ r1.batch \subseteq r.batch /\ r1.cur = i /\ r1.pc = "dlCheck"
        BY <2>t, <3>1 DEF RunType, Locations
      <4>3. run' = [run EXCEPT ![p] = r1] /\ i \in Written
        BY <2>t, <3>1, <4>1
      <4> HIDE DEF r1
      <4>4. UNCHANGED <<log, st, deliveries, stale, pub, written, marker, processed, handled,
                        done, passes, dead>>
        BY <2>3, <4>1 DEF NextEntry
      <4>5. QED BY <1>p, <1>t, <4>2, <4>3, <4>4
    <3>3. CASE i \notin r.over
      <4>1. run' = [run EXCEPT ![p] = [[[r EXCEPT !.pc = "check"] EXCEPT !.batch = r.batch \ {i}]
                                         EXCEPT !.cur = i]]
            /\ passes' = [passes EXCEPT ![i] = @ + 1]
        BY <2>3, <3>3 DEF NextEntry, i
      <4>2. passes' \in [Entry -> Nat]
        BY <1>t, <3>1, <4>1
      <4> DEFINE r1 == [[[r EXCEPT !.pc = "check"] EXCEPT !.batch = r.batch \ {i}]
                           EXCEPT !.cur = i]
      <4>3. r1 \in RunType /\ r1.batch \subseteq r.batch /\ r1.cur = i /\ r1.pc = "check"
        BY <2>t, <3>1 DEF RunType, Locations
      <4>4. run' = [run EXCEPT ![p] = r1] /\ i \in Written
        BY <2>t, <3>1, <4>1
      <4> HIDE DEF r1
      <4>5. QED BY <1>p, <1>t, <2>3, <4>2, <4>3, <4>4 DEF NextEntry
    <3>4. QED BY <3>2, <3>3
  <2>4. CASE BatchDone(p)
    BY <1>p, <1>t, <2>4, <2>t, IdleType DEF BatchDone, Idle
  <2>5. CASE CheckEvent(p)
    <3>1. CASE ~Forced(p) /\ EventOf(p) \in processed
      <4> DEFINE r1 == [r EXCEPT !.pc = "ack"]
      <4>1. run' = [run EXCEPT ![p] = r1]
        BY <2>5, <3>1 DEF CheckEvent
      <4>2. r1 \in RunType /\ r1.batch = r.batch /\ r1.cur = r.cur /\ r1.pc = "ack"
        BY <2>t DEF RunType, Locations
      <4> HIDE DEF r1
      <4>3. QED BY <1>p, <1>q, <1>t, <2>5, <2>t, <4>1, <4>2 DEF CheckEvent
    <3>2. CASE ~(~Forced(p) /\ EventOf(p) \in processed)
      <4> DEFINE r1 == [[[r EXCEPT !.pc = "sub"] EXCEPT !.todo = Sub] EXCEPT !.bad = FALSE]
      <4>1. run' = [run EXCEPT ![p] = r1]
        BY <2>5, <3>2 DEF CheckEvent
      <4>2. r1 \in RunType /\ r1.batch = r.batch /\ r1.cur = r.cur /\ r1.pc = "sub"
        BY <2>t DEF RunType, Locations
      <4> HIDE DEF r1
      <4>3. QED BY <1>p, <1>q, <1>t, <2>5, <2>t, <4>1, <4>2 DEF CheckEvent
    <3>3. QED BY <3>1, <3>2
  <2>6. ASSUME NEW s \in Sub, NextHandler(p, s) PROVE WorkInv'
    <3>1. CASE SkipHandled(p, s)
      <4> DEFINE r1 == [r EXCEPT !.todo = r.todo \ {s}]
      <4>1. run' = [run EXCEPT ![p] = r1]
        BY <2>6, <3>1 DEF NextHandler
      <4>2. r1 \in RunType /\ r1.batch = r.batch /\ r1.cur = r.cur /\ r1.pc = "sub"
        BY <2>t, <2>6 DEF RunType, Locations, NextHandler
      <4> HIDE DEF r1
      <4>3. QED BY <1>p, <1>q, <1>t, <2>6, <2>t, <4>1, <4>2 DEF NextHandler
    <3>2. CASE ~SkipHandled(p, s)
      <4> DEFINE r1 == [[[r EXCEPT !.todo = r.todo \ {s}] EXCEPT !.pc = "run"] EXCEPT !.sub = s]
      <4>1. run' = [run EXCEPT ![p] = r1]
        BY <2>6, <3>2 DEF NextHandler
      <4>2. r1 \in RunType /\ r1.batch = r.batch /\ r1.cur = r.cur /\ r1.sub = s
        BY <2>t DEF RunType, Locations
      <4> HIDE DEF r1
      <4>3. QED BY <1>p, <1>q, <1>t, <2>6, <2>t, <4>1, <4>2 DEF NextHandler
    <3>3. QED BY <3>1, <3>2
  \* A step that only moves on, or sets the failure flag.
  <2>g. ASSUME NEW l \in Locations, run' = [run EXCEPT ![p].pc = l],
               UNCHANGED <<log, st, deliveries, stale, pub, written>>,
               l \notin {"idle", "batch"} => r.pc \notin {"idle", "batch"},
               l \in {"run", "mark"} => r.pc \in {"run", "mark"},
               marker' \subseteq Entry, processed' \subseteq Event,
               handled' \subseteq Event \X Sub,
               done' \in [Event -> [Sub -> Nat]], passes' \in [Entry -> Nat],
               dead' \in [Entry -> Nat]
        PROVE  WorkInv'
    <3> DEFINE r1 == [r EXCEPT !.pc = l]
    <3>1. run' = [run EXCEPT ![p] = r1]
      BY <2>g
    <3>2. r1 \in RunType /\ r1.batch = r.batch /\ r1.cur = r.cur /\ r1.pc = l /\ r1.sub = r.sub
      BY <2>t DEF RunType
    <3> HIDE DEF r1
    <3>3. QED BY <1>p, <1>q, <2>g, <3>1, <3>2
  <2>7. CASE HandlerSucceeds(p)
    <3>1. done' \in [Event -> [Sub -> Nat]]
      <4>1. EventOf(p) \in Event /\ r.sub \in Sub
        BY <1>q, <2>7 DEF HandlerSucceeds
      <4>2. done[EventOf(p)] \in [Sub -> Nat]
        BY <1>t, <4>1
      <4>3. [done[EventOf(p)] EXCEPT ![r.sub] = @ + 1] \in [Sub -> Nat]
        BY <4>1, <4>2
      <4>4. done' = [done EXCEPT ![EventOf(p)] = [done[EventOf(p)] EXCEPT ![r.sub] = @ + 1]]
        BY <2>7 DEF HandlerSucceeds
      <4>5. QED BY <1>t, <4>3, <4>4
    <3>2. QED BY <2>g, <1>t, <2>7, <3>1 DEF HandlerSucceeds, Locations
  <2>8. CASE HandlerThrows(p)
    <3> DEFINE r1 == [[r EXCEPT !.pc = "sub"] EXCEPT !.bad = TRUE]
    <3>1. run' = [run EXCEPT ![p] = r1]
      BY <2>8 DEF HandlerThrows
    <3>2. r1 \in RunType /\ r1.batch = r.batch /\ r1.cur = r.cur /\ r1.pc = "sub"
      BY <2>t DEF RunType, Locations
    <3> HIDE DEF r1
    <3>3. QED BY <1>p, <1>q, <1>t, <2>8, <3>1, <3>2 DEF HandlerThrows
  <2>9. CASE MarkHandler(p)
    <3>1. handled' \subseteq Event \X Sub
      BY <1>q, <1>t, <2>9 DEF MarkHandler
    <3>2. QED BY <2>g, <1>t, <2>9, <3>1 DEF MarkHandler, Locations
  <2>10. CASE HandlersDone(p)
    BY <2>g, <1>t, <2>10 DEF HandlersDone, Locations
  <2>11. CASE MarkEvent(p)
    <3>1. processed' \subseteq Event
      BY <1>q, <1>t, <2>11 DEF MarkEvent
    <3>2. QED BY <2>g, <1>t, <2>11, <3>1 DEF MarkEvent, Locations
  <2>12. CASE Ack(p)
    <3> DEFINE r1 == [r EXCEPT !.pc = "batch"]
    <3>1. run' = [run EXCEPT ![p] = r1] /\ st' = [st EXCEPT ![r.cur] = "acked"]
          /\ stale' \subseteq stale
      BY <2>12 DEF Ack
    <3>2. r1 \in RunType /\ r1.batch = r.batch /\ r1.pc = "batch"
      BY <2>t DEF RunType, Locations
    <3>3. r.cur \in Written
      BY <1>q, <2>12 DEF Ack
    <3>4. st' \in [Entry -> {"none", "new", "pending", "acked"}] /\ Written' = Written
      BY <1>t, <3>1, <3>3 DEF Written
    <3> HIDE DEF r1
    <3>5. QED BY <1>t, <2>12, <2>t, <3>1, <3>2, <3>4, OneProcess DEF Ack
  <2>13. CASE DeadLetterCheck(p)
    BY <2>g, <1>t, <2>13 DEF DeadLetterCheck, Locations
  <2>14. CASE DeadLetterAdd(p)
    <3>1. dead' \in [Entry -> Nat]
      <4>1. dead' = [dead EXCEPT ![r.cur] = @ + 1]
        BY <2>14 DEF DeadLetterAdd
      <4>2. r.cur \in Entry
        BY <1>q, <1>t, <2>14 DEF DeadLetterAdd
      <4>3. dead \in [Entry -> Nat]
        BY <1>t
      <4>4. dead[r.cur] \in Nat
        BY <4>2, <4>3
      <4>5. dead[r.cur] + 1 \in Nat
        BY <4>4
      <4>6. QED BY <4>1, <4>3, <4>5
    <3>2. run' = [run EXCEPT ![p].pc = "dlMark"] /\ r.pc = "dlAdd"
          /\ UNCHANGED <<log, st, deliveries, stale, pub, written, marker, processed, handled,
                         done, passes>>
      BY <2>14 DEF DeadLetterAdd
    <3>3. QED BY <2>g, <1>t, <3>1, <3>2 DEF Locations
  <2>15. CASE DeadLetterMark(p)
    <3>1. marker' \subseteq Entry
      BY <1>q, <1>t, <2>15 DEF DeadLetterMark
    <3>2. QED BY <2>g, <1>t, <2>15, <3>1 DEF DeadLetterMark, Locations
  <2>16. QED
    BY <1>2, <2>1, <2>2, <2>3, <2>4, <2>5, <2>6, <2>7, <2>8, <2>9, <2>10, <2>11, <2>12,
       <2>13, <2>14, <2>15 DEF Step
<1>3. ASSUME NEW p \in Process, RedisFails(p) \/ Crash(p) PROVE WorkInv'
  <2> DEFINE r == run[p]
  <2>t. r \in RunType /\ r.batch \subseteq Written
    BY <1>t
  <2>u. ASSUME NEW r1 \in RunType, run' = [run EXCEPT ![p] = r1], r1.batch \subseteq r.batch,
               UNCHANGED <<stream, publisher, sets, observers>>,
               r1.pc \notin {"idle", "batch"} => r1.cur = r.cur /\ r.pc \notin {"idle", "batch"},
               r1.pc \notin {"run", "mark"}
        PROVE  WorkInv'
    BY <1>p, <1>q, <1>t, <2>u
  <2>1. CASE Crash(p)
    BY <2>u, <2>t, <2>1, IdleType DEF Crash, Idle
  <2>2. CASE RedisFails(p)
    <3>1. \/ run' = [run EXCEPT ![p] = [r EXCEPT !.pc = "batch"]]
          \/ /\ r.pc = "mark"
             /\ run' = [run EXCEPT ![p] = [[r EXCEPT !.pc = "sub"] EXCEPT !.bad = TRUE]]
          \/ /\ r.pc = "sub"
             /\ \E s \in r.todo :
                  run' = [run EXCEPT ![p] = [[r EXCEPT !.todo = r.todo \ {s}] EXCEPT !.bad = TRUE]]
      BY <2>2 DEF RedisFails
    <3>2. UNCHANGED <<stream, publisher, sets, observers>>
      BY <2>2 DEF RedisFails
    <3>3. CASE run' = [run EXCEPT ![p] = [r EXCEPT !.pc = "batch"]]
      BY <2>u, <2>t, <3>2, <3>3 DEF RunType, Locations
    <3>4. CASE /\ r.pc = "mark"
               /\ run' = [run EXCEPT ![p] = [[r EXCEPT !.pc = "sub"] EXCEPT !.bad = TRUE]]
      BY <2>u, <2>t, <3>2, <3>4 DEF RunType, Locations
    <3>5. ASSUME NEW s \in r.todo, r.pc = "sub",
                 run' = [run EXCEPT ![p] = [[r EXCEPT !.todo = r.todo \ {s}] EXCEPT !.bad = TRUE]]
          PROVE  WorkInv'
      BY <2>u, <2>t, <3>2, <3>5 DEF RunType, Locations
    <3>6. QED BY <3>1, <3>3, <3>4, <3>5
  <2>3. QED BY <1>3, <2>1, <2>2
<1>4. ASSUME NEW i \in Entry, GoStale(i) PROVE WorkInv'
  <2>1. stale' \subseteq Entry
    BY <1>4, <1>t DEF GoStale
  <2>2. TypeOK'
    BY <1>4, <2>1 DEF GoStale, WorkInv, TypeOK
  <2>3. Work'
    BY <1>4, <1>w DEF GoStale, WorkInv, Work
  <2>4. QED BY <2>2, <2>3 DEF WorkInv
<1>5. CASE UNCHANGED vars
  <2>1. UNCHANGED <<stream, sets, run, observers>> /\ UNCHANGED <<pub, written>>
    BY <1>5 DEF vars
  <2>2. pub' \in [Event -> Streams \cup {"ok"}] /\ written' \in [Event -> SUBSET Streams]
    BY <2>1 DEF WorkInv, TypeOK
  <2>3. QED BY <1>b, <2>1, <2>2
<1>6. QED BY <1>1, <1>2, <1>3, <1>4, <1>5 DEF Next

LEMMA WorkAlways == Spec => []WorkInv
BY WorkInit, WorkNext, PTL DEF Spec

\* Every variable keeps its type: what a process has in hand was written, what
\* the processed sets hold are events and handlers.
THEOREM TypeCorrect == Spec => []TypeOK
<1>1. WorkInv => TypeOK
  BY DEF WorkInv
<1>2. QED BY <1>1, WorkAlways, PTL

-----------------------------------------------------------------------------
(* A strict publish writes the streams in order, and begins again when one *)
(* of them fails.                                                          *)

PublishInv ==
  \A v \in Strict :
    /\ pub[v] \in {"stream", "channel", "ok"} => "workflow" \in written[v]
    /\ pub[v] \in {"channel", "ok"} => "stream" \in written[v]
    /\ pub[v] = "ok" => "channel" \in written[v]

\* A strict publish that returns has written every stream.
THEOREM StrictSpeaksUp == Spec => []StrictNeverSilent
<1>1. Init => PublishInv
  BY StrictAssumption DEF Init, PublishInv
<1>2. TypeOK /\ PublishInv /\ [Next]_vars => PublishInv'
  <2> SUFFICES ASSUME TypeOK, PublishInv, [Next]_vars PROVE PublishInv'
    OBVIOUS
  <2> USE StrictAssumption DEF PublishInv, TypeOK, Streams
  <2>1. ASSUME NEW v \in Event, PublishStep(v) PROVE PublishInv'
    <3>1. CASE PublishWorkflow(v)
      BY <3>1 DEF PublishWorkflow
    <3>2. CASE PublishStream(v)
      BY <3>2 DEF PublishStream
    <3>3. CASE PublishChannel(v)
      BY <3>3 DEF PublishChannel
    <3>4. CASE PublishFails(v)
      <4>1. written' = written /\ \A u \in Event \ {v} : pub'[u] = pub[u]
        BY <3>4 DEF PublishFails
      <4>2. v \in Strict => pub'[v] = "workflow"
        BY <3>4 DEF PublishFails
      <4>3. QED BY <4>1, <4>2
    <3>5. QED BY <2>1, <3>1, <3>2, <3>3, <3>4 DEF PublishStep
  <2>2. CASE UNCHANGED publisher
    BY <2>2 DEF publisher
  <2>3. ASSUME NEW v \in Event, Republish(v) PROVE UNCHANGED publisher
    BY <2>3 DEF Republish
  <2>4. ASSUME NEW p \in Process, Step(p) \/ RedisFails(p) \/ Crash(p)
        PROVE  UNCHANGED publisher
    BY <2>4 DEF Step, RedisFails, Crash, Read, ClaimPending, NextEntry, BatchDone, CheckEvent,
                NextHandler, HandlerSucceeds, HandlerThrows, MarkHandler, HandlersDone,
                MarkEvent, Ack, DeadLetterCheck, DeadLetterAdd, DeadLetterMark, Take
  <2>5. ASSUME NEW e \in Entry, GoStale(e) PROVE UNCHANGED publisher
    BY <2>5 DEF GoStale
  <2>6. CASE UNCHANGED vars
    BY <2>6 DEF vars
  <2>7. QED BY <2>1, <2>2, <2>3, <2>4, <2>5, <2>6 DEF Next
<1>3. TypeOK /\ PublishInv => StrictNeverSilent
  BY StrictAssumption DEF TypeOK, PublishInv, StrictNeverSilent, Streams
<1>4. QED BY <1>1, <1>2, <1>3, TypeCorrect, PTL DEF Spec

-----------------------------------------------------------------------------
(* What the processed sets and a process in the middle of an entry stand   *)
(* for: handlers that have succeeded, or a copy on the dead-letter stream. *)

AllDone(v) == \A s \in Sub : done[v][s] >= 1

\* What process p may rely on.
InHand(p) ==
  LET r == run[p] IN
  /\ r.pc \in {"sub", "mark"} /\ ~r.bad => \A s \in Sub \ r.todo : done[EventOf(p)][s] >= 1
  /\ r.pc = "run" /\ ~r.bad =>
       \A s \in Sub \ r.todo : done[EventOf(p)][s] >= 1 \/ s = r.sub
  /\ r.pc = "mark" => done[EventOf(p)][r.sub] >= 1
  /\ r.pc \in {"markEvent", "ack"} => AllDone(EventOf(p))
  /\ r.pc \in {"dlMark", "dlAck"} => dead[r.cur] >= 1

HandledInv ==
  /\ \A v \in processed : AllDone(v)
  /\ \A v \in Event, s \in Sub : <<v, s>> \in handled => done[v][s] >= 1
  /\ \A i \in marker : dead[i] >= 1
  /\ \A p \in Process : InHand(p)
  /\ AckedMeansHandled

\* The counters of the observers only rise, and what is written stays.
Grows ==
  /\ \A v \in Event, s \in Sub : done'[v][s] >= done[v][s]
  /\ \A i \in Entry : dead'[i] >= dead[i]
  /\ \A i \in Written : log'[i] = log[i]

LEMMA GrowsKeeps ==
  ASSUME WorkInv, WorkInv', HandledInv, Grows
  PROVE  /\ \A v \in Event : AllDone(v) => AllDone(v)'
         /\ \A q \in Process : run'[q] = run[q] => InHand(q)'
         /\ \A i \in Entry : st'[i] = st[i] /\ st[i] = "acked" =>
              dead'[i] >= 1 \/ \A s \in Sub : done'[log'[i].event][s] >= 1
<1>t. /\ \A v \in Event, s \in Sub : done[v][s] \in Nat /\ done'[v][s] \in Nat
      /\ \A i \in Entry : dead[i] \in Nat /\ dead'[i] \in Nat
      /\ Written \subseteq Entry
  BY DEF WorkInv, TypeOK, Written
<1>1. \A v \in Event, s \in Sub : done[v][s] >= 1 => done'[v][s] >= 1
  BY <1>t DEF Grows
<1>2. \A i \in Entry : dead[i] >= 1 => dead'[i] >= 1
  BY <1>t DEF Grows
<1>3. \A v \in Event : AllDone(v) => AllDone(v)'
  BY <1>1 DEF AllDone
<1>4. ASSUME NEW q \in Process, run'[q] = run[q] PROVE InHand(q)'
  <2>1. CASE run[q].pc \in {"idle", "batch"}
    BY <1>4, <2>1 DEF InHand
  <2>2. CASE run[q].pc \notin {"idle", "batch"}
    <3>1. /\ run[q].cur \in Entry /\ EventOf(q)' = EventOf(q) /\ EventOf(q) \in Event
          /\ run[q].pc \in {"run", "mark"} => run[q].sub \in Sub
      BY <1>4, <1>t, <2>2 DEF WorkInv, Work, EventOf, Grows
    <3>2. InHand(q)
      BY DEF HandledInv
    <3>3. QED BY <1>1, <1>2, <1>3, <1>4, <3>1, <3>2 DEF InHand
  <2>3. QED BY <2>1, <2>2
<1>5. ASSUME NEW i \in Entry, st'[i] = st[i], st[i] = "acked"
      PROVE  dead'[i] >= 1 \/ \A s \in Sub : done'[log'[i].event][s] >= 1
  <2>1. i \in Written /\ log[i].event \in Event
    BY <1>5 DEF Written, WorkInv, Work
  <2>2. log'[i] = log[i]
    BY <2>1 DEF Grows
  <2>3. dead[i] >= 1 \/ \A s \in Sub : done[log[i].event][s] >= 1
    BY <1>5 DEF HandledInv, AckedMeansHandled
  <2>4. QED BY <1>1, <1>2, <2>1, <2>2, <2>3
<1>6. QED BY <1>3, <1>4, <1>5

LEMMA HandledNext == WorkInv /\ WorkInv' /\ HandledInv /\ [Next]_vars => HandledInv'
<1> SUFFICES ASSUME WorkInv, WorkInv', HandledInv, [Next]_vars PROVE HandledInv'
  OBVIOUS
<1> USE DEF Goto, At, publisher, sets, observers, bounds, stream
<1>t. /\ \A p \in Process : run[p] \in RunType /\ run[p].batch \subseteq Written
      /\ run \in [Process -> RunType] /\ st \in [Entry -> {"none", "new", "pending", "acked"}]
      /\ done \in [Event -> [Sub -> Nat]] /\ dead \in [Entry -> Nat]
      /\ \A v \in Event, s \in Sub : done[v][s] \in Nat
      /\ \A i \in Entry : dead[i] \in Nat
      /\ processed \subseteq Event /\ marker \subseteq Entry /\ Written \subseteq Entry
  BY DEF WorkInv, TypeOK, Work, RunType, Written
<1>q. \A p \in Process :
        /\ run[p].pc \notin {"idle", "batch"} =>
             run[p].cur \in Written /\ EventOf(p) \in Event
        /\ run[p].pc \in {"run", "mark"} => run[p].sub \in Sub
  BY DEF WorkInv, Work, EventOf
<1>h. /\ \A v \in processed : AllDone(v)
      /\ \A v \in Event, s \in Sub : <<v, s>> \in handled => done[v][s] >= 1
      /\ \A i \in marker : dead[i] >= 1
      /\ \A p \in Process : InHand(p)
  BY DEF HandledInv
\* Process p takes a step that writes nothing of the stream or the sets.
<1>p. ASSUME NEW p \in Process, \A q \in Process \ {p} : run'[q] = run[q],
             UNCHANGED <<log, done, dead, sets>>, InHand(p)',
             \A i \in Entry : st'[i] = "acked" => st[i] = "acked"
      PROVE  HandledInv'
  <2>1. Grows
    BY <1>p, <1>t DEF Grows
  <2>3. \A q \in Process : InHand(q)'
    BY <1>p, <2>1, GrowsKeeps
  <2>4. AckedMeansHandled'
    BY <1>p DEF HandledInv, AckedMeansHandled
  <2>5. UNCHANGED <<processed, handled, marker, done, dead>>
    BY <1>p
  <2>6. \A v : AllDone(v)' = AllDone(v)
    BY <2>5 DEF AllDone
  <2>7. QED BY <1>h, <2>3, <2>4, <2>5, <2>6 DEF HandledInv
\* Every process stays as it is.
<1>s. ASSUME Grows, UNCHANGED <<run, done, dead, sets>>,
             \A i \in Entry : st'[i] = "acked" => st[i] = "acked"
      PROVE  HandledInv'
  <2>1. \A q \in Process : InHand(q)'
    BY <1>s, GrowsKeeps
  <2>2. AckedMeansHandled'
    <3> SUFFICES ASSUME NEW i \in Entry, st'[i] = "acked"
                 PROVE  dead'[i] >= 1 \/ \A s \in Sub : done'[log'[i].event][s] >= 1
      BY DEF AckedMeansHandled
    <3>1. st[i] = "acked" /\ i \in Written
      BY <1>s DEF Written
    <3>2. log'[i] = log[i] /\ UNCHANGED <<done, dead>>
      BY <1>s, <3>1 DEF Grows
    <3>3. QED BY <3>1, <3>2 DEF HandledInv, AckedMeansHandled
  <2>3. UNCHANGED <<processed, handled, marker, done, dead>>
    BY <1>s
  <2>4. \A v : AllDone(v)' = AllDone(v)
    BY <2>3 DEF AllDone
  <2>5. QED BY <1>h, <2>1, <2>2, <2>3, <2>4 DEF HandledInv
<1>1. ASSUME NEW v \in Event, PublishStep(v) \/ Republish(v) PROVE HandledInv'
  <2>1. UNCHANGED <<run, done, dead, sets>>
    BY <1>1 DEF PublishStep, PublishWorkflow, PublishStream, PublishChannel, PublishFails,
                Republish
  <2>2. CASE UNCHANGED <<log, st>>
    BY <1>s, <1>t, <2>1, <2>2 DEF Grows
  <2>3. ASSUME NEW f \in BOOLEAN, HasRoom, Append(v, f) PROVE HandledInv'
    <3>1. /\ NextIndex \in Entry \ Written
          /\ log' = [log EXCEPT ![NextIndex] = [event |-> v, force |-> f]]
          /\ st'  = [st EXCEPT ![NextIndex] = "new"]
      BY <2>3, AppendFacts
    <3>2. \A i \in Entry : st'[i] = "acked" => st[i] = "acked"
      BY <1>t, <3>1
    <3>3. \A i \in Written : log'[i] = log[i]
      BY <1>t, <3>1 DEF WorkInv, TypeOK
    <3>4. QED BY <1>s, <1>t, <2>1, <3>2, <3>3 DEF Grows
  <2>4. UNCHANGED <<log, st>> \/ \E f \in BOOLEAN : HasRoom /\ Append(v, f)
    BY <1>1 DEF PublishStep, PublishWorkflow, PublishStream, PublishChannel, PublishFails,
                Republish
  <2>5. QED BY <2>2, <2>3, <2>4
<1>2. ASSUME NEW p \in Process, Step(p) PROVE HandledInv'
  <2> DEFINE r == run[p]
  <2>t. /\ r \in RunType /\ InHand(p)
        /\ /\ \A q \in Process \ {p} : run'[q] = run[q]
           /\ UNCHANGED <<log, done, dead, sets>>
           /\ InHand(p)'
           /\ \A i \in Entry : st'[i] = "acked" => st[i] = "acked"
           => HandledInv'
    BY <1>h, <1>p, <1>t
  <2>k. ASSUME run'[p].pc \in {"idle", "batch", "check", "dlCheck", "dlAdd"} PROVE InHand(p)'
    BY <2>k DEF InHand
  <2>1. CASE Read(p)
    <3>1. (\A q \in Process \ {p} : run'[q] = run[q]) /\ run'[p].pc = "batch"
          /\ UNCHANGED <<log, done, dead, sets>>
      BY <1>t, <2>1 DEF Read, Take, Idle
    <3>2. \A i \in Entry : st'[i] = "acked" => st[i] = "acked"
      BY <2>1 DEF Read
    <3>3. QED BY <2>t, <2>k, <3>1, <3>2
  <2>2. CASE ClaimPending(p)
    <3>1. (\A q \in Process \ {p} : run'[q] = run[q]) /\ run'[p].pc = "batch"
          /\ UNCHANGED <<log, st, done, dead, sets>>
      <4> DEFINE x == [Idle EXCEPT !.pc = "batch", !.batch = Stale,
                                   !.over = {i \in Stale : OverCap(i)}]
      <4>1. run' = [run EXCEPT ![p] = x] /\ x.pc = "batch"
        BY <2>2 DEF ClaimPending, Take, Idle
      <4>2. UNCHANGED <<log, st, done, dead, sets>>
        BY <2>2 DEF ClaimPending
      <4> HIDE DEF x
      <4>3. QED BY <1>t, <4>1, <4>2
    <3>3. QED BY <2>t, <2>k, <3>1
  <2>3. CASE NextEntry(p)
    <3>1. (\A q \in Process \ {p} : run'[q] = run[q]) /\ run'[p].pc \in {"check", "dlCheck"}
          /\ UNCHANGED <<log, st, done, dead, sets>>
      BY <1>t, <2>3 DEF NextEntry, RunType
    <3>3. QED BY <2>t, <2>k, <3>1
  <2>4. CASE BatchDone(p)
    <3>1. (\A q \in Process \ {p} : run'[q] = run[q]) /\ run'[p].pc = "idle"
          /\ UNCHANGED <<log, st, done, dead, sets>>
      BY <1>t, <2>4 DEF BatchDone, Idle
    <3>3. QED BY <2>t, <2>k, <3>1
  <2>e. ASSUME UNCHANGED log, run'[p].cur = r.cur PROVE EventOf(p)' = EventOf(p)
    BY <2>e DEF EventOf
  <2>5. CASE CheckEvent(p)
    <3>1. /\ \A q \in Process \ {p} : run'[q] = run[q]
          /\ UNCHANGED <<log, st, done, dead, sets>> /\ run'[p].cur = r.cur
          /\ \/ run'[p].pc = "ack" /\ EventOf(p) \in processed
             \/ run'[p].pc = "sub" /\ run'[p].todo = Sub
      BY <1>t, <2>5 DEF CheckEvent, RunType
    <3>2. EventOf(p)' = EventOf(p)
      BY <2>e, <3>1
    <3>3. InHand(p)'
      BY <1>h, <3>1, <3>2 DEF InHand, AllDone
    <3>4. QED BY <2>t, <3>1, <3>3
  <2>6. ASSUME NEW s \in Sub, NextHandler(p, s) PROVE HandledInv'
    <3>0. r.pc = "sub" /\ EventOf(p) \in Event
      BY <1>q, <2>6 DEF NextHandler
    <3>1. /\ \A q \in Process \ {p} : run'[q] = run[q]
          /\ UNCHANGED <<log, st, done, dead, sets>> /\ run'[p].cur = r.cur
          /\ run'[p].todo = r.todo \ {s} /\ run'[p].bad = r.bad
          /\ \/ run'[p].pc = "sub" /\ <<EventOf(p), s>> \in handled
             \/ run'[p].pc = "run" /\ run'[p].sub = s
      <4>1. CASE SkipHandled(p, s)
        BY <1>t, <2>6, <4>1 DEF NextHandler, SkipHandled, RunType
      <4>2. CASE ~SkipHandled(p, s)
        BY <1>t, <2>6, <4>2 DEF NextHandler, RunType
      <4>3. QED BY <4>1, <4>2
    <3>2. EventOf(p)' = EventOf(p)
      BY <2>e, <3>1
    <3>3. InHand(p)'
      BY <1>h, <2>t, <3>0, <3>1, <3>2 DEF InHand, AllDone
    <3>4. QED BY <2>t, <3>1, <3>3
  <2>7. CASE HandlerSucceeds(p)
    <3>1. /\ (\A q \in Process \ {p} : run'[q] = run[q]) /\ r.pc = "run"
          /\ UNCHANGED <<log, st, dead, sets>>
          /\ run'[p].cur = r.cur /\ run'[p].todo = r.todo /\ run'[p].bad = r.bad
          /\ run'[p].pc = "mark" /\ run'[p].sub = r.sub
      BY <1>t, <2>7 DEF HandlerSucceeds, RunType
    <3>2. EventOf(p)' = EventOf(p) /\ EventOf(p) \in Event /\ r.sub \in Sub
      BY <1>q, <2>e, <3>1
    <3>3. done' = [done EXCEPT ![EventOf(p)] = [done[EventOf(p)] EXCEPT ![r.sub] = @ + 1]]
      BY <2>7 DEF HandlerSucceeds
    <3>4. done[EventOf(p)] \in [Sub -> Nat] /\ done[EventOf(p)][r.sub] + 1 \in Nat
      BY <1>t, <3>2
    <3>5. /\ done'[EventOf(p)][r.sub] = done[EventOf(p)][r.sub] + 1
          /\ \A v \in Event, s \in Sub :
               v # EventOf(p) \/ s # r.sub => done'[v][s] = done[v][s]
      BY <1>t, <3>2, <3>3, <3>4
    <3>6. Grows
      <4>1. \A v \in Event, s \in Sub : done'[v][s] >= done[v][s]
        BY <1>t, <3>2, <3>5
      <4>2. QED BY <1>t, <3>1, <4>1 DEF Grows
    <3>7. InHand(p)'
      <4>1. done'[EventOf(p)][r.sub] >= 1
        BY <1>t, <3>2, <3>5
      <4>2. ASSUME ~r.bad, NEW s \in Sub \ r.todo PROVE done'[EventOf(p)][s] >= 1
        <5>1. done[EventOf(p)][s] >= 1 \/ s = r.sub
          BY <2>t, <3>1, <4>2 DEF InHand
        <5>2. QED BY <1>t, <3>2, <3>5, <4>1, <5>1
      <4>3. QED BY <3>1, <3>2, <4>1, <4>2 DEF InHand
    <3>8. \A q \in Process : InHand(q)'
      BY <1>t, <3>1, <3>6, <3>7, GrowsKeeps
    <3>9. AckedMeansHandled'
      <4>1. UNCHANGED st
        BY <3>1
      <4>2. QED BY <3>6, <4>1, GrowsKeeps DEF AckedMeansHandled
    <3>10. \A v \in processed' : AllDone(v)'
      BY <1>h, <1>t, <3>1, <3>6, GrowsKeeps
    <3>11. \A v \in Event, s \in Sub : <<v, s>> \in handled' => done'[v][s] >= 1
      <4>1. \A v \in Event, s \in Sub : done'[v][s] \in Nat /\ done'[v][s] >= done[v][s]
        BY <1>t, <3>2, <3>5
      <4>2. handled' = handled
        BY <3>1
      <4>3. QED BY <1>h, <1>t, <4>1, <4>2
    <3>12. QED BY <1>h, <3>1, <3>8, <3>9, <3>10, <3>11 DEF HandledInv
  <2>8. CASE HandlerThrows(p)
    <3>1. /\ \A q \in Process \ {p} : run'[q] = run[q]
          /\ UNCHANGED <<log, st, done, dead, sets>>
          /\ run'[p].pc = "sub" /\ run'[p].bad
      BY <1>t, <2>8 DEF HandlerThrows, RunType
    <3>2. InHand(p)'
      BY <3>1 DEF InHand
    <3>3. QED BY <2>t, <3>1, <3>2
  <2>9. CASE MarkHandler(p)
    <3>1. /\ (\A q \in Process \ {p} : run'[q] = run[q]) /\ r.pc = "mark"
          /\ UNCHANGED <<log, st, done, dead, processed, marker>>
          /\ handled' = handled \cup {<<EventOf(p), r.sub>>}
          /\ run'[p].cur = r.cur /\ run'[p].todo = r.todo /\ run'[p].bad = r.bad
          /\ run'[p].pc = "sub" /\ run'[p].sub = r.sub
      BY <1>t, <2>9 DEF MarkHandler, RunType
    <3>2. EventOf(p)' = EventOf(p)
      BY <2>e, <3>1
    <3>3. InHand(p)'
      BY <2>t, <3>1, <3>2 DEF InHand
    <3>4. Grows
      BY <1>t, <3>1 DEF Grows
    <3>5. \A q \in Process : InHand(q)'
      BY <1>t, <3>1, <3>3, <3>4, GrowsKeeps
    <3>6. done[EventOf(p)][r.sub] >= 1
      BY <2>t, <3>1 DEF InHand
    <3>7. \A v \in Event, s \in Sub : <<v, s>> \in handled' => done'[v][s] >= 1
      BY <1>h, <3>1, <3>6
    <3>8. AckedMeansHandled' /\ \A v : AllDone(v)' = AllDone(v)
      BY <3>1 DEF HandledInv, AckedMeansHandled, AllDone
    <3>9. QED BY <1>h, <3>1, <3>5, <3>7, <3>8 DEF HandledInv
  <2>10. CASE HandlersDone(p)
    <3>1. /\ (\A q \in Process \ {p} : run'[q] = run[q]) /\ r.pc = "sub" /\ r.todo = {}
          /\ UNCHANGED <<log, st, done, dead, sets>> /\ run'[p].cur = r.cur
          /\ run'[p].pc = "batch" \/ (~r.bad /\ run'[p].pc \in {"ack", "markEvent"})
      <4>1. CASE r.bad
        BY <1>t, <2>10, <4>1 DEF HandlersDone, RunType
      <4>2. CASE ~r.bad /\ Forced(p)
        BY <1>t, <2>10, <4>2 DEF HandlersDone, RunType
      <4>3. CASE ~r.bad /\ ~Forced(p)
        BY <1>t, <2>10, <4>3 DEF HandlersDone, RunType
      <4>4. QED BY <4>1, <4>2, <4>3
    <3>2. EventOf(p)' = EventOf(p)
      BY <2>e, <3>1
    <3>3. InHand(p)'
      BY <2>t, <3>1, <3>2 DEF InHand, AllDone
    <3>4. QED BY <2>t, <3>1, <3>3
  <2>11. CASE MarkEvent(p)
    <3>1. /\ (\A q \in Process \ {p} : run'[q] = run[q]) /\ r.pc = "markEvent"
          /\ UNCHANGED <<log, st, done, dead, handled, marker>>
          /\ processed' = processed \cup {EventOf(p)}
          /\ run'[p].cur = r.cur /\ run'[p].pc = "ack"
      BY <1>t, <2>11 DEF MarkEvent, RunType
    <3>2. EventOf(p)' = EventOf(p) /\ \A v : AllDone(v)' = AllDone(v)
      BY <2>e, <3>1 DEF AllDone
    <3>3. AllDone(EventOf(p))
      BY <2>t, <3>1 DEF InHand
    <3>4. InHand(p)'
      BY <3>1, <3>2, <3>3 DEF InHand
    <3>5. Grows
      BY <1>t, <3>1 DEF Grows
    <3>6. \A q \in Process : InHand(q)'
      BY <1>t, <3>1, <3>4, <3>5, GrowsKeeps
    <3>7. AckedMeansHandled'
      BY <3>1 DEF HandledInv, AckedMeansHandled
    <3>8. QED BY <1>h, <3>1, <3>2, <3>3, <3>6, <3>7 DEF HandledInv
  <2>12. CASE Ack(p)
    <3>1. /\ (\A q \in Process \ {p} : run'[q] = run[q]) /\ r.pc \in {"ack", "dlAck"}
          /\ UNCHANGED <<log, done, dead, sets>>
          /\ st' = [st EXCEPT ![r.cur] = "acked"] /\ run'[p].pc = "batch"
      BY <1>t, <2>12 DEF Ack, RunType
    <3>2. InHand(p)'
      BY <2>k, <3>1
    <3>3. Grows
      BY <1>t, <3>1 DEF Grows
    <3>4. \A q \in Process : InHand(q)'
      BY <1>t, <3>1, <3>2, <3>3, GrowsKeeps
    <3>5. AckedMeansHandled'
      <4> SUFFICES ASSUME NEW i \in Entry, st'[i] = "acked"
                   PROVE  dead'[i] >= 1 \/ \A s \in Sub : done'[log'[i].event][s] >= 1
        BY DEF AckedMeansHandled
      <4>1. CASE i = r.cur
        BY <2>t, <3>1, <4>1 DEF InHand, AllDone, EventOf
      <4>2. CASE i # r.cur
        <5>1. st[i] = "acked"
          BY <1>t, <3>1, <4>2
        <5>2. QED BY <3>1, <5>1 DEF HandledInv, AckedMeansHandled
      <4>3. QED BY <4>1, <4>2
    <3>6. \A v : AllDone(v)' = AllDone(v)
      BY <3>1 DEF AllDone
    <3>7. QED BY <1>h, <3>1, <3>4, <3>5, <3>6 DEF HandledInv
  <2>13. CASE DeadLetterCheck(p)
    <3>1. /\ \A q \in Process \ {p} : run'[q] = run[q]
          /\ UNCHANGED <<log, st, done, dead, sets>> /\ run'[p].cur = r.cur
          /\ (run'[p].pc = "dlAck" /\ r.cur \in marker) \/ run'[p].pc = "dlAdd"
      BY <1>t, <2>13 DEF DeadLetterCheck, RunType
    <3>2. InHand(p)'
      BY <1>h, <3>1 DEF InHand
    <3>3. QED BY <2>t, <3>1, <3>2
  <2>14. CASE DeadLetterAdd(p)
    <3>1. /\ (\A q \in Process \ {p} : run'[q] = run[q]) /\ r.cur \in Entry
          /\ UNCHANGED <<log, st, done, sets>>
          /\ run'[p].cur = r.cur /\ run'[p].pc = "dlMark"
      BY <1>t, <1>q, <2>14 DEF DeadLetterAdd, RunType
    <3>2. dead' = [dead EXCEPT ![r.cur] = @ + 1]
      BY <2>14 DEF DeadLetterAdd
    <3>3. dead[r.cur] \in Nat
      BY <1>t, <3>1
    <3>4. dead'[r.cur] >= 1 /\ \A i \in Entry : dead'[i] >= dead[i] /\ dead'[i] \in Nat
      BY <1>t, <3>1, <3>2, <3>3
    <3>5. Grows
      BY <1>t, <3>1, <3>4 DEF Grows
    <3>6. InHand(p)'
      BY <3>1, <3>4 DEF InHand
    <3>7. \A q \in Process : InHand(q)'
      BY <1>t, <3>1, <3>5, <3>6, GrowsKeeps
    <3>8. AckedMeansHandled'
      <4>1. UNCHANGED st
        BY <3>1
      <4>2. QED BY <3>5, <4>1, GrowsKeeps DEF AckedMeansHandled
    <3>9. \A i \in marker' : dead'[i] >= 1
      <4>1. \A i \in Entry : dead[i] >= 1 => dead'[i] >= 1
        BY <1>t, <3>4
      <4>2. QED BY <1>h, <1>t, <3>1, <4>1
    <3>10. \A v : AllDone(v)' = AllDone(v)
      BY <3>1 DEF AllDone
    <3>11. QED BY <1>h, <3>1, <3>7, <3>8, <3>9, <3>10 DEF HandledInv
  <2>15. CASE DeadLetterMark(p)
    <3>1. /\ (\A q \in Process \ {p} : run'[q] = run[q]) /\ r.pc = "dlMark"
          /\ UNCHANGED <<log, st, done, dead, processed, handled>>
          /\ marker' = marker \cup {r.cur}
          /\ run'[p].cur = r.cur /\ run'[p].pc = "dlAck"
      BY <1>t, <2>15 DEF DeadLetterMark, RunType
    <3>2. dead[r.cur] >= 1
      BY <2>t, <3>1 DEF InHand
    <3>3. InHand(p)'
      BY <3>1, <3>2 DEF InHand
    <3>4. Grows
      BY <1>t, <3>1 DEF Grows
    <3>5. \A q \in Process : InHand(q)'
      BY <1>t, <3>1, <3>3, <3>4, GrowsKeeps
    <3>6. AckedMeansHandled' /\ \A v : AllDone(v)' = AllDone(v)
      BY <3>1 DEF HandledInv, AckedMeansHandled, AllDone
    <3>7. QED BY <1>h, <3>1, <3>2, <3>5, <3>6 DEF HandledInv
  <2>16. QED
    BY <1>2, <2>1, <2>2, <2>3, <2>4, <2>5, <2>6, <2>7, <2>8, <2>9, <2>10, <2>11, <2>12,
       <2>13, <2>14, <2>15 DEF Step
<1>3. ASSUME NEW p \in Process, RedisFails(p) \/ Crash(p) PROVE HandledInv'
  <2>1. /\ \A q \in Process \ {p} : run'[q] = run[q]
        /\ UNCHANGED <<log, st, done, dead, sets>>
        /\ run'[p].pc \in {"idle", "batch"} \/ (run'[p].pc = "sub" /\ run'[p].bad)
    <3>1. CASE Crash(p)
      <4>1. run' = [run EXCEPT ![p] = Idle] /\ UNCHANGED <<log, st, done, dead, sets>>
        BY <3>1 DEF Crash
      <4>2. QED BY <1>t, <4>1 DEF Idle
    <3>2. CASE RedisFails(p)
      <4>1. UNCHANGED <<log, st, done, dead, sets>>
        BY <3>2 DEF RedisFails
      <4>2. CASE run' = [run EXCEPT ![p].pc = "batch"]
        BY <1>t, <4>1, <4>2 DEF RunType
      <4>3. CASE run' = [run EXCEPT ![p] = [@ EXCEPT !.pc = "sub", !.bad = TRUE]]
        BY <1>t, <4>1, <4>3 DEF RunType
      <4>4. ASSUME NEW s \in run[p].todo, run[p].pc = "sub",
                   run' = [run EXCEPT ![p].todo = @ \ {s}, ![p].bad = TRUE]
            PROVE  /\ \A q \in Process \ {p} : run'[q] = run[q]
                   /\ run'[p].pc = "sub" /\ run'[p].bad
        BY <1>t, <4>4 DEF RunType
      <4>5. QED BY <3>2, <4>1, <4>2, <4>3, <4>4 DEF RedisFails
    <3>3. QED BY <1>3, <3>1, <3>2
  <2>2. InHand(p)'
    BY <2>1 DEF InHand
  <2>3. QED BY <1>p, <2>1, <2>2
<1>4. ASSUME NEW i \in Entry, GoStale(i) PROVE HandledInv'
  <2>1. UNCHANGED <<log, st, run, done, dead, sets>>
    BY <1>4 DEF GoStale
  <2>2. Grows
    BY <1>t, <2>1 DEF Grows
  <2>3. QED BY <1>s, <2>1, <2>2
<1>5. CASE UNCHANGED vars
  <2>1. UNCHANGED <<log, st, run, done, dead, sets>>
    BY <1>5 DEF vars
  <2>2. Grows
    BY <1>t, <2>1 DEF Grows
  <2>3. QED BY <1>s, <2>1, <2>2
<1>6. QED BY <1>1, <1>2, <1>3, <1>4, <1>5 DEF Next

\* An acknowledged entry is never a lost one: its handlers have all succeeded,
\* or it is on the dead-letter stream.
THEOREM NothingAckedIsLost == Spec => []AckedMeansHandled
<1>1. Init => HandledInv
  BY DEF Init, HandledInv, InHand, Idle, AckedMeansHandled
<1>2. WorkInv /\ WorkInv' /\ HandledInv /\ [Next]_vars => HandledInv'
  BY HandledNext
<1>3. HandledInv => AckedMeansHandled
  BY DEF HandledInv
<1>4. QED BY <1>1, <1>2, <1>3, WorkAlways, PTL DEF Spec

-----------------------------------------------------------------------------
(* The delivery counter pays for the passes: an entry that waits in a      *)
(* batch for its handlers, or has been put before them, was delivered.     *)

Waiting(i) == {p \in Process : i \in run[p].batch \ run[p].over}

PassInv ==
  \A i \in Entry :
    /\ passes[i] + Cardinality(Waiting(i)) <= deliveries[i]
    /\ passes[i] + Cardinality(Waiting(i)) <= MaxDeliveries + 1
    /\ st[i] \in {"none", "new"} => deliveries[i] = 0

LEMMA WaitingFinite ==
  /\ \A i \in Entry : IsFiniteSet(Waiting(i)) /\ Cardinality(Waiting(i)) \in Nat
  /\ \A i \in Entry : IsFiniteSet(Waiting(i)') /\ Cardinality(Waiting(i)') \in Nat
<1>1. \A i : Waiting(i) \subseteq Process /\ Waiting(i)' \subseteq Process
  BY DEF Waiting
<1>2. \A i : IsFiniteSet(Waiting(i)) /\ IsFiniteSet(Waiting(i)')
  BY <1>1, FiniteAssumption, FS_Subset
<1>3. QED BY <1>2, FS_CardinalityType

LEMMA PassNext == WorkInv /\ WorkInv' /\ PassInv /\ [Next]_vars => PassInv'
<1> SUFFICES ASSUME WorkInv, WorkInv', PassInv, [Next]_vars PROVE PassInv'
  OBVIOUS
<1> USE EntryFacts DEF Goto, At, publisher, sets, observers, bounds, stream
<1>t. /\ run \in [Process -> RunType] /\ \A p \in Process : run[p] \in RunType
      /\ passes \in [Entry -> Nat] /\ \A i \in Entry : passes[i] \in Nat
      /\ deliveries \in [Entry -> Nat] /\ \A i \in Entry : deliveries[i] \in Nat
      /\ st \in [Entry -> {"none", "new", "pending", "acked"}]
  BY DEF WorkInv, TypeOK, RunType
<1>c. ASSUME NEW i \in Entry
      PROVE  /\ passes[i] + Cardinality(Waiting(i)) <= deliveries[i]
             /\ passes[i] + Cardinality(Waiting(i)) <= MaxDeliveries + 1
             /\ st[i] \in {"none", "new"} => deliveries[i] = 0
             /\ IsFiniteSet(Waiting(i)) /\ Cardinality(Waiting(i)) \in Nat
             /\ IsFiniteSet(Waiting(i)') /\ Cardinality(Waiting(i)') \in Nat
  BY WaitingFinite DEF PassInv
\* Fewer wait, and what counts is as it was.
<1>k. ASSUME NEW i \in Entry, Waiting(i)' \subseteq Waiting(i), passes'[i] = passes[i],
             deliveries'[i] = deliveries[i],
             st'[i] \in {"none", "new"} => st[i] \in {"none", "new"}
      PROVE  /\ passes'[i] + Cardinality(Waiting(i)') <= deliveries'[i]
             /\ passes'[i] + Cardinality(Waiting(i)') <= MaxDeliveries + 1
             /\ st'[i] \in {"none", "new"} => deliveries'[i] = 0
  <2>1. Cardinality(Waiting(i)') <= Cardinality(Waiting(i))
    BY <1>c, <1>k, FS_Subset
  <2>2. QED BY <1>c, <1>k, <1>t, <2>1
\* A step of p after which it has no more in hand than before.
<1>p. ASSUME NEW p \in Process, \A q \in Process \ {p} : run'[q] = run[q],
             run'[p].batch \subseteq run[p].batch, run'[p].over = run[p].over \/ run'[p].batch = {},
             UNCHANGED <<passes, deliveries>>,
             \A i \in Entry : st'[i] \in {"none", "new"} => st[i] \in {"none", "new"}
      PROVE  PassInv'
  <2>1. \A i \in Entry : Waiting(i)' \subseteq Waiting(i)
    BY <1>p DEF Waiting
  <2>2. QED BY <1>k, <1>p, <2>1 DEF PassInv
<1>s. ASSUME UNCHANGED <<run, passes, deliveries>>,
             \A i \in Entry : st'[i] \in {"none", "new"} => st[i] \in {"none", "new"}
      PROVE  PassInv'
  <2>1. \A i \in Entry : Waiting(i)' = Waiting(i)
    BY <1>s DEF Waiting
  <2>2. QED BY <1>k, <1>s, <2>1 DEF PassInv
\* A batch b is delivered to p, those in o over the cap.
<1>b. ASSUME NEW p \in Process, NEW b \in SUBSET Entry, NEW o, Take(p, b, o),
             \A i \in b \ o : deliveries[i] <= MaxDeliveries,
             \A i \in Entry : st'[i] \in {"none", "new"} => st[i] \in {"none", "new"} /\ i \notin b,
             UNCHANGED passes
      PROVE  PassInv'
  <2> SUFFICES ASSUME NEW i \in Entry
               PROVE  /\ passes'[i] + Cardinality(Waiting(i)') <= deliveries'[i]
                      /\ passes'[i] + Cardinality(Waiting(i)') <= MaxDeliveries + 1
                      /\ st'[i] \in {"none", "new"} => deliveries'[i] = 0
    BY DEF PassInv
  <2>1. /\ \A q \in Process \ {p} : run'[q] = run[q]
        /\ run'[p].batch = b /\ run'[p].over = o
    BY <1>b, <1>t DEF Take, Idle
  <2>2. deliveries'[i] = (IF i \in b THEN deliveries[i] + 1 ELSE deliveries[i])
    BY <1>b DEF Take
  <2>3. CASE i \in b \ o
    <3>1. Waiting(i)' \subseteq Waiting(i) \cup {p}
      BY <2>1 DEF Waiting
    <3>2. /\ IsFiniteSet(Waiting(i) \cup {p}) /\ Cardinality(Waiting(i) \cup {p}) \in Nat
          /\ Cardinality(Waiting(i) \cup {p}) <= Cardinality(Waiting(i)) + 1
      <4>1. IsFiniteSet(Waiting(i) \cup {p})
        BY <1>c, FS_AddElement
      <4>2. Cardinality(Waiting(i) \cup {p}) \in Nat
        BY <4>1, FS_CardinalityType
      <4>3. \/ Cardinality(Waiting(i) \cup {p}) = Cardinality(Waiting(i))
            \/ Cardinality(Waiting(i) \cup {p}) = Cardinality(Waiting(i)) + 1
        BY <1>c, FS_AddElement
      <4>4. QED BY <1>c, <4>1, <4>2, <4>3
    <3>3. Cardinality(Waiting(i)') <= Cardinality(Waiting(i) \cup {p})
      BY <3>1, <3>2, FS_Subset
    <3>4. deliveries[i] <= MaxDeliveries /\ deliveries'[i] = deliveries[i] + 1
          /\ passes'[i] = passes[i]
      BY <1>b, <2>2, <2>3
    <3>5. Cardinality(Waiting(i)') <= Cardinality(Waiting(i)) + 1
      BY <1>c, <3>2, <3>3
    <3>6. st'[i] \notin {"none", "new"}
      BY <1>b, <2>3
    <3>7. QED BY <1>c, <1>t, <3>4, <3>5, <3>6
  <2>4. CASE i \notin b \ o
    <3>1. Waiting(i)' \subseteq Waiting(i)
      BY <2>1, <2>4 DEF Waiting
    <3>2. Cardinality(Waiting(i)') <= Cardinality(Waiting(i))
      BY <1>c, <3>1, FS_Subset
    <3>3. deliveries'[i] \in Nat /\ deliveries'[i] >= deliveries[i] /\ passes'[i] = passes[i]
      BY <1>b, <1>t, <2>2
    <3>4. st'[i] \in {"none", "new"} => deliveries'[i] = deliveries[i] /\ st[i] \in {"none", "new"}
      BY <1>b, <2>2
    <3>5. QED BY <1>c, <1>t, <3>2, <3>3, <3>4
  <2>5. QED BY <2>3, <2>4
<1>1. ASSUME NEW v \in Event, PublishStep(v) \/ Republish(v) PROVE PassInv'
  <2>1. UNCHANGED <<run, passes>>
    BY <1>1 DEF PublishStep, PublishWorkflow, PublishStream, PublishChannel, PublishFails,
                Republish
  <2>2. UNCHANGED st \/ \E f \in BOOLEAN : HasRoom /\ Append(v, f)
    BY <1>1 DEF PublishStep, PublishWorkflow, PublishStream, PublishChannel, PublishFails,
                Republish
  <2>3. UNCHANGED deliveries
    BY <1>1 DEF PublishStep, PublishWorkflow, PublishStream, PublishChannel, PublishFails,
                Republish, Append
  <2>4. \A i \in Entry : st'[i] \in {"none", "new"} => st[i] \in {"none", "new"}
    <3>1. ASSUME NEW f \in BOOLEAN, HasRoom, Append(v, f)
          PROVE  \A i \in Entry : st'[i] \in {"none", "new"} => st[i] \in {"none", "new"}
      <4>1. NextIndex \in Entry \ Written /\ st' = [st EXCEPT ![NextIndex] = "new"]
        BY <3>1, AppendFacts
      <4>2. QED BY <1>t, <4>1 DEF Written
    <3>2. QED BY <2>2, <3>1
  <2>5. QED BY <1>s, <2>1, <2>3, <2>4
<1>2. ASSUME NEW p \in Process, Step(p) PROVE PassInv'
  <2>1. CASE Read(p)
    <3>1. Oldest(New) \subseteq Entry /\ \A i \in Oldest(New) : st[i] = "new"
      BY DEF Oldest, New
    <3>2. \A i \in Oldest(New) : deliveries[i] <= MaxDeliveries
      <4> SUFFICES ASSUME NEW i \in Oldest(New) PROVE deliveries[i] <= MaxDeliveries
        OBVIOUS
      <4>1. i \in Entry /\ st[i] = "new"
        BY <3>1
      <4>2. deliveries[i] = 0
        BY <1>c, <4>1
      <4>3. QED BY <4>2
    <3>3. \A i \in Entry : st'[i] \in {"none", "new"} =>
                             st[i] \in {"none", "new"} /\ i \notin Oldest(New)
      BY <2>1 DEF Read
    <3>4. Take(p, Oldest(New), {}) /\ UNCHANGED passes
      BY <2>1 DEF Read
    <3>5. QED BY <1>b, <3>1, <3>2, <3>3, <3>4
  <2>2. CASE ClaimPending(p)
    <3> DEFINE o == {i \in Stale : OverCap(i)}
    <3>1. Stale \subseteq Entry /\ \A i \in Stale : st[i] = "pending"
      BY DEF Stale, Oldest, Pending
    <3>2. \A i \in Stale \ o : deliveries[i] <= MaxDeliveries
      BY <1>t, <3>1 DEF OverCap
    <3>3. Take(p, Stale, o) /\ UNCHANGED <<st, passes>>
      BY <2>2 DEF ClaimPending
    <3>4. \A i \in Entry : st'[i] \in {"none", "new"} => st[i] \in {"none", "new"} /\ i \notin Stale
      BY <3>1, <3>3
    <3> HIDE DEF o
    <3>5. QED BY <1>b, <3>1, <3>2, <3>3, <3>4
  <2>3. CASE NextEntry(p)
    <3> DEFINE r == run[p]
    <3>1. PICK i \in Entry : i = Min(run[p].batch) /\ i \in r.batch
      <4>1. r.batch # {} /\ r.batch \subseteq Nat /\ r.batch \subseteq Entry
        BY <1>t, <2>3 DEF NextEntry, RunType
      <4>2. \E x \in r.batch : \A y \in r.batch : x <= y
        BY <4>1, OldestOf
      <4>3. QED BY <4>1, <4>2 DEF Min
    <3>e. NextEntry(p) /\ i = Min(run[p].batch)
      BY <2>3, <3>1
    <3>2. /\ \A q \in Process \ {p} : run'[q] = run[q]
          /\ run'[p].batch = r.batch \ {i} /\ run'[p].over = r.over
          /\ UNCHANGED <<deliveries, st>>
      BY <1>t, <3>e DEF NextEntry, RunType
    <3>3. CASE i \in r.over
      <4>1. passes' = passes
        BY <3>e, <3>3 DEF NextEntry
      <4>2. QED BY <1>p, <3>2, <4>1
    <3>4. CASE i \notin r.over
      <4>1. passes' = [passes EXCEPT ![i] = @ + 1]
        BY <3>e, <3>4 DEF NextEntry
      <4>2. passes'[i] = passes[i] + 1 /\ \A j \in Entry \ {i} : passes'[j] = passes[j]
        BY <1>t, <3>1, <4>1
      <4>3. \A j \in Entry : Waiting(j)' \subseteq Waiting(j)
        BY <3>2 DEF Waiting
      <4>4. Waiting(i)' = Waiting(i) \ {p} /\ p \in Waiting(i)
        BY <3>1, <3>2, <3>4 DEF Waiting
      <4>5. Cardinality(Waiting(i)') = Cardinality(Waiting(i)) - 1
        BY <1>c, <3>1, <4>4, FS_RemoveElement
      <4>6. /\ passes'[i] + Cardinality(Waiting(i)') <= deliveries'[i]
            /\ passes'[i] + Cardinality(Waiting(i)') <= MaxDeliveries + 1
            /\ st'[i] \in {"none", "new"} => deliveries'[i] = 0
        BY <1>c, <1>t, <3>1, <3>2, <4>2, <4>5
      <4>7. \A j \in Entry \ {i} :
              /\ passes'[j] + Cardinality(Waiting(j)') <= deliveries'[j]
              /\ passes'[j] + Cardinality(Waiting(j)') <= MaxDeliveries + 1
              /\ st'[j] \in {"none", "new"} => deliveries'[j] = 0
        BY <1>k, <3>2, <4>2, <4>3
      <4>8. QED BY <4>6, <4>7 DEF PassInv
    <3>5. QED BY <3>3, <3>4
  <2>4. CASE BatchDone(p)
    BY <1>p, <1>t, <2>4 DEF BatchDone, Idle
  <2>5. CASE Ack(p)
    BY <1>p, <1>t, <2>5 DEF Ack, RunType
  <2>6. CASE CheckEvent(p)
    BY <1>p, <1>t, <2>6 DEF CheckEvent, RunType
  <2>7. ASSUME NEW s \in Sub, NextHandler(p, s) PROVE PassInv'
    <3>1. CASE SkipHandled(p, s)
      BY <1>p, <1>t, <2>7, <3>1 DEF NextHandler, RunType
    <3>2. CASE ~SkipHandled(p, s)
      BY <1>p, <1>t, <2>7, <3>2 DEF NextHandler, RunType
    <3>3. QED BY <3>1, <3>2
  <2>8. CASE HandlerSucceeds(p) \/ HandlerThrows(p) \/ MarkHandler(p) \/ HandlersDone(p)
    <3>1. CASE HandlerSucceeds(p)
      BY <1>p, <1>t, <3>1 DEF HandlerSucceeds, RunType
    <3>2. CASE HandlerThrows(p)
      BY <1>p, <1>t, <3>2 DEF HandlerThrows, RunType
    <3>3. CASE MarkHandler(p)
      BY <1>p, <1>t, <3>3 DEF MarkHandler, RunType
    <3>4. CASE HandlersDone(p)
      BY <1>p, <1>t, <3>4 DEF HandlersDone, RunType
    <3>5. QED BY <2>8, <3>1, <3>2, <3>3, <3>4
  <2>9. CASE MarkEvent(p) \/ DeadLetterCheck(p) \/ DeadLetterAdd(p) \/ DeadLetterMark(p)
    BY <1>p, <1>t, <2>9 DEF MarkEvent, DeadLetterCheck, DeadLetterAdd, DeadLetterMark, RunType
  <2>10. QED BY <1>2, <2>1, <2>2, <2>3, <2>4, <2>5, <2>6, <2>7, <2>8, <2>9 DEF Step
<1>3. ASSUME NEW p \in Process, RedisFails(p) \/ Crash(p) PROVE PassInv'
  <2>1. CASE Crash(p)
    BY <1>p, <1>t, <2>1 DEF Crash, Idle
  <2>2. CASE RedisFails(p)
    <3>1. UNCHANGED <<passes, deliveries, st>>
      BY <2>2 DEF RedisFails
    <3>2. CASE run' = [run EXCEPT ![p].pc = "batch"]
      BY <1>p, <1>t, <3>1, <3>2 DEF RunType
    <3>3. CASE run' = [run EXCEPT ![p] = [@ EXCEPT !.pc = "sub", !.bad = TRUE]]
      BY <1>p, <1>t, <3>1, <3>3 DEF RunType
    <3>4. ASSUME NEW s \in run[p].todo,
                 run' = [run EXCEPT ![p].todo = @ \ {s}, ![p].bad = TRUE]
          PROVE  PassInv'
      BY <1>p, <1>t, <3>1, <3>4 DEF RunType
    <3>5. QED BY <2>2, <3>2, <3>3, <3>4 DEF RedisFails
  <2>3. QED BY <1>3, <2>1, <2>2
<1>4. ASSUME NEW i \in Entry, GoStale(i) PROVE PassInv'
  BY <1>4, <1>s DEF GoStale
<1>5. CASE UNCHANGED vars
  BY <1>5, <1>s DEF vars
<1>6. QED BY <1>1, <1>2, <1>3, <1>4, <1>5 DEF Next

\* "No message can redeliver forever": an entry is put before its handlers at
\* most once more than maxDeliveries, whatever fails.
THEOREM RedeliveryStops == Spec => []RedeliveryBounded
<1>1. Init => PassInv
  <2> SUFFICES ASSUME Init PROVE PassInv
    OBVIOUS
  <2>1. \A i : Waiting(i) = {}
    BY DEF Init, Waiting, Idle
  <2>2. \A i \in Entry : Cardinality(Waiting(i)) = 0
    BY <2>1, FS_EmptySet
  <2>3. \A i \in Entry : passes[i] = 0 /\ deliveries[i] = 0
    BY DEF Init
  <2>4. \A i \in Entry : 0 + 0 <= 0 /\ 0 + 0 <= MaxDeliveries + 1
    BY EntryFacts
  <2>5. QED BY <2>2, <2>3, <2>4 DEF PassInv
<1>2. WorkInv /\ WorkInv' /\ PassInv /\ [Next]_vars => PassInv'
  BY PassNext
<1>3. WorkInv /\ PassInv => RedeliveryBounded
  <2> SUFFICES ASSUME WorkInv, PassInv, NEW i \in Entry PROVE passes[i] <= MaxDeliveries + 1
    BY DEF RedeliveryBounded
  <2>1. passes[i] \in Nat /\ Cardinality(Waiting(i)) \in Nat
    BY WaitingFinite DEF WorkInv, TypeOK
  <2>2. passes[i] + Cardinality(Waiting(i)) <= MaxDeliveries + 1
    BY DEF PassInv
  <2>3. QED BY <2>1, <2>2, EntryFacts
<1>4. QED BY <1>1, <1>2, <1>3, WorkAlways, PTL DEF Spec

-----------------------------------------------------------------------------
(* Every run of a handler is paid for.  A plain entry pays for one run,    *)
(* which waits with the entry until somebody claims it, then with whoever  *)
(* has the entry in a batch or in hand; a pass of a forced entry pays for  *)
(* one; a mishap pays for the run that was not marked or is claimed twice. *)

Tidy ==
  /\ {crashes, faults, slow} \subseteq Nat
  /\ \A p \in Process : /\ run[p].pc = "idle" => run[p] = Idle
                        /\ run[p].pc \in {"run", "mark"} => run[p].sub \notin run[p].todo

OnHand(p) == run[p].pc \notin {"idle", "batch"}
MayRun(p, s) ==
  \/ run[p].pc = "check"
  \/ run[p].pc \in {"sub", "run", "mark"} /\ s \in run[p].todo
  \/ run[p].pc = "run" /\ run[p].sub = s

\* The entry p has in hand may still give a run of s for event v.
Claims(p, v, s) ==
  /\ OnHand(p) /\ EventOf(p) = v
  /\ IF Forced(p) THEN MayRun(p, s)
     ELSE IF <<v, s>> \in handled THEN run[p].pc = "run" /\ run[p].sub = s
     ELSE ~(run[p].pc = "mark" /\ run[p].sub = s)
Claimants(v, s) == {p \in Process : Claims(p, v, s)}

\* A plain entry nobody works on, or that may be claimed from who does.
Loose(i) == st[i] = "new" \/ (st[i] = "pending" /\ (i \in stale \/ ~Working(i)))
Unclaimed(v, s) == {i \in PlainOf(v) : <<v, s>> \notin handled /\ Loose(i)}
Queued(v, s) ==
  {x \in Process \X Entry :
     <<v, s>> \notin handled /\ x[2] \in PlainOf(v) /\ x[2] \in run[x[1]].batch}

Mishaps == crashes + faults + slow
Account(v, s) ==
  done[v][s] + Cardinality(Unclaimed(v, s)) + Cardinality(Queued(v, s)) + Cardinality(Claimants(v, s))
    <= Cardinality(PlainOf(v)) + Cardinality(ForcedDeliveriesOf(v)) + Mishaps

Accounts == \A v \in Event, s \in Sub : Account(v, s)

LEMMA TidyNext == WorkInv /\ Tidy /\ [Next]_vars => Tidy'
<1> SUFFICES ASSUME WorkInv, Tidy, [Next]_vars PROVE Tidy'
  OBVIOUS
<1> USE DEF Goto, At, publisher, sets, observers, bounds, stream
<1>t. /\ run \in [Process -> RunType]
      /\ crashes \in Nat /\ faults \in Nat /\ slow \in Nat
  BY DEF WorkInv, TypeOK, RunType, Tidy
<1>p. ASSUME NEW p \in Process, \A q \in Process \ {p} : run'[q] = run[q],
             crashes' \in Nat, faults' \in Nat, slow' \in Nat,
             run'[p].pc = "idle" => run'[p] = Idle,
             run'[p].pc \in {"run", "mark"} => run'[p].sub \notin run'[p].todo
      PROVE  Tidy'
  BY <1>p DEF Tidy
<1>s. ASSUME UNCHANGED run, crashes' \in Nat, faults' \in Nat, slow' \in Nat PROVE Tidy'
  BY <1>s DEF Tidy
<1>1. ASSUME NEW v \in Event, PublishStep(v) \/ Republish(v) PROVE Tidy'
  <2>1. CASE PublishFails(v)
    BY <1>s, <1>t, <2>1 DEF PublishFails
  <2>2. CASE ~PublishFails(v)
    BY <1>1, <1>s, <1>t, <2>2
       DEF PublishStep, PublishWorkflow, PublishStream, PublishChannel, Republish
  <2>3. QED BY <2>1, <2>2
<1>2. ASSUME NEW p \in Process, Step(p) PROVE Tidy'
  <2>b. UNCHANGED bounds
    BY <1>2 DEF Step, Read, ClaimPending, NextEntry, BatchDone, CheckEvent,
                NextHandler, HandlerSucceeds, HandlerThrows, MarkHandler, HandlersDone,
                MarkEvent, Ack, DeadLetterCheck, DeadLetterAdd, DeadLetterMark, Take
  <2>1. CASE \E b, o : Take(p, b, o)
    BY <1>p, <1>t, <2>1, <2>b DEF Take, Idle
  <2>2. CASE NextEntry(p)
    <3>1. /\ run'[p].pc \in {"dlCheck", "check"} /\ \A q \in Process \ {p} : run'[q] = run[q]
      BY <1>t, <2>2 DEF NextEntry, RunType
    <3>2. QED BY <1>p, <1>t, <2>b, <3>1
  <2>3. CASE BatchDone(p)
    BY <1>p, <1>t, <2>3, <2>b DEF BatchDone, Idle
  <2>4. CASE CheckEvent(p)
    BY <1>p, <1>t, <2>4, <2>b DEF CheckEvent, RunType
  <2>5. ASSUME NEW s \in Sub, NextHandler(p, s) PROVE Tidy'
    <3>1. CASE SkipHandled(p, s)
      BY <1>p, <1>t, <2>5, <2>b, <3>1 DEF NextHandler, RunType
    <3>2. CASE ~SkipHandled(p, s)
      BY <1>p, <1>t, <2>5, <2>b, <3>2 DEF NextHandler, RunType
    <3>3. QED BY <3>1, <3>2
  <2>6. CASE HandlerSucceeds(p)
    <3>1. run[p].sub \notin run[p].todo
      BY <2>6 DEF HandlerSucceeds, Tidy
    <3>2. QED BY <1>p, <1>t, <2>6, <2>b, <3>1 DEF HandlerSucceeds, RunType
  <2>7. CASE HandlerThrows(p)
    BY <1>p, <1>t, <2>7, <2>b DEF HandlerThrows, RunType
  <2>8. CASE MarkHandler(p) \/ MarkEvent(p) \/ Ack(p)
    BY <1>p, <1>t, <2>8, <2>b DEF MarkHandler, MarkEvent, Ack, RunType
  <2>9. CASE HandlersDone(p)
    <3>1. /\ run'[p].pc \in {"batch", "ack", "markEvent"}
          /\ \A q \in Process \ {p} : run'[q] = run[q]
      BY <1>t, <2>9 DEF HandlersDone, RunType
    <3>2. QED BY <1>p, <1>t, <2>b, <3>1
  <2>10. CASE DeadLetterCheck(p) \/ DeadLetterAdd(p) \/ DeadLetterMark(p)
    BY <1>p, <1>t, <2>10, <2>b DEF DeadLetterCheck, DeadLetterAdd, DeadLetterMark, RunType
  <2>11. QED
    BY <1>2, <2>1, <2>2, <2>3, <2>4, <2>5, <2>6, <2>7, <2>8, <2>9, <2>10
       DEF Step, Read, ClaimPending
<1>3. ASSUME NEW p \in Process, Crash(p) PROVE Tidy'
  BY <1>3, <1>p, <1>t DEF Crash, Idle
<1>4. ASSUME NEW p \in Process, RedisFails(p) PROVE Tidy'
  <2>1. crashes' \in Nat /\ faults' \in Nat /\ slow' \in Nat
    BY <1>4, <1>t DEF RedisFails
  <2>2. CASE run' = [run EXCEPT ![p].pc = "batch"]
    BY <1>p, <1>t, <2>1, <2>2 DEF RunType
  <2>3. CASE run' = [run EXCEPT ![p] = [@ EXCEPT !.pc = "sub", !.bad = TRUE]]
    BY <1>p, <1>t, <2>1, <2>3 DEF RunType
  <2>4. ASSUME NEW s \in run[p].todo, run[p].pc = "sub",
               run' = [run EXCEPT ![p].todo = @ \ {s}, ![p].bad = TRUE]
        PROVE  Tidy'
    BY <1>p, <1>t, <2>1, <2>4 DEF RunType
  <2>5. QED BY <1>4, <2>2, <2>3, <2>4 DEF RedisFails
<1>5. ASSUME NEW i \in Entry, GoStale(i) PROVE Tidy'
  BY <1>5, <1>s, <1>t DEF GoStale
<1>6. CASE UNCHANGED vars
  BY <1>6, <1>s, <1>t DEF vars
<1>7. QED BY <1>1, <1>2, <1>3, <1>4, <1>5, <1>6 DEF Next

LEMMA TidyAlways == Spec => []Tidy
<1>1. Init => Tidy
  BY DEF Init, Tidy, Idle
<1>2. QED BY <1>1, TidyNext, WorkAlways, PTL DEF Spec

\* The sets that are counted are finite.
LEMMA CountableNow ==
  ASSUME WorkInv, RedeliveryBounded, NEW v, NEW s
  PROVE  /\ IsFiniteSet(Unclaimed(v, s)) /\ IsFiniteSet(Queued(v, s))
         /\ IsFiniteSet(Claimants(v, s)) /\ IsFiniteSet(PlainOf(v))
         /\ IsFiniteSet(ForcedDeliveriesOf(v))
<1>1. PlainOf(v) \subseteq Entry
  BY DEF PlainOf, Written
<1>2. Unclaimed(v, s) \subseteq Entry
  BY <1>1 DEF Unclaimed
<1>3. Queued(v, s) \subseteq Process \X Entry /\ Claimants(v, s) \subseteq Process
  BY DEF Queued, Claimants
<1>4. \A i \in Entry : 1 .. passes[i] \subseteq 1 .. (MaxDeliveries + 1)
  BY EntryFacts DEF RedeliveryBounded, WorkInv, TypeOK
<1>5. ForcedDeliveriesOf(v) \subseteq Entry \X (1 .. (MaxDeliveries + 1))
  BY <1>4 DEF ForcedDeliveriesOf, Written
<1>6. IsFiniteSet(1 .. (MaxDeliveries + 1))
  BY EntryFacts, FS_Interval
<1>7. IsFiniteSet(Process \X Entry) /\ IsFiniteSet(Entry \X (1 .. (MaxDeliveries + 1)))
  BY <1>6, EntryFacts, FiniteAssumption, FS_Product
<1>8. QED BY <1>1, <1>2, <1>3, <1>5, <1>7, EntryFacts, FiniteAssumption, FS_Subset

\* So are they in the two states of a step.
LEMMA Countable ==
  ASSUME WorkInv, WorkInv', RedeliveryBounded, RedeliveryBounded', NEW v, NEW s
  PROVE  /\ IsFiniteSet(Unclaimed(v, s)) /\ IsFiniteSet(Unclaimed(v, s)')
         /\ IsFiniteSet(Queued(v, s)) /\ IsFiniteSet(Queued(v, s)')
         /\ IsFiniteSet(Claimants(v, s)) /\ IsFiniteSet(Claimants(v, s)')
         /\ IsFiniteSet(PlainOf(v)) /\ IsFiniteSet(PlainOf(v)')
         /\ IsFiniteSet(ForcedDeliveriesOf(v)) /\ IsFiniteSet(ForcedDeliveriesOf(v)')
<1>1. PlainOf(v) \subseteq Entry /\ PlainOf(v)' \subseteq Entry
  BY DEF PlainOf, Written
<1>2. Unclaimed(v, s) \subseteq Entry /\ Unclaimed(v, s)' \subseteq Entry
  BY <1>1 DEF Unclaimed
<1>3. /\ Queued(v, s) \subseteq Process \X Entry /\ Queued(v, s)' \subseteq Process \X Entry
      /\ Claimants(v, s) \subseteq Process /\ Claimants(v, s)' \subseteq Process
  BY DEF Queued, Claimants
<1>4. /\ \A i \in Entry : 1 .. passes[i] \subseteq 1 .. (MaxDeliveries + 1)
      /\ \A i \in Entry : 1 .. passes'[i] \subseteq 1 .. (MaxDeliveries + 1)
  BY EntryFacts DEF RedeliveryBounded, WorkInv, TypeOK
<1>5. /\ ForcedDeliveriesOf(v) \subseteq Entry \X (1 .. (MaxDeliveries + 1))
      /\ ForcedDeliveriesOf(v)' \subseteq Entry \X (1 .. (MaxDeliveries + 1))
  BY <1>4 DEF ForcedDeliveriesOf, Written
<1>6. IsFiniteSet(1 .. (MaxDeliveries + 1))
  BY EntryFacts, FS_Interval
<1>7. IsFiniteSet(Process \X Entry) /\ IsFiniteSet(Entry \X (1 .. (MaxDeliveries + 1)))
  BY <1>6, EntryFacts, FiniteAssumption, FS_Product
<1>8. QED BY <1>1, <1>2, <1>3, <1>5, <1>7, EntryFacts, FiniteAssumption, FS_Subset

\* How large a set is that lost, or may have gained, the elements of B.
LEMMA TakenAway ==
  ASSUME NEW S, NEW T, NEW B, IsFiniteSet(S), B \subseteq S, T \subseteq S \ B
  PROVE  Cardinality(T) <= Cardinality(S) - Cardinality(B)
<1>1. IsFiniteSet(S \ B) /\ Cardinality(S \ B) = Cardinality(S) - Cardinality(S \cap B)
  BY FS_Difference
<1>2. S \cap B = B
  OBVIOUS
<1>3. Cardinality(T) <= Cardinality(S \ B)
  BY <1>1, FS_Subset
<1>4. QED BY <1>1, <1>2, <1>3

LEMMA PutOn ==
  ASSUME NEW S, NEW T, NEW B, IsFiniteSet(S), IsFiniteSet(B), T \subseteq S \cup B
  PROVE  Cardinality(T) <= Cardinality(S) + Cardinality(B)
<1>1. /\ IsFiniteSet(S \cup B)
      /\ Cardinality(S \cup B) = Cardinality(S) + Cardinality(B) - Cardinality(S \cap B)
  BY FS_Union
<1>2. Cardinality(T) <= Cardinality(S \cup B) /\ IsFiniteSet(T) /\ IsFiniteSet(S \cap B)
  BY <1>1, FS_Subset
<1>3. /\ Cardinality(T) \in Nat /\ Cardinality(S) \in Nat /\ Cardinality(B) \in Nat
      /\ Cardinality(S \cap B) \in Nat
  BY <1>2, FS_CardinalityType
<1>4. QED BY <1>1, <1>2, <1>3

LEMMA Paired ==
  ASSUME NEW p, NEW B, IsFiniteSet(B)
  PROVE  IsFiniteSet({p} \X B) /\ Cardinality({p} \X B) = Cardinality(B)
<1>1. IsFiniteSet({p}) /\ Cardinality({p}) = 1 /\ Cardinality(B) \in Nat
  BY FS_Singleton, FS_CardinalityType
<1>2. IsFiniteSet({p} \X B) /\ Cardinality({p} \X B) = 1 * Cardinality(B)
  BY <1>1, FS_Product
<1>3. QED BY <1>1, <1>2

\* How a step balances the account: d runs, u, q and c runs to come, n, f and
\* m what pays for them; b entries change hands.
Balanced(b, d, u, q, c, f, n, m, d1, u1, q1, c1, f1, n1, m1) ==
  /\ n <= n1 /\ f <= f1 /\ m <= m1
  /\ \/ d1 = d     /\ u1 <= u         /\ q1 <= q     /\ c1 <= c
     \/ d1 = d + 1 /\ u1 <= u         /\ q1 <= q     /\ c1 <= c - 1
     \/ d1 = d     /\ u1 <= u         /\ q1 <= q     /\ c1 <= c + 1 /\ m1 = m + 1
     \/ d1 = d     /\ u1 <= u         /\ q1 <= q     /\ c1 <= c + 1 /\ f + 1 <= f1
     \/ d1 = d     /\ u1 <= u         /\ q1 <= q - 1 /\ c1 <= c + 1
     \/ d1 = d     /\ u1 <= u + 1     /\ q1 <= q     /\ c1 <= c - 1
     \/ d1 = d     /\ u1 <= u - b     /\ q1 <= q + b /\ c1 <= c
     \/ d1 = d     /\ u1 <= u + b + 1 /\ q1 <= q - b /\ c1 <= c     /\ m1 = m + 1
     \/ d1 = d     /\ u1 <= u + 1     /\ q1 <= q     /\ c1 <= c     /\ n1 = n + 1

LEMMA AccountNext ==
  ASSUME WorkInv, WorkInv', Tidy, Tidy', RedeliveryBounded, RedeliveryBounded', [Next]_vars,
         NEW v \in Event, NEW s \in Sub, Account(v, s)
  PROVE  Account(v, s)'
<1> USE DEF Goto, At, publisher, sets, observers, bounds, stream
<1>t. /\ run \in [Process -> RunType] /\ \A p \in Process : run[p] \in RunType
      /\ st \in [Entry -> {"none", "new", "pending", "acked"}]
      /\ log \in [Entry -> [event : Event \cup {NoOne}, force : BOOLEAN]]
      /\ done \in [Event -> [Sub -> Nat]] /\ done[v] \in [Sub -> Nat]
      /\ done[v][s] \in Nat /\ done'[v][s] \in Nat
      /\ passes \in [Entry -> Nat] /\ Written \subseteq Entry /\ 0 \notin Entry
      /\ \A p \in Process : OnHand(p) => run[p].cur \in Written
      /\ \A p \in Process : run[p].batch \subseteq Written
  BY EntryFacts DEF WorkInv, TypeOK, Work, RunType, Written, OnHand
<1>m. Mishaps \in Nat /\ Mishaps' \in Nat
  BY DEF Mishaps, Tidy
\* What is counted, before the step and after it.
<1>f. /\ IsFiniteSet(Unclaimed(v, s)) /\ IsFiniteSet(Unclaimed(v, s)')
      /\ IsFiniteSet(Queued(v, s)) /\ IsFiniteSet(Queued(v, s)')
      /\ IsFiniteSet(Claimants(v, s)) /\ IsFiniteSet(Claimants(v, s)')
      /\ IsFiniteSet(PlainOf(v)) /\ IsFiniteSet(PlainOf(v)')
      /\ IsFiniteSet(ForcedDeliveriesOf(v)) /\ IsFiniteSet(ForcedDeliveriesOf(v)')
  BY Countable
<1>x. PICK u \in Nat, q \in Nat, c \in Nat, n \in Nat, f \in Nat, d \in Nat, m \in Nat :
        /\ u = Cardinality(Unclaimed(v, s)) /\ q = Cardinality(Queued(v, s))
        /\ c = Cardinality(Claimants(v, s)) /\ n = Cardinality(PlainOf(v))
        /\ f = Cardinality(ForcedDeliveriesOf(v)) /\ d = done[v][s] /\ m = Mishaps
  BY <1>f, <1>m, <1>t, FS_CardinalityType
<1>y. PICK u1 \in Nat, q1 \in Nat, c1 \in Nat, n1 \in Nat, f1 \in Nat, d1 \in Nat, m1 \in Nat :
        /\ u1 = Cardinality(Unclaimed(v, s)') /\ q1 = Cardinality(Queued(v, s)')
        /\ c1 = Cardinality(Claimants(v, s)') /\ n1 = Cardinality(PlainOf(v)')
        /\ f1 = Cardinality(ForcedDeliveriesOf(v)') /\ d1 = done'[v][s] /\ m1 = Mishaps'
  BY <1>f, <1>m, <1>t, FS_CardinalityType
<1>a. d + u + q + c <= n + f + m
  BY <1>x DEF Account
<1> SUFFICES d1 + u1 + q1 + c1 <= n1 + f1 + m1
  BY <1>y DEF Account
<1>U. Unclaimed(v, s)' \subseteq Unclaimed(v, s) => u1 <= u
  BY <1>f, <1>x, <1>y, FS_Subset
<1>Q. Queued(v, s)' \subseteq Queued(v, s) => q1 <= q
  BY <1>f, <1>x, <1>y, FS_Subset
<1>C. Claimants(v, s)' \subseteq Claimants(v, s) => c1 <= c
  BY <1>f, <1>x, <1>y, FS_Subset
<1>N. PlainOf(v) \subseteq PlainOf(v)' => n <= n1
  BY <1>f, <1>x, <1>y, FS_Subset
<1>F. ForcedDeliveriesOf(v) \subseteq ForcedDeliveriesOf(v)' => f <= f1
  BY <1>f, <1>x, <1>y, FS_Subset
<1>u. ASSUME NEW x, Unclaimed(v, s)' \subseteq Unclaimed(v, s) \cup {x} PROVE u1 <= u + 1
  <2>1. /\ IsFiniteSet(Unclaimed(v, s) \cup {x})
        /\ Cardinality(Unclaimed(v, s) \cup {x}) \in {u, u + 1}
    BY <1>f, <1>x, <1>y, FS_AddElement
  <2>2. u1 <= Cardinality(Unclaimed(v, s) \cup {x})
    BY <1>u, <1>y, <2>1, FS_Subset
  <2>3. QED BY <2>1, <2>2
<1>c. ASSUME NEW x, Claimants(v, s)' \subseteq Claimants(v, s) \cup {x} PROVE c1 <= c + 1
  <2>1. /\ IsFiniteSet(Claimants(v, s) \cup {x})
        /\ Cardinality(Claimants(v, s) \cup {x}) \in {c, c + 1}
    BY <1>f, <1>x, <1>y, FS_AddElement
  <2>2. c1 <= Cardinality(Claimants(v, s) \cup {x})
    BY <1>c, <1>y, <2>1, FS_Subset
  <2>3. QED BY <2>1, <2>2
<1>d. ASSUME NEW x \in Claimants(v, s), Claimants(v, s)' \subseteq Claimants(v, s) \ {x}
      PROVE  c1 <= c - 1
  <2>1. IsFiniteSet(Claimants(v, s) \ {x}) /\ Cardinality(Claimants(v, s) \ {x}) = c - 1
    BY <1>f, <1>x, <1>y, FS_RemoveElement
  <2>2. QED BY <1>d, <1>y, <2>1, FS_Subset
<1>b. ASSUME NEW b \in Nat, Balanced(b, d, u, q, c, f, n, m, d1, u1, q1, c1, f1, n1, m1)
      PROVE  d1 + u1 + q1 + c1 <= n1 + f1 + m1
  BY <1>a, <1>b DEF Balanced
\* The stream grows, if it changes; what the entries stand for does not.
<1>l. ASSUME UNCHANGED <<log, passes>>, Written' = Written
      PROVE  /\ PlainOf(v)' = PlainOf(v) /\ ForcedDeliveriesOf(v)' = ForcedDeliveriesOf(v)
             /\ n <= n1 /\ f <= f1
  <2>1. PlainOf(v)' = PlainOf(v)
    BY <1>l DEF PlainOf
  <2>2. ForcedDeliveriesOf(v)' = ForcedDeliveriesOf(v)
    BY <1>l DEF ForcedDeliveriesOf
  <2>3. QED BY <1>N, <1>F, <2>1, <2>2
<1>w. UNCHANGED st => Written' = Written
  BY DEF Written
\* A process that does not move claims no more than before.
<1>o. ASSUME NEW p \in Process, run'[p] = run[p], handled \subseteq handled',
             \A i \in Written : log'[i] = log[i], Claims(p, v, s)'
      PROVE  Claims(p, v, s)
  <2>1. OnHand(p) /\ EventOf(p)' = EventOf(p) /\ Forced(p)' = Forced(p)
    BY <1>o, <1>t DEF Claims, OnHand, EventOf, Forced
  <2>2. <<v, s>> \in handled => <<v, s>> \in handled'
    BY <1>o
  <2>3. MayRun(p, s)' = MayRun(p, s)
    BY <1>o DEF MayRun
  <2>4. QED BY <1>o, <2>1, <2>2, <2>3 DEF Claims
\* Process p goes on with the entry in hand.
<1>g. ASSUME NEW p \in Process, \A x \in Process \ {p} : run'[x] = run[x],
             run'[p].batch = run[p].batch, run'[p].cur = run[p].cur,
             OnHand(p), run'[p].pc \notin {"idle", "batch"},
             UNCHANGED <<log, st, stale, passes>>, handled \subseteq handled'
      PROVE  /\ u1 <= u /\ q1 <= q /\ n <= n1 /\ f <= f1
             /\ c1 <= c + 1
             /\ Claims(p, v, s) \/ ~Claims(p, v, s)' => c1 <= c
             /\ Claims(p, v, s) /\ ~Claims(p, v, s)' => c1 <= c - 1
  <2>1. n <= n1 /\ f <= f1 /\ PlainOf(v)' = PlainOf(v)
    BY <1>g, <1>l, <1>w
  <2>2. \A i \in Entry : Working(i)' <=> Working(i)
    BY <1>g DEF Working, OnHand
  <2>3. <<v, s>> \in handled => <<v, s>> \in handled'
    BY <1>g
  <2>4. PlainOf(v) \subseteq Entry
    BY DEF PlainOf, Written
  <2>5. Unclaimed(v, s)' \subseteq Unclaimed(v, s)
    BY <1>g, <2>1, <2>2, <2>3, <2>4 DEF Unclaimed, Loose
  <2>6. \A x \in Process : run'[x].batch = run[x].batch
    BY <1>g
  <2>7. Queued(v, s)' \subseteq Queued(v, s)
    BY <2>1, <2>3, <2>6 DEF Queued
  <2>8. \A x \in Process \ {p} : Claims(x, v, s)' => Claims(x, v, s)
    BY <1>g, <1>o
  <2>9. Claimants(v, s)' \subseteq Claimants(v, s) \cup {p}
    BY <2>8 DEF Claimants
  <2>10. Claims(p, v, s) \/ ~Claims(p, v, s)' => Claimants(v, s)' \subseteq Claimants(v, s)
    BY <2>8 DEF Claimants
  <2>11. Claims(p, v, s) /\ ~Claims(p, v, s)' =>
           p \in Claimants(v, s) /\ Claimants(v, s)' \subseteq Claimants(v, s) \ {p}
    BY <2>8 DEF Claimants
  <2>12. QED BY <1>U, <1>Q, <1>C, <1>c, <1>d, <2>1, <2>5, <2>7, <2>9, <2>10, <2>11
\* Process p lets go of the entry in hand.
<1>h. ASSUME NEW p \in Process, \A x \in Process \ {p} : run'[x] = run[x],
             run'[p].batch = run[p].batch, run'[p].pc = "batch",
             OnHand(p), run[p].pc # "mark",
             UNCHANGED <<log, passes, handled>>, stale' \subseteq stale,
             Written' = Written,
             \A i \in Entry : st'[i] = "acked" \/ st'[i] = st[i]
      PROVE  /\ q1 <= q /\ n <= n1 /\ f <= f1
             /\ (u1 <= u /\ c1 <= c) \/ (u1 <= u + 1 /\ c1 <= c - 1)
  <2> DEFINE e == run[p].cur
  <2>1. PlainOf(v)' = PlainOf(v)
    BY <1>h, <1>l
  <2>a. n <= n1 /\ f <= f1
    BY <1>h, <1>l
  <2>2. \A i \in Entry : i # e => (Working(i)' <=> Working(i))
    BY <1>h DEF Working, OnHand
  <2>3. PlainOf(v) \subseteq Entry
    BY DEF PlainOf, Written
  <2>4. \A i \in Unclaimed(v, s)' : i # e => i \in Unclaimed(v, s)
    BY <1>h, <2>1, <2>2, <2>3 DEF Unclaimed, Loose
  <2>5. q1 <= q
    <3>1. \A x \in Process : run'[x].batch = run[x].batch
      BY <1>h
    <3>2. Queued(v, s)' \subseteq Queued(v, s)
      BY <1>h, <2>1, <3>1 DEF Queued
    <3>3. QED BY <1>Q, <3>2
  <2>6. \A x \in Process \ {p} : Claims(x, v, s)' => Claims(x, v, s)
    BY <1>h, <1>o
  <2>7. ~Claims(p, v, s)'
    BY <1>h DEF Claims, OnHand
  <2>8. Claimants(v, s)' \subseteq Claimants(v, s) \ {p}
    BY <2>6, <2>7 DEF Claimants
  <2>9. CASE e \in Unclaimed(v, s)'
    <3>1. Claims(p, v, s)
      <4>1. <<v, s>> \notin handled /\ log[e].event = v /\ ~log[e].force
        BY <1>h, <2>1, <2>9 DEF Unclaimed, PlainOf
      <4>2. QED BY <1>h, <4>1 DEF Claims, EventOf, Forced
    <3>2. c1 <= c - 1
      BY <1>d, <2>8, <3>1 DEF Claimants
    <3>3. u1 <= u + 1
      BY <1>u, <2>4
    <3>4. QED BY <2>a, <2>5, <3>2, <3>3
  <2>10. CASE e \notin Unclaimed(v, s)'
    <3>1. u1 <= u
      BY <1>U, <2>4, <2>10
    <3>2. c1 <= c
      BY <1>C, <2>8
    <3>3. QED BY <2>a, <2>5, <3>1, <3>2
  <2>11. QED BY <2>9, <2>10
\* Process p has nothing in hand before, or nothing after, or a batch before.
<1>i. ASSUME NEW p \in Process, UNCHANGED log, run'[p].cur = run[p].cur
      PROVE  EventOf(p)' = EventOf(p) /\ Forced(p)' = Forced(p)
  BY <1>i DEF EventOf, Forced
<1> DEFINE Bal(b) == Balanced(b, d, u, q, c, f, n, m, d1, u1, q1, c1, f1, n1, m1)
<1>B. \A b \in Nat : Bal(b) => d1 + u1 + q1 + c1 <= n1 + f1 + m1
  BY <1>b
<1>r. ASSUME d1 = d, m <= m1, n <= n1, f <= f1, u1 <= u, q1 <= q, c1 <= c PROVE Bal(0)
  BY <1>r DEF Balanced
<1>D. UNCHANGED done => d1 = d
  BY <1>x, <1>y
<1>M. /\ UNCHANGED bounds => m1 = m
      /\ UNCHANGED <<crashes, slow>> /\ faults' = faults + 1 => m1 = m + 1
      /\ UNCHANGED <<crashes, faults>> /\ slow' = slow + 1 => m1 = m + 1
      /\ UNCHANGED <<faults, slow>> /\ crashes' = crashes + 1 => m1 = m + 1
  <2>1. crashes \in Nat /\ faults \in Nat /\ slow \in Nat
    BY DEF Tidy
  <2>2. m = crashes + faults + slow /\ m1 = crashes' + faults' + slow'
    BY <1>x, <1>y DEF Mishaps
  <2>3. QED BY <2>1, <2>2
<1> HIDE DEF Bal
\* Nobody moves.
<1>s. ASSUME UNCHANGED <<log, st, stale, run, handled, passes, done>>, m <= m1
      PROVE  \E b \in Nat : Bal(b)
  <2>1. n <= n1 /\ f <= f1 /\ PlainOf(v)' = PlainOf(v)
    BY <1>l, <1>s, <1>w
  <2>2. \A j \in Entry : Working(j)' <=> Working(j)
    BY <1>s DEF Working
  <2>3. PlainOf(v) \subseteq Entry
    BY DEF PlainOf, Written
  <2>4. u1 <= u
    BY <1>s, <1>U, <2>1, <2>2, <2>3 DEF Unclaimed, Loose
  <2>5. q1 <= q
    BY <1>s, <1>Q, <2>1 DEF Queued
  <2>6. c1 <= c
    <3>1. \A x \in Process : Claims(x, v, s)' => Claims(x, v, s)
      BY <1>s, <1>o
    <3>2. QED BY <1>C, <3>1 DEF Claimants
  <2>7. QED BY <1>D, <1>r, <1>s, <2>1, <2>4, <2>5, <2>6
\* An entry is written.
<1>1. ASSUME NEW w \in Event, NEW b \in BOOLEAN, HasRoom, Append(w, b),
             UNCHANGED <<run, handled, passes, done, bounds>>
      PROVE  \E z \in Nat : Bal(z)
  <2> DEFINE e == NextIndex
  <2>1. /\ e \in Entry \ Written /\ log' = [log EXCEPT ![e] = [event |-> w, force |-> b]]
        /\ st' = [st EXCEPT ![e] = "new"] /\ Written' = Written \cup {e}
        /\ UNCHANGED stale
    BY <1>1, AppendFacts DEF Append
  <2> HIDE DEF e
  <2>2. /\ \A j \in Entry \ {e} : log'[j] = log[j] /\ st'[j] = st[j]
        /\ log'[e].event = w /\ log'[e].force = b /\ \A j \in Written : log'[j] = log[j]
    BY <1>t, <2>1
  <2>3. /\ PlainOf(v) \subseteq PlainOf(v)' /\ PlainOf(v)' \subseteq PlainOf(v) \cup {e}
        /\ PlainOf(v) \subseteq Written /\ e \notin PlainOf(v)
    BY <2>1, <2>2 DEF PlainOf
  <2>4. f <= f1
    <3>1. ForcedDeliveriesOf(v) \subseteq ForcedDeliveriesOf(v)'
      BY <1>1, <2>1, <2>2 DEF ForcedDeliveriesOf
    <3>2. QED BY <1>F, <3>1
  <2>5. \A j \in Entry : Working(j)' <=> Working(j)
    BY <1>1 DEF Working
  <2>6. \A j \in Unclaimed(v, s)' : j # e => j \in Unclaimed(v, s)
    <3>1. ASSUME NEW j \in Unclaimed(v, s)', j # e PROVE j \in Unclaimed(v, s)
      <4>1. j \in PlainOf(v) /\ j \in Entry /\ <<v, s>> \notin handled /\ Loose(j)'
        BY <1>1, <1>t, <2>3, <3>1 DEF Unclaimed
      <4>2. Loose(j)
        BY <2>1, <2>2, <2>5, <3>1, <4>1 DEF Loose
      <4>3. QED BY <4>1, <4>2 DEF Unclaimed
    <3>2. QED BY <3>1
  <2>7. q1 <= q
    <3>1. ASSUME NEW x \in Queued(v, s)' PROVE x \in Queued(v, s)
      <4>1. /\ x \in Process \X Entry /\ x[2] \in run[x[1]].batch /\ <<v, s>> \notin handled
            /\ x[2] \in PlainOf(v)'
        BY <1>1 DEF Queued
      <4>2. x[2] \in Written
        BY <1>t, <4>1
      <4>3. x[2] \in PlainOf(v)
        BY <2>1, <2>3, <4>1, <4>2
      <4>4. QED BY <4>1, <4>3 DEF Queued
    <3>2. QED BY <1>Q, <3>1
  <2>8. c1 <= c
    <3>1. \A x \in Process : Claims(x, v, s)' => Claims(x, v, s)
      BY <1>1, <1>o, <2>2
    <3>2. QED BY <1>C, <3>1 DEF Claimants
  <2>9. CASE e \in PlainOf(v)'
    <3>1. n1 = n + 1
      <4>1. PlainOf(v)' = PlainOf(v) \cup {e}
        BY <2>3, <2>9
      <4>2. QED BY <1>f, <1>x, <1>y, <2>3, <4>1, FS_AddElement
    <3>2. u1 <= u + 1
      BY <1>u, <2>6
    <3>3. d1 = d /\ m1 = m
      BY <1>1, <1>D, <1>M
    <3>4. Bal(0)
      BY <2>4, <2>7, <2>8, <3>1, <3>2, <3>3 DEF Bal, Balanced
    <3>5. QED BY <3>4
  <2>10. CASE e \notin PlainOf(v)'
    <3>1. u1 <= u
      <4>1. Unclaimed(v, s)' \subseteq PlainOf(v)'
        BY DEF Unclaimed
      <4>2. QED BY <1>U, <2>6, <2>10, <4>1
    <3>2. d1 = d /\ m1 = m /\ n <= n1
      BY <1>1, <1>D, <1>M, <1>N, <2>3
    <3>3. QED BY <1>r, <2>4, <2>7, <2>8, <3>1, <3>2
  <2>11. QED BY <2>9, <2>10
\* The publisher.
<1>2. ASSUME NEW w \in Event, PublishStep(w) \/ Republish(w) PROVE \E z \in Nat : Bal(z)
  <2>1. CASE PublishStream(w)
    <3>1. FALSE \in BOOLEAN
      OBVIOUS
    <3>2. QED BY <1>1, <2>1, <3>1 DEF PublishStream
  <2>2. CASE Republish(w)
    <3>1. TRUE \in BOOLEAN
      OBVIOUS
    <3>2. QED BY <1>1, <2>2, <3>1 DEF Republish
  <2>3. CASE PublishFails(w)
    <3>1. m1 = m + 1
      BY <1>M, <2>3 DEF PublishFails
    <3>2. m <= m1
      BY <3>1
    <3>3. QED BY <1>s, <2>3, <3>2 DEF PublishFails
  <2>4. CASE PublishWorkflow(w) \/ PublishChannel(w)
    <3>1. UNCHANGED <<log, st, stale, run, handled, passes, done, bounds>>
      BY <2>4 DEF PublishWorkflow, PublishChannel
    <3>2. m <= m1
      BY <1>M, <3>1
    <3>3. QED BY <1>s, <3>1, <3>2
  <2>5. QED BY <1>2, <2>1, <2>2, <2>3, <2>4 DEF PublishStep
\* Process p takes the loose entries of b.
<1>3. ASSUME NEW p \in Process, NEW o, NEW b \in SUBSET Entry, At(p, "idle"), Take(p, b, o),
             \A i \in b : Loose(i) /\ st'[i] = "pending", \A i \in Entry \ b : st'[i] = st[i],
             UNCHANGED <<log, handled, passes, done, bounds>>
      PROVE  \E z \in Nat : Bal(z)
  <2> DEFINE B == {i \in b : i \in PlainOf(v) /\ <<v, s>> \notin handled}
  <2>1. /\ run[p] = Idle /\ run'[p].pc = "batch" /\ run'[p].batch = b
        /\ \A x \in Process \ {p} : run'[x] = run[x]
        /\ stale' = stale \ b
    BY <1>3, <1>t DEF Take, Tidy, Idle
  <2>2. Written' = Written
    <3>1. \A i \in Entry : st'[i] # "none" <=> st[i] # "none"
      BY <1>3 DEF Loose
    <3>2. QED BY <3>1 DEF Written
  <2>3. n <= n1 /\ f <= f1 /\ PlainOf(v)' = PlainOf(v) /\ PlainOf(v) \subseteq Entry
    BY <1>3, <1>l, <2>2 DEF PlainOf, Written
  <2>4. B \subseteq Unclaimed(v, s) /\ B \subseteq b
    BY <1>3 DEF Unclaimed
  <2>5. \A i \in b : ~Loose(i)'
    BY <1>3, <2>1 DEF Loose, Working
  <2>6. \A i \in Entry \ b : Working(i)' <=> Working(i)
    <3>1. run[p].batch = {} /\ run[p].pc = "idle" /\ run[p].cur = 0
      BY <2>1 DEF Idle
    <3>2. ASSUME NEW i \in Entry \ b PROVE Working(i)' <=> Working(i)
      <4>1. i # 0
        BY <1>t
      <4>2. ~(i \in run[p].batch \/ (run[p].pc # "batch" /\ run[p].cur = i))
        BY <3>1, <4>1
      <4>3. ~(i \in run'[p].batch \/ (run'[p].pc # "batch" /\ run'[p].cur = i))
        BY <2>1
      <4>4. QED BY <2>1, <4>2, <4>3 DEF Working
    <3>3. QED BY <3>2
  <2>7. Unclaimed(v, s)' \subseteq Unclaimed(v, s) \ B
    <3>1. ASSUME NEW i \in Unclaimed(v, s)' PROVE i \in Unclaimed(v, s) /\ i \notin b
      <4>1. i \in PlainOf(v) /\ i \in Entry /\ <<v, s>> \notin handled /\ Loose(i)'
        BY <1>3, <2>3 DEF Unclaimed
      <4>2. i \notin b
        BY <2>5, <4>1
      <4>3. Loose(i)
        BY <1>3, <2>1, <2>6, <4>1, <4>2 DEF Loose
      <4>4. QED BY <4>1, <4>2, <4>3 DEF Unclaimed
    <3>2. QED BY <3>1
  <2>8. Queued(v, s)' \subseteq Queued(v, s) \cup ({p} \X B)
    <3>1. ASSUME NEW x \in Queued(v, s)', x \notin {p} \X B PROVE x \in Queued(v, s)
      <4>1. /\ x \in Process \X Entry /\ <<v, s>> \notin handled /\ x[2] \in PlainOf(v)
            /\ x[2] \in run'[x[1]].batch
        BY <1>3, <2>3 DEF Queued
      <4>2. x[1] # p
        BY <2>1, <3>1, <4>1
      <4>3. QED BY <2>1, <4>1, <4>2 DEF Queued
    <3>2. QED BY <3>1
  <2>9. ~Claims(p, v, s)'
    BY <2>1 DEF Claims, OnHand
  <2>10. c1 <= c
    <3>1. \A x \in Process : Claims(x, v, s)' => Claims(x, v, s)
      BY <1>3, <1>o, <2>1, <2>9
    <3>2. QED BY <1>C, <3>1 DEF Claimants
  <2>11. d1 = d /\ m1 = m
    BY <1>3, <1>D, <1>M
  <2> HIDE DEF B
  <2>12. IsFiniteSet(B) /\ Cardinality(B) \in Nat
    BY <1>f, <2>4, FS_Subset, FS_CardinalityType
  <2>13. PICK z \in Nat : z = Cardinality(B)
    BY <2>12
  <2>14. u1 <= u - z
    BY <1>f, <1>x, <1>y, <2>4, <2>7, <2>13, TakenAway
  <2>15. q1 <= q + z
    <3>1. IsFiniteSet({p} \X B) /\ Cardinality({p} \X B) = z
      BY <2>12, <2>13, Paired
    <3>2. QED BY <1>f, <1>x, <1>y, <2>8, <3>1, PutOn
  <2>16. Bal(z)
    BY <2>3, <2>10, <2>11, <2>14, <2>15 DEF Bal, Balanced
  <2>17. QED BY <2>16
\* Process p takes the next entry of its batch.
<1>4. ASSUME NEW p \in Process, NextEntry(p) PROVE \E z \in Nat : Bal(z)
  <2>1. PICK i \in run[p].batch : i = Min(run[p].batch)
    <3>1. run[p].batch \in SUBSET Nat /\ run[p].batch # {}
      BY <1>4, <1>t, EntryFacts DEF NextEntry
    <3>2. PICK i \in run[p].batch : \A j \in run[p].batch : i <= j
      BY <3>1, OldestOf
    <3>3. Min(run[p].batch) \in run[p].batch
      BY <3>2 DEF Min
    <3>4. QED BY <3>3
  <2> DEFINE dl == i \in run[p].over
  <2>2. /\ run' = [run EXCEPT ![p].pc = IF dl THEN "dlCheck" ELSE "check",
                             ![p].batch = run[p].batch \ {i}, ![p].cur = i]
        /\ passes' = IF dl THEN passes ELSE [passes EXCEPT ![i] = passes[i] + 1]
        /\ UNCHANGED <<log, st, stale, handled, done, bounds>> /\ run[p].pc = "batch"
    BY <1>4, <2>1 DEF NextEntry
  <2>3. /\ run'[p].pc \in {"dlCheck", "check"} /\ (run'[p].pc = "check" => ~dl)
        /\ run'[p].batch = run[p].batch \ {i} /\ run'[p].cur = i
        /\ \A x \in Process \ {p} : run'[x] = run[x]
        /\ i \in Written /\ i \in Entry
    BY <1>t, <2>2 DEF RunType
  <2>4. Written' = Written /\ PlainOf(v)' = PlainOf(v) /\ PlainOf(v) \subseteq Entry
    BY <2>2 DEF PlainOf, Written
  <2>5. /\ passes' \in [Entry -> Nat] /\ \A j \in Entry \ {i} : passes'[j] = passes[j]
        /\ passes'[i] = IF dl THEN passes[i] ELSE passes[i] + 1
    BY <1>t, <2>2, <2>3
  <2>6. u1 <= u
    <3>1. \A j \in Entry : Working(j)' <=> Working(j)
      BY <2>2, <2>3 DEF Working
    <3>2. Unclaimed(v, s)' \subseteq Unclaimed(v, s)
      BY <2>2, <2>4, <3>1 DEF Unclaimed, Loose
    <3>3. QED BY <1>U, <3>2
  <2>7. Queued(v, s)' \subseteq Queued(v, s) \ {<<p, i>>}
    <3>1. ASSUME NEW x \in Queued(v, s)' PROVE x \in Queued(v, s) /\ x # <<p, i>>
      <4>1. /\ x \in Process \X Entry /\ <<v, s>> \notin handled /\ x[2] \in PlainOf(v)
            /\ x[2] \in run'[x[1]].batch
        BY <2>2, <2>4 DEF Queued
      <4>2. CASE x[1] = p
        <5>1. x[2] \in run[p].batch /\ x[2] # i
          BY <2>3, <4>1, <4>2
        <5>2. QED BY <4>1, <4>2, <5>1 DEF Queued
      <4>3. CASE x[1] # p
        <5>1. x[2] \in run[x[1]].batch
          BY <2>3, <4>1, <4>3
        <5>2. QED BY <4>1, <4>3, <5>1 DEF Queued
      <4>4. QED BY <4>2, <4>3
    <3>2. QED BY <3>1
  <2>8. n <= n1
    BY <1>N, <2>4
  <2>9. /\ ForcedDeliveriesOf(v) \subseteq ForcedDeliveriesOf(v)' /\ f <= f1
    <3>1. \A j \in Entry : 1 .. passes[j] \subseteq 1 .. passes'[j]
      BY <1>t, <2>5
    <3>2. ForcedDeliveriesOf(v) \subseteq ForcedDeliveriesOf(v)'
      BY <1>t, <2>2, <2>4, <3>1 DEF ForcedDeliveriesOf
    <3>3. QED BY <1>F, <3>2
  <2>10. \A x \in Process \ {p} : Claims(x, v, s)' => Claims(x, v, s)
    BY <1>o, <2>2, <2>3
  <2>11. d1 = d /\ m1 = m
    BY <1>D, <1>M, <2>2
  <2>12. Claimants(v, s)' \subseteq Claimants(v, s) \cup {p} /\ c1 <= c + 1
    <3>1. Claimants(v, s)' \subseteq Claimants(v, s) \cup {p}
      BY <2>10 DEF Claimants
    <3>2. QED BY <1>c, <3>1
  <2>13. q1 <= q
    BY <1>Q, <2>7
  <2>14. CASE ~Claims(p, v, s)'
    <3>1. c1 <= c
      BY <1>C, <2>10, <2>14 DEF Claimants
    <3>2. QED BY <1>r, <2>6, <2>8, <2>9, <2>11, <2>13, <3>1
  <2>15. CASE Claims(p, v, s)' /\ ~log[i].force
    <3>1. log[i].event = v
      BY <2>2, <2>3, <2>15 DEF Claims, EventOf
    <3>2. ~Forced(p)' /\ run'[p].pc \notin {"run", "mark"}
      BY <2>2, <2>3, <2>15 DEF Forced
    <3>3. <<v, s>> \notin handled
      BY <2>2, <2>15, <3>2 DEF Claims
    <3>4. <<p, i>> \in Queued(v, s)
      BY <2>3, <2>15, <3>1, <3>3 DEF Queued, PlainOf
    <3>5. q1 <= q - 1
      <4>1. IsFiniteSet(Queued(v, s) \ {<<p, i>>}) /\ Cardinality(Queued(v, s) \ {<<p, i>>}) = q - 1
        BY <1>f, <1>x, <3>4, FS_RemoveElement
      <4>2. QED BY <1>y, <2>7, <4>1, FS_Subset
    <3>6. Bal(0)
      BY <2>6, <2>8, <2>9, <2>11, <2>12, <3>5 DEF Bal, Balanced
    <3>7. QED BY <3>6
  <2>16. CASE Claims(p, v, s)' /\ log[i].force
    <3>1. log[i].event = v
      BY <2>2, <2>3, <2>16 DEF Claims, EventOf
    <3>2. Forced(p)' /\ run'[p].pc = "check"
      BY <2>2, <2>3, <2>16 DEF Forced, Claims, MayRun
    <3>3. passes'[i] = passes[i] + 1
      BY <2>3, <2>5, <3>2
    <3> DEFINE y == <<i, passes[i] + 1>>
    <3>4. y \notin ForcedDeliveriesOf(v)
      BY <1>t, <2>3 DEF ForcedDeliveriesOf
    <3>5. y \in ForcedDeliveriesOf(v)'
      <4>1. passes[i] + 1 \in 1 .. passes'[i]
        BY <1>t, <2>3, <3>3
      <4>2. i \in {j \in Written : log[j].event = v /\ log[j].force}'
        BY <2>2, <2>3, <2>4, <2>16, <3>1
      <4>3. QED BY <4>1, <4>2 DEF ForcedDeliveriesOf
    <3> HIDE DEF y
    <3>6. f + 1 <= f1
      <4>1. /\ IsFiniteSet(ForcedDeliveriesOf(v) \cup {y})
            /\ Cardinality(ForcedDeliveriesOf(v) \cup {y}) = f + 1
        BY <1>f, <1>x, <3>4, FS_AddElement
      <4>2. ForcedDeliveriesOf(v) \cup {y} \subseteq ForcedDeliveriesOf(v)'
        BY <2>9, <3>5
      <4>3. QED BY <1>f, <1>y, <4>1, <4>2, FS_Subset
    <3>7. Bal(0)
      BY <2>6, <2>8, <2>9, <2>11, <2>12, <2>13, <3>6 DEF Bal, Balanced
    <3>8. QED BY <3>7
  <2>17. QED BY <2>14, <2>15, <2>16
\* Process p goes on with the entry in hand and no mishap happens.
<1>5. ASSUME NEW p \in Process, NEW r \in RunType, run' = [run EXCEPT ![p] = r],
             r.batch = run[p].batch, r.cur = run[p].cur,
             OnHand(p), r.pc \notin {"idle", "batch"},
             UNCHANGED <<log, st, stale, passes, done>>, handled \subseteq handled', m <= m1,
             Claims(p, v, s)' => Claims(p, v, s)
      PROVE  \E z \in Nat : Bal(z)
  <2>1. run'[p] = r /\ \A x \in Process \ {p} : run'[x] = run[x]
    BY <1>5, <1>t
  <2>2. u1 <= u /\ q1 <= q /\ n <= n1 /\ f <= f1 /\ c1 <= c
    BY <1>5, <1>g, <2>1
  <2>3. QED BY <1>5, <1>D, <1>r, <2>2
\* Process p lets go of the entry in hand.
<1>6. ASSUME NEW p \in Process, run' = [run EXCEPT ![p].pc = "batch"],
             OnHand(p), run[p].pc # "mark",
             UNCHANGED <<log, passes, handled, done>>, stale' \subseteq stale,
             Written' = Written, m <= m1,
             \A i \in Entry : st'[i] = "acked" \/ st'[i] = st[i]
      PROVE  \E z \in Nat : Bal(z)
  <2>1. /\ run'[p].pc = "batch" /\ run'[p].batch = run[p].batch
        /\ \A x \in Process \ {p} : run'[x] = run[x]
    BY <1>6, <1>t DEF RunType
  <2>2. /\ q1 <= q /\ n <= n1 /\ f <= f1
        /\ (u1 <= u /\ c1 <= c) \/ (u1 <= u + 1 /\ c1 <= c - 1)
    BY <1>6, <1>h, <2>1
  <2>3. d1 = d
    BY <1>6, <1>D
  <2>4. Bal(0)
    BY <1>6, <2>2, <2>3 DEF Bal, Balanced
  <2>5. QED BY <2>4
\* The steps of the loop over an entry.
<1>7. ASSUME NEW p \in Process, CheckEvent(p) PROVE \E z \in Nat : Bal(z)
  <2>1. /\ run[p].pc = "check" /\ m <= m1
        /\ UNCHANGED <<log, st, stale, passes, done, handled>>
    BY <1>7, <1>M DEF CheckEvent
  <2>2. OnHand(p) /\ MayRun(p, s)
    BY <2>1 DEF OnHand, MayRun
  <2>3. CASE ~Forced(p) /\ EventOf(p) \in processed
    <3> DEFINE r == [run[p] EXCEPT !.pc = "ack"]
    <3>1. run' = [run EXCEPT ![p] = r] /\ r \in RunType
          /\ r.batch = run[p].batch /\ r.cur = run[p].cur /\ r.pc = "ack"
      BY <1>7, <1>t, <2>3 DEF CheckEvent, RunType, Locations
    <3>2. run'[p].cur = run[p].cur
      BY <1>t, <3>1
    <3>3. run'[p] = r /\ EventOf(p)' = EventOf(p) /\ Forced(p)' = Forced(p)
      BY <1>i, <1>t, <2>1, <3>1, <3>2
    <3> HIDE DEF r
    <3>4. Claims(p, v, s)' => Claims(p, v, s)
      BY <2>1, <2>2, <3>1, <3>3 DEF Claims
    <3>5. QED BY <1>5, <2>1, <2>2, <3>1, <3>4
  <2>4. CASE ~(~Forced(p) /\ EventOf(p) \in processed)
    <3> DEFINE r == [run[p] EXCEPT !.pc = "sub", !.todo = Sub, !.bad = FALSE]
    <3>1. run' = [run EXCEPT ![p] = r] /\ r \in RunType
          /\ r.batch = run[p].batch /\ r.cur = run[p].cur /\ r.pc = "sub"
      BY <1>7, <1>t, <2>4 DEF CheckEvent, RunType, Locations
    <3>2. run'[p].cur = run[p].cur
      BY <1>t, <3>1
    <3>3. run'[p] = r /\ EventOf(p)' = EventOf(p) /\ Forced(p)' = Forced(p)
      BY <1>i, <1>t, <2>1, <3>1, <3>2
    <3> HIDE DEF r
    <3>4. Claims(p, v, s)' => Claims(p, v, s)
      BY <2>1, <2>2, <3>1, <3>3 DEF Claims
    <3>5. QED BY <1>5, <2>1, <2>2, <3>1, <3>4
  <2>5. QED BY <2>3, <2>4
<1>8. ASSUME NEW p \in Process, NEW h \in Sub, NextHandler(p, h) PROVE \E z \in Nat : Bal(z)
  <2>1. /\ run[p].pc = "sub" /\ h \in run[p].todo /\ m <= m1
        /\ UNCHANGED <<log, st, stale, passes, done, handled>> /\ OnHand(p)
    BY <1>8, <1>M DEF NextHandler, OnHand
  <2>2. CASE SkipHandled(p, h)
    <3> DEFINE r == [run[p] EXCEPT !.todo = run[p].todo \ {h}]
    <3>1. run' = [run EXCEPT ![p] = r] /\ r \in RunType
          /\ r.batch = run[p].batch /\ r.cur = run[p].cur /\ r.pc = "sub"
          /\ r.todo = run[p].todo \ {h}
      BY <1>8, <1>t, <2>1, <2>2 DEF NextHandler, RunType
    <3>2. run'[p] = r
      BY <1>t, <3>1
    <3> HIDE DEF r
    <3>3. EventOf(p)' = EventOf(p) /\ Forced(p)' = Forced(p)
      BY <1>i, <2>1, <3>1, <3>2
    <3>4. MayRun(p, s)' => MayRun(p, s)
      BY <2>1, <3>1, <3>2 DEF MayRun
    <3>5. Claims(p, v, s)' => Claims(p, v, s)
      BY <2>1, <3>1, <3>2, <3>3, <3>4 DEF Claims
    <3>6. QED BY <1>5, <2>1, <3>1, <3>5
  <2>3. CASE ~SkipHandled(p, h)
    <3> DEFINE r == [run[p] EXCEPT !.todo = run[p].todo \ {h}, !.pc = "run", !.sub = h]
    <3>1. run' = [run EXCEPT ![p] = r] /\ r \in RunType
          /\ r.batch = run[p].batch /\ r.cur = run[p].cur /\ r.pc = "run"
          /\ r.todo = run[p].todo \ {h} /\ r.sub = h
      BY <1>8, <1>t, <2>1, <2>3 DEF NextHandler, RunType, Locations
    <3>2. run'[p] = r
      BY <1>t, <3>1
    <3> HIDE DEF r
    <3>3. EventOf(p)' = EventOf(p) /\ Forced(p)' = Forced(p)
      BY <1>i, <2>1, <3>1, <3>2
    <3>4. MayRun(p, s)' => MayRun(p, s)
      BY <2>1, <3>1, <3>2 DEF MayRun
    <3>5. ~Forced(p) /\ EventOf(p) = v /\ <<v, s>> \in handled => h # s
      BY <2>3 DEF SkipHandled
    <3>6. Claims(p, v, s)' => Claims(p, v, s)
      BY <2>1, <3>1, <3>2, <3>3, <3>4, <3>5 DEF Claims
    <3>7. QED BY <1>5, <2>1, <3>1, <3>6
  <2>4. QED BY <2>2, <2>3
\* A handler succeeds: the run that was claimed is made.
<1>9. ASSUME NEW p \in Process, HandlerSucceeds(p) PROVE \E z \in Nat : Bal(z)
  <2> DEFINE h == run[p].sub
             r == [run[p] EXCEPT !.pc = "mark"]
  <2>1. /\ run[p].pc = "run" /\ m1 = m /\ h \in Sub /\ h \notin run[p].todo
        /\ EventOf(p) \in Event
        /\ UNCHANGED <<log, st, stale, passes, handled>> /\ OnHand(p)
    BY <1>9, <1>M, <1>t DEF HandlerSucceeds, OnHand, WorkInv, Work, Tidy, EventOf
  <2>2. run' = [run EXCEPT ![p] = r] /\ r \in RunType
        /\ r.batch = run[p].batch /\ r.cur = run[p].cur /\ r.pc = "mark"
        /\ r.todo = run[p].todo /\ r.sub = h
    BY <1>9, <1>t DEF HandlerSucceeds, RunType, Locations
  <2>3. run'[p] = r /\ \A x \in Process \ {p} : run'[x] = run[x]
    BY <1>t, <2>2
  <2> HIDE DEF r
  <2>4. EventOf(p)' = EventOf(p) /\ Forced(p)' = Forced(p)
    BY <1>i, <2>1, <2>2, <2>3
  <2>5. done' = [done EXCEPT ![EventOf(p)] = [done[EventOf(p)] EXCEPT ![h] = done[EventOf(p)][h] + 1]]
    BY <1>9 DEF HandlerSucceeds
  <2>6. /\ u1 <= u /\ q1 <= q /\ n <= n1 /\ f <= f1
        /\ Claims(p, v, s) \/ ~Claims(p, v, s)' => c1 <= c
        /\ Claims(p, v, s) /\ ~Claims(p, v, s)' => c1 <= c - 1
    BY <1>g, <2>1, <2>2, <2>3
  <2>7. CASE EventOf(p) = v /\ h = s
    <3>1. d1 = d + 1
      BY <1>t, <1>x, <1>y, <2>5, <2>7
    <3>2. Claims(p, v, s)
      BY <2>1, <2>7 DEF Claims, MayRun
    <3>3. ~Claims(p, v, s)'
      BY <2>1, <2>2, <2>3, <2>7 DEF Claims, MayRun
    <3>4. Bal(0)
      BY <2>1, <2>6, <3>1, <3>2, <3>3 DEF Bal, Balanced
    <3>5. QED BY <3>4
  <2>8. CASE ~(EventOf(p) = v /\ h = s)
    <3>1. d1 = d
      BY <1>t, <1>x, <1>y, <2>1, <2>5, <2>8
    <3>2. MayRun(p, s)' => MayRun(p, s)
      BY <2>1, <2>2, <2>3 DEF MayRun
    <3>3. Claims(p, v, s)' => Claims(p, v, s)
      BY <2>1, <2>2, <2>3, <2>4, <2>8, <3>2 DEF Claims
    <3>4. c1 <= c
      BY <2>6, <3>3
    <3>5. QED BY <1>r, <2>1, <2>6, <3>1, <3>4
  <2>9. QED BY <2>7, <2>8
<1>10. ASSUME NEW p \in Process, HandlerThrows(p) PROVE \E z \in Nat : Bal(z)
  <2> DEFINE r == [run[p] EXCEPT !.pc = "sub", !.bad = TRUE]
  <2>1. /\ run[p].pc = "run" /\ m <= m1
        /\ UNCHANGED <<log, st, stale, passes, done, handled>> /\ OnHand(p)
    BY <1>10, <1>M DEF HandlerThrows, OnHand
  <2>2. run' = [run EXCEPT ![p] = r] /\ r \in RunType
        /\ r.batch = run[p].batch /\ r.cur = run[p].cur /\ r.pc = "sub"
        /\ r.todo = run[p].todo
    BY <1>10, <1>t DEF HandlerThrows, RunType, Locations
  <2>3. run'[p] = r
    BY <1>t, <2>2
  <2> HIDE DEF r
  <2>4. EventOf(p)' = EventOf(p) /\ Forced(p)' = Forced(p)
    BY <1>i, <2>1, <2>2, <2>3
  <2>5. MayRun(p, s)' => MayRun(p, s)
    BY <2>1, <2>2, <2>3 DEF MayRun
  <2>6. Claims(p, v, s)' => Claims(p, v, s)
    BY <2>1, <2>2, <2>3, <2>4, <2>5 DEF Claims
  <2>7. QED BY <1>5, <2>1, <2>2, <2>6
<1>11. ASSUME NEW p \in Process, MarkHandler(p) PROVE \E z \in Nat : Bal(z)
  <2> DEFINE r == [run[p] EXCEPT !.pc = "sub"]
             h == run[p].sub
  <2>1. /\ run[p].pc = "mark" /\ m <= m1
        /\ UNCHANGED <<log, st, stale, passes, done>> /\ OnHand(p)
        /\ handled' = handled \cup {<<EventOf(p), h>>}
    BY <1>11, <1>M DEF MarkHandler, OnHand
  <2>2. run' = [run EXCEPT ![p] = r] /\ r \in RunType
        /\ r.batch = run[p].batch /\ r.cur = run[p].cur /\ r.pc = "sub"
        /\ r.todo = run[p].todo
    BY <1>11, <1>t DEF MarkHandler, RunType, Locations
  <2>3. run'[p] = r
    BY <1>t, <2>2
  <2> HIDE DEF r
  <2>4. EventOf(p)' = EventOf(p) /\ Forced(p)' = Forced(p)
    BY <1>i, <2>1, <2>2, <2>3
  <2>5. MayRun(p, s)' => MayRun(p, s)
    BY <2>1, <2>2, <2>3 DEF MayRun
  <2>6. handled \subseteq handled' /\ <<EventOf(p), h>> \in handled'
    BY <2>1
  <2>7. Claims(p, v, s)' => Claims(p, v, s)
    BY <2>1, <2>2, <2>3, <2>4, <2>5, <2>6 DEF Claims
  <2>8. QED BY <1>5, <2>1, <2>2, <2>6, <2>7
\* Process p goes on to where no run is to come but those to come before.
<1>12. ASSUME NEW p \in Process, NEW l \in Locations \ {"idle", "batch", "check", "sub", "run"},
              run' = [run EXCEPT ![p].pc = l], OnHand(p), run[p].pc # "mark",
              UNCHANGED <<log, st, stale, passes, done, handled, bounds>>,
              l # "mark"
       PROVE  \E z \in Nat : Bal(z)
  <2> DEFINE r == [run[p] EXCEPT !.pc = l]
  <2>1. run' = [run EXCEPT ![p] = r] /\ r \in RunType
        /\ r.batch = run[p].batch /\ r.cur = run[p].cur /\ r.pc = l
    BY <1>12, <1>t DEF RunType
  <2>2. run'[p] = r
    BY <1>t, <2>1
  <2> HIDE DEF r
  <2>3. EventOf(p)' = EventOf(p) /\ Forced(p)' = Forced(p)
    BY <1>12, <1>i, <2>1, <2>2
  <2>4. Claims(p, v, s)' => Claims(p, v, s)
    BY <1>12, <2>1, <2>2, <2>3 DEF Claims, MayRun
  <2>5. m <= m1
    BY <1>12, <1>M
  <2>6. QED BY <1>5, <1>12, <2>1, <2>4, <2>5
<1>13. ASSUME NEW p \in Process,
              HandlersDone(p) \/ MarkEvent(p) \/ DeadLetterCheck(p) \/ DeadLetterAdd(p)
              \/ DeadLetterMark(p)
       PROVE  \E z \in Nat : Bal(z)
  <2>1. /\ UNCHANGED <<log, st, stale, passes, done, handled, bounds>>
        /\ OnHand(p) /\ run[p].pc # "mark"
    BY <1>13 DEF HandlersDone, MarkEvent, DeadLetterCheck, DeadLetterAdd, DeadLetterMark, OnHand
  <2>2. CASE run' = [run EXCEPT ![p].pc = "batch"]
    <3>1. m <= m1
      BY <1>M, <2>1
    <3>2. Written' = Written /\ stale' \subseteq stale /\ \A i \in Entry : st'[i] = st[i]
      BY <1>w, <2>1
    <3>3. QED BY <1>6, <2>1, <2>2, <3>1, <3>2
  <2>3. ASSUME NEW l \in {"ack", "markEvent", "dlAck", "dlAdd", "dlMark"},
               run' = [run EXCEPT ![p].pc = l]
        PROVE  \E z \in Nat : Bal(z)
    <3>1. l \in Locations \ {"idle", "batch", "check", "sub", "run"} /\ l # "mark"
      BY DEF Locations
    <3>2. QED BY <1>12, <2>1, <2>3, <3>1
  <2>4. CASE HandlersDone(p)
    <3>1. CASE run[p].bad
      BY <2>2, <2>4, <3>1 DEF HandlersDone
    <3>2. CASE ~run[p].bad /\ Forced(p)
      BY <2>3, <2>4, <3>2 DEF HandlersDone
    <3>3. CASE ~run[p].bad /\ ~Forced(p)
      BY <2>3, <2>4, <3>3 DEF HandlersDone
    <3>4. QED BY <3>1, <3>2, <3>3
  <2>5. CASE DeadLetterCheck(p)
    <3>1. CASE run[p].cur \in marker
      BY <2>3, <2>5, <3>1 DEF DeadLetterCheck
    <3>2. CASE run[p].cur \notin marker
      BY <2>3, <2>5, <3>2 DEF DeadLetterCheck
    <3>3. QED BY <3>1, <3>2
  <2>6. CASE MarkEvent(p) \/ DeadLetterAdd(p) \/ DeadLetterMark(p)
    BY <2>3, <2>6 DEF MarkEvent, DeadLetterAdd, DeadLetterMark
  <2>7. QED BY <1>13, <2>4, <2>5, <2>6
<1>14. ASSUME NEW p \in Process, Ack(p) PROVE \E z \in Nat : Bal(z)
  <2>1. /\ UNCHANGED <<log, passes, done, handled, bounds>>
        /\ OnHand(p) /\ run[p].pc # "mark" /\ stale' \subseteq stale
        /\ run' = [run EXCEPT ![p].pc = "batch"]
        /\ st' = [st EXCEPT ![run[p].cur] = "acked"]
    BY <1>14 DEF Ack, OnHand
  <2>2. run[p].cur \in Written /\ run[p].cur \in Entry
    BY <1>t, <2>1
  <2>3. \A i \in Entry : st'[i] = "acked" \/ st'[i] = st[i]
    BY <1>t, <2>1, <2>2
  <2>4. Written' = Written
    BY <1>t, <2>1, <2>2 DEF Written
  <2>5. m <= m1
    BY <1>M, <2>1
  <2>6. QED BY <1>6, <2>1, <2>3, <2>4, <2>5
<1>15. ASSUME NEW p \in Process, BatchDone(p) PROVE \E z \in Nat : Bal(z)
  <2>1. /\ UNCHANGED <<log, st, stale, passes, done, handled, bounds>>
        /\ run[p].pc = "batch" /\ run[p].batch = {}
        /\ run'[p] = Idle /\ \A x \in Process \ {p} : run'[x] = run[x]
    BY <1>15, <1>t DEF BatchDone
  <2>2. run'[p].pc = "idle" /\ run'[p].batch = {} /\ run'[p].cur = 0
    BY <2>1 DEF Idle
  <2>3. n <= n1 /\ f <= f1 /\ PlainOf(v)' = PlainOf(v) /\ PlainOf(v) \subseteq Entry
    BY <1>l, <1>w, <2>1 DEF PlainOf, Written
  <2>4. \A i \in Entry : Working(i)' <=> Working(i)
    <3>1. ASSUME NEW i \in Entry PROVE Working(i)' <=> Working(i)
      <4>1. i # 0
        BY <1>t
      <4>2. QED BY <2>1, <2>2, <4>1 DEF Working
    <3>2. QED BY <3>1
  <2>5. u1 <= u
    BY <1>U, <2>1, <2>3, <2>4 DEF Unclaimed, Loose
  <2>6. q1 <= q
    <3>1. \A x \in Process : run'[x].batch = run[x].batch
      BY <2>1, <2>2
    <3>2. QED BY <1>Q, <2>1, <2>3, <3>1 DEF Queued
  <2>7. c1 <= c
    <3>1. \A x \in Process \ {p} : Claims(x, v, s)' => Claims(x, v, s)
      BY <1>o, <2>1
    <3>2. ~Claims(p, v, s)'
      BY <2>2 DEF Claims, OnHand
    <3>3. QED BY <1>C, <3>1, <3>2 DEF Claimants
  <2>8. d1 = d /\ m <= m1
    BY <1>D, <1>M, <2>1
  <2>9. QED BY <1>r, <2>3, <2>5, <2>6, <2>7, <2>8
\* The mishaps.
<1>16. ASSUME NEW p \in Process, RedisFails(p) PROVE \E z \in Nat : Bal(z)
  <2>1. /\ UNCHANGED <<log, st, stale, passes, done, handled>> /\ m1 = m + 1
    BY <1>16, <1>M DEF RedisFails
  <2>2. m <= m1
    BY <2>1
  <2>3. CASE /\ run[p].pc \in {"check", "markEvent", "ack", "dlCheck", "dlAdd", "dlMark", "dlAck"}
             /\ run' = [run EXCEPT ![p].pc = "batch"]
    <3>1. Written' = Written /\ stale' \subseteq stale /\ \A i \in Entry : st'[i] = st[i]
      BY <1>w, <2>1
    <3>2. OnHand(p) /\ run[p].pc # "mark"
      BY <2>3 DEF OnHand
    <3>3. QED BY <1>6, <2>1, <2>2, <2>3, <3>1, <3>2
  <2>4. CASE /\ run[p].pc = "mark"
             /\ run' = [run EXCEPT ![p] = [run[p] EXCEPT !.pc = "sub", !.bad = TRUE]]
    <3>1. /\ run'[p].batch = run[p].batch /\ run'[p].cur = run[p].cur /\ run'[p].pc = "sub"
          /\ \A x \in Process \ {p} : run'[x] = run[x]
      BY <1>t, <2>4 DEF RunType
    <3>2. OnHand(p)
      BY <2>4 DEF OnHand
    <3>3. u1 <= u /\ q1 <= q /\ n <= n1 /\ f <= f1 /\ c1 <= c + 1
      BY <1>g, <2>1, <3>1, <3>2
    <3>4. d1 = d
      BY <1>D, <2>1
    <3>5. Bal(0)
      BY <2>1, <3>3, <3>4 DEF Bal, Balanced
    <3>6. QED BY <3>5
  <2>5. ASSUME NEW h \in run[p].todo, run[p].pc = "sub",
               run' = [run EXCEPT ![p].todo = run[p].todo \ {h}, ![p].bad = TRUE]
        PROVE  \E z \in Nat : Bal(z)
    <3> DEFINE r == [run[p] EXCEPT !.todo = run[p].todo \ {h}, !.bad = TRUE]
    <3>1. run' = [run EXCEPT ![p] = r] /\ r \in RunType
          /\ r.batch = run[p].batch /\ r.cur = run[p].cur /\ r.pc = "sub"
          /\ r.todo = run[p].todo \ {h}
      BY <1>t, <2>5 DEF RunType
    <3>2. run'[p] = r
      BY <1>t, <3>1
    <3> HIDE DEF r
    <3>3. EventOf(p)' = EventOf(p) /\ Forced(p)' = Forced(p)
      BY <1>i, <2>1, <3>1, <3>2
    <3>4. OnHand(p) /\ (MayRun(p, s)' => MayRun(p, s))
      BY <2>5, <3>1, <3>2 DEF MayRun, OnHand
    <3>5. Claims(p, v, s)' => Claims(p, v, s)
      BY <2>1, <2>5, <3>1, <3>2, <3>3, <3>4 DEF Claims
    <3>6. QED BY <1>5, <2>1, <2>2, <3>1, <3>4, <3>5
  <2>6. QED
    <3>1. CASE /\ run[p].pc = "sub"
               /\ \E h \in run[p].todo :
                    run' = [run EXCEPT ![p].todo = run[p].todo \ {h}, ![p].bad = TRUE]
      BY <2>5, <3>1
    <3>2. QED BY <1>16, <2>3, <2>4, <3>1 DEF RedisFails
<1>17. ASSUME NEW p \in Process, Crash(p) PROVE \E z \in Nat : Bal(z)
  <2> DEFINE B == {i \in run[p].batch : i \in PlainOf(v) /\ <<v, s>> \notin handled}
             e == run[p].cur
  <2>1. /\ UNCHANGED <<log, st, stale, passes, done, handled>> /\ m1 = m + 1
        /\ run'[p] = Idle /\ \A x \in Process \ {p} : run'[x] = run[x]
    BY <1>17, <1>t, <1>M DEF Crash
  <2>2. run'[p].pc = "idle" /\ run'[p].batch = {} /\ run'[p].cur = 0
    BY <2>1 DEF Idle
  <2>3. n <= n1 /\ f <= f1 /\ PlainOf(v)' = PlainOf(v) /\ PlainOf(v) \subseteq Entry
    BY <1>l, <1>w, <2>1 DEF PlainOf, Written
  <2>4. \A i \in Entry : i # e /\ i \notin run[p].batch /\ Working(i) => Working(i)'
    BY <2>1, <2>2 DEF Working
  <2>5. Unclaimed(v, s)' \subseteq Unclaimed(v, s) \cup (B \cup {e})
    <3>1. ASSUME NEW i \in Unclaimed(v, s)', i \notin B, i # e PROVE i \in Unclaimed(v, s)
      <4>1. i \in PlainOf(v) /\ i \in Entry /\ <<v, s>> \notin handled /\ Loose(i)'
        BY <2>1, <2>3 DEF Unclaimed
      <4>2. i \notin run[p].batch
        BY <3>1, <4>1
      <4>3. Loose(i)
        BY <2>1, <2>4, <3>1, <4>1, <4>2 DEF Loose
      <4>4. QED BY <4>1, <4>3 DEF Unclaimed
    <3>2. QED BY <3>1
  <2>6. Queued(v, s)' \subseteq Queued(v, s) \ ({p} \X B)
    <3>1. ASSUME NEW x \in Queued(v, s)' PROVE x \in Queued(v, s) /\ x \notin {p} \X B
      <4>1. /\ x \in Process \X Entry /\ <<v, s>> \notin handled /\ x[2] \in PlainOf(v)
            /\ x[2] \in run'[x[1]].batch
        BY <2>1, <2>3 DEF Queued
      <4>2. x[1] # p
        BY <2>2, <4>1
      <4>3. QED BY <2>1, <4>1, <4>2 DEF Queued
    <3>2. QED BY <3>1
  <2>7. {p} \X B \subseteq Queued(v, s)
    BY <2>3 DEF Queued
  <2>8. c1 <= c
    <3>1. \A x \in Process \ {p} : Claims(x, v, s)' => Claims(x, v, s)
      BY <1>o, <2>1
    <3>2. ~Claims(p, v, s)'
      BY <2>2 DEF Claims, OnHand
    <3>3. QED BY <1>C, <3>1, <3>2 DEF Claimants
  <2>9. d1 = d
    BY <1>D, <2>1
  <2>10. IsFiniteSet(B)
    <3>1. B \subseteq PlainOf(v)
      OBVIOUS
    <3>2. QED BY <1>f, <3>1, FS_Subset
  <2> HIDE DEF B, e
  <2>11. PICK z \in Nat : z = Cardinality(B)
    BY <2>10, FS_CardinalityType
  <2>12. u1 <= u + z + 1
    <3>1. IsFiniteSet(B \cup {e}) /\ Cardinality(B \cup {e}) \in {z, z + 1}
      BY <2>10, <2>11, FS_AddElement
    <3>2. u1 <= u + Cardinality(B \cup {e})
      BY <1>f, <1>x, <1>y, <2>5, <3>1, PutOn
    <3>3. QED BY <3>1, <3>2
  <2>13. q1 <= q - z
    <3>1. Cardinality({p} \X B) = z
      BY <2>10, <2>11, Paired
    <3>2. q1 <= q - Cardinality({p} \X B)
      BY <1>f, <1>x, <1>y, <2>6, <2>7, TakenAway
    <3>3. QED BY <3>1, <3>2
  <2>14. Bal(z)
    BY <2>1, <2>3, <2>8, <2>9, <2>12, <2>13 DEF Bal, Balanced
  <2>15. QED BY <2>14
<1>18. ASSUME NEW i \in Entry, GoStale(i) PROVE \E z \in Nat : Bal(z)
  <2>1. /\ UNCHANGED <<log, st, run, passes, done, handled>> /\ stale' = stale \cup {i}
        /\ st[i] = "pending"
    BY <1>18 DEF GoStale
  <2>2. n <= n1 /\ f <= f1 /\ PlainOf(v)' = PlainOf(v) /\ PlainOf(v) \subseteq Entry
    BY <1>l, <1>w, <2>1 DEF PlainOf, Written
  <2>3. \A j \in Entry : Working(j)' <=> Working(j)
    BY <2>1 DEF Working
  <2>4. \A j \in Unclaimed(v, s)' : j # i \/ ~Working(i) => j \in Unclaimed(v, s)
    <3>1. ASSUME NEW j \in Unclaimed(v, s)', j # i \/ ~Working(i) PROVE j \in Unclaimed(v, s)
      <4>1. j \in PlainOf(v) /\ j \in Entry /\ <<v, s>> \notin handled /\ Loose(j)'
        BY <2>1, <2>2 DEF Unclaimed
      <4>2. Loose(j)
        BY <2>1, <2>3, <3>1, <4>1 DEF Loose
      <4>3. QED BY <4>1, <4>2 DEF Unclaimed
    <3>2. QED BY <3>1
  <2>5. q1 <= q
    BY <1>Q, <2>1, <2>2 DEF Queued
  <2>6. c1 <= c
    <3>1. \A x \in Process : Claims(x, v, s)' => Claims(x, v, s)
      BY <1>o, <2>1
    <3>2. QED BY <1>C, <3>1 DEF Claimants
  <2>7. d1 = d
    BY <1>D, <2>1
  <2>8. CASE Working(i)
    <3>1. m1 = m + 1
      BY <1>18, <1>M, <2>8 DEF GoStale
    <3>2. u1 <= u + 1
      BY <1>u, <2>4
    <3>3. Bal(0)
      BY <2>2, <2>5, <2>6, <2>7, <3>1, <3>2 DEF Bal, Balanced
    <3>4. QED BY <3>3
  <2>9. CASE ~Working(i)
    <3>1. UNCHANGED bounds
      BY <1>18, <2>9 DEF GoStale
    <3>2. m <= m1
      BY <1>M, <3>1
    <3>3. u1 <= u
      BY <1>U, <2>4, <2>9
    <3>4. QED BY <1>r, <2>2, <2>5, <2>6, <2>7, <3>2, <3>3
  <2>10. QED BY <2>8, <2>9
<1>19. ASSUME NEW p \in Process, Read(p) \/ ClaimPending(p) PROVE \E z \in Nat : Bal(z)
  <2>1. CASE Read(p)
    <3> DEFINE b == Oldest(New)
    <3>1. b \in SUBSET Entry /\ \A i \in b : Loose(i)
      BY DEF Oldest, New, Loose
    <3>2. /\ run[p].pc = "idle" /\ Take(p, b, {})
          /\ st' = [i \in Entry |-> IF i \in b THEN "pending" ELSE st[i]]
          /\ UNCHANGED <<log, handled, passes, done, bounds>>
      BY <2>1 DEF Read
    <3> HIDE DEF b
    <3>3. /\ \A i \in b : Loose(i) /\ st'[i] = "pending"
          /\ \A i \in Entry \ b : st'[i] = st[i]
      BY <3>1, <3>2
    <3>4. QED BY <1>3, <3>1, <3>2, <3>3
  <2>2. CASE ClaimPending(p)
    <3> DEFINE b == Stale
               o == {i \in Stale : OverCap(i)}
    <3>1. b \in SUBSET Entry /\ \A i \in b : Loose(i) /\ st[i] = "pending"
      BY DEF Stale, Oldest, Pending, Loose
    <3>2. /\ run[p].pc = "idle" /\ Take(p, b, o)
          /\ UNCHANGED <<log, st, handled, passes, done, bounds>>
      BY <2>2 DEF ClaimPending
    <3> HIDE DEF b, o
    <3>3. /\ \A i \in b : Loose(i) /\ st'[i] = "pending"
          /\ \A i \in Entry \ b : st'[i] = st[i]
      BY <3>1, <3>2
    <3>4. QED BY <1>3, <3>1, <3>2, <3>3
  <2>3. QED BY <1>19, <2>1, <2>2
<1>20. ASSUME NEW p \in Process, Step(p) PROVE \E z \in Nat : Bal(z)
  BY <1>20, <1>4, <1>7, <1>8, <1>9, <1>10, <1>11, <1>13, <1>14, <1>15, <1>19 DEF Step
<1>21. CASE UNCHANGED vars
  <2>1. UNCHANGED <<log, st, stale, run, handled, passes, done, bounds>>
    BY <1>21 DEF vars
  <2>2. m <= m1
    BY <1>M, <2>1
  <2>3. \E z \in Nat : Bal(z)
    BY <1>s, <2>1, <2>2
  <2>4. QED BY <1>B, <2>3
<1>22. CASE Next
  <2>1. \E z \in Nat : Bal(z)
    BY <1>22, <1>2, <1>16, <1>17, <1>18, <1>20 DEF Next
  <2>2. QED BY <1>B, <2>1
<1>23. QED BY <1>21, <1>22

\* A handler that succeeded runs again for the same event only because the
\* event was written again, forced, or because a crash, a Redis error or a
\* claim under a slow process came between its run and its mark.
THEOREM RerunsArePaidFor == Spec => []RerunsAccountedFor
<1>1. Init => Accounts
  <2> SUFFICES ASSUME Init, NEW v \in Event, NEW s \in Sub PROVE Account(v, s)
    BY DEF Accounts
  <2>1. Written = {} /\ PlainOf(v) = {} /\ ForcedDeliveriesOf(v) = {}
    BY DEF Init, Written, PlainOf, ForcedDeliveriesOf
  <2>2. \A p \in Process : run[p].pc = "idle"
    BY DEF Init, Idle
  <2>3. Unclaimed(v, s) = {} /\ Queued(v, s) = {} /\ Claimants(v, s) = {}
    BY <2>1, <2>2 DEF Unclaimed, Queued, Claimants, Claims, OnHand
  <2>4. done[v][s] = 0 /\ Mishaps = 0
    BY DEF Init, Mishaps
  <2>5. QED BY <2>1, <2>3, <2>4, FS_EmptySet DEF Account
<1>2. WorkInv /\ WorkInv' /\ Tidy /\ Tidy' /\ RedeliveryBounded /\ RedeliveryBounded'
        /\ Accounts /\ [Next]_vars => Accounts'
  <2> SUFFICES ASSUME WorkInv, WorkInv', Tidy, Tidy', RedeliveryBounded, RedeliveryBounded',
                      Accounts, [Next]_vars
               PROVE  Accounts'
    OBVIOUS
  <2>1. ASSUME NEW v \in Event, NEW s \in Sub PROVE Account(v, s)'
    <3>1. Account(v, s)
      BY DEF Accounts
    <3>2. QED BY <3>1, AccountNext
  <2>2. QED BY <2>1, Zenon DEF Accounts
<1>3. WorkInv /\ Tidy /\ RedeliveryBounded /\ Accounts => RerunsAccountedFor
  <2> SUFFICES ASSUME WorkInv, Tidy, RedeliveryBounded, Accounts, NEW v \in Event, NEW s \in Sub
               PROVE  done[v][s] <= Cardinality(PlainOf(v)) + Cardinality(ForcedDeliveriesOf(v))
                                    + crashes + faults + slow
    BY DEF RerunsAccountedFor
  <2>1. /\ Cardinality(Unclaimed(v, s)) \in Nat /\ Cardinality(Queued(v, s)) \in Nat
        /\ Cardinality(Claimants(v, s)) \in Nat /\ Cardinality(PlainOf(v)) \in Nat
        /\ Cardinality(ForcedDeliveriesOf(v)) \in Nat
    BY CountableNow, FS_CardinalityType
  <2>2. done[v][s] \in Nat /\ crashes \in Nat /\ faults \in Nat /\ slow \in Nat
    BY DEF WorkInv, TypeOK, Tidy
  <2>3. Account(v, s)
    BY DEF Accounts
  <2>4. QED BY <2>1, <2>2, <2>3 DEF Account, Mishaps
<1>4. QED BY <1>1, <1>2, <1>3, WorkAlways, TidyAlways, RedeliveryStops, PTL DEF Spec
=============================================================================

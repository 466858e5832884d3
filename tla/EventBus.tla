------------------------------- MODULE EventBus -------------------------------
(***************************************************************************)
(* The Redis stream event bus (packages/event-bus/src/eventBus.ts and      *)
(* publishers/index.ts): publishing over several streams, the consumer     *)
(* loop of each process, redelivery of pending entries and the dead-letter *)
(* stream.                                                                 *)
(*                                                                         *)
(* One (event type, channel) stream is followed to its handlers; the other *)
(* streams a publish writes are only written.  Each process reads batches  *)
(* of new entries, works them off one at a time, and claims entries that   *)
(* have been pending longer than claimTimeout - also those a slow process  *)
(* still works on.  All subscribers are registered before entries arrive.  *)
(***************************************************************************)
EXTENDS Integers, FiniteSetsExt

CONSTANTS
  Event,          \* event ids
  Strict,         \* those published in strict mode (the inbound outbox)
  Sub,            \* handlers registered for the stream
  Process,        \* processes of the consumer group
  MaxEntries,     \* bound: entries written to the stream
  Batch,          \* config.eventBus.batchSize
  MaxDeliveries,  \* config.eventBus.maxDeliveries
  MaxCrashes,     \* bound: process crashes in a behaviour
  MaxFaults,      \* bound: Redis commands that fail
  MaxSlow,        \* bound: entries that become stale under a running process
  MaxMishaps      \* bound: all three together

ASSUME StrictAssumption == Strict \subseteq Event
ASSUME FiniteAssumption == IsFiniteSet(Process)
ASSUME ConfigAssumption == {Batch, MaxDeliveries} \subseteq Nat \ {0}
ASSUME BoundsAssumption == {MaxEntries, MaxCrashes, MaxFaults, MaxSlow, MaxMishaps} \subseteq Nat

Entry == 1 .. MaxEntries

VARIABLES
  pub,        \* [Event -> next stream its publish writes, or "ok"]
  written,    \* [Event -> streams that hold the event]
  log,        \* [Entry -> event and force flag], as written so far
  st,         \* [Entry -> "none", "new", "pending" or "acked"]
  deliveries, \* [Entry -> the group's delivery counter]
  stale,      \* entries pending longer than claimTimeout
  processed,  \* the set processed_events
  handled,    \* the set processed_event_handlers
  marker,     \* the set dead_lettered_messages
  run,        \* [Process -> what it works on]
  done,       \* observer: successful runs per event and handler
  passes,     \* observer: times an entry was put before its handlers
  dead,       \* observer: copies of the entry on the dead-letter stream
  crashes, faults, slow   \* counters for the bounds

stream    == <<log, st, deliveries, stale>>
publisher == <<pub, written>>
sets      == <<processed, handled, marker>>
observers == <<done, passes, dead>>
bounds    == <<crashes, faults, slow>>
vars == <<pub, written, log, st, deliveries, stale, processed, handled, marker, run,
          done, passes, dead, crashes, faults, slow>>

Streams   == {"workflow", "stream", "channel"}
Locations == {"idle", "batch", "check", "sub", "run", "mark", "markEvent", "ack",
              "dlCheck", "dlAdd", "dlMark", "dlAck"}
NoOne     == "none"
Idle      == [pc |-> "idle", batch |-> {}, over |-> {}, cur |-> 0, todo |-> {},
              sub |-> NoOne, bad |-> FALSE]

Init ==
  /\ pub = [v \in Event |-> "workflow"]
  /\ written = [v \in Event |-> {}]
  /\ log = [i \in Entry |-> [event |-> NoOne, force |-> FALSE]]
  /\ st = [i \in Entry |-> "none"]
  /\ deliveries = [i \in Entry |-> 0]
  /\ stale = {} /\ processed = {} /\ handled = {} /\ marker = {}
  /\ run = [p \in Process |-> Idle]
  /\ done = [v \in Event |-> [s \in Sub |-> 0]]
  /\ passes = [i \in Entry |-> 0]
  /\ dead = [i \in Entry |-> 0]
  /\ crashes = 0 /\ faults = 0 /\ slow = 0

Mishap(n, bound) == n < bound /\ crashes + faults + slow < MaxMishaps

At(p, l)   == run[p].pc = l
Goto(p, l) == run' = [run EXCEPT ![p].pc = l]
EventOf(p) == log[run[p].cur].event
Forced(p)  == log[run[p].cur].force

-----------------------------------------------------------------------------
(* publishEvent                                                            *)

Written == {i \in Entry : st[i] # "none"}
HasRoom == Cardinality(Written) < MaxEntries

\* XADD to the (event type, default channel) stream.
Append(v, f) ==
  LET i == Cardinality(Written) + 1 IN
  /\ log' = [log EXCEPT ![i] = [event |-> v, force |-> f]]
  /\ st'  = [st  EXCEPT ![i] = "new"]
  /\ UNCHANGED <<deliveries, stale>>

\* The default-channel publish writes the workflow stream first ...
PublishWorkflow(v) ==
  /\ pub[v] = "workflow"
  /\ pub'     = [pub EXCEPT ![v] = "stream"]
  /\ written' = [written EXCEPT ![v] = @ \cup {"workflow"}]
  /\ UNCHANGED <<stream, sets, run, observers, bounds>>

\* ... then the stream of the event type ...
PublishStream(v) ==
  /\ pub[v] = "stream"
  /\ HasRoom
  /\ Append(v, FALSE)
  /\ pub'     = [pub EXCEPT ![v] = "channel"]
  /\ written' = [written EXCEPT ![v] = @ \cup {"stream"}]
  /\ UNCHANGED <<sets, run, observers, bounds>>

\* ... and a second publish writes the notification or email channel.
PublishChannel(v) ==
  /\ pub[v] = "channel"
  /\ pub'     = [pub EXCEPT ![v] = "ok"]
  /\ written' = [written EXCEPT ![v] = @ \cup {"channel"}]
  /\ UNCHANGED <<stream, sets, run, observers, bounds>>

\* Fault: strict mode swallows the error like the default mode does.
PublishFailsSilently(v) ==
  /\ pub[v] \in Streams
  /\ Mishap(faults, MaxFaults)
  /\ faults' = faults + 1
  /\ pub' = [pub EXCEPT ![v] = IF @ = "channel" THEN "ok" ELSE "channel"]
  /\ UNCHANGED <<written, stream, sets, run, observers, crashes, slow>>

\* An XADD fails.  In strict mode the error reaches the caller, who publishes
\* again; otherwise bus.publish swallows it and the next channel is written.
PublishFails(v) ==
  /\ pub[v] \in Streams
  /\ Mishap(faults, MaxFaults)
  /\ faults' = faults + 1
  /\ \/ v \in Strict /\ pub' = [pub EXCEPT ![v] = "workflow"]
     \/ v \notin Strict /\ pub' = [pub EXCEPT ![v] = IF @ = "channel" THEN "ok" ELSE "channel"]
  /\ UNCHANGED <<written, stream, sets, run, observers, crashes, slow>>

\* The recovery sweeper publishes a published event again, with force.
Republish(v) ==
  /\ pub[v] = "ok"
  /\ HasRoom
  /\ Append(v, TRUE)
  /\ UNCHANGED <<publisher, sets, run, observers, bounds>>

-----------------------------------------------------------------------------
(* The consumer loop: startEventProcessing and claimPendingMessages.       *)

Oldest(S) == {i \in S : Cardinality({j \in S : j < i}) < Batch}
New       == {i \in Entry : st[i] = "new"}
Pending   == {i \in Entry : st[i] = "pending"}

\* Fault: the scan for stale entries looks at undelivered ones.
StaleNew == Oldest(New) \cap stale

\* XPENDING lists the oldest pending entries; of those, the stale ones.
Stale == Oldest(Pending) \cap stale

Take(p, b, over) ==
  /\ deliveries' = [i \in Entry |-> IF i \in b THEN deliveries[i] + 1 ELSE deliveries[i]]
  /\ stale' = stale \ b
  /\ run' = [run EXCEPT ![p] = [Idle EXCEPT !.pc = "batch", !.batch = b, !.over = over]]

\* XREADGROUP '>'.
Read(p) ==
  /\ At(p, "idle") /\ New # {}
  /\ Take(p, Oldest(New), {})
  /\ st' = [i \in Entry |-> IF i \in Oldest(New) THEN "pending" ELSE st[i]]
  /\ UNCHANGED <<log, publisher, sets, observers, bounds>>

\* Fault: no delivery cap, every claimed entry goes to its handlers.
OverCapNever(i) == FALSE

\* deliveriesCounter, read before the claim, against the cap.
OverCap(i) == deliveries[i] > MaxDeliveries

\* XPENDING, the stale filter and XCLAIM with min-idle.
ClaimPending(p) ==
  /\ At(p, "idle") /\ Stale # {}
  /\ Take(p, Stale, {i \in Stale : OverCap(i)})
  /\ UNCHANGED <<log, st, publisher, sets, observers, bounds>>

\* The next entry of the batch, in stream order.
NextEntry(p) ==
  /\ At(p, "batch") /\ run[p].batch # {}
  /\ LET i == Min(run[p].batch)
         dl == i \in run[p].over IN
     /\ run' = [run EXCEPT ![p].pc = IF dl THEN "dlCheck" ELSE "check",
                           ![p].batch = @ \ {i}, ![p].cur = i]
     /\ passes' = IF dl THEN passes ELSE [passes EXCEPT ![i] = @ + 1]
  /\ UNCHANGED <<stream, publisher, sets, done, dead, bounds>>

BatchDone(p) ==
  /\ At(p, "batch") /\ run[p].batch = {}
  /\ run' = [run EXCEPT ![p] = Idle]
  /\ UNCHANGED <<stream, publisher, sets, observers, bounds>>

-----------------------------------------------------------------------------
(* processStreamMessage                                                    *)

\* isEventProcessed, bypassed by force.
CheckEvent(p) ==
  /\ At(p, "check")
  /\ run' = [run EXCEPT ![p] =
       IF ~Forced(p) /\ EventOf(p) \in processed
       THEN [@ EXCEPT !.pc = "ack"]
       ELSE [@ EXCEPT !.pc = "sub", !.todo = Sub, !.bad = FALSE]]
  /\ UNCHANGED <<stream, publisher, sets, observers, bounds>>

\* Fault: the handler's own mark is not looked at.
SkipHandledNever(p, s) == FALSE

\* isHandlerProcessed, bypassed by force.
SkipHandled(p, s) == ~Forced(p) /\ <<EventOf(p), s>> \in handled

NextHandler(p, s) ==
  /\ At(p, "sub") /\ s \in run[p].todo
  /\ run' = IF SkipHandled(p, s)
            THEN [run EXCEPT ![p].todo = @ \ {s}]
            ELSE [run EXCEPT ![p].todo = @ \ {s}, ![p].pc = "run", ![p].sub = s]
  /\ UNCHANGED <<stream, publisher, sets, observers, bounds>>

\* await handler(event)
HandlerSucceeds(p) ==
  /\ At(p, "run")
  /\ done' = [done EXCEPT ![EventOf(p)][run[p].sub] = @ + 1]
  /\ Goto(p, "mark")
  /\ UNCHANGED <<stream, publisher, sets, passes, dead, bounds>>

HandlerThrows(p) ==
  /\ At(p, "run")
  /\ run' = [run EXCEPT ![p] = [@ EXCEPT !.pc = "sub", !.bad = TRUE]]
  /\ UNCHANGED <<stream, publisher, sets, observers, bounds>>

\* markHandlerProcessed
MarkHandler(p) ==
  /\ At(p, "mark")
  /\ handled' = handled \cup {<<EventOf(p), run[p].sub>>}
  /\ Goto(p, "sub")
  /\ UNCHANGED <<stream, publisher, processed, marker, observers, bounds>>

\* Fault: the failure of one handler does not keep the entry pending.
HandlersDoneAlways(p) ==
  /\ At(p, "sub") /\ run[p].todo = {}
  /\ Goto(p, IF Forced(p) THEN "ack" ELSE "markEvent")
  /\ UNCHANGED <<stream, publisher, sets, observers, bounds>>

\* After the last handler: any failure leaves the entry pending.
HandlersDone(p) ==
  /\ At(p, "sub") /\ run[p].todo = {}
  /\ Goto(p, IF run[p].bad THEN "batch" ELSE IF Forced(p) THEN "ack" ELSE "markEvent")
  /\ UNCHANGED <<stream, publisher, sets, observers, bounds>>

\* markEventProcessed
MarkEvent(p) ==
  /\ At(p, "markEvent")
  /\ processed' = processed \cup {EventOf(p)}
  /\ Goto(p, "ack")
  /\ UNCHANGED <<stream, publisher, handled, marker, observers, bounds>>

\* XACK, for a processed, a duplicate or a dead-lettered entry.
Ack(p) ==
  /\ At(p, "ack") \/ At(p, "dlAck")
  /\ st' = [st EXCEPT ![run[p].cur] = "acked"]
  /\ stale' = stale \ {run[p].cur}
  /\ Goto(p, "batch")
  /\ UNCHANGED <<log, deliveries, publisher, sets, observers, bounds>>

\* deadLetterMessage: SISMEMBER ...
DeadLetterCheck(p) ==
  /\ At(p, "dlCheck")
  /\ Goto(p, IF run[p].cur \in marker THEN "dlAck" ELSE "dlAdd")
  /\ UNCHANGED <<stream, publisher, sets, observers, bounds>>

\* ... XADD ...
DeadLetterAdd(p) ==
  /\ At(p, "dlAdd")
  /\ dead' = [dead EXCEPT ![run[p].cur] = @ + 1]
  /\ Goto(p, "dlMark")
  /\ UNCHANGED <<stream, publisher, sets, done, passes, bounds>>

\* ... SADD.
DeadLetterMark(p) ==
  /\ At(p, "dlMark")
  /\ marker' = marker \cup {run[p].cur}
  /\ Goto(p, "dlAck")
  /\ UNCHANGED <<stream, publisher, processed, handled, observers, bounds>>

\* A Redis command fails.  Inside the handler loop that counts as a failure of
\* the handler; anywhere else the entry is left pending.
RedisFails(p) ==
  /\ Mishap(faults, MaxFaults)
  /\ faults' = faults + 1
  /\ \/ /\ run[p].pc \in {"check", "markEvent", "ack", "dlCheck", "dlAdd", "dlMark", "dlAck"}
        /\ Goto(p, "batch")
     \/ /\ At(p, "mark")
        /\ run' = [run EXCEPT ![p] = [@ EXCEPT !.pc = "sub", !.bad = TRUE]]
     \/ /\ At(p, "sub")
        /\ \E s \in run[p].todo :
             run' = [run EXCEPT ![p].todo = @ \ {s}, ![p].bad = TRUE]
  /\ UNCHANGED <<stream, publisher, sets, observers, crashes, slow>>

\* The process dies and restarts; what it had read stays pending.
Crash(p) ==
  /\ ~At(p, "idle")
  /\ Mishap(crashes, MaxCrashes)
  /\ crashes' = crashes + 1
  /\ run' = [run EXCEPT ![p] = Idle]
  /\ UNCHANGED <<stream, publisher, sets, observers, faults, slow>>

\* claimTimeout passes for a pending entry.
Working(i) == \E p \in Process : i \in run[p].batch \/ (~At(p, "batch") /\ run[p].cur = i)
GoStale(i) ==
  /\ st[i] = "pending" /\ i \notin stale
  /\ Working(i) => Mishap(slow, MaxSlow)
  /\ slow'  = IF Working(i) THEN slow + 1 ELSE slow
  /\ stale' = stale \cup {i}
  /\ UNCHANGED <<log, st, deliveries, publisher, sets, run, observers, crashes, faults>>

PublishStep(v) ==
  PublishWorkflow(v) \/ PublishStream(v) \/ PublishChannel(v) \/ PublishFails(v)
Step(p) ==
  \/ Read(p) \/ ClaimPending(p) \/ NextEntry(p) \/ BatchDone(p) \/ CheckEvent(p)
  \/ \E s \in Sub : NextHandler(p, s)
  \/ HandlerSucceeds(p) \/ HandlerThrows(p) \/ MarkHandler(p) \/ HandlersDone(p)
  \/ MarkEvent(p) \/ Ack(p) \/ DeadLetterCheck(p) \/ DeadLetterAdd(p) \/ DeadLetterMark(p)

Next ==
  \/ \E v \in Event : PublishStep(v) \/ Republish(v)
  \/ \E p \in Process : Step(p) \/ RedisFails(p) \/ Crash(p)
  \/ \E i \in Entry : GoStale(i)

Spec == Init /\ [][Next]_vars

\* Every process runs its loop, and time passes.
Fairness ==
  /\ \A p \in Process : WF_vars(Step(p))
  /\ \A i \in Entry : WF_vars(GoStale(i))

FairSpec == Spec /\ Fairness

-----------------------------------------------------------------------------
(* Properties.                                                             *)

TypeOK ==
  /\ pub \in [Event -> Streams \cup {"ok"}]
  /\ written \in [Event -> SUBSET Streams]
  /\ log \in [Entry -> [event : Event \cup {NoOne}, force : BOOLEAN]]
  /\ st \in [Entry -> {"none", "new", "pending", "acked"}]
  /\ deliveries \in [Entry -> Nat]
  /\ stale \subseteq Entry /\ marker \subseteq Entry
  /\ processed \subseteq Event /\ handled \subseteq Event \X Sub
  /\ run \in [Process -> [pc : Locations, batch : SUBSET Entry, over : SUBSET Entry,
                          cur : Entry \cup {0}, todo : SUBSET Sub,
                          sub : Sub \cup {NoOne}, bad : BOOLEAN]]
  /\ done \in [Event -> [Sub -> Nat]]
  /\ passes \in [Entry -> Nat] /\ dead \in [Entry -> Nat]

\* An acknowledged entry is never a lost one: every handler has succeeded for
\* its event, or the entry is on the dead-letter stream.
AckedMeansHandled ==
  \A i \in Entry :
    st[i] = "acked" => dead[i] >= 1 \/ \A s \in Sub : done[log[i].event][s] >= 1

\* A handler that succeeded runs again for the same event only because the
\* event was written again, forced, or because a crash, a Redis error or a
\* claim under a slow process came between its run and its mark.
PlainOf(v) == {i \in Written : log[i].event = v /\ ~log[i].force}
ForcedDeliveriesOf(v) ==
  UNION {{i} \X (1 .. passes[i]) : i \in {j \in Written : log[j].event = v /\ log[j].force}}
RerunsAccountedFor ==
  \A v \in Event, s \in Sub :
    done[v][s] <= Cardinality(PlainOf(v)) + Cardinality(ForcedDeliveriesOf(v))
                  + crashes + faults + slow

\* "No message can redeliver forever": an entry is put before its handlers at
\* most once more than maxDeliveries, whatever fails.
RedeliveryBounded == \A i \in Entry : passes[i] <= MaxDeliveries + 1

\* A strict publish that returns has written every stream, so an outbox row is
\* not marked published on the strength of a swallowed error.
StrictNeverSilent == \A v \in Strict : pub[v] = "ok" => written[v] = Streams

\* Every entry is acknowledged in the end, by its handlers or by the
\* dead-letter stream.
EventuallyAcked == \A i \in Entry : (st[i] = "new") ~> (st[i] = "acked")

=============================================================================

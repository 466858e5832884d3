------------------------ MODULE InboundDeliveryProofs ------------------------
(***************************************************************************)
(* Proofs about InboundDelivery, for any consumers, audiences, handlers,   *)
(* entries, caps and bounds.                                               *)
(***************************************************************************)
EXTENDS InboundDelivery, FiniteSetTheorems, WellFoundedInduction, TLAPS

-----------------------------------------------------------------------------
(* Types.                                                                  *)

RowState == [status : Statuses, attempts : Nat, version : Nat, token : Nat,
             expired : BOOLEAN, due : BOOLEAN]
RunState == [pc : Locations, con : Consumer \cup {NULL}, ent : Entry \cup {NULL}, held : Nat, cap : Nat]

\* A handler that is not idle works on an entry for a consumer.
Busy(s) == s.pc # "idle" => s.con \in Consumer /\ s.ent \in Entry

LEMMA Places ==
  /\ {"idle", "gate", "takeover", "retake", "deadletter", "unledgered", "bypass", "record",
      "effect", "complete", "fail"} = Locations
  /\ {"none", "delivering", "retryable_failed", "delivered", "terminal_failed"} = Statuses
BY DEF Locations, Holding, Statuses, TerminalStatuses

LEMMA FinishedRows ==
  \A r \in RowState : \A st \in Statuses :
    Finished(r, st) \in RowState /\ Finished(r, st).status = st
BY DEF Finished, RowState, NULL

\* What the ledger's statements make of a row is a row.
LEMMA RowsStayRows ==
  ASSUME NEW r \in RowState, NEW k \in Caps
  PROVE  /\ \A st \in Statuses : Finished(r, st) \in RowState /\ Finished(r, st).status = st
         /\ Charged(r, k) \in RowState
         /\ Charged(r, k).status \in {"terminal_failed", "retryable_failed"}
         /\ Recorded(r, k) \in RowState
         /\ Recorded(r, k).status \notin {"none", "delivering"}
<1>1. \A st \in Statuses : Finished(r, st) \in RowState /\ Finished(r, st).status = st
  BY FinishedRows
<1>2. [r EXCEPT !.attempts = r.attempts + 1] \in RowState
  BY DEF RowState
<1>3. \A q \in RowState : \A st \in Statuses :
        /\ Finished(q, st) \in RowState /\ Finished(q, st).status = st
        /\ [Finished(q, st) EXCEPT !.due = FALSE] \in RowState
        /\ [Finished(q, st) EXCEPT !.due = FALSE].status = st
  BY DEF Finished, RowState, NULL
<1>4. /\ Charged(r, k) \in RowState
      /\ Charged(r, k).status \in {"terminal_failed", "retryable_failed"}
  BY <1>2, <1>3, Places DEF Charged
<1>5. /\ Recorded(r, k) \in RowState
      /\ Recorded(r, k).status \notin {"none", "delivering"}
  BY <1>4 DEF Recorded, RowState, Statuses, TerminalStatuses
<1>6. QED BY <1>1, <1>4, <1>5

LEMMA TypeInit == Init => TypeOK
<1> SUFFICES ASSUME Init PROVE TypeOK
  OBVIOUS
<1>1. NoRow \in RowState /\ Idle \in RunState
  BY Places DEF NoRow, Idle, RowState, RunState, NULL
<1>2. /\ row \in [Consumer -> RowState] /\ run \in [Handler -> RunState]
      /\ effects \in [Consumer -> Nat] /\ failures \in [Consumer -> Nat]
      /\ excuses \in [Consumer -> Nat] /\ open \in [Consumer -> SUBSET Entry]
  BY <1>1 DEF Init
<1>3. \A h \in Handler : At(h, "idle")
  BY DEF Init, At, Idle
<1>4. QED BY <1>2, <1>3 DEF Init, TypeOK, RowState, RunState

\* How one step changes each part of the state.
RowStep == \/ UNCHANGED row
           \/ \E c \in Consumer : \E r \in RowState : row' = [row EXCEPT ![c] = r]
RunStep == \/ UNCHANGED run
           \/ \E h \in Handler : \E s \in RunState : Busy(s) /\ run' = [run EXCEPT ![h] = s]
BusStep == /\ audience' = audience /\ open' \in [Consumer -> SUBSET Entry]
           /\ forced' \subseteq Entry /\ redrive' \in BOOLEAN /\ reached' \subseteq Consumer
ObsStep == /\ effects' \in [Consumer -> Nat] /\ failures' \in [Consumer -> Nat]
           /\ excuses' \in [Consumer -> Nat] /\ swallowed' \subseteq Consumer
           /\ crashes' \in Nat /\ slow' \in Nat /\ outages' \in Nat /\ disconnects' \in Nat

LEMMA TypeNext == TypeOK /\ [Next]_vars => TypeOK'
<1> SUFFICES ASSUME TypeOK, [Next]_vars PROVE TypeOK'
  OBVIOUS
<1> USE DEF bus, observers, bounds
<1>t. /\ audience \in Audiences /\ row \in [Consumer -> RowState]
      /\ open \in [Consumer -> SUBSET Entry] /\ forced \subseteq Entry /\ redrive \in BOOLEAN
      /\ reached \subseteq Consumer /\ swallowed \subseteq Consumer
      /\ run \in [Handler -> RunState] /\ \A h \in Handler : Busy(run[h])
      /\ effects \in [Consumer -> Nat] /\ failures \in [Consumer -> Nat]
      /\ excuses \in [Consumer -> Nat]
      /\ crashes \in Nat /\ slow \in Nat /\ outages \in Nat /\ disconnects \in Nat
  BY DEF TypeOK, RowState, RunState, Busy, At
<1>q. ASSUME RowStep, RunStep, BusStep, ObsStep PROVE TypeOK'
  <2>1. row' \in [Consumer -> RowState]
    BY <1>q, <1>t DEF RowStep
  <2>2. run' \in [Handler -> RunState] /\ \A h \in Handler : Busy(run'[h])
    BY <1>q, <1>t DEF RunStep
  <2>3. audience' \in Audiences
    BY <1>q, <1>t DEF BusStep
  <2>4. QED BY <1>q, <2>1, <2>2, <2>3 DEF TypeOK, RowState, RunState, BusStep, ObsStep, Busy, At
<1>b. UNCHANGED bus => BusStep
  BY <1>t DEF BusStep
<1>o. UNCHANGED observers /\ UNCHANGED bounds => ObsStep
  BY <1>t DEF ObsStep
<1>i. Idle \in RunState /\ Busy(Idle)
  BY Places DEF Idle, RunState, Busy, NULL
<1>a. ASSUME NEW h \in Handler, ~At(h, "idle")
      PROVE  /\ run[h].con \in Consumer /\ run[h].ent \in Entry
             /\ row[run[h].con] \in RowState
  BY <1>a, <1>t DEF Busy, At
<1>g. ASSUME NEW h \in Handler, NEW l \in Locations, ~At(h, "idle"), Goto(h, l)
      PROVE  RunStep
  <2>1. [run[h] EXCEPT !.pc = l] \in RunState /\ Busy([run[h] EXCEPT !.pc = l])
    BY <1>t, <1>a, <1>g DEF RunState, Busy
  <2>2. run' = [run EXCEPT ![h] = [run[h] EXCEPT !.pc = l]]
    BY <1>g DEF Goto
  <2>3. QED BY <2>1, <2>2 DEF RunStep
<1>k. ASSUME NEW h \in Handler, ~At(h, "idle"), Ack(h),
             UNCHANGED <<audience, forced, redrive>>
      PROVE  RunStep /\ BusStep
  BY <1>a, <1>i, <1>k, <1>t DEF Ack, RunStep, BusStep
<1>w. ASSUME NEW h \in Handler, Throw(h), UNCHANGED <<audience, forced, redrive>>
      PROVE  RunStep /\ BusStep
  BY <1>i, <1>t, <1>w DEF Throw, RunStep, BusStep
<1>c. \A c \in Consumer : /\ Count(effects, c) \in [Consumer -> Nat]
                          /\ Count(failures, c) \in [Consumer -> Nat]
                          /\ Count(excuses, c) \in [Consumer -> Nat]
  BY <1>t DEF Count
<1>d. ASSUME NEW c \in Consumer, Deadletter(c) PROVE RowStep
  <2>1. row[c] \in RowState /\ Finished(row[c], "terminal_failed") \in RowState
    BY <1>t, Places, FinishedRows
  <2>2. QED BY <1>d, <2>1 DEF Deadletter, RowStep
<1>l. ASSUME NEW h \in Handler, NEW n \in Nat, NEW v \in Nat, ~At(h, "idle"),
             Lease(h, run[h].con, n, v)
      PROVE  RowStep /\ RunStep
  <2> DEFINE s == [run[h] EXCEPT !.pc = "effect", !.held = v + 1]
  <2>1. s \in RunState /\ Busy(s)
    <3>1. v + 1 \in Nat /\ "effect" \in Locations /\ run[h] \in RunState
      BY <1>t, Places
    <3>2. QED BY <1>a, <1>l, <3>1 DEF RunState, Busy
  <2>2. run' = [run EXCEPT ![h] = s]
    BY <1>l, <1>t DEF Lease, RunState
  <2>3. [status |-> "delivering", attempts |-> n, version |-> v, token |-> v + 1,
         expired |-> FALSE, due |-> TRUE] \in RowState
    BY Places DEF RowState
  <2> HIDE DEF s
  <2>4. QED BY <1>a, <1>l, <2>1, <2>2, <2>3 DEF Lease, RowStep, RunStep
<1>1. ASSUME NEW e \in Entry, Publish(e) \/ Republish(e) PROVE TypeOK'
  <2>1. open' \in [Consumer -> SUBSET Entry]
    BY <1>1, <1>t DEF Publish, Republish, Offer
  <2>2. BusStep
    BY <1>1, <1>t, <2>1 DEF Publish, Republish, BusStep
  <2>3. QED BY <1>1, <1>o, <1>q, <2>2 DEF Publish, Republish, RowStep, RunStep
<1>2. ASSUME NEW c \in Consumer, NEW e \in open[c], DropDuplicate(c, e) PROVE TypeOK'
  <2>1. BusStep
    BY <1>2, <1>t DEF DropDuplicate, BusStep
  <2>2. QED BY <1>2, <1>o, <1>q, <2>1 DEF DropDuplicate, RowStep, RunStep
<1>3. ASSUME NEW h \in Handler, Invoke(h) PROVE TypeOK'
  <2>1. PICK c \in Consumer : \E e \in open[c], k \in Caps :
          Start(h, c, e, k) \/ StartDisconnected(h, c, e)
    BY <1>3, CapsAssumption DEF Invoke
  <2>2. PICK e \in open[c], k \in Caps : Start(h, c, e, k) \/ StartDisconnected(h, c, e)
    BY <2>1
  <2>3. \A l \in {"gate", "bypass"}, n \in {NULL, k} :
          /\ [pc |-> l, con |-> c, ent |-> e, held |-> NULL, cap |-> n] \in RunState
          /\ Busy([pc |-> l, con |-> c, ent |-> e, held |-> NULL, cap |-> n])
    BY <1>t, Places, CapsAssumption DEF RunState, Busy, NULL
  <2>4. RunStep
    BY <2>2, <2>3 DEF Start, StartDisconnected, RunStep
  <2>5. ObsStep
    BY <1>t, <2>2 DEF Start, StartDisconnected, ObsStep
  <2>6. QED BY <1>b, <1>q, <2>2, <2>4, <2>5 DEF Start, StartDisconnected, RowStep
<1>4. ASSUME NEW h \in Handler, Step(h) PROVE TypeOK'
  <2>a. ~At(h, "idle")
    BY <1>4 DEF Step, ReserveInsert, Takeover, ReserveDeadletter, ReserveError, Effect, EffectThrows,
         Complete, CompleteError, FailError, EffectUnledgered, ReserveSkip, ReserveLook, Retake,
         ReserveRace, Fail, TxDeliver, TxRollback, TxSkip, RecordFailure, At
  <2>r. /\ run[h].con \in Consumer /\ row[run[h].con] \in RowState
        /\ row[run[h].con].attempts \in Nat /\ row[run[h].con].version \in Nat
    BY <1>a, <2>a DEF RowState
  <2>1. CASE ReserveInsert(h)
    <3>1. RowStep /\ RunStep
      BY <1>l, <2>1, <2>a DEF ReserveInsert
    <3>2. QED BY <1>b, <1>o, <1>q, <2>1, <3>1 DEF ReserveInsert
  <2>2. CASE Takeover(h)
    <3>1. RowStep /\ RunStep
      BY <1>l, <2>2, <2>a, <2>r DEF Takeover
    <3>2. QED BY <1>b, <1>o, <1>q, <2>2, <3>1 DEF Takeover
  <2>3. ASSUME NEW k \in Caps, Retake(h, k) PROVE TypeOK'
    <3>1. row[run[h].con].attempts + 1 \in Nat /\ row[run[h].con].version + 1 \in Nat
      BY <2>r
    <3>a. RowStep /\ RunStep
      BY <1>l, <2>3, <2>a, <3>1 DEF Retake
    <3>2. QED BY <1>b, <1>o, <1>q, <2>3, <3>a DEF Retake
  <2>4. CASE ReserveDeadletter(h)
    BY <1>d, <1>k, <1>o, <1>q, <2>4, <2>a, <2>r DEF ReserveDeadletter
  <2>5. ASSUME NEW k \in Caps, ReserveSkip(h, k) \/ ReserveRace(h, k) PROVE TypeOK'
    BY <1>k, <1>o, <1>q, <2>5, <2>a DEF ReserveSkip, ReserveRace, RowStep
  <2>6. ASSUME NEW k \in Caps, ReserveLook(h, k) \/ TxRollback(h, k) PROVE TypeOK'
    <3>1. RunStep
      BY <1>g, <2>6, <2>a, Places DEF ReserveLook, TxRollback
    <3>2. QED BY <1>b, <1>o, <1>q, <2>6, <3>1 DEF ReserveLook, TxRollback, RowStep
  <2>7. CASE ReserveError(h) \/ CompleteError(h)
    <3>1. RunStep
      BY <1>g, <2>7, <2>a, Places DEF ReserveError, CompleteError
    <3>2. ObsStep
      BY <1>c, <1>t, <2>7, <2>r DEF ReserveError, CompleteError, ObsStep
    <3>3. QED BY <1>b, <1>q, <2>7, <3>1, <3>2 DEF ReserveError, CompleteError, RowStep
  <2>8. CASE Effect(h) \/ EffectThrows(h)
    <3>1. RunStep
      BY <1>g, <2>8, <2>a, Places DEF Effect, EffectThrows
    <3>2. ObsStep
      BY <1>c, <1>t, <2>8, <2>r DEF Effect, EffectThrows, ObsStep
    <3>3. QED BY <1>b, <1>q, <2>8, <3>1, <3>2 DEF Effect, EffectThrows, RowStep
  <2>9. CASE Complete(h)
    <3>1. Finished(row[run[h].con], "delivered") \in RowState
      BY <2>r, Places DEF Finished, RowState, NULL
    <3>2. RowStep
      BY <2>9, <2>r, <3>1 DEF Complete, RowStep
    <3>3. QED BY <1>k, <1>o, <1>q, <2>9, <2>a, <3>2 DEF Complete
  <2>10. ASSUME NEW k \in Caps, Fail(h, k) PROVE TypeOK'
    <3>1. RowStep
      BY <2>10, <2>r, RowsStayRows DEF Fail, RowStep
    <3>2. ObsStep
      BY <1>c, <1>t, <2>10, <2>r DEF Fail, ObsStep
    <3>3. QED BY <1>k, <1>q, <2>10, <2>a, <3>1, <3>2 DEF Fail
  <2>11. ASSUME NEW k \in Caps, RecordFailure(h, k) PROVE TypeOK'
    <3>1. RowStep
      BY <2>11, <2>r, RowsStayRows DEF RecordFailure, RowStep
    <3>2. ObsStep
      BY <1>c, <1>t, <2>11, <2>r DEF RecordFailure, ObsStep
    <3>3. QED BY <1>k, <1>q, <2>11, <2>a, <3>1, <3>2 DEF RecordFailure
  <2>12. CASE FailError(h)
    <3>1. ObsStep
      BY <1>t, <2>12 DEF FailError, ObsStep
    <3>2. QED BY <1>q, <1>w, <2>12, <3>1 DEF FailError, RowStep
  <2>13. CASE EffectUnledgered(h)
    <3>1. ObsStep
      BY <1>c, <1>t, <2>13, <2>r DEF EffectUnledgered, ObsStep
    <3>2. RunStep /\ BusStep
      BY <1>k, <1>w, <2>13, <2>a DEF EffectUnledgered
    <3>3. QED BY <1>q, <2>13, <3>1, <3>2 DEF EffectUnledgered, RowStep
  <2>14. ASSUME NEW k \in Caps, TxDeliver(h, k) PROVE TypeOK'
    <3>1. \A n, v \in {0, 1} :
            LET r == row[run[h].con]
            IN  Finished([r EXCEPT !.attempts = r.attempts + n, !.version = r.version + v],
                         "delivered") \in RowState
      <4>1. \A n, v \in {0, 1} : \A r \in RowState :
              [r EXCEPT !.attempts = r.attempts + n, !.version = r.version + v] \in RowState
        <5> TAKE n, v \in {0, 1}
        <5> TAKE r \in RowState
        <5>1. r.attempts + n \in Nat /\ r.version + v \in Nat
          BY DEF RowState
        <5>2. QED BY <5>1 DEF RowState
      <4>2. QED BY <2>r, <4>1, FinishedRows, Places
    <3>2. RowStep
      BY <2>14, <2>r, <3>1 DEF TxDeliver, RowStep
    <3>3. ObsStep
      BY <1>c, <1>t, <2>14, <2>r DEF TxDeliver, ObsStep
    <3>4. QED BY <1>k, <1>q, <2>14, <2>a, <3>2, <3>3 DEF TxDeliver
  <2>15. ASSUME NEW k \in Caps, TxSkip(h, k) PROVE TypeOK'
    <3>1. RowStep
      BY <1>d, <2>15, <2>r DEF TxSkip, RowStep
    <3>2. QED BY <1>k, <1>o, <1>q, <2>15, <2>a, <3>1 DEF TxSkip
  <2>16. QED
    BY <1>4, <2>1, <2>2, <2>3, <2>4, <2>5, <2>6, <2>7, <2>8, <2>9, <2>10, <2>11, <2>12, <2>13,
       <2>14, <2>15 DEF Step
<1>5. ASSUME NEW h \in Handler, Crash(h) PROVE TypeOK'
  <2>1. RunStep /\ BusStep
    BY <1>5, <1>w DEF Crash
  <2>2. ObsStep
    BY <1>5, <1>a, <1>c, <1>t DEF Crash, ObsStep
  <2>3. QED BY <1>5, <1>q, <2>1, <2>2 DEF Crash, RowStep
<1>6. ASSUME NEW c \in Consumer, Sweep(c) PROVE TypeOK'
  <2>1. ASSUME NEW k \in Caps, SweepDeadletter(c, k) PROVE TypeOK'
    BY <1>b, <1>d, <1>o, <1>q, <2>1 DEF SweepDeadletter, RunStep
  <2>2. ASSUME NEW k \in Caps, SweepRedrive(c, k) PROVE TypeOK'
    <3>1. BusStep
      BY <1>t, <2>2 DEF SweepRedrive, BusStep
    <3>2. QED BY <1>o, <1>q, <2>2, <3>1 DEF SweepRedrive, RowStep, RunStep
  <2>3. QED BY <1>6, <2>1, <2>2 DEF Sweep
<1>7. ASSUME NEW c \in Consumer, Time(c) PROVE TypeOK'
  <2>1. [row[c] EXCEPT !.expired = TRUE] \in RowState /\ [row[c] EXCEPT !.due = TRUE] \in RowState
    BY <1>t DEF RowState
  <2>2. RowStep
    BY <1>7, <2>1 DEF Time, LeaseExpires, BackoffPasses, RowStep
  <2>3. ObsStep
    BY <1>7, <1>c, <1>t DEF Time, LeaseExpires, BackoffPasses, ObsStep
  <2>4. QED BY <1>7, <1>b, <1>q, <2>2, <2>3 DEF Time, LeaseExpires, BackoffPasses, RunStep
<1>8. CASE UNCHANGED vars
  BY <1>8, <1>b, <1>o, <1>q DEF vars, RowStep, RunStep
<1>9. QED BY <1>1, <1>2, <1>3, <1>4, <1>5, <1>6, <1>7, <1>8 DEF Next

\* Every variable stays in the set it is said to range over, and a handler at
\* work always has the consumer and the entry it works on.
THEOREM TypeCorrect == Spec => []TypeOK
<1>1. QED BY TypeInit, TypeNext, PTL DEF Spec

-----------------------------------------------------------------------------
(* What the rows promise.  A consumer in Tx never has a committed          *)
(* reservation; a handler past its reservation has a row, and one that is  *)
(* about to complete has produced its effect.                              *)

Ledgered == {"takeover", "retake", "deadletter", "effect", "complete", "fail"}

HandlerInv(h) ==
  LET c == run[h].con IN
  /\ run[h].pc \in Ledgered => c \notin Tx /\ row[c].status # "none"
  /\ run[h].pc = "unledgered" => c \notin Tx
  /\ run[h].pc = "record" => c \in Tx
  /\ run[h].pc = "complete" => effects[c] >= 1

ConsumerInv(c) ==
  /\ c \in Tx => row[c].status # "delivering"
  /\ c \in Tx => effects[c] = excuses[c] + IF row[c].status = "delivered" THEN 1 ELSE 0
  /\ row[c].status = "delivered" => effects[c] >= 1
  /\ c \in reached \ swallowed => row[c].status # "none" \/ effects[c] >= 1

PromiseInv == /\ \A h \in Handler : HandlerInv(h)
              /\ \A c \in Consumer : ConsumerInv(c)

\* A step of one handler, or of none, on the row of one consumer: the row does
\* not go back to none, a finished one stays as it is, effects only grow.
Sole(h, c) ==
  /\ \A g \in Handler \ {h} : run'[g] = run[g]
  /\ \A d \in Consumer \ {c} : /\ row'[d] = row[d] /\ effects'[d] = effects[d]
                               /\ excuses'[d] = excuses[d]
                               /\ d \in reached' <=> d \in reached
  /\ swallowed \subseteq swallowed'
  /\ row[c].status # "none" => row'[c].status # "none"
  /\ effects'[c] >= effects[c]

LEMMA SolePreserves ==
  ASSUME TypeOK, TypeOK', PromiseInv, NEW h, NEW c \in Consumer, Sole(h, c),
         h \in Handler => HandlerInv(h)', ConsumerInv(c)'
  PROVE  PromiseInv'
<1>t. /\ \A g \in Handler : run[g].pc # "idle" => run[g].con \in Consumer
      /\ \A d \in Consumer : effects[d] \in Nat /\ effects'[d] \in Nat
  BY DEF TypeOK, At
<1>1. ASSUME NEW g \in Handler PROVE HandlerInv(g)'
  <2>1. CASE g = h
    BY <2>1
  <2>2. CASE g # h
    <3>1. run'[g] = run[g] /\ HandlerInv(g)
      BY <1>1, <2>2 DEF Sole, PromiseInv
    <3>2. \A d \in Consumer : /\ row[d].status # "none" => row'[d].status # "none"
                              /\ effects[d] >= 1 => effects'[d] >= 1
      BY <1>t DEF Sole
    <3>3. run[g].pc # "idle" => run[g].con \in Consumer
      BY <1>t
    <3>4. QED BY <3>1, <3>2, <3>3 DEF HandlerInv, Ledgered
  <2>3. QED BY <2>1, <2>2
<1>2. ASSUME NEW d \in Consumer PROVE ConsumerInv(d)'
  <2>1. CASE d = c
    BY <2>1
  <2>2. CASE d # c
    <3>1. /\ row'[d] = row[d] /\ effects'[d] = effects[d] /\ excuses'[d] = excuses[d]
          /\ d \in reached' \ swallowed' => d \in reached \ swallowed
      BY <2>2 DEF Sole
    <3>2. ConsumerInv(d)
      BY DEF PromiseInv
    <3>3. QED BY <3>1, <3>2 DEF ConsumerInv
  <2>3. QED BY <2>1, <2>2
<1>3. QED BY <1>1, <1>2 DEF PromiseInv

LEMMA PromiseNext == TypeOK /\ PromiseInv /\ [Next]_vars => PromiseInv'
<1> SUFFICES ASSUME TypeOK, PromiseInv, [Next]_vars, TypeOK' PROVE PromiseInv'
  BY TypeNext
<1> USE DEF bus, observers, bounds
<1>t. /\ row \in [Consumer -> RowState] /\ run \in [Handler -> RunState]
      /\ \A h \in Handler : Busy(run[h])
      /\ effects \in [Consumer -> Nat] /\ excuses \in [Consumer -> Nat]
      /\ reached \subseteq Consumer /\ open \in [Consumer -> SUBSET Entry]
  BY DEF TypeOK, RowState, RunState, Busy, At
<1>i. \A h \in Handler : run'[h] = Idle => HandlerInv(h)'
  BY DEF HandlerInv, Idle, Ledgered
\* Only the handler moves.
<1>m. ASSUME NEW h \in Handler, UNCHANGED <<row, effects, excuses, reached, swallowed>>,
             \A g \in Handler \ {h} : run'[g] = run[g], HandlerInv(h)'
      PROVE  PromiseInv'
  <2>1. \A g \in Handler : HandlerInv(g)'
    BY <1>m DEF PromiseInv, HandlerInv
  <2>2. \A c \in Consumer : ConsumerInv(c)'
    BY <1>m DEF PromiseInv, ConsumerInv
  <2>3. QED BY <2>1, <2>2 DEF PromiseInv
<1>a. ASSUME NEW h \in Handler, Ack(h)
      PROVE  /\ run'[h] = Idle /\ \A g \in Handler \ {h} : run'[g] = run[g]
             /\ HandlerInv(h)'
             /\ reached' = reached \cup {run[h].con}
  BY <1>a, <1>i, <1>t DEF Ack
<1>g. ASSUME NEW h \in Handler, NEW l, Goto(h, l)
      PROVE  /\ run'[h].pc = l /\ run'[h].con = run[h].con
             /\ \A g \in Handler \ {h} : run'[g] = run[g]
  BY <1>g, <1>t DEF Goto, RunState
<1>w. ASSUME NEW h \in Handler, Throw(h)
      PROVE  /\ run'[h] = Idle /\ \A g \in Handler \ {h} : run'[g] = run[g]
             /\ HandlerInv(h)' /\ UNCHANGED reached
  BY <1>w, <1>i, <1>t DEF Throw
<1>n. ASSUME NEW c \in Consumer
      PROVE  \A d \in Consumer \ {c} : /\ Count(effects, c)[d] = effects[d]
                                       /\ Count(excuses, c)[d] = excuses[d]
  BY <1>t DEF Count
<1>p. ASSUME NEW c \in Consumer
      PROVE  Count(effects, c)[c] = effects[c] + 1 /\ Count(excuses, c)[c] = excuses[c] + 1
  BY <1>t DEF Count
<1>c. \A c \in Consumer : effects[c] \in Nat /\ excuses[c] \in Nat /\ row[c] \in RowState
  BY <1>t
<1>1. ASSUME NEW h \in Handler, Step(h) PROVE PromiseInv'
  <2>a. ~At(h, "idle")
    BY <1>1 DEF Step, ReserveInsert, Takeover, ReserveDeadletter, ReserveError, Effect, EffectThrows,
         Complete, CompleteError, FailError, EffectUnledgered, ReserveSkip, ReserveLook, Retake,
         ReserveRace, Fail, TxDeliver, TxRollback, TxSkip, RecordFailure, At
  <2>c. PICK c \in Consumer : run[h].con = c
    BY <1>t, <2>a DEF Busy, At
  <2> USE <2>c
  <2>i. HandlerInv(h) /\ ConsumerInv(c)
    BY <2>c DEF PromiseInv
  <2>n. effects[c] \in Nat /\ excuses[c] \in Nat /\ row[c] \in RowState
    BY <1>c, <2>c
  \* A reservation.
  <2>1. ASSUME NEW n, NEW v, Lease(h, c, n, v), c \notin Tx,
               UNCHANGED <<effects, excuses, reached, swallowed>>
        PROVE  PromiseInv'
    <3>1. /\ \A g \in Handler \ {h} : run'[g] = run[g]
          /\ run'[h].pc = "effect" /\ run'[h].con = c
      BY <1>t, <2>1 DEF Lease, RunState
    <3>2. /\ \A d \in Consumer \ {c} : row'[d] = row[d]
          /\ row'[c].status = "delivering"
      BY <1>t, <2>1, <2>c DEF Lease
    <3>3. HandlerInv(h)'
      BY <2>1, <3>1, <3>2 DEF HandlerInv, Ledgered
    <3>4. ConsumerInv(c)'
      BY <2>1, <2>i, <3>2 DEF ConsumerInv
    <3>5. Sole(h, c)
      BY <2>1, <2>n, <3>1, <3>2 DEF Sole
    <3>6. QED BY <2>c, <3>3, <3>4, <3>5, SolePreserves
  <2>2. CASE ReserveInsert(h)
    BY <2>1, <2>2 DEF ReserveInsert
  <2>3. CASE Takeover(h)
    BY <2>1, <2>3, <2>i DEF Takeover, HandlerInv, Ledgered, At
  <2>4. ASSUME NEW k \in Caps, Retake(h, k) PROVE PromiseInv'
    BY <2>1, <2>4, <2>i DEF Retake, HandlerInv, Ledgered, At
  \* The row is left alone, or ended by its holder or a dead-letter, and the
  \* entry acknowledged.
  <2>5. ASSUME Ack(h), row[c].status # "none", row'[c].status \notin {"none", "delivering"}
                                               \/ row'[c] = row[c],
               \A d \in Consumer \ {c} : row'[d] = row[d],
               UNCHANGED <<effects, excuses, swallowed>>,
               row'[c].status = "delivered" => row[c].status = "delivered" \/ effects[c] >= 1,
               c \in Tx => (row'[c].status = "delivered" <=> row[c].status = "delivered")
        PROVE  PromiseInv'
    <3>1. ConsumerInv(c)'
      BY <2>5, <2>i, <2>n DEF ConsumerInv
    <3>2. Sole(h, c)
      BY <1>a, <2>5, <2>n DEF Sole
    <3>3. QED BY <1>a, <2>5, <2>c, <3>1, <3>2, SolePreserves
  <2>6. ASSUME NEW k \in Caps, ReserveSkip(h, k) \/ ReserveRace(h, k) PROVE PromiseInv'
    <3>1. Ack(h) /\ UNCHANGED <<row, effects, excuses, swallowed>>
      BY <2>6 DEF ReserveSkip, ReserveRace
    <3>2. row[c].status # "none"
      BY <2>6, <2>i DEF ReserveSkip, ReserveRace, HandlerInv, Ledgered, Terminal,
                        TerminalStatuses, At
    <3>3. QED BY <2>5, <3>1, <3>2
  <2>d. ASSUME Deadletter(c)
        PROVE  /\ \A d \in Consumer \ {c} : row'[d] = row[d]
               /\ row'[c] = row[c] \/ row'[c].status = "terminal_failed"
               /\ row'[c].status = "delivered" <=> row[c].status = "delivered"
               /\ row'[c].status # "none" <=> row[c].status # "none"
    <3>1. Finished(row[c], "terminal_failed").status = "terminal_failed"
      BY <2>n, FinishedRows, Places
    <3>2. QED BY <1>t, <2>c, <2>d, <3>1 DEF Deadletter
  <2>7. CASE ReserveDeadletter(h)
    <3>1. Ack(h) /\ Deadletter(c) /\ UNCHANGED <<effects, excuses, swallowed>>
      BY <2>7 DEF ReserveDeadletter
    <3>2. row[c].status # "none"
      BY <2>7, <2>i DEF ReserveDeadletter, HandlerInv, Ledgered, At
    <3>3. QED BY <2>5, <2>d, <3>1, <3>2
  <2>8. CASE Complete(h)
    <3>1. Ack(h) /\ UNCHANGED <<effects, excuses, swallowed>> /\ At(h, "complete")
      BY <2>8 DEF Complete
    <3>2. row[c].status # "none" /\ c \notin Tx /\ effects[c] >= 1
      BY <2>i, <3>1 DEF HandlerInv, Ledgered, At
    <3>3. Finished(row[c], "delivered").status = "delivered"
      BY <2>n, FinishedRows, Places
    <3>4. /\ \A d \in Consumer \ {c} : row'[d] = row[d]
          /\ row'[c] = row[c] \/ row'[c].status = "delivered"
      BY <1>t, <2>8, <2>c, <3>3 DEF Complete
    <3>5. QED BY <2>5, <3>1, <3>2, <3>4
  <2>9. ASSUME NEW k \in Caps, Fail(h, k) PROVE PromiseInv'
    <3>1. Ack(h) /\ UNCHANGED <<effects, excuses, swallowed>> /\ At(h, "fail")
      BY <2>9 DEF Fail
    <3>2. row[c].status # "none" /\ c \notin Tx
      BY <2>i, <3>1 DEF HandlerInv, Ledgered, At
    <3>3. Charged(row[c], k).status \in {"terminal_failed", "retryable_failed"}
      BY <2>n, RowsStayRows
    <3>4. /\ \A d \in Consumer \ {c} : row'[d] = row[d]
          /\ row'[c] = row[c] \/ row'[c].status \in {"terminal_failed", "retryable_failed"}
      BY <1>t, <2>9, <2>c, <3>3 DEF Fail
    <3>5. QED BY <2>5, <3>1, <3>2, <3>4
  \* Only the handler's place changes.
  <2>10. ASSUME NEW k \in Caps, ReserveLook(h, k) PROVE PromiseInv'
    <3>1. PICK l \in {"takeover", "retake", "deadletter"} : Goto(h, l)
      BY <2>10 DEF ReserveLook
    <3>2. c \notin Tx /\ row[c].status # "none" /\ UNCHANGED <<row, effects, excuses, reached, swallowed>>
      BY <2>10 DEF ReserveLook
    <3>3. HandlerInv(h)'
      BY <1>g, <3>1, <3>2 DEF HandlerInv, Ledgered
    <3>4. QED BY <1>g, <1>m, <3>1, <3>2, <3>3
  <2>11. ASSUME NEW k \in Caps, TxRollback(h, k) PROVE PromiseInv'
    <3>1. Goto(h, "record") /\ c \in Tx /\ UNCHANGED <<row, effects, excuses, reached, swallowed>>
      BY <2>11 DEF TxRollback
    <3>2. HandlerInv(h)'
      BY <1>g, <3>1 DEF HandlerInv, Ledgered
    <3>3. QED BY <1>g, <1>m, <3>1, <3>2
  <2>12. CASE ReserveError(h)
    <3>1. Goto(h, "unledgered") /\ c \notin Tx
          /\ UNCHANGED <<row, effects, excuses, reached, swallowed>>
      BY <2>12 DEF ReserveError
    <3>2. HandlerInv(h)'
      BY <1>g, <3>1 DEF HandlerInv, Ledgered
    <3>3. QED BY <1>g, <1>m, <3>1, <3>2
  <2>13. CASE FailError(h)
    BY <1>m, <1>w, <2>13 DEF FailError
  \* The effect, and what is reported of it.
  <2>14. ASSUME NEW l \in {"complete", "fail"}, Goto(h, l), run[h].pc \in Ledgered,
                UNCHANGED <<row, reached, swallowed>>,
                \A d \in Consumer \ {c} : effects'[d] = effects[d] /\ excuses'[d] = excuses[d],
                effects'[c] >= effects[c], l = "complete" => effects'[c] >= 1
         PROVE  PromiseInv'
    <3>1. c \notin Tx /\ row[c].status # "none"
      BY <2>14, <2>i DEF HandlerInv
    <3>2. HandlerInv(h)'
      BY <1>g, <2>14, <3>1 DEF HandlerInv, Ledgered
    <3>3. effects'[c] \in Nat
      BY <2>c DEF TypeOK
    <3>4. ConsumerInv(c)'
      BY <2>14, <2>i, <2>n, <3>1, <3>3 DEF ConsumerInv
    <3>5. Sole(h, c)
      BY <1>g, <2>14 DEF Sole
    <3>6. QED BY <2>c, <3>2, <3>4, <3>5, SolePreserves
  <2>15. CASE Effect(h)
    <3>1. Goto(h, "complete") /\ run[h].pc \in Ledgered
          /\ UNCHANGED <<row, reached, swallowed, excuses>> /\ effects' = Count(effects, c)
      BY <2>15 DEF Effect, At, Ledgered
    <3>2. QED BY <1>n, <1>p, <2>14, <2>c, <2>n, <3>1
  <2>16. CASE EffectThrows(h)
    <3>1. /\ Goto(h, "fail") /\ run[h].pc \in Ledgered /\ UNCHANGED <<row, reached, swallowed>>
          /\ \/ UNCHANGED <<effects, excuses>>
             \/ effects' = Count(effects, c) /\ excuses' = Count(excuses, c)
      BY <2>16 DEF EffectThrows, At, Ledgered
    <3>2. QED BY <1>n, <1>p, <2>14, <2>c, <2>n, <3>1
  <2>17. CASE CompleteError(h)
    <3>1. Goto(h, "fail") /\ run[h].pc \in Ledgered
          /\ UNCHANGED <<row, reached, swallowed, effects>> /\ excuses' = Count(excuses, c)
      BY <2>17 DEF CompleteError, At, Ledgered
    <3>2. QED BY <1>n, <1>p, <2>14, <2>c, <2>n, <3>1
  <2>18. CASE EffectUnledgered(h)
    <3>1. CASE Throw(h) /\ UNCHANGED <<row, effects, excuses, swallowed>>
      BY <1>m, <1>w, <3>1
    <3>2. CASE /\ Ack(h) /\ effects' = Count(effects, c) /\ excuses' = Count(excuses, c)
               /\ UNCHANGED <<row, swallowed>>
      <4>1. effects'[c] = effects[c] + 1 /\ excuses'[c] = excuses[c] + 1
        BY <1>p, <2>c, <3>2
      <4>2. ConsumerInv(c)'
        BY <2>i, <2>n, <3>2, <4>1 DEF ConsumerInv
      <4>3. Sole(h, c)
        BY <1>a, <1>n, <2>c, <2>n, <3>2, <4>1 DEF Sole
      <4>4. QED BY <1>a, <2>c, <3>2, <4>2, <4>3, SolePreserves
    <3>3. CASE Ack(h) /\ swallowed' = swallowed \cup {c} /\ UNCHANGED <<row, effects, excuses>>
      <4>1. ConsumerInv(c)'
        BY <2>i, <3>3 DEF ConsumerInv
      <4>2. Sole(h, c)
        BY <1>a, <2>n, <3>3 DEF Sole
      <4>3. QED BY <1>a, <2>c, <3>3, <4>1, <4>2, SolePreserves
    <3>4. QED BY <2>18, <3>1, <3>2, <3>3 DEF EffectUnledgered
  \* The transactional consumer.
  <2>19. ASSUME NEW k \in Caps, TxDeliver(h, k) PROVE PromiseInv'
    <3>1. Ack(h) /\ effects' = Count(effects, c) /\ UNCHANGED <<excuses, swallowed>> /\ c \in Tx
      BY <2>19 DEF TxDeliver
    <3>2. row[c].status # "delivered"
      BY <2>19 DEF TxDeliver, Reservable, ExpiredReservation, DueRetry
    <3>3. /\ \A d \in Consumer \ {c} : row'[d] = row[d]
          /\ row'[c].status = "delivered"
      BY <1>t, <2>19, <2>c, <2>n DEF TxDeliver, Finished, RowState
    <3>4. effects'[c] = effects[c] + 1
      BY <1>p, <2>c, <3>1
    <3>5. ConsumerInv(c)'
      BY <2>i, <2>n, <3>1, <3>2, <3>3, <3>4 DEF ConsumerInv
    <3>6. Sole(h, c)
      BY <1>a, <1>n, <2>c, <2>n, <3>1, <3>3, <3>4 DEF Sole
    <3>7. QED BY <1>a, <2>c, <3>1, <3>5, <3>6, SolePreserves
  <2>20. ASSUME NEW k \in Caps, TxSkip(h, k) PROVE PromiseInv'
    <3>1. Ack(h) /\ UNCHANGED <<effects, excuses, swallowed>> /\ (Deadletter(c) \/ UNCHANGED row)
      BY <2>20 DEF TxSkip
    <3>2. row[c].status # "none"
      BY <2>20 DEF TxSkip, Reservable
    <3>3. QED BY <2>5, <2>d, <3>1, <3>2
  <2>21. ASSUME NEW k \in Caps, RecordFailure(h, k) PROVE PromiseInv'
    <3>1. Ack(h) /\ UNCHANGED <<effects, excuses, swallowed>> /\ At(h, "record")
      BY <2>21 DEF RecordFailure
    <3>2. /\ \A d \in Consumer \ {c} : row'[d] = row[d]
          /\ row'[c] = Recorded(row[c], k)
      BY <1>t, <2>21, <2>c DEF RecordFailure
    <3>3. /\ row'[c].status \notin {"none", "delivering"}
          /\ row'[c].status = "delivered" <=> row[c].status = "delivered"
      <4>1. Charged(row[c], k).status \in {"terminal_failed", "retryable_failed"}
            /\ Recorded(row[c], k).status \notin {"none", "delivering"}
        BY <2>n, RowsStayRows
      <4>2. QED BY <3>2, <4>1 DEF Recorded
    <3>4. ConsumerInv(c)'
      BY <2>i, <2>n, <3>1, <3>3 DEF ConsumerInv
    <3>5. Sole(h, c)
      BY <1>a, <2>n, <3>1, <3>2, <3>3 DEF Sole
    <3>6. QED BY <1>a, <2>c, <3>1, <3>4, <3>5, SolePreserves
  <2>22. QED
    BY <1>1, <2>2, <2>3, <2>4, <2>6, <2>7, <2>8, <2>9, <2>10, <2>11, <2>12, <2>13, <2>15, <2>16,
       <2>17, <2>18, <2>19, <2>20, <2>21 DEF Step
<1>2. ASSUME NEW h \in Handler, Crash(h) PROVE PromiseInv'
  <2>1. Throw(h) /\ UNCHANGED <<row, swallowed>>
    BY <1>2 DEF Crash
  <2>2. CASE UNCHANGED <<effects, excuses>>
    BY <1>m, <1>w, <2>1, <2>2
  <2>3. CASE effects' = Count(effects, run[h].con) /\ excuses' = Count(excuses, run[h].con)
    <3>c. PICK c \in Consumer : run[h].con = c
      BY <1>2, <1>t DEF Crash, Busy, At
    <3>1. effects'[c] = effects[c] + 1 /\ excuses'[c] = excuses[c] + 1
      BY <1>p, <2>3, <3>c
    <3>2. ConsumerInv(c)
      BY <3>c DEF PromiseInv
    <3>3. ConsumerInv(c)'
      BY <1>c, <1>w, <2>1, <3>1, <3>2, <3>c DEF ConsumerInv
    <3>4. Sole(h, c)
      BY <1>c, <1>n, <1>w, <2>1, <2>3, <3>1, <3>c DEF Sole
    <3>5. QED BY <1>w, <2>1, <3>3, <3>4, <3>c, SolePreserves
  <2>4. QED BY <1>2, <2>2, <2>3 DEF Crash
<1>3. ASSUME NEW h \in Handler, Invoke(h) PROVE PromiseInv'
  <2>1. UNCHANGED <<row, effects, excuses, reached, swallowed>>
    BY <1>3 DEF Invoke, Start, StartDisconnected
  <2>2. PICK c \in Consumer : \E e \in open[c] : \E l \in {"gate", "bypass"}, n \in Caps \cup {NULL} :
          run' = [run EXCEPT ![h] = [pc |-> l, con |-> c, ent |-> e, held |-> NULL, cap |-> n]]
    BY <1>3 DEF Invoke, Start, StartDisconnected
  <2>3. run'[h].pc \in {"gate", "bypass"} /\ \A g \in Handler \ {h} : run'[g] = run[g]
    BY <1>t, <2>2
  <2>4. HandlerInv(h)'
    BY <2>3 DEF HandlerInv, Ledgered
  <2>5. QED BY <1>m, <2>1, <2>3, <2>4
\* Steps of the sweeper and of time.
<1>4. ASSUME NEW c \in Consumer, UNCHANGED <<run, effects, reached, swallowed>>,
             \A d \in Consumer \ {c} : row'[d] = row[d] /\ excuses'[d] = excuses[d],
             row[c].status \in {"retryable_failed", "delivering"},
             row'[c].status = row[c].status \/ row'[c].status = "terminal_failed",
             c \in Tx => UNCHANGED excuses
      PROVE  PromiseInv'
  <2>1. ConsumerInv(c)
    BY DEF PromiseInv
  <2>2. ConsumerInv(c)'
    BY <1>4, <2>1 DEF ConsumerInv
  <2>3. \A g \in Handler : HandlerInv(g)'
    <3> TAKE g \in Handler
    <3>1. HandlerInv(g) /\ run'[g] = run[g]
      BY <1>4 DEF PromiseInv
    <3>2. \A d \in Consumer : row[d].status # "none" => row'[d].status # "none"
      BY <1>4
    <3>3. run[g].pc # "idle" => run[g].con \in Consumer
      BY <1>t DEF Busy
    <3>4. QED BY <1>4, <3>1, <3>2, <3>3 DEF HandlerInv, Ledgered
  <2>4. \A d \in Consumer : ConsumerInv(d)'
    <3> TAKE d \in Consumer
    <3>1. CASE d = c
      BY <2>2, <3>1
    <3>2. CASE d # c
      <4>1. row'[d] = row[d] /\ excuses'[d] = excuses[d] /\ ConsumerInv(d)
        BY <1>4, <3>2 DEF PromiseInv
      <4>2. QED BY <1>4, <4>1 DEF ConsumerInv
    <3>3. QED BY <3>1, <3>2
  <2>5. QED BY <2>3, <2>4 DEF PromiseInv
<1>5. ASSUME NEW c \in Consumer, NEW k \in Caps, SweepDeadletter(c, k) PROVE PromiseInv'
  <2>1. Finished(row[c], "terminal_failed").status = "terminal_failed"
    BY <1>c, FinishedRows, Places
  <2>2. \A d \in Consumer \ {c} : row'[d] = row[d] /\ excuses'[d] = excuses[d]
    BY <1>5, <1>t DEF SweepDeadletter, Deadletter
  <2>3. row[c].status = "retryable_failed" /\ row'[c].status = "terminal_failed"
    BY <1>5, <1>t, <2>1 DEF SweepDeadletter, Deadletter
  <2>4. UNCHANGED <<run, effects, reached, swallowed, excuses>>
    BY <1>5 DEF SweepDeadletter
  <2>5. QED BY <1>4, <2>2, <2>3, <2>4
<1>6. ASSUME NEW c \in Consumer, LeaseExpires(c) PROVE PromiseInv'
  <2>1. UNCHANGED <<run, effects, reached, swallowed>> /\ row[c].status = "delivering"
        /\ excuses' = Count(excuses, c)
    BY <1>6 DEF LeaseExpires
  <2>2. \A d \in Consumer \ {c} : row'[d] = row[d] /\ excuses'[d] = excuses[d]
    BY <1>6, <1>n, <1>t, <2>1 DEF LeaseExpires
  <2>3. row'[c].status = row[c].status
    BY <1>6, <1>t DEF LeaseExpires, RowState
  <2>4. c \notin Tx
    BY <2>1 DEF PromiseInv, ConsumerInv
  <2>5. QED BY <1>4, <2>1, <2>2, <2>3, <2>4
<1>7. ASSUME NEW c \in Consumer, BackoffPasses(c) PROVE PromiseInv'
  <2>1. UNCHANGED <<run, effects, reached, swallowed, excuses>> /\ row[c].status = "retryable_failed"
    BY <1>7 DEF BackoffPasses
  <2>2. \A d \in Consumer \ {c} : row'[d] = row[d] /\ excuses'[d] = excuses[d]
    BY <1>7, <1>t, <2>1 DEF BackoffPasses
  <2>3. row'[c].status = row[c].status
    BY <1>7, <1>t DEF BackoffPasses, RowState
  <2>4. QED BY <1>4, <2>1, <2>2, <2>3
\* The bus moves.
<1>8. CASE UNCHANGED <<row, run, effects, excuses, reached, swallowed>>
  BY <1>8 DEF PromiseInv, HandlerInv, ConsumerInv
<1>9. ASSUME NEW c \in Consumer, \E e \in open[c] : DropDuplicate(c, e) PROVE PromiseInv'
  BY <1>8, <1>9 DEF DropDuplicate
<1>10. ASSUME NEW e \in Entry, Publish(e) \/ Republish(e) PROVE PromiseInv'
  BY <1>8, <1>10 DEF Publish, Republish
<1>11. ASSUME NEW c \in Consumer, Sweep(c) \/ Time(c) PROVE PromiseInv'
  <2>1. ASSUME NEW k \in Caps, SweepRedrive(c, k) PROVE PromiseInv'
    BY <1>8, <2>1 DEF SweepRedrive
  <2>2. QED BY <1>11, <1>5, <1>6, <1>7, <2>1 DEF Sweep, Time
<1>12. CASE UNCHANGED vars
  BY <1>8, <1>12 DEF vars
<1>13. QED BY <1>1, <1>2, <1>3, <1>9, <1>10, <1>11, <1>12 DEF Next

LEMMA PromiseAlways == Spec => []PromiseInv
<1>1. Init => PromiseInv
  <2> SUFFICES ASSUME Init PROVE PromiseInv
    OBVIOUS
  <2>1. \A h \in Handler : run[h].pc = "idle"
    BY DEF Init, Idle
  <2>2. \A c \in Consumer : row[c].status = "none" /\ effects[c] = 0 /\ excuses[c] = 0
    BY DEF Init, NoRow
  <2>3. QED BY <2>1, <2>2 DEF Init, PromiseInv, HandlerInv, ConsumerInv, Ledgered
<1>2. QED BY <1>1, PromiseNext, TypeCorrect, PTL DEF Spec

\* The effect of a transactional consumer has happened exactly as often as its
\* row reads 'delivered', beside those dispatched past the ledger.
THEOREM ExactlyOnce == Spec => []TxExactlyOnce
<1>1. TypeOK /\ PromiseInv => TxExactlyOnce
  <2> SUFFICES ASSUME PromiseInv, NEW c \in Tx
               PROVE  effects[c] = excuses[c] + IF row[c].status = "delivered" THEN 1 ELSE 0
    BY DEF TxExactlyOnce
  <2>1. c \in Consumer
    BY ConsumerAssumption
  <2>2. QED BY <2>1 DEF PromiseInv, ConsumerInv
<1>2. QED BY <1>1, PromiseAlways, TypeCorrect, PTL

\* A row that reads 'delivered' is never a promise: the effect has happened.
THEOREM DeliveredWasDone == Spec => []DeliveredMeansDone
<1>1. PromiseInv => DeliveredMeansDone
  BY DEF PromiseInv, ConsumerInv, DeliveredMeansDone
<1>2. QED BY <1>1, PromiseAlways, PTL

\* An acknowledged event has a row the sweeper comes back to, or its effect,
\* unless an un-gated dispatch swallowed the error.
THEOREM NothingAckedIsLost == Spec => []AcknowledgedNotLost
<1>1. TypeOK /\ PromiseInv => AcknowledgedNotLost
  <2> SUFFICES ASSUME TypeOK, PromiseInv, NEW c \in reached \ swallowed
               PROVE  row[c].status # "none" \/ effects[c] >= 1
    BY DEF AcknowledgedNotLost
  <2>1. c \in Consumer
    BY DEF TypeOK
  <2>2. QED BY <2>1 DEF PromiseInv, ConsumerInv
<1>2. QED BY <1>1, PromiseAlways, TypeCorrect, PTL

-----------------------------------------------------------------------------
(* Who moves a row.                                                        *)

\* A row that a step changes is not finished, and if it is leased it stays so
\* or is ended by the handler whose lease it is.
RowMove(c) ==
  row'[c] = row[c] \/ /\ ~Terminal(c)
                      /\ row[c].status = "delivering" =>
                           \/ row'[c].status = "delivering"
                           \/ \E h \in Handler :
                                /\ run[h].con = c /\ run[h].held = row[c].token
                                /\ run[h].pc \in {"complete", "fail"} /\ run'[h] = Idle

LEMMA RowMoves == TypeOK /\ PromiseInv /\ [Next]_vars => \A c \in Consumer : RowMove(c)
<1> SUFFICES ASSUME TypeOK, PromiseInv, [Next]_vars PROVE \A c \in Consumer : RowMove(c)
  OBVIOUS
<1>t. /\ row \in [Consumer -> RowState] /\ run \in [Handler -> RunState]
      /\ \A h \in Handler : run[h].pc # "idle" => run[h].con \in Consumer
  BY DEF TypeOK, RowState, RunState, At
<1>1. CASE UNCHANGED row
  BY <1>1 DEF RowMove
\* One row moves.
<1>2. ASSUME NEW c \in Consumer, NEW r, row' = [row EXCEPT ![c] = r],
             RowMove(c) \/ row[c].status \in {"none", "retryable_failed"}
                        \/ (row[c].status = "delivering" /\ r.status = "delivering")
      PROVE  \A d \in Consumer : RowMove(d)
  <2>1. row'[c] = r /\ \A d \in Consumer \ {c} : row'[d] = row[d]
    BY <1>2, <1>t
  <2>2. RowMove(c)
    BY <1>2, <2>1 DEF RowMove, Terminal, TerminalStatuses
  <2>3. \A d \in Consumer \ {c} : RowMove(d)
    BY <2>1 DEF RowMove
  <2>4. QED BY <2>2, <2>3
<1>d. ASSUME NEW c \in Consumer, Deadletter(c) PROVE \A d \in Consumer : RowMove(d)
  <2>1. CASE row[c].status = "retryable_failed"
    BY <1>2, <1>d, <2>1 DEF Deadletter
  <2>2. CASE row[c].status # "retryable_failed"
    BY <1>d, <1>t, <2>2 DEF Deadletter, RowMove
  <2>3. QED BY <2>1, <2>2
<1>3. ASSUME NEW h \in Handler, Step(h), ~UNCHANGED row PROVE \A c \in Consumer : RowMove(c)
  <2>c. PICK c \in Consumer : run[h].con = c
    BY <1>3, <1>t DEF Step, ReserveInsert, Takeover, ReserveDeadletter, ReserveError, Effect,
         EffectThrows, Complete, CompleteError, FailError, EffectUnledgered, ReserveSkip,
         ReserveLook, Retake, ReserveRace, Fail, TxDeliver, TxRollback, TxSkip, RecordFailure, At
  <2> USE <2>c
  <2>1. CASE ReserveInsert(h)
    BY <1>2, <2>1 DEF ReserveInsert, Lease
  <2>2. CASE Takeover(h)
    BY <1>2, <2>2 DEF Takeover, Lease, ExpiredReservation
  <2>3. ASSUME NEW k \in Caps, Retake(h, k) PROVE \A d \in Consumer : RowMove(d)
    BY <1>2, <2>3 DEF Retake, Lease, DueRetry
  <2>4. CASE ReserveDeadletter(h)
    BY <1>d, <2>4 DEF ReserveDeadletter
  <2>5. ASSUME NEW r, row' = [row EXCEPT ![c] = r], Fenced(h), run'[h] = Idle,
               run[h].pc \in {"complete", "fail"}
        PROVE  \A d \in Consumer : RowMove(d)
    <3>1. RowMove(c)
      BY <2>5 DEF RowMove, Fenced, Terminal, TerminalStatuses
    <3>2. QED BY <1>2, <2>5, <3>1
  <2>6. CASE Complete(h)
    <3>1. CASE Fenced(h)
      <4>1. row' = [row EXCEPT ![c] = Finished(row[c], "delivered")] /\ run'[h] = Idle
            /\ run[h].pc = "complete"
        BY <1>t, <2>6, <3>1 DEF Complete, Ack, At
      <4>2. QED BY <2>5, <3>1, <4>1
    <3>2. CASE ~Fenced(h)
      BY <1>3, <1>t, <2>6, <3>2 DEF Complete
    <3>3. QED BY <3>1, <3>2
  <2>7. ASSUME NEW k \in Caps, Fail(h, k) PROVE \A d \in Consumer : RowMove(d)
    <3>1. CASE Fenced(h)
      <4>1. row' = [row EXCEPT ![c] = Charged(row[c], k)] /\ run'[h] = Idle /\ run[h].pc = "fail"
        BY <1>t, <2>7, <3>1 DEF Fail, Ack, At
      <4>2. QED BY <2>5, <3>1, <4>1
    <3>2. CASE ~Fenced(h)
      BY <1>3, <1>t, <2>7, <3>2 DEF Fail
    <3>3. QED BY <3>1, <3>2
  <2>x. c \in Tx => row[c].status # "delivering"
    BY DEF PromiseInv, ConsumerInv
  <2>8. ASSUME NEW k \in Caps, TxDeliver(h, k) PROVE \A d \in Consumer : RowMove(d)
    <3>1. row[c].status \in {"none", "retryable_failed"}
      BY <2>8, <2>x DEF TxDeliver, Reservable, ExpiredReservation, DueRetry
    <3>2. \E r : row' = [row EXCEPT ![c] = r]
      BY <2>8 DEF TxDeliver
    <3>3. QED BY <1>2, <3>1, <3>2
  <2>9. ASSUME NEW k \in Caps, TxSkip(h, k) PROVE \A d \in Consumer : RowMove(d)
    BY <1>3, <1>d, <2>9 DEF TxSkip
  <2>10. ASSUME NEW k \in Caps, RecordFailure(h, k) PROVE \A d \in Consumer : RowMove(d)
    <3>1. c \in Tx
      BY <2>10 DEF RecordFailure, PromiseInv, HandlerInv, At
    <3>2. row' = [row EXCEPT ![c] = Recorded(row[c], k)]
      BY <2>10 DEF RecordFailure
    <3>3. row[c].status \in {"none", "retryable_failed"}
      BY <1>3, <1>t, <2>x, <3>1, <3>2 DEF Recorded
    <3>4. QED BY <1>2, <3>2, <3>3
  <2>11. QED
    BY <1>3, <2>1, <2>2, <2>3, <2>4, <2>6, <2>7, <2>8, <2>9, <2>10
       DEF Step, ReserveError, Effect, EffectThrows, CompleteError, FailError, EffectUnledgered,
           ReserveSkip, ReserveLook, ReserveRace, TxRollback, bus
<1>4. ASSUME NEW c \in Consumer, Sweep(c) PROVE \A d \in Consumer : RowMove(d)
  BY <1>1, <1>4, <1>d DEF Sweep, SweepDeadletter, SweepRedrive
<1>5. ASSUME NEW c \in Consumer, Time(c) PROVE \A d \in Consumer : RowMove(d)
  <2>1. CASE LeaseExpires(c)
    <3>1. row' = [row EXCEPT ![c] = [row[c] EXCEPT !.expired = TRUE]]
          /\ row[c].status = "delivering"
      BY <2>1 DEF LeaseExpires
    <3>2. [row[c] EXCEPT !.expired = TRUE].status = row[c].status
      BY <1>t DEF RowState
    <3>3. QED BY <1>2, <3>1, <3>2
  <2>2. CASE BackoffPasses(c)
    <3>1. row' = [row EXCEPT ![c] = [row[c] EXCEPT !.due = TRUE]]
          /\ row[c].status = "retryable_failed"
      BY <2>2 DEF BackoffPasses
    <3>2. QED BY <1>2, <3>1
  <2>3. QED BY <1>5, <2>1, <2>2 DEF Time
<1>6. ASSUME NEW h \in Handler, Invoke(h) \/ Crash(h) PROVE UNCHANGED row
  BY <1>6 DEF Invoke, Start, StartDisconnected, Crash
<1>7. ASSUME NEW c \in Consumer, NEW e \in open[c], DropDuplicate(c, e) PROVE UNCHANGED row
  BY <1>7 DEF DropDuplicate
<1>8. ASSUME NEW e \in Entry, Publish(e) \/ Republish(e) PROVE UNCHANGED row
  BY <1>8 DEF Publish, Republish
<1>9. CASE UNCHANGED vars
  BY <1>1, <1>9 DEF vars
<1>10. QED BY <1>1, <1>3, <1>4, <1>5, <1>6, <1>7, <1>8, <1>9 DEF Next

\* A finished row is never reopened, downgraded or rewritten, by handlers,
\* sweeper, transactions or the unfenced failure record.
THEOREM FinishedForever == Spec => TerminalIsFinal
<1>1. TypeOK /\ PromiseInv /\ [Next]_vars =>
        [\A c \in Consumer : Terminal(c) => row'[c] = row[c]]_vars
  BY RowMoves DEF RowMove
<1>2. QED BY <1>1, PromiseAlways, TypeCorrect, PTL DEF Spec, TerminalIsFinal

\* A committed reservation is ended by the handler whose lease it is: no
\* transaction and no unfenced failure record meets one.
THEOREM HolderAloneEnds == Spec => OnlyHolderEnds
<1>1. TypeOK /\ PromiseInv /\ [Next]_vars =>
        [\A c \in Consumer :
           row[c].status = "delivering" /\ row'[c].status # "delivering" =>
             \E h \in Handler : run[h].con = c /\ run[h].held = row[c].token
                                /\ run[h].pc \in {"complete", "fail"} /\ run'[h] = Idle]_vars
  BY RowMoves DEF RowMove
<1>2. QED BY <1>1, PromiseAlways, TypeCorrect, PTL DEF Spec, OnlyHolderEnds

-----------------------------------------------------------------------------
(* The accounts of a consumer: what its duplicates are paid with, and what *)
(* its attempts are charged with.                                          *)

\* A set of numbers has a least one (from the initial segments it spans).
LEMMA OldestOf ==
  ASSUME NEW S \in SUBSET Nat, S # {}
  PROVE  \E x \in S : \A y \in S : x <= y
<1> DEFINE Upto(x) == 1 .. x
           T == {Upto(x) : x \in S}
<1>1. T \subseteq FiniteSubsetsOf(Nat) /\ T # {}
  <2>1. \A x \in S : Upto(x) \in FiniteSubsetsOf(Nat)
    <3>1. ASSUME NEW x \in S PROVE IsFiniteSet(Upto(x)) /\ Upto(x) \subseteq Nat
      <4>1. 1 \in Int /\ x \in Int
        OBVIOUS
      <4>2. QED BY <4>1, FS_Interval
    <3>2. QED BY <3>1 DEF FiniteSubsetsOf
  <2>2. QED BY <2>1
<1>2. PICK X \in T : \A Y \in T : <<Y, X>> \notin StrictSubsetOrdering(Nat)
  <2> HIDE DEF T
  <2>1. QED BY <1>1, FS_StrictSubsetOrderingWellFounded, WFMin
<1>3. PICK x \in S : X = Upto(x)
  BY <1>2
<1>4. ASSUME NEW y \in S PROVE x <= y
  <2>1. ~(Upto(y) \subseteq Upto(x) /\ Upto(y) # Upto(x))
    <3>1. Upto(y) \in T /\ Upto(y) \subseteq Nat /\ Upto(x) \subseteq Nat
      OBVIOUS
    <3>2. <<Upto(y), Upto(x)>> \notin StrictSubsetOrdering(Nat)
      <4> HIDE DEF T
      <4>1. QED BY <1>2, <1>3, <3>1
    <3> HIDE DEF Upto
    <3>3. QED BY <3>1, <3>2 DEF StrictSubsetOrdering
  <2>2. SUFFICES ASSUME y < x PROVE FALSE
    OBVIOUS
  <2>3. Upto(y) \subseteq Upto(x) /\ x \in Upto(x) /\ x \notin Upto(y)
    BY <2>2
  <2>4. QED BY <2>1, <2>3
<1>5. QED BY <1>4

LEMMA CapMinFacts == CapMin \in Caps /\ CapMin \in Nat \ {0} /\ \A k \in Caps : k \in Nat /\ CapMin <= k
<1>1. Caps \in SUBSET Nat /\ Caps # {} /\ 0 \notin Caps
  BY CapsAssumption
<1>2. \E k \in Caps : \A j \in Caps : k <= j
  BY <1>1, OldestOf
<1>3. CapMin \in Caps /\ \A j \in Caps : CapMin <= j
  BY <1>2 DEF CapMin
<1>4. QED BY <1>1, <1>3

Flag(b) == IF b THEN 1 ELSE 0

\* Handlers whose effect may still happen, or whose failure may put the row back.
Effecting == {"effect", "fail"}
Working(c) == {h \in Handler : run[h].con = c /\ run[h].pc \in Effecting}

\* A row that can be reserved, now or after a backoff.
Renewable(r) ==
  r.status \in {"none", "retryable_failed"} \/ (r.status = "delivering" /\ r.expired)

\* An effect still to come is paid for like one that has happened.
Paid(c) ==
  /\ IsFiniteSet(Working(c))
  /\ effects[c] + Cardinality(Working(c)) + Flag(Renewable(row[c])) <= 1 + excuses[c]

\* A failure is charged once to a transactional consumer.  Every other one pays
\* once more when it reserves again.
Charges(c) ==
  /\ row[c].status = "none" => row[c].attempts = 0 /\ failures[c] = 0
  /\ c \in Tx /\ row[c].status \in {"retryable_failed", "terminal_failed"} =>
       row[c].attempts = failures[c]
  /\ c \notin Tx /\ row[c].status = "delivering" => row[c].attempts = 2 * failures[c]
  /\ c \notin Tx /\ row[c].status \in {"retryable_failed", "terminal_failed"} =>
       row[c].attempts = 2 * failures[c] - 1
  /\ row[c].status = "terminal_failed" => row[c].attempts >= CapMin

CappedOut(h) == run[h].pc = "deadletter" => row[run[h].con].attempts >= CapMin

AccountInv ==
  /\ \A c \in Consumer : Paid(c) /\ Charges(c)
  /\ \A h \in Handler : CappedOut(h)

\* The attempts of a row once it is leased.
Reserved(r) ==
  IF r.status = "none" THEN 0 ELSE r.attempts + Flag(r.status = "retryable_failed")

\* What one step does to the row and the observers of its consumer.
Observed(c, e, x, f) ==
  effects'[c] = effects[c] + e /\ excuses'[c] = excuses[c] + x /\ failures'[c] = failures[c] + f

Passes(c, from, to) ==
  /\ row'[c] = row[c] /\ Observed(c, 0, 0, 0)
  /\ to \in Effecting => from \in Effecting
  /\ to = "deadletter" => row[c].attempts >= CapMin
Leases(c, from, to) ==
  /\ Renewable(row[c]) /\ row'[c].status = "delivering" /\ ~row'[c].expired
  /\ row'[c].attempts = Reserved(row[c])
  /\ Observed(c, 0, 0, 0) /\ c \notin Tx /\ from \notin Effecting /\ to = "effect"
Effects(c, from, to) ==
  row'[c] = row[c] /\ Observed(c, 1, 0, 0) /\ from = "effect" /\ to = "complete"
Excused(c, from, to) ==
  /\ row'[c] = row[c] /\ (Observed(c, 1, 1, 0) \/ Observed(c, 0, 1, 0))
  /\ to = "fail" => from \in {"effect", "complete"} /\ (from = "complete" => Observed(c, 0, 1, 0))
  /\ to \in {"idle", "fail"}
Delivers(c, from, to) ==
  /\ row'[c].status = "delivered" /\ row'[c].attempts >= row[c].attempts /\ to = "idle"
  /\ \/ Observed(c, 0, 0, 0)
     \/ Observed(c, 1, 0, 0) /\ Renewable(row[c]) /\ from \notin Effecting
Charge(c, from, to) ==
  /\ IF c \in Tx THEN row[c].status \in {"none", "retryable_failed"} /\ from \notin Effecting
                 ELSE row[c].status = "delivering" /\ from = "fail"
  /\ row'[c].attempts = row[c].attempts + 1
  /\ row'[c].status \in {"retryable_failed", "terminal_failed"}
  /\ row'[c].status = "terminal_failed" => row'[c].attempts >= CapMin
  /\ Observed(c, 0, 0, 1) /\ to = "idle"
GivesUp(c, from, to) ==
  /\ row[c].status = "retryable_failed" /\ row[c].attempts >= CapMin
  /\ row'[c].status = "terminal_failed" /\ row'[c].attempts = row[c].attempts
  /\ Observed(c, 0, 0, 0) /\ to = "idle"

Turn(c, from, to) ==
  \/ Passes(c, from, to) \/ Leases(c, from, to) \/ Effects(c, from, to) \/ Excused(c, from, to)
  \/ Delivers(c, from, to) \/ Charge(c, from, to) \/ GivesUp(c, from, to)

\* The step is the handler's, and the account its consumer's.
Only(h, c) ==
  /\ \A g \in Handler \ {h} : run'[g] = run[g]
  /\ \A d \in Consumer \ {c} : row'[d] = row[d] /\ Observed(d, 0, 0, 0)
  /\ run[h].con = c /\ (run'[h].con = c \/ run'[h].pc = "idle")

\* A handler enters or leaves the set of those at work for a consumer.
LEMMA WorkingTurn ==
  ASSUME NEW h \in Handler, NEW c \in Consumer, \A g \in Handler \ {h} : run'[g] = run[g],
         IsFiniteSet(Working(c))
  PROVE  /\ IsFiniteSet(Working(c)') /\ Cardinality(Working(c)) \in Nat
         /\ Cardinality(Working(c)') = Cardinality(Working(c)) + Flag((h \in Working(c))')
                                                              - Flag(h \in Working(c))
<1>1. Cardinality(Working(c)) \in Nat
  BY FS_CardinalityType
<1>2. \A g \in Handler \ {h} : g \in Working(c)' <=> g \in Working(c)
  BY DEF Working
<1>3. Working(c) \subseteq Handler /\ Working(c)' \subseteq Handler
  BY DEF Working
<1>4. CASE h \in Working(c)' /\ h \notin Working(c)
  <2>1. Working(c)' = Working(c) \cup {h}
    BY <1>2, <1>3, <1>4
  <2>2. QED BY <1>1, <1>4, <2>1, FS_AddElement DEF Flag
<1>5. CASE h \notin Working(c)' /\ h \in Working(c)
  <2>1. Working(c)' = Working(c) \ {h}
    BY <1>2, <1>3, <1>5
  <2>2. QED BY <1>1, <1>5, <2>1, FS_RemoveElement DEF Flag
<1>6. CASE h \in Working(c)' <=> h \in Working(c)
  <2>1. Working(c)' = Working(c)
    BY <1>2, <1>3, <1>6
  <2>2. QED BY <1>1, <1>6, <2>1 DEF Flag
<1>7. QED BY <1>4, <1>5, <1>6

\* What the statements do to the accounts of a row.
LEMMA ChargedRow ==
  ASSUME NEW r \in RowState, NEW k \in Caps
  PROVE  /\ Charged(r, k).attempts = r.attempts + 1
         /\ Charged(r, k).status \in {"retryable_failed", "terminal_failed"}
         /\ Charged(r, k).status = "terminal_failed" => r.attempts + 1 >= CapMin
<1>1. \A st \in {"terminal_failed", "retryable_failed"} :
        LET q == Finished([r EXCEPT !.attempts = r.attempts + 1], st)
        IN  q.attempts = r.attempts + 1 /\ q.status = st
            /\ [q EXCEPT !.due = FALSE].attempts = r.attempts + 1
            /\ [q EXCEPT !.due = FALSE].status = st
  BY DEF Finished, RowState
<1>2. k \in Nat /\ CapMin <= k /\ CapMin \in Nat /\ r.attempts \in Nat
  BY CapMinFacts DEF RowState
<1>3. r.attempts + 1 >= k => r.attempts + 1 >= CapMin
  BY <1>2
<1>4. CASE r.attempts + 1 >= k
  BY <1>1, <1>3, <1>4 DEF Charged
<1>5. CASE ~(r.attempts + 1 >= k)
  BY <1>1, <1>5 DEF Charged
<1>6. QED BY <1>4, <1>5

\* Every step of a handler is a turn of the account of its consumer.
LEMMA Turns ==
  ASSUME TypeOK, PromiseInv, NEW h \in Handler, CappedOut(h), Step(h) \/ Crash(h)
  PROVE  \E c \in Consumer : Only(h, c) /\ Turn(c, run[h].pc, run'[h].pc)
<1> USE DEF bus, observers, bounds
<1>t. /\ row \in [Consumer -> RowState] /\ run \in [Handler -> RunState]
      /\ effects \in [Consumer -> Nat] /\ excuses \in [Consumer -> Nat]
      /\ failures \in [Consumer -> Nat] /\ Busy(run[h])
  BY DEF TypeOK, RowState, RunState, Busy, At
<1>a. ~At(h, "idle")
  BY DEF Step, ReserveInsert, Takeover, ReserveDeadletter, ReserveError, Effect, EffectThrows,
       Complete, CompleteError, FailError, EffectUnledgered, ReserveSkip, ReserveLook, Retake,
       ReserveRace, Fail, TxDeliver, TxRollback, TxSkip, RecordFailure, At, Crash
<1>c. PICK c \in Consumer : run[h].con = c
  BY <1>t, <1>a DEF Busy, At
<1> USE <1>c
<1>i. HandlerInv(h) /\ ConsumerInv(c)
  BY DEF PromiseInv
<1>n. /\ effects[c] \in Nat /\ excuses[c] \in Nat /\ failures[c] \in Nat /\ row[c] \in RowState
      /\ row[c].attempts \in Nat
  BY <1>t DEF RowState
<1>p. /\ Count(effects, c)[c] = effects[c] + 1 /\ Count(excuses, c)[c] = excuses[c] + 1
      /\ Count(failures, c)[c] = failures[c] + 1
      /\ \A d \in Consumer \ {c} : /\ Count(effects, c)[d] = effects[d]
                                   /\ Count(excuses, c)[d] = excuses[d]
                                   /\ Count(failures, c)[d] = failures[d]
  BY <1>t DEF Count
<1>z. \A d \in Consumer : effects[d] + 0 = effects[d] /\ excuses[d] + 0 = excuses[d]
                          /\ failures[d] + 0 = failures[d]
  BY <1>t
<1>q. ASSUME Only(h, c), Turn(c, run[h].pc, run'[h].pc)
      PROVE  \E d \in Consumer : Only(h, d) /\ Turn(d, run[h].pc, run'[h].pc)
  BY <1>q
\* The three ways a handler moves on.
<1>k. ASSUME Ack(h) \/ Throw(h)
      PROVE  run'[h] = Idle /\ run'[h].pc = "idle" /\ \A g \in Handler \ {h} : run'[g] = run[g]
  BY <1>k, <1>t DEF Ack, Throw, Idle
<1>g. ASSUME NEW l, Goto(h, l)
      PROVE  /\ run'[h].pc = l /\ run'[h].con = run[h].con
             /\ \A g \in Handler \ {h} : run'[g] = run[g]
  BY <1>g, <1>t DEF Goto, RunState
\* The ways the observers move.
<1>o. ASSUME UNCHANGED <<effects, excuses, failures>>
      PROVE  \A d \in Consumer : Observed(d, 0, 0, 0)
  BY <1>o, <1>z DEF Observed
<1>e. ASSUME effects' = Count(effects, c), UNCHANGED <<excuses, failures>>
      PROVE  Observed(c, 1, 0, 0) /\ \A d \in Consumer \ {c} : Observed(d, 0, 0, 0)
  BY <1>e, <1>p, <1>z DEF Observed
<1>x. ASSUME excuses' = Count(excuses, c), UNCHANGED <<effects, failures>>
      PROVE  Observed(c, 0, 1, 0) /\ \A d \in Consumer \ {c} : Observed(d, 0, 0, 0)
  BY <1>x, <1>p, <1>z DEF Observed
<1>b. ASSUME effects' = Count(effects, c), excuses' = Count(excuses, c), UNCHANGED failures
      PROVE  Observed(c, 1, 1, 0) /\ \A d \in Consumer \ {c} : Observed(d, 0, 0, 0)
  BY <1>b, <1>p, <1>z DEF Observed
<1>f. ASSUME failures' = Count(failures, c), UNCHANGED <<effects, excuses>>
      PROVE  Observed(c, 0, 0, 1) /\ \A d \in Consumer \ {c} : Observed(d, 0, 0, 0)
  BY <1>f, <1>p, <1>z DEF Observed
<1>w. ASSUME NEW r, row' = [row EXCEPT ![c] = r]
      PROVE  row'[c] = r /\ \A d \in Consumer \ {c} : row'[d] = row[d]
  BY <1>w, <1>t
\* Nothing but the handler moves.
<1>s. ASSUME UNCHANGED <<row, effects, excuses, failures>>, Ack(h) \/ Throw(h)
      PROVE  Only(h, c) /\ Turn(c, run[h].pc, run'[h].pc)
  <2>1. Only(h, c)
    BY <1>s, <1>o, <1>k DEF Only
  <2>2. Passes(c, run[h].pc, run'[h].pc)
    BY <1>s, <1>o, <1>k DEF Passes, Effecting
  <2>3. QED BY <2>1, <2>2 DEF Turn
<1>r. ASSUME UNCHANGED <<row, effects, excuses, failures>>, NEW l, Goto(h, l),
             l \in Effecting => run[h].pc \in Effecting,
             l = "deadletter" => row[c].attempts >= CapMin
      PROVE  Only(h, c) /\ Turn(c, run[h].pc, run'[h].pc)
  <2>1. Only(h, c)
    BY <1>r, <1>o, <1>g DEF Only
  <2>2. Passes(c, run[h].pc, run'[h].pc)
    BY <1>r, <1>o, <1>g DEF Passes
  <2>3. QED BY <2>1, <2>2 DEF Turn
<1>l. ASSUME NEW n, NEW v, Lease(h, c, n, v), c \notin Tx, Renewable(row[c]),
             n = Reserved(row[c]),
             run[h].pc \in {"gate", "takeover", "retake"},
             UNCHANGED <<effects, excuses, failures>>
      PROVE  Only(h, c) /\ Turn(c, run[h].pc, run'[h].pc)
  <2>1. /\ run'[h].pc = "effect" /\ run'[h].con = c
        /\ \A g \in Handler \ {h} : run'[g] = run[g]
    BY <1>l, <1>t DEF Lease, RunState
  <2>2. /\ row'[c].status = "delivering" /\ ~row'[c].expired /\ row'[c].attempts = n
        /\ \A d \in Consumer \ {c} : row'[d] = row[d]
    BY <1>l, <1>t DEF Lease
  <2>3. Only(h, c)
    BY <1>l, <1>o, <2>1, <2>2 DEF Only
  <2>4. Leases(c, run[h].pc, run'[h].pc)
    BY <1>l, <1>o, <2>1, <2>2 DEF Leases, Effecting
  <2>5. QED BY <2>3, <2>4 DEF Turn
<1>d. ASSUME Deadletter(c), row[c].attempts >= CapMin, Ack(h),
             UNCHANGED <<effects, excuses, failures>>
      PROVE  Only(h, c) /\ Turn(c, run[h].pc, run'[h].pc)
  <2>1. CASE row[c].status = "retryable_failed"
    <3>1. row'[c] = Finished(row[c], "terminal_failed") /\ \A d \in Consumer \ {c} : row'[d] = row[d]
      BY <1>d, <1>t, <2>1 DEF Deadletter
    <3>2. row'[c].status = "terminal_failed" /\ row'[c].attempts = row[c].attempts
      BY <3>1, <1>n DEF Finished, RowState
    <3>3. Only(h, c)
      BY <1>d, <1>o, <1>k, <3>1 DEF Only
    <3>4. GivesUp(c, run[h].pc, run'[h].pc)
      BY <1>d, <1>o, <1>k, <2>1, <3>2 DEF GivesUp
    <3>5. QED BY <3>3, <3>4 DEF Turn
  <2>2. CASE row[c].status # "retryable_failed"
    BY <1>d, <1>s, <1>t, <2>2 DEF Deadletter
  <2>3. QED BY <2>1, <2>2
<1>v. ASSUME NEW k \in Caps PROVE k \in Nat /\ CapMin \in Nat /\ CapMin <= k
  BY CapMinFacts
<1>1. CASE ReserveInsert(h)
  <2>1. /\ c \notin Tx /\ Lease(h, c, 0, 0) /\ row[c].status = "none" /\ run[h].pc = "gate"
        /\ UNCHANGED <<effects, excuses, failures>>
    BY <1>1 DEF ReserveInsert, At
  <2>2. Renewable(row[c]) /\ 0 = Reserved(row[c])
    BY <2>1 DEF Renewable, Reserved
  <2>3. Only(h, c) /\ Turn(c, run[h].pc, run'[h].pc)
    BY <1>l, <2>1, <2>2
  <2>4. QED BY <1>q, <2>3
<1>2. CASE Takeover(h)
  <2>1. /\ Lease(h, c, row[c].attempts, row[c].version + 1) /\ Renewable(row[c])
        /\ row[c].status = "delivering" /\ run[h].pc = "takeover"
        /\ UNCHANGED <<effects, excuses, failures>>
    BY <1>2 DEF Takeover, At, ExpiredReservation, Renewable
  <2>2. c \notin Tx /\ row[c].attempts = Reserved(row[c])
    BY <2>1, <1>i, <1>n DEF HandlerInv, Ledgered, Flag, Reserved
  <2>3. Only(h, c) /\ Turn(c, run[h].pc, run'[h].pc)
    BY <1>l, <2>1, <2>2
  <2>4. QED BY <1>q, <2>3
<1>3. ASSUME NEW k \in Caps, Retake(h, k)
      PROVE  Only(h, c) /\ Turn(c, run[h].pc, run'[h].pc)
  <2>1. /\ Lease(h, c, row[c].attempts + 1, row[c].version + 1) /\ Renewable(row[c])
        /\ row[c].status = "retryable_failed" /\ run[h].pc = "retake"
        /\ UNCHANGED <<effects, excuses, failures>>
    BY <1>3 DEF Retake, At, DueRetry, Renewable
  <2>2. c \notin Tx /\ row[c].attempts + 1 = Reserved(row[c])
    BY <2>1, <1>i DEF HandlerInv, Ledgered, Flag, Reserved
  <2>3. QED BY <1>l, <2>1, <2>2
<1>4. CASE ReserveDeadletter(h)
  <2>1. row[c].attempts >= CapMin
    BY <1>4 DEF ReserveDeadletter, At, CappedOut
  <2>2. Only(h, c) /\ Turn(c, run[h].pc, run'[h].pc)
    BY <1>4, <1>d, <2>1 DEF ReserveDeadletter
  <2>3. QED BY <1>q, <2>2
<1>5. ASSUME NEW k \in Caps, ReserveSkip(h, k) \/ ReserveRace(h, k)
      PROVE  Only(h, c) /\ Turn(c, run[h].pc, run'[h].pc)
  BY <1>5, <1>s DEF ReserveSkip, ReserveRace
<1>6. ASSUME NEW k \in Caps, ReserveLook(h, k) \/ TxRollback(h, k)
      PROVE  Only(h, c) /\ Turn(c, run[h].pc, run'[h].pc)
  <2>1. row[c].attempts >= k => row[c].attempts >= CapMin
    BY <1>n, <1>v
  <2>2. PICK l \in {"takeover", "retake", "deadletter", "record"} :
          Goto(h, l) /\ (l = "deadletter" => row[c].attempts >= CapMin)
    BY <1>6, <2>1 DEF ReserveLook, TxRollback
  <2>3. l \notin Effecting
    BY DEF Effecting
  <2>4. UNCHANGED <<row, effects, excuses, failures>>
    BY <1>6 DEF ReserveLook, TxRollback
  <2>5. QED BY <1>r, <2>2, <2>3, <2>4
<1>7. CASE ReserveError(h)
  <2>1. /\ Goto(h, "unledgered") /\ "unledgered" \notin Effecting
        /\ UNCHANGED <<row, effects, excuses, failures>>
    BY <1>7 DEF ReserveError, Effecting
  <2>2. QED BY <1>q, <1>r, <2>1
<1>8. CASE CompleteError(h)
  <2>1. /\ run[h].pc = "complete" /\ Goto(h, "fail") /\ excuses' = Count(excuses, c)
        /\ UNCHANGED <<row, effects, failures>>
    BY <1>8 DEF CompleteError, At
  <2>2. Only(h, c)
    BY <1>g, <1>x, <2>1 DEF Only
  <2>3. Excused(c, run[h].pc, run'[h].pc)
    BY <1>g, <1>x, <2>1 DEF Excused
  <2>4. QED BY <1>q, <2>2, <2>3 DEF Turn
<1>9. CASE Effect(h)
  <2>1. /\ run[h].pc = "effect" /\ Goto(h, "complete") /\ effects' = Count(effects, c)
        /\ UNCHANGED <<row, excuses, failures>>
    BY <1>9 DEF Effect, At
  <2>2. Only(h, c)
    BY <1>g, <1>e, <2>1 DEF Only
  <2>3. Effects(c, run[h].pc, run'[h].pc)
    BY <1>g, <1>e, <2>1 DEF Effects
  <2>4. QED BY <1>q, <2>2, <2>3 DEF Turn
<1>10. CASE EffectThrows(h)
  <2>1. run[h].pc = "effect" /\ Goto(h, "fail") /\ UNCHANGED <<row, failures>>
    BY <1>10 DEF EffectThrows, At
  <2>2. CASE UNCHANGED <<effects, excuses>>
    <3>1. run[h].pc \in Effecting
      BY <2>1 DEF Effecting
    <3>2. QED BY <1>q, <1>r, <2>1, <2>2, <3>1
  <2>3. CASE effects' = Count(effects, c) /\ excuses' = Count(excuses, c)
    <3>1. Only(h, c)
      BY <1>g, <1>b, <2>1, <2>3 DEF Only
    <3>2. Excused(c, run[h].pc, run'[h].pc)
      BY <1>g, <1>b, <2>1, <2>3 DEF Excused
    <3>3. QED BY <1>q, <3>1, <3>2 DEF Turn
  <2>4. QED BY <1>10, <2>2, <2>3 DEF EffectThrows
<1>11. CASE Complete(h)
  <2>1. Ack(h) /\ UNCHANGED <<effects, excuses, failures>> /\ run[h].pc = "complete"
    BY <1>11 DEF Complete, At
  <2>2. CASE Fenced(h)
    <3>1. row'[c] = Finished(row[c], "delivered") /\ \A d \in Consumer \ {c} : row'[d] = row[d]
      BY <1>11, <1>t, <2>2 DEF Complete
    <3>2. row'[c].status = "delivered" /\ row'[c].attempts = row[c].attempts
      BY <3>1, <1>n DEF Finished, RowState
    <3>3. Only(h, c)
      BY <1>k, <1>o, <2>1, <3>1 DEF Only
    <3>4. Delivers(c, run[h].pc, run'[h].pc)
      BY <1>k, <1>n, <1>o, <2>1, <3>2 DEF Delivers
    <3>5. QED BY <1>q, <3>3, <3>4 DEF Turn
  <2>3. CASE ~Fenced(h)
    <3>1. row' = row
      BY <1>11, <1>t, <2>3 DEF Complete
    <3>2. QED BY <1>q, <1>s, <2>1, <3>1
  <2>4. QED BY <2>2, <2>3
\* A failure charged to the row.
<1>y. ASSUME NEW k \in Caps, row' = [row EXCEPT ![c] = Charged(row[c], k)],
             failures' = Count(failures, c), UNCHANGED <<effects, excuses>>, Ack(h),
             IF c \in Tx THEN row[c].status \in {"none", "retryable_failed"} /\ run[h].pc = "record"
                         ELSE row[c].status = "delivering" /\ run[h].pc = "fail"
      PROVE  Only(h, c) /\ Turn(c, run[h].pc, run'[h].pc)
  <2>1. row'[c] = Charged(row[c], k) /\ \A d \in Consumer \ {c} : row'[d] = row[d]
    BY <1>w, <1>y
  <2>2. Only(h, c)
    BY <1>f, <1>k, <1>y, <2>1 DEF Only
  <2>3. Charge(c, run[h].pc, run'[h].pc)
    <3>1. /\ row'[c].attempts = row[c].attempts + 1
          /\ row'[c].status \in {"retryable_failed", "terminal_failed"}
          /\ row'[c].status = "terminal_failed" => row'[c].attempts >= CapMin
      BY <1>n, <2>1, ChargedRow
    <3>2. QED BY <1>f, <1>k, <1>y, <3>1 DEF Charge, Effecting
  <2>4. QED BY <2>2, <2>3 DEF Turn
<1>12. ASSUME NEW k \in Caps, Fail(h, k)
       PROVE  Only(h, c) /\ Turn(c, run[h].pc, run'[h].pc)
  <2>1. Ack(h) /\ UNCHANGED <<effects, excuses>> /\ run[h].pc = "fail" /\ c \notin Tx
    BY <1>12, <1>i DEF Fail, At, HandlerInv, Ledgered
  <2>2. CASE Fenced(h)
    <3>1. /\ row' = [row EXCEPT ![c] = Charged(row[c], k)] /\ failures' = Count(failures, c)
          /\ row[c].status = "delivering"
      BY <1>12, <2>2 DEF Fail, Fenced
    <3>2. QED BY <1>y, <2>1, <3>1
  <2>3. CASE ~Fenced(h)
    <3>1. row' = row /\ failures' = failures
      BY <1>12, <1>t, <2>3 DEF Fail
    <3>2. QED BY <1>s, <2>1, <3>1
  <2>4. QED BY <2>2, <2>3
<1>13. ASSUME NEW k \in Caps, RecordFailure(h, k)
       PROVE  Only(h, c) /\ Turn(c, run[h].pc, run'[h].pc)
  <2>1. /\ Ack(h) /\ UNCHANGED <<effects, excuses>> /\ run[h].pc = "record" /\ c \in Tx
        /\ row[c].status # "delivering"
    BY <1>13, <1>i DEF RecordFailure, At, HandlerInv, ConsumerInv
  <2>2. CASE row[c].status \in {"none", "retryable_failed"}
    <3>1. row' = [row EXCEPT ![c] = Charged(row[c], k)] /\ failures' = Count(failures, c)
      BY <1>13, <2>2 DEF RecordFailure, Recorded, Terminal, TerminalStatuses
    <3>2. QED BY <1>y, <2>1, <2>2, <3>1
  <2>3. CASE row[c].status \notin {"none", "retryable_failed"}
    <3>1. row' = row
      BY <1>13, <1>t, <2>1, <2>3 DEF RecordFailure, Recorded
    <3>2. row[c].status \in TerminalStatuses
      BY <1>n, <2>1, <2>3 DEF RowState, Statuses
    <3>3. failures' = failures
      BY <1>13, <3>2 DEF RecordFailure, Terminal
    <3>4. QED BY <1>s, <2>1, <3>1, <3>3
  <2>4. QED BY <2>2, <2>3
<1>14. CASE FailError(h)
  <2>1. Only(h, c) /\ Turn(c, run[h].pc, run'[h].pc)
    BY <1>14, <1>s DEF FailError
  <2>2. QED BY <1>q, <2>1
\* An effect past the ledger.
<1>u. ASSUME UNCHANGED <<row, failures>>, Ack(h) \/ Throw(h),
             \/ UNCHANGED <<effects, excuses>>
             \/ effects' = Count(effects, c) /\ excuses' = Count(excuses, c)
      PROVE  Only(h, c) /\ Turn(c, run[h].pc, run'[h].pc)
  <2>1. CASE UNCHANGED <<effects, excuses>>
    BY <1>s, <1>u, <2>1
  <2>2. CASE effects' = Count(effects, c) /\ excuses' = Count(excuses, c)
    <3>1. Only(h, c)
      BY <1>b, <1>k, <1>u, <2>2 DEF Only
    <3>2. Excused(c, run[h].pc, run'[h].pc)
      BY <1>b, <1>k, <1>u, <2>2 DEF Excused
    <3>3. QED BY <3>1, <3>2 DEF Turn
  <2>3. QED BY <1>u, <2>1, <2>2
<1>15. CASE EffectUnledgered(h) \/ Crash(h)
  <2>1. Only(h, c) /\ Turn(c, run[h].pc, run'[h].pc)
    BY <1>15, <1>u DEF EffectUnledgered, Crash
  <2>2. QED BY <1>q, <2>1
<1>16. ASSUME NEW k \in Caps, TxDeliver(h, k)
       PROVE  Only(h, c) /\ Turn(c, run[h].pc, run'[h].pc)
  <2>1. /\ Ack(h) /\ run[h].pc = "gate" /\ effects' = Count(effects, c)
        /\ UNCHANGED <<excuses, failures>> /\ Renewable(row[c])
    BY <1>16 DEF TxDeliver, At, Reservable, ExpiredReservation, DueRetry, Renewable
  <2> DEFINE n == IF row[c].status = "retryable_failed" THEN 1 ELSE 0
             v == IF row[c].status = "none" THEN 0 ELSE 1
             q == [row[c] EXCEPT !.attempts = row[c].attempts + n, !.version = row[c].version + v]
  <2>n. n \in {0, 1} /\ v \in {0, 1} /\ row[c].attempts + n \in Nat /\ row[c].version + v \in Nat
    BY <1>n DEF RowState
  <2>2. row' = [row EXCEPT ![c] = Finished(q, "delivered")]
    BY <1>16 DEF TxDeliver
  <2> HIDE DEF n, v
  <2>a. q \in RowState /\ q.attempts = row[c].attempts + n
    BY <1>n, <2>n DEF RowState
  <2> HIDE DEF q
  <2>b. Finished(q, "delivered").status = "delivered" /\ Finished(q, "delivered").attempts = q.attempts
    BY <2>a DEF Finished, RowState
  <2>3. /\ row'[c].status = "delivered" /\ row'[c].attempts = row[c].attempts + n
        /\ \A d \in Consumer \ {c} : row'[d] = row[d]
    BY <1>w, <2>2, <2>a, <2>b
  <2>4. Only(h, c)
    BY <1>e, <1>k, <2>1, <2>3 DEF Only
  <2>5. Delivers(c, run[h].pc, run'[h].pc)
    <3>1. row'[c].attempts >= row[c].attempts
      BY <1>n, <2>3, <2>n
    <3>2. QED BY <1>e, <1>k, <2>1, <2>3, <3>1 DEF Delivers, Effecting
  <2>6. QED BY <2>4, <2>5 DEF Turn
<1>17. ASSUME NEW k \in Caps, TxSkip(h, k)
       PROVE  Only(h, c) /\ Turn(c, run[h].pc, run'[h].pc)
  <2>1. Ack(h) /\ UNCHANGED <<effects, excuses, failures>>
    BY <1>17 DEF TxSkip
  <2>2. CASE row[c].attempts >= k
    <3>1. row[c].attempts >= CapMin /\ Deadletter(c)
      BY <1>17, <1>n, <1>v, <2>2 DEF TxSkip
    <3>2. QED BY <1>d, <2>1, <3>1
  <2>3. CASE ~(row[c].attempts >= k)
    BY <1>17, <1>s, <2>1, <2>3 DEF TxSkip
  <2>4. QED BY <2>2, <2>3
<1>18. QED
  BY <1>q, <1>1, <1>2, <1>3, <1>4, <1>5, <1>6, <1>7, <1>8, <1>9, <1>10, <1>11, <1>12, <1>13, <1>14,
     <1>15, <1>16, <1>17 DEF Step

\* A turn keeps the duplicates paid.
LEMMA PaidTurn ==
  ASSUME TypeOK, TypeOK', NEW h \in Handler, NEW c \in Consumer, Only(h, c),
         Turn(c, run[h].pc, run'[h].pc), Paid(c)
  PROVE  Paid(c)'
<1> DEFINE w    == Cardinality(Working(c))
           into == Flag((h \in Working(c))')
           out  == Flag(h \in Working(c))
           fl   == Flag(Renewable(row[c]))
           from == run[h].pc
           to   == run'[h].pc
           e    == effects[c]
           x    == excuses[c]
<1>1. /\ IsFiniteSet(Working(c)') /\ w \in Nat /\ w' = w + into - out
  BY WorkingTurn DEF Only, Paid
<1>2. /\ into \in {0, 1} /\ out \in {0, 1} /\ fl \in {0, 1} /\ fl' \in {0, 1}
      /\ to \notin Effecting => into = 0
      /\ from \in Effecting => out = 1
      /\ from \notin Effecting => out = 0
  BY DEF Flag, Working, Only
<1>3. /\ row'[c] = row[c] => fl' = fl
      /\ Renewable(row[c]) => fl = 1
      /\ row'[c].status \in {"delivered", "terminal_failed"} => fl' = 0
      /\ row'[c].status = "delivering" /\ ~row'[c].expired => fl' = 0
  BY DEF Flag, Renewable
<1>4. e \in Nat /\ x \in Nat /\ e + w + fl <= 1 + x
  BY DEF TypeOK, Paid
<1>5. to = "idle" => into = 0
  BY <1>2 DEF Effecting
<1>6. to = "complete" => into = 0
  BY <1>2 DEF Effecting
<1>7. from \in {"effect", "fail"} => out = 1
  BY <1>2 DEF Effecting
<1> SUFFICES e' + w' + fl' <= 1 + x'
  BY <1>1 DEF Paid
<1> HIDE DEF w, into, out, fl, e, x
<1>e. e' = effects'[c] /\ x' = excuses'[c] /\ e = effects[c] /\ x = excuses[c]
  BY DEF e, x
<1>8. CASE Passes(c, from, to)
  <2>1. e' = e /\ x' = x /\ fl' = fl
    BY <1>3, <1>4, <1>8, <1>e DEF Passes, Observed
  <2>2. into <= out
    BY <1>2, <1>8 DEF Passes
  <2>3. QED BY <1>1, <1>2, <1>4, <2>1, <2>2
<1>9. CASE Leases(c, from, to)
  <2>1. e' = e /\ x' = x /\ fl = 1 /\ fl' = 0
    BY <1>3, <1>4, <1>9, <1>e DEF Leases, Observed
  <2>2. QED BY <1>1, <1>2, <1>4, <2>1
<1>10. CASE Effects(c, from, to)
  <2>1. e' = e + 1 /\ x' = x /\ fl' = fl /\ into = 0 /\ out = 1
    BY <1>3, <1>4, <1>6, <1>7, <1>10, <1>e DEF Effects, Observed
  <2>2. QED BY <1>1, <1>2, <1>4, <2>1
<1>11. CASE Excused(c, from, to)
  <2>1. x' = x + 1 /\ (e' = e + 1 \/ e' = e) /\ fl' = fl
    BY <1>3, <1>4, <1>11, <1>e DEF Excused, Observed
  <2>2. e' + into <= e + 1 + out
    <3>1. CASE to = "idle"
      BY <1>2, <1>4, <1>5, <2>1, <3>1
    <3>2. CASE to = "fail" /\ from = "effect"
      BY <1>2, <1>4, <1>7, <2>1, <3>2
    <3>3. CASE to = "fail" /\ from = "complete"
      <4>1. e' = e
        BY <1>4, <1>11, <1>e, <3>3 DEF Excused, Observed
      <4>2. QED BY <1>2, <1>4, <4>1
    <3>4. QED BY <1>11, <3>1, <3>2, <3>3 DEF Excused
  <2>3. QED BY <1>1, <1>2, <1>4, <2>1, <2>2
<1>12. CASE Delivers(c, from, to)
  <2>1. fl' = 0 /\ into = 0
    BY <1>3, <1>5, <1>12 DEF Delivers
  <2>2. x' = x /\ (e' = e \/ (e' = e + 1 /\ fl = 1 /\ out = 0))
    BY <1>2, <1>3, <1>4, <1>12, <1>e DEF Delivers, Observed
  <2>3. QED BY <1>1, <1>2, <1>4, <2>1, <2>2
<1>13. CASE Charge(c, from, to)
  <2>1. e' = e /\ x' = x /\ into = 0
    BY <1>4, <1>5, <1>13, <1>e DEF Charge, Observed
  <2>2. (fl = 1 /\ out = 0) \/ out = 1
    BY <1>2, <1>3, <1>7, <1>13 DEF Charge, Renewable
  <2>3. QED BY <1>1, <1>2, <1>4, <2>1, <2>2
<1>14. CASE GivesUp(c, from, to)
  <2>1. e' = e /\ x' = x /\ fl' = 0 /\ into = 0
    BY <1>3, <1>4, <1>5, <1>14, <1>e DEF GivesUp, Observed
  <2>2. QED BY <1>1, <1>2, <1>4, <2>1
<1>15. QED BY <1>8, <1>9, <1>10, <1>11, <1>12, <1>13, <1>14 DEF Turn

\* A turn keeps the attempts charged, and never lowers them.
LEMMA ChargesTurn ==
  ASSUME TypeOK, TypeOK', NEW c \in Consumer, NEW from, NEW to, Turn(c, from, to), Charges(c)
  PROVE  Charges(c)' /\ row'[c].attempts >= row[c].attempts
<1>t. /\ row[c] \in RowState /\ row'[c] \in RowState
      /\ failures[c] \in Nat /\ failures'[c] \in Nat
      /\ row[c].attempts \in Nat /\ row'[c].attempts \in Nat
  BY DEF TypeOK, RowState
<1>1. CASE row'[c] = row[c] /\ failures'[c] = failures[c]
  BY <1>1, <1>t DEF Charges
<1>2. CASE Passes(c, from, to) \/ Effects(c, from, to) \/ Excused(c, from, to)
  BY <1>1, <1>2, <1>t DEF Passes, Effects, Excused, Observed
<1>3. CASE Leases(c, from, to)
  <2>1. /\ row'[c].status = "delivering" /\ failures'[c] = failures[c] /\ c \notin Tx
        /\ row'[c].attempts = Reserved(row[c]) /\ row[c].status \in {"none", "retryable_failed", "delivering"}
    BY <1>3, <1>t DEF Leases, Observed, Renewable
  <2>2. row'[c].attempts = 2 * failures[c] /\ row'[c].attempts >= row[c].attempts
    <3>1. CASE row[c].status = "none"
      BY <1>t, <2>1, <3>1 DEF Charges, Reserved
    <3>2. CASE row[c].status = "delivering"
      BY <1>t, <2>1, <3>2 DEF Charges, Reserved, Flag
    <3>3. CASE row[c].status = "retryable_failed"
      BY <1>t, <2>1, <3>3 DEF Charges, Reserved, Flag
    <3>4. QED BY <2>1, <3>1, <3>2, <3>3
  <2>3. QED BY <2>1, <2>2 DEF Charges
<1>4. CASE Delivers(c, from, to)
  BY <1>4 DEF Delivers, Charges
<1>5. CASE Charge(c, from, to)
  <2>1. /\ row'[c].attempts = row[c].attempts + 1 /\ failures'[c] = failures[c] + 1
        /\ row'[c].status \in {"retryable_failed", "terminal_failed"}
        /\ row'[c].status = "terminal_failed" => row'[c].attempts >= CapMin
    BY <1>5 DEF Charge, Observed
  <2>2. CASE c \in Tx
    <3>1. row[c].attempts = failures[c]
      BY <1>5, <2>2 DEF Charge, Charges
    <3>2. QED BY <1>t, <2>1, <2>2, <3>1 DEF Charges
  <2>3. CASE c \notin Tx
    <3>1. row[c].attempts = 2 * failures[c]
      BY <1>5, <2>3 DEF Charge, Charges
    <3>2. row'[c].attempts = 2 * failures'[c] - 1
      BY <1>t, <2>1, <3>1
    <3>3. QED BY <1>t, <2>1, <2>3, <3>2 DEF Charges
  <2>4. QED BY <2>2, <2>3
<1>6. CASE GivesUp(c, from, to)
  <2>1. /\ row'[c].attempts = row[c].attempts /\ failures'[c] = failures[c]
        /\ row[c].status = "retryable_failed" /\ row'[c].status = "terminal_failed"
        /\ row[c].attempts >= CapMin
    BY <1>6, <1>t DEF GivesUp, Observed
  <2>2. QED BY <1>t, <2>1 DEF Charges
<1>7. QED BY <1>2, <1>3, <1>4, <1>5, <1>6 DEF Turn

LEMMA AccountInit == Init => AccountInv
<1> SUFFICES ASSUME Init PROVE AccountInv
  OBVIOUS
<1>1. ASSUME NEW c \in Consumer PROVE Paid(c) /\ Charges(c)
  <2>1. row[c] = NoRow /\ effects[c] = 0 /\ excuses[c] = 0 /\ failures[c] = 0
    BY DEF Init
  <2>2. Working(c) = {}
    BY DEF Init, Working, Idle, Effecting
  <2>3. IsFiniteSet(Working(c)) /\ Cardinality(Working(c)) = 0
    BY <2>2, FS_EmptySet
  <2>4. Flag(Renewable(row[c])) = 1
    BY <2>1 DEF Flag, Renewable, NoRow
  <2>5. Paid(c)
    BY <2>1, <2>3, <2>4 DEF Paid
  <2>6. Charges(c)
    BY <2>1 DEF Charges, NoRow
  <2>7. QED BY <2>5, <2>6
<1>2. \A h \in Handler : CappedOut(h)
  BY DEF Init, CappedOut, Idle
<1>3. QED BY <1>1, <1>2 DEF AccountInv

LEMMA AccountNext == TypeOK /\ PromiseInv /\ AccountInv /\ [Next]_vars => AccountInv'
<1> SUFFICES ASSUME TypeOK, PromiseInv, AccountInv, [Next]_vars, TypeOK' PROVE AccountInv'
  BY TypeNext
<1> USE DEF bus, observers, bounds
<1>t. /\ row \in [Consumer -> RowState] /\ run \in [Handler -> RunState]
      /\ \A h \in Handler : Busy(run[h])
      /\ effects \in [Consumer -> Nat] /\ excuses \in [Consumer -> Nat]
      /\ failures \in [Consumer -> Nat] /\ open \in [Consumer -> SUBSET Entry]
      /\ \A c \in Consumer : row[c].attempts \in Nat
  BY DEF TypeOK, RowState, RunState, Busy, At
<1>m. CapMin \in Nat
  BY CapMinFacts
\* An account nothing happens to.
<1>s. ASSUME NEW c \in Consumer, row'[c] = row[c], Observed(c, 0, 0, 0), Working(c)' = Working(c)
      PROVE  Paid(c)' /\ Charges(c)'
  <2>1. effects'[c] = effects[c] /\ excuses'[c] = excuses[c] /\ failures'[c] = failures[c]
    BY <1>s, <1>t DEF Observed
  <2>2. Paid(c) /\ Charges(c)
    BY DEF AccountInv
  <2>3. QED BY <1>s, <2>1, <2>2 DEF Paid, Charges
<1>z. ASSUME NEW c \in Consumer, effects' = effects, excuses' = excuses, failures' = failures
      PROVE  Observed(c, 0, 0, 0)
  BY <1>z, <1>t DEF Observed
\* A step of one handler.
<1>1. ASSUME NEW h \in Handler, Step(h) \/ Crash(h) PROVE AccountInv'
  <2>1. PICK c \in Consumer : Only(h, c) /\ Turn(c, run[h].pc, run'[h].pc)
    BY <1>1, Turns DEF AccountInv
  <2>2. Paid(c)' /\ Charges(c)' /\ row'[c].attempts >= row[c].attempts
    BY <2>1, PaidTurn, ChargesTurn DEF AccountInv
  <2>3. ASSUME NEW d \in Consumer \ {c} PROVE Paid(d)' /\ Charges(d)' /\ row'[d] = row[d]
    <3>1. Working(d)' = Working(d)
      BY <2>1 DEF Only, Working, Effecting
    <3>2. row'[d] = row[d] /\ Observed(d, 0, 0, 0)
      BY <2>1 DEF Only
    <3>3. QED BY <1>s, <3>1, <3>2
  <2>4. \A d \in Consumer : row'[d].attempts >= row[d].attempts /\ row'[d].attempts \in Nat
    <3>1. \A d \in Consumer : row'[d].attempts \in Nat
      BY DEF TypeOK
    <3>2. QED BY <1>t, <2>2, <2>3, <3>1
  <2>5. ASSUME NEW g \in Handler PROVE CappedOut(g)'
    <3>1. CASE g = h
      <4>1. SUFFICES ASSUME run'[h].pc = "deadletter" PROVE row'[run'[h].con].attempts >= CapMin
        BY <3>1 DEF CappedOut
      <4>2. row'[c] = row[c] /\ row[c].attempts >= CapMin
        BY <2>1, <4>1 DEF Turn, Passes, Leases, Effects, Excused, Delivers, Charge, GivesUp
      <4>3. run'[h].con = c
        BY <2>1, <4>1 DEF Only
      <4>4. QED BY <4>2, <4>3
    <3>2. CASE g # h
      <4>1. run'[g] = run[g] /\ CappedOut(g)
        BY <2>1, <3>2 DEF Only, AccountInv
      <4>2. SUFFICES ASSUME run[g].pc = "deadletter" PROVE row'[run[g].con].attempts >= CapMin
        BY <4>1 DEF CappedOut
      <4>3. run[g].con \in Consumer /\ row[run[g].con].attempts >= CapMin
        BY <1>t, <4>1, <4>2 DEF Busy, CappedOut
      <4>4. QED BY <1>m, <1>t, <2>4, <4>3
    <3>3. QED BY <3>1, <3>2
  <2>6. QED BY <2>2, <2>3, <2>5 DEF AccountInv
\* A step of no handler on one account, and one that leaves the accounts alone.
<1>2. ASSUME UNCHANGED run, NEW c \in Consumer, Paid(c)', Charges(c)',
             row'[c].attempts >= row[c].attempts,
             \A d \in Consumer \ {c} : row'[d] = row[d] /\ Observed(d, 0, 0, 0)
      PROVE  AccountInv'
  <2>1. \A d \in Consumer : Working(d)' = Working(d)
    BY <1>2 DEF Working
  <2>2. \A d \in Consumer : Paid(d)' /\ Charges(d)'
    BY <1>2, <1>s, <2>1
  <2>3. ASSUME NEW g \in Handler PROVE CappedOut(g)'
    <3>1. SUFFICES ASSUME run[g].pc = "deadletter" PROVE row'[run[g].con].attempts >= CapMin
      BY <1>2 DEF CappedOut
    <3>2. run[g].con \in Consumer /\ row[run[g].con].attempts >= CapMin
      BY <1>t, <3>1 DEF Busy, CappedOut, AccountInv
    <3>3. CASE run[g].con = c
      <4>1. row'[c].attempts \in Nat
        BY DEF TypeOK
      <4>2. QED BY <1>2, <1>m, <1>t, <3>2, <3>3, <4>1
    <3>4. CASE run[g].con # c
      BY <1>2, <3>2, <3>4
    <3>5. QED BY <3>3, <3>4
  <2>4. QED BY <2>2, <2>3 DEF AccountInv
<1>3. ASSUME UNCHANGED <<row, run, effects, excuses, failures>> PROVE AccountInv'
  <2>1. \A c \in Consumer : Working(c)' = Working(c)
    BY <1>3 DEF Working
  <2>2. \A c \in Consumer : Paid(c)' /\ Charges(c)'
    BY <1>3, <1>s, <1>z, <2>1
  <2>3. \A h \in Handler : CappedOut(h)'
    BY <1>3 DEF CappedOut, AccountInv
  <2>4. QED BY <2>2, <2>3 DEF AccountInv
<1>4. ASSUME NEW h \in Handler, Invoke(h) PROVE AccountInv'
  <2>1. PICK c \in Consumer : \E e \in open[c] :
          StartDisconnected(h, c, e) \/ \E k \in Caps : Start(h, c, e, k)
    BY <1>4 DEF Invoke
  <2>2. /\ run[h].pc = "idle" /\ run'[h].pc \in {"gate", "bypass"}
        /\ \A g \in Handler \ {h} : run'[g] = run[g]
    BY <1>t, <2>1 DEF Start, StartDisconnected, At
  <2>3. UNCHANGED <<row, effects, excuses, failures>>
    BY <2>1 DEF Start, StartDisconnected
  <2>4. \A d \in Consumer : Working(d)' = Working(d)
    BY <2>2 DEF Working, Effecting
  <2>5. \A d \in Consumer : Paid(d)' /\ Charges(d)'
    BY <1>s, <1>z, <2>3, <2>4
  <2>6. ASSUME NEW g \in Handler PROVE CappedOut(g)'
    <3>1. CASE g = h
      BY <2>2, <3>1 DEF CappedOut
    <3>2. CASE g # h
      BY <2>2, <2>3, <3>2 DEF CappedOut, AccountInv
    <3>3. QED BY <3>1, <3>2
  <2>7. QED BY <2>5, <2>6 DEF AccountInv
<1>5. ASSUME NEW c \in Consumer, NEW k \in Caps, SweepDeadletter(c, k) PROVE AccountInv'
  <2>1. k \in Nat /\ CapMin <= k /\ row[c].status = "retryable_failed" /\ row[c].attempts >= k
    BY <1>5, CapMinFacts DEF SweepDeadletter
  <2>2. row'[c] = Finished(row[c], "terminal_failed") /\ \A d \in Consumer \ {c} : row'[d] = row[d]
    BY <1>5, <1>t, <2>1 DEF SweepDeadletter, Deadletter
  <2>3. row'[c].status = "terminal_failed" /\ row'[c].attempts = row[c].attempts
    BY <1>t, <2>2 DEF Finished, RowState
  <2>4. UNCHANGED <<run, effects, excuses, failures>>
    BY <1>5 DEF SweepDeadletter
  <2>5. Charges(c)' /\ row'[c].attempts >= row[c].attempts
    BY <1>m, <1>t, <2>1, <2>3, <2>4 DEF Charges, AccountInv
  <2>6. Paid(c)'
    <3>1. Working(c)' = Working(c) /\ effects'[c] = effects[c] /\ excuses'[c] = excuses[c]
      BY <2>4 DEF Working
    <3>2. Flag(Renewable(row'[c])) = 0 /\ Flag(Renewable(row[c])) = 1
      BY <2>1, <2>3 DEF Flag, Renewable
    <3>3. Cardinality(Working(c)) \in Nat
      BY FS_CardinalityType DEF AccountInv, Paid
    <3>4. QED BY <1>t, <3>1, <3>2, <3>3 DEF AccountInv, Paid
  <2>7. QED BY <1>2, <1>z, <2>2, <2>4, <2>5, <2>6
<1>6. ASSUME NEW c \in Consumer, LeaseExpires(c) PROVE AccountInv'
  <2>1. /\ row' = [row EXCEPT ![c] = [row[c] EXCEPT !.expired = TRUE]]
        /\ UNCHANGED <<run, effects, failures>> /\ excuses' = Count(excuses, c)
    BY <1>6 DEF LeaseExpires
  <2>2. /\ row'[c].attempts = row[c].attempts /\ row'[c].status = row[c].status
        /\ \A d \in Consumer \ {c} : row'[d] = row[d]
    BY <1>t, <2>1 DEF RowState
  <2>3. excuses'[c] = excuses[c] + 1 /\ \A d \in Consumer \ {c} : excuses'[d] = excuses[d]
    BY <1>t, <2>1 DEF Count
  <2>4. Charges(c)' /\ row'[c].attempts >= row[c].attempts
    BY <1>t, <2>1, <2>2 DEF Charges, AccountInv
  <2>5. Paid(c)'
    <3>1. Working(c)' = Working(c) /\ effects'[c] = effects[c]
      BY <2>1 DEF Working
    <3>2. Flag(Renewable(row'[c])) \in {0, 1} /\ Flag(Renewable(row[c])) \in {0, 1}
      BY DEF Flag
    <3>3. Cardinality(Working(c)) \in Nat
      BY FS_CardinalityType DEF AccountInv, Paid
    <3>4. QED BY <1>t, <2>3, <3>1, <3>2, <3>3 DEF AccountInv, Paid
  <2>6. \A d \in Consumer \ {c} : Observed(d, 0, 0, 0)
    BY <1>t, <2>1, <2>3 DEF Observed
  <2>7. QED BY <1>2, <2>1, <2>2, <2>4, <2>5, <2>6
<1>7. ASSUME NEW c \in Consumer, BackoffPasses(c) PROVE AccountInv'
  <2>1. /\ row' = [row EXCEPT ![c] = [row[c] EXCEPT !.due = TRUE]]
        /\ UNCHANGED <<run, effects, excuses, failures>>
    BY <1>7 DEF BackoffPasses
  <2>2. /\ row'[c].attempts = row[c].attempts /\ row'[c].status = row[c].status
        /\ row'[c].expired = row[c].expired
        /\ \A d \in Consumer \ {c} : row'[d] = row[d]
    BY <1>t, <2>1 DEF RowState
  <2>3. Charges(c)' /\ row'[c].attempts >= row[c].attempts
    BY <1>t, <2>1, <2>2 DEF Charges, AccountInv
  <2>4. Working(c)' = Working(c) /\ Renewable(row'[c]) = Renewable(row[c])
    BY <2>1, <2>2 DEF Working, Renewable
  <2>5. Paid(c)'
    BY <2>1, <2>4 DEF AccountInv, Paid
  <2>6. QED BY <1>2, <1>z, <2>1, <2>2, <2>3, <2>5
<1>8. ASSUME NEW c \in Consumer, NEW k \in Caps, SweepRedrive(c, k) PROVE AccountInv'
  BY <1>3, <1>8 DEF SweepRedrive
<1>9. ASSUME NEW c \in Consumer, NEW e \in open[c], DropDuplicate(c, e) PROVE AccountInv'
  BY <1>3, <1>9 DEF DropDuplicate
<1>10. ASSUME NEW e \in Entry, Publish(e) \/ Republish(e) PROVE AccountInv'
  BY <1>3, <1>10 DEF Publish, Republish
<1>11. CASE UNCHANGED vars
  BY <1>3, <1>11 DEF vars
<1>12. QED BY <1>1, <1>4, <1>5, <1>6, <1>7, <1>8, <1>9, <1>10, <1>11 DEF Next, Sweep, Time

LEMMA AccountAlways == Spec => []AccountInv
<1>1. QED BY AccountInit, AccountNext, PromiseAlways, TypeCorrect, PTL DEF Spec

\* The bounded duplicate window: an effect beyond the first is paid for by a
\* lease that ran out, an effect reported as failed, or one past the ledger.
THEOREM DuplicatesArePaidFor == Spec => []DuplicatesAccountedFor
<1>1. TypeOK /\ AccountInv => DuplicatesAccountedFor
  <2> SUFFICES ASSUME TypeOK, AccountInv, NEW c \in Consumer PROVE effects[c] <= 1 + excuses[c]
    BY DEF DuplicatesAccountedFor
  <2>1. effects[c] \in Nat /\ excuses[c] \in Nat /\ Paid(c)
    BY DEF TypeOK, AccountInv
  <2>2. Cardinality(Working(c)) \in Nat /\ Flag(Renewable(row[c])) \in {0, 1}
    BY <2>1, FS_CardinalityType DEF Paid, Flag
  <2>3. QED BY <2>1, <2>2 DEF Paid
<1>2. QED BY <1>1, AccountAlways, TypeCorrect, PTL

\* A delivery is given up after as many real failures as the least cap in
\* force allows, one attempt or two for each.
THEOREM GivenUpAfterFailures == Spec => []GivenUpAfterRetries
<1>1. TypeOK /\ AccountInv => GivenUpAfterRetries
  <2> SUFFICES ASSUME TypeOK, AccountInv, NEW c \in Consumer, row[c].status = "terminal_failed"
               PROVE  failures[c] >= IF c \in Tx THEN CapMin ELSE (CapMin + 2) \div 2
    BY DEF GivenUpAfterRetries
  <2>1. Charges(c) /\ failures[c] \in Nat /\ CapMin \in Nat /\ row[c].attempts >= CapMin
    BY CapMinFacts DEF AccountInv, TypeOK, Charges
  <2>2. CASE c \in Tx
    BY <2>1, <2>2 DEF Charges
  <2>3. CASE c \notin Tx
    <3>1. 2 * failures[c] - 1 >= CapMin
      BY <2>1, <2>3 DEF Charges
    <3>2. \A f, m \in Nat : 2 * f - 1 >= m => f >= (m + 2) \div 2
      OBVIOUS
    <3>3. QED BY <2>1, <2>3, <3>1, <3>2
  <2>4. QED BY <2>2, <2>3
<1>2. QED BY <1>1, AccountAlways, TypeCorrect, PTL-----------------------------------------------------------------------------
(* The promise of InboundMessage.                                          *)

\* A step changes the row of one consumer at most.
LEMMA OneRow == TypeOK /\ [Next]_vars =>
                  \/ UNCHANGED row
                  \/ \E c \in Consumer : \A d \in Consumer \ {c} : row'[d] = row[d]
<1> SUFFICES ASSUME TypeOK, [Next]_vars, ~UNCHANGED row
             PROVE  \E c \in Consumer : \A d \in Consumer \ {c} : row'[d] = row[d]
  OBVIOUS
<1>t. /\ row \in [Consumer -> RowState] /\ \A h \in Handler : run[h].pc # "idle" => run[h].con \in Consumer
  BY DEF TypeOK, RowState, At
<1>r. ASSUME NEW c \in Consumer, NEW r, row' = [row EXCEPT ![c] = r]
      PROVE  \E x \in Consumer : \A d \in Consumer \ {x} : row'[d] = row[d]
  BY <1>r, <1>t
<1>1. ASSUME NEW h \in Handler, Step(h)
      PROVE  \E x \in Consumer : \A d \in Consumer \ {x} : row'[d] = row[d]
  <2>1. run[h].pc # "idle"
    BY <1>1 DEF Step, ReserveInsert, Takeover, ReserveDeadletter, ReserveError, Effect,
         EffectThrows, Complete, CompleteError, FailError, EffectUnledgered, ReserveSkip,
         ReserveLook, Retake, ReserveRace, Fail, TxDeliver, TxRollback, TxSkip, RecordFailure, At
  <2>2. run[h].con \in Consumer
    BY <1>t, <2>1
  <2>3. \E r : row' = [row EXCEPT ![run[h].con] = r]
    <3>1. CASE ReserveInsert(h) \/ Takeover(h) \/ \E k \in Caps : Retake(h, k)
      BY <3>1 DEF ReserveInsert, Takeover, Retake, Lease
    <3>2. CASE \/ ReserveDeadletter(h) \/ Complete(h)
               \/ \E k \in Caps : Fail(h, k) \/ TxDeliver(h, k) \/ TxSkip(h, k) \/ RecordFailure(h, k)
      BY <3>2 DEF ReserveDeadletter, Complete, Fail, TxDeliver, TxSkip, RecordFailure, Deadletter
    <3>3. QED
      BY <1>1, <3>1, <3>2
         DEF Step, ReserveError, Effect, EffectThrows, CompleteError, FailError, EffectUnledgered,
             ReserveSkip, ReserveLook, ReserveRace, TxRollback, bus
  <2>4. QED BY <1>r, <2>2, <2>3
<1>2. ASSUME NEW c \in Consumer, Sweep(c) \/ Time(c)
      PROVE  \E x \in Consumer : \A d \in Consumer \ {x} : row'[d] = row[d]
  <2>1. \E r : row' = [row EXCEPT ![c] = r]
    BY <1>2 DEF Sweep, Time, SweepDeadletter, SweepRedrive, LeaseExpires, BackoffPasses, Deadletter
  <2>2. QED BY <1>r, <2>1
<1>3. ASSUME \/ \E h \in Handler : Invoke(h) \/ Crash(h)
             \/ \E c \in Consumer : \E e \in open[c] : DropDuplicate(c, e)
             \/ \E e \in Entry : Publish(e) \/ Republish(e)
             \/ UNCHANGED vars
      PROVE  FALSE
  BY <1>3 DEF Invoke, Start, StartDisconnected, Crash, DropDuplicate, Publish, Republish, vars
<1>4. QED BY <1>1, <1>2, <1>3 DEF Next

\* The transactional consumers implement InboundMessage: a step decides one open
\* delivery, with its effect or without, or changes no decision; what is
\* dispatched past the ledger, published again or swept decides nothing.
THEOREM ImplementsPromise == Spec => Implements
<1>0. Tx \subseteq Consumer
  BY ConsumerAssumption
<1>1. Init => Promise!Init
  <2> SUFFICES ASSUME Init PROVE Promise!Init
    OBVIOUS
  <2>1. \A c \in Tx : Decision(c) = "open" /\ effects[c] - excuses[c] = 0
    BY <1>0 DEF Init, NoRow, Decision
  <2>2. QED BY <2>1 DEF Promise!Init, Promise!Open
<1>2. ASSUME TypeOK, TypeOK', PromiseInv, TxExactlyOnce, TxExactlyOnce', [Next]_vars
      PROVE  [Promise!Next]_(Promise!vars)
  <2> DEFINE out  == [c \in Tx |-> Decision(c)]
             made == [c \in Tx |-> effects[c] - excuses[c]]
             Made(r) == IF r.status = "delivered" THEN 1 ELSE 0
  <2>1. \A c \in Tx : effects[c] - excuses[c] = Made(row[c])
    <3>1. \A c \in Tx : effects[c] \in Nat /\ excuses[c] \in Nat
      BY <1>0, <1>2 DEF TypeOK
    <3>2. QED BY <1>2, <3>1 DEF TxExactlyOnce
  <2>2. \A c \in Tx : effects'[c] - excuses'[c] = Made(row'[c])
    <3>1. \A c \in Tx : effects'[c] \in Nat /\ excuses'[c] \in Nat
      BY <1>0, <1>2 DEF TypeOK
    <3>2. QED BY <1>2, <3>1 DEF TxExactlyOnce
  <2>3. made = [c \in Tx |-> Made(row[c])] /\ made' = [c \in Tx |-> Made(row'[c])]
    BY <2>1, <2>2
  <2> HIDE DEF made
  <2>4. \A c \in Tx : row'[c] = row[c] \/ ~Terminal(c)
    BY <1>0, <1>2, RowMoves DEF RowMove
  <2>5. CASE \A c \in Tx : row'[c] = row[c]
    <3>1. out' = out
      BY <2>5 DEF Decision
    <3>2. made' = made
      BY <2>3, <2>5
    <3>3. QED BY <3>1, <3>2 DEF Promise!vars, made
  <2>6. ASSUME NEW c \in Tx, row'[c] # row[c] PROVE [Promise!Next]_(Promise!vars)
    <3>1. \A d \in Tx \ {c} : row'[d] = row[d]
      BY <1>0, <1>2, <2>6, OneRow
    <3>2. /\ \A d \in Tx \ {c} : Decision(d)' = Decision(d)
          /\ Decision(c) = "open" /\ Made(row[c]) = 0
      BY <2>4, <2>6, <3>1 DEF Decision, Terminal, TerminalStatuses
    <3>3. out = [d \in Tx |-> out[d]] /\ out' = [out EXCEPT ![c] = Decision(c)']
          /\ out[c] = "open"
      BY <3>2
    <3>4. made' = [made EXCEPT ![c] = Made(row'[c])] /\ made[c] = 0 /\ made \in [Tx -> Int]
      BY <2>3, <3>1, <3>2
    <3> HIDE DEF out
    <3>5. CASE row'[c].status = "delivered"
      <4>1. Decision(c)' = "succeeded" /\ Made(row'[c]) = 1
        BY <3>5 DEF Decision
      <4>2. out' = [out EXCEPT ![c] = "succeeded"] /\ made' = [made EXCEPT ![c] = made[c] + 1]
        <5>1. Made(row'[c]) = made[c] + 1
          BY <3>4, <4>1
        <5> HIDE DEF Made
        <5>2. QED BY <3>3, <3>4, <4>1, <5>1
      <4>3. Promise!Succeed(c, 1)
        BY <3>3, <4>2 DEF Promise!Succeed, Promise!Open, out, made
      <4>4. QED BY <4>3 DEF Promise!Next
    <3>6. CASE row'[c].status = "terminal_failed"
      <4>1. Decision(c)' = "terminal_failed" /\ Made(row'[c]) = 0
        BY <3>6 DEF Decision
      <4>2. out' = [out EXCEPT ![c] = "terminal_failed"] /\ made' = made
        BY <3>3, <3>4, <4>1
      <4>3. Promise!Close(c, "terminal_failed")
        BY <3>3, <4>2 DEF Promise!Close, Promise!Open, out, made
      <4>4. QED BY <4>3 DEF Promise!Next
    <3>7. CASE row'[c].status \notin {"delivered", "terminal_failed"}
      <4>1. Decision(c)' = "open" /\ Made(row'[c]) = 0
        BY <3>7 DEF Decision
      <4>2. out' = out /\ made' = made
        BY <3>3, <3>4, <4>1 DEF out
      <4>3. QED BY <4>2 DEF Promise!vars, out, made
    <3>8. QED BY <3>5, <3>6, <3>7
  <2>7. QED BY <2>5, <2>6
<1>3. QED BY <1>1, <1>2, PromiseAlways, ExactlyOnce, TypeCorrect, PTL DEF Spec, Implements, Promise!Spec
=============================================================================

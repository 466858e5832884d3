------------------------- MODULE InboundIngressProofs -------------------------
(***************************************************************************)
(* Proofs about InboundIngress, for any workers, provider types, cap,      *)
(* threshold and bounds.                                                   *)
(***************************************************************************)
EXTENDS InboundIngress, TLAPS

-----------------------------------------------------------------------------
(* Types, part by part of the state.                                       *)

RowOK == /\ status \in [Message -> Statuses]
         /\ attempts \in [Message -> Nat] /\ version \in [Message -> Nat]
         /\ token \in [Message -> Nat] /\ expired \in [Message -> BOOLEAN]
         /\ due \in [Message -> BOOLEAN] /\ reason \in [Message -> Reasons]

SourceOK == inboxed \subseteq Message /\ cursor \in 0..N

\* A provider at the threshold is paused.
ProviderOK == /\ arrived \in 0..N /\ pause \in Pauses /\ failures \in 0..Threshold
              /\ watch \in {"stopped", "registered"} /\ watchId \in -1..N
              /\ baseline \in 0..N /\ pauses \in Nat
              /\ failures = Threshold => Paused

AtOK     == at \in [Worker -> WorkerState]
BoundsOK == kind \in ProviderTypes /\ crashes \in Nat /\ slow \in Nat

TypeInv == RowOK /\ SourceOK /\ ProviderOK /\ AtOK /\ BoundsOK

LEMMA Limits == N \in Nat \ {0} /\ MaxAttempts \in Nat \ {0} /\ Threshold \in Nat \ {0}
BY LimitsAssumption

LEMMA Places ==
  /\ {"idle", "claim", "overCap", "deadletter", "parkCheck", "park", "missed", "catchUp",
      "reclaim", "synced", "fetch", "persist", "advance", "finish", "failed", "parkClaim",
      "mark"} = Locations
  /\ {"absent", "received", "staging", "retryable_failed", "staged", "terminal_failed"} = Statuses
BY DEF Locations, Claimed, Statuses, TerminalStatuses

LEMMA MaxOfTwo ==
  ASSUME NEW a \in Nat, NEW b \in Nat
  PROVE  Max({a, b}) = IF a >= b THEN a ELSE b
<1>1. \E x \in {a, b} : \A y \in {a, b} : x >= y
  OBVIOUS
<1>2. Max({a, b}) \in {a, b} /\ \A y \in {a, b} : Max({a, b}) >= y
  BY <1>1 DEF Max
<1>3. QED BY <1>2

LEMMA IdleWorker == Idle \in WorkerState
<1>1. 1 \in Message
  BY Limits DEF Message
<1>2. QED BY <1>1, Places DEF Idle, WorkerState, Kinds, Errors, NULL

LEMMA TypeInit == Init => TypeInv
<1> SUFFICES ASSUME Init PROVE TypeInv
  OBVIOUS
<1> USE Limits
<1>1. RowOK
  BY Places DEF Init, RowOK, Reasons, NULL
<1>2. SourceOK
  BY DEF Init, SourceOK
<1>3. ProviderOK
  BY DEF Init, ProviderOK, Pauses
<1>4. AtOK
  BY IdleWorker DEF Init, AtOK
<1>5. BoundsOK
  BY DEF Init, BoundsOK
<1>6. QED BY <1>1, <1>2, <1>3, <1>4, <1>5 DEF TypeInv

\* The statements on a row.
LEMMA RowStatements ==
  ASSUME RowOK, NEW i \in Message
  PROVE  /\ \A w, l, s : \A n \in Nat : Lease(w, i, n, l, s) => RowOK'
         /\ \A st \in Statuses, why \in Reasons : Settle(i, st, why) => RowOK'
         /\ Postpone(i) => RowOK'
         /\ Park(i) => RowOK'
         /\ Insert(i) => RowOK'
<1>1. ASSUME NEW w, NEW n \in Nat, NEW l, NEW s, Lease(w, i, n, l, s) PROVE RowOK'
  BY <1>1, Places DEF Lease, RowOK
<1>2. ASSUME NEW st \in Statuses, NEW why \in Reasons, Settle(i, st, why) PROVE RowOK'
  BY <1>2 DEF Settle, RowOK, NULL
<1>3. Postpone(i) => RowOK'
  BY Places DEF Postpone, RowOK
<1>4. Park(i) => RowOK'
  BY Places DEF Park, RowOK, NULL
<1>5. Insert(i) => RowOK'
  BY Places DEF Insert, RowOK
<1>6. QED BY <1>1, <1>2, <1>3, <1>4, <1>5

LEMMA TypeNext == TypeInv /\ [Next]_vars => TypeInv'
<1> SUFFICES ASSUME TypeInv, [Next]_vars PROVE TypeInv'
  OBVIOUS
<1> USE Limits DEF row, source, provider, bounds
<1>t. RowOK /\ SourceOK /\ ProviderOK /\ AtOK /\ BoundsOK
  BY DEF TypeInv
<1>r. UNCHANGED row => RowOK'
  BY <1>t DEF RowOK
<1>s. UNCHANGED source => SourceOK'
  BY <1>t DEF SourceOK
<1>p. UNCHANGED provider => ProviderOK'
  BY <1>t DEF ProviderOK, Paused
<1>a. UNCHANGED at => AtOK'
  BY <1>t DEF AtOK
<1>b. UNCHANGED bounds => BoundsOK'
  BY <1>t DEF BoundsOK
<1>n. cursor \in Nat /\ arrived \in Nat /\ arrived <= N /\ cursor <= N
  BY <1>t DEF SourceOK, ProviderOK
<1>w. ASSUME NEW w \in Worker
      PROVE  /\ at[w] \in WorkerState /\ at[w].job \in Message /\ at[w].job \in 1..N
             /\ at[w].todo \subseteq Message
  BY <1>t DEF AtOK, WorkerState, Message
<1>m. ASSUME NEW w \in Worker, NEW s \in WorkerState, Become(w, s) PROVE AtOK'
  BY <1>m, <1>t DEF Become, AtOK
<1>g. ASSUME NEW w \in Worker, NEW l \in Locations, Goto(w, l) PROVE AtOK'
  <2>1. [at[w] EXCEPT !.pc = l] \in WorkerState
    BY <1>w DEF WorkerState
  <2>2. QED BY <1>g, <1>m, <2>1, IdleWorker DEF Goto
<1>f. ASSUME NEW w \in Worker, NEW e \in Errors, Fail(w, e) PROVE AtOK'
  <2>1. [at[w] EXCEPT !.pc = "failed", !.err = e, !.todo = {}] \in WorkerState
    BY <1>w, Places DEF WorkerState
  <2>2. QED BY <1>f, <1>m, <2>1 DEF Fail
<1>l. ASSUME NEW w \in Worker, NEW l \in Locations, NEW n \in Nat, NEW s \in SUBSET Message,
             Lease(w, at[w].job, n, l, s)
      PROVE  RowOK' /\ AtOK'
  <2>1. version[at[w].job] + 1 \in Nat
    BY <1>t, <1>w DEF RowOK
  <2>2. [at[w] EXCEPT !.pc = l, !.held = version[at[w].job] + 1, !.tries = n, !.todo = s]
          \in WorkerState
    BY <1>w, <2>1 DEF WorkerState
  <2>3. RowOK'
    BY <1>l, <1>t, <1>w, RowStatements
  <2>4. QED BY <1>l, <1>m, <2>2, <2>3 DEF Lease
<1>e. ASSUME NEW w \in Worker, NEW k \in Kinds, NEW i \in Message, NEW l \in Locations,
             Begin(w, k, i, l)
      PROVE  AtOK'
  <2>1. [Idle EXCEPT !.pc = l, !.via = k, !.job = i] \in WorkerState
    BY IdleWorker DEF WorkerState
  <2>2. QED BY <1>e, <1>m, <2>1 DEF Begin
<1>x. ASSUME NEW i \in 0..N, AdvanceCursor(i) PROVE cursor' \in 0..N
  BY <1>n, <1>x, MaxOfTwo DEF AdvanceCursor
<1>u. ASSUME NEW w \in Worker, Unclaimed(w) PROVE AtOK'
  <2>1. \E l \in {"missed", "synced", "idle"} : Goto(w, l)
    BY <1>u DEF Unclaimed
  <2>2. QED BY <1>g, <2>1, Places
<1>v. ASSUME NEW w \in Worker, NEW i \in 1..(N + 1), ReadySource(w, i) PROVE TypeInv'
  <2>1. i \in Message
    BY <1>n, <1>v DEF ReadySource, Message
  <2>2. RowOK'
    BY <1>t, <1>v, <2>1, RowStatements DEF ReadySource
  <2>3. AtOK'
    BY <1>e, <1>v, <2>1, Places DEF ReadySource, Kinds
  <2>4. QED BY <1>b, <1>p, <1>s, <1>v, <2>2, <2>3 DEF ReadySource, TypeInv
<1>1. CASE Arrive
  <2>1. ProviderOK'
    BY <1>1, <1>t DEF Arrive, ProviderOK, Paused
  <2>2. QED BY <1>1, <1>a, <1>b, <1>r, <1>s, <2>1 DEF Arrive, TypeInv
<1>2. CASE PauseProvider
  <2>1. ProviderOK'
    BY <1>2, <1>t DEF PauseProvider, ProviderOK, Paused, Pauses
  <2>2. QED BY <1>2, <1>a, <1>b, <1>r, <1>s, <2>1 DEF PauseProvider, TypeInv
<1>3. CASE ResumeProvider
  <2>1. ProviderOK'
    BY <1>3, <1>t DEF ResumeProvider, ProviderOK, Pauses
  <2>2. SourceOK'
    BY <1>3, <1>t DEF ResumeProvider, SourceOK
  <2>3. QED BY <1>3, <1>a, <1>b, <1>r, <2>1, <2>2 DEF ResumeProvider, TypeInv
<1>4. CASE RegisterWatch
  <2>1. ProviderOK'
    BY <1>4, <1>t DEF RegisterWatch, ProviderOK, Paused
  <2>2. QED BY <1>4, <1>a, <1>b, <1>r, <1>s, <2>1 DEF RegisterWatch, TypeInv
<1>5. CASE StoreWatch
  <2>1. watchId \in 0..N /\ baseline \in 0..N
    BY <1>5, <1>t DEF StoreWatch, ProviderOK
  <2>2. baseline' \in 0..N /\ cursor' \in 0..N
    BY <1>5, <1>n, <1>t, <2>1, MaxOfTwo DEF StoreWatch
  <2>3. ProviderOK'
    BY <1>5, <1>t, <2>2 DEF StoreWatch, ProviderOK, Paused
  <2>4. SourceOK'
    BY <1>5, <1>t, <2>2 DEF StoreWatch, SourceOK
  <2>5. QED BY <1>5, <1>a, <1>b, <1>r, <2>3, <2>4 DEF StoreWatch, TypeInv
<1>6. ASSUME NEW i \in Message, PersistIngressPointer(i) PROVE TypeInv'
  BY <1>6, <1>a, <1>b, <1>p, <1>s, <1>t, RowStatements DEF PersistIngressPointer, TypeInv
<1>7. ASSUME NEW i \in Message, ReviveTerminalIngress(i) PROVE TypeInv'
  <2>1. RowOK'
    BY <1>7, <1>t, Places DEF ReviveTerminalIngress, RowOK, Reasons
  <2>2. QED BY <1>7, <1>a, <1>b, <1>p, <1>s, <2>1 DEF ReviveTerminalIngress, TypeInv
<1>8. ASSUME NEW i \in Message, LeaseExpires(i) \/ BackoffElapses(i) PROVE TypeInv'
  <2>1. RowOK'
    BY <1>8, <1>t DEF LeaseExpires, BackoffElapses, RowOK
  <2>2. BoundsOK'
    BY <1>8, <1>t DEF LeaseExpires, BackoffElapses, BoundsOK
  <2>3. QED BY <1>8, <1>a, <1>p, <1>s, <2>1, <2>2 DEF LeaseExpires, BackoffElapses, TypeInv
<1>9. ASSUME NEW w \in Worker, NEW i \in Message, Wake(w, i) \/ SweepRead(w, i) PROVE TypeInv'
  <2>1. AtOK'
    BY <1>9, <1>e, Places DEF Wake, SweepRead, Kinds
  <2>2. QED BY <1>9, <1>b, <1>p, <1>r, <1>s, <2>1 DEF Wake, SweepRead, TypeInv
<1>10. ASSUME NEW w \in Worker, SyncStart(w) PROVE TypeInv'
  BY <1>10, <1>n, <1>v DEF SyncStart
<1>11. ASSUME NEW w \in Worker, Crash(w) PROVE TypeInv'
  <2>1. AtOK' /\ BoundsOK'
    BY <1>11, <1>g, <1>t, Places DEF Crash, BoundsOK
  <2>2. QED BY <1>11, <1>p, <1>r, <1>s, <2>1 DEF Crash, TypeInv
<1>12. ASSUME NEW w \in Worker, Step(w) PROVE TypeInv'
  <2> DEFINE i == at[w].job
  <2>i. i \in Message /\ i \in 0..N /\ attempts[i] \in Nat /\ attempts[i] + 1 \in Nat
    BY <1>t, <1>w DEF RowOK, Message
  <2>1. CASE ClaimIngress(w)
    <3>1. RowOK' /\ AtOK'
      <4>1. CASE Claimable(i)
        <5>1. {i} \in SUBSET Message /\ {} \in SUBSET Message
          BY <2>i
        <5>2. QED BY <1>l, <2>1, <2>i, <4>1, <5>1, Places DEF ClaimIngress
      <4>2. CASE ~Claimable(i)
        BY <1>g, <1>r, <1>u, <2>1, <4>2, Places DEF ClaimIngress
      <4>3. QED BY <4>1, <4>2
    <3>2. QED BY <1>b, <1>p, <1>s, <2>1, <3>1 DEF ClaimIngress, TypeInv
  <2>2. CASE ReadPauseOverCap(w) \/ ReadPauseToPark(w) \/ ReadMissed(w)
    <3>1. \/ Unclaimed(w)
          \/ \E l \in {"deadletter", "park", "catchUp", "reclaim", "idle"} : Goto(w, l)
      BY <2>2 DEF ReadPauseOverCap, ReadPauseToPark, ReadMissed
    <3>2. AtOK'
      BY <1>g, <1>u, <3>1, Places
    <3>3. QED
      BY <1>b, <1>p, <1>r, <1>s, <2>2, <3>2
         DEF ReadPauseOverCap, ReadPauseToPark, ReadMissed, TypeInv
  <2>3. CASE DeadletterIngress(w)
    <3>1. RowOK' /\ AtOK'
      BY <1>g, <1>r, <1>t, <1>u, <2>3, <2>i, Places, RowStatements DEF DeadletterIngress, Reasons
    <3>2. QED BY <1>b, <1>p, <1>s, <2>3, <3>1 DEF DeadletterIngress, TypeInv
  <2>4. CASE ParkOverCap(w)
    <3>1. RowOK' /\ AtOK'
      BY <1>r, <1>t, <1>u, <2>4, <2>i, RowStatements DEF ParkOverCap
    <3>2. QED BY <1>b, <1>p, <1>s, <2>4, <3>1 DEF ParkOverCap, TypeInv
  <2>5. CASE CatchUp(w)
    <3>1. SourceOK'
      BY <1>t, <1>x, <2>5, <2>i DEF CatchUp, SourceOK
    <3>2. AtOK'
      BY <1>g, <2>5, Places DEF CatchUp
    <3>3. QED BY <1>b, <1>p, <1>r, <2>5, <3>1, <3>2 DEF CatchUp, TypeInv
  <2>6. CASE ReclaimIngress(w)
    <3>1. {} \in SUBSET Message
      OBVIOUS
    <3>2. RowOK' /\ AtOK'
      BY <1>g, <1>l, <1>r, <2>6, <2>i, <3>1, Places DEF ReclaimIngress
    <3>3. QED BY <1>b, <1>p, <1>s, <2>6, <3>2 DEF ReclaimIngress, TypeInv
  <2>7. CASE FetchSource(w)
    <3>1. Listing(w) \subseteq Message
      BY <1>n, <2>i DEF Listing, Message
    <3>2. [at[w] EXCEPT !.pc = "persist", !.todo = Listing(w)] \in WorkerState
      BY <1>w, <3>1, Places DEF WorkerState
    <3>3. AtOK'
      BY <1>f, <1>m, <2>7, <3>2 DEF FetchSource, Errors
    <3>4. ProviderOK'
      BY <1>t, <2>7 DEF FetchSource, ProviderOK
    <3>5. QED BY <1>b, <1>r, <1>s, <2>7, <3>3, <3>4 DEF FetchSource, TypeInv
  <2>8. CASE FetchError(w) \/ PersistError(w)
    BY <1>b, <1>f, <1>p, <1>r, <1>s, <2>8 DEF FetchError, PersistError, TypeInv
  <2>9. CASE FetchAuthFailure(w)
    <3>1. AtOK'
      BY <1>f, <2>9 DEF FetchAuthFailure
    <3>2. ProviderOK'
      BY <1>t, <2>9 DEF FetchAuthFailure, ProviderOK, Paused, Pauses
    <3>3. QED BY <1>b, <1>r, <1>s, <2>9, <3>1, <3>2 DEF FetchAuthFailure, TypeInv
  <2>10. CASE PersistStagedInbox(w)
    <3>1. PICK m \in at[w].todo : inboxed' = inboxed \cup {m} /\ Persisted(w, m)
      BY <2>10 DEF PersistStagedInbox
    <3>2. m \in Message
      BY <1>w, <3>1
    <3>3. \A l \in {"persist", "finish", "advance"} :
            [at[w] EXCEPT !.todo = at[w].todo \ {m}, !.pc = l] \in WorkerState
      BY <1>w, Places DEF WorkerState
    <3>4. AtOK'
      BY <1>m, <3>1, <3>3 DEF Persisted
    <3>5. SourceOK'
      BY <1>t, <2>10, <3>1, <3>2 DEF PersistStagedInbox, SourceOK
    <3>6. QED BY <1>b, <1>p, <1>r, <2>10, <3>4, <3>5 DEF PersistStagedInbox, TypeInv
  <2>11. CASE AdvanceProviderCursor(w)
    <3>1. SourceOK'
      BY <1>t, <1>x, <2>11, <2>i DEF AdvanceProviderCursor, SourceOK
    <3>2. AtOK'
      BY <1>f, <1>g, <2>11, Places DEF AdvanceProviderCursor, Errors
    <3>3. QED BY <1>b, <1>p, <1>r, <2>11, <3>1, <3>2 DEF AdvanceProviderCursor, TypeInv
  <2>12. CASE TransitionStaged(w)
    <3>1. RowOK' /\ AtOK'
      BY <1>g, <1>r, <1>t, <2>12, <2>i, Places, RowStatements DEF TransitionStaged, Reasons
    <3>2. QED BY <1>b, <1>p, <1>s, <2>12, <3>1 DEF TransitionStaged, TypeInv
  <2>13. CASE HandleError(w)
    <3>1. RowOK' /\ AtOK'
      BY <1>g, <1>r, <1>t, <2>13, <2>i, Places, RowStatements DEF HandleError
    <3>2. QED BY <1>b, <1>p, <1>s, <2>13, <3>1 DEF HandleError, TypeInv
  <2>14. CASE ParkIngressWhilePaused(w)
    <3>1. RowOK' /\ AtOK'
      BY <1>g, <1>r, <1>t, <2>14, <2>i, Places, RowStatements DEF ParkIngressWhilePaused
    <3>2. QED BY <1>b, <1>p, <1>s, <2>14, <3>1 DEF ParkIngressWhilePaused, TypeInv
  <2>15. CASE MarkFailed(w)
    <3>1. RowOK' /\ AtOK'
      BY <1>g, <1>r, <1>t, <2>15, <2>i, Places, RowStatements DEF MarkFailed, Reasons
    <3>2. QED BY <1>b, <1>p, <1>s, <2>15, <3>1 DEF MarkFailed, TypeInv
  <2>16. CASE SyncNext(w)
    <3>1. i + 1 \in 1..(N + 1)
      BY <2>i DEF Message
    <3>2. QED BY <1>v, <2>16, <3>1 DEF SyncNext
  <2>17. CASE SyncEnd(w)
    <3>1. SourceOK'
      BY <1>t, <2>17, <2>i DEF SyncEnd, SourceOK
    <3>2. AtOK'
      BY <1>g, <2>17, Places DEF SyncEnd
    <3>3. QED BY <1>b, <1>p, <1>r, <2>17, <3>1, <3>2 DEF SyncEnd, TypeInv
  <2>18. QED
    BY <1>12, <2>1, <2>2, <2>3, <2>4, <2>5, <2>6, <2>7, <2>8, <2>9, <2>10, <2>11, <2>12, <2>13,
       <2>14, <2>15, <2>16, <2>17 DEF Step
<1>13. CASE UNCHANGED vars
  BY <1>13, <1>a, <1>b, <1>p, <1>r, <1>s DEF vars, TypeInv
<1>14. QED
  BY <1>1, <1>2, <1>3, <1>4, <1>5, <1>6, <1>7, <1>8, <1>9, <1>10, <1>11, <1>12, <1>13 DEF Next

LEMMA TypeAlways == Spec => []TypeInv
BY TypeInit, TypeNext, PTL DEF Spec

\* Every column and every local of a worker stays in the set it ranges over,
\* whatever the order of notifications, leases, pauses and cursor updates.
THEOREM TypeCorrect == Spec => []TypeOK
<1>1. TypeInv => TypeOK
  BY DEF TypeInv, TypeOK, RowOK, SourceOK, ProviderOK, AtOK, BoundsOK
<1>2. QED BY <1>1, TypeAlways, PTL

-----------------------------------------------------------------------------
(* How a step moves the rows.                                              *)

\* Row i alone moves: it is claimed, settled, put aside, inserted or revived.
Claims(i) ==
  /\ \/ Claimable(i) /\ attempts'[i] = attempts[i] + 1
     \/ status[i] = "staging" /\ attempts'[i] = attempts[i]
  /\ status'[i] = "staging"
Ends(i) ==
  /\ \/ /\ status[i] = "staging"
        /\ \/ status'[i] \in {"terminal_failed", "retryable_failed"}
           \/ /\ status'[i] = "staged"
              /\ \E w \in Worker : At(w, "finish") /\ at[w].job = i
     \/ /\ status[i] = "retryable_failed"
        /\ status'[i] = "retryable_failed" \/ (status'[i] = "terminal_failed" /\ ~Paused)
  /\ attempts'[i] \in {0, attempts[i]}
Opens(i) ==
  \/ /\ status[i] = "absent" /\ status'[i] = "received" /\ i <= arrived
     /\ attempts'[i] = attempts[i]
  \/ status[i] = "terminal_failed" /\ status'[i] = "received" /\ attempts'[i] = 0
Others(i) == \A j \in Message \ {i} : status'[j] = status[j] /\ attempts'[j] = attempts[j]

RowsStep == \/ UNCHANGED <<status, attempts>>
            \/ \E i \in Message : Others(i) /\ (Claims(i) \/ Ends(i) \/ Opens(i))

LEMMA RowsMove == TypeInv /\ [Next]_vars => RowsStep
<1> SUFFICES ASSUME TypeInv, [Next]_vars PROVE RowsStep
  OBVIOUS
<1> USE DEF row
<1>t. /\ status \in [Message -> Statuses] /\ attempts \in [Message -> Nat]
      /\ \A w \in Worker : at[w].job \in Message
  BY DEF TypeInv, RowOK, AtOK, WorkerState
<1>u. CASE UNCHANGED <<status, attempts>>
  BY <1>u DEF RowsStep
<1>l. ASSUME NEW i \in Message, NEW w, NEW n, NEW l, NEW s, Lease(w, i, n, l, s),
             \/ Claimable(i) /\ n = attempts[i] + 1
             \/ status[i] = "staging" /\ n = attempts[i]
      PROVE  RowsStep
  BY <1>l, <1>t DEF Lease, RowsStep, Others, Claims
<1>s. ASSUME NEW i \in Message, NEW st, NEW why, Settle(i, st, why),
             \/ status[i] = "staging" /\ st = "terminal_failed"
             \/ /\ status[i] = "staging" /\ st = "staged"
                /\ \E w \in Worker : At(w, "finish") /\ at[w].job = i
             \/ status[i] = "retryable_failed" /\ st = "terminal_failed" /\ ~Paused
      PROVE  RowsStep
  BY <1>s, <1>t DEF Settle, RowsStep, Others, Ends
<1>p. ASSUME NEW i \in Message, Postpone(i) \/ Park(i), status[i] \in {"staging", "retryable_failed"}
      PROVE  RowsStep
  BY <1>p, <1>t DEF Postpone, Park, RowsStep, Others, Ends
<1>n. ASSUME NEW i \in Message, Insert(i), i <= arrived PROVE RowsStep
  <2>1. CASE status[i] = "absent"
    BY <1>n, <1>t, <2>1 DEF Insert, RowsStep, Others, Opens
  <2>2. CASE status[i] # "absent"
    BY <1>n, <1>t, <1>u, <2>2 DEF Insert
  <2>3. QED BY <2>1, <2>2
<1>v. ASSUME NEW w \in Worker, NEW i \in 1..(N + 1), ReadySource(w, i) PROVE RowsStep
  <2>1. i \in Message
    BY <1>v, Limits DEF ReadySource, Message, TypeInv, ProviderOK
  <2>2. QED BY <1>n, <1>v, <2>1 DEF ReadySource
<1>1. CASE Arrive \/ PauseProvider \/ ResumeProvider \/ RegisterWatch \/ StoreWatch
  BY <1>1, <1>u DEF Arrive, PauseProvider, ResumeProvider, RegisterWatch, StoreWatch
<1>2. ASSUME NEW i \in Message,
             PersistIngressPointer(i) \/ ReviveTerminalIngress(i) \/ LeaseExpires(i)
               \/ BackoffElapses(i)
      PROVE  RowsStep
  <2>1. CASE PersistIngressPointer(i)
    BY <1>n, <2>1 DEF PersistIngressPointer
  <2>2. CASE ReviveTerminalIngress(i)
    BY <1>t, <2>2 DEF ReviveTerminalIngress, RowsStep, Others, Opens
  <2>3. CASE LeaseExpires(i) \/ BackoffElapses(i)
    BY <1>u, <2>3 DEF LeaseExpires, BackoffElapses
  <2>4. QED BY <1>2, <2>1, <2>2, <2>3
<1>3. ASSUME NEW w \in Worker, NEW i \in Message, Wake(w, i) \/ SweepRead(w, i) PROVE RowsStep
  BY <1>3, <1>u DEF Wake, SweepRead
<1>4. ASSUME NEW w \in Worker, SyncStart(w) PROVE RowsStep
  BY <1>4, <1>v, Limits DEF SyncStart, TypeInv, SourceOK
<1>5. ASSUME NEW w \in Worker, Crash(w) PROVE RowsStep
  BY <1>5, <1>u DEF Crash
<1>6. ASSUME NEW w \in Worker, Step(w) PROVE RowsStep
  <2>i. at[w].job \in Message
    BY <1>t
  <2>1. CASE ClaimIngress(w)
    BY <1>l, <1>u, <2>1, <2>i DEF ClaimIngress
  <2>2. CASE ReclaimIngress(w)
    BY <1>l, <1>u, <2>2, <2>i DEF ReclaimIngress
  <2>3. CASE DeadletterIngress(w)
    BY <1>s, <1>u, <2>3, <2>i DEF DeadletterIngress
  <2>4. CASE ParkOverCap(w) \/ HandleError(w) \/ ParkIngressWhilePaused(w)
    BY <1>p, <1>u, <2>4, <2>i DEF ParkOverCap, HandleError, ParkIngressWhilePaused, Fenced
  <2>5. CASE TransitionStaged(w)
    <3>1. CASE Fenced(w)
      BY <1>s, <2>5, <2>i, <3>1 DEF TransitionStaged, Fenced
    <3>2. CASE ~Fenced(w)
      BY <1>u, <2>5, <3>2 DEF TransitionStaged
    <3>3. QED BY <3>1, <3>2
  <2>6. CASE MarkFailed(w)
    <3>1. CASE Fenced(w)
      BY <1>p, <1>s, <2>6, <2>i, <3>1 DEF MarkFailed, Fenced
    <3>2. CASE ~Fenced(w)
      BY <1>u, <2>6, <3>2 DEF MarkFailed
    <3>3. QED BY <3>1, <3>2
  <2>7. CASE SyncNext(w)
    <3>1. at[w].job + 1 \in 1..(N + 1)
      BY <2>i, Limits DEF Message
    <3>2. QED BY <1>v, <2>7, <3>1 DEF SyncNext
  <2>8. CASE ReadPauseOverCap(w) \/ ReadPauseToPark(w) \/ ReadMissed(w) \/ CatchUp(w)
             \/ FetchSource(w) \/ FetchError(w) \/ FetchAuthFailure(w) \/ PersistStagedInbox(w)
             \/ PersistError(w) \/ AdvanceProviderCursor(w) \/ SyncEnd(w)
    BY <1>u, <2>8 DEF ReadPauseOverCap, ReadPauseToPark, ReadMissed, CatchUp, FetchSource,
                      FetchError, FetchAuthFailure, PersistStagedInbox, PersistError,
                      AdvanceProviderCursor, SyncEnd
  <2>9. QED
    BY <1>6, <2>1, <2>2, <2>3, <2>4, <2>5, <2>6, <2>7, <2>8 DEF Step
<1>7. CASE UNCHANGED vars
  BY <1>7, <1>u DEF vars
<1>8. QED BY <1>1, <1>2, <1>3, <1>4, <1>5, <1>6, <1>7 DEF Next

\* A row waiting for its next attempt is given up only while the provider is
\* not paused, however long ago the claim or the sweep read its attempts.
THEOREM PauseShieldsRows == Spec => DeadletterRespectsPause
<1>1. TypeInv /\ [Next]_vars =>
        [\A i \in Message :
           status[i] = "retryable_failed" /\ status'[i] = "terminal_failed" => ~Paused]_vars
  BY RowsMove DEF RowsStep, Others, Claims, Ends, Opens
<1>2. QED BY <1>1, TypeAlways, PTL DEF Spec, DeadletterRespectsPause

-----------------------------------------------------------------------------
(* The attempt cap.                                                        *)

\* A row that has not failed yet has no attempts.
AttemptsInv ==
  \A i \in Message : /\ attempts[i] <= MaxAttempts
                     /\ status[i] \in {"absent", "received"} => attempts[i] = 0

\* No row is claimed more often than the cap before it is parked or revived.
THEOREM CapHolds == Spec => []AttemptsCapped
<1>1. Init => AttemptsInv
  BY Limits DEF Init, AttemptsInv
<1>2. TypeInv /\ AttemptsInv /\ [Next]_vars => AttemptsInv'
  <2> SUFFICES ASSUME TypeInv, AttemptsInv, [Next]_vars PROVE AttemptsInv'
    OBVIOUS
  <2>t. \A i \in Message : attempts[i] \in Nat
    BY DEF TypeInv, RowOK
  <2>1. CASE UNCHANGED <<status, attempts>>
    BY <2>1 DEF AttemptsInv
  <2>2. ASSUME NEW i \in Message, Others(i), Claims(i) \/ Ends(i) \/ Opens(i)
        PROVE  AttemptsInv'
    <3>1. /\ attempts'[i] <= MaxAttempts
          /\ status'[i] \in {"absent", "received"} => attempts'[i] = 0
      BY <2>2, <2>t, Limits DEF AttemptsInv, Claims, Ends, Opens, Claimable
    <3>2. QED BY <2>2, <3>1 DEF AttemptsInv, Others
  <2>3. QED BY <2>1, <2>2, RowsMove DEF RowsStep
<1>3. AttemptsInv => AttemptsCapped
  BY DEF AttemptsInv, AttemptsCapped
<1>4. QED BY <1>1, <1>2, <1>3, TypeAlways, PTL DEF Spec

-----------------------------------------------------------------------------
(* What is covered.  A worker that lists the history from the cursor has,  *)
(* of the messages up to its own, each covered or still in hand.           *)

Owed(w) == IF kind = "google" THEN 1..at[w].job ELSE {at[w].job}

WorkerInv(w) ==
  /\ ~At(w, "idle") => at[w].job <= arrived
  /\ at[w].via = "sync" => kind = "imap"
  /\ At(w, "synced") => kind = "imap"
  /\ At(w, "catchUp") => kind = "microsoft"
  /\ At(w, "persist") => \A m \in Owed(w) : Covered(m) \/ m \in at[w].todo
  /\ At(w, "advance") => \A m \in Owed(w) : Covered(m)
  /\ At(w, "finish") => Covered(at[w].job)

CoverInv ==
  /\ StagedIsDurable /\ HistoryCursorSound
  /\ \A i \in Message : status[i] # "absent" => i <= arrived
  /\ \A w \in Worker : WorkerInv(w)

\* A step of no worker or of one, which leaves what is covered covered.
Grows == /\ kind' = kind /\ arrived' >= arrived
         /\ inboxed \subseteq inboxed' /\ baseline' >= baseline

\* Who moves the cursor, and the newest watch with it.
CursorStep ==
  \/ UNCHANGED <<cursor, baseline>>
  \/ watchId # -1 /\ watchId' = -1 /\ baseline' = Max({baseline, watchId}) /\ cursor' = watchId
  \/ kind = "imap" /\ UNCHANGED baseline
  \/ \E w \in Worker : /\ At(w, "advance") \/ (At(w, "catchUp") /\ kind = "microsoft")
                       /\ AdvanceCursor(at[w].job) /\ UNCHANGED baseline

LEMMA SourceMoves == TypeInv /\ CoverInv /\ [Next]_vars => Grows /\ CursorStep
<1> SUFFICES ASSUME TypeInv, CoverInv, [Next]_vars PROVE Grows /\ CursorStep
  OBVIOUS
<1> USE DEF source, provider, bounds
<1>t. /\ arrived \in Nat /\ baseline \in Nat /\ watchId \in -1..N /\ inboxed \subseteq Message
      /\ \A w \in Worker : at[w].todo \subseteq Message
  BY DEF TypeInv, ProviderOK, SourceOK, AtOK, WorkerState
<1>u. ASSUME UNCHANGED <<kind, arrived, inboxed, cursor, baseline>> PROVE Grows /\ CursorStep
  BY <1>t, <1>u DEF Grows, CursorStep
<1>1. CASE Arrive
  BY <1>1, <1>t DEF Arrive, Grows, CursorStep
<1>2. CASE PauseProvider \/ RegisterWatch
  BY <1>2, <1>u DEF PauseProvider, RegisterWatch
<1>3. CASE ResumeProvider
  BY <1>3, <1>t DEF ResumeProvider, Grows, CursorStep
<1>4. CASE StoreWatch
  <2>1. watchId \in Nat
    BY <1>4, <1>t DEF StoreWatch
  <2>2. Max({baseline, watchId}) >= baseline
    BY <1>t, <2>1, MaxOfTwo
  <2>3. QED BY <1>4, <1>t, <2>2 DEF StoreWatch, Grows, CursorStep
<1>5. ASSUME NEW i \in Message,
             PersistIngressPointer(i) \/ ReviveTerminalIngress(i) \/ LeaseExpires(i)
               \/ BackoffElapses(i)
      PROVE  Grows /\ CursorStep
  BY <1>5, <1>u DEF PersistIngressPointer, ReviveTerminalIngress, LeaseExpires, BackoffElapses
<1>6. ASSUME NEW w \in Worker, NEW i \in Message, Wake(w, i) \/ SweepRead(w, i)
      PROVE  Grows /\ CursorStep
  BY <1>6, <1>u DEF Wake, SweepRead
<1>7. ASSUME NEW w \in Worker, SyncStart(w) \/ Crash(w) PROVE Grows /\ CursorStep
  BY <1>7, <1>u DEF SyncStart, Crash, ReadySource
<1>8. ASSUME NEW w \in Worker, Step(w) PROVE Grows /\ CursorStep
  <2>1. CASE PersistStagedInbox(w)
    BY <1>t, <2>1 DEF PersistStagedInbox, Grows, CursorStep
  <2>2. CASE CatchUp(w)
    <3>1. kind = "microsoft"
      BY <2>2 DEF CatchUp, CoverInv, WorkerInv
    <3>2. Grows
      BY <1>t, <2>2 DEF CatchUp, Grows
    <3>3. CursorStep
      BY <2>2, <3>1 DEF CatchUp, CursorStep
    <3>4. QED BY <3>2, <3>3
  <2>3. CASE AdvanceProviderCursor(w)
    <3>1. Grows
      BY <1>t, <2>3 DEF AdvanceProviderCursor, Grows
    <3>2. CursorStep
      BY <2>3 DEF AdvanceProviderCursor, CursorStep
    <3>3. QED BY <3>1, <3>2
  <2>4. CASE SyncEnd(w)
    <3>1. kind = "imap"
      BY <2>4 DEF SyncEnd, CoverInv, WorkerInv
    <3>2. QED BY <1>t, <2>4, <3>1 DEF SyncEnd, Grows, CursorStep
  <2>5. CASE ~(PersistStagedInbox(w) \/ CatchUp(w) \/ AdvanceProviderCursor(w) \/ SyncEnd(w))
    BY <1>8, <1>u, <2>5
       DEF Step, ClaimIngress, ReadPauseOverCap, DeadletterIngress, ReadPauseToPark, ParkOverCap,
           ReadMissed, ReclaimIngress, FetchSource, FetchError, FetchAuthFailure, PersistError,
           TransitionStaged, HandleError, ParkIngressWhilePaused, MarkFailed, SyncNext, ReadySource
  <2>6. QED BY <2>1, <2>2, <2>3, <2>4, <2>5
<1>9. CASE UNCHANGED vars
  BY <1>9, <1>u DEF vars
<1>10. QED BY <1>1, <1>2, <1>3, <1>4, <1>5, <1>6, <1>7, <1>8, <1>9 DEF Next

\* What one step of a worker leaves the worker with.
LEMMA WorkerMoves ==
  ASSUME TypeInv, TypeInv', CoverInv, Grows, NEW w \in Worker,
         Step(w) \/ SyncStart(w) \/ Crash(w) \/ \E i \in Message : Wake(w, i) \/ SweepRead(w, i)
  PROVE  WorkerInv(w)' /\ \A v \in Worker \ {w} : at'[v] = at[v]
<1> USE DEF source, provider, bounds, At
<1>t. /\ at \in [Worker -> WorkerState] /\ at[w] \in WorkerState
      /\ arrived \in Nat /\ baseline \in Nat /\ cursor \in Nat
      /\ arrived' \in Nat /\ baseline' \in Nat
      /\ inboxed \subseteq Message /\ at[w].job \in 1..N /\ at[w].todo \subseteq 1..N
  BY DEF TypeInv, AtOK, ProviderOK, SourceOK, WorkerState, Message
<1>i. WorkerInv(w)
  BY DEF CoverInv
<1>k. kind' = kind /\ (at[w].job <= arrived => at[w].job <= arrived')
      /\ \A m : Covered(m) /\ m \in Nat => Covered(m)'
  BY <1>t DEF Grows, Covered
<1>b. ASSUME NEW s, Become(w, s)
      PROVE  at'[w] = s /\ \A v \in Worker \ {w} : at'[v] = at[v]
  BY <1>b, <1>t DEF Become
\* An idle worker, and one that goes where nothing is asked of it.
<1>d. ASSUME Goto(w, "idle") PROVE WorkerInv(w)' /\ \A v \in Worker \ {w} : at'[v] = at[v]
  BY <1>b, <1>d DEF Goto, WorkerInv, Idle
<1>g. ASSUME NEW l \in Locations \ {"persist", "advance", "finish"}, Goto(w, l),
             at[w].pc # "idle",
             l = "synced" => kind = "imap", l = "catchUp" => kind = "microsoft"
      PROVE  WorkerInv(w)' /\ \A v \in Worker \ {w} : at'[v] = at[v]
  <2>1. CASE l = "idle"
    BY <1>d, <1>g, <2>1
  <2>2. CASE l # "idle"
    <3>1. Become(w, [at[w] EXCEPT !.pc = l])
      BY <1>g, <2>2 DEF Goto
    <3>2. /\ at'[w].pc = l /\ at'[w].via = at[w].via /\ at'[w].job = at[w].job
      BY <1>b, <1>t, <3>1 DEF WorkerState
    <3>3. QED BY <1>b, <1>g, <1>i, <1>k, <3>1, <3>2 DEF WorkerInv
  <2>3. QED BY <2>1, <2>2
<1>f. ASSUME NEW e, Fail(w, e), at[w].pc # "idle"
      PROVE  WorkerInv(w)' /\ \A v \in Worker \ {w} : at'[v] = at[v]
  <2>1. at'[w].pc = "failed" /\ at'[w].via = at[w].via /\ at'[w].job = at[w].job
        /\ \A v \in Worker \ {w} : at'[v] = at[v]
    BY <1>f, <1>t DEF Fail, Become, WorkerState
  <2>2. QED BY <1>f, <1>i, <1>k, <2>1 DEF WorkerInv
<1>u. ASSUME Unclaimed(w), at[w].pc # "idle"
      PROVE  WorkerInv(w)' /\ \A v \in Worker \ {w} : at'[v] = at[v]
  <2>1. PICK l \in {"missed", "synced", "idle"} : Goto(w, l) /\ (l = "synced" => at[w].via = "sync")
    BY <1>u DEF Unclaimed
  <2>2. QED BY <1>g, <1>i, <1>u, <2>1, Places DEF WorkerInv
<1>l. ASSUME NEW n, NEW l \in {"fetch", "persist"}, NEW s, Lease(w, at[w].job, n, l, s),
             at[w].pc # "idle", l = "persist" => kind = "imap" /\ at[w].job \in s
      PROVE  WorkerInv(w)' /\ \A v \in Worker \ {w} : at'[v] = at[v]
  <2>1. /\ at'[w].pc = l /\ at'[w].via = at[w].via /\ at'[w].job = at[w].job /\ at'[w].todo = s
        /\ \A v \in Worker \ {w} : at'[v] = at[v]
    BY <1>l, <1>t DEF Lease, Become, WorkerState
  <2>2. QED BY <1>i, <1>k, <1>l, <2>1 DEF WorkerInv, Owed
<1>e. ASSUME NEW k \in Kinds, NEW i \in Message, NEW l \in {"claim", "deadletter", "synced"},
             Begin(w, k, i, l), i <= arrived', k = "sync" \/ l = "synced" => kind = "imap"
      PROVE  WorkerInv(w)' /\ \A v \in Worker \ {w} : at'[v] = at[v]
  <2>1. /\ at'[w].pc = l /\ at'[w].via = k /\ at'[w].job = i
        /\ \A v \in Worker \ {w} : at'[v] = at[v]
    BY <1>e, <1>t, IdleWorker DEF Begin, Become, WorkerState
  <2>2. QED BY <1>e, <1>k, <2>1 DEF WorkerInv
<1>v. ASSUME NEW i \in 1..(N + 1), ReadySource(w, i), kind = "imap"
      PROVE  WorkerInv(w)' /\ \A v \in Worker \ {w} : at'[v] = at[v]
  <2>1. i \in Message /\ i <= arrived'
    BY <1>t, <1>v, Limits DEF ReadySource, Message, TypeInv, ProviderOK
  <2>2. \E l \in {"claim", "synced"} : Begin(w, "sync", i, l)
    BY <1>v DEF ReadySource
  <2>3. QED BY <1>e, <1>v, <2>1, <2>2 DEF Kinds
<1>1. CASE Crash(w)
  BY <1>1, <1>d DEF Crash
<1>2. CASE SyncStart(w)
  <2>1. cursor + 1 \in 1..(N + 1)
    BY <1>t, Limits DEF TypeInv, SourceOK
  <2>2. QED BY <1>2, <1>v, <2>1 DEF SyncStart
<1>3. ASSUME NEW i \in Message, Wake(w, i) \/ SweepRead(w, i)
      PROVE  WorkerInv(w)' /\ \A v \in Worker \ {w} : at'[v] = at[v]
  <2>1. status[i] # "absent" /\ UNCHANGED arrived
    BY <1>3 DEF Wake, SweepRead, OverCap
  <2>2. i <= arrived'
    BY <2>1 DEF CoverInv
  <2>3. Begin(w, "job", i, "claim") \/ Begin(w, "sweep", i, "deadletter")
    BY <1>3 DEF Wake, SweepRead
  <2>4. QED BY <1>e, <2>2, <2>3 DEF Kinds
<1>4. CASE Step(w)
  <2>1. CASE ClaimIngress(w)
    <3>1. at[w].pc # "idle"
      BY <2>1 DEF ClaimIngress
    <3>2. \/ Goto(w, "overCap") \/ Unclaimed(w)
          \/ at[w].via = "sync" /\ \E n : Lease(w, at[w].job, n, "persist", {at[w].job})
          \/ \E n : Lease(w, at[w].job, n, "fetch", {})
      BY <2>1 DEF ClaimIngress
    <3>3. at[w].via = "sync" => kind = "imap"
      BY <1>i DEF WorkerInv
    <3>4. at[w].job \in {at[w].job}
      OBVIOUS
    <3>5. QED BY <1>g, <1>l, <1>u, <3>1, <3>2, <3>3, <3>4, Places
  <2>2. CASE ReadPauseOverCap(w) \/ ReadPauseToPark(w) \/ ReadMissed(w)
    <3>1. /\ at[w].pc # "idle"
          /\ \/ Unclaimed(w)
             \/ \E l \in {"deadletter", "park", "reclaim", "idle"} : Goto(w, l)
             \/ Goto(w, "catchUp") /\ kind = "microsoft"
      BY <2>2 DEF ReadPauseOverCap, ReadPauseToPark, ReadMissed
    <3>2. QED BY <1>g, <1>u, <3>1, Places
  <2>3. CASE DeadletterIngress(w) \/ ParkOverCap(w)
    <3>1. at[w].pc # "idle" /\ (Unclaimed(w) \/ Goto(w, "parkCheck"))
      BY <2>3 DEF DeadletterIngress, ParkOverCap
    <3>2. QED BY <1>g, <1>u, <3>1, Places
  <2>4. CASE CatchUp(w) \/ ParkIngressWhilePaused(w) \/ MarkFailed(w) \/ SyncEnd(w)
    BY <1>d, <2>4 DEF CatchUp, ParkIngressWhilePaused, MarkFailed, SyncEnd
  <2>5. CASE ReclaimIngress(w)
    BY <1>d, <1>l, <2>5 DEF ReclaimIngress
  <2>6. CASE FetchSource(w)
    <3>1. CASE Become(w, [at[w] EXCEPT !.pc = "persist", !.todo = Listing(w)])
      <4>1. /\ at'[w].pc = "persist" /\ at'[w].via = at[w].via /\ at'[w].job = at[w].job
            /\ at'[w].todo = Listing(w) /\ \A v \in Worker \ {w} : at'[v] = at[v]
        BY <1>t, <3>1 DEF Become, WorkerState
      <4>2. at[w].job <= arrived
        BY <1>i, <2>6 DEF FetchSource, WorkerInv
      <4>3. \A m \in Owed(w) : Covered(m) \/ m \in Listing(w)
        <5>1. CASE kind = "google"
          <6>1. \A m \in 1..cursor : Covered(m)
            BY <5>1 DEF CoverInv, HistoryCursorSound
          <6>2. QED BY <1>t, <4>2, <5>1, <6>1 DEF Owed, Listing
        <5>2. CASE kind # "google"
          BY <5>2 DEF Owed, Listing
        <5>3. QED BY <5>1, <5>2
      <4>4. Owed(w)' = Owed(w) /\ \A m \in Owed(w) : m \in Nat
        BY <1>k, <1>t, <4>1 DEF Owed
      <4>5. \A m \in Owed(w)' : Covered(m)' \/ m \in at'[w].todo
        BY <1>k, <4>1, <4>3, <4>4
      <4>6. QED BY <1>i, <1>k, <4>1, <4>2, <4>5 DEF WorkerInv
    <3>2. CASE Fail(w, "permanent")
      BY <1>f, <2>6, <3>2 DEF FetchSource
    <3>3. QED BY <2>6, <3>1, <3>2 DEF FetchSource
  <2>7. CASE FetchError(w) \/ FetchAuthFailure(w) \/ PersistError(w)
    BY <1>f, <2>7 DEF FetchError, FetchAuthFailure, PersistError
  <2>8. CASE PersistStagedInbox(w)
    <3>1. PICK m \in at[w].todo : inboxed' = inboxed \cup {m} /\ Persisted(w, m)
      BY <2>8 DEF PersistStagedInbox
    <3>2. PICK l \in {"persist", "finish", "advance"} :
            /\ Become(w, [at[w] EXCEPT !.todo = at[w].todo \ {m}, !.pc = l])
            /\ l # "persist" => at[w].todo = {m}
      BY <3>1 DEF Persisted
    <3>3. /\ at'[w].pc = l /\ at'[w].via = at[w].via /\ at'[w].job = at[w].job
          /\ at'[w].todo = at[w].todo \ {m} /\ \A v \in Worker \ {w} : at'[v] = at[v]
      BY <1>t, <3>2 DEF Become, WorkerState
    <3>4. Owed(w)' = Owed(w) /\ \A n \in Owed(w) : n \in Nat
      BY <1>k, <1>t, <3>3 DEF Owed
    <3>5. \A n \in Owed(w) : Covered(n) \/ n \in at[w].todo
      BY <1>i, <2>8 DEF PersistStagedInbox, WorkerInv
    <3>6. Covered(m)'
      BY <3>1 DEF Covered
    <3>7. \A n \in Owed(w)' : Covered(n)' \/ n \in at'[w].todo
      BY <1>k, <3>3, <3>4, <3>5, <3>6
    <3>8. l # "persist" => \A n \in Owed(w)' : Covered(n)'
      BY <3>2, <3>3, <3>7
    <3>9. at'[w].job \in Owed(w)'
      BY <1>t, <3>3, <3>4 DEF Owed
    <3>10. at'[w].job <= arrived'
      BY <1>i, <1>k, <2>8, <3>3 DEF PersistStagedInbox, WorkerInv
    <3>11. QED BY <1>i, <1>k, <3>3, <3>7, <3>8, <3>9, <3>10 DEF WorkerInv
  <2>9. CASE AdvanceProviderCursor(w)
    <3>1. CASE Goto(w, "finish")
      <4>1. /\ at'[w].pc = "finish" /\ at'[w].via = at[w].via /\ at'[w].job = at[w].job
            /\ \A v \in Worker \ {w} : at'[v] = at[v]
        BY <1>b, <1>t, <3>1 DEF Goto, WorkerState
      <4>2. at[w].job <= arrived /\ Covered(at[w].job)
        BY <1>i, <1>t, <2>9 DEF AdvanceProviderCursor, WorkerInv, Owed
      <4>3. QED BY <1>i, <1>k, <1>t, <4>1, <4>2 DEF WorkerInv
    <3>2. CASE Fail(w, "retryable")
      BY <1>f, <2>9, <3>2 DEF AdvanceProviderCursor
    <3>3. QED BY <2>9, <3>1, <3>2 DEF AdvanceProviderCursor
  <2>10. CASE TransitionStaged(w)
    <3>1. at[w].via = "sync" => kind = "imap"
      BY <1>i DEF WorkerInv
    <3>2. QED BY <1>d, <1>g, <2>10, <3>1, Places DEF TransitionStaged
  <2>11. CASE HandleError(w)
    <3>1. at[w].pc # "idle" /\ \E l \in {"parkClaim", "mark", "idle"} : Goto(w, l)
      BY <2>11 DEF HandleError
    <3>2. QED BY <1>g, <3>1, Places
  <2>12. CASE SyncNext(w)
    <3>1. at[w].job + 1 \in 1..(N + 1) /\ kind = "imap"
      BY <1>i, <1>t, <2>12, Limits DEF SyncNext, WorkerInv
    <3>2. QED BY <1>v, <2>12, <3>1 DEF SyncNext
  <2>13. QED
    BY <1>4, <2>1, <2>2, <2>3, <2>4, <2>5, <2>6, <2>7, <2>8, <2>9, <2>10, <2>11, <2>12 DEF Step
<1>5. QED BY <1>1, <1>2, <1>3, <1>4

LEMMA CoverNext == TypeInv /\ CoverInv /\ [Next]_vars => CoverInv'
<1> SUFFICES ASSUME TypeInv, CoverInv, [Next]_vars PROVE CoverInv'
  OBVIOUS
<1>s. Grows /\ CursorStep /\ RowsStep
  BY RowsMove, SourceMoves
<1>t. /\ arrived \in Nat /\ arrived' \in Nat /\ baseline \in Nat /\ baseline' \in Nat
      /\ cursor \in Nat /\ watchId \in -1..N /\ at \in [Worker -> WorkerState]
      /\ \A w \in Worker : at[w].job \in 1..N
  BY TypeNext DEF TypeInv, ProviderOK, SourceOK, AtOK, WorkerState, Message
<1>k. \A m : Covered(m) /\ m \in Nat => Covered(m)'
  BY <1>s, <1>t DEF Grows, Covered
<1>1. StagedIsDurable' /\ \A i \in Message : status'[i] # "absent" => i <= arrived'
  <2>1. \A i \in Message : i \in Nat
    BY DEF Message
  <2>2. \A i \in Message : status[i] = "staged" => Covered(i)'
    BY <1>k, <2>1 DEF CoverInv, StagedIsDurable
  <2>3. \A i \in Message : status[i] # "absent" => i <= arrived'
    BY <1>s, <1>t, <2>1 DEF CoverInv, Grows
  <2>4. CASE UNCHANGED <<status, attempts>>
    BY <2>2, <2>3, <2>4 DEF StagedIsDurable
  <2>5. ASSUME NEW i \in Message, Others(i), Claims(i) \/ Ends(i) \/ Opens(i)
        PROVE  StagedIsDurable' /\ \A j \in Message : status'[j] # "absent" => j <= arrived'
    <3>1. status'[i] = "staged" => Covered(i)
      BY <2>5 DEF Claims, Ends, Opens, CoverInv, WorkerInv
    <3>2. status'[i] # "absent" => i <= arrived'
      BY <1>s, <1>t, <2>1, <2>3, <2>5 DEF Claims, Ends, Opens, Claimable, Grows
    <3>3. QED BY <1>k, <2>1, <2>2, <2>3, <2>5, <3>1, <3>2 DEF Others, StagedIsDurable
  <2>6. QED BY <1>s, <2>4, <2>5 DEF RowsStep
<1>2. HistoryCursorSound'
  <2> SUFFICES ASSUME kind = "google" PROVE \A m \in 1..cursor' : Covered(m)'
    BY <1>s DEF HistoryCursorSound, Grows
  <2>1. \A m \in 1..cursor : Covered(m)'
    BY <1>k, <1>t DEF CoverInv, HistoryCursorSound
  <2>2. CASE UNCHANGED <<cursor, baseline>>
    BY <2>1, <2>2
  <2>3. CASE watchId # -1 /\ baseline' = Max({baseline, watchId}) /\ cursor' = watchId
    <3>1. watchId \in Nat
      BY <1>t, <2>3
    <3>2. baseline' >= cursor'
      BY <1>t, <2>3, <3>1, MaxOfTwo
    <3>3. QED BY <1>t, <2>3, <3>1, <3>2 DEF Covered
  <2>4. ASSUME NEW w \in Worker, At(w, "advance"), AdvanceCursor(at[w].job)
        PROVE  \A m \in 1..cursor' : Covered(m)'
    <3>1. \A m \in 1..at[w].job : Covered(m)
      BY <2>4 DEF CoverInv, WorkerInv, Owed
    <3>2. cursor' \in {cursor, at[w].job}
      BY <1>t, <2>4, MaxOfTwo DEF AdvanceCursor
    <3>3. QED BY <1>k, <1>t, <2>1, <3>1, <3>2
  <2>5. QED BY <1>s, <2>2, <2>3, <2>4 DEF CursorStep
<1>3. \A w \in Worker : WorkerInv(w)'
  \* The others.
  <2>1. ASSUME NEW v \in Worker, at'[v] = at[v] PROVE WorkerInv(v)'
    <3>1. WorkerInv(v)
      BY DEF CoverInv
    <3>2. kind' = kind /\ (at[v].job <= arrived => at[v].job <= arrived')
      BY <1>s, <1>t DEF Grows
    <3>3. Owed(v)' = Owed(v) /\ \A m \in Owed(v) : m \in Nat
      BY <1>t, <2>1, <3>2 DEF Owed
    <3>4. QED BY <1>k, <1>t, <2>1, <3>1, <3>2, <3>3 DEF WorkerInv, At
  <2>2. CASE UNCHANGED at
    BY <2>1, <2>2
  <2>3. ASSUME NEW w \in Worker,
               Step(w) \/ SyncStart(w) \/ Crash(w)
                 \/ \E i \in Message : Wake(w, i) \/ SweepRead(w, i)
        PROVE  \A v \in Worker : WorkerInv(v)'
    BY <1>s, <2>1, <2>3, TypeNext, WorkerMoves
  <2>4. CASE \/ Arrive \/ PauseProvider \/ ResumeProvider \/ RegisterWatch \/ StoreWatch
             \/ \E i \in Message : PersistIngressPointer(i) \/ ReviveTerminalIngress(i)
                                     \/ LeaseExpires(i) \/ BackoffElapses(i)
    BY <2>2, <2>4 DEF Arrive, PauseProvider, ResumeProvider, RegisterWatch, StoreWatch,
                      PersistIngressPointer, ReviveTerminalIngress, LeaseExpires, BackoffElapses
  <2>5. CASE UNCHANGED vars
    BY <2>2, <2>5 DEF vars
  <2>6. QED BY <2>3, <2>4, <2>5 DEF Next
<1>4. QED BY <1>1, <1>2, <1>3 DEF CoverInv

LEMMA CoverAlways == Spec => []CoverInv
<1>1. Init => CoverInv
  BY DEF Init, CoverInv, StagedIsDurable, HistoryCursorSound, WorkerInv, Idle, At
<1>2. QED BY <1>1, CoverNext, TypeAlways, PTL DEF Spec

\* A row says 'staged' only when its message has an inbox row, or is older than
\* a newly registered Gmail watch.
THEOREM StagedHasSource == Spec => []StagedIsDurable
<1>1. CoverInv => StagedIsDurable
  BY DEF CoverInv
<1>2. QED BY <1>1, CoverAlways, PTL

\* The Gmail history cursor covers only messages with an inbox row, or older
\* than the last watch, in whatever order workers stage and raise it.
THEOREM HistoryCursorIsSound == Spec => []HistoryCursorSound
<1>1. CoverInv => HistoryCursorSound
  BY DEF CoverInv
<1>2. QED BY <1>1, CoverAlways, PTL

\* A staged message stays staged, whoever comes late.
THEOREM StagedNeverTakenBack == Spec => StagedForever
<1>1. TypeInv /\ CoverInv /\ [Next]_vars => [KeepsStaged]_vars
  BY RowsMove, SourceMoves
     DEF RowsStep, Others, Claims, Ends, Opens, Claimable, Grows, KeepsStaged
<1>2. QED BY <1>1, CoverAlways, TypeAlways, PTL DEF Spec, StagedForever

\* The cursor never goes back, but for a new Gmail watch or an IMAP resync.
THEOREM CursorNeverGoesBack == Spec => CursorRises
<1>1. TypeInv /\ CoverInv /\ [Next]_vars =>
        [cursor' < cursor => \/ watchId # -1 /\ watchId' = -1
                             \/ kind = "imap"]_vars
  <2> SUFFICES ASSUME TypeInv, CoverInv, [Next]_vars, cursor' < cursor, kind # "imap"
               PROVE  watchId # -1 /\ watchId' = -1
    OBVIOUS
  <2>1. /\ CursorStep /\ cursor \in Nat /\ cursor' \in Nat
        /\ \A w \in Worker : at[w].job \in Nat
    BY SourceMoves, TypeNext DEF TypeInv, SourceOK, AtOK, WorkerState, Message
  <2>2. \A w \in Worker : AdvanceCursor(at[w].job) => cursor' >= cursor
    BY <2>1, MaxOfTwo DEF AdvanceCursor
  <2>3. QED BY <2>1, <2>2 DEF CursorStep
<1>2. QED BY <1>1, CoverAlways, TypeAlways, PTL DEF Spec, CursorRises
=============================================================================

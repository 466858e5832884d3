------------------------- MODULE InboundInboxProofs -------------------------
(***************************************************************************)
(* Proofs about InboundInbox, for any set of rows and workers, any caps    *)
(* and any bounds.                                                         *)
(***************************************************************************)
EXTENDS InboundInbox, TLAPS

-----------------------------------------------------------------------------
\* The type invariant holds initially and every step keeps it.
LEMMA TypeInit == Init => TypeOK
BY CapsAssumption, ModesAssumption, BoundsAssumption
DEF Init, TypeOK, Statuses, TerminalStatuses, Reasons, Locations, Claimed, NULL

\* A terminal UPDATE keeps the columns it writes in their domains.
LEMMA FinishTypes ==
  ASSUME TypeOK, NEW i \in Inbox, NEW st \in TerminalStatuses, NEW why \in Reasons,
         Finish(i, st, why)
  PROVE  /\ status' \in [Inbox -> Statuses] /\ reason' \in [Inbox -> Reasons]
         /\ token' \in [Inbox -> Nat] /\ attempts' \in [Inbox -> Nat]
         /\ version' \in [Inbox -> Nat]
         /\ expired' \in [Inbox -> BOOLEAN] /\ due' \in [Inbox -> BOOLEAN]
<1>1. status' \in [Inbox -> Statuses] /\ reason' \in [Inbox -> Reasons]
  BY DEF TypeOK, Finish, Statuses
<1>2. token' \in [Inbox -> Nat] /\ attempts' \in [Inbox -> Nat] /\ version' \in [Inbox -> Nat]
  BY DEF TypeOK, Finish, NULL
<1>3. expired' \in [Inbox -> BOOLEAN] /\ due' \in [Inbox -> BOOLEAN]
  BY DEF TypeOK, Finish
<1>4. QED BY <1>1, <1>2, <1>3

\* So does a claim or a reclaim.
LEMMA LeaseTypes ==
  ASSUME TypeOK, NEW w \in Worker, NEW i \in Inbox, NEW n \in Nat, Lease(w, i, n)
  PROVE  /\ status' \in [Inbox -> Statuses] /\ attempts' \in [Inbox -> Nat]
         /\ version' \in [Inbox -> Nat] /\ token' \in [Inbox -> Nat]
         /\ expired' \in [Inbox -> BOOLEAN] /\ due' \in [Inbox -> BOOLEAN]
         /\ held' \in [Worker -> Nat] /\ tries' \in [Worker -> Nat]
         /\ UNCHANGED <<reason, effects, made>>
<1>1. /\ status' \in [Inbox -> Statuses] /\ attempts' \in [Inbox -> Nat]
      /\ version' \in [Inbox -> Nat] /\ token' \in [Inbox -> Nat]
  BY DEF TypeOK, Lease, Statuses
<1>2. /\ expired' \in [Inbox -> BOOLEAN] /\ due' \in [Inbox -> BOOLEAN]
  BY DEF TypeOK, Lease
<1>3. held' \in [Worker -> Nat] /\ tries' \in [Worker -> Nat]
  BY DEF TypeOK, Lease
<1>4. QED BY <1>1, <1>2, <1>3 DEF Lease

\* And the dead-letter UPDATE, whether it matches or not.
LEMMA DeadletterTypes ==
  ASSUME TypeOK, NEW i \in Inbox, DeadletterInbox(i)
  PROVE  /\ status' \in [Inbox -> Statuses] /\ reason' \in [Inbox -> Reasons]
         /\ token' \in [Inbox -> Nat] /\ attempts' \in [Inbox -> Nat]
         /\ version' \in [Inbox -> Nat]
         /\ expired' \in [Inbox -> BOOLEAN] /\ due' \in [Inbox -> BOOLEAN]
         /\ UNCHANGED <<effects, made>>
<1>1. CASE UNCHANGED row
  BY <1>1 DEF TypeOK, row
<1>2. CASE Finish(i, "terminal_failed", "exhausted") /\ UNCHANGED <<effects, made>>
  BY <1>2, FinishTypes DEF TerminalStatuses, Reasons
<1>3. QED BY <1>1, <1>2 DEF DeadletterInbox

LEMMA TypeNext == TypeOK /\ [Next]_vars => TypeOK'
<1> SUFFICES ASSUME TypeOK, [Next]_vars PROVE TypeOK'
  OBVIOUS
<1> USE DEF Goto, Ack, row, worker, bounds
<1>j. \A w \in Worker : job[w] \in Inbox
  BY DEF TypeOK
<1>a. \A i \in Inbox, a \in Acks : Ack(i, a) => acked' \in [Inbox -> SUBSET Acks]
  BY DEF TypeOK
<1>p. \A w \in Worker, l \in Locations : Goto(w, l) => pc' \in [Worker -> Locations]
  BY DEF TypeOK
<1>1. ASSUME NEW w \in Worker, NEW i \in Inbox, NEW m \in Modes, NEW c \in Caps,
             ClaimInbox(w, i, m, c) PROVE TypeOK'
  <2>1. attempts[i] + 1 \in Nat
    BY DEF TypeOK
  <2>2. QED
    BY <1>1, <2>1, LeaseTypes DEF ClaimInbox, TypeOK, Locations, Claimed
<1>2. ASSUME NEW w \in Worker, NEW i \in Inbox, NEW m \in Modes, NEW c \in Caps,
             ClaimMiss(w, i, m, c) PROVE TypeOK'
  BY <1>2 DEF ClaimMiss, TypeOK, Locations
<1>3. ASSUME NEW w \in Worker, ClaimDeadletter(w) PROVE TypeOK'
  BY <1>3, <1>j, DeadletterTypes DEF ClaimDeadletter, TypeOK, Locations
<1>4. ASSUME NEW w \in Worker, ReadMissed(w) PROVE TypeOK'
  BY <1>4, <1>j DEF ReadMissed, TypeOK, Locations, Acks
<1>5. ASSUME NEW w \in Worker, ReclaimInbox(w) PROVE TypeOK'
  <2>1. CASE Lease(w, job[w], attempts[job[w]]) /\ UNCHANGED acked
    <3>1. attempts[job[w]] \in Nat
      BY <1>j DEF TypeOK
    <3>2. QED
      BY <1>5, <1>j, <2>1, <3>1, LeaseTypes DEF ReclaimInbox, TypeOK, Locations, Claimed
  <2>2. CASE UNCHANGED <<row, held, tries>> /\ (Ack(job[w], "stored") \/ UNCHANGED acked)
    <3>1. acked' \in [Inbox -> SUBSET Acks] /\ pc' \in [Worker -> Locations]
      BY <1>5, <1>j, <1>a, <1>p, <2>2 DEF ReclaimInbox, TypeOK, Acks, Locations, Claimed
    <3>2. QED
      BY <1>5, <2>2, <3>1 DEF ReclaimInbox, TypeOK
  <2>3. QED BY <1>5, <2>1, <2>2 DEF ReclaimInbox
<1>6. ASSUME NEW w \in Worker, ReleaseInboxClaim(w) PROVE TypeOK'
  <2>1. CASE Fenced(w)
    <3>1. /\ status' \in [Inbox -> Statuses] /\ token' \in [Inbox -> Nat]
          /\ releases' \in Nat
      BY <1>6, <1>j, <2>1 DEF ReleaseInboxClaim, TypeOK, Statuses, NULL
    <3>2. expired' \in [Inbox -> BOOLEAN] /\ due' \in [Inbox -> BOOLEAN]
      BY <1>6, <1>j, <2>1 DEF ReleaseInboxClaim, TypeOK
    <3>3. QED
      BY <1>6, <2>1, <3>1, <3>2 DEF ReleaseInboxClaim, TypeOK, Locations
  <2>2. CASE ~Fenced(w)
    BY <1>6, <2>2 DEF ReleaseInboxClaim, TypeOK, Locations
  <2>3. QED BY <2>1, <2>2
<1>7. ASSUME NEW w \in Worker, Prepare(w) PROVE TypeOK'
  BY <1>7 DEF Prepare, TypeOK, Locations, Claimed
<1>8. ASSUME NEW w \in Worker, Commit(w) PROVE TypeOK'
  <2>1. acked' \in [Inbox -> SUBSET Acks] /\ pc' \in [Worker -> Locations]
    BY <1>8, <1>j, <1>a, <1>p DEF Commit, TypeOK, Acks, Locations, Claimed
  <2>2. CASE UNCHANGED row
    BY <1>8, <2>1, <2>2 DEF Commit, TypeOK
  <2>3. CASE CommitPhase(job[w])
    <3>1. PICK st \in TerminalStatuses, why \in Reasons : Finish(job[w], st, why)
      BY <2>3 DEF CommitPhase, TerminalStatuses, Reasons
    <3>2. effects' \in [Inbox -> SUBSET EffectTypes] /\ made' \in [Inbox -> Nat]
      BY <2>3, <1>j DEF CommitPhase, TypeOK, EffectTypes
    <3>3. QED
      BY <1>8, <1>j, <2>1, <3>1, <3>2, FinishTypes DEF Commit, TypeOK
  <2>4. QED BY <1>8, <2>2, <2>3 DEF Commit
<1>9. ASSUME NEW w \in Worker, CommitRollback(w) PROVE TypeOK'
  BY <1>9 DEF CommitRollback, TypeOK, Locations, Claimed
<1>10. ASSUME NEW w \in Worker, NEW c \in Caps, MarkRetryable(w, c) PROVE TypeOK'
  <2>1. CASE Finish(job[w], "terminal_failed", "exhausted") /\ Ack(job[w], "exhausted")
             /\ UNCHANGED <<effects, made>>
    BY <1>10, <1>j, <1>a, <2>1, FinishTypes
    DEF MarkRetryable, TypeOK, Locations, Acks, TerminalStatuses, Reasons
  <2>2. CASE Postpone(job[w]) /\ UNCHANGED <<effects, made, acked>>
    <3>1. status' \in [Inbox -> Statuses]
      BY <2>2, <1>j DEF Postpone, TypeOK, Statuses
    <3>2. due' \in [Inbox -> BOOLEAN]
      BY <2>2, <1>j DEF Postpone, TypeOK
    <3>3. QED
      BY <1>10, <2>2, <3>1, <3>2 DEF MarkRetryable, Postpone, TypeOK, Locations
  <2>3. CASE UNCHANGED <<row, acked>>
    BY <1>10, <2>3 DEF MarkRetryable, TypeOK, Locations
  <2>4. QED BY <1>10, <2>1, <2>2, <2>3 DEF MarkRetryable
<1>11. ASSUME NEW w \in Worker, MarkTerminalFailed(w) PROVE TypeOK'
  <2>1. acked' \in [Inbox -> SUBSET Acks] /\ pc' \in [Worker -> Locations]
    BY <1>11, <1>j, <1>a, <1>p DEF MarkTerminalFailed, Acks, Locations
  <2>2. CASE Finish(job[w], "terminal_failed", "permanent") /\ UNCHANGED <<effects, made>>
    BY <1>11, <1>j, <2>1, <2>2, FinishTypes
    DEF MarkTerminalFailed, TypeOK, TerminalStatuses, Reasons
  <2>3. CASE UNCHANGED row
    BY <1>11, <2>1, <2>3 DEF MarkTerminalFailed, TypeOK
  <2>4. QED BY <1>11, <2>2, <2>3 DEF MarkTerminalFailed
<1>12. ASSUME NEW w \in Worker, RenewInbox(w) PROVE TypeOK'
  BY <1>12, <1>j DEF RenewInbox, TypeOK
<1>13. ASSUME NEW w \in Worker, Crash(w) PROVE TypeOK'
  BY <1>13 DEF Crash, TypeOK, Locations
<1>14. ASSUME NEW i \in Inbox, NEW c \in Caps, SweepRead(i, c) PROVE TypeOK'
  BY <1>14 DEF SweepRead, TypeOK
<1>15. ASSUME NEW i \in Inbox, SweepDeadletter(i) PROVE TypeOK'
  BY <1>15, DeadletterTypes DEF SweepDeadletter, TypeOK
<1>16. ASSUME NEW i \in Inbox, LeaseExpires(i) PROVE TypeOK'
  BY <1>16 DEF LeaseExpires, TypeOK
<1>17. ASSUME NEW i \in Inbox, BackoffElapses(i) PROVE TypeOK'
  BY <1>17 DEF BackoffElapses, TypeOK
<1>18. CASE UNCHANGED vars
  BY <1>18 DEF vars, TypeOK
<1>19. QED
  BY <1>1, <1>2, <1>3, <1>4, <1>5, <1>6, <1>7, <1>8, <1>9, <1>10, <1>11, <1>12,
     <1>13, <1>14, <1>15, <1>16, <1>17, <1>18 DEF Next, Wake, Step, Sweep

\* The columns of a row and the locals of a worker never leave their domains.
THEOREM TypeCorrect == Spec => []TypeOK
BY TypeInit, TypeNext, PTL DEF Spec

-----------------------------------------------------------------------------
(***************************************************************************)
(* What a step can do to the decisions: nothing, or decide one open row.   *)
(***************************************************************************)

Quiet ==
  /\ UNCHANGED <<effects, made>>
  /\ \A i \in Inbox : IF Terminal(i) THEN status'[i] = status[i] /\ reason'[i] = reason[i]
                                     ELSE status'[i] \notin TerminalStatuses

CloseRow(i) ==
  /\ \E st \in {"skipped", "terminal_failed"} : status' = [status EXCEPT ![i] = st]
  /\ UNCHANGED <<effects, made>>

SucceedRow(i) ==
  /\ status[i] = "processing" /\ effects[i] = {}
  /\ status' = [status EXCEPT ![i] = "succeeded"]
  /\ \E e \in SUBSET EffectTypes : e # {} /\ effects' = [effects EXCEPT ![i] = e]
  /\ \E n \in {0, 1} : made' = [made EXCEPT ![i] = @ + n]

DecideRow(i) ==
  /\ ~Terminal(i)
  /\ \E why \in Reasons : reason' = [reason EXCEPT ![i] = why]
  /\ CloseRow(i) \/ SucceedRow(i)

\* A dead-letter UPDATE closes an open row or does nothing.
LEMMA DeadletterDecides ==
  ASSUME TypeOK, NEW i \in Inbox, DeadletterInbox(i)
  PROVE  Quiet \/ DecideRow(i)
<1>1. CASE UNCHANGED row
  BY <1>1 DEF Quiet, row, Terminal, TypeOK
<1>2. CASE /\ status[i] = "retryable_failed"
           /\ Finish(i, "terminal_failed", "exhausted") /\ UNCHANGED <<effects, made>>
  BY <1>2 DEF DecideRow, CloseRow, Finish, Terminal, TerminalStatuses, Reasons
<1>3. QED BY <1>1, <1>2 DEF DeadletterInbox

\* Every step either leaves all decisions alone or decides exactly one open
\* row, and only a row being processed without effects can succeed.
LEMMA DecisionStep ==
  ASSUME TypeOK, [Next]_vars
  PROVE  Quiet \/ \E i \in Inbox : DecideRow(i)
<1>q. ASSUME UNCHANGED <<status, reason, effects, made>> PROVE Quiet
  BY <1>q DEF Quiet, Terminal
<1>j. \A w \in Worker : job[w] \in Inbox
  BY DEF TypeOK
<1>l. ASSUME NEW w \in Worker, NEW i \in Inbox, NEW n \in Nat, ~Terminal(i), Lease(w, i, n)
      PROVE  Quiet
  BY <1>l DEF Lease, Quiet, Terminal, TerminalStatuses, TypeOK
<1>1. ASSUME NEW w \in Worker, NEW i \in Inbox, NEW m \in Modes, NEW c \in Caps,
             ClaimInbox(w, i, m, c) PROVE Quiet
  <2>1. attempts[i] + 1 \in Nat /\ ~Terminal(i)
    BY <1>1 DEF ClaimInbox, Claimable, Terminal, TerminalStatuses, TypeOK
  <2>2. QED BY <1>1, <1>l, <2>1 DEF ClaimInbox
<1>2. ASSUME NEW w \in Worker, NEW i \in Inbox, NEW m \in Modes, NEW c \in Caps,
             ClaimMiss(w, i, m, c) PROVE Quiet
  BY <1>2, <1>q DEF ClaimMiss, row
<1>3. ASSUME NEW w \in Worker, ClaimDeadletter(w) PROVE Quiet \/ DecideRow(job[w])
  BY <1>3, <1>j, DeadletterDecides DEF ClaimDeadletter
<1>4. ASSUME NEW w \in Worker, ReadMissed(w) PROVE Quiet
  BY <1>4, <1>q DEF ReadMissed, row
<1>5. ASSUME NEW w \in Worker, ReclaimInbox(w) PROVE Quiet
  <2>1. CASE status[job[w]] = "processing" /\ Lease(w, job[w], attempts[job[w]])
    <3>1. attempts[job[w]] \in Nat /\ ~Terminal(job[w])
      BY <1>j, <2>1 DEF Terminal, TerminalStatuses, TypeOK
    <3>2. QED BY <1>l, <1>j, <2>1, <3>1
  <2>2. CASE UNCHANGED row
    BY <2>2, <1>q DEF row
  <2>3. QED BY <1>5, <2>1, <2>2 DEF ReclaimInbox
<1>6. ASSUME NEW w \in Worker, ReleaseInboxClaim(w) PROVE Quiet
  <2>1. CASE Fenced(w)
    BY <1>6, <1>j, <2>1 DEF ReleaseInboxClaim, Fenced, Quiet, Terminal, TerminalStatuses, TypeOK
  <2>2. CASE ~Fenced(w)
    BY <1>6, <1>q, <2>2 DEF ReleaseInboxClaim, row
  <2>3. QED BY <2>1, <2>2
<1>7. ASSUME NEW w \in Worker, Prepare(w) PROVE Quiet
  BY <1>7, <1>q DEF Prepare, row
<1>8. ASSUME NEW w \in Worker, Commit(w) PROVE Quiet \/ DecideRow(job[w])
  <2>1. CASE UNCHANGED row
    BY <2>1, <1>q DEF row
  <2>2. CASE effects[job[w]] = {} /\ CommitPhase(job[w])
    <3>1. status[job[w]] = "processing" /\ ~Terminal(job[w])
      BY <1>8 DEF Commit, Locked, Fenced, Terminal, TerminalStatuses
    <3>2. \E why \in Reasons : reason' = [reason EXCEPT ![job[w]] = why]
      BY <2>2 DEF CommitPhase, Finish, Reasons
    <3>3. CASE effects' = effects
      <4>1. CloseRow(job[w])
        <5>1. \A e \in {EffectTypes, {"comment"}} : effects' # [effects EXCEPT ![job[w]] = e]
          <6> SUFFICES ASSUME NEW e \in {EffectTypes, {"comment"}},
                              effects' = [effects EXCEPT ![job[w]] = e]
                       PROVE  FALSE
            OBVIOUS
          <6>1. "comment" \in e
            BY DEF EffectTypes
          <6>2. effects'[job[w]] = e
            BY <1>j DEF TypeOK
          <6>3. QED BY <2>2, <3>3, <6>1, <6>2
        <5>2. QED BY <2>2, <5>1 DEF CommitPhase, Finish, CloseRow
      <4>2. QED BY <3>1, <3>2, <4>1 DEF DecideRow
    <3>4. CASE effects' # effects
      <4>1. /\ status' = [status EXCEPT ![job[w]] = "succeeded"]
            /\ \E e \in {EffectTypes, {"comment"}} : effects' = [effects EXCEPT ![job[w]] = e]
        BY <2>2, <3>4 DEF CommitPhase, Finish
      <4>2. \E n \in {0, 1} : made' = [made EXCEPT ![job[w]] = @ + n]
        <5>1. CASE made' = [made EXCEPT ![job[w]] = @ + 1]
          BY <5>1
        <5>2. CASE made' = made
          BY <1>j, <5>2 DEF TypeOK
        <5>3. QED BY <2>2, <5>1, <5>2 DEF CommitPhase
      <4>3. QED
        BY <2>2, <3>1, <3>2, <4>1, <4>2 DEF DecideRow, SucceedRow, EffectTypes
    <3>5. QED BY <3>3, <3>4
  <2>3. QED BY <1>8, <2>1, <2>2 DEF Commit
<1>9. ASSUME NEW w \in Worker, CommitRollback(w) PROVE Quiet
  BY <1>9, <1>q DEF CommitRollback, row
<1>10. ASSUME NEW w \in Worker, NEW c \in Caps, MarkRetryable(w, c)
       PROVE  Quiet \/ DecideRow(job[w])
  <2>1. CASE Fenced(w) /\ Finish(job[w], "terminal_failed", "exhausted")
             /\ UNCHANGED <<effects, made>>
    BY <2>1 DEF Fenced, DecideRow, CloseRow, Finish, Terminal, TerminalStatuses, Reasons
  <2>2. CASE Fenced(w) /\ Postpone(job[w]) /\ UNCHANGED <<effects, made>>
    BY <1>j, <2>2 DEF Fenced, Postpone, Quiet, Terminal, TerminalStatuses, TypeOK
  <2>3. CASE UNCHANGED row
    BY <2>3, <1>q DEF row
  <2>4. QED BY <1>10, <2>1, <2>2, <2>3 DEF MarkRetryable
<1>11. ASSUME NEW w \in Worker, MarkTerminalFailed(w) PROVE Quiet \/ DecideRow(job[w])
  <2>1. CASE Fenced(w)
    BY <1>11, <2>1
    DEF MarkTerminalFailed, Fenced, DecideRow, CloseRow, Finish, Terminal, TerminalStatuses, Reasons
  <2>2. CASE ~Fenced(w)
    BY <1>11, <1>q, <2>2 DEF MarkTerminalFailed, row
  <2>3. QED BY <2>1, <2>2
<1>12. ASSUME NEW w \in Worker, RenewInbox(w) \/ Crash(w) PROVE Quiet
  BY <1>12, <1>q DEF RenewInbox, Crash, row
<1>13. ASSUME NEW i \in Inbox, NEW c \in Caps, SweepRead(i, c) PROVE Quiet
  BY <1>13, <1>q DEF SweepRead, row
<1>14. ASSUME NEW i \in Inbox, SweepDeadletter(i) PROVE Quiet \/ DecideRow(i)
  BY <1>14, DeadletterDecides DEF SweepDeadletter
<1>15. ASSUME NEW i \in Inbox, LeaseExpires(i) \/ BackoffElapses(i) PROVE Quiet
  BY <1>15, <1>q DEF LeaseExpires, BackoffElapses
<1>16. CASE UNCHANGED vars
  BY <1>16, <1>q DEF vars
<1>17. QED
  BY <1>j, <1>1, <1>2, <1>3, <1>4, <1>5, <1>6, <1>7, <1>8, <1>9, <1>10, <1>11, <1>12,
     <1>13, <1>14, <1>15, <1>16 DEF Next, Wake, Step, Sweep

-----------------------------------------------------------------------------
(***************************************************************************)
(* The decisions: exactly once, for ever, as promised.                     *)
(***************************************************************************)

LEMMA EffectsNext ==
  ASSUME TypeOK, EffectsExactlyOnce, [Next]_vars
  PROVE  EffectsExactlyOnce'
<1>1. CASE Quiet
  BY <1>1 DEF Quiet, EffectsExactlyOnce, Terminal, TerminalStatuses, TypeOK
<1>2. ASSUME NEW i \in Inbox, DecideRow(i) PROVE EffectsExactlyOnce'
  <2>1. CASE CloseRow(i)
    BY <1>2, <2>1 DEF DecideRow, CloseRow, EffectsExactlyOnce, Terminal, TerminalStatuses, TypeOK
  <2>2. CASE SucceedRow(i)
    BY <2>2 DEF SucceedRow, EffectsExactlyOnce, TypeOK
  <2>3. QED BY <1>2, <2>1, <2>2 DEF DecideRow
<1>3. QED BY <1>1, <1>2, DecisionStep

\* For any number of rows, workers, crashes and expired leases, a message has
\* effect rows exactly when its row is 'succeeded', and its ticket or comment
\* is created at most once (the core transaction of processInboundInbox).
THEOREM ExactlyOnce == Spec => []EffectsExactlyOnce
<1>1. Init => EffectsExactlyOnce
  BY DEF Init, EffectsExactlyOnce
<1>2. TypeOK /\ EffectsExactlyOnce /\ [Next]_vars => EffectsExactlyOnce'
  BY EffectsNext
<1>3. QED BY <1>1, <1>2, TypeCorrect, PTL DEF Spec

\* No step takes a decision back.
LEMMA DecidedStep ==
  ASSUME TypeOK, [Next]_vars
  PROVE  KeepsDecided
<1>1. CASE Quiet
  BY <1>1 DEF Quiet, KeepsDecided
<1>2. ASSUME NEW i \in Inbox, DecideRow(i) PROVE KeepsDecided
  <2>1. CASE CloseRow(i)
    BY <1>2, <2>1 DEF DecideRow, CloseRow, KeepsDecided, TypeOK
  <2>2. CASE SucceedRow(i)
    BY <1>2, <2>2 DEF DecideRow, SucceedRow, KeepsDecided, TypeOK
  <2>3. QED BY <1>2, <2>1, <2>2 DEF DecideRow
<1>3. QED BY <1>1, <1>2, DecisionStep

\* No step rewrites a terminal row: the fence and the status guards of the
\* UPDATEs keep a decided message decided.
THEOREM DecidedForever == Spec => TerminalForever
<1>1. ASSUME TypeOK, [Next]_vars PROVE KeepsDecided
  BY <1>1, DecidedStep
<1>2. QED BY <1>1, TypeCorrect, PTL DEF Spec, TerminalForever

\* The ledger and its workers implement InboundMessage: each step decides one
\* open message as promised, or changes no decision.
THEOREM ImplementsPromise == Spec => Implements
<1>1. Init => Promise!Init
  BY DEF Init, Promise!Init, Decision, Terminal, TerminalStatuses, Promise!Open
<1>2. ASSUME TypeOK, [Next]_vars PROVE [Promise!Next]_(Promise!vars)
  <2>1. CASE Quiet
    BY <2>1 DEF Quiet, Promise!vars, Decision, Terminal
  <2>2. ASSUME NEW i \in Inbox, DecideRow(i) PROVE Promise!Next
    <3>1. CASE CloseRow(i)
      <4>1. PICK st \in {"skipped", "terminal_failed"} : status' = [status EXCEPT ![i] = st]
        BY <3>1 DEF CloseRow
      <4>2. Promise!Close(i, st)
        BY <1>2, <2>2, <3>1, <4>1
        DEF DecideRow, CloseRow, Promise!Close, Promise!Open, Decision, Terminal, TerminalStatuses, TypeOK
      <4>3. QED BY <4>2 DEF Promise!Next
    <3>2. CASE SucceedRow(i)
      <4>1. PICK n \in {0, 1} : made' = [made EXCEPT ![i] = @ + n]
        BY <3>2 DEF SucceedRow
      <4>2. Promise!Succeed(i, n)
        BY <1>2, <2>2, <3>2, <4>1
        DEF DecideRow, SucceedRow, Promise!Succeed, Promise!Open, Decision, Terminal, TerminalStatuses, TypeOK
      <4>3. QED BY <4>2 DEF Promise!Next
    <3>3. QED BY <2>2, <3>1, <3>2 DEF DecideRow
  <2>3. QED BY <1>2, <2>1, <2>2, DecisionStep
<1>3. QED BY <1>1, <1>2, TypeCorrect, PTL DEF Spec, Implements, Promise!Spec
-----------------------------------------------------------------------------
(***************************************************************************)
(* Leases.  A step installs one fresh lease, or only takes leases away.    *)
(***************************************************************************)

\* A worker that claimed holds a token the row has had, with the attempt count
\* of that claim as long as the token is current, and no two workers on one
\* row hold the same token.
LeaseInv ==
  /\ \A w \in Worker : pc[w] \in Claimed => /\ held[w] <= version[job[w]]
                                            /\ Fenced(w) => tries[w] = attempts[job[w]]
  /\ \A v, w \in Worker : /\ pc[v] \in Claimed /\ pc[w] \in Claimed
                          /\ job[v] = job[w] /\ held[v] = held[w]
                          => v = w

NoLease ==
  /\ UNCHANGED <<version, attempts, held, tries>>
  /\ \A w \in Worker : pc'[w] \in Claimed => pc[w] \in Claimed /\ job'[w] = job[w]
  /\ \A i \in Inbox : status'[i] = "processing" =>
                        status[i] = "processing" /\ token'[i] = token[i]

NewLease(w, i) ==
  /\ \E n \in {attempts[i], attempts[i] + 1} : Lease(w, i, n)
  /\ job'[w] = i
  /\ \A v \in Worker \ {w} : job'[v] = job[v] /\ pc'[v] = pc[v]

\* A terminal UPDATE takes a lease away or leaves it alone.
LEMMA FinishNoLease ==
  ASSUME TypeOK, NEW i \in Inbox, NEW st \in TerminalStatuses, NEW why, Finish(i, st, why)
  PROVE  /\ UNCHANGED <<version, attempts>>
         /\ \A k \in Inbox : status'[k] = "processing" =>
                               status[k] = "processing" /\ token'[k] = token[k]
BY DEF Finish, TypeOK, TerminalStatuses

LEMMA DeadletterNoLease ==
  ASSUME TypeOK, NEW i \in Inbox, DeadletterInbox(i)
  PROVE  /\ UNCHANGED <<version, attempts>>
         /\ \A k \in Inbox : status'[k] = "processing" =>
                               status[k] = "processing" /\ token'[k] = token[k]
<1>1. CASE UNCHANGED row
  BY <1>1 DEF row
<1>2. CASE Finish(i, "terminal_failed", "exhausted")
  BY <1>2, FinishNoLease DEF TerminalStatuses
<1>3. QED BY <1>1, <1>2 DEF DeadletterInbox

LEMMA LeaseStep ==
  ASSUME TypeOK, [Next]_vars
  PROVE  NoLease \/ \E w \in Worker, i \in Inbox : NewLease(w, i)
<1> USE DEF Goto, row, worker, bounds
<1>j. \A w \in Worker : job[w] \in Inbox
  BY DEF TypeOK
<1>n. ASSUME NEW w \in Worker, NEW l \in Locations,
             pc[w] \in Claimed \/ l \notin Claimed, Goto(w, l), UNCHANGED job
      PROVE  \A v \in Worker : pc'[v] \in Claimed => pc[v] \in Claimed /\ job'[v] = job[v]
  BY <1>n DEF TypeOK
<1>r. ASSUME NEW w \in Worker, NEW l \in Locations,
             pc[w] \in Claimed \/ l \notin Claimed, Goto(w, l), UNCHANGED <<row, job, held, tries>>
      PROVE  NoLease
  BY <1>r, <1>n DEF NoLease
<1>1. ASSUME NEW w \in Worker, NEW i \in Inbox, NEW m \in Modes, NEW c \in Caps,
             ClaimInbox(w, i, m, c) PROVE NewLease(w, i)
  BY <1>1 DEF ClaimInbox, NewLease, TypeOK
<1>2. ASSUME NEW w \in Worker, NEW i \in Inbox, NEW m \in Modes, NEW c \in Caps,
             ClaimMiss(w, i, m, c) PROVE NoLease
  BY <1>2 DEF ClaimMiss, NoLease, TypeOK, Claimed
<1>3. ASSUME NEW w \in Worker, ClaimDeadletter(w) PROVE NoLease
  BY <1>3, <1>j, <1>n, DeadletterNoLease DEF ClaimDeadletter, NoLease, Locations, Claimed
<1>4. ASSUME NEW w \in Worker, ReadMissed(w) PROVE NoLease
  BY <1>4, <1>r DEF ReadMissed, Locations, Claimed
<1>5. ASSUME NEW w \in Worker, ReclaimInbox(w) PROVE NoLease \/ NewLease(w, job[w])
  <2>1. CASE Lease(w, job[w], attempts[job[w]])
    BY <1>5, <1>j, <2>1 DEF ReclaimInbox, NewLease, TypeOK
  <2>2. CASE UNCHANGED <<row, held, tries>> /\ Goto(w, "idle")
    BY <1>5, <1>r, <2>2 DEF ReclaimInbox, Locations, Claimed
  <2>3. QED BY <1>5, <2>1, <2>2 DEF ReclaimInbox
<1>6. ASSUME NEW w \in Worker, ReleaseInboxClaim(w) PROVE NoLease
  <2>1. CASE Fenced(w)
    BY <1>6, <1>j, <1>n, <2>1 DEF ReleaseInboxClaim, NoLease, TypeOK, Locations, Claimed
  <2>2. CASE ~Fenced(w)
    BY <1>6, <1>r, <2>2 DEF ReleaseInboxClaim, Locations, Claimed
  <2>3. QED BY <2>1, <2>2
<1>7. ASSUME NEW w \in Worker, Prepare(w) PROVE NoLease
  BY <1>7, <1>r DEF Prepare, Locations, Claimed
<1>8. ASSUME NEW w \in Worker, Commit(w) PROVE NoLease
  <2>1. PICK l \in {"idle", "markRetryable"} : Goto(w, l)
    BY <1>8 DEF Commit
  <2>2. pc[w] \in Claimed /\ l \in Locations
    BY <1>8, <2>1 DEF Commit, Claimed, Locations
  <2>3. CASE UNCHANGED row
    BY <1>8, <1>r, <2>1, <2>2, <2>3 DEF Commit
  <2>4. CASE CommitPhase(job[w])
    <3>1. PICK st \in TerminalStatuses, why \in Reasons : Finish(job[w], st, why)
      BY <2>4 DEF CommitPhase, TerminalStatuses, Reasons
    <3>2. QED
      BY <1>8, <1>j, <1>n, <2>1, <2>2, <3>1, FinishNoLease DEF Commit, NoLease
  <2>5. QED BY <1>8, <2>3, <2>4 DEF Commit
<1>9. ASSUME NEW w \in Worker, CommitRollback(w) PROVE NoLease
  BY <1>9, <1>r DEF CommitRollback, Locations, Claimed
<1>10. ASSUME NEW w \in Worker, NEW c \in Caps, MarkRetryable(w, c) PROVE NoLease
  <2>1. Goto(w, "idle") /\ UNCHANGED <<job, held, tries>> /\ "idle" \in Locations \ Claimed
    BY <1>10 DEF MarkRetryable, Locations, Claimed
  <2>2. CASE Finish(job[w], "terminal_failed", "exhausted")
    BY <1>j, <1>n, <2>1, <2>2, FinishNoLease DEF NoLease, TerminalStatuses
  <2>3. CASE Postpone(job[w])
    BY <1>j, <1>n, <2>1, <2>3 DEF Postpone, NoLease, TypeOK
  <2>4. CASE UNCHANGED row
    BY <1>r, <2>1, <2>4
  <2>5. QED BY <1>10, <2>2, <2>3, <2>4 DEF MarkRetryable
<1>11. ASSUME NEW w \in Worker, MarkTerminalFailed(w) PROVE NoLease
  <2>1. Goto(w, "idle") /\ UNCHANGED <<job, held, tries>> /\ "idle" \in Locations \ Claimed
    BY <1>11 DEF MarkTerminalFailed, Locations, Claimed
  <2>2. CASE Finish(job[w], "terminal_failed", "permanent")
    BY <1>j, <1>n, <2>1, <2>2, FinishNoLease DEF NoLease, TerminalStatuses
  <2>3. CASE UNCHANGED row
    BY <1>r, <2>1, <2>3
  <2>4. QED BY <1>11, <2>2, <2>3 DEF MarkTerminalFailed
<1>12. ASSUME NEW w \in Worker, RenewInbox(w) PROVE NoLease
  BY <1>12 DEF RenewInbox, NoLease
<1>13. ASSUME NEW w \in Worker, Crash(w) PROVE NoLease
  BY <1>13, <1>r DEF Crash, Locations, Claimed
<1>14. ASSUME NEW i \in Inbox, NEW c \in Caps, SweepRead(i, c) PROVE NoLease
  BY <1>14 DEF SweepRead, NoLease
<1>15. ASSUME NEW i \in Inbox, SweepDeadletter(i) PROVE NoLease
  BY <1>15, DeadletterNoLease DEF SweepDeadletter, NoLease
<1>16. ASSUME NEW i \in Inbox, LeaseExpires(i) \/ BackoffElapses(i) PROVE NoLease
  BY <1>16 DEF LeaseExpires, BackoffElapses, NoLease
<1>17. CASE UNCHANGED vars
  BY <1>17 DEF vars, NoLease
<1>18. QED
  BY <1>j, <1>1, <1>2, <1>3, <1>4, <1>5, <1>6, <1>7, <1>8, <1>9, <1>10, <1>11, <1>12,
     <1>13, <1>14, <1>15, <1>16, <1>17 DEF Next, Wake, Step, Sweep

LEMMA LeaseNext ==
  ASSUME TypeOK, TypeOK', LeaseInv, [Next]_vars
  PROVE  LeaseInv'
<1>1. CASE NoLease
  <2>1. ASSUME NEW w \in Worker, pc'[w] \in Claimed
        PROVE  held'[w] <= version'[job'[w]] /\ (Fenced(w)' => tries'[w] = attempts'[job'[w]])
    BY <1>1, <2>1 DEF NoLease, LeaseInv, Fenced, TypeOK
  <2>2. ASSUME NEW v \in Worker, NEW w \in Worker, pc'[v] \in Claimed, pc'[w] \in Claimed,
               job'[v] = job'[w], held'[v] = held'[w]
        PROVE  v = w
    BY <1>1, <2>2 DEF NoLease, LeaseInv
  <2>3. QED BY <2>1, <2>2 DEF LeaseInv
<1>2. ASSUME NEW w \in Worker, NEW i \in Inbox, NewLease(w, i) PROVE LeaseInv'
  <2>1. PICK n \in {attempts[i], attempts[i] + 1} : Lease(w, i, n)
    BY <1>2 DEF NewLease
  <2>2. /\ held'[w] = version[i] + 1 /\ tries'[w] = n /\ job'[w] = i
        /\ version'[i] = version[i] + 1 /\ token'[i] = version[i] + 1 /\ attempts'[i] = n
    BY <1>2, <2>1 DEF NewLease, Lease, TypeOK
  <2>3. \A k \in Inbox \ {i} : /\ version'[k] = version[k] /\ token'[k] = token[k]
                               /\ attempts'[k] = attempts[k] /\ status'[k] = status[k]
    BY <2>1 DEF Lease, TypeOK
  <2>4. \A v \in Worker \ {w} : /\ held'[v] = held[v] /\ tries'[v] = tries[v]
                                /\ job'[v] = job[v] /\ pc'[v] = pc[v]
    BY <1>2, <2>1 DEF NewLease, Lease, TypeOK
  <2>5. \A v \in Worker \ {w} : pc'[v] \in Claimed => held'[v] <= version[job[v]]
    BY <2>4 DEF LeaseInv
  <2>6. ASSUME NEW v \in Worker, pc'[v] \in Claimed
        PROVE  held'[v] <= version'[job'[v]] /\ (Fenced(v)' => tries'[v] = attempts'[job'[v]])
    <3>1. CASE v = w
      BY <2>2, <3>1 DEF TypeOK
    <3>2. CASE v # w /\ job[v] = i
      BY <2>2, <2>4, <2>5, <2>6, <3>2 DEF TypeOK, Fenced
    <3>3. CASE v # w /\ job[v] # i
      BY <2>3, <2>4, <2>5, <2>6, <3>3 DEF TypeOK, Fenced, LeaseInv
    <3>4. QED BY <3>1, <3>2, <3>3
  <2>7. ASSUME NEW u \in Worker, NEW v \in Worker, pc'[u] \in Claimed, pc'[v] \in Claimed,
               job'[u] = job'[v], held'[u] = held'[v]
        PROVE  u = v
    <3>1. CASE u # w /\ v # w
      BY <2>4, <2>7, <3>1 DEF LeaseInv
    <3>2. CASE u = w /\ v # w
      BY <2>2, <2>4, <2>5, <2>7, <3>2 DEF TypeOK
    <3>3. CASE u # w /\ v = w
      BY <2>2, <2>4, <2>5, <2>7, <3>3 DEF TypeOK
    <3>4. QED BY <3>1, <3>2, <3>3
  <2>8. QED BY <2>6, <2>7 DEF LeaseInv
<1>3. QED BY <1>1, <1>2, LeaseStep

LEMMA LeaseCorrect == Spec => []LeaseInv
<1>1. Init => LeaseInv
  BY DEF Init, LeaseInv, Claimed
<1>2. TypeOK /\ TypeOK' /\ LeaseInv /\ [Next]_vars => LeaseInv'
  BY LeaseNext
<1>3. QED BY <1>1, <1>2, TypeCorrect, PTL DEF Spec

\* At most one running worker holds the current token of a row being
\* processed, however many workers claim, reclaim, stall or crash.
THEOREM Fencing == Spec => []OneHolder
<1>1. LeaseInv => OneHolder
  BY DEF LeaseInv, OneHolder, Holds
<1>2. QED BY <1>1, LeaseCorrect, PTL
-----------------------------------------------------------------------------
(***************************************************************************)
(* Acknowledgements.                                                       *)
(***************************************************************************)

\* An acknowledgement other than 'permanent' is only added when the row is
\* terminal, before the step or by it.
AckSound ==
  \A i \in Inbox : acked'[i] \subseteq acked[i] \cup {"permanent"} \/ Terminal(i)'

LEMMA AckStep ==
  ASSUME TypeOK, EffectsExactlyOnce, [Next]_vars
  PROVE  AckSound
<1> USE DEF Ack, Goto, row, worker, bounds
<1>j. \A w \in Worker : job[w] \in Inbox
  BY DEF TypeOK
<1>q. ASSUME UNCHANGED acked PROVE AckSound
  BY <1>q DEF AckSound
<1>s. ASSUME NEW i \in Inbox, NEW a, Ack(i, a), Terminal(i)' PROVE AckSound
  BY <1>s DEF AckSound, TypeOK
<1>f. ASSUME NEW i \in Inbox, NEW st \in TerminalStatuses, NEW why, Finish(i, st, why)
      PROVE  Terminal(i)'
  BY <1>f DEF Finish, Terminal, TypeOK
<1>t. ASSUME NEW i \in Inbox, Terminal(i), UNCHANGED row PROVE Terminal(i)'
  BY <1>t DEF Terminal
<1>1. ASSUME NEW w \in Worker, ReadMissed(w) PROVE AckSound
  BY <1>1, <1>j, <1>q, <1>s, <1>t DEF ReadMissed
<1>2. ASSUME NEW w \in Worker, ReclaimInbox(w) PROVE AckSound
  BY <1>2, <1>j, <1>q, <1>s, <1>t DEF ReclaimInbox
<1>3. ASSUME NEW w \in Worker, Commit(w) PROVE AckSound
  <2>1. CASE effects[job[w]] # {}
    BY <1>3, <1>j, <2>1
    DEF Commit, Locked, Fenced, EffectsExactlyOnce
  <2>2. CASE CommitPhase(job[w]) /\ Ack(job[w], "commit")
    <3>1. PICK st \in TerminalStatuses, why \in Reasons : Finish(job[w], st, why)
      BY <2>2 DEF CommitPhase, TerminalStatuses, Reasons
    <3>2. QED BY <1>j, <1>s, <1>f, <2>2, <3>1
  <2>3. CASE UNCHANGED acked
    BY <1>q, <2>3
  <2>4. QED BY <1>3, <2>1, <2>2, <2>3 DEF Commit
<1>4. ASSUME NEW w \in Worker, NEW c \in Caps, MarkRetryable(w, c) PROVE AckSound
  BY <1>4, <1>j, <1>q, <1>s, <1>f DEF MarkRetryable, TerminalStatuses
<1>5. ASSUME NEW w \in Worker, MarkTerminalFailed(w) PROVE AckSound
  BY <1>5, <1>j DEF MarkTerminalFailed, AckSound, TypeOK
<1>6. CASE UNCHANGED acked
  BY <1>6, <1>q
<1>7. QED
  BY <1>1, <1>2, <1>3, <1>4, <1>5, <1>6
  DEF Next, Wake, Step, Sweep, ClaimInbox, ClaimMiss, ClaimDeadletter, ReleaseInboxClaim,
      Prepare, CommitRollback, RenewInbox, Crash, SweepRead, SweepDeadletter, LeaseExpires,
      BackoffElapses, vars

\* Every acknowledgement except that of a permanent failure implies a terminal
\* row (storedOutcomeDisposition and the ACKs of a commit or a last attempt).
THEOREM AckIsDurable == Spec => []AckFromDurableState
<1>1. Init => AckFromDurableState
  BY DEF Init, AckFromDurableState
<1>2. ASSUME TypeOK, EffectsExactlyOnce, AckFromDurableState, [Next]_vars
      PROVE  AckFromDurableState'
  <2> SUFFICES ASSUME NEW i \in Inbox, acked'[i] \ {"permanent"} # {} PROVE Terminal(i)'
    BY DEF AckFromDurableState
  <2>1. CASE acked'[i] \subseteq acked[i] \cup {"permanent"}
    <3>1. Terminal(i)
      BY <1>2, <2>1 DEF AckFromDurableState
    <3>2. status'[i] = status[i]
      BY <1>2, <3>1, DecidedStep DEF KeepsDecided
    <3>3. QED BY <3>1, <3>2 DEF Terminal
  <2>2. QED BY <1>2, <2>1, AckStep DEF AckSound
<1>3. QED BY <1>1, <1>2, TypeCorrect, ExactlyOnce, PTL DEF Spec

-----------------------------------------------------------------------------
(***************************************************************************)
(* The retry budget.                                                       *)
(***************************************************************************)

Exhausted(i) == \E c \in Caps : attempts[i] >= c

\* A row on its way to the dead letters had used up some process's budget when
\* it was read, and its attempt count never goes down; a row that waits to be
\* claimed has an attempt left, or was handed back by shadow mode.
BudgetInv ==
  /\ \A i \in doomed : Exhausted(i)
  /\ \A w \in Worker : pc[w] = "deadletter" => Exhausted(job[w])
  /\ \A i \in Inbox : status[i] = "received" =>
       \E c \in Caps : attempts[i] + 1 <= c + releases

\* What a step may do to the quantities of the budget.
Spends ==
  /\ \A i \in doomed' : i \in doomed \/ Exhausted(i)
  /\ \A w \in Worker : pc'[w] = "deadletter" =>
       (pc[w] = "deadletter" /\ job'[w] = job[w]) \/ Exhausted(job'[w])
  /\ \A i \in Inbox : reason'[i] = "exhausted" => reason[i] = "exhausted" \/ Exhausted(i)
  /\ \A i \in Inbox : \/ attempts'[i] = attempts[i]
                      \/ /\ attempts'[i] = attempts[i] + 1
                         /\ status[i] = "received" \/ \E c \in Caps : attempts[i] < c
  /\ \A i \in Inbox : status'[i] = "received" =>
       /\ attempts'[i] = attempts[i]
       /\ status[i] = "received" \/ releases' = releases + 1
  /\ releases' \in {releases, releases + 1}

\* A terminal UPDATE with a reason that is due spends nothing.
LEMMA FinishSpends ==
  ASSUME TypeOK, NEW i \in Inbox, NEW st \in TerminalStatuses, NEW why,
         Finish(i, st, why), why = "exhausted" => Exhausted(i)
  PROVE  /\ \A k \in Inbox : reason'[k] = "exhausted" => reason[k] = "exhausted" \/ Exhausted(k)
         /\ UNCHANGED attempts
         /\ \A k \in Inbox : status'[k] = "received" => status[k] = "received"
BY DEF Finish, TypeOK, TerminalStatuses

LEMMA DeadletterSpends ==
  ASSUME TypeOK, NEW i \in Inbox, DeadletterInbox(i), Exhausted(i)
  PROVE  /\ \A k \in Inbox : reason'[k] = "exhausted" => reason[k] = "exhausted" \/ Exhausted(k)
         /\ UNCHANGED attempts
         /\ \A k \in Inbox : status'[k] = "received" => status[k] = "received"
<1>1. CASE UNCHANGED row
  BY <1>1 DEF row
<1>2. CASE Finish(i, "terminal_failed", "exhausted")
  BY <1>2, FinishSpends DEF TerminalStatuses
<1>3. QED BY <1>1, <1>2 DEF DeadletterInbox

LEMMA BudgetStep ==
  ASSUME TypeOK, LeaseInv, BudgetInv, [Next]_vars
  PROVE  Spends
<1> USE DEF Goto, row, worker, bounds
<1>j. \A w \in Worker : job[w] \in Inbox
  BY DEF TypeOK
<1>p. ASSUME NEW w \in Worker, NEW l, l # "deadletter", Goto(w, l), UNCHANGED job
      PROVE  \A v \in Worker : pc'[v] = "deadletter" => pc[v] = "deadletter" /\ job'[v] = job[v]
  BY <1>p DEF TypeOK
<1>r. ASSUME NEW w \in Worker, NEW l, l # "deadletter", Goto(w, l),
             UNCHANGED <<row, job, doomed, releases>>
      PROVE  Spends
  BY <1>r, <1>p DEF Spends
<1>1. ASSUME NEW w \in Worker, NEW i \in Inbox, NEW m \in Modes, NEW c \in Caps,
             ClaimInbox(w, i, m, c) PROVE Spends
  <2>1. /\ UNCHANGED <<reason, doomed, releases>>
        /\ \A v \in Worker : pc'[v] = "deadletter" => pc[v] = "deadletter" /\ job'[v] = job[v]
    BY <1>1 DEF ClaimInbox, Lease, TypeOK
  <2>2. /\ attempts' = [attempts EXCEPT ![i] = attempts[i] + 1]
        /\ status' = [status EXCEPT ![i] = "processing"]
        /\ status[i] = "received" \/ attempts[i] < c
    BY <1>1 DEF ClaimInbox, Claimable, Lease
  <2>3. QED BY <2>1, <2>2 DEF Spends, TypeOK
<1>2. ASSUME NEW w \in Worker, NEW i \in Inbox, NEW m \in Modes, NEW c \in Caps,
             ClaimMiss(w, i, m, c) PROVE Spends
  <2>1. UNCHANGED <<attempts, status, reason, doomed, releases>>
    BY <1>2 DEF ClaimMiss
  <2>2. \A v \in Worker : pc'[v] = "deadletter" =>
          (pc[v] = "deadletter" /\ job'[v] = job[v]) \/ Exhausted(job'[v])
    BY <1>2 DEF ClaimMiss, OverCap, Exhausted, TypeOK
  <2>3. QED BY <2>1, <2>2 DEF Spends
<1>3. ASSUME NEW w \in Worker, ClaimDeadletter(w) PROVE Spends
  <2>1. Exhausted(job[w])
    BY <1>3 DEF ClaimDeadletter, BudgetInv
  <2>2. UNCHANGED <<job, doomed, releases>> /\ Goto(w, "missed") /\ DeadletterInbox(job[w])
    BY <1>3 DEF ClaimDeadletter
  <2>3. QED BY <1>j, <1>p, <2>1, <2>2, DeadletterSpends DEF Spends
<1>4. ASSUME NEW w \in Worker, ReadMissed(w) PROVE Spends
  BY <1>4, <1>r DEF ReadMissed
<1>5. ASSUME NEW w \in Worker, ReclaimInbox(w) PROVE Spends
  <2>1. CASE Lease(w, job[w], attempts[job[w]])
    <3>1. /\ UNCHANGED <<attempts, reason, doomed, releases>>
          /\ \A i \in Inbox : status'[i] = "received" => status[i] = "received"
      BY <1>5, <1>j, <2>1 DEF ReclaimInbox, Lease, TypeOK
    <3>2. \A v \in Worker : pc'[v] = "deadletter" => pc[v] = "deadletter" /\ job'[v] = job[v]
      BY <1>5 DEF ReclaimInbox, TypeOK
    <3>3. QED BY <3>1, <3>2 DEF Spends
  <2>2. CASE UNCHANGED row /\ Goto(w, "idle")
    BY <1>5, <1>r, <2>2 DEF ReclaimInbox
  <2>3. QED BY <1>5, <2>1, <2>2 DEF ReclaimInbox
<1>6. ASSUME NEW w \in Worker, ReleaseInboxClaim(w) PROVE Spends
  <2>1. Goto(w, "idle") /\ UNCHANGED <<job, doomed>>
    BY <1>6 DEF ReleaseInboxClaim
  <2>2. CASE Fenced(w)
    <3>1. UNCHANGED <<attempts, reason>> /\ releases' = releases + 1
      BY <1>6, <2>2 DEF ReleaseInboxClaim
    <3>2. QED BY <1>p, <2>1, <3>1 DEF Spends
  <2>3. CASE ~Fenced(w)
    BY <1>6, <1>r, <2>1, <2>3 DEF ReleaseInboxClaim
  <2>4. QED BY <2>2, <2>3
<1>7. ASSUME NEW w \in Worker, Prepare(w) PROVE Spends
  BY <1>7, <1>r DEF Prepare
<1>8. ASSUME NEW w \in Worker, Commit(w) PROVE Spends
  <2>1. PICK l \in {"idle", "markRetryable"} : Goto(w, l)
    BY <1>8 DEF Commit
  <2>2. UNCHANGED <<job, doomed, releases>>
    BY <1>8 DEF Commit
  <2>3. CASE UNCHANGED row
    BY <1>r, <2>1, <2>2, <2>3
  <2>4. CASE CommitPhase(job[w])
    <3>1. PICK st \in TerminalStatuses, why \in Reasons :
            Finish(job[w], st, why) /\ why # "exhausted"
      BY <2>4 DEF CommitPhase, TerminalStatuses, Reasons
    <3>2. QED BY <1>j, <1>p, <2>1, <2>2, <3>1, FinishSpends DEF Spends
  <2>5. QED BY <1>8, <2>3, <2>4 DEF Commit
<1>9. ASSUME NEW w \in Worker, CommitRollback(w) PROVE Spends
  BY <1>9, <1>r DEF CommitRollback
<1>10. ASSUME NEW w \in Worker, NEW c \in Caps, MarkRetryable(w, c) PROVE Spends
  <2>1. Goto(w, "idle") /\ UNCHANGED <<job, doomed, releases>>
    BY <1>10 DEF MarkRetryable
  <2>2. CASE Fenced(w) /\ tries[w] >= c /\ Finish(job[w], "terminal_failed", "exhausted")
    <3>1. attempts[job[w]] >= c
      BY <1>10, <2>2 DEF MarkRetryable, LeaseInv, Claimed
    <3>2. QED
      BY <1>j, <1>p, <2>1, <2>2, <3>1, FinishSpends DEF Spends, Exhausted, TerminalStatuses
  <2>3. CASE Postpone(job[w])
    BY <1>j, <1>p, <2>1, <2>3 DEF Postpone, Spends, TypeOK
  <2>4. CASE UNCHANGED row
    BY <1>r, <2>1, <2>4
  <2>5. QED BY <1>10, <2>2, <2>3, <2>4 DEF MarkRetryable
<1>11. ASSUME NEW w \in Worker, MarkTerminalFailed(w) PROVE Spends
  <2>1. Goto(w, "idle") /\ UNCHANGED <<job, doomed, releases>>
    BY <1>11 DEF MarkTerminalFailed
  <2>2. CASE Finish(job[w], "terminal_failed", "permanent")
    BY <1>j, <1>p, <2>1, <2>2, FinishSpends DEF Spends, TerminalStatuses
  <2>3. CASE UNCHANGED row
    BY <1>r, <2>1, <2>3
  <2>4. QED BY <1>11, <2>2, <2>3 DEF MarkTerminalFailed
<1>12. ASSUME NEW w \in Worker, RenewInbox(w) PROVE Spends
  BY <1>12 DEF RenewInbox, Spends
<1>13. ASSUME NEW w \in Worker, Crash(w) PROVE Spends
  BY <1>13, <1>r DEF Crash
<1>14. ASSUME NEW i \in Inbox, NEW c \in Caps, SweepRead(i, c) PROVE Spends
  BY <1>14 DEF SweepRead, OverCap, Spends, Exhausted
<1>15. ASSUME NEW i \in Inbox, SweepDeadletter(i) PROVE Spends
  <2>1. Exhausted(i)
    BY <1>15 DEF SweepDeadletter, BudgetInv
  <2>2. QED BY <1>15, <2>1, DeadletterSpends DEF SweepDeadletter, Spends
<1>16. ASSUME NEW i \in Inbox, LeaseExpires(i) \/ BackoffElapses(i) PROVE Spends
  BY <1>16 DEF LeaseExpires, BackoffElapses, Spends
<1>17. CASE UNCHANGED vars
  BY <1>17 DEF vars, Spends
<1>18. QED
  BY <1>1, <1>2, <1>3, <1>4, <1>5, <1>6, <1>7, <1>8, <1>9, <1>10, <1>11, <1>12,
     <1>13, <1>14, <1>15, <1>16, <1>17 DEF Next, Wake, Step, Sweep

LEMMA BudgetNext ==
  ASSUME TypeOK, TypeOK', LeaseInv, BudgetInv, RetryBudget, [Next]_vars
  PROVE  BudgetInv' /\ RetryBudget'
<1>1. Spends
  BY BudgetStep
<1>c. Caps \subseteq Nat
  BY CapsAssumption
<1>2. \A i \in Inbox : Exhausted(i) => Exhausted(i)'
  <2> SUFFICES ASSUME NEW i \in Inbox, Exhausted(i) PROVE Exhausted(i)'
    OBVIOUS
  <2>1. PICK c \in Caps : attempts[i] >= c
    BY DEF Exhausted
  <2>2. attempts'[i] >= c
    BY <1>1, <1>c, <2>1 DEF Spends, TypeOK
  <2>3. QED BY <2>2 DEF Exhausted
<1>3. \A i \in doomed' : Exhausted(i)'
  BY <1>1, <1>2 DEF Spends, BudgetInv, TypeOK
<1>4. \A w \in Worker : pc'[w] = "deadletter" => Exhausted(job[w])'
  <2> SUFFICES ASSUME NEW w \in Worker, pc'[w] = "deadletter" PROVE Exhausted(job[w])'
    OBVIOUS
  <2>1. job'[w] \in Inbox
    BY DEF TypeOK
  <2>2. Exhausted(job'[w])
    BY <1>1 DEF Spends, BudgetInv
  <2>3. PICK c \in Caps : attempts[job'[w]] >= c
    BY <2>2 DEF Exhausted
  <2>4. attempts'[job'[w]] >= c
    BY <1>1, <1>c, <2>1, <2>3 DEF Spends, TypeOK
  <2>5. QED BY <2>4 DEF Exhausted
<1>5. ASSUME NEW i \in Inbox
      PROVE  /\ reason'[i] = "exhausted" => Exhausted(i)'
             /\ \E c \in Caps : attempts'[i] <= c + releases'
             /\ status'[i] = "received" => \E c \in Caps : attempts'[i] + 1 <= c + releases'
  <2>1. reason'[i] = "exhausted" => Exhausted(i)'
    BY <1>1, <1>2 DEF Spends, RetryBudget, Exhausted
  <2>2. PICK c \in Caps : attempts[i] <= c + releases
    BY DEF RetryBudget
  <2>3. c \in Nat /\ releases \in Nat /\ attempts[i] \in Nat
    BY <1>c DEF TypeOK
  <2>4. \E d \in Caps : attempts'[i] <= d + releases'
    <3>1. CASE attempts'[i] = attempts[i]
      BY <1>1, <2>2, <2>3, <3>1 DEF Spends
    <3>2. CASE attempts'[i] = attempts[i] + 1 /\ status[i] = "received"
      <4>1. PICK d \in Caps : attempts[i] + 1 <= d + releases
        BY <3>2 DEF BudgetInv
      <4>2. QED BY <1>1, <1>c, <2>3, <3>2, <4>1 DEF Spends
    <3>3. CASE attempts'[i] = attempts[i] + 1 /\ \E d \in Caps : attempts[i] < d
      BY <1>1, <1>c, <2>3, <3>3 DEF Spends
    <3>4. QED BY <1>1, <3>1, <3>2, <3>3 DEF Spends
  <2>5. status'[i] = "received" => \E d \in Caps : attempts'[i] + 1 <= d + releases'
    <3> SUFFICES ASSUME status'[i] = "received"
                 PROVE  \E d \in Caps : attempts'[i] + 1 <= d + releases'
      OBVIOUS
    <3>1. attempts'[i] = attempts[i]
      BY <1>1 DEF Spends
    <3>2. CASE status[i] = "received"
      <4>1. PICK d \in Caps : attempts[i] + 1 <= d + releases
        BY <3>2 DEF BudgetInv
      <4>2. QED BY <1>1, <1>c, <2>3, <3>1, <4>1 DEF Spends
    <3>3. CASE releases' = releases + 1
      BY <2>2, <2>3, <3>1, <3>3
    <3>4. QED BY <1>1, <3>2, <3>3 DEF Spends
  <2>6. QED BY <2>1, <2>4, <2>5
<1>6. QED BY <1>3, <1>4, <1>5 DEF BudgetInv, RetryBudget, Exhausted

\* A row given up for its attempts has made as many as some process allows,
\* and no row makes more than the largest cap but for shadow releases.
THEOREM BudgetKept == Spec => []RetryBudget
<1>1. Init => BudgetInv /\ RetryBudget
  <2> SUFFICES ASSUME Init PROVE BudgetInv /\ RetryBudget
    OBVIOUS
  <2>1. PICK c \in Caps : TRUE
    BY CapsAssumption
  <2>2. c \in Nat /\ c >= 1
    BY CapsAssumption
  <2>3. QED BY <2>1, <2>2 DEF Init, BudgetInv, RetryBudget
<1>2. TypeOK /\ TypeOK' /\ LeaseInv /\ BudgetInv /\ RetryBudget /\ [Next]_vars
        => BudgetInv' /\ RetryBudget'
  BY BudgetNext
<1>3. QED BY <1>1, <1>2, TypeCorrect, LeaseCorrect, PTL DEF Spec
=============================================================================

------------------------- MODULE InboundOutboxProofs -------------------------
(***************************************************************************)
(* Proofs about InboundOutbox, for any rows, dispatchers, caps and bounds. *)
(***************************************************************************)
EXTENDS InboundOutbox, FiniteSetTheorems, TLAPS

-----------------------------------------------------------------------------
(* The kinds of steps.  What a step does to a row and to the ghost         *)
(* counters is said once, and every invariant is proved from that.         *)

GivenUpAt(o) == \E c \in Caps : row[o].attempts >= c

\* Nothing but the sweeper's list changes.
Waits ==
  /\ UNCHANGED <<row, pc, job, held, tries, sent, expiries, lost>>
  /\ \/ doomed' = doomed
     \/ \E o \in Outbox : GivenUpAt(o) /\ doomed' = doomed \cup {o}

\* A dispatcher goes on to a place where it holds no lease.
Turns(d) ==
  /\ UNCHANGED <<row, held, tries, doomed, sent, expiries, lost>>
  /\ \E l \in Locations \ Holding, o \in Outbox :
       /\ pc' = [pc EXCEPT ![d] = l] /\ job' = [job EXCEPT ![d] = o]
       /\ l = "deadletter" => GivenUpAt(o)

\* A dispatcher gets a fresh lease.
Leases(d, o) ==
  /\ \/ row[o].status = "pending" /\ Lease(d, o, row[o].attempts + 1)
     \/ /\ row[o].status = "retryable_failed" /\ \E c \in Caps : row[o].attempts < c
        /\ Lease(d, o, row[o].attempts + 1)
     \/ row[o].status = "publishing" /\ row[o].expired /\ Lease(d, o, row[o].attempts)
  /\ job' = [job EXCEPT ![d] = o]
  /\ UNCHANGED <<doomed, sent, expiries, lost>>

\* A row that was read as over the cap is dead-lettered.
GivesUp(o) ==
  /\ Deadletter(o)
  /\ \/ o \in doomed /\ doomed' = doomed \ {o} /\ UNCHANGED pc
     \/ \E d \in Dispatcher : /\ pc[d] = "deadletter" /\ o = job[d]
                              /\ pc' = [pc EXCEPT ![d] = "reread"] /\ UNCHANGED doomed
  /\ UNCHANGED <<job, held, tries, sent, expiries, lost>>

\* A dispatcher learns how its publish ended.
Sends(d) ==
  /\ pc[d] = "publish"
  /\ \/ /\ pc' = [pc EXCEPT ![d] = "markPublished"]
        /\ sent' = [sent EXCEPT ![job[d]] = @ + 1] /\ UNCHANGED lost
     \/ pc' = [pc EXCEPT ![d] = "markFailed"] /\ UNCHANGED <<sent, lost>>
     \/ /\ pc' = [pc EXCEPT ![d] = "markFailed"]
        /\ sent' = [sent EXCEPT ![job[d]] = @ + 1]
        /\ lost' = [lost EXCEPT ![job[d]] = @ + 1]
  /\ UNCHANGED <<row, job, held, tries, doomed, expiries>>

\* It writes that to the row, if the lease is still its own.
Records(d) ==
  /\ pc[d] \in {"markPublished", "markFailed"}
  /\ pc' = [pc EXCEPT ![d] = "idle"]
  /\ \/ ~Fenced(d) /\ UNCHANGED row
     \/ /\ Fenced(d) /\ pc[d] = "markPublished"
        /\ row' = [row EXCEPT ![job[d]] = Finished(@, "published")]
     \/ /\ Fenced(d) /\ pc[d] = "markFailed"
        /\ \E c \in Caps : row' = [row EXCEPT ![job[d]] = Failure(@, tries[d], c)]
  /\ UNCHANGED <<job, held, tries, doomed, sent, expiries, lost>>

\* Time passes over a row.
Ages(o) ==
  /\ \/ /\ row[o].status = "publishing" /\ ~row[o].expired
        /\ row' = [row EXCEPT ![o].expired = TRUE]
        /\ expiries' = [expiries EXCEPT ![o] = @ + 1]
     \/ /\ row[o].status = "retryable_failed"
        /\ row' = [row EXCEPT ![o].due = TRUE] /\ UNCHANGED expiries
  /\ UNCHANGED <<pc, job, held, tries, doomed, sent, lost>>

Kind ==
  \/ Waits
  \/ \E d \in Dispatcher : Turns(d) \/ Sends(d) \/ Records(d) \/ \E o \in Outbox : Leases(d, o)
  \/ \E o \in Outbox : GivesUp(o) \/ Ages(o)

LEMMA Kinds ==
  ASSUME TypeOK, [Next]_vars
  PROVE  Kind
<1> USE DEF Goto, dispatcher, observers
<1>t. /\ \A d \in Dispatcher : job[d] \in Outbox
      /\ job \in [Dispatcher -> Outbox] /\ row = [o \in Outbox |-> row[o]]
      /\ \A d \in Dispatcher : job = [job EXCEPT ![d] = job[d]]
  BY DEF TypeOK
<1>w. ASSUME NEW d \in Dispatcher, NEW o \in Outbox, NEW l \in Locations \ Holding,
             pc' = [pc EXCEPT ![d] = l], job' = [job EXCEPT ![d] = o],
             l = "deadletter" => GivenUpAt(o),
             UNCHANGED <<row, held, tries, doomed, sent, expiries, lost>>
      PROVE  Turns(d)
  BY <1>w DEF Turns
<1>l. {"idle", "missed", "deadletter", "reread", "reclaim"} \subseteq Locations \ Holding
  BY DEF Locations, Holding
<1>1. ASSUME NEW d \in Dispatcher, NEW o \in Outbox, NEW c \in Caps, Claim(d, o, c)
      PROVE  Leases(d, o)
  BY <1>1 DEF Claim, Claimable, Leases
<1>2. ASSUME NEW d \in Dispatcher, NEW o \in Outbox, NEW c \in Caps, ClaimMiss(d, o, c)
      PROVE  Turns(d)
  BY <1>2, <1>w, <1>l DEF ClaimMiss
<1>3. ASSUME NEW d \in Dispatcher, NEW c \in Caps, Diagnose(d, c) PROVE Turns(d)
  <2>1. CASE OverCap(job[d], c)
    BY <1>3, <1>t, <1>w, <1>l, <2>1 DEF Diagnose, OverCap, GivenUpAt
  <2>2. CASE ~OverCap(job[d], c)
    BY <1>3, <1>t, <1>w, <1>l, <2>2 DEF Diagnose
  <2>3. QED BY <2>1, <2>2
<1>4. ASSUME NEW d \in Dispatcher, DeadletterClaim(d) PROVE GivesUp(job[d])
  BY <1>4 DEF DeadletterClaim, GivesUp
<1>5. ASSUME NEW d \in Dispatcher, Reread(d) \/ ReclaimRace(d) \/ Crash(d) PROVE Turns(d)
  BY <1>5, <1>t DEF Reread, ReclaimRace, Crash, Turns, Locations, Holding
<1>6. ASSUME NEW d \in Dispatcher, Reclaim(d) PROVE Leases(d, job[d])
  BY <1>6, <1>t DEF Reclaim, Reclaimable, Leases
<1>7. ASSUME NEW d \in Dispatcher, Publish(d) \/ PublishRefused(d) \/ PublishReplyLost(d)
      PROVE  Sends(d)
  BY <1>7 DEF Publish, PublishRefused, PublishReplyLost, Sends
<1>8. ASSUME NEW d \in Dispatcher, MarkPublished(d) PROVE Records(d)
  BY <1>8, <1>t DEF MarkPublished, Records
<1>9. ASSUME NEW d \in Dispatcher, NEW c \in Caps, MarkFailed(d, c) PROVE Records(d)
  BY <1>9, <1>t DEF MarkFailed, Records
<1>10. ASSUME NEW o \in Outbox, NEW c \in Caps, SweepRead(o, c) PROVE Waits
  BY <1>10 DEF SweepRead, OverCap, Waits, GivenUpAt
<1>11. ASSUME NEW o \in Outbox, SweepDeadletter(o) PROVE GivesUp(o)
  BY <1>11 DEF SweepDeadletter, GivesUp
<1>12. ASSUME NEW o \in Outbox, LeaseExpires(o) \/ BackoffPasses(o) PROVE Ages(o)
  BY <1>12 DEF LeaseExpires, BackoffPasses, Ages
<1>13. CASE UNCHANGED vars
  <2>1. UNCHANGED <<row, pc, job, held, tries, doomed, sent, expiries, lost>>
    BY <1>13 DEF vars
  <2>2. QED BY <2>1 DEF Waits, Kind
<1>14. QED
  BY <1>t, <1>1, <1>2, <1>3, <1>4, <1>5, <1>6, <1>7, <1>8, <1>9, <1>10, <1>11, <1>12, <1>13
  DEF Next, Wake, Step, Sweep, Time, Kind

-----------------------------------------------------------------------------
(* Type correctness.                                                       *)

\* The bounds only count.
LEMMA Counters ==
  ASSUME TypeOK, [Next]_vars
  PROVE  crashes' \in Nat /\ slow' \in Nat
BY DEF TypeOK, Next, Wake, Step, Sweep, Time, Claim, ClaimMiss, Diagnose, MarkFailed, DeadletterClaim,
       Reread, Reclaim, ReclaimRace, Publish, PublishRefused, PublishReplyLost, MarkPublished,
       SweepRead, SweepDeadletter, LeaseExpires, BackoffPasses, Crash, vars

Columns == [status : Statuses, attempts : Nat, version : Nat, token : Nat,
            expired : BOOLEAN, due : BOOLEAN]

LEMMA TypeInit == Init => TypeOK
BY BoundsAssumption DEF Init, TypeOK, NewRow, NULL, Statuses, TerminalStatuses, Locations

LEMMA TypeNext == TypeOK /\ [Next]_vars => TypeOK'
<1> SUFFICES ASSUME TypeOK, [Next]_vars PROVE TypeOK'
  OBVIOUS
<1>c. crashes' \in Nat /\ slow' \in Nat
  BY Counters
<1>t. /\ row \in [Outbox -> Columns] /\ job \in [Dispatcher -> Outbox]
      /\ pc \in [Dispatcher -> Locations]
      /\ \A d \in Dispatcher : job[d] \in Outbox /\ tries[d] \in Nat
      /\ \A o \in Outbox : row[o] \in Columns
  BY DEF TypeOK, Columns
<1>f. \A r \in Columns, st \in TerminalStatuses : Finished(r, st) \in Columns
  BY DEF Finished, Columns, Statuses, NULL
<1>r. \A r \in Columns, n \in Nat, c \in Caps : Failure(r, n, c) \in Columns
  BY <1>f DEF Failure, Columns, Statuses, TerminalStatuses
<1>1. CASE Waits
  BY <1>1, <1>c DEF Waits, TypeOK
<1>2. ASSUME NEW d \in Dispatcher, Turns(d) PROVE TypeOK'
  BY <1>2, <1>c, <1>t DEF Turns, TypeOK
<1>3. ASSUME NEW d \in Dispatcher, NEW o \in Outbox, Leases(d, o) PROVE TypeOK'
  <2>1. PICK n \in Nat : Lease(d, o, n)
    BY <1>3, <1>t DEF Leases, Columns
  <2>2. row[o].version + 1 \in Nat
    BY <1>t DEF Columns
  <2>3. row' \in [Outbox -> Columns]
    BY <1>t, <2>1, <2>2 DEF Lease, Columns, Statuses
  <2>4. /\ held' \in [Dispatcher -> Nat] /\ tries' \in [Dispatcher -> Nat]
        /\ pc' \in [Dispatcher -> Locations] /\ job' \in [Dispatcher -> Outbox]
    BY <1>3, <1>t, <2>1, <2>2 DEF Lease, Leases, Goto, TypeOK, Locations, Holding
  <2>5. QED BY <1>3, <1>c, <2>3, <2>4 DEF Leases, TypeOK, Columns
<1>4. ASSUME NEW o \in Outbox, GivesUp(o) PROVE TypeOK'
  <2>1. row' \in [Outbox -> Columns]
    BY <1>4, <1>t, <1>f DEF GivesUp, Deadletter, TerminalStatuses
  <2>2. pc' \in [Dispatcher -> Locations] /\ doomed' \subseteq Outbox
    BY <1>4, <1>t DEF GivesUp, TypeOK, Locations
  <2>3. QED BY <1>4, <1>c, <2>1, <2>2 DEF GivesUp, TypeOK, Columns
<1>5. ASSUME NEW d \in Dispatcher, Sends(d) PROVE TypeOK'
  <2>1. sent' \in [Outbox -> Nat] /\ lost' \in [Outbox -> Nat]
    <3>1. \A o \in Outbox : sent[o] + 1 \in Nat /\ lost[o] + 1 \in Nat
      BY DEF TypeOK
    <3>2. \A o \in Outbox : /\ [sent EXCEPT ![o] = @ + 1] \in [Outbox -> Nat]
                              /\ [lost EXCEPT ![o] = @ + 1] \in [Outbox -> Nat]
      BY <3>1 DEF TypeOK
    <3>3. /\ sent' = sent \/ sent' = [sent EXCEPT ![job[d]] = @ + 1]
          /\ lost' = lost \/ lost' = [lost EXCEPT ![job[d]] = @ + 1]
      BY <1>5 DEF Sends
    <3>4. sent \in [Outbox -> Nat] /\ lost \in [Outbox -> Nat] /\ job[d] \in Outbox
      BY <1>t DEF TypeOK
    <3>5. QED BY <3>2, <3>3, <3>4
  <2>2. pc' \in [Dispatcher -> Locations]
    BY <1>5, <1>t DEF Sends, Locations, Holding
  <2>3. QED BY <1>5, <1>c, <2>1, <2>2 DEF Sends, TypeOK
<1>6. ASSUME NEW d \in Dispatcher, Records(d) PROVE TypeOK'
  <2>1. row' \in [Outbox -> Columns]
    BY <1>6, <1>t, <1>f, <1>r DEF Records, TerminalStatuses
  <2>2. pc' \in [Dispatcher -> Locations]
    BY <1>6, <1>t DEF Records, Locations
  <2>3. QED BY <1>6, <1>c, <2>1, <2>2 DEF Records, TypeOK, Columns
<1>7. ASSUME NEW o \in Outbox, Ages(o) PROVE TypeOK'
  <2>1. row' \in [Outbox -> Columns]
    <3>1. CASE row' = [row EXCEPT ![o].expired = TRUE]
      BY <1>t, <3>1 DEF Columns
    <3>2. CASE row' = [row EXCEPT ![o].due = TRUE]
      BY <1>t, <3>2 DEF Columns
    <3>3. QED BY <1>7, <3>1, <3>2 DEF Ages
  <2>2. expiries' \in [Outbox -> Nat]
    BY <1>7 DEF Ages, TypeOK
  <2>3. QED BY <1>7, <1>c, <2>1, <2>2 DEF Ages, TypeOK, Columns
<1>8. QED
  BY <1>1, <1>2, <1>3, <1>4, <1>5, <1>6, <1>7, Kinds DEF Kind

\* The model is well-typed.
THEOREM TypeCorrect == Spec => []TypeOK
BY TypeInit, TypeNext, PTL DEF Spec

-----------------------------------------------------------------------------
(* Action properties.                                                      *)

LEMMA TerminalStep ==
  ASSUME TypeOK, [Next]_vars
  PROVE  \A o \in Outbox : Terminal(o) => row'[o] = row[o]
<1>t. row \in [Outbox -> Columns] /\ \A d \in Dispatcher : job[d] \in Outbox
  BY DEF TypeOK, Columns
<1>1. CASE UNCHANGED row
  BY <1>1
<1>2. ASSUME NEW d \in Dispatcher, NEW u \in Outbox, Leases(d, u)
      PROVE  \A o \in Outbox : Terminal(o) => row'[o] = row[o]
  BY <1>2, <1>t DEF Leases, Lease, Terminal, TerminalStatuses
<1>3. ASSUME NEW u \in Outbox, GivesUp(u) \/ Ages(u)
      PROVE  \A o \in Outbox : Terminal(o) => row'[o] = row[o]
  BY <1>3, <1>t DEF GivesUp, Deadletter, Ages, Terminal, TerminalStatuses
<1>4. ASSUME NEW d \in Dispatcher, Records(d)
      PROVE  \A o \in Outbox : Terminal(o) => row'[o] = row[o]
  BY <1>4, <1>t DEF Records, Fenced, Terminal, TerminalStatuses
<1>5. QED
  BY <1>1, <1>2, <1>3, <1>4, Kinds DEF Kind, Waits, Turns, Sends

\* No stale dispatcher, sweeper decision or late wake-up rewrites a finished
\* row.
THEOREM FinishedForever == Spec => TerminalIsFinal
<1>1. ASSUME TypeOK, [Next]_vars PROVE [\A o \in Outbox : Terminal(o) => row'[o] = row[o]]_vars
  BY <1>1, TerminalStep
<1>2. QED BY <1>1, TypeCorrect, PTL DEF Spec, TerminalIsFinal

HolderEnds ==
  \A o \in Outbox :
    row[o].status = "publishing" /\ row'[o].status # "publishing" =>
      \E d \in Dispatcher : job[d] = o /\ held[d] = row[o].token
                            /\ pc[d] \in {"markPublished", "markFailed"} /\ pc'[d] = "idle"

LEMMA HolderStep ==
  ASSUME TypeOK, [Next]_vars
  PROVE  HolderEnds
<1>t. /\ row \in [Outbox -> Columns] /\ pc \in [Dispatcher -> Locations]
      /\ \A d \in Dispatcher : job[d] \in Outbox
  BY DEF TypeOK, Columns
<1>1. CASE UNCHANGED row
  BY <1>1 DEF HolderEnds
<1>2. ASSUME NEW d \in Dispatcher, NEW u \in Outbox, Leases(d, u) PROVE HolderEnds
  BY <1>2, <1>t DEF Leases, Lease, HolderEnds
<1>3. ASSUME NEW u \in Outbox, GivesUp(u) PROVE HolderEnds
  BY <1>3, <1>t DEF GivesUp, Deadletter, HolderEnds
<1>4. ASSUME NEW u \in Outbox, Ages(u) PROVE HolderEnds
  <2>1. row'[u].status = row[u].status /\ \A o \in Outbox \ {u} : row'[o] = row[o]
    BY <1>4, <1>t DEF Ages, Columns
  <2>2. QED BY <2>1 DEF HolderEnds
<1>5. ASSUME NEW d \in Dispatcher, Records(d) PROVE HolderEnds
  <2>1. \A o \in Outbox \ {job[d]} : row'[o] = row[o]
    BY <1>5, <1>t DEF Records
  <2>2. Fenced(d) \/ UNCHANGED row
    BY <1>5 DEF Records
  <2>3. pc[d] \in {"markPublished", "markFailed"} /\ pc'[d] = "idle"
    BY <1>5, <1>t DEF Records
  <2>4. QED BY <2>1, <2>2, <2>3 DEF HolderEnds, Fenced
<1>6. QED
  BY <1>1, <1>2, <1>3, <1>4, <1>5, Kinds DEF Kind, Waits, Turns, Sends

\* Only the dispatcher whose lease is on the row ends its publication.
THEOREM HolderAloneEnds == Spec => OnlyHolderEnds
<1>1. ASSUME TypeOK, [Next]_vars PROVE [HolderEnds]_vars
  BY <1>1, HolderStep
<1>2. QED BY <1>1, TypeCorrect, PTL DEF Spec, OnlyHolderEnds, HolderEnds

-----------------------------------------------------------------------------
(* Leases: a dispatcher that holds a lease has a token the row has had, and *)
(* while it is the current one, the attempt count of the row.               *)

LeaseInv ==
  \A d \in Dispatcher : pc[d] \in Holding =>
    /\ held[d] <= row[job[d]].version
    /\ Fenced(d) => tries[d] = row[job[d]].attempts

LEMMA LeaseNext == TypeOK /\ LeaseInv /\ [Next]_vars => LeaseInv'
<1> SUFFICES ASSUME TypeOK, LeaseInv, [Next]_vars PROVE LeaseInv'
  OBVIOUS
<1>t. /\ row \in [Outbox -> Columns] /\ pc \in [Dispatcher -> Locations]
      /\ held \in [Dispatcher -> Nat] /\ tries \in [Dispatcher -> Nat]
      /\ job \in [Dispatcher -> Outbox] /\ \A d \in Dispatcher : job[d] \in Outbox
      /\ \A o \in Outbox : row[o].version \in Nat /\ row[o].attempts \in Nat
  BY DEF TypeOK, Columns
<1>h. Holding = {"publish", "markPublished", "markFailed"}
  BY DEF Holding
\* The columns stay, or the row is no longer publishing: what was held is no
\* more than it was.
<1>k. ASSUME UNCHANGED <<job, held, tries>>,
             \A d \in Dispatcher : pc'[d] \in Holding => pc[d] \in Holding,
             \A o \in Outbox : /\ row'[o].version = row[o].version
                               /\ row'[o].attempts = row[o].attempts
                               /\ row'[o].status = "publishing" =>
                                    /\ row[o].status = "publishing"
                                    /\ row'[o].token = row[o].token
      PROVE  LeaseInv'
  BY <1>k, <1>t DEF LeaseInv, Fenced
<1>1. CASE Waits
  BY <1>1, <1>k DEF Waits
<1>2. ASSUME NEW d \in Dispatcher, Turns(d) PROVE LeaseInv'
  <2>1. pc'[d] \notin Holding
        /\ \A e \in Dispatcher \ {d} : pc'[e] = pc[e] /\ job'[e] = job[e]
    BY <1>2, <1>t DEF Turns
  <2>2. QED BY <1>2, <2>1 DEF Turns, LeaseInv, Fenced
<1>3. ASSUME NEW d \in Dispatcher, NEW o \in Outbox, Leases(d, o) PROVE LeaseInv'
  <2>1. PICK n \in Nat : Lease(d, o, n)
    BY <1>3, <1>t DEF Leases
  <2> DEFINE v == row[o].version + 1
  <2>2. /\ job'[d] = o /\ held'[d] = v /\ tries'[d] = n
        /\ row'[o].version = v /\ row'[o].attempts = n /\ row'[o].token = v
    BY <1>3, <1>t, <2>1 DEF Leases, Lease
  <2>3. \A e \in Dispatcher \ {d} : /\ job'[e] = job[e] /\ held'[e] = held[e]
                                    /\ tries'[e] = tries[e] /\ pc'[e] = pc[e]
    BY <1>3, <1>t, <2>1 DEF Leases, Lease, Goto
  <2>4. \A u \in Outbox \ {o} : row'[u] = row[u]
    BY <1>t, <2>1 DEF Lease
  <2>5. v \in Nat /\ v > row[o].version
    BY <1>t
  <2>6. ASSUME NEW e \in Dispatcher \ {d}, pc[e] \in Holding
        PROVE  /\ held[e] <= row'[job[e]].version
               /\ Fenced(e)' => tries'[e] = row'[job[e]].attempts
    <3>1. held[e] <= row[job[e]].version /\ held[e] \in Nat /\ job[e] \in Outbox
      BY <2>6, <1>t DEF LeaseInv
    <3>2. CASE job[e] = o
      BY <3>1, <3>2, <2>2, <2>3, <2>5, <1>t DEF Fenced
    <3>3. CASE job[e] # o
      BY <2>6, <3>1, <3>3, <2>3, <2>4 DEF Fenced, LeaseInv
    <3>4. QED BY <3>2, <3>3
  <2>7. QED BY <2>2, <2>3, <2>5, <2>6 DEF LeaseInv
<1>4. ASSUME NEW o \in Outbox, GivesUp(o) PROVE LeaseInv'
  <2>1. \A d \in Dispatcher : pc'[d] \in Holding => pc[d] \in Holding
    BY <1>4, <1>t, <1>h DEF GivesUp
  <2>2. QED
    BY <1>4, <1>t, <1>k, <2>1 DEF GivesUp, Deadletter, Finished, Columns
<1>5. ASSUME NEW d \in Dispatcher, Sends(d) PROVE LeaseInv'
  BY <1>5, <1>t, <1>h, <1>k DEF Sends
<1>6. ASSUME NEW d \in Dispatcher, Records(d) PROVE LeaseInv'
  <2>1. \A e \in Dispatcher : pc'[e] \in Holding => pc[e] \in Holding
    BY <1>6, <1>t, <1>h DEF Records
  <2>2. CASE UNCHANGED row
    BY <1>6, <1>k, <2>1, <2>2 DEF Records
  <2>3. CASE row' = [row EXCEPT ![job[d]] = Finished(@, "published")]
    BY <1>6, <1>t, <1>k, <2>1, <2>3 DEF Records, Finished, Columns
  <2>4. ASSUME NEW c \in Caps, row' = [row EXCEPT ![job[d]] = Failure(@, tries[d], c)]
        PROVE  LeaseInv'
    <3>1. /\ row'[job[d]].version = row[job[d]].version
          /\ row'[job[d]].attempts = row[job[d]].attempts
          /\ row'[job[d]].status # "publishing"
      BY <1>t, <2>4 DEF Failure, Finished, Columns
    <3>2. \A o \in Outbox \ {job[d]} : row'[o] = row[o]
      BY <1>t, <2>4
    <3>3. QED BY <1>6, <1>k, <2>1, <3>1, <3>2 DEF Records
  <2>5. QED BY <1>6, <2>2, <2>3, <2>4 DEF Records
<1>7. ASSUME NEW o \in Outbox, Ages(o) PROVE LeaseInv'
  <2>1. /\ row'[o].version = row[o].version /\ row'[o].attempts = row[o].attempts
        /\ row'[o].status = row[o].status /\ row'[o].token = row[o].token
        /\ \A u \in Outbox \ {o} : row'[u] = row[u]
    BY <1>7, <1>t DEF Ages, Columns
  <2>2. QED BY <1>7, <1>k, <2>1 DEF Ages
<1>8. QED
  BY <1>1, <1>2, <1>3, <1>4, <1>5, <1>6, <1>7, Kinds DEF Kind

-----------------------------------------------------------------------------
(* A published row was sent.                                               *)

SentInv ==
  /\ PublishedMeansSent
  /\ \A d \in Dispatcher : pc[d] = "markPublished" => sent[job[d]] >= 1

LEMMA SentNext == TypeOK /\ SentInv /\ [Next]_vars => SentInv'
<1> SUFFICES ASSUME TypeOK, SentInv, [Next]_vars PROVE SentInv'
  OBVIOUS
<1>t. /\ row \in [Outbox -> Columns] /\ pc \in [Dispatcher -> Locations]
      /\ job \in [Dispatcher -> Outbox] /\ \A d \in Dispatcher : job[d] \in Outbox
      /\ sent \in [Outbox -> Nat] /\ \A o \in Outbox : sent[o] \in Nat
  BY DEF TypeOK, Columns
<1>k. ASSUME \A o \in Outbox : sent'[o] >= sent[o] /\ sent'[o] \in Nat,
             \A o \in Outbox : row'[o].status = "published" => row[o].status = "published",
             \A d \in Dispatcher : pc'[d] = "markPublished" =>
                                     pc[d] = "markPublished" /\ job'[d] = job[d]
      PROVE  SentInv'
  BY <1>k, <1>t DEF SentInv, PublishedMeansSent
<1>1. CASE Waits
  BY <1>1, <1>k, <1>t DEF Waits
<1>2. ASSUME NEW d \in Dispatcher, Turns(d) PROVE SentInv'
  <2>1. pc'[d] # "markPublished"
        /\ \A e \in Dispatcher \ {d} : pc'[e] = pc[e] /\ job'[e] = job[e]
    BY <1>2, <1>t DEF Turns, Holding
  <2>2. QED BY <1>2, <1>k, <1>t, <2>1 DEF Turns
<1>3. ASSUME NEW d \in Dispatcher, NEW o \in Outbox, Leases(d, o) PROVE SentInv'
  <2>1. row'[o].status = "publishing" /\ \A u \in Outbox \ {o} : row'[u] = row[u]
    BY <1>3, <1>t DEF Leases, Lease
  <2>2. pc'[d] = "publish" /\ \A e \in Dispatcher \ {d} : pc'[e] = pc[e] /\ job'[e] = job[e]
    BY <1>3, <1>t DEF Leases, Lease, Goto
  <2>3. QED BY <1>3, <1>k, <1>t, <2>1, <2>2 DEF Leases
<1>4. ASSUME NEW o \in Outbox, GivesUp(o) PROVE SentInv'
  <2>1. \A u \in Outbox : row'[u].status = "published" => row[u].status = "published"
    BY <1>4, <1>t DEF GivesUp, Deadletter, Finished, Columns
  <2>2. \A d \in Dispatcher : pc'[d] = "markPublished" => pc[d] = "markPublished"
    BY <1>4, <1>t DEF GivesUp
  <2>3. QED BY <1>4, <1>k, <1>t, <2>1, <2>2 DEF GivesUp
<1>5. ASSUME NEW d \in Dispatcher, Sends(d) PROVE SentInv'
  <2>1. \A o \in Outbox : sent'[o] >= sent[o] /\ sent'[o] \in Nat
    <3>1. sent' = sent \/ sent' = [sent EXCEPT ![job[d]] = @ + 1]
      BY <1>5 DEF Sends
    <3>2. QED BY <1>t, <3>1
  <2>2. pc'[d] = "markPublished" => sent'[job[d]] >= 1
    <3>1. ASSUME pc'[d] = "markPublished" PROVE sent' = [sent EXCEPT ![job[d]] = @ + 1]
      BY <1>5, <1>t, <3>1 DEF Sends
    <3>2. QED BY <1>t, <3>1
  <2>3. \A e \in Dispatcher \ {d} : pc'[e] = pc[e]
    BY <1>5, <1>t DEF Sends
  <2>4. UNCHANGED <<row, job>>
    BY <1>5 DEF Sends
  <2>5. QED BY <1>t, <2>1, <2>2, <2>3, <2>4 DEF SentInv, PublishedMeansSent
<1>6. ASSUME NEW d \in Dispatcher, Records(d) PROVE SentInv'
  <2>1. /\ UNCHANGED <<job, sent>>
        /\ \A e \in Dispatcher : pc'[e] = "markPublished" => pc[e] = "markPublished"
    BY <1>6, <1>t DEF Records
  <2>2. \A o \in Outbox : row'[o].status = "published" =>
          row[o].status = "published" \/ (o = job[d] /\ pc[d] = "markPublished")
    <3>1. CASE UNCHANGED row
      BY <3>1
    <3>2. CASE pc[d] = "markPublished" /\ row' = [row EXCEPT ![job[d]] = Finished(@, "published")]
      BY <1>t, <3>2
    <3>3. ASSUME NEW c \in Caps, row' = [row EXCEPT ![job[d]] = Failure(@, tries[d], c)]
          PROVE  row'[job[d]].status # "published" /\ \A o \in Outbox \ {job[d]} : row'[o] = row[o]
      BY <1>t, <3>3 DEF Failure, Finished, Columns
    <3>4. QED BY <1>6, <3>1, <3>2, <3>3 DEF Records
  <2>3. QED BY <1>t, <2>1, <2>2 DEF SentInv, PublishedMeansSent
<1>7. ASSUME NEW o \in Outbox, Ages(o) PROVE SentInv'
  <2>1. row'[o].status = row[o].status /\ \A u \in Outbox \ {o} : row'[u] = row[u]
    BY <1>7, <1>t DEF Ages, Columns
  <2>2. QED BY <1>7, <1>k, <1>t, <2>1 DEF Ages
<1>8. QED
  BY <1>1, <1>2, <1>3, <1>4, <1>5, <1>6, <1>7, Kinds DEF Kind

\* A row reads 'published' only when Redis has accepted its event.
THEOREM PublishedWasSent == Spec => []PublishedMeansSent
<1>1. Init => SentInv
  BY DEF Init, SentInv, PublishedMeansSent, NewRow
<1>2. SentInv => PublishedMeansSent
  BY DEF SentInv
<1>3. TypeOK /\ SentInv /\ [Next]_vars => SentInv'
  BY SentNext
<1>4. QED BY <1>1, <1>2, <1>3, TypeCorrect, PTL DEF Spec

-----------------------------------------------------------------------------
(* The attempt budget.  A decision to give a row up is taken on an attempt  *)
(* count that has reached a cap, and the count never falls.                *)

BudgetInv ==
  /\ \A o \in Outbox : row[o].status = "pending" => row[o].attempts = 0
  /\ \A o \in doomed : GivenUpAt(o)
  /\ \A d \in Dispatcher : pc[d] = "deadletter" => GivenUpAt(job[d])
  /\ RetryBudget

LEMMA BudgetNext == TypeOK /\ LeaseInv /\ BudgetInv /\ [Next]_vars => BudgetInv'
<1> SUFFICES ASSUME TypeOK, LeaseInv, BudgetInv, [Next]_vars PROVE BudgetInv'
  OBVIOUS
<1>t. /\ row \in [Outbox -> Columns] /\ pc \in [Dispatcher -> Locations]
      /\ job \in [Dispatcher -> Outbox] /\ \A d \in Dispatcher : job[d] \in Outbox
      /\ doomed \subseteq Outbox
      /\ \A o \in Outbox : row[o].attempts \in Nat
      /\ Caps # {} /\ \A c \in Caps : c \in Nat /\ c >= 1
  BY CapsAssumption DEF TypeOK, Columns
<1>k. ASSUME \A o \in Outbox : /\ row'[o].attempts = row[o].attempts
                               /\ row'[o].status = "pending" => row[o].status = "pending"
                               /\ row'[o].status = "terminal_failed" =>
                                    row[o].status = "terminal_failed" \/ GivenUpAt(o),
             \A o \in doomed' : o \in doomed \/ GivenUpAt(o),
             doomed' \subseteq Outbox,
             \A d \in Dispatcher : pc'[d] = "deadletter" => GivenUpAt(job'[d]) /\ job'[d] \in Outbox
      PROVE  BudgetInv'
  BY <1>k, <1>t DEF BudgetInv, RetryBudget, GivenUpAt
<1>1. CASE Waits
  BY <1>1, <1>k, <1>t DEF Waits, BudgetInv
<1>2. ASSUME NEW d \in Dispatcher, Turns(d) PROVE BudgetInv'
  <2>1. pc'[d] = "deadletter" => GivenUpAt(job'[d]) /\ job'[d] \in Outbox
    BY <1>2, <1>t DEF Turns
  <2>2. \A e \in Dispatcher \ {d} : pc'[e] = pc[e] /\ job'[e] = job[e]
    BY <1>2, <1>t DEF Turns
  <2>3. QED BY <1>2, <1>k, <1>t, <2>1, <2>2 DEF Turns, BudgetInv
<1>3. ASSUME NEW d \in Dispatcher, NEW o \in Outbox, Leases(d, o) PROVE BudgetInv'
  <2>1. PICK n \in Nat : Lease(d, o, n) /\ n >= row[o].attempts /\ \E c \in Caps : n <= c
    BY <1>3, <1>t DEF Leases, BudgetInv, RetryBudget
  <2>2. /\ row'[o].status = "publishing" /\ row'[o].attempts = n
        /\ \A u \in Outbox \ {o} : row'[u] = row[u]
    BY <1>t, <2>1 DEF Lease
  <2>3. pc'[d] = "publish" /\ \A e \in Dispatcher \ {d} : pc'[e] = pc[e] /\ job'[e] = job[e]
    BY <1>3, <1>t, <2>1 DEF Leases, Lease, Goto
  <2>4. \A u \in Outbox : GivenUpAt(u) => GivenUpAt(u)'
    BY <1>t, <2>1, <2>2 DEF GivenUpAt
  <2>5. doomed' = doomed
    BY <1>3 DEF Leases
  <2>6. RetryBudget'
    BY <1>t, <2>1, <2>2 DEF BudgetInv, RetryBudget
  <2>7. \A e \in Dispatcher : pc'[e] = "deadletter" => GivenUpAt(job[e])' /\ job'[e] = job[e]
    BY <1>t, <2>3, <2>4 DEF BudgetInv, GivenUpAt
  <2>8. QED BY <1>t, <2>2, <2>4, <2>5, <2>6, <2>7 DEF BudgetInv, GivenUpAt
<1>4. ASSUME NEW o \in Outbox, GivesUp(o) PROVE BudgetInv'
  <2>1. GivenUpAt(o)
    BY <1>4 DEF GivesUp, BudgetInv
  <2>2. \A u \in Outbox : /\ row'[u].attempts = row[u].attempts
                          /\ row'[u].status = "pending" => row[u].status = "pending"
                          /\ row'[u].status = "terminal_failed" =>
                               row[u].status = "terminal_failed" \/ GivenUpAt(u)
    BY <1>4, <1>t, <2>1 DEF GivesUp, Deadletter, Finished, Columns
  <2>3. \A d \in Dispatcher : pc'[d] = "deadletter" => pc[d] = "deadletter"
    BY <1>4, <1>t DEF GivesUp
  <2>4. doomed' \subseteq doomed /\ job' = job
    BY <1>4 DEF GivesUp
  <2>5. QED BY <1>k, <1>t, <2>2, <2>3, <2>4 DEF BudgetInv
<1>5. ASSUME NEW d \in Dispatcher, Sends(d) PROVE BudgetInv'
  <2>1. \A e \in Dispatcher : pc'[e] = "deadletter" => pc[e] = "deadletter"
    BY <1>5, <1>t DEF Sends
  <2>2. QED BY <1>5, <1>k, <1>t, <2>1 DEF Sends, BudgetInv
<1>6. ASSUME NEW d \in Dispatcher, Records(d) PROVE BudgetInv'
  <2>1. \A e \in Dispatcher : pc'[e] = "deadletter" => pc[e] = "deadletter"
    BY <1>6, <1>t DEF Records
  <2>2. \A o \in Outbox : /\ row'[o].attempts = row[o].attempts
                          /\ row'[o].status = "pending" => row[o].status = "pending"
                          /\ row'[o].status = "terminal_failed" =>
                               row[o].status = "terminal_failed" \/ GivenUpAt(o)
    <3>1. CASE UNCHANGED row
      BY <3>1
    <3>2. CASE row' = [row EXCEPT ![job[d]] = Finished(@, "published")]
      BY <1>t, <3>2 DEF Finished, Columns
    <3>3. ASSUME NEW c \in Caps, Fenced(d), pc[d] = "markFailed",
                 row' = [row EXCEPT ![job[d]] = Failure(@, tries[d], c)]
          PROVE  \A o \in Outbox : /\ row'[o].attempts = row[o].attempts
                                   /\ row'[o].status = "pending" => row[o].status = "pending"
                                   /\ row'[o].status = "terminal_failed" =>
                                        row[o].status = "terminal_failed" \/ GivenUpAt(o)
      <4>1. tries[d] = row[job[d]].attempts
        BY <3>3 DEF LeaseInv, Holding
      <4>2. QED BY <1>t, <3>3, <4>1 DEF Failure, Finished, Columns, GivenUpAt
    <3>4. QED BY <1>6, <3>1, <3>2, <3>3 DEF Records
  <2>3. QED BY <1>6, <1>k, <1>t, <2>1, <2>2 DEF Records, BudgetInv
<1>7. ASSUME NEW o \in Outbox, Ages(o) PROVE BudgetInv'
  <2>1. /\ row'[o].status = row[o].status /\ row'[o].attempts = row[o].attempts
        /\ \A u \in Outbox \ {o} : row'[u] = row[u]
    BY <1>7, <1>t DEF Ages, Columns
  <2>2. QED BY <1>7, <1>k, <1>t, <2>1 DEF Ages, BudgetInv
<1>8. QED
  BY <1>1, <1>2, <1>3, <1>4, <1>5, <1>6, <1>7, Kinds DEF Kind

\* No row is claimed more often than some cap allows, and none is given up
\* before some cap was reached, although each process has its own cap and
\* decisions are taken on rows read earlier.
THEOREM BudgetKept == Spec => []RetryBudget
<1>1. Init => LeaseInv /\ BudgetInv
  <2> SUFFICES ASSUME Init PROVE LeaseInv /\ BudgetInv
    OBVIOUS
  <2>1. LeaseInv
    BY DEF Init, LeaseInv, Holding
  <2>2. RetryBudget
    <3>1. PICK c \in Caps : c \in Nat
      BY CapsAssumption
    <3>2. \A o \in Outbox : row[o].attempts = 0 /\ row[o].status = "pending"
      BY DEF Init, NewRow
    <3>3. QED BY <3>1, <3>2 DEF RetryBudget
  <2>3. BudgetInv
    BY <2>2 DEF Init, BudgetInv, NewRow
  <2>4. QED BY <2>1, <2>3
<1>2. TypeOK /\ LeaseInv /\ BudgetInv /\ [Next]_vars => (LeaseInv /\ BudgetInv)'
  BY LeaseNext, BudgetNext
<1>3. BudgetInv => RetryBudget
  BY DEF BudgetInv
<1>4. QED BY <1>1, <1>2, <1>3, TypeCorrect, PTL DEF Spec

-----------------------------------------------------------------------------
(* Duplicates.  A lease allows one publish.  What was sent and what may     *)
(* still be sent is covered by the expired leases, the lost replies and     *)
(* one publish more while the first lease may still succeed.               *)

Sending(o) == {d \in Dispatcher : pc[d] = "publish" /\ job[d] = o}
Failing(o) == \E d \in Dispatcher : pc[d] = "markFailed" /\ job[d] = o /\ held[d] = row[o].token
Fresh(o) ==
  IF \/ row[o].status \in {"pending", "retryable_failed"}
     \/ row[o].status = "publishing" /\ (row[o].expired \/ Failing(o))
  THEN 0 ELSE 1

DuplicateInv ==
  \A o \in Outbox : sent[o] + Cardinality(Sending(o)) <= expiries[o] + lost[o] + Fresh(o)

LEMMA SendingFinite ==
  \A o \in Outbox : IsFiniteSet(Sending(o)) /\ Cardinality(Sending(o)) \in Nat
<1> SUFFICES ASSUME NEW o \in Outbox
             PROVE  IsFiniteSet(Sending(o)) /\ Cardinality(Sending(o)) \in Nat
  OBVIOUS
<1>1. Sending(o) \in SUBSET Dispatcher
  BY DEF Sending
<1>2. IsFiniteSet(Sending(o))
  BY <1>1, FiniteAssumption, FS_Subset
<1>3. QED BY <1>2, FS_CardinalityType

LEMMA DuplicateNext == TypeOK /\ LeaseInv /\ DuplicateInv /\ [Next]_vars => DuplicateInv'
<1> SUFFICES ASSUME TypeOK, LeaseInv, DuplicateInv, [Next]_vars, NEW u \in Outbox
             PROVE  sent'[u] + Cardinality(Sending(u)') <= expiries'[u] + lost'[u] + Fresh(u)'
  BY DEF DuplicateInv
<1>t. /\ row \in [Outbox -> Columns] /\ pc \in [Dispatcher -> Locations]
      /\ held \in [Dispatcher -> Nat]
      /\ job \in [Dispatcher -> Outbox] /\ \A d \in Dispatcher : job[d] \in Outbox
      /\ \A o \in Outbox : row[o].version \in Nat
      /\ sent \in [Outbox -> Nat] /\ expiries \in [Outbox -> Nat] /\ lost \in [Outbox -> Nat]
      /\ sent[u] \in Nat /\ expiries[u] \in Nat /\ lost[u] \in Nat
  BY DEF TypeOK, Columns
<1>d. sent[u] + Cardinality(Sending(u)) <= expiries[u] + lost[u] + Fresh(u)
  BY DEF DuplicateInv
<1>s. IsFiniteSet(Sending(u)) /\ Cardinality(Sending(u)) \in Nat
  BY SendingFinite
<1>g. Fresh(u) \in {0, 1} /\ Fresh(u)' \in {0, 1}
  BY DEF Fresh
\* Fewer publishers and no less freshness.
<1>k. ASSUME UNCHANGED <<sent, expiries, lost>>, Sending(u)' \subseteq Sending(u),
             Fresh(u)' >= Fresh(u)
      PROVE  sent'[u] + Cardinality(Sending(u)') <= expiries'[u] + lost'[u] + Fresh(u)'
  <2>1. IsFiniteSet(Sending(u)') /\ Cardinality(Sending(u)') <= Cardinality(Sending(u))
    BY <1>k, <1>s, FS_Subset
  <2>2. Cardinality(Sending(u)') \in Nat
    BY <2>1, FS_CardinalityType
  <2>3. QED BY <1>k, <1>t, <1>d, <1>s, <1>g, <2>1, <2>2
<1>1. CASE Waits
  <2>1. Sending(u)' = Sending(u) /\ Fresh(u)' = Fresh(u)
    BY <1>1 DEF Waits, Sending, Fresh, Failing
  <2>2. QED BY <1>1, <1>k, <1>g, <2>1 DEF Waits
<1>2. ASSUME NEW d \in Dispatcher, Turns(d)
      PROVE  sent'[u] + Cardinality(Sending(u)') <= expiries'[u] + lost'[u] + Fresh(u)'
  <2>1. pc'[d] \notin Holding
        /\ \A e \in Dispatcher \ {d} : pc'[e] = pc[e] /\ job'[e] = job[e]
    BY <1>2, <1>t DEF Turns
  <2>2. Sending(u)' \subseteq Sending(u)
    BY <2>1 DEF Sending, Holding
  <2>3. Failing(u)' => Failing(u)
    BY <1>2, <2>1 DEF Turns, Failing, Holding
  <2>4. Fresh(u)' >= Fresh(u)
    BY <1>2, <2>3 DEF Turns, Fresh
  <2>5. QED BY <1>2, <1>k, <2>2, <2>4 DEF Turns
<1>3. ASSUME NEW d \in Dispatcher, NEW o \in Outbox, Leases(d, o)
      PROVE  sent'[u] + Cardinality(Sending(u)') <= expiries'[u] + lost'[u] + Fresh(u)'
  <2> DEFINE v == row[o].version + 1
  <2>1. PICK n \in Nat : Lease(d, o, n)
    BY <1>3 DEF Leases, TypeOK
  <2>2. /\ row'[o].status = "publishing" /\ row'[o].token = v /\ row'[o].expired = FALSE
        /\ \A w \in Outbox \ {o} : row'[w] = row[w]
    BY <1>t, <2>1 DEF Lease
  <2>3. /\ job'[d] = o /\ pc'[d] = "publish" /\ held'[d] = v
        /\ \A e \in Dispatcher \ {d} : pc'[e] = pc[e] /\ job'[e] = job[e] /\ held'[e] = held[e]
    BY <1>3, <1>t, <2>1 DEF Leases, Lease, Goto
  <2>4. UNCHANGED <<sent, expiries, lost>>
    BY <1>3 DEF Leases
  <2>5. CASE u = o
    <3>1. Fresh(u) = 0
      BY <1>3, <2>5 DEF Leases, Fresh
    <3>2. ~Failing(u)'
      <4> SUFFICES ASSUME NEW e \in Dispatcher, pc'[e] = "markFailed", job'[e] = o, held'[e] = v
                   PROVE  FALSE
        BY <2>2, <2>5 DEF Failing
      <4>1. e # d
        BY <2>3
      <4>2. pc[e] = "markFailed" /\ job[e] = o /\ held[e] = v
        BY <2>3, <4>1
      <4>3. held[e] <= row[o].version
        BY <4>2 DEF LeaseInv, Holding
      <4>4. QED BY <1>t, <4>2, <4>3
    <3>3. Fresh(u)' = 1
      BY <2>2, <2>5, <3>2 DEF Fresh
    <3>4. Sending(u)' \subseteq Sending(u) \cup {d}
      BY <2>3 DEF Sending
    <3>5. /\ IsFiniteSet(Sending(u) \cup {d}) /\ Cardinality(Sending(u) \cup {d}) \in Nat
          /\ Cardinality(Sending(u) \cup {d}) <= Cardinality(Sending(u)) + 1
      <4>1. IsFiniteSet(Sending(u) \cup {d})
        BY <1>s, FS_AddElement
      <4>2. QED BY <1>s, <4>1, FS_AddElement, FS_CardinalityType
    <3>6. IsFiniteSet(Sending(u)') /\ Cardinality(Sending(u)') <= Cardinality(Sending(u) \cup {d})
      BY <3>4, <3>5, FS_Subset
    <3>7. Cardinality(Sending(u)') \in Nat
      BY <3>6, FS_CardinalityType
    <3>8. QED BY <1>t, <1>d, <1>s, <2>4, <3>1, <3>3, <3>5, <3>6, <3>7
  <2>6. CASE u # o
    <3>1. Sending(u)' \subseteq Sending(u)
      BY <2>3, <2>6 DEF Sending
    <3>2. Failing(u)' => Failing(u)
      BY <2>2, <2>3, <2>6 DEF Failing
    <3>3. Fresh(u)' >= Fresh(u)
      BY <2>2, <2>6, <3>2 DEF Fresh
    <3>4. QED BY <1>k, <2>4, <3>1, <3>3
  <2>7. QED BY <2>5, <2>6
<1>4. ASSUME NEW o \in Outbox, GivesUp(o)
      PROVE  sent'[u] + Cardinality(Sending(u)') <= expiries'[u] + lost'[u] + Fresh(u)'
  <2>1. /\ \A d \in Dispatcher : \/ pc'[d] = pc[d]
                                 \/ pc'[d] = "reread"
        /\ UNCHANGED <<job, held, sent, expiries, lost>>
    BY <1>4, <1>t DEF GivesUp
  <2>2. Sending(u)' \subseteq Sending(u)
    BY <2>1 DEF Sending
  <2>3. row'[u] = row[u] \/ row'[u].status = "terminal_failed"
    BY <1>4, <1>t DEF GivesUp, Deadletter, Finished, Columns
  <2>4. row'[u] = row[u] => (Failing(u)' => Failing(u))
    BY <2>1 DEF Failing
  <2>5. Fresh(u)' >= Fresh(u)
    <3>1. CASE row'[u] = row[u]
      BY <2>4, <3>1 DEF Fresh
    <3>2. CASE row'[u].status = "terminal_failed"
      BY <1>g, <3>2 DEF Fresh
    <3>3. QED BY <2>3, <3>1, <3>2
  <2>6. QED BY <1>k, <2>1, <2>2, <2>5
<1>5. ASSUME NEW d \in Dispatcher, Sends(d)
      PROVE  sent'[u] + Cardinality(Sending(u)') <= expiries'[u] + lost'[u] + Fresh(u)'
  <2>1. /\ \A e \in Dispatcher \ {d} : pc'[e] = pc[e]
        /\ pc[d] = "publish" /\ pc'[d] \in {"markPublished", "markFailed"}
        /\ UNCHANGED <<row, job, held, expiries>>
    BY <1>5, <1>t DEF Sends
  <2>2. CASE u = job[d]
    <3>1. Sending(u)' = Sending(u) \ {d} /\ d \in Sending(u)
      BY <2>1, <2>2 DEF Sending
    <3>2. Cardinality(Sending(u)') = Cardinality(Sending(u)) - 1
      BY <1>s, <3>1, FS_RemoveElement
    <3>3. CASE pc'[d] = "markPublished"
      <4>1. sent'[u] = sent[u] + 1 /\ lost' = lost
        BY <1>5, <1>t, <2>2, <3>3 DEF Sends
      <4>2. Failing(u)' => Failing(u)
        BY <2>1, <3>3 DEF Failing
      <4>3. Fresh(u)' >= Fresh(u)
        BY <2>1, <4>2 DEF Fresh
      <4>4. QED BY <1>t, <1>d, <1>s, <1>g, <2>1, <3>2, <4>1, <4>3
    <3>4. CASE pc'[d] = "markFailed"
      <4>1. \/ sent'[u] = sent[u] /\ lost'[u] = lost[u]
            \/ sent'[u] = sent[u] + 1 /\ lost'[u] = lost[u] + 1
        BY <1>5, <1>t, <2>2, <3>4 DEF Sends
      <4>2. expiries'[u] = expiries[u]
        BY <2>1
      <4>3. sent[u] + Cardinality(Sending(u)) - 1 <= expiries[u] + lost[u] + Fresh(u)'
        <5>1. CASE Fresh(u) = Fresh(u)'
          BY <1>t, <1>d, <1>s, <1>g, <5>1
        <5>2. CASE Fresh(u) = 0 /\ Fresh(u)' = 1
          BY <1>t, <1>d, <1>s, <5>2
        <5>3. CASE Fresh(u) = 1 /\ Fresh(u)' = 0
          BY <1>t, <1>d, <1>s, <5>3
        <5>4. QED BY <1>g, <5>1, <5>2, <5>3
      <4>4. CASE sent'[u] = sent[u] /\ lost'[u] = lost[u]
        BY <1>t, <1>s, <3>2, <4>2, <4>3, <4>4
      <4>5. CASE sent'[u] = sent[u] + 1 /\ lost'[u] = lost[u] + 1
        <5>1. Cardinality(Sending(u)') = Cardinality(Sending(u)) - 1
          BY <3>2
        <5>2. Fresh(u)' \in Int
          BY <1>g
        <5>3. QED BY <1>t, <1>s, <4>2, <4>3, <4>5, <5>1, <5>2
      <4>6. QED BY <4>1, <4>4, <4>5
    <3>5. QED BY <2>1, <3>3, <3>4
  <2>3. CASE u # job[d]
    <3>1. Sending(u)' = Sending(u)
      BY <2>1, <2>3 DEF Sending
    <3>2. Failing(u)' => Failing(u)
      BY <2>1, <2>3 DEF Failing
    <3>3. Fresh(u)' >= Fresh(u)
      BY <2>1, <3>2 DEF Fresh
    <3>4. sent'[u] = sent[u] /\ lost'[u] = lost[u]
      BY <1>5, <1>t, <2>3 DEF Sends
    <3>5. QED BY <1>t, <1>d, <1>s, <1>g, <2>1, <3>1, <3>3, <3>4
  <2>4. QED BY <2>2, <2>3
<1>6. ASSUME NEW d \in Dispatcher, Records(d)
      PROVE  sent'[u] + Cardinality(Sending(u)') <= expiries'[u] + lost'[u] + Fresh(u)'
  <2>1. /\ \A e \in Dispatcher \ {d} : pc'[e] = pc[e]
        /\ pc'[d] = "idle" /\ pc[d] \in {"markPublished", "markFailed"}
        /\ UNCHANGED <<job, held, sent, expiries, lost>>
    BY <1>6, <1>t DEF Records
  <2>2. Sending(u)' \subseteq Sending(u)
    BY <2>1 DEF Sending
  <2>3. Fresh(u)' >= Fresh(u)
    <3>1. CASE row'[u] = row[u]
      <4>1. Failing(u)' => Failing(u)
        BY <2>1, <3>1 DEF Failing
      <4>2. QED BY <3>1, <4>1 DEF Fresh
    <3>2. CASE row'[u] # row[u]
      <4>1. u = job[d] /\ Fenced(d)
        BY <1>6, <1>t, <3>2 DEF Records
      <4>2. CASE pc[d] = "markPublished"
        <5>1. row'[u].status = "published"
          <6>1. row' = [row EXCEPT ![u] = Finished(row[u], "published")]
            BY <1>6, <4>1, <4>2 DEF Records
          <6>2. row'[u] = Finished(row[u], "published") /\ row[u] \in Columns
            BY <1>t, <6>1
          <6>3. QED BY <6>2 DEF Finished, Columns
        <5>2. QED BY <1>g, <5>1 DEF Fresh
      <4>3. CASE pc[d] = "markFailed"
        <5>1. Failing(u) /\ row[u].status = "publishing"
          BY <4>1, <4>3 DEF Failing, Fenced
        <5>2. QED BY <1>g, <5>1 DEF Fresh
      <4>4. QED BY <2>1, <4>2, <4>3
    <3>3. QED BY <3>1, <3>2
  <2>4. QED BY <1>k, <2>1, <2>2, <2>3
<1>7. ASSUME NEW o \in Outbox, Ages(o)
      PROVE  sent'[u] + Cardinality(Sending(u)') <= expiries'[u] + lost'[u] + Fresh(u)'
  <2>1. Sending(u)' = Sending(u) /\ UNCHANGED <<pc, job, held, sent, lost>>
    BY <1>7 DEF Ages, Sending
  <2>2. CASE u = o /\ row[o].status = "publishing"
    <3>1. expiries'[u] = expiries[u] + 1
      BY <1>7, <1>t, <2>2 DEF Ages
    <3>2. QED BY <1>t, <1>d, <1>s, <1>g, <2>1, <3>1
  <2>3. CASE u = o /\ row[o].status # "publishing"
    <3>1. expiries' = expiries /\ Fresh(u) = 0
      BY <1>7, <2>3 DEF Ages, Fresh
    <3>2. QED BY <1>k, <1>g, <2>1, <3>1
  <2>4. CASE u # o
    <3>1. row'[u] = row[u] /\ expiries'[u] = expiries[u]
      BY <1>7, <1>t, <2>4 DEF Ages
    <3>2. Fresh(u)' = Fresh(u)
      BY <2>1, <3>1 DEF Fresh, Failing
    <3>3. QED BY <1>t, <1>d, <1>s, <1>g, <2>1, <3>1, <3>2
  <2>5. QED BY <2>2, <2>3, <2>4
<1>8. QED
  BY <1>1, <1>2, <1>3, <1>4, <1>5, <1>6, <1>7, Kinds DEF Kind

\* An event goes out once, and once more for each lease that ran out under a
\* dispatcher and each accepted publish that was reported as failed.
THEOREM DuplicatesAccounted == Spec => []DuplicatesAccountedFor
<1>1. Init => LeaseInv /\ DuplicateInv
  <2> SUFFICES ASSUME Init PROVE LeaseInv /\ DuplicateInv
    OBVIOUS
  <2>1. LeaseInv
    BY DEF Init, LeaseInv, Holding
  <2>2. \A o \in Outbox : Sending(o) = {}
    BY DEF Init, Sending
  <2>3. \A o \in Outbox : sent[o] = 0 /\ expiries[o] = 0 /\ lost[o] = 0 /\ Fresh(o) \in {0, 1}
    BY DEF Init, Fresh
  <2>4. DuplicateInv
    BY <2>2, <2>3, FS_EmptySet DEF DuplicateInv
  <2>5. QED BY <2>1, <2>4
<1>2. TypeOK /\ LeaseInv /\ DuplicateInv /\ [Next]_vars => (LeaseInv /\ DuplicateInv)'
  BY LeaseNext, DuplicateNext
<1>3. TypeOK /\ DuplicateInv => DuplicatesAccountedFor
  <2> SUFFICES ASSUME TypeOK, DuplicateInv, NEW o \in Outbox
               PROVE  sent[o] <= 1 + expiries[o] + lost[o]
    BY DEF DuplicatesAccountedFor
  <2>1. sent[o] \in Nat /\ expiries[o] \in Nat /\ lost[o] \in Nat /\ Fresh(o) \in {0, 1}
    BY DEF TypeOK, Fresh
  <2>2. Cardinality(Sending(o)) \in Nat
    BY SendingFinite
  <2>3. sent[o] + Cardinality(Sending(o)) <= expiries[o] + lost[o] + Fresh(o)
    BY DEF DuplicateInv
  <2>4. QED BY <2>1, <2>2, <2>3
<1>4. QED BY <1>1, <1>2, <1>3, TypeCorrect, PTL DEF Spec
=============================================================================

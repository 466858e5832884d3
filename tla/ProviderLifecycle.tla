-------------------------- MODULE ProviderLifecycle --------------------------
(***************************************************************************)
(* Pausing, auto-pausing, resuming and recovering one Gmail provider       *)
(* (EmailProviderLifecycleService.ts, configureGmailProvider.ts and the    *)
(* watch registration of GmailAdapter.ts).                                 *)
(*                                                                         *)
(* Message m of the mailbox is the m-th to arrive and historyIds count     *)
(* messages.  Every operation is a sequence of database statements and     *)
(* Gmail calls, and several run at a time: failing jobs, an administrator  *)
(* who clicks twice, the OAuth callback, the renewal job.  What a          *)
(* notification does is one step here (InboundIngress has its detail).     *)
(***************************************************************************)
EXTENDS Integers

CONSTANTS
  N,            \* bound: messages that arrive
  Op,           \* concurrent operations
  Threshold,    \* INBOUND_AUTH_FAILURE_PAUSE_THRESHOLD
  MaxBegun,     \* bound: operations begun
  MaxPauses,    \* bound: pauses, manual and automatic
  MaxMishaps    \* bound: errors, rejections and crashes

ASSUME LimitsAssumption == {N, Threshold} \subseteq Nat \ {0}
ASSUME BoundsAssumption == {MaxBegun, MaxPauses, MaxMishaps} \subseteq Nat

Message == 1..N

\* A history_id that is NULL; and the messages after a up to b.
NoCursor      == -1
Between(a, b) == {m \in Message : a < m /\ m <= b}

VARIABLES
  arrived,    \* messages 1..arrived are in the mailbox
  pause,      \* inbound_paused_at and inbound_pause_reason
  pausedAt,   \* inbound_paused_at, as the last message that came before it
  failures,   \* inbound_auth_failure_count
  cursor,     \* history_id, NoCursor when it is NULL
  armed,      \* watch_expiration is not NULL
  watch,      \* Gmail has a watch for the mailbox
  handed,     \* messages with a durable ingress row
  at,         \* the operations: where each is, and its locals
  pauses,     \* pauses so far
  told,       \* observer: administrators notified, per pause
  silent,     \* observer: pauses whose announcement was lost on its way
  skipped,    \* observer: messages a manual resume, a renewal, the fallback query
              \* or a listing without the cursor of the pause passes over
  abandoned,  \* observer: a recovery ended between its watch and its hand-off
  strayStop,  \* observer: a teardown stopped a watch its columns still show
  begun, mishaps \* counters for the bounds

provider  == <<pause, pausedAt, failures>>
gmail     == <<cursor, armed, watch>>
observers == <<pauses, told, silent, skipped, abandoned, strayStop>>
vars == <<arrived, pause, pausedAt, failures, cursor, armed, watch, handed, at,
          pauses, told, silent, skipped, abandoned, strayStop, begun, mishaps>>
bounds == <<begun, mishaps>>

Pauses == {"none", "manual", "auth_failure"}

\* What an operation is: a pause with its teardown, resumeProvider on a manual
\* pause, a recovery from resumeProvider, the reconnect flow of
\* configureGmailProvider, the same function without an auth pause, or a recovery
\* whose cursor Gmail has rejected.
Kinds      == {"pause", "autoPause", "resume", "recover", "reconnect", "renew", "relist"}
Recoveries == {"recover", "reconnect", "relist"}
Locations  == {"idle", "stop", "clearWatch", "notify", "lift", "gate", "snapshot",
               "validate", "register", "store", "list", "handOff", "clearPause"}

OpState == [pc : Locations, via : Kinds, pause : Nat, since : 0..N,
            saved : NoCursor..N, wid : 0..N, todo : SUBSET Message]
Idle == [pc |-> "idle", via |-> "pause", pause |-> 0, since |-> 0, saved |-> 0,
         wid |-> 0, todo |-> {}]

Init ==
  /\ arrived = 0 /\ pause = "none" /\ pausedAt = 0 /\ failures = 0
  /\ cursor = 0 /\ armed = TRUE /\ watch = TRUE /\ handed = {}
  /\ at = [o \in Op |-> Idle]
  /\ pauses = 0 /\ told = [n \in 1..MaxPauses |-> 0] /\ silent = {}
  /\ skipped = {} /\ abandoned = FALSE /\ strayStop = FALSE
  /\ begun = 0 /\ mishaps = 0

At(o, l)     == at[o].pc = l
Paused       == pause # "none"
Become(o, s) == at' = [at EXCEPT ![o] = s]
Goto(o, l)   == Become(o, IF l = "idle" THEN Idle ELSE [at[o] EXCEPT !.pc = l])

\* A recovery that has asked for a watch and not yet handed its interval off.
Exposed(o) == /\ at[o].via \in Recoveries
              /\ \/ at[o].pc \in {"store", "list", "handOff"}
                 \/ at[o].via = "reconnect" /\ At(o, "gate")
                 \/ at[o].via = "relist" /\ At(o, "register")

\* An operation begins where none is in flight.
Begin(o) == /\ At(o, "idle")
            /\ begun < MaxBegun
            /\ begun' = begun + 1
            /\ UNCHANGED mishaps

\* A step in flight that goes wrong, or does not.
Mishap == mishaps < MaxMishaps /\ mishaps' = mishaps + 1 /\ UNCHANGED begun
Smooth == UNCHANGED bounds

\* The operation ends without having done what is left of it.
GiveUp(o) ==
  /\ Goto(o, "idle")
  /\ abandoned' = (abandoned \/ Exposed(o))

-----------------------------------------------------------------------------
(* The mailbox.                                                            *)

Arrive ==
  /\ arrived < N
  /\ arrived' = arrived + 1
  /\ UNCHANGED <<provider, gmail, handed, at, observers, bounds>>

\* A notification: the webhook drops it while the provider is paused; else the
\* history since the cursor is staged and the cursor raised.  Without a cursor the
\* listing starts one before the historyId the notification carries.
Notification ==
  LET from == IF cursor = NoCursor THEN arrived - 1 ELSE cursor IN
  /\ watch /\ ~Paused
  /\ Between(from, arrived) # {}
  /\ handed' = handed \cup Between(from, arrived)
  /\ skipped' = skipped \cup (Between(cursor, from) \ handed)
  /\ cursor' = arrived
  /\ UNCHANGED <<arrived, provider, armed, watch, at, pauses, told, silent, abandoned,
                 strayStop, bounds>>

\* resetGoogleProvidersToDisconnected takes the cursor and the expiration from the
\* columns; the watch at Gmail and the pause stay.
ResetGoogleProviders ==
  /\ begun < MaxBegun
  /\ begun' = begun + 1
  /\ cursor' = NoCursor /\ armed' = FALSE
  /\ UNCHANGED <<arrived, provider, watch, handed, at, observers, mishaps>>

\* recordSourceAccessSuccess, paused or not.
RecordSourceAccessSuccess ==
  /\ failures > 0
  /\ failures' = 0
  /\ UNCHANGED <<arrived, pause, pausedAt, gmail, handed, at, observers, bounds>>

-----------------------------------------------------------------------------
(* Pausing: pauseProvider, recordUnrecoverableAuthFailure and              *)
(* teardownProviderSubscriptions.                                          *)

StartPause(o, reason, kind) ==
  /\ pauses < MaxPauses
  /\ pauses' = pauses + 1
  /\ pause' = reason /\ pausedAt' = arrived
  /\ Become(o, [Idle EXCEPT !.pc = "stop", !.via = kind, !.pause = pauses + 1])
  /\ UNCHANGED <<arrived, gmail, handed, told, silent, skipped, abandoned, strayStop>>

PauseProvider(o) ==
  /\ Begin(o)
  /\ ~Paused
  /\ StartPause(o, "manual", "pause")
  /\ UNCHANGED failures

\* Fault: failures count on a paused provider, and each is the one that pauses.
AuthFailureUnlocked(o) ==
  /\ Begin(o)
  /\ failures' = failures + 1
  /\ \/ /\ failures + 1 < Threshold
        /\ UNCHANGED <<arrived, pause, pausedAt, gmail, handed, at, observers>>
     \/ /\ failures + 1 >= Threshold /\ pause = "none"
        /\ StartPause(o, "auth_failure", "autoPause")
     \/ /\ failures + 1 >= Threshold /\ pause = "auth_failure"
        /\ Become(o, [Idle EXCEPT !.pc = "stop", !.via = "autoPause", !.pause = pauses])
        /\ UNCHANGED <<arrived, pause, pausedAt, gmail, handed, observers>>

\* recordUnrecoverableAuthFailure: count and pause in one row-locked
\* transaction; on a paused provider it does nothing.
AuthFailure(o) ==
  /\ Begin(o)
  /\ ~Paused
  /\ failures' = failures + 1
  /\ \/ /\ failures + 1 < Threshold
        /\ UNCHANGED <<arrived, pause, pausedAt, gmail, handed, at, observers>>
     \/ /\ failures + 1 >= Threshold
        /\ StartPause(o, "auth_failure", "autoPause")

\* The teardown is over, done or not: pauseProvider returns, an auto-pause goes on
\* to its notification.
TornDown(o) == Goto(o, IF at[o].via = "autoPause" THEN "notify" ELSE "idle")

\* stopWatch ends whatever watch there is by now; its errors are contained.  The
\* provider may not load, and then nothing is torn down.  A registration that has
\* not stored its watch yet will show it as armed.
StopWatch(o) ==
  /\ At(o, "stop")
  /\ \/ /\ watch' = FALSE
        /\ strayStop' = (strayStop \/ \E p \in Op : At(p, "store"))
        /\ Smooth /\ Goto(o, "clearWatch")
     \/ Mishap /\ Goto(o, "clearWatch") /\ UNCHANGED <<watch, strayStop>>
     \/ Mishap /\ TornDown(o) /\ UNCHANGED <<watch, strayStop>>
  /\ UNCHANGED <<arrived, provider, cursor, armed, handed, pauses, told, silent, skipped,
                 abandoned>>

\* Fault: the columns are left as they were.
KeepWatchColumns(o) ==
  /\ At(o, "clearWatch")
  /\ TornDown(o)
  /\ UNCHANGED <<arrived, provider, gmail, handed, observers, bounds>>

\* The finally branch.
ClearWatch(o) ==
  /\ At(o, "clearWatch")
  /\ armed' = FALSE
  /\ TornDown(o)
  /\ UNCHANGED <<arrived, provider, cursor, watch, handed, observers, bounds>>

\* That UPDATE fails: pauseProvider rejects, the auto-pause logs and notifies.
ClearWatchFailsMute(o) ==
  /\ At(o, "clearWatch")
  /\ Mishap
  /\ strayStop' = TRUE
  /\ Goto(o, "idle")
  /\ UNCHANGED <<arrived, provider, gmail, handed, pauses, told, silent, skipped,
                 abandoned>>

ClearWatchFails(o) ==
  /\ At(o, "clearWatch")
  /\ Mishap
  /\ strayStop' = TRUE
  /\ TornDown(o)
  /\ UNCHANGED <<arrived, provider, gmail, handed, pauses, told, silent, skipped,
                 abandoned>>

\* dispatchInboundAuthPauseNotification, best-effort: a process without a notifier,
\* or one whose delivery fails, goes on as if it had told.
Notify(o) ==
  /\ At(o, "notify")
  /\ \/ Smooth /\ told' = [told EXCEPT ![at[o].pause] = @ + 1] /\ UNCHANGED silent
     \/ Mishap /\ silent' = silent \cup {at[o].pause} /\ UNCHANGED told
  /\ Goto(o, "idle")
  /\ UNCHANGED <<arrived, provider, gmail, handed, pauses, skipped, abandoned, strayStop>>

-----------------------------------------------------------------------------
(* Resuming, recovering and re-registering the watch.                      *)

\* resumeProvider reads the pause: an auth pause goes to the recovery.
Resume(o) ==
  /\ Begin(o)
  /\ Become(o, IF pause = "auth_failure" THEN [Idle EXCEPT !.pc = "gate", !.via = "recover"]
                                         ELSE [Idle EXCEPT !.pc = "lift", !.via = "resume"])
  /\ UNCHANGED <<arrived, provider, gmail, handed, observers>>

\* Its conditional UPDATE lifts whatever pause there is by now.
Lift(o) ==
  /\ At(o, "lift")
  /\ \/ ~Paused /\ Goto(o, "idle") /\ UNCHANGED provider
     \/ /\ Paused
        /\ pause' = "none" /\ failures' = 0
        /\ Goto(o, "register")
        /\ UNCHANGED pausedAt
  /\ UNCHANGED <<arrived, gmail, handed, observers, bounds>>

\* configureGmailProvider reads the pause and the cursor together; a reconnect,
\* or the renewal job's call.
ConfigureGmailProvider(o) ==
  /\ Begin(o)
  /\ Become(o, [Idle EXCEPT !.pc = "register", !.saved = cursor,
                            !.via = IF pause = "auth_failure" THEN "reconnect" ELSE "renew"])
  /\ UNCHANGED <<arrived, provider, gmail, handed, observers>>

\* recoverAuthPausedProvider begins: only an auth pause is recovered from.  A
\* reconnect comes with its cursor, its credentials and its watch; if it found no
\* cursor, the column is read again, and now has what the watch has written.
Gate(o) ==
  LET from == IF at[o].saved = NoCursor THEN cursor ELSE at[o].saved IN
  /\ At(o, "gate")
  /\ \/ pause # "auth_failure" /\ GiveUp(o) /\ UNCHANGED skipped
     \/ /\ pause = "auth_failure" /\ at[o].via = "reconnect"
        /\ Become(o, [at[o] EXCEPT !.since = pausedAt, !.saved = from, !.pc = "list"])
        /\ skipped' = skipped \cup (Between(at[o].saved, from) \ handed)
        /\ UNCHANGED abandoned
     \/ /\ pause = "auth_failure" /\ at[o].via # "reconnect"
        /\ Become(o, [at[o] EXCEPT !.since = pausedAt, !.pc = "snapshot"])
        /\ UNCHANGED <<skipped, abandoned>>
  /\ UNCHANGED <<arrived, provider, gmail, handed, pauses, told, silent, strayStop, bounds>>

Snapshot(o) ==
  /\ At(o, "snapshot")
  /\ Become(o, [at[o] EXCEPT !.saved = cursor, !.pc = "validate"])
  /\ UNCHANGED <<arrived, provider, gmail, handed, observers, bounds>>

Validate(o) ==
  /\ At(o, "validate")
  /\ \/ Smooth /\ Goto(o, "register")
     \/ Mishap /\ Goto(o, "idle")
  /\ UNCHANGED <<arrived, provider, gmail, handed, observers>>

\* users.watch: Gmail answers with the mailbox's current historyId, or rejects; a
\* relisting does without a new watch.
Register(o) ==
  /\ At(o, "register")
  /\ \/ Smooth /\ watch' = TRUE /\ Become(o, [at[o] EXCEPT !.wid = arrived, !.pc = "store"])
     \/ /\ Mishap /\ UNCHANGED watch
        /\ Goto(o, IF at[o].via = "relist" THEN "list" ELSE "idle")
  /\ UNCHANGED <<arrived, provider, cursor, armed, handed, observers>>

\* The watch's historyId replaces the cursor, whatever it is; an error of this
\* UPDATE is logged.  Only a recovery goes on to list what that passes over.
Store(o) ==
  /\ At(o, "store")
  /\ \/ Smooth /\ cursor' = at[o].wid /\ armed' = TRUE
     \/ Mishap /\ UNCHANGED <<cursor, armed>>
  /\ \/ /\ at[o].via \in Recoveries
        /\ Become(o, [at[o] EXCEPT !.wid = 0,
                                   !.pc = IF at[o].via = "reconnect" THEN "gate" ELSE "list"])
        /\ UNCHANGED skipped
     \/ /\ at[o].via \in {"resume", "renew"}
        /\ skipped' = skipped \cup (Between(cursor, cursor') \ handed)
        /\ Goto(o, "idle")
  /\ UNCHANGED <<arrived, provider, watch, handed, pauses, told, silent, abandoned,
                 strayStop>>

\* The messages after h are listed.
From(o, h) == Become(o, [Idle EXCEPT !.pc = "handOff", !.via = at[o].via,
                                     !.todo = Between(h, arrived)])

\* Fault: the listing starts from the cursor as it is now.
ListFromTheNewCursor(o) ==
  /\ At(o, "list")
  /\ From(o, cursor)
  /\ UNCHANGED <<arrived, provider, gmail, handed, observers, bounds>>

\* reconcileGooglePausedInterval lists from the saved cursor.  Gmail may have
\* forgotten it, and then listMessagesSince first asks for a new watch
\* (attemptWatchRecovery).  Without a cursor Gmail knows, the query is bounded by
\* the time of the pause.
List(o) ==
  LET byTime == at[o].via = "relist" \/ at[o].saved = NoCursor IN
  /\ At(o, "list")
  /\ \/ ~byTime /\ Smooth /\ From(o, at[o].saved) /\ UNCHANGED <<skipped, abandoned>>
     \/ /\ ~byTime /\ Mishap
        /\ Become(o, [at[o] EXCEPT !.via = "relist", !.pc = "register"])
        /\ UNCHANGED <<skipped, abandoned>>
     \/ /\ byTime /\ Smooth /\ From(o, at[o].since)
        /\ skipped' = skipped \cup (Between(at[o].saved, at[o].since) \ handed)
        /\ UNCHANGED abandoned
     \/ Mishap /\ GiveUp(o) /\ UNCHANGED skipped
  /\ UNCHANGED <<arrived, provider, gmail, handed, pauses, told, silent, strayStop>>

\* persistIngressPointer, one message at a time; an error ends the recovery.
HandOff(o) ==
  /\ At(o, "handOff")
  /\ \/ /\ at[o].todo = {} /\ Smooth
        /\ Goto(o, "clearPause")
        /\ UNCHANGED <<handed, abandoned>>
     \/ /\ at[o].todo # {} /\ Smooth
        /\ \E m \in at[o].todo :
             /\ \A k \in at[o].todo : m <= k
             /\ handed' = handed \cup {m}
             /\ Become(o, [at[o] EXCEPT !.todo = at[o].todo \ {m}])
        /\ UNCHANGED abandoned
     \/ at[o].todo # {} /\ Mishap /\ GiveUp(o) /\ UNCHANGED handed
  /\ UNCHANGED <<arrived, provider, gmail, pauses, told, silent, skipped, strayStop>>

\* clearAuthPause asks nothing of the row: it clears any pause there is by now.
ClearPause(o) ==
  /\ At(o, "clearPause")
  /\ pause' = "none" /\ failures' = 0
  /\ Goto(o, "idle")
  /\ UNCHANGED <<arrived, pausedAt, gmail, handed, observers, bounds>>

\* The process of an operation dies; what it has written stays.
Crash(o) ==
  /\ ~At(o, "idle")
  /\ Mishap
  /\ silent' = silent \cup {n \in {at[o].pause} : at[o].via = "autoPause"}
  /\ strayStop' = (strayStop \/ At(o, "clearWatch"))
  /\ GiveUp(o)
  /\ UNCHANGED <<arrived, provider, gmail, handed, pauses, told, skipped>>

-----------------------------------------------------------------------------
\* What an operation in flight does next.
Step(o) ==
  \/ StopWatch(o) \/ ClearWatch(o) \/ ClearWatchFails(o) \/ Notify(o)
  \/ Lift(o) \/ Gate(o) \/ Snapshot(o) \/ Validate(o) \/ Register(o) \/ Store(o)
  \/ List(o) \/ HandOff(o) \/ ClearPause(o)

Start(o) ==
  \/ PauseProvider(o) \/ AuthFailure(o) \/ Resume(o) \/ ConfigureGmailProvider(o)

Next ==
  \/ Arrive \/ Notification \/ ResetGoogleProviders \/ RecordSourceAccessSuccess
  \/ \E o \in Op : Start(o) \/ Step(o) \/ Crash(o)

Spec     == Init /\ [][Next]_vars
FairSpec == Spec /\ \A o \in Op : WF_vars(Step(o))

-----------------------------------------------------------------------------
\* State of the provider, its Gmail side and the operations.
TypeOK ==
  /\ arrived \in 0..N /\ pause \in Pauses /\ pausedAt \in 0..arrived
  /\ failures \in 0..Threshold
  /\ cursor \in NoCursor..arrived /\ armed \in BOOLEAN /\ watch \in BOOLEAN
  /\ handed \subseteq 1..arrived
  /\ at \in [Op -> OpState]
  /\ pauses \in 0..MaxPauses /\ told \in [1..MaxPauses -> Nat]
  /\ silent \subseteq Nat /\ skipped \subseteq 1..arrived
  /\ abandoned \in BOOLEAN /\ strayStop \in BOOLEAN
  /\ begun \in 0..MaxBegun /\ mishaps \in 0..MaxMishaps

\* Administrators hear of a pause at most once, however many jobs fail with the
\* same dead credentials at the same time ("exactly once per pause").
ToldOncePerPause == \A n \in 1..MaxPauses : told[n] <= 1

\* Every message the cursor has passed has its durable row, or is one a manual
\* resume, a renewal, the fallback query or a listing after the cursor was reset
\* passes over, once no recovery is between its watch and its hand-off and none has
\* ended there: two recoveries, a pause and a resume may overlap in any way.
GapFree ==
  ~abandoned /\ (\A o \in Op : ~Exposed(o)) => 1..cursor \subseteq handed \cup skipped

\* A provider that is not paused and whose watch is gone shows no expiration, so
\* the renewal job selects it: unless a teardown is in flight, or one stopped a
\* watch whose columns were written after or never cleared.
DeadWatchIsNoticed ==
  ~Paused /\ ~watch /\ armed =>
    strayStop \/ \E o \in Op : At(o, "clearWatch")

\* An automatic pause is announced unless that pause's own announcement was lost,
\* with its process or in its delivery: whatever the teardown before it meets, and
\* whatever other operations do, is no excuse.
PauseAnnounced ==
  \A n \in 1..MaxPauses :
    (\E o \in Op : at[o].via = "autoPause" /\ at[o].pause = n)
      ~> told[n] > 0 \/ n \in silent

\* What the recovery says of itself: "a recovery may never report success over a
\* known gap".  Its snapshot is the cursor of its own start, which is past the
\* paused interval if an earlier recovery registered a watch and then failed.
RecoveryLeavesNoGap ==
  ~Paused /\ (\A o \in Op : At(o, "idle")) => 1..cursor \subseteq handed \cup skipped
=============================================================================

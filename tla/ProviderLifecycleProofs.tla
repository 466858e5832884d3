----------------------- MODULE ProviderLifecycleProofs -----------------------
(***************************************************************************)
(* Proofs about ProviderLifecycle, for any operations, threshold and       *)
(* bounds.                                                                 *)
(***************************************************************************)
EXTENDS ProviderLifecycle, TLAPS

-----------------------------------------------------------------------------
(* Types.  What an operation remembers of the mailbox is not ahead of it,  *)
(* and a provider at the threshold is paused.                              *)

\* The locals of an operation.
Sound(s, n) ==
  /\ s \in OpState
  /\ s.since <= n /\ s.saved <= n /\ s.wid <= n
  /\ s.todo \subseteq 1..n

TypeInv ==
  /\ TypeOK
  /\ failures = Threshold => Paused
  /\ \A o \in Op : Sound(at[o], arrived)

LEMMA Limits ==
  /\ N \in Nat \ {0} /\ Threshold \in Nat \ {0}
  /\ MaxBegun \in Nat /\ MaxPauses \in Nat /\ MaxMishaps \in Nat
BY LimitsAssumption, BoundsAssumption

LEMMA Places ==
  /\ {"idle", "stop", "clearWatch", "notify", "lift", "gate", "snapshot", "validate",
      "register", "store", "list", "handOff", "clearPause"} = Locations
  /\ {"pause", "autoPause", "resume", "recover", "reconnect", "renew", "relist"} = Kinds
BY DEF Locations, Kinds

LEMMA Interval ==
  ASSUME NEW n \in 0..N, NEW a, NEW b \in NoCursor..n
  PROVE  Between(a, b) \in SUBSET (1..n)
BY Limits DEF Between, Message, NoCursor

\* The locals an operation begins with, and those it goes on with.
LEMMA SoundBegun ==
  ASSUME NEW n \in 0..N, NEW l \in Locations, NEW v \in Kinds, NEW k \in Nat,
         NEW c \in NoCursor..n, NEW T \in SUBSET (1..n)
  PROVE  /\ Sound(Idle, n)
         /\ Sound([Idle EXCEPT !.pc = l, !.via = v], n)
         /\ Sound([Idle EXCEPT !.pc = l, !.via = v, !.pause = k], n)
         /\ Sound([Idle EXCEPT !.pc = l, !.saved = c, !.via = v], n)
         /\ Sound([Idle EXCEPT !.pc = l, !.via = v, !.todo = T], n)
<1>1. /\ 1..n \subseteq Message /\ n \in Nat /\ 0 \in 0..N /\ 0 <= n
      /\ c \in NoCursor..N /\ 0 \in NoCursor..N /\ c <= n
  BY Limits DEF Message, NoCursor
<1>2. "idle" \in Locations /\ "pause" \in Kinds
  BY Places
<1>3. Idle \in OpState
  BY <1>1, <1>2 DEF Idle, OpState
<1>4. Sound(Idle, n)
  BY <1>1, <1>3 DEF Sound, Idle
<1>5. Sound([Idle EXCEPT !.pc = l, !.via = v], n)
  BY <1>1 DEF Sound, Idle, OpState
<1>6. Sound([Idle EXCEPT !.pc = l, !.via = v, !.pause = k], n)
  BY <1>1 DEF Sound, Idle, OpState
<1>7. Sound([Idle EXCEPT !.pc = l, !.saved = c, !.via = v], n)
  BY <1>1 DEF Sound, Idle, OpState
<1>8. Sound([Idle EXCEPT !.pc = l, !.via = v, !.todo = T], n)
  BY <1>1 DEF Sound, Idle, OpState
<1>9. QED BY <1>4, <1>5, <1>6, <1>7, <1>8

LEMMA SoundGoesOn ==
  ASSUME NEW n \in 0..N, NEW s, Sound(s, n), NEW l \in Locations,
         NEW c \in 0..n, NEW h \in NoCursor..n, NEW v \in Kinds, NEW T \in SUBSET (1..n)
  PROVE  /\ Sound([s EXCEPT !.pc = l], n)
         /\ Sound([s EXCEPT !.via = v, !.pc = l], n)
         /\ Sound([s EXCEPT !.since = c, !.pc = l], n)
         /\ Sound([s EXCEPT !.since = c, !.saved = h, !.pc = l], n)
         /\ Sound([s EXCEPT !.saved = h, !.pc = l], n)
         /\ Sound([s EXCEPT !.wid = c, !.pc = l], n)
         /\ Sound([s EXCEPT !.todo = T], n)
<1>1. /\ 1..n \subseteq Message /\ n \in Nat /\ c \in 0..N /\ c <= n
      /\ h \in NoCursor..N /\ h <= n
  BY Limits DEF Message, NoCursor
<1>2. s \in OpState /\ s.since <= n /\ s.saved <= n /\ s.wid <= n /\ s.todo \subseteq 1..n
  BY DEF Sound
<1>3. Sound([s EXCEPT !.pc = l], n)
  BY <1>2 DEF Sound, OpState
<1>4. Sound([s EXCEPT !.since = c, !.pc = l], n)
  BY <1>1, <1>2 DEF Sound, OpState
<1>5. Sound([s EXCEPT !.saved = h, !.pc = l], n)
  BY <1>1, <1>2 DEF Sound, OpState
<1>6. Sound([s EXCEPT !.wid = c, !.pc = l], n)
  BY <1>1, <1>2 DEF Sound, OpState
<1>7. Sound([s EXCEPT !.todo = T], n)
  BY <1>1, <1>2 DEF Sound, OpState
<1>8. Sound([s EXCEPT !.via = v, !.pc = l], n)
  BY <1>2 DEF Sound, OpState
<1>9. Sound([s EXCEPT !.since = c, !.saved = h, !.pc = l], n)
  BY <1>1, <1>2 DEF Sound, OpState
<1>10. QED BY <1>3, <1>4, <1>5, <1>6, <1>7, <1>8, <1>9

LEMMA SoundIdle == \A n \in 0..N : Sound(Idle, n)
<1> TAKE n \in 0..N
<1>1. 0 \in NoCursor..n /\ {} \in SUBSET (1..n)
  BY Limits DEF NoCursor
<1>2. "idle" \in Locations /\ "pause" \in Kinds /\ 0 \in Nat
  BY Places
<1>3. QED BY <1>1, <1>2, SoundBegun

LEMMA Booleans == \A a, b : (a \/ b) \in BOOLEAN
OBVIOUS

LEMMA TypeInit == Init => TypeInv
<1> SUFFICES ASSUME Init PROVE TypeInv
  OBVIOUS
<1>1. arrived \in 0..N /\ 0 \in 0..arrived /\ {} \in SUBSET (1..arrived) /\ arrived = 0
  BY Limits DEF Init
<1>2. Sound(Idle, arrived)
  BY <1>1, SoundIdle
<1>3. Idle \in OpState
  BY <1>2 DEF Sound
<1>4. TypeOK
  <2>1. at \in [Op -> OpState] /\ told \in [1..MaxPauses -> Nat]
    BY <1>3 DEF Init
  <2>2. arrived \in 0..N /\ pausedAt \in 0..arrived /\ cursor \in NoCursor..arrived
        /\ failures \in 0..Threshold /\ pauses \in 0..MaxPauses
        /\ begun \in 0..MaxBegun /\ mishaps \in 0..MaxMishaps
    BY <1>1, Limits DEF Init, NoCursor
  <2>3. handed \subseteq 1..arrived /\ skipped \subseteq 1..arrived /\ pause \in Pauses
        /\ armed \in BOOLEAN /\ watch \in BOOLEAN /\ abandoned \in BOOLEAN
        /\ strayStop \in BOOLEAN /\ silent \subseteq Nat
    BY DEF Init, Pauses
  <2>4. QED BY <2>1, <2>2, <2>3 DEF TypeOK
<1>5. QED BY <1>2, <1>4, Limits DEF Init, TypeInv, Paused

LEMMA TypeNext == TypeInv /\ [Next]_vars => TypeInv'
<1> SUFFICES ASSUME TypeInv, [Next]_vars PROVE TypeInv'
  OBVIOUS
<1> USE Limits DEF provider, gmail, observers, bounds, Smooth, Mishap, At, Paused
<1>t. /\ arrived \in 0..N /\ pause \in Pauses /\ pausedAt \in 0..arrived
      /\ failures \in 0..Threshold
      /\ cursor \in NoCursor..arrived /\ armed \in BOOLEAN /\ watch \in BOOLEAN
      /\ handed \subseteq 1..arrived
      /\ at \in [Op -> OpState]
      /\ pauses \in 0..MaxPauses /\ told \in [1..MaxPauses -> Nat]
      /\ skipped \subseteq 1..arrived
      /\ abandoned \in BOOLEAN /\ strayStop \in BOOLEAN
      /\ silent \subseteq Nat /\ begun \in 0..MaxBegun /\ mishaps \in 0..MaxMishaps
      /\ failures = Threshold => Paused
      /\ \A o \in Op : Sound(at[o], arrived)
      /\ \A o \in Op : at[o] \in OpState
      /\ arrived \in Nat
  BY DEF TypeInv, TypeOK
\* An operation goes on, in a mailbox that stays as it is.
<1>o. ASSUME NEW o \in Op, NEW x, Sound(x, arrived), at' = [at EXCEPT ![o] = x],
             UNCHANGED arrived,
             pause' \in Pauses, pausedAt' \in 0..arrived, failures' \in 0..Threshold,
             failures' = Threshold => pause' # "none",
             cursor' \in NoCursor..arrived, armed' \in BOOLEAN, watch' \in BOOLEAN,
             handed' \subseteq 1..arrived, skipped' \subseteq 1..arrived,
             pauses' \in 0..MaxPauses, told' \in [1..MaxPauses -> Nat],
             abandoned' \in BOOLEAN, strayStop' \in BOOLEAN, silent' \subseteq Nat,
             begun' \in 0..MaxBegun, mishaps' \in 0..MaxMishaps
      PROVE  TypeInv'
  <2>1. at' \in [Op -> OpState] /\ \A p \in Op : Sound(at'[p], arrived)
    BY <1>o, <1>t DEF Sound
  <2>2. arrived' \in 0..N /\ pausedAt' \in 0..arrived' /\ cursor' \in NoCursor..arrived'
        /\ handed' \subseteq 1..arrived' /\ skipped' \subseteq 1..arrived'
    BY <1>o, <1>t
  <2>3. TypeOK'
    BY <1>o, <2>1, <2>2 DEF TypeOK
  <2>4. QED BY <1>o, <2>1, <2>3 DEF TypeInv
<1>w. /\ 0 \in 0..arrived /\ 0 \in NoCursor..arrived /\ {} \in SUBSET (1..arrived)
      /\ pausedAt \in 0..arrived /\ cursor \in NoCursor..arrived
      /\ "pause" \in Kinds /\ "idle" \in Locations
  BY <1>t, Places DEF NoCursor
<1>i. Sound(Idle, arrived)
  BY <1>t, SoundIdle
<1>g. ASSUME NEW o \in Op, NEW l \in Locations
      PROVE  /\ Sound([at[o] EXCEPT !.pc = l], arrived)
             /\ Sound(Idle, arrived)
  <2>1. QED BY <1>i, <1>t, <1>w, SoundGoesOn
<1>e. ASSUME NEW o \in Op, Begin(o) PROVE begun' \in 0..MaxBegun /\ mishaps' \in 0..MaxMishaps
  BY <1>e, <1>t DEF Begin
<1>m. ASSUME Smooth \/ Mishap PROVE begun' \in 0..MaxBegun /\ mishaps' \in 0..MaxMishaps
  BY <1>m, <1>t
<1>1. CASE Arrive
  <2>1. \A o \in Op : Sound(at[o], arrived + 1)
    BY <1>t DEF Sound, OpState, NoCursor
  <2>2. TypeOK'
    BY <1>1, <1>t DEF Arrive, TypeOK, NoCursor
  <2>3. QED BY <1>1, <1>t, <2>1, <2>2 DEF Arrive, TypeInv
<1>2. CASE Notification \/ ResetGoogleProviders
  <2>1. /\ UNCHANGED <<arrived, provider, watch, at, pauses, told, silent, abandoned, strayStop>>
        /\ armed' \in BOOLEAN /\ begun' \in 0..MaxBegun /\ mishaps' \in 0..MaxMishaps
    <3>1. CASE Notification
      BY <1>t, <3>1 DEF Notification
    <3>2. CASE ResetGoogleProviders
      <4>1. begun \in Nat /\ begun < MaxBegun /\ begun' = begun + 1 /\ armed' = FALSE
            /\ UNCHANGED <<arrived, pause, pausedAt, failures, watch, at, pauses, told, silent,
                           abandoned, strayStop, mishaps>>
        BY <1>t, <3>2 DEF ResetGoogleProviders
      <4>2. begun' \in 0..MaxBegun
        BY <4>1
      <4>3. QED BY <1>t, <4>1, <4>2
    <3>3. QED BY <1>2, <3>1, <3>2
  <2>2. cursor' \in NoCursor..arrived /\ handed' \subseteq 1..arrived /\ skipped' \subseteq 1..arrived
    <3>1. \A a : Between(a, arrived) \subseteq 1..arrived /\ Between(a, arrived - 1) \subseteq 1..arrived
          /\ Between(a, cursor) \subseteq 1..arrived
      BY <1>t, Interval DEF NoCursor
    <3>2. arrived \in NoCursor..arrived /\ NoCursor \in NoCursor..arrived
      BY <1>t DEF NoCursor
    <3>3. QED BY <1>2, <1>t, <3>1, <3>2 DEF Notification, ResetGoogleProviders
  <2>3. TypeOK'
    BY <1>t, <2>1, <2>2 DEF TypeOK
  <2>4. QED BY <1>t, <2>1, <2>3 DEF TypeInv
<1>3. CASE RecordSourceAccessSuccess
  <2>1. failures' = 0 /\ UNCHANGED <<arrived, pause, pausedAt, gmail, handed, at, observers, bounds>>
    BY <1>3 DEF RecordSourceAccessSuccess
  <2>2. TypeOK'
    BY <1>t, <2>1 DEF TypeOK
  <2>3. QED BY <1>t, <2>1, <2>2 DEF TypeInv
<1>4. ASSUME NEW o \in Op, NEW kind \in {"pause", "autoPause"},
             NEW reason \in {"manual", "auth_failure"}, Begin(o), StartPause(o, reason, kind),
             failures' \in 0..Threshold
      PROVE  TypeInv'
  <2> DEFINE x == [Idle EXCEPT !.pc = "stop", !.via = kind, !.pause = pauses + 1]
  <2>1. Sound(x, arrived)
    <3>1. "stop" \in Locations /\ kind \in Kinds /\ pauses + 1 \in Nat
          /\ 0 \in NoCursor..arrived /\ {} \in SUBSET (1..arrived)
      BY <1>t, Places DEF NoCursor
    <3>2. QED BY <1>t, <3>1, SoundBegun
  <2>2. at' = [at EXCEPT ![o] = x] /\ pauses' \in 0..MaxPauses /\ pause' = reason
        /\ pausedAt' = arrived
    BY <1>4, <1>t DEF StartPause, Become
  <2>3. UNCHANGED <<arrived, cursor, armed, watch, handed, told, silent, skipped, abandoned,
                    strayStop>>
    BY <1>4 DEF StartPause
  <2> HIDE DEF x
  <2>4. pause' \in Pauses /\ pause' # "none" /\ pausedAt' \in 0..arrived
    BY <1>t, <2>2 DEF Pauses
  <2>5. begun' \in 0..MaxBegun /\ mishaps' \in 0..MaxMishaps
    BY <1>4, <1>e
  <2>6. QED BY <1>4, <1>o, <1>t, <2>1, <2>2, <2>3, <2>4, <2>5
<1>5. ASSUME NEW o \in Op, PauseProvider(o) PROVE TypeInv'
  BY <1>5, <1>4, <1>t DEF PauseProvider
<1>6. ASSUME NEW o \in Op, AuthFailure(o) PROVE TypeInv'
  <2>1. failures' \in 0..Threshold /\ Begin(o)
    BY <1>6, <1>t DEF AuthFailure
  <2>2. CASE failures + 1 < Threshold
    <3>1. UNCHANGED <<arrived, pause, pausedAt, gmail, handed, at, observers>> /\ failures' = failures + 1
      BY <1>6, <1>t, <2>2 DEF AuthFailure
    <3>2. begun' \in 0..MaxBegun /\ mishaps' \in 0..MaxMishaps
      BY <1>e, <2>1
    <3>3. TypeOK'
      BY <1>t, <2>1, <3>1, <3>2 DEF TypeOK
    <3>4. QED BY <1>t, <2>2, <3>1, <3>3 DEF TypeInv
  <2>3. CASE failures + 1 >= Threshold
    BY <1>6, <1>4, <1>t, <2>1, <2>3 DEF AuthFailure
  <2>4. QED BY <1>t, <2>2, <2>3
<1>7. ASSUME NEW o \in Op, Resume(o) \/ ConfigureGmailProvider(o) PROVE TypeInv'
  <2>1. PICK x : Sound(x, arrived) /\ at' = [at EXCEPT ![o] = x]
    <3>1. CASE Resume(o)
      <4>1. \E x \in {[Idle EXCEPT !.pc = "gate", !.via = "recover"],
                      [Idle EXCEPT !.pc = "lift", !.via = "resume"]} : at' = [at EXCEPT ![o] = x]
        BY <3>1 DEF Resume, Become
      <4>2. 0 \in NoCursor..arrived /\ {} \in SUBSET (1..arrived) /\ 0 \in Nat
        BY <1>t DEF NoCursor
      <4>3. {"gate", "lift"} \subseteq Locations /\ {"recover", "resume"} \subseteq Kinds
        BY Places
      <4>4. /\ Sound([Idle EXCEPT !.pc = "gate", !.via = "recover"], arrived)
            /\ Sound([Idle EXCEPT !.pc = "lift", !.via = "resume"], arrived)
        BY <1>t, <4>2, <4>3, SoundBegun
      <4>5. QED BY <4>1, <4>4
    <3>2. CASE ConfigureGmailProvider(o)
      <4>1. \E v \in {"reconnect", "renew"} :
              at' = [at EXCEPT ![o] = [Idle EXCEPT !.pc = "register", !.saved = cursor, !.via = v]]
        BY <3>2 DEF ConfigureGmailProvider, Become
      <4>2. {} \in SUBSET (1..arrived) /\ 0 \in Nat
        BY <1>t
      <4>3. "register" \in Locations /\ {"reconnect", "renew"} \subseteq Kinds
        BY Places
      <4>4. \A v \in {"reconnect", "renew"} :
              Sound([Idle EXCEPT !.pc = "register", !.saved = cursor, !.via = v], arrived)
        BY <1>t, <4>2, <4>3, SoundBegun
      <4>5. QED BY <4>1, <4>4
    <3>3. QED BY <1>7, <3>1, <3>2
  <2>2. Begin(o) /\ UNCHANGED <<arrived, provider, gmail, handed, observers>>
    BY <1>7 DEF Resume, ConfigureGmailProvider
  <2>3. QED BY <1>e, <1>o, <1>t, <2>1, <2>2
<1>8. ASSUME NEW o \in Op, Step(o) PROVE TypeInv'
  <2>1. CASE StopWatch(o)
    <3>1. \E x \in {[at[o] EXCEPT !.pc = "clearWatch"], [at[o] EXCEPT !.pc = "notify"], Idle} :
            at' = [at EXCEPT ![o] = x]
      BY <2>1 DEF StopWatch, TornDown, Goto, Become
    <3>2. QED BY <1>g, <1>m, <1>o, <1>t, <2>1, <3>1, Places, Booleans DEF StopWatch
  <2>2. CASE ClearWatch(o) \/ ClearWatchFails(o)
    <3>1. \E x \in {[at[o] EXCEPT !.pc = "notify"], Idle} : at' = [at EXCEPT ![o] = x]
      BY <2>2 DEF ClearWatch, ClearWatchFails, TornDown, Goto, Become
    <3>2. QED BY <1>g, <1>m, <1>o, <1>t, <2>2, <3>1, Places DEF ClearWatch, ClearWatchFails
  <2>3. CASE Notify(o)
    <3>1. at' = [at EXCEPT ![o] = Idle]
      BY <2>3 DEF Notify, Goto, Become
    <3>2. told' \in [1..MaxPauses -> Nat]
      <4> DEFINE k == at[o].pause
      <4>1. told' = told \/ told' = [told EXCEPT ![k] = told[k] + 1]
        BY <2>3 DEF Notify
      <4> HIDE DEF k
      <4>2. CASE k \in 1..MaxPauses
        <5>1. told[k] + 1 \in Nat
          BY <1>t, <4>2
        <5>2. QED BY <1>t, <4>1, <5>1
      <4>3. CASE k \notin 1..MaxPauses
        <5>1. told' = told
          BY <1>t, <4>1, <4>3
        <5>2. QED BY <1>t, <5>1
      <4>4. QED BY <4>2, <4>3
    <3>3. silent' \subseteq Nat
      BY <1>t, <2>3 DEF Notify, OpState
    <3>4. QED BY <1>g, <1>m, <1>o, <1>t, <2>3, <3>1, <3>2, <3>3, Places DEF Notify
  <2>4. CASE Lift(o)
    <3>1. \E x \in {[at[o] EXCEPT !.pc = "register"], Idle} : at' = [at EXCEPT ![o] = x]
      BY <2>4 DEF Lift, Goto, Become
    <3>2. /\ pause' \in Pauses /\ failures' \in 0..Threshold
          /\ failures' = Threshold => pause' # "none"
      BY <1>t, <2>4 DEF Lift, Pauses
    <3>3. UNCHANGED <<arrived, pausedAt, gmail, handed, observers, bounds>>
      BY <2>4 DEF Lift
    <3>4. QED BY <1>g, <1>o, <1>t, <3>1, <3>2, <3>3, Places
  <2>5. CASE Gate(o)
    <3>1. CASE pause # "auth_failure"
      <4>1. at' = [at EXCEPT ![o] = Idle]
        BY <2>5, <3>1 DEF Gate, GiveUp, Goto, Become
      <4>2. QED BY <1>i, <1>o, <1>t, <2>5, <3>1, <4>1, Booleans DEF Gate, GiveUp
    <3>2. CASE pause = "auth_failure" /\ at[o].via # "reconnect"
      <4>1. /\ at' = [at EXCEPT ![o] = [at[o] EXCEPT !.since = pausedAt, !.pc = "snapshot"]]
            /\ UNCHANGED <<skipped, abandoned>>
        BY <2>5, <3>2 DEF Gate, Become
      <4>2. Sound([at[o] EXCEPT !.since = pausedAt, !.pc = "snapshot"], arrived)
        <5>1. "snapshot" \in Locations
          BY Places
        <5>2. QED BY <1>t, <1>w, <5>1, SoundGoesOn
      <4>3. QED BY <1>o, <1>t, <2>5, <3>2, <4>1, <4>2 DEF Gate
    <3>3. CASE pause = "auth_failure" /\ at[o].via = "reconnect"
      <4>1. PICK h \in {cursor, at[o].saved} :
              /\ at' = [at EXCEPT ![o] = [at[o] EXCEPT !.since = pausedAt, !.saved = h, !.pc = "list"]]
              /\ skipped' = skipped \cup (Between(at[o].saved, h) \ handed)
              /\ UNCHANGED abandoned
        BY <2>5, <3>3 DEF Gate, Become
      <4>2. h \in NoCursor..arrived
        BY <1>t DEF Sound, OpState, NoCursor
      <4>3. Sound([at[o] EXCEPT !.since = pausedAt, !.saved = h, !.pc = "list"], arrived)
        <5>1. "list" \in Locations
          BY Places
        <5>2. QED BY <1>t, <1>w, <4>2, <5>1, SoundGoesOn
      <4>4. skipped' \subseteq 1..arrived
        BY <1>t, <4>1, <4>2, Interval
      <4>5. QED BY <1>o, <1>t, <2>5, <3>3, <4>1, <4>3, <4>4 DEF Gate
    <3>4. QED BY <3>1, <3>2, <3>3
  <2>6. CASE Snapshot(o)
    <3>1. at' = [at EXCEPT ![o] = [at[o] EXCEPT !.saved = cursor, !.pc = "validate"]]
      BY <2>6 DEF Snapshot, Become
    <3>2. Sound([at[o] EXCEPT !.saved = cursor, !.pc = "validate"], arrived)
      <4>1. "validate" \in Locations
        BY Places
      <4>2. QED BY <1>t, <1>w, <4>1, SoundGoesOn
    <3>3. QED BY <1>o, <1>t, <2>6, <3>1, <3>2 DEF Snapshot
  <2>7. CASE Validate(o)
    <3>1. \E x \in {[at[o] EXCEPT !.pc = "register"], Idle} : at' = [at EXCEPT ![o] = x]
      BY <2>7 DEF Validate, Goto, Become
    <3>2. QED BY <1>g, <1>m, <1>o, <1>t, <2>7, <3>1, Places DEF Validate
  <2>8. CASE Register(o)
    <3>1. PICK x \in {[at[o] EXCEPT !.wid = arrived, !.pc = "store"],
                      [at[o] EXCEPT !.pc = "list"], Idle} :
            at' = [at EXCEPT ![o] = x]
      BY <2>8 DEF Register, Goto, Become
    <3>2. Sound([at[o] EXCEPT !.wid = arrived, !.pc = "store"], arrived)
      <4>1. "store" \in Locations /\ arrived \in 0..arrived /\ {} \in SUBSET (1..arrived)
            /\ "pause" \in Kinds /\ arrived \in NoCursor..arrived
        BY <1>t, Places DEF NoCursor
      <4>2. QED BY <1>t, <4>1, SoundGoesOn
    <3>3. QED BY <1>g, <1>m, <1>o, <1>t, <2>8, <3>1, <3>2, Places DEF Register
  <2>9. CASE Store(o)
    <3>1. cursor' \in NoCursor..arrived /\ armed' \in BOOLEAN /\ (Smooth \/ Mishap)
      <4>1. at[o].wid \in NoCursor..arrived
        BY <1>t DEF Sound, OpState, NoCursor
      <4>2. QED BY <1>t, <2>9, <4>1 DEF Store
    <3>2. CASE at[o].via \in Recoveries
      <4>1. PICK l \in {"list", "gate"} :
              at' = [at EXCEPT ![o] = [at[o] EXCEPT !.wid = 0, !.pc = l]]
        BY <2>9, <3>2 DEF Store, Become, Recoveries
      <4>2. Sound([at[o] EXCEPT !.wid = 0, !.pc = l], arrived)
        <5>1. l \in Locations /\ 0 \in 0..arrived /\ {} \in SUBSET (1..arrived)
              /\ "pause" \in Kinds /\ cursor \in NoCursor..arrived
          BY <1>t, Places
        <5>2. QED BY <1>t, <5>1, SoundGoesOn
      <4>3. UNCHANGED skipped
        BY <2>9, <3>2 DEF Store, Recoveries
      <4>4. QED BY <1>m, <1>o, <1>t, <2>9, <3>1, <4>1, <4>2, <4>3 DEF Store
    <3>3. CASE at[o].via \notin Recoveries
      <4>1. at' = [at EXCEPT ![o] = Idle] /\ skipped' = skipped \cup (Between(cursor, cursor') \ handed)
        BY <2>9, <3>3 DEF Store, Goto, Become, Recoveries
      <4>2. skipped' \subseteq 1..arrived
        BY <1>t, <3>1, <4>1, Interval
      <4>3. QED BY <1>g, <1>m, <1>o, <1>t, <2>9, <3>1, <4>1, <4>2, Places DEF Store
    <3>4. QED BY <3>2, <3>3
  <2>10. CASE List(o)
    <3> DEFINE F(h) == [Idle EXCEPT !.pc = "handOff", !.via = at[o].via,
                                    !.todo = Between(h, arrived)]
               R    == [at[o] EXCEPT !.via = "relist", !.pc = "register"]
    <3>1. \/ at' = [at EXCEPT ![o] = F(at[o].saved)] /\ UNCHANGED skipped
          \/ at' = [at EXCEPT ![o] = R] /\ UNCHANGED skipped
          \/ /\ at' = [at EXCEPT ![o] = F(at[o].since)]
             /\ skipped' = skipped \cup (Between(at[o].saved, at[o].since) \ handed)
          \/ at' = [at EXCEPT ![o] = Idle] /\ UNCHANGED skipped
      BY <2>10 DEF List, From, GiveUp, Goto, Become
    <3>2. /\ at[o].saved \in NoCursor..arrived /\ at[o].since \in NoCursor..arrived
          /\ at[o].via \in Kinds /\ arrived \in NoCursor..arrived
      BY <1>t DEF Sound, OpState, NoCursor
    <3>a. Sound(F(at[o].saved), arrived) /\ Sound(F(at[o].since), arrived)
      <4>1. /\ "handOff" \in Locations /\ 0 \in Nat
            /\ Between(at[o].saved, arrived) \in SUBSET (1..arrived)
            /\ Between(at[o].since, arrived) \in SUBSET (1..arrived)
        BY <1>t, <3>2, Places, Interval
      <4>2. QED BY <1>t, <3>2, <4>1, SoundBegun
    <3>d. Sound(R, arrived)
      <4>1. /\ "register" \in Locations /\ "relist" \in Kinds
            /\ pausedAt \in 0..arrived /\ {} \in SUBSET (1..arrived)
        BY <1>t, Places
      <4>2. QED BY <1>t, <3>2, <4>1, SoundGoesOn
    <3>b. Between(at[o].saved, at[o].since) \subseteq 1..arrived
      BY <1>t, <3>2, Interval
    <3>c. \/ UNCHANGED skipped
          \/ skipped' = skipped \cup (Between(at[o].saved, at[o].since) \ handed)
      BY <3>1
    <3>3. skipped' \subseteq 1..arrived
      BY <1>t, <3>b, <3>c
    <3>4. UNCHANGED <<arrived, provider, gmail, handed, pauses, told, silent, strayStop>>
          /\ (Smooth \/ Mishap) /\ abandoned' \in BOOLEAN
      BY <1>t, <2>10, Booleans DEF List, GiveUp
    <3> HIDE DEF F, R
    <3>5. PICK x : Sound(x, arrived) /\ at' = [at EXCEPT ![o] = x]
      BY <1>i, <3>1, <3>a, <3>d
    <3>6. QED BY <1>m, <1>o, <1>t, <3>3, <3>4, <3>5
  <2>11. CASE HandOff(o)
    <3>1. UNCHANGED <<arrived, provider, gmail, pauses, told, silent, skipped, strayStop>>
          /\ (Smooth \/ Mishap) /\ abandoned' \in BOOLEAN
      BY <1>t, <2>11, Booleans DEF HandOff, GiveUp
    <3>2. \/ UNCHANGED handed /\ \E x \in {[at[o] EXCEPT !.pc = "clearPause"], Idle} :
                                      at' = [at EXCEPT ![o] = x]
          \/ \E m \in at[o].todo :
               /\ handed' = handed \cup {m}
               /\ at' = [at EXCEPT ![o] = [at[o] EXCEPT !.todo = at[o].todo \ {m}]]
      BY <2>11 DEF HandOff, GiveUp, Goto, Become
    <3>3. CASE \E x \in {[at[o] EXCEPT !.pc = "clearPause"], Idle} :
                 UNCHANGED handed /\ at' = [at EXCEPT ![o] = x]
      <4>1. PICK x : UNCHANGED handed /\ at' = [at EXCEPT ![o] = x] /\ Sound(x, arrived)
        BY <1>g, <3>3, Places
      <4>2. QED BY <1>m, <1>o, <1>t, <3>1, <4>1
    <3>4. CASE \E m \in at[o].todo :
                 /\ handed' = handed \cup {m}
                 /\ at' = [at EXCEPT ![o] = [at[o] EXCEPT !.todo = at[o].todo \ {m}]]
      <4>1. PICK m \in at[o].todo :
              /\ handed' = handed \cup {m}
              /\ at' = [at EXCEPT ![o] = [at[o] EXCEPT !.todo = at[o].todo \ {m}]]
        BY <3>4
      <4>2. at[o].todo \subseteq 1..arrived
        BY <1>t DEF Sound
      <4>3. Sound([at[o] EXCEPT !.todo = at[o].todo \ {m}], arrived)
        BY <1>t, <4>2 DEF Sound, OpState
      <4>4. handed' \subseteq 1..arrived
        BY <1>t, <4>1, <4>2
      <4>5. QED BY <1>m, <1>o, <1>t, <3>1, <4>1, <4>3, <4>4
    <3>5. QED BY <3>2, <3>3, <3>4
  <2>12. CASE ClearPause(o)
    <3>1. at' = [at EXCEPT ![o] = Idle]
      BY <2>12 DEF ClearPause, Goto, Become
    <3>2. /\ pause' \in Pauses /\ failures' \in 0..Threshold
          /\ failures' = Threshold => pause' # "none"
      BY <1>t, <2>12 DEF ClearPause, Pauses
    <3>3. UNCHANGED <<arrived, pausedAt, gmail, handed, observers, bounds>>
      BY <2>12 DEF ClearPause
    <3>4. QED BY <1>i, <1>o, <1>t, <3>1, <3>2, <3>3
  <2>13. QED
    BY <1>8, <2>1, <2>2, <2>3, <2>4, <2>5, <2>6, <2>7, <2>8, <2>9, <2>10, <2>11, <2>12 DEF Step
<1>9. ASSUME NEW o \in Op, Crash(o) PROVE TypeInv'
  <2>1. at' = [at EXCEPT ![o] = Idle]
    BY <1>9 DEF Crash, GiveUp, Goto, Become
  <2>2. silent' \subseteq Nat
    BY <1>9, <1>t DEF Crash, OpState
  <2>3. QED BY <1>9, <1>i, <1>m, <1>o, <1>t, <2>1, <2>2, Booleans DEF Crash, GiveUp
<1>10. CASE UNCHANGED vars
  <2>1. TypeOK'
    BY <1>10, <1>t DEF vars, TypeOK
  <2>2. QED BY <1>10, <1>t, <2>1 DEF vars, TypeInv
<1>11. QED BY <1>1, <1>2, <1>3, <1>5, <1>6, <1>7, <1>8, <1>9, <1>10 DEF Next, Start

\* Every variable stays in the set it is said to range over, and a provider
\* whose failures reach the threshold is paused, however the operations of
\* EmailProviderLifecycleService.ts overlap.
THEOREM TypeCorrect == Spec => []TypeInv
<1>1. QED BY TypeInit, TypeNext, PTL DEF Spec

-----------------------------------------------------------------------------
(* Who is told.  Each pause is in the hands of one teardown at most, which *)
(* has not told of it yet.                                                 *)

Tears(s) == s.pc \in {"stop", "clearWatch", "notify"}

ToldInv ==
  /\ \A n \in 1..MaxPauses : told[n] <= 1 /\ (n > pauses => told[n] = 0)
  /\ \A o \in Op : Tears(at[o]) => at[o].pause \in 1..pauses /\ told[at[o].pause] = 0
  /\ \A o, p \in Op : Tears(at[o]) /\ Tears(at[p]) /\ at[o].pause = at[p].pause => o = p

\* A step that neither begins a teardown nor tells.
Quiet == /\ UNCHANGED <<pauses, told>>
         /\ \/ UNCHANGED at
            \/ \E o \in Op : \E x :
                 /\ at' = [at EXCEPT ![o] = x]
                 /\ Tears(x) => Tears(at[o]) /\ x.pause = at[o].pause

Begins == /\ pauses' = pauses + 1 /\ UNCHANGED told
          /\ \E o \in Op : \E x :
               at' = [at EXCEPT ![o] = x] /\ x.pause = pauses + 1

Tells == /\ UNCHANGED pauses
         /\ \E o \in Op : \E x :
              /\ Tears(at[o])
              /\ told' = [told EXCEPT ![at[o].pause] = told[at[o].pause] + 1]
              /\ at' = [at EXCEPT ![o] = x] /\ ~Tears(x)

LEMMA IdleTearsNothing == ~Tears(Idle)
BY DEF Tears, Idle

LEMMA QuietOrTelling == TypeInv /\ [Next]_vars => Quiet \/ Begins \/ Tells
<1> SUFFICES ASSUME TypeInv, [Next]_vars PROVE Quiet \/ Begins \/ Tells
  OBVIOUS
<1> USE DEF provider, gmail, observers, bounds, Smooth, Mishap, At
<1>t. \A o \in Op : at[o] \in OpState
  BY DEF TypeInv, TypeOK
<1>1. CASE UNCHANGED <<pauses, told, at>>
  BY <1>1 DEF Quiet
<1>2. ASSUME NEW o \in Op, NEW x, UNCHANGED <<pauses, told>>, at' = [at EXCEPT ![o] = x],
             Tears(x) => Tears(at[o]) /\ x.pause = at[o].pause
      PROVE  Quiet
  BY <1>2 DEF Quiet
<1>3. ASSUME NEW o \in Op, NEW kind, NEW reason, StartPause(o, reason, kind)
      PROVE  Begins
  <2>1. pauses' = pauses + 1 /\ UNCHANGED told
        /\ at' = [at EXCEPT ![o] = [Idle EXCEPT !.pc = "stop", !.via = kind, !.pause = pauses + 1]]
    BY <1>3 DEF StartPause, Become
  <2>2. [Idle EXCEPT !.pc = "stop", !.via = kind, !.pause = pauses + 1].pause = pauses + 1
    BY DEF Idle
  <2>3. QED BY <2>1, <2>2 DEF Begins
<1>4. ASSUME NEW o \in Op, Start(o) PROVE Quiet \/ Begins
  <2>1. CASE PauseProvider(o) \/ AuthFailure(o)
    BY <1>1, <1>3, <2>1 DEF PauseProvider, AuthFailure, Quiet
  <2>2. CASE Resume(o) \/ ConfigureGmailProvider(o)
    <3>1. PICK x : at' = [at EXCEPT ![o] = x] /\ x.pc \in {"gate", "lift", "register"}
      <4>1. \/ at' = [at EXCEPT ![o] = [Idle EXCEPT !.pc = "gate", !.via = "recover"]]
            \/ at' = [at EXCEPT ![o] = [Idle EXCEPT !.pc = "lift", !.via = "resume"]]
            \/ \E v : at' = [at EXCEPT ![o] = [Idle EXCEPT !.pc = "register", !.saved = cursor,
                                                          !.via = v]]
        BY <2>2 DEF Resume, ConfigureGmailProvider, Become
      <4>2. /\ [Idle EXCEPT !.pc = "gate", !.via = "recover"].pc = "gate"
            /\ [Idle EXCEPT !.pc = "lift", !.via = "resume"].pc = "lift"
            /\ \A v : [Idle EXCEPT !.pc = "register", !.saved = cursor, !.via = v].pc = "register"
        BY DEF Idle
      <4>3. CASE \E v : at' = [at EXCEPT ![o] = [Idle EXCEPT !.pc = "register", !.saved = cursor,
                                                       !.via = v]]
        <5>1. PICK v : at' = [at EXCEPT ![o] = [Idle EXCEPT !.pc = "register", !.saved = cursor,
                                                            !.via = v]]
          BY <4>3
        <5>2. [Idle EXCEPT !.pc = "register", !.saved = cursor, !.via = v].pc = "register"
          BY <4>2
        <5>3. QED BY <5>1, <5>2
      <4>4. CASE at' = [at EXCEPT ![o] = [Idle EXCEPT !.pc = "gate", !.via = "recover"]]
        BY <4>2, <4>4
      <4>5. CASE at' = [at EXCEPT ![o] = [Idle EXCEPT !.pc = "lift", !.via = "resume"]]
        BY <4>2, <4>5
      <4>6. QED BY <4>1, <4>3, <4>4, <4>5
    <3>2. UNCHANGED <<pauses, told>>
      BY <2>2 DEF Resume, ConfigureGmailProvider
    <3>3. QED BY <1>2, <3>1, <3>2 DEF Tears
  <2>3. QED BY <1>4, <2>1, <2>2 DEF Start
<1>5. ASSUME NEW o \in Op, Notify(o) PROVE Quiet \/ Tells
  <2>1. at' = [at EXCEPT ![o] = Idle] /\ UNCHANGED pauses /\ Tears(at[o])
        /\ \/ UNCHANGED told
           \/ told' = [told EXCEPT ![at[o].pause] = told[at[o].pause] + 1]
    BY <1>5 DEF Notify, Goto, Become, Tears
  <2>2. CASE UNCHANGED told
    BY <1>2, <2>1, <2>2, IdleTearsNothing
  <2>3. CASE told' = [told EXCEPT ![at[o].pause] = told[at[o].pause] + 1]
    BY <2>1, <2>3, IdleTearsNothing DEF Tells
  <2>4. QED BY <2>1, <2>2, <2>3
<1>6. ASSUME NEW o \in Op, Step(o), ~Notify(o) PROVE Quiet
  <2>1. UNCHANGED <<pauses, told>>
    BY <1>6 DEF Step, StopWatch, ClearWatch, ClearWatchFails, Lift, Gate, Snapshot, Validate,
                Register, Store, List, HandOff, ClearPause
  <2>2. CASE StopWatch(o) \/ ClearWatch(o) \/ ClearWatchFails(o)
    <3>1. PICK l \in {"clearWatch", "notify", "idle"} : Goto(o, l)
      BY <2>2 DEF StopWatch, ClearWatch, ClearWatchFails, TornDown
    <3>2. Tears(at[o])
      BY <2>2 DEF StopWatch, ClearWatch, ClearWatchFails, Tears
    <3>3. [at[o] EXCEPT !.pc = l].pause = at[o].pause
      BY <1>t DEF OpState
    <3>4. QED BY <1>2, <2>1, <3>1, <3>2, <3>3, IdleTearsNothing DEF Goto, Become
  <2>3. CASE ~(StopWatch(o) \/ ClearWatch(o) \/ ClearWatchFails(o))
    <3>1. PICK x : at' = [at EXCEPT ![o] = x] /\ ~Tears(x)
      <4>1. CASE Lift(o) \/ Gate(o) \/ Validate(o) \/ ClearPause(o)
        <5>1. \/ \E l \in {"idle", "register"} : Goto(o, l)
              \/ at' = [at EXCEPT ![o] = [at[o] EXCEPT !.since = pausedAt, !.pc = "snapshot"]]
              \/ \E h : at' = [at EXCEPT ![o] = [at[o] EXCEPT !.since = pausedAt, !.saved = h,
                                                              !.pc = "list"]]
          BY <4>1 DEF Lift, Gate, Validate, ClearPause, GiveUp, Become
        <5>2. /\ ~Tears([at[o] EXCEPT !.since = pausedAt, !.pc = "snapshot"])
              /\ \A h : ~Tears([at[o] EXCEPT !.since = pausedAt, !.saved = h, !.pc = "list"])
          BY <1>t DEF Tears, OpState
        <5>3. ~Tears([at[o] EXCEPT !.pc = "register"])
          BY <1>t DEF Tears, OpState
        <5>4. QED BY <5>1, <5>2, <5>3, IdleTearsNothing DEF Goto, Become
      <4>2. CASE Snapshot(o) \/ Register(o) \/ Store(o)
        <5>1. \/ at' = [at EXCEPT ![o] = [at[o] EXCEPT !.saved = cursor, !.pc = "validate"]]
              \/ at' = [at EXCEPT ![o] = [at[o] EXCEPT !.wid = arrived, !.pc = "store"]]
              \/ \E l \in {"list", "gate"} :
                   at' = [at EXCEPT ![o] = [at[o] EXCEPT !.wid = 0, !.pc = l]]
              \/ at' = [at EXCEPT ![o] = [at[o] EXCEPT !.pc = "list"]]
              \/ at' = [at EXCEPT ![o] = Idle]
          BY <4>2 DEF Snapshot, Register, Store, Goto, Become
        <5>2. /\ ~Tears([at[o] EXCEPT !.saved = cursor, !.pc = "validate"])
              /\ ~Tears([at[o] EXCEPT !.wid = arrived, !.pc = "store"])
              /\ \A l \in {"list", "gate"} : ~Tears([at[o] EXCEPT !.wid = 0, !.pc = l])
              /\ ~Tears([at[o] EXCEPT !.pc = "list"])
          BY <1>t DEF Tears, OpState
        <5>3. QED BY <5>1, <5>2, IdleTearsNothing
      <4>3. CASE List(o)
        <5>1. \/ \E h : at' = [at EXCEPT ![o] = [Idle EXCEPT !.pc = "handOff", !.via = at[o].via,
                                                             !.todo = Between(h, arrived)]]
              \/ at' = [at EXCEPT ![o] = [at[o] EXCEPT !.via = "relist", !.pc = "register"]]
              \/ at' = [at EXCEPT ![o] = Idle]
          BY <4>3 DEF List, From, GiveUp, Goto, Become
        <5>2. /\ \A h : ~Tears([Idle EXCEPT !.pc = "handOff", !.via = at[o].via,
                                            !.todo = Between(h, arrived)])
              /\ ~Tears([at[o] EXCEPT !.via = "relist", !.pc = "register"])
          BY <1>t DEF Tears, Idle, OpState
        <5>3. QED BY <5>1, <5>2, IdleTearsNothing
      <4>4. CASE HandOff(o)
        <5>1. \/ \E l \in {"idle", "clearPause"} : Goto(o, l)
              \/ \E T : at' = [at EXCEPT ![o] = [at[o] EXCEPT !.todo = T]] /\ at[o].pc = "handOff"
          BY <4>4 DEF HandOff, GiveUp, Become
        <5>2. at[o].pc = "handOff" => \A T : ~Tears([at[o] EXCEPT !.todo = T])
          BY <1>t DEF Tears, OpState
        <5>3. ~Tears([at[o] EXCEPT !.pc = "clearPause"])
          BY <1>t DEF Tears, OpState
        <5>4. QED BY <5>1, <5>2, <5>3, IdleTearsNothing DEF Goto, Become
      <4>5. QED BY <1>6, <2>3, <4>1, <4>2, <4>3, <4>4 DEF Step
    <3>2. QED BY <1>2, <2>1, <3>1
  <2>4. QED BY <2>2, <2>3
<1>7. ASSUME NEW o \in Op, Crash(o) PROVE Quiet
  <2>1. at' = [at EXCEPT ![o] = Idle] /\ UNCHANGED <<pauses, told>>
    BY <1>7 DEF Crash, GiveUp, Goto, Become
  <2>2. QED BY <1>2, <2>1, IdleTearsNothing
<1>8. CASE Arrive \/ Notification \/ ResetGoogleProviders \/ RecordSourceAccessSuccess \/ UNCHANGED vars
  BY <1>1, <1>8 DEF Arrive, Notification, ResetGoogleProviders, RecordSourceAccessSuccess, vars
<1>9. QED BY <1>4, <1>5, <1>6, <1>7, <1>8 DEF Next

LEMMA ToldNext == TypeInv /\ ToldInv /\ [Next]_vars => ToldInv'
<1> SUFFICES ASSUME TypeInv, ToldInv, [Next]_vars PROVE ToldInv'
  OBVIOUS
<1>t. /\ at \in [Op -> OpState] /\ pauses \in 0..MaxPauses /\ pauses' \in 0..MaxPauses
      /\ told \in [1..MaxPauses -> Nat] /\ MaxPauses \in Nat
  BY Limits, TypeNext DEF TypeInv, TypeOK
<1>1. CASE Quiet
  <2>1. UNCHANGED <<pauses, told>>
    BY <1>1 DEF Quiet
  <2>2. CASE UNCHANGED at
    BY <2>1, <2>2 DEF ToldInv
  <2>3. CASE ~UNCHANGED at
    <3>0. PICK o \in Op : \E x : /\ at' = [at EXCEPT ![o] = x]
                                 /\ Tears(x) => Tears(at[o]) /\ x.pause = at[o].pause
      BY <1>1, <2>3 DEF Quiet
    <3>1. PICK x : /\ at' = [at EXCEPT ![o] = x]
                   /\ Tears(x) => Tears(at[o]) /\ x.pause = at[o].pause
      BY <3>0
    <3>2. at'[o] = x /\ \A p \in Op \ {o} : at'[p] = at[p]
      BY <1>t, <3>1
    <3>3. \A p \in Op : Tears(at'[p]) => Tears(at[p]) /\ at'[p].pause = at[p].pause
      BY <3>1, <3>2
    <3>4. QED BY <2>1, <3>3 DEF ToldInv
  <2>4. QED BY <2>2, <2>3
<1>2. CASE Begins
  <2>0. PICK o \in Op : \E x : at' = [at EXCEPT ![o] = x] /\ x.pause = pauses + 1
    BY <1>2 DEF Begins
  <2>1. PICK x : at' = [at EXCEPT ![o] = x] /\ x.pause = pauses + 1
    BY <2>0
  <2>2. at'[o] = x /\ \A p \in Op \ {o} : at'[p] = at[p]
    BY <1>t, <2>1
  <2>3. pauses' = pauses + 1 /\ told' = told
    BY <1>2 DEF Begins
  <2>4. \A n \in 1..MaxPauses : told'[n] <= 1 /\ (n > pauses' => told'[n] = 0)
    BY <1>t, <2>3 DEF ToldInv
  <2>5. told[pauses + 1] = 0
    BY <1>t, <2>3 DEF ToldInv
  <2>6. \A p \in Op : Tears(at'[p]) => at'[p].pause \in 1..pauses' /\ told'[at'[p].pause] = 0
    <3> TAKE p \in Op
    <3>1. CASE p = o
      BY <1>t, <2>1, <2>2, <2>3, <2>5, <3>1
    <3>2. CASE p # o
      BY <1>t, <2>2, <2>3, <3>2 DEF ToldInv
    <3>3. QED BY <3>1, <3>2
  <2>7. \A p, q \in Op : Tears(at'[p]) /\ Tears(at'[q]) /\ at'[p].pause = at'[q].pause => p = q
    <3>1. \A p \in Op \ {o} : Tears(at'[p]) => at'[p].pause \in 1..pauses
      BY <2>2 DEF ToldInv
    <3>2. \A p \in Op \ {o} : Tears(at'[p]) => at'[p].pause # at'[o].pause
      BY <1>t, <2>1, <2>2, <3>1
    <3>3. QED BY <2>2, <3>2 DEF ToldInv
  <2>8. QED BY <2>4, <2>6, <2>7 DEF ToldInv
<1>3. CASE Tells
  <2>0. PICK o \in Op : \E x : /\ Tears(at[o]) /\ ~Tears(x)
                               /\ told' = [told EXCEPT ![at[o].pause] = told[at[o].pause] + 1]
                               /\ at' = [at EXCEPT ![o] = x]
    BY <1>3 DEF Tells
  <2>1. PICK x : /\ Tears(at[o]) /\ ~Tears(x)
                 /\ told' = [told EXCEPT ![at[o].pause] = told[at[o].pause] + 1]
                 /\ at' = [at EXCEPT ![o] = x]
    BY <2>0
  <2>2. at'[o] = x /\ \A p \in Op \ {o} : at'[p] = at[p]
    BY <1>t, <2>1
  <2>3. pauses' = pauses
    BY <1>3 DEF Tells
  <2>4. at[o].pause \in 1..pauses /\ told[at[o].pause] = 0
    BY <2>1 DEF ToldInv
  <2>5. /\ told'[at[o].pause] = 1
        /\ \A n \in 1..MaxPauses : n # at[o].pause => told'[n] = told[n]
    BY <1>t, <2>1, <2>4
  <2>6. \A n \in 1..MaxPauses : told'[n] <= 1 /\ (n > pauses' => told'[n] = 0)
    BY <1>t, <2>3, <2>4, <2>5 DEF ToldInv
  <2>7. \A p \in Op : Tears(at'[p]) => at'[p].pause \in 1..pauses' /\ told'[at'[p].pause] = 0
    <3> TAKE p \in Op
    <3>1. CASE p = o
      BY <2>1, <2>2, <3>1
    <3>2. CASE p # o /\ Tears(at'[p])
      <4>1. at'[p] = at[p] /\ at[p].pause \in 1..pauses /\ told[at[p].pause] = 0
        BY <2>2, <3>2 DEF ToldInv
      <4>2. at[p].pause # at[o].pause
        BY <2>1, <3>2, <4>1 DEF ToldInv
      <4>3. QED BY <1>t, <2>3, <2>5, <4>1, <4>2
    <3>3. QED BY <3>1, <3>2
  <2>8. QED BY <2>1, <2>2, <2>6, <2>7 DEF ToldInv
<1>4. QED BY <1>1, <1>2, <1>3, QuietOrTelling

\* However many jobs fail with the same credentials, and whatever the teardowns
\* meet, administrators hear of a pause at most once.
THEOREM ToldOnce == Spec => []ToldOncePerPause
<1>1. Init => ToldInv
  <2> SUFFICES ASSUME Init PROVE ToldInv
    OBVIOUS
  <2>1. \A o \in Op : at[o] = Idle
    BY DEF Init
  <2>2. QED BY <2>1, IdleTearsNothing DEF Init, ToldInv
<1>2. ToldInv => ToldOncePerPause
  BY DEF ToldInv, ToldOncePerPause
<1>3. QED BY <1>1, <1>2, ToldNext, TypeCorrect, PTL DEF Spec

-----------------------------------------------------------------------------
(* A dead watch.  Whoever is about to store a watch knows it to live,      *)
(* unless a teardown stopped it meanwhile.                                 *)

WatchInv ==
  ~watch => strayStop \/ /\ armed => \E o \in Op : At(o, "clearWatch")
                         /\ \A o \in Op : ~At(o, "store")

LEMMA WatchNext == TypeInv /\ WatchInv /\ [Next]_vars => WatchInv'
<1> SUFFICES ASSUME TypeInv, WatchInv, [Next]_vars, ~watch', ~strayStop' PROVE WatchInv'
  BY DEF WatchInv
<1> USE DEF provider, gmail, observers, bounds, Smooth, Mishap, At
<1>t. /\ at \in [Op -> OpState] /\ strayStop \in BOOLEAN
      /\ \A o \in Op : at[o] \in OpState
  BY DEF TypeInv, TypeOK
<1>1. CASE UNCHANGED <<watch, armed, strayStop, at>>
  BY <1>1 DEF WatchInv
\* An operation that has stored its watch, or was not about to clear one, goes on.
<1>2. ASSUME NEW o \in Op, NEW x, at' = [at EXCEPT ![o] = x], UNCHANGED <<watch, armed, strayStop>>,
             at[o].pc # "clearWatch", x.pc # "store"
      PROVE  WatchInv'
  <2>1. at'[o] = x /\ \A p \in Op \ {o} : at'[p] = at[p]
    BY <1>2, <1>t
  <2>2. \A p \in Op : At(p, "clearWatch") => At(p, "clearWatch")'
    BY <1>2, <2>1
  <2>3. \A p \in Op : At(p, "store")' => At(p, "store")
    BY <1>2, <2>1
  <2>4. ~watch /\ ~strayStop
    BY <1>2
  <2>5. QED BY <1>2, <2>2, <2>3, <2>4 DEF WatchInv
<1>3. ASSUME NEW o \in Op, Start(o) PROVE WatchInv'
  <2>1. UNCHANGED <<watch, armed, strayStop>> /\ at[o].pc = "idle"
    BY <1>3 DEF Start, PauseProvider, AuthFailure, StartPause, Resume, ConfigureGmailProvider, Begin
  <2>2. CASE UNCHANGED at
    BY <1>1, <2>1, <2>2
  <2>3. CASE ~UNCHANGED at
    <3>1. PICK x : at' = [at EXCEPT ![o] = x] /\ x.pc \in {"stop", "gate", "lift", "register"}
      <4>1. \/ \E k : at' = [at EXCEPT ![o] = [Idle EXCEPT !.pc = "stop", !.via = k,
                                                          !.pause = pauses + 1]]
            \/ at' = [at EXCEPT ![o] = [Idle EXCEPT !.pc = "gate", !.via = "recover"]]
            \/ at' = [at EXCEPT ![o] = [Idle EXCEPT !.pc = "lift", !.via = "resume"]]
            \/ \E v : at' = [at EXCEPT ![o] = [Idle EXCEPT !.pc = "register", !.saved = cursor,
                                                          !.via = v]]
        BY <1>3, <2>3 DEF Start, PauseProvider, AuthFailure, StartPause, Resume,
                          ConfigureGmailProvider, Become
      <4>2. /\ \A k : [Idle EXCEPT !.pc = "stop", !.via = k, !.pause = pauses + 1].pc = "stop"
            /\ [Idle EXCEPT !.pc = "gate", !.via = "recover"].pc = "gate"
            /\ [Idle EXCEPT !.pc = "lift", !.via = "resume"].pc = "lift"
            /\ \A v : [Idle EXCEPT !.pc = "register", !.saved = cursor, !.via = v].pc = "register"
        BY DEF Idle
      <4>3. CASE \E v : at' = [at EXCEPT ![o] = [Idle EXCEPT !.pc = "register", !.saved = cursor,
                                                       !.via = v]]
        <5>1. PICK v : at' = [at EXCEPT ![o] = [Idle EXCEPT !.pc = "register", !.saved = cursor,
                                                            !.via = v]]
          BY <4>3
        <5>2. [Idle EXCEPT !.pc = "register", !.saved = cursor, !.via = v].pc = "register"
          BY <4>2
        <5>3. QED BY <5>1, <5>2
      <4>4. CASE \E k : at' = [at EXCEPT ![o] = [Idle EXCEPT !.pc = "stop", !.via = k,
                                                       !.pause = pauses + 1]]
        <5>1. PICK k : at' = [at EXCEPT ![o] = [Idle EXCEPT !.pc = "stop", !.via = k,
                                                            !.pause = pauses + 1]]
          BY <4>4
        <5>2. [Idle EXCEPT !.pc = "stop", !.via = k, !.pause = pauses + 1].pc = "stop"
          BY <4>2
        <5>3. QED BY <5>1, <5>2
      <4>5. CASE at' = [at EXCEPT ![o] = [Idle EXCEPT !.pc = "gate", !.via = "recover"]]
        BY <4>2, <4>5
      <4>6. CASE at' = [at EXCEPT ![o] = [Idle EXCEPT !.pc = "lift", !.via = "resume"]]
        BY <4>2, <4>6
      <4>7. QED BY <4>1, <4>3, <4>4, <4>5, <4>6
    <3>2. QED BY <1>2, <2>1, <3>1
  <2>4. QED BY <2>2, <2>3
<1>4. ASSUME NEW o \in Op, StopWatch(o), Goto(o, "clearWatch") PROVE WatchInv'
  <2>1. at' = [at EXCEPT ![o] = [at[o] EXCEPT !.pc = "clearWatch"]] /\ at[o].pc = "stop"
    BY <1>4 DEF StopWatch, Goto, Become
  <2>2. At(o, "clearWatch")' /\ \A p \in Op \ {o} : at'[p] = at[p]
    BY <1>t, <2>1 DEF OpState
  <2>3. \A p \in Op : ~At(p, "store")
    <3>1. CASE strayStop' = (strayStop \/ \E p \in Op : At(p, "store"))
      BY <3>1
    <3>2. CASE UNCHANGED <<watch, strayStop>>
      BY <3>2 DEF WatchInv
    <3>3. QED BY <1>4, <3>1, <3>2 DEF StopWatch
  <2>4. \A p \in Op : ~At(p, "store")'
    <3> TAKE p \in Op
    <3>1. CASE p = o
      BY <2>2, <3>1
    <3>2. CASE p # o
      BY <2>2, <2>3, <3>2
    <3>3. QED BY <3>1, <3>2
  <2>5. QED BY <2>2, <2>4 DEF WatchInv
<1>b. ASSUME NEW o \in Op, StopWatch(o), ~Goto(o, "clearWatch") PROVE WatchInv'
  <2>1. at[o].pc = "stop" /\ UNCHANGED <<watch, armed, strayStop>> /\ TornDown(o)
    BY <1>b DEF StopWatch
  <2>2. PICK l \in {"notify", "idle"} : Goto(o, l)
    BY <2>1 DEF TornDown
  <2>3. Idle.pc = "idle" /\ [at[o] EXCEPT !.pc = l].pc = l
    BY <1>t DEF Idle, OpState
  <2>4. QED BY <1>2, <2>1, <2>2, <2>3 DEF Goto, Become
<1>5. ASSUME NEW o \in Op, ClearWatch(o) PROVE WatchInv'
  <2>1. PICK l \in {"notify", "idle"} : Goto(o, l)
    BY <1>5 DEF ClearWatch, TornDown
  <2>2. at'[o].pc = l /\ \A p \in Op \ {o} : at'[p] = at[p]
    BY <1>t, <2>1 DEF Goto, Become, OpState, Idle
  <2>3. \A p \in Op : ~At(p, "store")
    BY <1>5 DEF ClearWatch, WatchInv
  <2>4. QED BY <1>5, <2>2, <2>3 DEF ClearWatch, WatchInv
<1>6. ASSUME NEW o \in Op, Store(o) PROVE WatchInv'
  <2>1. UNCHANGED <<watch, strayStop>> /\ At(o, "store")
    BY <1>6 DEF Store
  <2>2. QED BY <2>1 DEF WatchInv
<1>7. ASSUME NEW o \in Op, Register(o) PROVE WatchInv'
  <2>1. UNCHANGED <<watch, armed, strayStop>> /\ at[o].pc = "register"
        /\ \E x \in {Idle, [at[o] EXCEPT !.pc = "list"]} : at' = [at EXCEPT ![o] = x]
    BY <1>7 DEF Register, Goto, Become
  <2>2. Idle.pc = "idle" /\ [at[o] EXCEPT !.pc = "list"].pc = "list"
    BY <1>t DEF Idle, OpState
  <2>3. QED BY <1>2, <2>1, <2>2
<1>8. ASSUME NEW o \in Op, Crash(o) PROVE WatchInv'
  <2>1. at' = [at EXCEPT ![o] = Idle] /\ UNCHANGED <<watch, armed>>
    BY <1>8 DEF Crash, GiveUp, Goto, Become
  <2>2. strayStop' = (strayStop \/ at[o].pc = "clearWatch")
    BY <1>8 DEF Crash
  <2>3. UNCHANGED strayStop /\ at[o].pc # "clearWatch"
    BY <1>t, <2>2
  <2>4. Idle.pc = "idle"
    BY DEF Idle
  <2>5. QED BY <1>2, <2>1, <2>3, <2>4
<1>9. ASSUME NEW o \in Op,
             Notify(o) \/ Lift(o) \/ Gate(o) \/ Snapshot(o) \/ Validate(o) \/ List(o)
               \/ HandOff(o) \/ ClearPause(o)
      PROVE  WatchInv'
  <2>1. UNCHANGED <<watch, armed, strayStop>> /\ at[o].pc \notin {"clearWatch", "store"}
    BY <1>9 DEF Notify, Lift, Gate, Snapshot, Validate, List, HandOff, ClearPause
  <2>2. PICK x : at' = [at EXCEPT ![o] = x] /\ x.pc # "store"
    <3>1. CASE Notify(o) \/ Lift(o) \/ Validate(o) \/ ClearPause(o)
      <4>1. PICK l \in {"idle", "register"} : Goto(o, l)
        BY <3>1 DEF Notify, Lift, Validate, ClearPause
      <4>2. Idle.pc = "idle" /\ [at[o] EXCEPT !.pc = l].pc = l
        BY <1>t DEF Idle, OpState
      <4>3. QED BY <4>1, <4>2 DEF Goto, Become
    <3>2. CASE Gate(o) \/ Snapshot(o)
      <4>1. \/ at' = [at EXCEPT ![o] = Idle]
            \/ at' = [at EXCEPT ![o] = [at[o] EXCEPT !.since = pausedAt, !.pc = "snapshot"]]
            \/ \E h : at' = [at EXCEPT ![o] = [at[o] EXCEPT !.since = pausedAt, !.saved = h,
                                                            !.pc = "list"]]
            \/ at' = [at EXCEPT ![o] = [at[o] EXCEPT !.saved = cursor, !.pc = "validate"]]
        BY <3>2 DEF Gate, Snapshot, GiveUp, Goto, Become
      <4>2. /\ Idle.pc = "idle" /\ [at[o] EXCEPT !.saved = cursor, !.pc = "validate"].pc = "validate"
            /\ [at[o] EXCEPT !.since = pausedAt, !.pc = "snapshot"].pc = "snapshot"
            /\ \A h : [at[o] EXCEPT !.since = pausedAt, !.saved = h, !.pc = "list"].pc = "list"
        BY <1>t DEF Idle, OpState
      <4>3. QED BY <4>1, <4>2
    <3>3. CASE List(o)
      <4>1. \/ \E h : at' = [at EXCEPT ![o] = [Idle EXCEPT !.pc = "handOff", !.via = at[o].via,
                                                           !.todo = Between(h, arrived)]]
            \/ at' = [at EXCEPT ![o] = [at[o] EXCEPT !.via = "relist", !.pc = "register"]]
            \/ at' = [at EXCEPT ![o] = Idle]
        BY <3>3 DEF List, From, GiveUp, Goto, Become
      <4>2. /\ Idle.pc = "idle"
            /\ [at[o] EXCEPT !.via = "relist", !.pc = "register"].pc = "register"
            /\ \A h : [Idle EXCEPT !.pc = "handOff", !.via = at[o].via,
                                   !.todo = Between(h, arrived)].pc = "handOff"
        BY <1>t DEF Idle, OpState
      <4>3. QED BY <4>1, <4>2
    <3>4. CASE HandOff(o)
      <4>1. \/ \E l \in {"idle", "clearPause"} : Goto(o, l)
            \/ \E T : at' = [at EXCEPT ![o] = [at[o] EXCEPT !.todo = T]]
        BY <3>4 DEF HandOff, GiveUp, Become
      <4>2. /\ Idle.pc = "idle" /\ [at[o] EXCEPT !.pc = "clearPause"].pc = "clearPause"
            /\ \A T : [at[o] EXCEPT !.todo = T].pc = at[o].pc
        BY <1>t DEF Idle, OpState
      <4>3. \/ \E l \in {"idle", "clearPause"} :
                 at' = [at EXCEPT ![o] = IF l = "idle" THEN Idle ELSE [at[o] EXCEPT !.pc = l]]
            \/ \E T : at' = [at EXCEPT ![o] = [at[o] EXCEPT !.todo = T]]
        BY <4>1 DEF Goto, Become
      <4>4. CASE \E T : at' = [at EXCEPT ![o] = [at[o] EXCEPT !.todo = T]]
        <5>1. PICK T : at' = [at EXCEPT ![o] = [at[o] EXCEPT !.todo = T]]
          BY <4>4
        <5>2. [at[o] EXCEPT !.todo = T].pc = at[o].pc
          BY <4>2
        <5>3. QED BY <2>1, <5>1, <5>2
      <4>5. CASE \E l \in {"idle", "clearPause"} :
                   at' = [at EXCEPT ![o] = IF l = "idle" THEN Idle ELSE [at[o] EXCEPT !.pc = l]]
        BY <4>2, <4>5
      <4>6. QED BY <4>3, <4>4, <4>5
    <3>5. QED BY <1>9, <3>1, <3>2, <3>3, <3>4
  <2>3. QED BY <1>2, <2>1, <2>2
<1>10. CASE Arrive \/ Notification \/ RecordSourceAccessSuccess \/ UNCHANGED vars
  BY <1>1, <1>10 DEF Arrive, Notification, RecordSourceAccessSuccess, vars
<1>r. CASE ResetGoogleProviders
  BY <1>r DEF ResetGoogleProviders, WatchInv
<1>11. ASSUME NEW o \in Op, ClearWatchFails(o) PROVE FALSE
  BY <1>11 DEF ClearWatchFails
<1>12. QED
  BY <1>3, <1>4, <1>b, <1>5, <1>6, <1>7, <1>8, <1>9, <1>10, <1>r, <1>11 DEF Next, Step

\* Whatever the order of teardowns, registrations and crashes, a watch that is
\* gone shows no expiration, so that the renewal job selects its provider, unless
\* a teardown is about to clear it or has failed to, or stopped a watch whose
\* columns another operation was yet to write.
THEOREM DeadWatchShows == Spec => []DeadWatchIsNoticed
<1>1. Init => WatchInv
  BY DEF Init, WatchInv
<1>2. WatchInv => DeadWatchIsNoticed
  BY DEF WatchInv, DeadWatchIsNoticed
<1>3. QED BY <1>1, <1>2, WatchNext, TypeCorrect, PTL DEF Spec
-----------------------------------------------------------------------------
(* No gap.  What counts is not the cursor as it is, which a late watch can *)
(* lower again, but how far it has been when some operation read it: every *)
(* message up to there is handed off or known to be skipped, or a recovery *)
(* past its watch still has it ahead, beyond its own saved cursor.         *)

\* Operation o, past its watch, is still to hand message m off.
Covers(o, m) ==
  Exposed(o) /\ IF At(o, "handOff") THEN m \in at[o].todo ELSE at[o].saved < m
Passed(m)    == m <= cursor \/ \E o \in Op : m <= at[o].saved
Accounted(m) == m \in handed \cup skipped \/ \E o \in Op : Covers(o, m)

GapInv == ~abandoned => \A m \in Message : Passed(m) => Accounted(m)

LEMMA GapNext == TypeInv /\ TypeInv' /\ GapInv /\ [Next]_vars => GapInv'
<1> SUFFICES ASSUME TypeInv, TypeInv', GapInv, [Next]_vars PROVE GapInv'
  OBVIOUS
<1> USE DEF At, Smooth, Mishap, provider, gmail, observers, bounds
<1>t. /\ at \in [Op -> OpState] /\ \A o \in Op : at[o] \in OpState
      /\ cursor \in Int /\ arrived \in Nat /\ cursor' \in Int /\ Message \subseteq Nat
      /\ \A o \in Op : /\ at[o].saved \in Int /\ at[o].saved <= arrived /\ at[o].since \in Nat
                       /\ at[o].wid \in Nat /\ at[o].wid <= arrived
      /\ cursor <= arrived
  BY Limits DEF TypeInv, TypeOK, Sound, OpState, Message, NoCursor
<1>z. Idle.saved = 0 /\ Idle.pc = "idle" /\ ~(\E m \in Message : m <= Idle.saved)
  BY Limits DEF Idle, Message
\* What a step of operation o has to keep.
<1>k. ASSUME NEW o \in Op, NEW x, at' = [at EXCEPT ![o] = x],
             handed \subseteq handed', skipped \subseteq skipped', ~abandoned' => ~abandoned,
             \A m \in Message : m <= cursor' => Passed(m) \/ Accounted(m)',
             \A m \in Message : m <= x.saved => Passed(m),
             \A m \in Message : ~abandoned' /\ Passed(m) /\ Covers(o, m) => Accounted(m)'
      PROVE  GapInv'
  <2> SUFFICES ASSUME ~abandoned', NEW m \in Message, Passed(m)', ~Accounted(m)' PROVE FALSE
    BY DEF GapInv
  <2>1. at'[o] = x /\ \A q \in Op \ {o} : at'[q] = at[q]
    BY <1>k, <1>t
  <2>2. Passed(m)
    BY <1>k, <2>1 DEF Passed
  <2>3. m \in handed \cup skipped \/ \E q \in Op : Covers(q, m)
    BY <1>k, <2>2 DEF GapInv, Accounted
  <2>4. m \notin handed \cup skipped
    BY <1>k DEF Accounted
  <2>5. PICK q \in Op : Covers(q, m)
    BY <2>3, <2>4
  <2>6. CASE q = o
    BY <1>k, <2>2, <2>5, <2>6
  <2>7. CASE q # o
    <3>1. Covers(q, m)'
      BY <2>1, <2>5, <2>7 DEF Covers, Exposed
    <3>2. QED BY <3>1 DEF Accounted
  <2>8. QED BY <2>6, <2>7
\* An operation that covers nothing goes on.
<1>q. ASSUME NEW o \in Op, NEW x, at' = [at EXCEPT ![o] = x],
             UNCHANGED <<cursor, handed, skipped, abandoned>>,
             ~Exposed(o), x.saved \in {0, at[o].saved, cursor}
      PROVE  GapInv'
  <2>1. \A m \in Message : m <= x.saved => Passed(m)
    BY <1>q, <1>t, Limits DEF Passed, Message
  <2>2. \A m \in Message : m <= cursor' => Passed(m)
    BY <1>q DEF Passed
  <2>3. \A m : ~Covers(o, m)
    BY <1>q DEF Covers
  <2>4. QED BY <1>k, <1>q, <2>1, <2>2, <2>3
\* Or goes to a place of the same operation.
<1>j. ASSUME NEW o \in Op, NEW l, Goto(o, l), ~Exposed(o),
             UNCHANGED <<cursor, handed, skipped, abandoned>>
      PROVE  GapInv'
  <2> DEFINE x == IF l = "idle" THEN Idle ELSE [at[o] EXCEPT !.pc = l]
  <2>1. at' = [at EXCEPT ![o] = x]
    BY <1>j DEF Goto, Become
  <2>2. x.saved \in {0, at[o].saved, cursor}
    BY <1>t, <1>z DEF OpState
  <2> HIDE DEF x
  <2>3. QED BY <1>j, <1>q, <2>1, <2>2
\* An operation gives up.
<1>v. ASSUME NEW o \in Op, GiveUp(o), UNCHANGED <<cursor, handed>>, skipped \subseteq skipped'
      PROVE  GapInv'
  <2>1. at' = [at EXCEPT ![o] = Idle] /\ abandoned' = (abandoned \/ Exposed(o))
    BY <1>v DEF GiveUp, Goto, Become
  <2>2. \A m \in Message : m <= cursor' => Passed(m)
    BY <1>v DEF Passed
  <2>3. \A m \in Message : m <= Idle.saved => Passed(m)
    BY <1>z
  <2>4. \A m : ~abandoned' => ~Covers(o, m)
    BY <2>1 DEF Covers
  <2>5. ~abandoned' => ~abandoned
    BY <2>1
  <2>6. QED BY <1>k, <1>v, <2>1, <2>2, <2>3, <2>4, <2>5
\* The mailbox.
<1>1. CASE Arrive \/ Notification \/ ResetGoogleProviders \/ RecordSourceAccessSuccess \/ UNCHANGED vars
  <2>1. UNCHANGED <<at, abandoned>> /\ handed \subseteq handed' /\ skipped \subseteq skipped'
    BY <1>1 DEF Arrive, Notification, ResetGoogleProviders, RecordSourceAccessSuccess, vars
  <2>2. \A m \in Message : m <= cursor' => m <= cursor \/ m \in handed' \cup skipped'
    <3>1. CASE Notification
      BY <1>t, <3>1 DEF Notification, Between
    <3>2. CASE UNCHANGED cursor
      BY <3>2
    <3>3. CASE ResetGoogleProviders
      BY <1>t, <3>3 DEF ResetGoogleProviders, NoCursor
    <3>4. QED BY <1>1, <3>1, <3>2, <3>3 DEF Arrive, RecordSourceAccessSuccess, vars
  <2>3. ASSUME ~abandoned', NEW m \in Message, Passed(m)' PROVE Accounted(m)'
    <3>1. Passed(m) \/ m \in handed' \cup skipped'
      BY <2>1, <2>2, <2>3 DEF Passed
    <3>2. Accounted(m) \/ m \in handed' \cup skipped'
      BY <2>1, <2>3, <3>1 DEF GapInv
    <3>3. \A o \in Op : Covers(o, m) => Covers(o, m)'
      BY <2>1 DEF Covers, Exposed
    <3>4. QED BY <2>1, <3>2, <3>3 DEF Accounted
  <2>4. QED BY <2>3 DEF GapInv
\* Operations begin.
<1>2. ASSUME NEW o \in Op, Start(o) PROVE GapInv'
  <2>1. at[o].pc = "idle" /\ ~Exposed(o) /\ UNCHANGED <<cursor, handed, skipped, abandoned>>
    BY <1>2 DEF Start, PauseProvider, AuthFailure, StartPause, Resume, ConfigureGmailProvider,
                Begin, Exposed
  <2>2. CASE UNCHANGED at
    <3>1. at' = [at EXCEPT ![o] = at[o]]
      BY <1>t, <2>2
    <3>2. QED BY <1>q, <2>1, <3>1
  <2>3. ASSUME NEW r, StartPause(o, r, "pause") \/ StartPause(o, r, "autoPause") PROVE GapInv'
    <3>1. PICK k : at' = [at EXCEPT ![o] = [Idle EXCEPT !.pc = "stop", !.via = k, !.pause = pauses + 1]]
      BY <2>3 DEF StartPause, Become
    <3>2. [Idle EXCEPT !.pc = "stop", !.via = k, !.pause = pauses + 1].saved = 0
      BY DEF Idle
    <3>3. QED BY <1>q, <2>1, <3>1, <3>2
  <2>4. CASE Resume(o)
    <3>1. PICK l, k : at' = [at EXCEPT ![o] = [Idle EXCEPT !.pc = l, !.via = k]]
      BY <2>4 DEF Resume, Become
    <3>2. [Idle EXCEPT !.pc = l, !.via = k].saved = 0
      BY DEF Idle
    <3>3. QED BY <1>q, <2>1, <3>1, <3>2
  <2>5. CASE ConfigureGmailProvider(o)
    <3> DEFINE x == [Idle EXCEPT !.pc = "register", !.saved = cursor,
                                 !.via = IF pause = "auth_failure" THEN "reconnect" ELSE "renew"]
    <3>1. at' = [at EXCEPT ![o] = x]
      BY <2>5 DEF ConfigureGmailProvider, Become
    <3>2. x.saved = cursor
      BY DEF Idle
    <3> HIDE DEF x
    <3>3. QED BY <1>q, <2>1, <3>1, <3>2
  <2>6. QED BY <1>2, <2>2, <2>3, <2>4, <2>5 DEF Start, PauseProvider, AuthFailure
\* The steps of an operation that is not past a recovery's watch.
<1>3. ASSUME NEW o \in Op,
             StopWatch(o) \/ ClearWatch(o) \/ ClearWatchFails(o) \/ Notify(o) \/ Lift(o)
               \/ Validate(o) \/ ClearPause(o)
      PROVE  GapInv'
  <2>1. ~Exposed(o) /\ UNCHANGED <<cursor, handed, skipped, abandoned>>
    BY <1>3 DEF StopWatch, ClearWatch, ClearWatchFails, Notify, Lift, Validate, ClearPause, Exposed
  <2>2. \E l : Goto(o, l)
    BY <1>3 DEF StopWatch, ClearWatch, ClearWatchFails, TornDown, Notify, Lift, Validate,
                ClearPause
  <2>3. QED BY <1>j, <2>1, <2>2
<1>4. ASSUME NEW o \in Op, Snapshot(o) PROVE GapInv'
  <2> DEFINE x == [at[o] EXCEPT !.saved = cursor, !.pc = "validate"]
  <2>1. /\ at' = [at EXCEPT ![o] = x] /\ ~Exposed(o)
        /\ UNCHANGED <<cursor, handed, skipped, abandoned>>
    BY <1>4 DEF Snapshot, Become, Exposed
  <2>2. x.saved = cursor
    BY <1>t DEF OpState
  <2> HIDE DEF x
  <2>3. QED BY <1>q, <2>1, <2>2
<1>5. ASSUME NEW o \in Op, Register(o) PROVE GapInv'
  <2>1. at[o].pc = "register" /\ UNCHANGED <<cursor, handed, skipped, abandoned>>
    BY <1>5 DEF Register
  <2>2. CASE Goto(o, "idle") /\ at[o].via # "relist"
    <3>1. ~Exposed(o)
      BY <2>1, <2>2 DEF Exposed
    <3>2. QED BY <1>j, <2>1, <2>2, <3>1
  <2>3. ASSUME NEW x, at' = [at EXCEPT ![o] = x], x.saved = at[o].saved, x.via = at[o].via,
               x.pc \in {"store", "list"}
        PROVE  GapInv'
    <3>1. at'[o] = x
      BY <1>t, <2>3
    <3>2. \A m : Covers(o, m) => Covers(o, m)'
      BY <2>1, <2>3, <3>1 DEF Covers, Exposed
    <3>3. \A m : Covers(o, m) => Accounted(m)'
      BY <3>2 DEF Accounted
    <3>4. \A m \in Message : m <= x.saved => Passed(m)
      BY <2>3 DEF Passed
    <3>5. \A m \in Message : m <= cursor' => Passed(m)
      BY <2>1 DEF Passed
    <3>6. QED BY <1>k, <2>1, <2>3, <3>3, <3>4, <3>5
  <2>4. PICK x \in {Idle, [at[o] EXCEPT !.wid = arrived, !.pc = "store"],
                   [at[o] EXCEPT !.pc = "list"]} : at' = [at EXCEPT ![o] = x]
    BY <1>5 DEF Register, Goto, Become
  <2>5. CASE x # Idle
    <3>1. x.saved = at[o].saved /\ x.via = at[o].via /\ x.pc \in {"store", "list"}
      BY <1>t, <2>4, <2>5 DEF OpState
    <3>2. QED BY <2>3, <2>4, <3>1
  <2>6. CASE x = Idle
    <3>1. Idle.pc = "idle" /\ at'[o] = Idle
      BY <1>t, <1>z, <2>4, <2>6
    <3>2. [at[o] EXCEPT !.wid = arrived, !.pc = "store"].pc = "store"
          /\ [at[o] EXCEPT !.pc = "list"].pc = "list"
      BY <1>t DEF OpState
    <3>3. at'[o].pc # "store" /\ at'[o].pc # "list"
      BY <3>1
    <3>4. Goto(o, "idle") /\ at[o].via # "relist"
      BY <1>5, <1>t, <3>2, <3>3 DEF Register, Goto, Become
    <3>5. QED BY <2>2, <3>4
  <2>7. QED BY <2>5, <2>6
<1>6. ASSUME NEW o \in Op, Gate(o) PROVE GapInv'
  <2>1. at[o].pc = "gate" /\ UNCHANGED <<cursor, handed>>
    BY <1>6 DEF Gate
  <2>2. CASE GiveUp(o) /\ UNCHANGED skipped
    BY <1>v, <2>1, <2>2
  <2>3. CASE /\ at[o].via # "reconnect" /\ UNCHANGED <<skipped, abandoned>>
             /\ Become(o, [at[o] EXCEPT !.since = pausedAt, !.pc = "snapshot"])
    <3> DEFINE x == [at[o] EXCEPT !.since = pausedAt, !.pc = "snapshot"]
    <3>1. at' = [at EXCEPT ![o] = x] /\ ~Exposed(o)
      BY <2>1, <2>3 DEF Become, Exposed
    <3>2. x.saved = at[o].saved
      BY <1>t DEF OpState
    <3> HIDE DEF x
    <3>3. QED BY <1>q, <2>1, <2>3, <3>1, <3>2
  <2>4. ASSUME NEW h \in {cursor, at[o].saved}, at[o].via = "reconnect", UNCHANGED abandoned,
               skipped' = skipped \cup (Between(at[o].saved, h) \ handed),
               at' = [at EXCEPT ![o] = [at[o] EXCEPT !.since = pausedAt, !.saved = h, !.pc = "list"]]
        PROVE  GapInv'
    <3> DEFINE x == [at[o] EXCEPT !.since = pausedAt, !.saved = h, !.pc = "list"]
    <3>1. at' = [at EXCEPT ![o] = x] /\ skipped \subseteq skipped'
      BY <2>4
    <3>2. x.saved = h /\ x.pc = "list" /\ x.via = at[o].via /\ at'[o] = x
      BY <1>t, <2>4 DEF OpState
    <3> HIDE DEF x
    <3>3. ASSUME NEW m \in Message, Covers(o, m) PROVE Accounted(m)'
      <4>1. at[o].saved < m /\ m \in Int /\ h \in Int
        BY <1>t, <2>1, <3>3 DEF Covers
      <4>2. CASE m <= h
        BY <2>1, <2>4, <4>1, <4>2 DEF Accounted, Between
      <4>3. CASE h < m
        <5>1. Covers(o, m)'
          BY <2>4, <3>2, <4>3 DEF Covers, Exposed, Recoveries
        <5>2. QED BY <5>1 DEF Accounted
      <4>4. QED BY <4>1, <4>2, <4>3
    <3>4. \A m \in Message : m <= x.saved => Passed(m)
      BY <2>4, <3>2 DEF Passed
    <3>5. \A m \in Message : m <= cursor' => Passed(m)
      BY <2>1 DEF Passed
    <3>6. QED BY <1>k, <2>1, <2>4, <3>1, <3>3, <3>4, <3>5
  <2>5. QED BY <1>6, <2>2, <2>3, <2>4 DEF Gate, Become
\* A watch is stored: what its cursor passes over, its own recovery lists.
<1>7. ASSUME NEW o \in Op, Store(o) PROVE GapInv'
  <2>1. /\ at[o].pc = "store" /\ UNCHANGED <<handed, abandoned>> /\ cursor' \in {cursor, at[o].wid}
    BY <1>7 DEF Store
  <2>2. CASE at[o].via \in Recoveries
    <3> DEFINE l == IF at[o].via = "reconnect" THEN "gate" ELSE "list"
               x == [at[o] EXCEPT !.wid = 0, !.pc = l]
    <3>1. at' = [at EXCEPT ![o] = x] /\ UNCHANGED skipped
      BY <1>7, <2>2 DEF Store, Become, Recoveries
    <3>2. x.saved = at[o].saved /\ x.pc = l /\ x.via = at[o].via /\ at'[o] = x
      BY <1>t, <3>1 DEF OpState
    <3> HIDE DEF x
    <3>3. Exposed(o)'
      BY <2>2, <3>2 DEF Exposed, Recoveries
    <3>4. \A m \in Message : at[o].saved < m => Covers(o, m)'
      BY <3>2, <3>3 DEF Covers
    <3>5. \A m \in Message : at[o].saved < m => Accounted(m)'
      BY <3>4 DEF Accounted
    <3>6. \A m \in Message : m <= cursor' => Passed(m) \/ Accounted(m)'
      BY <1>t, <3>5 DEF Passed
    <3>7. \A m \in Message : m <= x.saved => Passed(m)
      BY <3>2 DEF Passed
    <3>8. \A m \in Message : Covers(o, m) => Accounted(m)'
      BY <2>1, <3>5 DEF Covers
    <3>9. QED BY <1>k, <2>1, <3>1, <3>6, <3>7, <3>8
  <2>3. CASE at[o].via \in {"resume", "renew"}
    <3>1. /\ skipped' = skipped \cup (Between(cursor, cursor') \ handed)
          /\ at' = [at EXCEPT ![o] = Idle]
      BY <1>7, <2>3 DEF Store, Goto, Become, Recoveries
    <3>2. \A m \in Message : m <= cursor' => m <= cursor \/ m \in handed' \cup skipped'
      BY <1>t, <2>1, <3>1 DEF Between
    <3>3. \A m \in Message : m <= cursor' => Passed(m) \/ Accounted(m)'
      BY <3>2 DEF Passed, Accounted
    <3>4. \A m : ~Covers(o, m)
      BY <2>3 DEF Covers, Exposed, Recoveries
    <3>5. skipped \subseteq skipped' /\ handed \subseteq handed'
      BY <2>1, <3>1
    <3>6. QED BY <1>k, <1>z, <2>1, <3>1, <3>3, <3>4, <3>5
  <2>4. QED BY <1>7, <2>2, <2>3 DEF Store
\* The listing takes up what was covered, or says what it skips.
<1>8. ASSUME NEW o \in Op, List(o) PROVE GapInv'
  <2>1. at[o].pc = "list" /\ UNCHANGED <<cursor, handed>>
    BY <1>8 DEF List
  <2>2. CASE GiveUp(o) /\ UNCHANGED skipped
    BY <1>v, <2>1, <2>2
  <2>3. ASSUME NEW h \in Int, UNCHANGED abandoned, skipped \subseteq skipped',
               at' = [at EXCEPT ![o] = [Idle EXCEPT !.pc = "handOff", !.via = at[o].via,
                                                    !.todo = Between(h, arrived)]],
               \A m \in Message : at[o].saved < m /\ m <= h => m \in handed \cup skipped'
        PROVE  GapInv'
    <3> DEFINE x == [Idle EXCEPT !.pc = "handOff", !.via = at[o].via,
                               !.todo = Between(h, arrived)]
    <3>1. x.saved = 0 /\ x.pc = "handOff" /\ x.via = at[o].via /\ x.todo = Between(h, arrived)
      BY DEF Idle
    <3>2. at'[o] = x
      BY <1>t, <2>3
    <3> HIDE DEF x
    <3>3. \A m \in Message : m <= x.saved => Passed(m)
      BY <1>z, <3>1
    <3>4. \A m \in Message : m <= cursor' => Passed(m)
      BY <2>1 DEF Passed
    <3>5. ASSUME NEW m \in Message, Passed(m), Covers(o, m) PROVE Accounted(m)'
      <4>1. m <= arrived /\ m \in Nat
        BY <1>t, <3>5 DEF Passed
      <4>2. at[o].saved < m /\ Exposed(o)
        BY <2>1, <3>5 DEF Covers
      <4>3. CASE m <= h
        BY <2>1, <2>3, <4>2, <4>3 DEF Accounted
      <4>4. CASE h < m
        <5>1. m \in x.todo
          BY <3>1, <4>1, <4>4 DEF Between
        <5>2. Covers(o, m)'
          BY <3>1, <3>2, <4>2, <5>1 DEF Covers, Exposed, Recoveries
        <5>3. QED BY <5>2 DEF Accounted
      <4>5. QED BY <4>1, <4>3, <4>4
    <3>6. at' = [at EXCEPT ![o] = x]
      BY <2>3 DEF x
    <3>7. QED BY <1>k, <2>1, <2>3, <3>3, <3>4, <3>5, <3>6
  <2>4. CASE UNCHANGED <<skipped, abandoned>> /\ From(o, at[o].saved)
    <3>1. at[o].saved \in Int /\ skipped \subseteq skipped'
      BY <1>t, <2>4
    <3>2. \A m \in Message : ~(at[o].saved < m /\ m <= at[o].saved)
      BY <1>t
    <3>3. QED BY <2>3, <2>4, <3>1, <3>2 DEF From, Become
  <2>5. CASE /\ UNCHANGED abandoned
             /\ skipped' = skipped \cup (Between(at[o].saved, at[o].since) \ handed)
             /\ From(o, at[o].since)
    <3>1. at[o].since \in Int /\ skipped \subseteq skipped'
      BY <1>t, <2>5
    <3>2. \A m \in Message : at[o].saved < m /\ m <= at[o].since => m \in handed \cup skipped'
      BY <1>t, <2>5 DEF Between
    <3>3. QED BY <2>3, <2>5, <3>1, <3>2 DEF From, Become
  <2>6. CASE /\ UNCHANGED <<skipped, abandoned>>
             /\ Become(o, [at[o] EXCEPT !.via = "relist", !.pc = "register"])
    <3> DEFINE x == [at[o] EXCEPT !.via = "relist", !.pc = "register"]
    <3>1. at' = [at EXCEPT ![o] = x]
      BY <2>6 DEF Become
    <3>2. x.saved = at[o].saved /\ x.pc = "register" /\ x.via = "relist" /\ at'[o] = x
      BY <1>t, <3>1 DEF OpState
    <3> HIDE DEF x
    <3>3. \A m : Covers(o, m) => Covers(o, m)'
      BY <2>1, <3>2 DEF Covers, Exposed, Recoveries
    <3>4. \A m : Covers(o, m) => Accounted(m)'
      BY <3>3 DEF Accounted
    <3>5. \A m \in Message : m <= x.saved => Passed(m)
      BY <3>2 DEF Passed
    <3>6. \A m \in Message : m <= cursor' => Passed(m)
      BY <2>1 DEF Passed
    <3>7. QED BY <1>k, <2>1, <2>6, <3>1, <3>4, <3>5, <3>6
  <2>7. QED BY <1>8, <2>2, <2>4, <2>5, <2>6 DEF List
\* The messages listed are handed off one by one.
<1>9. ASSUME NEW o \in Op, HandOff(o) PROVE GapInv'
  <2>1. at[o].pc = "handOff" /\ UNCHANGED <<cursor, skipped>>
    BY <1>9 DEF HandOff
  <2>2. \A m \in Message : m <= cursor' => Passed(m)
    BY <2>1 DEF Passed
  <2>3. CASE at[o].todo = {}
    <3> DEFINE x == [at[o] EXCEPT !.pc = "clearPause"]
    <3>1. at' = [at EXCEPT ![o] = x] /\ UNCHANGED <<handed, abandoned>>
      BY <1>9, <2>3 DEF HandOff, Goto, Become
    <3>2. x.saved = at[o].saved
      BY <1>t DEF OpState
    <3> HIDE DEF x
    <3>3. \A m : ~Covers(o, m)
      BY <2>1, <2>3 DEF Covers
    <3>4. \A m \in Message : m <= x.saved => Passed(m)
      BY <3>2 DEF Passed
    <3>5. QED BY <1>k, <2>1, <2>2, <3>1, <3>3, <3>4
  <2>4. ASSUME NEW i \in at[o].todo, handed' = handed \cup {i}, UNCHANGED abandoned,
               at' = [at EXCEPT ![o] = [at[o] EXCEPT !.todo = at[o].todo \ {i}]]
        PROVE  GapInv'
    <3> DEFINE x == [at[o] EXCEPT !.todo = at[o].todo \ {i}]
    <3>1. x.saved = at[o].saved /\ x.pc = at[o].pc /\ x.via = at[o].via
          /\ x.todo = at[o].todo \ {i} /\ at'[o] = x
      BY <1>t, <2>4 DEF OpState
    <3>2. at' = [at EXCEPT ![o] = x]
      BY <2>4
    <3> HIDE DEF x
    <3>3. \A m : Covers(o, m) => Covers(o, m)' \/ m \in handed'
      BY <2>1, <2>4, <3>1 DEF Covers, Exposed
    <3>4. \A m : Covers(o, m) => Accounted(m)'
      BY <3>3 DEF Accounted
    <3>5. \A m \in Message : m <= x.saved => Passed(m)
      BY <3>1 DEF Passed
    <3>6. QED BY <1>k, <2>1, <2>2, <2>4, <3>2, <3>4, <3>5
  <2>5. CASE GiveUp(o) /\ UNCHANGED handed
    BY <1>v, <2>1, <2>5
  <2>6. QED BY <1>9, <2>3, <2>4, <2>5 DEF HandOff, Become
<1>10. ASSUME NEW o \in Op, Crash(o) PROVE GapInv'
  BY <1>10, <1>v DEF Crash
<1>11. QED
  BY <1>1, <1>2, <1>3, <1>4, <1>5, <1>6, <1>7, <1>8, <1>9, <1>10 DEF Next, Step

\* Every message the cursor has passed has its durable row, or is one a manual
\* resume, a renewal, the fallback query or a listing after the cursor was reset
\* passes over, once no recovery is between its watch and its hand-off and none has
\* ended there.
THEOREM NoGap == Spec => []GapFree
<1>1. Init => GapInv
  <2> SUFFICES ASSUME Init, NEW m \in Message, Passed(m) PROVE FALSE
    BY DEF GapInv
  <2>1. cursor = 0 /\ \A o \in Op : at[o].saved = 0
    BY DEF Init, Idle
  <2>2. QED BY <2>1, Limits DEF Passed, Message
<1>2. TypeInv /\ GapInv => GapFree
  <2> SUFFICES ASSUME TypeInv, GapInv, ~abandoned, \A o \in Op : ~Exposed(o),
                      NEW m \in 1..cursor
               PROVE  m \in handed \cup skipped
    BY DEF GapFree
  <2>1. m \in Message /\ m <= cursor
    BY Limits DEF TypeInv, TypeOK, Message
  <2>2. Accounted(m)
    BY <2>1 DEF GapInv, Passed
  <2>3. QED BY <2>2 DEF Accounted, Covers
<1>3. QED BY <1>1, <1>2, GapNext, TypeCorrect, PTL DEF Spec
=============================================================================

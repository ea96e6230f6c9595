---------------------------- MODULE AndroidLock ----------------------------
(***************************************************************************)
(* The Android lock (apps/mobile): a service that holds an overlay above   *)
(* every app, the lock it keeps on disk, the receiver that brings it back  *)
(* after a reboot or an update, and the app whose home screen polls the    *)
(* server and tells the service to engage or to release.                   *)
(*                                                                         *)
(* The app, the service and the two pages live in one process.  A call of  *)
(* the app to the service is an intent, delivered later and in order; an   *)
(* answer of the server is heard some time after it was given.  The home   *)
(* screen polls only while it is mounted: going to the lock screen         *)
(* replaces it.  The server is abstracted to the states of LockSession.    *)
(***************************************************************************)
EXTENDS Integers, Sequences

CONSTANTS
    Sessions,
    NoSession,
    Pollers,        \* slots: calls of refreshLock in flight
    Life,           \* MAX_LOCK_LIFETIME_MS
    MaxTime,        \* bound: the clock
    MaxDeaths,      \* bound: how often the process ends
    MaxIntents,     \* bound: intents not yet delivered
    FaultCases      \* the sets of faults that may happen together

FaultNames == {"permission",    \* the user revokes and grants the overlay
               "clock",         \* the user sets the clock
               "battery"}       \* a killed service may not be restarted

ASSUME ConstantsAssumption ==
    /\ NoSession \notin Sessions
    /\ Life \in Nat \ {0}
    /\ MaxTime \in Nat
    /\ MaxDeaths \in Nat
    /\ MaxIntents \in Nat \ {0}
    /\ FaultCases \subseteq SUBSET FaultNames

VARIABLES
    state,      \* LockSession.state; ENDED is BYPASSED or ABANDONED
    now,        \* System.currentTimeMillis
    may,        \* Settings.canDrawOverlays
    stored,     \* the lock in SharedPreferences
    up,         \* the service's overlay is attached
    posted,     \* a tearDown posted by the overlay's page
    started,    \* the service runs, and returned START_STICKY
    restart,    \* it was killed and the system will start it again
    booting,    \* BOOT_COMPLETED or MY_PACKAGE_REPLACED not yet received
    intents,    \* intents to the service, not yet delivered
    deaths,     \* how often the process has ended
    app,        \* the screen the app is on
    polls,      \* refreshLock's requests
    overtaken,  \* history: the unheard answers "no session" that a lock overtook
    faults,     \* what may happen in this behaviour
    lapsed,     \* history: see ScreenContract
    given       \* history: why the screen was last given back

serviceVars == <<stored, up, posted, started, restart, booting, intents, deaths>>
appVars     == <<app, polls, overtaken>>
worldVars   == <<now, may>>
vars == <<state, worldVars, serviceVars, appVars, faults, lapsed, given>>

Active == {"ARMED", "LOCKED"}
Over   == {"UNLOCKED", "ENDED"}
NoLock == [sid |-> NoSession, engagedAt |-> 0, expiresAt |-> 0]
Idle   == [at |-> "idle", sid |-> NoSession]
Asked  == [at |-> "asked", sid |-> NoSession]
Engage(s) == [action |-> "ENGAGE", sid |-> s, age |-> "prompt"]

(* The age is history: late, if an answer that was overtaken asked for it. *)
Ages == {"prompt", "late"}
Release(age) == [action |-> "RELEASE", sid |-> NoSession, age |-> age]

Init ==
    /\ state = [s \in Sessions |-> "none"]
    /\ now = 0
    /\ may = TRUE
    /\ stored = NoLock
    /\ up = FALSE
    /\ posted = FALSE
    /\ started = FALSE
    /\ restart = FALSE
    /\ booting = FALSE
    /\ intents = <<>>
    /\ deaths = 0
    /\ app = "off"
    /\ polls = [k \in Pollers |-> Idle]
    /\ overtaken = {}
    /\ faults \in FaultCases
    /\ lapsed = {}
    /\ given = "death"

Screen == IF up THEN stored.sid ELSE NoSession

(* LockState.isLive.                                                       *)
IsLive(l, t) ==
    /\ l # NoLock
    /\ l.expiresAt > t
    /\ l.engagedAt <= t + Life

----------------------------------------------------------------------------
(* The service.                                                            *)

Saved(s) == [sid |-> s, engagedAt |-> now, expiresAt |-> now + Life]

(* onStartCommand past its early return: the disk first, then the overlay, *)
(* which needs the permission only if it is not up yet.                    *)
EngageLock(s) ==
    /\ stored' = Saved(s)
    /\ up' = (up \/ may)
    /\ started' = up'

(* tearDown: the only thing that clears the lock of a running service.     *)
TearDown(age) ==
    /\ stored' = NoLock
    /\ up' = FALSE
    /\ started' = FALSE
    /\ given' = IF ~up THEN given
                ELSE IF age = "late" THEN "answer"
                ELSE IF state[stored.sid] = "UNLOCKED" THEN "token" ELSE "server"

(* An intent of the app or of the boot receiver is delivered.              *)
StartCommand ==
    /\ intents # <<>>
    /\ intents' = Tail(intents)
    /\ CASE Head(intents).action = "RELEASE" -> TearDown(Head(intents).age) /\ posted' = FALSE
         [] OTHER -> EngageLock(Head(intents).sid) /\ UNCHANGED <<given, posted>>
    /\ UNCHANGED <<state, worldVars, appVars, restart, booting, deaths>>

(* START_STICKY: the null intent, answered from the disk alone.            *)
Restarted ==
    /\ restart
    /\ restart' = FALSE
    /\ IF stored = NoLock
       THEN UNCHANGED <<stored, up, started>>
       ELSE EngageLock(stored.sid)
    /\ UNCHANGED <<state, worldVars, appVars, posted, booting, intents, deaths, given>>

(* UnlockBridge's post reaches the main thread.                            *)
RunPosted ==
    /\ posted
    /\ posted' = FALSE
    /\ TearDown("prompt")
    /\ UNCHANGED <<state, worldVars, appVars, restart, booting, intents, deaths>>

(* The process ends, by whatever means, and with it the window and         *)
(* everything in flight; the disk keeps the lock.                          *)
Die ==
    /\ deaths < MaxDeaths
    /\ deaths' = deaths + 1
    /\ up' = FALSE
    /\ posted' = FALSE
    /\ started' = FALSE
    /\ app' = "off"
    /\ polls' = [k \in Pollers |-> Idle]
    /\ overtaken' = {}
    /\ given' = IF up THEN "death" ELSE given
    /\ UNCHANGED <<state, worldVars>>

(* Mutant: onDestroy clears the lock, as tearDown does.                    *)
MutantKill ==
    /\ Die
    /\ restart' = (started \/ restart)
    /\ stored' = NoLock
    /\ UNCHANGED <<intents, booting>>

(* Mutant: START_NOT_STICKY.                                               *)
MutantNotSticky ==
    /\ Die
    /\ restart' = FALSE
    /\ UNCHANGED <<intents, stored, booting>>

(* Killed for memory.  Undelivered intents may be delivered to the next    *)
(* process.                                                                *)
Kill ==
    /\ Die
    /\ restart' \in {started \/ restart} \cup IF "battery" \in faults THEN {FALSE} ELSE {}
    /\ intents' \in {intents} \cup IF "battery" \in faults THEN {<<>>} ELSE {}
    /\ UNCHANGED <<stored, booting>>

(* A reboot, or an update of the app.                                      *)
Reboot ==
    /\ Die
    /\ restart' = FALSE
    /\ intents' = <<>>
    /\ booting' = TRUE
    /\ UNCHANGED stored

(* BootReceiver.onReceive.                                                 *)
BootReceived ==
    /\ booting
    /\ booting' = FALSE
    /\ stored' = IF IsLive(stored, now) THEN stored ELSE NoLock
    /\ Len(intents) < MaxIntents
    /\ intents' = IF IsLive(stored, now) /\ may
                  THEN Append(intents, Engage(stored.sid)) ELSE intents
    /\ UNCHANGED <<state, worldVars, appVars, up, posted, started, restart, deaths, given>>

----------------------------------------------------------------------------
(* The app.                                                                *)

Launch ==
    /\ app = "off"
    /\ app' = "home"
    /\ UNCHANGED <<state, worldVars, serviceVars, polls, overtaken, given>>

(* Swiped from Recents: the activity goes, the process and its requests    *)
(* stay.                                                                   *)
Swipe ==
    /\ app # "off"
    /\ app' = "off"
    /\ UNCHANGED <<state, worldVars, serviceVars, polls, overtaken, given>>

(* refreshLock, up to its request.                                         *)
Ask(k) ==
    /\ app = "home"
    /\ polls[k] = Idle
    /\ polls' = [polls EXCEPT ![k] = Asked]
    /\ UNCHANGED <<state, worldVars, serviceVars, app, overtaken, given>>

(* GET /lock/active.                                                       *)
Answers ==
    IF \E s \in Sessions : state[s] \in Active
    THEN {[at |-> state[s], sid |-> s] : s \in {x \in Sessions : state[x] \in Active}}
    ELSE {[at |-> "none", sid |-> NoSession]}

Answer(k) ==
    /\ polls[k] = Asked
    /\ \E a \in Answers : polls' = [polls EXCEPT ![k] = a]
    /\ UNCHANGED <<state, worldVars, serviceVars, app, overtaken, given>>

(* Mutant: a request that failed reads as no session.                      *)
MutantFail(k) ==
    /\ polls[k] = Asked
    /\ polls' = [polls EXCEPT ![k] = [at |-> "none", sid |-> NoSession]]
    /\ UNCHANGED <<state, worldVars, serviceVars, app, overtaken, given>>

(* Offline: nothing changes.                                               *)
Fail(k) ==
    /\ polls[k] = Asked
    /\ polls' = [polls EXCEPT ![k] = Idle]
    /\ UNCHANGED <<state, worldVars, serviceVars, app, overtaken, given>>

AgeOf(k) == IF k \in overtaken THEN "late" ELSE "prompt"

ToLock == IF app = "off" THEN app ELSE "lock"

(* Mutant: engages only what is not locked already, releases nothing.      *)
MutantHear(k) ==
    /\ polls[k].at \in {"none", "ARMED", "LOCKED"}
    /\ polls' = [polls EXCEPT ![k] = Idle]
    /\ Len(intents) < MaxIntents
    /\ intents' = IF polls[k].at = "LOCKED" /\ may /\ ~IsLive(stored, now)
                  THEN Append(intents, Engage(polls[k].sid)) ELSE intents
    /\ app' = IF polls[k].at = "LOCKED" THEN ToLock ELSE app
    /\ UNCHANGED <<state, worldVars, overtaken, stored, up, posted, started, restart, booting,
                   deaths, given>>

(* refreshLock, from its answer on.                                        *)
Hear(k) ==
    /\ polls[k].at \in {"none", "ARMED", "LOCKED"}
    /\ polls' = [polls EXCEPT ![k] = Idle]
    /\ Len(intents) < MaxIntents
    /\ CASE polls[k].at = "none" ->
              /\ intents' = IF IsLive(stored, now)
                            THEN Append(intents, Release(AgeOf(k))) ELSE intents
              /\ overtaken' = overtaken \ {k}
              /\ UNCHANGED app
         [] polls[k].at = "LOCKED" ->
              /\ intents' = IF may THEN Append(intents, Engage(polls[k].sid)) ELSE intents
              /\ overtaken' = IF may THEN {l \in Pollers : polls[l].at = "none"} ELSE overtaken
              /\ app' = ToLock
         [] OTHER -> UNCHANGED <<intents, app, overtaken>>
    /\ UNCHANGED <<state, worldVars, stored, up, posted, started, restart, booting,
                   deaths, given>>

----------------------------------------------------------------------------
(* The pages and the server.                                               *)

(* The page of the overlay hears that the learner solved the problem.      *)
SolveInOverlay(s) ==
    /\ up
    /\ state[s] = "LOCKED"
    /\ state' = [state EXCEPT ![s] = "UNLOCKED"]
    /\ posted' = TRUE
    /\ UNCHANGED <<worldVars, appVars, stored, up, started, restart, booting, intents,
                   deaths, given>>

(* The page of the app's own lock screen does.                             *)
SolveInApp(s) ==
    /\ app = "lock"
    /\ state[s] = "LOCKED"
    /\ state' = [state EXCEPT ![s] = "UNLOCKED"]
    /\ Len(intents) < MaxIntents
    /\ intents' = Append(intents, Release("prompt"))
    /\ app' = "home"
    /\ UNCHANGED <<worldVars, polls, overtaken, stored, up, posted, started, restart, booting,
                   deaths, given>>

Arm(s) ==
    /\ state[s] = "none"
    /\ \A t \in Sessions : state[t] \notin Active
    /\ state' = [state EXCEPT ![s] = "ARMED"]
    /\ UNCHANGED <<worldVars, serviceVars, appVars, given>>

(* A timer takes a minute or more; a message inside the phone does not     *)
(* wait for the next session's deadline.                                   *)
InTransit == posted \/ \E i \in DOMAIN intents : intents[i].action = "RELEASE"

(* The deadline passes and a sweep of the server locks the session.        *)
Fire(s) ==
    /\ state[s] = "ARMED"
    /\ ~InTransit
    /\ state' = [state EXCEPT ![s] = "LOCKED"]
    /\ UNCHANGED <<worldVars, serviceVars, appVars, given>>

(* A cancel, a skip, the reaper, another device, or a solve whose answer   *)
(* the page did not get.                                                   *)
End(s) ==
    /\ state[s] \in Active
    /\ \E over \in Over :
          /\ over = "UNLOCKED" => state[s] = "LOCKED"
          /\ state' = [state EXCEPT ![s] = over]
    /\ UNCHANGED <<worldVars, serviceVars, appVars, given>>

(* The broadcast of a boot does not take the hours a lock lives: if the    *)
(* app was quicker to raise its overlay, the clock waits for it.           *)
Settled == ~(booting /\ up)

Tick ==
    /\ now < MaxTime
    /\ Settled
    /\ now' = now + 1
    /\ UNCHANGED <<state, may, serviceVars, appVars, given>>

SetClock ==
    /\ "clock" \in faults
    /\ Settled
    /\ now' \in 0 .. MaxTime
    /\ UNCHANGED <<state, may, serviceVars, appVars, given>>

Permit ==
    /\ "permission" \in faults
    /\ may' = ~may
    /\ UNCHANGED <<state, now, serviceVars, appVars, given>>

ServiceStep == StartCommand \/ Restarted \/ RunPosted \/ Kill \/ Reboot \/ BootReceived
AppStep     == Launch \/ Swipe \/ (\E k \in Pollers : Ask(k) \/ Answer(k) \/ Fail(k) \/ Hear(k))
SessionStep == \E s \in Sessions :
                  SolveInOverlay(s) \/ SolveInApp(s) \/ Arm(s) \/ Fire(s) \/ End(s)
WorldStep   == Tick \/ SetClock \/ Permit

Step == ServiceStep \/ AppStep \/ SessionStep \/ WorldStep

Note ==
    /\ lapsed' = lapsed \cup {s \in Sessions : Screen' = s /\ state'[s] # "LOCKED"}
    /\ UNCHANGED faults

Next == Step /\ Note

Spec == Init /\ [][Next]_vars

(* What the phone and the server see to: intents, posts, restarts and      *)
(* broadcasts are delivered, and deadlines are swept.                      *)
PhoneSpec ==
    /\ Spec
    /\ WF_vars(StartCommand /\ Note)
    /\ WF_vars(RunPosted /\ Note)
    /\ WF_vars(Restarted /\ Note)
    /\ WF_vars(BootReceived /\ Note)
    /\ \A s \in Sessions : WF_vars(Fire(s) /\ Note)

(* And, while the home screen is mounted, its polls: one at each mount, so *)
(* however briefly it is; a poll is answered if it is not answered only    *)
(* finitely often.                                                         *)
AppSpec ==
    /\ PhoneSpec
    /\ \A k \in Pollers : /\ SF_vars(Ask(k) /\ Note)
                          /\ SF_vars(Answer(k) /\ Note)
                          /\ SF_vars(Hear(k) /\ Note)

----------------------------------------------------------------------------
Locks == [sid : Sessions, engagedAt : Nat, expiresAt : Nat] \cup {NoLock}

(* Every reachable state of the service, the app and their messages is     *)
(* well typed.                                                             *)
TypeOK ==
    /\ state \in [Sessions -> {"none"} \cup Active \cup Over]
    /\ now \in Nat
    /\ may \in BOOLEAN
    /\ stored \in Locks
    /\ up \in BOOLEAN
    /\ posted \in BOOLEAN
    /\ started \in BOOLEAN
    /\ restart \in BOOLEAN
    /\ booting \in BOOLEAN
    /\ intents \in Seq({Release(age) : age \in Ages} \cup {Engage(s) : s \in Sessions})
    /\ deaths \in 0 .. MaxDeaths
    /\ app \in {"off", "home", "lock"}
    /\ polls \in [Pollers -> {Idle, Asked, [at |-> "none", sid |-> NoSession]}
                             \cup [at : Active, sid : Sessions]]
    /\ overtaken \subseteq {k \in Pollers : polls[k].at = "none"}
    /\ faults \in FaultCases
    /\ lapsed \subseteq Sessions
    /\ given \in {"token", "server", "death", "answer"}

LateRelease == intents # <<>> /\ Head(intents) = Release("late") /\ intents' = Tail(intents)

(* An overlay is never up without a lock on disk to bring it back: the     *)
(* service saves before it draws, and what clears the lock takes the       *)
(* window.  And the lock on disk goes only when its session is over, or it *)
(* is no longer live, or on an answer "no session" which a later call's    *)
(* engaging had overtaken (index.tsx:77): neither a death, a reboot, an    *)
(* update, a failed request nor an answer that is up to date is an unlock, *)
(* however many calls overlap.                                             *)
KeptOnDisk ==
    [][/\ up' => stored' # NoLock
       /\ stored # NoLock /\ stored' = NoLock =>
             state[stored.sid] \in Over \/ ~IsLive(stored, now) \/ LateRelease]_vars

(* index.tsx:79 says the server says nothing is locked: no release is sent *)
(* on an answer that is no longer so, and the lock on disk stays.          *)
KeptWhateverIsHeard ==
    [][stored # NoLock /\ stored' = NoLock =>
          state[stored.sid] \in Over \/ ~IsLive(stored, now)]_vars

(* The screen is given back for the reasons of the contract the desktop    *)
(* shell keeps too.                                                        *)
standing == [s \in Sessions |->
    CASE state[s] = "LOCKED"   -> "locked"
      [] state[s] = "UNLOCKED" -> "solved"
      [] state[s] = "ENDED"    -> "over"
      [] OTHER                 -> "open"]

Contract == INSTANCE ScreenContract WITH
    Sessions <- Sessions, NoSession <- NoSession, standing <- standing,
    screen <- Screen, lapsed <- lapsed, given <- given,
    Causes <- {"token", "server", "death", "answer"}

ImplementsScreenContract == Contract!Spec

(* BootReceiver.kt:91 says rebooting is no unlock, and the service that a  *)
(* killed one comes back: while the permission stands and the system       *)
(* restarts what it kills, a lock on disk is raised again without the app, *)
(* however the clock is set.                                               *)
StoredIsRaised ==
    "battery" \notin faults /\ []may => (stored # NoLock ~> up \/ stored = NoLock)

(* If the home screen is opened again and again, a locked session gets the *)
(* screen and a session that is over gives it back, although the system    *)
(* kills the service for good and answers are lost: as long as the clock   *)
(* and the permission are left alone and no lock outlives its window.      *)
Unexpired == stored # NoLock => IsLive(stored, now)

ScreenFollows ==
    faults \subseteq {"battery"} /\ []<>(app = "home") /\ []Unexpired =>
        \A s \in Sessions :
            /\ state[s] = "LOCKED" ~> up \/ state[s] # "LOCKED"
            /\ Screen = s /\ state[s] \in Over ~> Screen # s

(* index.tsx:64 polls so that an overlay whose session is over comes down: *)
(* one that has outlived its window stays up.                              *)
EndedScreensOpen ==
    []<>(app = "home") =>
        \A s \in Sessions : Screen = s /\ state[s] \in Over ~> Screen # s

(* index.tsx:79 says an overlay that is up when nothing is locked is stale *)
(* and drops it: while the app is open, on whatever screen, it does not    *)
(* stay.                                                                   *)
StaleOverlaysDrop ==
    <>[](app # "off") => \A s \in Sessions : Screen = s /\ state[s] \in Over ~> Screen # s

(* LockState.kt:74 says a lock past its window is debris: what comes back  *)
(* from the disk alone is still live.                                      *)
RaisedOnlyWhileLive ==
    [][~up /\ up' /\ intents = <<>> => IsLive(stored, now)]_vars

(* LockState.kt:26 says twelve hours are the longest a lock is honoured:   *)
(* the expiry of a session's lock does not move.                           *)
ExpiryStays ==
    [][stored.sid = stored'.sid => stored'.expiresAt <= stored.expiresAt]_vars

(* LockState.kt:79 says a clock rolled forward does not manufacture a      *)
(* longer lock than allowed.                                               *)
NoLongerThanAllowed == IsLive(stored, now) => stored.expiresAt - now <= Life

=============================================================================

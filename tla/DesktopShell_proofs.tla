------------------------ MODULE DesktopShell_proofs ------------------------
(***************************************************************************)
(* Proofs about DesktopShell: its types, that the lock on disk is the one  *)
(* held, and that it implements ScreenContract, for any number of          *)
(* sessions, calls in flight, polls, deaths and moved deadlines.           *)
(***************************************************************************)
EXTENDS DesktopShell, TLAPS

(* What TypeOK rests on: a file counts one interruption a death at most, a *)
(* paused countdown may still be resumed, a dead process waits for nothing.*)
Counted ==
    /\ file.interruptions <= deaths
    /\ ~alive /\ file # NoFile => file.interruptions < deaths
    /\ \A s \in Sessions : died[s] <= deaths
    /\ \A s \in Sessions : clock[s] \in Paused => moves[s] < MaxMoves
    /\ ~alive => timer = NoTimer

Typed == TypeOK /\ Counted

USE ConstantsAssumption

USE DEF vars, serverVars, takeVars, pageVars, noteVars

LEMMA TypedInit == Init => Typed
<1> SUFFICES ASSUME Init PROVE Typed
  OBVIOUS
<1> USE DEF Init
<1>1. /\ view = NoView /\ timer = NoTimer /\ file = NoFile
      /\ MaxDeaths \in Nat /\ MaxMoves \in Nat
  OBVIOUS
<1>2. file.interruptions = 0
  BY DEF NoFile
<1>3. TypeOK
  <2>1. /\ timer \in [sid : Sessions, moves : 0 .. MaxMoves] \cup {NoTimer}
        /\ view \in [sid : Sessions, state : {"ARMED", "LOCKED"}, paused : BOOLEAN,
                     moves : 0 .. MaxMoves, zero : BOOLEAN] \cup {NoView}
        /\ file \in [sid : Sessions, interruptions : 0 .. MaxDeaths] \cup {NoFile}
    BY <1>1
  <2>2. 0 \in 0 .. MaxDeaths /\ 0 \in 0 .. MaxMoves
    BY <1>1
  <2> QED
    BY <2>1, <2>2 DEF TypeOK, Polls, Over, Paused
<1>4. Counted
  BY <1>1, <1>2 DEF Counted, Paused
<1> QED
  BY <1>3, <1>4 DEF Typed

LEMMA TypedStutter == ASSUME Typed, UNCHANGED vars PROVE Typed'
BY DEF Typed, TypeOK, Counted, Polls, ActiveSession

LEMMA TypedNext == ASSUME Typed, Next PROVE Typed'
<1> USE DEF Typed, TypeOK, Counted, Over, Paused, Polls, Elsewhere
<1>0. Note
  BY DEF Next
<1>1. ASSUME Boot PROVE Typed'
  <2> USE <1>1 DEF Boot
  <2>1. file' \in [sid : Sessions, interruptions : 0 .. deaths] \cup {NoFile}
    BY DEF Written, Cleared
  <2>2. /\ file'.interruptions <= deaths'
        /\ alive'
    BY <2>1 DEF NoFile
  <2>3. file' \in [sid : Sessions, interruptions : 0 .. MaxDeaths] \cup {NoFile}
    BY <2>1
  <2>4. /\ at' \in [Takers -> {"idle", "asked", "claims", "ok", "refused", "failed", "waiting"}]
        /\ about' \in [Takers -> Sessions \cup {NoSession}]
        /\ \A k \in Takers : at'[k] = "idle" <=> about'[k] = NoSession
    <3>1. CASE UNCHANGED takeVars
      BY <3>1
    <3>2. CASE file' # NoFile /\ Restore(file')
      BY <3>2, <2>1 DEF Restore
    <3> QED
      BY <3>1, <3>2, <2>1 DEF Restore
  <2>5. Counted'
    BY <2>2, <2>1
  <2>6. TypeOK'
    BY <1>0, <2>2, <2>3, <2>4 DEF Note
  <2> QED
    BY <2>5, <2>6
<1>2. ASSUME Die PROVE Typed'
  <2> USE <1>2 DEF Die
  <2>1. /\ file.interruptions <= deaths
        /\ file.interruptions \in Int
        /\ deaths' = deaths + 1 /\ deaths \in 0 .. MaxDeaths /\ deaths < MaxDeaths
    BY DEF NoFile
  <2>2. /\ died' \in [Sessions -> 0 .. MaxDeaths]
        /\ \A s \in Sessions : died'[s] <= deaths'
    BY <2>1
  <2>3. Counted'
    BY <2>1, <2>2
  <2>4. /\ view' = NoView /\ timer' = NoTimer /\ file' = file
        /\ deaths' \in 0 .. MaxDeaths
    BY <2>1
  <2>5. /\ at' \in [Takers -> {"idle", "asked", "claims", "ok", "refused", "failed", "waiting"}]
        /\ about' \in [Takers -> Sessions \cup {NoSession}]
        /\ \A k \in Takers : at'[k] = "idle" /\ about'[k] = NoSession
    OBVIOUS
  <2>6. TypeOK'
    BY <1>0, <2>2, <2>4, <2>5 DEF Note
  <2> QED
    BY <2>3, <2>6
<1>3. ASSUME TimerFires PROVE Typed'
  BY <1>0, <1>3 DEF TimerFires, Note, TakeScreenFor, NoTimer
<1>4. ASSUME WatchdogAsks PROVE Typed'
  BY <1>0, <1>4 DEF WatchdogAsks, Note
<1>5. ASSUME KillSwitch PROVE Typed'
  BY <1>0, <1>5 DEF KillSwitch, Note, ReleaseLock, Cleared, NoFile, NoTimer
<1>6. ASSUME PageLoads PROVE Typed'
  BY <1>0, <1>6 DEF PageLoads, Note, Schedule, NoView, NoTimer
<1>7. ASSUME DashboardPolls PROVE Typed'
  BY <1>0, <1>7 DEF DashboardPolls, Note, Snapshot, ActiveSession, Schedule, Fired, Deadline, NoView, NoTimer
<1>8. ASSUME CountsDown PROVE Typed'
  <2> USE <1>8 DEF CountsDown
  <2>1. view # NoView
    BY DEF NoView
  <2>2. view' \in [sid : Sessions, state : {"ARMED", "LOCKED"}, paused : BOOLEAN,
                   moves : 0 .. MaxMoves, zero : BOOLEAN]
    BY <2>1
  <2> QED
    BY <1>0, <2>2 DEF Note
<1>9. ASSUME PageCallsLock PROVE Typed'
  BY <1>0, <1>9 DEF PageCallsLock, Note, LockCalled, EngageLock, TakeScreenFor, Written, NewLock, Fired, NoView, NoFile, NoTimer
<1>10. ASSUME LockPagePolls PROVE Typed'
  BY <1>0, <1>10 DEF LockPagePolls, Note, Snapshot, ActiveSession, NoView
<1>11. ASSUME CloseWindow \/ OpenWindow PROVE Typed'
  BY <1>0, <1>11 DEF CloseWindow, OpenWindow, Note, NoView
<1>12. ASSUME NEW k \in Takers, Confirmed(k) PROVE Typed'
  BY <1>0, <1>12 DEF Confirmed, Note, CallSettles, EngageLock, Written, NewLock, NoFile, NoTimer
<1>13. ASSUME NEW k \in Takers, Unconfirmed(k) \/ Retry(k) PROVE Typed'
  BY <1>0, <1>13 DEF Unconfirmed, Retry, Note, CallSettles
<1>14. ASSUME NEW k \in Takers, EngageRead(k) \/ EngageClaim(k) \/ EngageFails(k) PROVE Typed'
  BY <1>0, <1>14 DEF EngageRead, EngageClaim, EngageFails, Note
<1>15. ASSUME NEW p \in polls, PollAnswered(p) \/ PollFails(p) PROVE Typed'
  BY <1>0, <1>15 DEF PollAnswered, PollFails, Verdict, Unreachable, Note
<1>16. ASSUME NEW p \in polls, WatchdogHears(p) PROVE Typed'
  BY <1>0, <1>16 DEF WatchdogHears, Concerns, ReleaseLock, Cleared, Note, NoFile, NoTimer
<1>17. ASSUME NEW s \in Sessions, Unlock(s) PROVE Typed'
  BY <1>0, <1>17 DEF Unlock, ReleaseLock, Cleared, Note, NoFile, NoTimer
<1>18. ASSUME NEW s \in Sessions, TokenLost(s) \/ Solve(s) PROVE Typed'
  BY <1>0, <1>18 DEF TokenLost, Solve, Note
<1>19. ASSUME NEW s \in Sessions, Arm(s) \/ Expire(s) \/ SweepEngages(s) PROVE Typed'
  BY <1>0, <1>19 DEF Arm, Expire, SweepEngages, Note
<1>20. ASSUME NEW s \in Sessions, Pause(s) PROVE Typed'
  BY <1>0, <1>20 DEF Pause, Note
<1>21. ASSUME NEW s \in Sessions, Resume(s) PROVE Typed'
  BY <1>0, <1>21 DEF Resume, Note
<1>22. ASSUME NEW s \in Sessions, EndElsewhere(s) \/ AbandonArrives(s) \/ AbandonLost(s) PROVE Typed'
  BY <1>0, <1>22 DEF EndElsewhere, AbandonArrives, AbandonLost, ActiveSession, Note
<1> QED
  BY <1>1, <1>2, <1>3, <1>4, <1>5, <1>6, <1>7, <1>8, <1>9, <1>10, <1>11, <1>12, <1>13,
     <1>14, <1>15, <1>16, <1>17, <1>18, <1>19, <1>20, <1>21, <1>22 DEF Next, Step

(* Every reachable state of the shell, its pages and its file is well      *)
(* typed.                                                                  *)
THEOREM TypeCorrect == Spec => []TypeOK
<1>1. Init => Typed
  BY TypedInit
<1>2. Typed /\ [Next]_vars => Typed'
  BY TypedStutter, TypedNext
<1>3. Typed => TypeOK
  BY DEF Typed
<1> QED
  BY <1>1, <1>2, <1>3, PTL DEF Spec

LEMMA AlwaysTyped == Spec => []Typed
<1>1. Init => Typed
  BY TypedInit
<1>2. Typed /\ [Next]_vars => Typed'
  BY TypedStutter, TypedNext
<1> QED
  BY <1>1, <1>2, PTL DEF Spec

----------------------------------------------------------------------------
(* While the disk works the lock on disk is the one that is held.          *)

LEMMA HeldNext == ASSUME Typed, Typed', HeldIsOnDisk, Next PROVE HeldIsOnDisk'
<1> USE DEF HeldIsOnDisk
<1>0. faults' = faults
  BY DEF Next, Note
<1>1. CASE held' = held /\ file' = file
  BY <1>0, <1>1
<1>2. CASE held' = NoSession
  BY <1>0, <1>2
<1>3. ASSUME Boot PROVE HeldIsOnDisk'
  BY <1>0, <1>3 DEF Boot, Typed, TypeOK
<1>4. ASSUME PageCallsLock PROVE HeldIsOnDisk'
  BY <1>0, <1>4 DEF PageCallsLock, LockCalled, EngageLock, Written, NewLock
<1>5. ASSUME NEW k \in Takers, Confirmed(k) PROVE HeldIsOnDisk'
  BY <1>0, <1>5 DEF Confirmed, EngageLock, Written, NewLock
<1>6. ASSUME KillSwitch \/ (\E p \in polls : WatchdogHears(p)) \/ (\E s \in Sessions : Unlock(s))
      PROVE  HeldIsOnDisk'
  BY <1>1, <1>2, <1>6 DEF KillSwitch, WatchdogHears, Unlock, ReleaseLock
<1>7. ASSUME Die PROVE HeldIsOnDisk'
  BY <1>2, <1>7 DEF Die
<1>8. ASSUME TimerFires \/ WatchdogAsks \/ PageLoads \/ DashboardPolls \/ CountsDown
             \/ LockPagePolls \/ CloseWindow \/ OpenWindow
      PROVE  HeldIsOnDisk'
  BY <1>1, <1>8 DEF TimerFires, WatchdogAsks, PageLoads, DashboardPolls, CountsDown,
     LockPagePolls, CloseWindow, OpenWindow
<1>9. ASSUME NEW k \in Takers,
             Unconfirmed(k) \/ Retry(k) \/ EngageRead(k) \/ EngageClaim(k) \/ EngageFails(k)
      PROVE  HeldIsOnDisk'
  BY <1>1, <1>9 DEF Unconfirmed, Retry, EngageRead, EngageClaim, EngageFails, Elsewhere
<1>10. ASSUME NEW p \in polls, PollAnswered(p) \/ PollFails(p) PROVE HeldIsOnDisk'
  BY <1>1, <1>10 DEF PollAnswered, PollFails
<1>11. ASSUME NEW s \in Sessions,
              \/ TokenLost(s) \/ Solve(s) \/ Arm(s) \/ Expire(s) \/ SweepEngages(s)
              \/ Pause(s) \/ Resume(s) \/ EndElsewhere(s) \/ AbandonArrives(s) \/ AbandonLost(s)
       PROVE  HeldIsOnDisk'
  BY <1>1, <1>11 DEF TokenLost, Solve, Arm, Expire, SweepEngages, Pause, Resume,
     EndElsewhere, AbandonArrives, AbandonLost, Elsewhere
<1> QED
  BY <1>3, <1>4, <1>5, <1>6, <1>7, <1>8, <1>9, <1>10, <1>11 DEF Next, Step

(* A process that dies holding a session comes back from a file that names *)
(* it, however many calls took the screen at once.                         *)
THEOREM HeldOnDisk == Spec => []HeldIsOnDisk
<1>1. Init => HeldIsOnDisk
  BY DEF Init, HeldIsOnDisk
<1>2. Typed /\ Typed' /\ HeldIsOnDisk /\ [Next]_vars => HeldIsOnDisk'
  BY HeldNext DEF HeldIsOnDisk
<1> QED
  BY <1>1, <1>2, AlwaysTyped, PTL DEF Spec

----------------------------------------------------------------------------
(* The shell implements ScreenContract.                                    *)
(*                                                                         *)
(* A verdict that opens the screen was given for the session it opens: the *)
(* session of a poll was covered when the poll was asked, so it was locked *)
(* then or has lapsed, and a verdict that is not LOCKED leaves it lapsed   *)
(* or over; if the screen is covered for it again, it lapses then.         *)
LapseInv ==
    /\ \A s \in tokens : state[s] = "UNLOCKED"
    /\ \A s \in Sessions : held = s /\ state[s] # "LOCKED" => s \in lapsed
    /\ \A p \in polls :
          /\ p.sid \in lapsed \/ state[p.sid] \in {"LOCKED"} \cup Over
          /\ p.answer = "release" => p.sid \in lapsed \/ state[p.sid] \in Over

(* What a step may do to a session's state.                                *)
Advances ==
    \A s \in Sessions :
        \/ state'[s] = state[s]
        \/ state[s] = "none" /\ state'[s] = "ARMED"
        \/ state[s] = "ARMED" /\ state'[s] \in {"LOCKED", "ENDED"}
        \/ state[s] = "LOCKED" /\ state'[s] \in Over

(* The steps that leave the screen alone.                                  *)
Quiet ==
    \/ TimerFires \/ WatchdogAsks \/ PageLoads \/ DashboardPolls \/ CountsDown
    \/ LockPagePolls \/ CloseWindow \/ OpenWindow \/ Boot
    \/ \E k \in Takers : Unconfirmed(k) \/ Retry(k) \/ EngageRead(k) \/ EngageClaim(k) \/ EngageFails(k)
    \/ \E p \in polls : PollAnswered(p) \/ PollFails(p)
    \/ \E s \in Sessions :
          \/ TokenLost(s) \/ Solve(s) \/ Arm(s) \/ Expire(s) \/ SweepEngages(s)
          \/ Pause(s) \/ Resume(s) \/ EndElsewhere(s) \/ AbandonArrives(s) \/ AbandonLost(s)

LEMMA QuietStep ==
    ASSUME Typed, Quiet
    PROVE  Advances /\ UNCHANGED <<held, given>>
<1> USE DEF Typed, TypeOK, Advances
<1>1. CASE TimerFires \/ WatchdogAsks \/ PageLoads \/ DashboardPolls \/ CountsDown
             \/ LockPagePolls \/ CloseWindow \/ OpenWindow \/ Boot
  BY <1>1 DEF TimerFires, WatchdogAsks, PageLoads, DashboardPolls, CountsDown,
     LockPagePolls, CloseWindow, OpenWindow, Boot
<1>2. ASSUME NEW k \in Takers, Unconfirmed(k) \/ Retry(k) \/ EngageRead(k) \/ EngageFails(k)
      PROVE  Advances /\ UNCHANGED <<held, given>>
  BY <1>2 DEF Unconfirmed, Retry, EngageRead, EngageFails, Elsewhere
<1>3. ASSUME NEW k \in Takers, EngageClaim(k)
      PROVE  Advances /\ UNCHANGED <<held, given>>
  BY <1>3 DEF EngageClaim, Elsewhere
<1>4. ASSUME NEW p \in polls, PollAnswered(p) \/ PollFails(p)
      PROVE  Advances /\ UNCHANGED <<held, given>>
  BY <1>4 DEF PollAnswered, PollFails
<1>5. ASSUME NEW s \in Sessions,
             TokenLost(s) \/ Expire(s) \/ Pause(s) \/ Resume(s) \/ AbandonLost(s)
      PROVE  Advances /\ UNCHANGED <<held, given>>
  BY <1>5 DEF TokenLost, Expire, Pause, Resume, AbandonLost, Elsewhere
<1>6. ASSUME NEW s \in Sessions,
             Solve(s) \/ Arm(s) \/ SweepEngages(s) \/ EndElsewhere(s) \/ AbandonArrives(s)
      PROVE  Advances /\ UNCHANGED <<held, given>>
  BY <1>6 DEF Solve, Arm, SweepEngages, EndElsewhere, AbandonArrives, Elsewhere, ActiveSession, Over
<1> QED
  BY <1>1, <1>2, <1>3, <1>4, <1>5, <1>6 DEF Quiet

(* The steps that cover the screen, and those that give it back.           *)
LEMMA CoverStep ==
    ASSUME Typed, PageCallsLock \/ (\E k \in Takers : Confirmed(k))
    PROVE  /\ UNCHANGED <<state, given>>
           /\ held' = held \/ held' \in Sessions
<1> USE DEF Typed, TypeOK
<1>1. ASSUME PageCallsLock PROVE UNCHANGED <<state, given>> /\ (held' = held \/ held' \in Sessions)
  <2>1. Fired(view) => view # NoView
    BY DEF Fired, NoView
  <2> QED
    BY <1>1, <2>1 DEF PageCallsLock, LockCalled, EngageLock
<1>2. ASSUME NEW k \in Takers, Confirmed(k)
      PROVE  UNCHANGED <<state, given>> /\ (held' = held \/ held' \in Sessions)
  BY <1>2 DEF Confirmed, EngageLock
<1> QED
  BY <1>1, <1>2

Opens ==
    \/ Die \/ KillSwitch
    \/ \E p \in polls : WatchdogHears(p)
    \/ \E s \in Sessions : Unlock(s)

Given(why) ==
    /\ held # NoSession
    /\ held' = NoSession
    /\ given' = why
    /\ why = "token" => state[held] = "UNLOCKED"
    /\ why = "server" => held \in lapsed

LEMMA OpenStep ==
    ASSUME Typed, LapseInv, Opens
    PROVE  /\ UNCHANGED state
           /\ \/ UNCHANGED <<held, given>>
              \/ \E why \in {"token", "server", "escape", "death"} : Given(why)
<1> USE DEF Typed, TypeOK, LapseInv, Given
<1>1. CASE Die
  BY <1>1 DEF Die
<1>2. CASE KillSwitch
  BY <1>2 DEF KillSwitch, ReleaseLock
<1>3. ASSUME NEW p \in polls, WatchdogHears(p)
      PROVE  /\ UNCHANGED state
             /\ UNCHANGED <<held, given>> \/ Given("server")
  BY <1>3 DEF WatchdogHears, Concerns, ReleaseLock, Over, Polls
<1>4. ASSUME NEW s \in Sessions, Unlock(s)
      PROVE  /\ UNCHANGED state
             /\ UNCHANGED <<held, given>> \/ Given("token")
  BY <1>4 DEF Unlock, ReleaseLock
<1> QED
  BY <1>1, <1>2, <1>3, <1>4 DEF Opens

LEMMA StepKinds == ASSUME Next PROVE Note /\ (Quiet \/ Opens \/ PageCallsLock \/ \E k \in Takers : Confirmed(k))
BY DEF Next, Step, Quiet, Opens

LEMMA TokensStep ==
    ASSUME Typed, Next
    PROVE  \A s \in tokens' : s \in tokens \/ state'[s] = "UNLOCKED"
<1> DEFINE Fresh == \A s \in tokens' : s \in tokens \/ state'[s] = "UNLOCKED"
<1> USE DEF Typed, TypeOK
<1>1. CASE Boot \/ Die \/ TimerFires \/ WatchdogAsks \/ KillSwitch \/ PageLoads \/ DashboardPolls
             \/ CountsDown \/ PageCallsLock \/ LockPagePolls \/ CloseWindow \/ OpenWindow
  BY <1>1 DEF Boot, Die, TimerFires, WatchdogAsks, KillSwitch, PageLoads, DashboardPolls,
     CountsDown, PageCallsLock, LockPagePolls, CloseWindow, OpenWindow
<1>2. ASSUME NEW k \in Takers, \/ Confirmed(k) \/ Unconfirmed(k) \/ Retry(k)
                               \/ EngageRead(k) \/ EngageClaim(k) \/ EngageFails(k)
      PROVE  Fresh
  BY <1>2 DEF Confirmed, Unconfirmed, Retry, EngageRead, EngageClaim, EngageFails, Elsewhere
<1>3. ASSUME NEW p \in polls, PollAnswered(p) \/ PollFails(p) \/ WatchdogHears(p) PROVE Fresh
  BY <1>3 DEF PollAnswered, PollFails, WatchdogHears
<1>4. ASSUME NEW s \in Sessions, Unlock(s) \/ TokenLost(s) \/ Solve(s) PROVE Fresh
  BY <1>4 DEF Unlock, TokenLost, Solve
<1>5. ASSUME NEW s \in Sessions,
             \/ Arm(s) \/ Expire(s) \/ SweepEngages(s) \/ Pause(s) \/ Resume(s)
             \/ EndElsewhere(s) \/ AbandonArrives(s) \/ AbandonLost(s)
      PROVE  Fresh
  BY <1>5 DEF Arm, Expire, SweepEngages, Pause, Resume, EndElsewhere, AbandonArrives,
     AbandonLost, Elsewhere
<1> QED
  BY <1>1, <1>2, <1>3, <1>4, <1>5 DEF Next, Step

(* A poll is new, of the session held; or old; or just answered.           *)
LEMMA PollsStep ==
    ASSUME Typed, Next
    PROVE  \A p \in polls' :
              \/ p \in polls
              \/ held # NoSession /\ p.sid = held /\ p.answer = "asked"
              \/ /\ UNCHANGED state
                 /\ \E q \in polls : p.sid = q.sid /\ p.answer = Verdict(q.sid)
<1> DEFINE Known ==
      \A p \in polls' :
          \/ p \in polls
          \/ held # NoSession /\ p.sid = held /\ p.answer = "asked"
          \/ /\ UNCHANGED state
             /\ \E q \in polls : p.sid = q.sid /\ p.answer = Verdict(q.sid)
<1> USE DEF Typed, TypeOK
<1>1. CASE Boot \/ Die \/ TimerFires \/ KillSwitch \/ PageLoads \/ DashboardPolls
             \/ CountsDown \/ PageCallsLock \/ LockPagePolls \/ CloseWindow \/ OpenWindow
  <2>1. polls' = polls \/ polls' = {}
    BY <1>1 DEF Boot, Die, TimerFires, KillSwitch, PageLoads, DashboardPolls,
       CountsDown, PageCallsLock, LockPagePolls, CloseWindow, OpenWindow
  <2> QED
    BY <2>1
<1>7. CASE WatchdogAsks
  BY <1>7 DEF WatchdogAsks
<1>2. ASSUME NEW k \in Takers, \/ Confirmed(k) \/ Unconfirmed(k) \/ Retry(k)
                               \/ EngageRead(k) \/ EngageClaim(k) \/ EngageFails(k)
      PROVE  Known
  BY <1>2 DEF Confirmed, Unconfirmed, Retry, EngageRead, EngageClaim, EngageFails, Elsewhere
<1>3. ASSUME NEW p \in polls, PollFails(p) \/ WatchdogHears(p) PROVE Known
  BY <1>3 DEF PollFails, Unreachable, WatchdogHears
<1>4. ASSUME NEW p \in polls, PollAnswered(p) PROVE Known
  <2>1. p.sid = [p EXCEPT !.answer = Verdict(p.sid)].sid
        /\ [p EXCEPT !.answer = Verdict(p.sid)].answer = Verdict(p.sid)
    BY DEF Polls
  <2> QED
    BY <1>4, <2>1 DEF PollAnswered
<1>5. ASSUME NEW s \in Sessions, Unlock(s) \/ TokenLost(s) \/ Solve(s) PROVE Known
  BY <1>5 DEF Unlock, TokenLost, Solve
<1>6. ASSUME NEW s \in Sessions,
             \/ Arm(s) \/ Expire(s) \/ SweepEngages(s) \/ Pause(s) \/ Resume(s)
             \/ EndElsewhere(s) \/ AbandonArrives(s) \/ AbandonLost(s)
      PROVE  Known
  BY <1>6 DEF Arm, Expire, SweepEngages, Pause, Resume, EndElsewhere, AbandonArrives,
     AbandonLost, Elsewhere
<1> QED
  BY <1>1, <1>2, <1>3, <1>4, <1>5, <1>6, <1>7 DEF Next, Step

LEMMA LapseNext == ASSUME Typed, LapseInv, Next PROVE LapseInv'
<1>1. Advances
  BY StepKinds, QuietStep, CoverStep, OpenStep DEF Advances
<1>2. Note
  BY StepKinds
<1>3. \A s \in tokens' : state'[s] = "UNLOCKED"
  BY <1>1, TokensStep DEF LapseInv, Advances, Typed, TypeOK
<1>4. \A s \in Sessions : held' = s /\ state'[s] # "LOCKED" => s \in lapsed'
  BY <1>2 DEF Note
<1>5. ASSUME NEW p \in polls'
      PROVE  /\ p.sid \in lapsed' \/ state'[p.sid] \in {"LOCKED"} \cup Over
             /\ p.answer = "release" => p.sid \in lapsed' \/ state'[p.sid] \in Over
  <2>0. lapsed \subseteq lapsed'
    BY <1>2 DEF Note
  <2>1. CASE p \in polls
    BY <1>1, <2>0, <2>1 DEF LapseInv, Advances, Over, Typed, TypeOK, Polls
  <2>2. CASE held # NoSession /\ p.sid = held /\ p.answer = "asked"
    BY <1>1, <2>0, <2>2 DEF LapseInv, Advances, Over, Typed, TypeOK
  <2>3. ASSUME UNCHANGED state, NEW q \in polls, p.sid = q.sid, p.answer = Verdict(q.sid)
        PROVE  /\ p.sid \in lapsed' \/ state'[p.sid] \in {"LOCKED"} \cup Over
               /\ p.answer = "release" => p.sid \in lapsed' \/ state'[p.sid] \in Over
    BY <2>0, <2>3 DEF LapseInv, Verdict, Over
  <2> QED
    BY <2>1, <2>2, <2>3, PollsStep
<1> QED
  BY <1>3, <1>4, <1>5 DEF LapseInv

----------------------------------------------------------------------------
LEMMA ContractInit == Init => Contract!Init
BY DEF Init, Contract!Init, Standing

LEMMA ContractNote ==
    ASSUME Typed, Typed', Note
    PROVE  lapsed' = lapsed \cup
              {s \in Sessions : held' = s /\ [t \in Sessions |-> Standing(t)]'[s] # "locked"}
<1>1. \A s \in Sessions : state'[s] # "LOCKED" <=> [t \in Sessions |-> Standing(t)]'[s] # "locked"
  BY DEF Standing
<1> QED
  BY <1>1 DEF Note

LEMMA ContractNext == ASSUME Typed, Typed', LapseInv, Next PROVE Contract!Next
<1> DEFINE standing == [s \in Sessions |-> Standing(s)]
<1>0. Note
  BY StepKinds
<1>1. lapsed' = lapsed \cup {s \in Sessions : held' = s /\ standing'[s] # "locked"}
  BY ONLY <1>0, Typed, Typed', ContractNote
<1>2. CASE Advances /\ UNCHANGED <<held, given>>
  <2>1. standing' \in [Sessions -> Contract!Standings]
    BY DEF Contract!Standings, Standing
  <2>2. ASSUME NEW s \in Sessions
        PROVE  standing'[s] = standing[s] \/ <<standing[s], standing'[s]>> \in Contract!Onward
    BY <1>2 DEF Advances, Contract!Onward, Standing, Over
  <2> QED
    BY <1>1, <1>2, <2>1, <2>2 DEF Contract!Next, Contract!Proceed
<1>3. CASE UNCHANGED <<state, given>> /\ held' \in Sessions
  BY <1>1, <1>3 DEF Contract!Next, Contract!Cover, Standing
<1>4. ASSUME UNCHANGED state, NEW why \in {"token", "server", "escape", "death"}, Given(why)
      PROVE  Contract!Next
  <2>1. Contract!Excused(held, why)
    BY <1>4 DEF Contract!Excused, Given, Standing, Typed, TypeOK
  <2>2. UNCHANGED standing
    BY <1>4 DEF Standing
  <2> QED
    BY <1>1, <1>4, <2>1, <2>2 DEF Contract!Next, Contract!GiveBack, Given
<1>5. CASE Quiet
  BY <1>2, <1>5, QuietStep
<1>6. CASE PageCallsLock \/ \E k \in Takers : Confirmed(k)
  BY <1>2, <1>3, <1>6, CoverStep DEF Advances
<1>7. CASE Opens
  BY <1>2, <1>4, <1>7, OpenStep DEF Advances
<1> QED
  BY <1>5, <1>6, <1>7, StepKinds

(* No answer, retry, token or death gives the screen back but for a reason *)
(* the contract names, for any number of sessions and of requests that     *)
(* are in flight at once.                                                  *)
THEOREM Refinement == Spec => ImplementsScreenContract
<1>1. Init => Contract!Init /\ LapseInv
  BY ContractInit DEF Init, LapseInv
<1>2. Typed /\ LapseInv /\ [Next]_vars => LapseInv'
  BY LapseNext DEF LapseInv, Over
<1>3. Typed /\ Typed' /\ LapseInv /\ [Next]_vars => [Contract!Next]_(Contract!vars)
  BY ContractNext DEF Contract!vars, Standing
<1> QED
  BY <1>1, <1>2, <1>3, AlwaysTyped, PTL DEF Spec, ImplementsScreenContract, Contract!Spec

=============================================================================

---------------------------- MODULE DesktopShell ----------------------------
(***************************************************************************)
(* The desktop shell (apps/desktop/src/main.ts): the process that covers   *)
(* the screen, the two pages its window shows, its lock file, and what     *)
(* they know of the server's sessions.                                     *)
(*                                                                         *)
(* Every request to the server is a step of its own between the question   *)
(* and the use of the answer.  A handler of the main process runs to its   *)
(* next await at once.  A page learns of the server only by polling, and   *)
(* acts on what it learned when one of its effects runs.                   *)
(*                                                                         *)
(* The server is abstracted to the states of LockSession; whatever other   *)
(* devices and its own sweeps do to a session may happen at any time.      *)
(***************************************************************************)
EXTENDS Integers, FiniteSets

CONSTANTS
    Sessions,
    NoSession,
    Takers,         \* slots: calls of takeScreenFor in flight, retries included
    MaxPolls,       \* bound: polls of the watchdog in flight
    MaxMoves,       \* bound: how often a session's deadline moves
    MaxDeaths,      \* bound: how often the process ends
    FaultCases      \* the sets of faults that may happen together

FaultNames == {"rival",     \* other devices pause, resume and end sessions
               "close",     \* the user closes the window
               "clock",     \* this machine's clock runs ahead of the server's
               "disk",      \* writing and deleting the lock file may fail
               "key"}       \* the unlock key may be missing from the config

ASSUME ConstantsAssumption ==
    /\ NoSession \notin Sessions
    /\ IsFiniteSet(Takers)
    /\ MaxPolls \in Nat
    /\ MaxMoves \in Nat
    /\ MaxDeaths \in Nat
    /\ FaultCases \subseteq SUBSET FaultNames

VARIABLES
    state,      \* LockSession.state; ENDED is BYPASSED or ABANDONED
    clock,      \* the deadline is ahead, past, or frozen on either side of now
    moves,      \* how often fireAt has been changed
    alive,      \* the process runs
    deaths,     \* how often it has ended
    canUnlock,
    held,       \* lockedSessionId; locked is held # NoSession
    timer,      \* fireTimer: the session and the deadline it waits for
    at,         \* where each call of takeScreenFor is
    about,      \* and the session it is for
    polls,      \* the watchdog's requests in flight
    page,       \* what the window shows
    loading,    \* where loadURL has sent it
    view,       \* the page's copy of GET /lock/active
    asked,      \* the session the page's effect last called lock for
    tokens,     \* unlock tokens on their way from the server to the shell
    abandons,   \* abandon requests the kill switch has caused
    file,       \* lock-state.json
    faults,     \* what may happen in this behaviour
    died,       \* history: how often the process died holding each session
    lapsed,     \* history: see ScreenContract
    given       \* history: why the screen was last given back

serverVars == <<state, clock, moves>>
takeVars   == <<at, about>>
pageVars   == <<page, loading, view, asked>>
noteVars   == <<died, given>>
vars == <<serverVars, alive, deaths, canUnlock, held, timer, takeVars, polls,
          pageVars, tokens, abandons, file, faults, noteVars, lapsed>>

Over   == {"UNLOCKED", "ENDED"}
Paused == {"paused", "pausedDue"}

NoFile  == [sid |-> NoSession, interruptions |-> 0]
NoTimer == [sid |-> NoSession, moves |-> 0]
NoView  == [sid |-> NoSession, state |-> "none", paused |-> FALSE,
            moves |-> 0, zero |-> FALSE]

Init ==
    /\ state = [s \in Sessions |-> "none"]
    /\ clock = [s \in Sessions |-> "running"]
    /\ moves = [s \in Sessions |-> 0]
    /\ alive = FALSE
    /\ deaths = 0
    /\ canUnlock = TRUE
    /\ held = NoSession
    /\ timer = NoTimer
    /\ at = [k \in Takers |-> "idle"]
    /\ about = [k \in Takers |-> NoSession]
    /\ polls = {}
    /\ page = "closed"
    /\ loading = "nothing"
    /\ view = NoView
    /\ asked = NoSession
    /\ tokens = {}
    /\ abandons = {}
    /\ file = NoFile
    /\ faults \in FaultCases
    /\ died = [s \in Sessions |-> 0]
    /\ lapsed = {}
    /\ given = "death"

----------------------------------------------------------------------------
(* The main process.                                                       *)

(* takeScreenFor, up to its request.                                       *)
TakeScreenFor(s) ==
    \/ /\ held # NoSession \/ ~canUnlock
       /\ UNCHANGED takeVars
    \/ /\ held = NoSession
       /\ canUnlock
       /\ \E k \in Takers :
             /\ at[k] = "idle"
             /\ at' = [at EXCEPT ![k] = "asked"]
             /\ about' = [about EXCEPT ![k] = s]

NewLock(s) == [sid |-> s, interruptions |-> 0]

(* Mutant: written in place, and torn by what interrupts it.               *)
MutantWritten(f) == {f, NoFile}

(* What a write leaves on the disk: what was written, or, when it fails,   *)
(* what was there or a torn file, which reads as none.                     *)
Written(f) == {f} \cup IF "disk" \in faults THEN {file, NoFile} ELSE {}
Cleared    == {NoFile} \cup IF "disk" \in faults THEN {file} ELSE {}

(* engageLock.                                                             *)
EngageLock(s) ==
    /\ held' = s
    /\ file' \in Written(NewLock(s))
    /\ IF held = NoSession
       THEN /\ timer' = NoTimer
            /\ loading' = "lock"
       ELSE UNCHANGED <<timer, loading>>

(* releaseLock.                                                            *)
ReleaseLock(why) ==
    /\ held' = NoSession
    /\ timer' = NoTimer
    /\ loading' = "dashboard"
    /\ file' \in Cleared
    /\ given' = why

(* A lock read back at startup goes through takeScreenFor like any other.  *)
Restore(f) ==
    \/ /\ f = NoFile \/ ~canUnlock'
       /\ UNCHANGED takeVars
    \/ /\ f # NoFile
       /\ canUnlock'
       /\ \E k \in Takers :
             /\ at[k] = "idle"
             /\ at' = [at EXCEPT ![k] = "asked"]
             /\ about' = [about EXCEPT ![k] = f.sid]

(* A key configured, or lost from config.json, takes effect at the start.  *)
Boot ==
    /\ ~alive
    /\ alive' = TRUE
    /\ canUnlock' \in {TRUE} \cup IF "key" \in faults THEN {FALSE} ELSE {}
    /\ page' = "blank"
    /\ loading' = "dashboard"
    /\ \/ /\ file' \in {file, NoFile}         \* none, or past expiresAt
          /\ file # NoFile => file' \in Cleared
          /\ UNCHANGED takeVars
       \/ /\ file # NoFile                   \* interrupted: stamped, restored
          /\ file' \in Written([file EXCEPT !.interruptions = @ + 1])
          /\ Restore(file')
    /\ UNCHANGED <<serverVars, deaths, held, timer, polls, view, asked,
                   tokens, abandons, noteVars>>

(* A crash, a kill, a power cut; or, while nothing is locked, a quit.      *)
Die ==
    /\ alive
    /\ deaths < MaxDeaths
    /\ alive' = FALSE
    /\ deaths' = deaths + 1
    /\ held' = NoSession
    /\ IF held # NoSession
       THEN /\ died' = [died EXCEPT ![held] = @ + 1]
            /\ given' = "death"
       ELSE UNCHANGED noteVars
    /\ timer' = NoTimer
    /\ at' = [k \in Takers |-> "idle"]
    /\ about' = [k \in Takers |-> NoSession]
    /\ polls' = {}
    /\ page' = "closed"
    /\ loading' = "nothing"
    /\ view' = NoView
    /\ asked' = NoSession
    /\ tokens' = {}
    /\ abandons' = {}
    /\ UNCHANGED <<serverVars, canUnlock, file>>

CallSettles(k) ==
    /\ at' = [at EXCEPT ![k] = "idle"]
    /\ about' = [about EXCEPT ![k] = NoSession]

(* The server confirmed: the window is shown, made anew if it was closed,  *)
(* and the screen taken.  Whether it is still free is not asked again.     *)
Confirmed(k) ==
    /\ at[k] = "ok"
    /\ CallSettles(k)
    /\ page' = IF page = "closed" THEN "blank" ELSE page
    /\ EngageLock(about[k])
    /\ UNCHANGED <<serverVars, alive, deaths, canUnlock, polls, view, asked,
                   tokens, abandons, noteVars>>

(* 'refused' is taken as settled; anything else is tried again in 15 s.    *)
Unconfirmed(k) ==
    /\ \/ /\ at[k] = "refused"
          /\ CallSettles(k)
       \/ /\ at[k] = "failed"
          /\ at' = [at EXCEPT ![k] = "waiting"]
          /\ UNCHANGED about
    /\ UNCHANGED <<serverVars, alive, deaths, canUnlock, held, timer, polls,
                   pageVars, tokens, abandons, file, noteVars>>

Retry(k) ==
    /\ at[k] = "waiting"
    /\ \/ /\ held # NoSession
          /\ CallSettles(k)
       \/ /\ held = NoSession
          /\ at' = [at EXCEPT ![k] = "asked"]
          /\ UNCHANGED about
    /\ UNCHANGED <<serverVars, alive, deaths, canUnlock, held, timer, polls,
                   pageVars, tokens, abandons, file, noteVars>>

(* setTimeout goes by this machine's clock.                                *)
TimerFires ==
    /\ timer # NoTimer
    /\ \/ clock[timer.sid] = "due"
       \/ moves[timer.sid] # timer.moves
       \/ "clock" \in faults
    /\ timer' = NoTimer
    /\ TakeScreenFor(timer.sid)
    /\ UNCHANGED <<serverVars, alive, deaths, canUnlock, held, polls, pageVars,
                   tokens, abandons, file, noteVars>>

WatchdogAsks ==
    /\ held # NoSession
    /\ Cardinality(polls) < MaxPolls
    /\ polls' = polls \cup {[sid |-> held, answer |-> "asked"]}
    /\ UNCHANGED <<serverVars, alive, deaths, canUnlock, held, timer, takeVars,
                   pageVars, tokens, abandons, file, noteVars>>

(* Mutant: no active session at all is not taken as an ending.             *)
MutantVerdict(s) ==
    IF state[s] = "LOCKED" \/ \A t \in Sessions : state[t] \notin {"ARMED", "LOCKED"}
    THEN "keep" ELSE "release"

(* verdictFor: anything but the session LOCKED releases.                   *)
Verdict(s) == IF state[s] = "LOCKED" THEN "keep" ELSE "release"

PollAnswered(p) ==
    /\ p.answer = "asked"
    /\ polls' = (polls \ {p}) \cup {[p EXCEPT !.answer = Verdict(p.sid)]}
    /\ UNCHANGED <<serverVars, alive, deaths, canUnlock, held, timer, takeVars,
                   pageVars, tokens, abandons, file, noteVars>>

(* Mutant: a server that cannot be reached is taken to hold no session.    *)
MutantUnreachable(p) == {[p EXCEPT !.answer = "release"]}

(* The server cannot be reached, or the answer not be read: null.          *)
Unreachable(p) == {}

PollFails(p) ==
    /\ polls' = (polls \ {p}) \cup Unreachable(p)
    /\ UNCHANGED <<serverVars, alive, deaths, canUnlock, held, timer, takeVars,
                   pageVars, tokens, abandons, file, noteVars>>

Concerns(p) == p.answer = "release" /\ held # NoSession /\ held = p.sid

WatchdogHears(p) ==
    /\ p.answer # "asked"
    /\ polls' = polls \ {p}
    /\ IF Concerns(p)
       THEN ReleaseLock("server")
       ELSE UNCHANGED <<held, timer, loading, file, given>>
    /\ UNCHANGED <<serverVars, alive, deaths, canUnlock, takeVars, page, view,
                   asked, tokens, abandons, died>>

(* Ten seconds of Escape.  The page that is up is told, and if it is the   *)
(* lock page it asks the server to abandon the session.                    *)
KillSwitch ==
    /\ held # NoSession
    /\ ReleaseLock("escape")
    /\ abandons' = abandons \cup IF page = "lock" THEN {held} ELSE {}
    /\ UNCHANGED <<serverVars, alive, deaths, canUnlock, takeVars, polls, page,
                   view, asked, tokens, died>>

(* codelock:unlock.                                                        *)
Unlock(s) ==
    /\ s \in tokens
    /\ tokens' = tokens \ {s}
    /\ IF held = s
       THEN ReleaseLock("token")
       ELSE UNCHANGED <<held, timer, loading, file, given>>
    /\ UNCHANGED <<serverVars, alive, deaths, canUnlock, takeVars, polls, page,
                   view, asked, abandons, died>>

----------------------------------------------------------------------------
(* The pages.  Both poll the server and run their effects on the answer.   *)

ActiveSession == {s \in Sessions : state[s] \in {"ARMED", "LOCKED"}}

Snapshot ==
    IF ActiveSession = {} THEN NoView
    ELSE LET s == CHOOSE t \in ActiveSession : TRUE
         IN  [sid    |-> s,
              state  |-> state[s],
              paused |-> state[s] = "ARMED" /\ clock[s] \in Paused,
              moves  |-> moves[s],
              zero   |-> state[s] = "ARMED" /\ clock[s] = "due"]

(* Mutant: only this page's countdown locks.                               *)
MutantFired(v) == v.zero /\ ~v.paused

Fired(v) == v.state = "LOCKED" \/ (v.zero /\ ~v.paused)

(* What the dashboard hands to the shell with codelock:schedule: an armed  *)
(* deadline, or null, which clears the timer.                              *)
Schedule(v) ==
    IF v.state = "ARMED" /\ ~v.paused THEN [sid |-> v.sid, moves |-> v.moves]
    ELSE NoTimer

(* The effect that schedules runs when one of these has changed.           *)
Deadline(v) == <<v.sid, v.state, v.moves, v.paused>>

(* Mounted, the dashboard knows of no session yet, and says so.            *)
PageLoads ==
    /\ page # "closed"
    /\ loading # "nothing"
    /\ page' = loading
    /\ loading' = "nothing"
    /\ view' = NoView
    /\ asked' = NoSession
    /\ timer' = IF loading = "dashboard" THEN Schedule(NoView) ELSE timer
    /\ UNCHANGED <<serverVars, alive, deaths, canUnlock, held, takeVars, polls,
                   tokens, abandons, file, noteVars>>

DashboardPolls ==
    /\ page = "dashboard"
    /\ view' = Snapshot
    /\ asked' = IF Fired(view') /\ view'.sid = asked THEN asked ELSE NoSession
    /\ timer' = IF Deadline(view') = Deadline(view) THEN timer ELSE Schedule(view')
    /\ UNCHANGED <<serverVars, alive, deaths, canUnlock, held, takeVars, polls,
                   page, loading, tokens, abandons, file, noteVars>>

(* The page counts down between polls, in rounded seconds.                 *)
CountsDown ==
    /\ page = "dashboard"
    /\ view.state = "ARMED"
    /\ ~view.paused
    /\ ~view.zero
    /\ clock[view.sid] = "due" \/ moves[view.sid] # view.moves \/ "clock" \in faults
    /\ view' = [view EXCEPT !.zero = TRUE]
    /\ UNCHANGED <<serverVars, alive, deaths, canUnlock, held, timer, takeVars,
                   polls, page, loading, asked, tokens, abandons, file, noteVars>>

(* codelock:lock: a lock that is on is asserted again, on the page's word; *)
(* a new one is confirmed by the server first.                             *)
LockCalled(s) ==
    \/ /\ held # NoSession
       /\ EngageLock(s)
       /\ UNCHANGED takeVars
    \/ /\ held = NoSession
       /\ TakeScreenFor(s)
       /\ UNCHANGED <<held, timer, loading, file>>

(* Either page calls it once for a session that has fired, and not again   *)
(* until that has been otherwise or the page has been loaded anew.         *)
PageCallsLock ==
    /\ page \in {"dashboard", "lock"}
    /\ Fired(view)
    /\ asked # view.sid
    /\ asked' = view.sid
    /\ LockCalled(view.sid)
    /\ UNCHANGED <<serverVars, alive, deaths, canUnlock, polls, page, view,
                   tokens, abandons, noteVars>>

(* The lock page shows LOCKED sessions only; over one that is armed and    *)
(* due it asks the server to engage, which is SweepEngages to the shell.   *)
LockPagePolls ==
    /\ page = "lock"
    /\ view' = IF Snapshot.state = "LOCKED" THEN Snapshot ELSE NoView
    /\ asked' = IF view'.sid = asked THEN asked ELSE NoSession
    /\ UNCHANGED <<serverVars, alive, deaths, canUnlock, held, timer, takeVars,
                   polls, page, loading, tokens, abandons, file, noteVars>>

(* A submission on the lock page is accepted and its token is on its way.  *)
Solve(s) ==
    /\ page = "lock"
    /\ view.sid = s
    /\ state[s] = "LOCKED"
    /\ state' = [state EXCEPT ![s] = "UNLOCKED"]
    /\ tokens' = tokens \cup {s}
    /\ UNCHANGED <<clock, moves, alive, deaths, canUnlock, held, timer, takeVars,
                   polls, pageVars, abandons, file, noteVars>>

(* The answer is lost, or the page gone when it comes.                     *)
TokenLost(s) ==
    /\ s \in tokens
    /\ tokens' = tokens \ {s}
    /\ UNCHANGED <<serverVars, alive, deaths, canUnlock, held, timer, takeVars,
                   polls, pageVars, abandons, file, noteVars>>

(* Closing the window is refused while locked, and leaves the process.     *)
CloseWindow ==
    /\ "close" \in faults
    /\ page # "closed"
    /\ held = NoSession
    /\ page' = "closed"
    /\ loading' = "nothing"
    /\ view' = NoView
    /\ asked' = NoSession
    /\ tokens' = {}
    /\ UNCHANGED <<serverVars, alive, deaths, canUnlock, held, timer, takeVars,
                   polls, abandons, file, noteVars>>

(* From the tray, or by a second launch.                                   *)
OpenWindow ==
    /\ alive
    /\ page = "closed"
    /\ page' = "blank"
    /\ loading' = "dashboard"
    /\ UNCHANGED <<serverVars, alive, deaths, canUnlock, held, timer, takeVars,
                   polls, view, asked, tokens, abandons, file, noteVars>>

----------------------------------------------------------------------------
(* The server, and the network.                                            *)

Elsewhere == UNCHANGED <<alive, deaths, canUnlock, held, timer, polls, pageVars,
                         tokens, file, noteVars>>

(* engageLock reads the session, and claims it in a second statement.      *)
EngageRead(k) ==
    LET s == about[k] IN
        /\ at[k] = "asked"
        /\ at' = [at EXCEPT ![k] =
                    CASE state[s] = "LOCKED"                      -> "ok"
                      [] state[s] = "ARMED" /\ clock[s] = "due"   -> "claims"
                      [] OTHER                                    -> "refused"]
        /\ UNCHANGED <<serverVars, about, abandons>>
        /\ Elsewhere

(* A claim that lost answers with whatever the session is by now.          *)
EngageClaim(k) ==
    LET s == about[k] IN
        /\ at[k] = "claims"
        /\ IF state[s] = "ARMED" /\ clock[s] = "due"
           THEN state' = [state EXCEPT ![s] = "LOCKED"]
           ELSE UNCHANGED state
        /\ at' = [at EXCEPT ![k] = "ok"]
        /\ UNCHANGED <<clock, moves, about, abandons>>
        /\ Elsewhere

(* No answer within the 8 s of the request.  A claim the server goes on to *)
(* make is SweepEngages to the shell.                                      *)
EngageFails(k) ==
    /\ at[k] \in {"asked", "claims", "ok", "refused"}
    /\ at' = [at EXCEPT ![k] = "failed"]
    /\ UNCHANGED <<serverVars, about, abandons>>
    /\ Elsewhere

Arm(s) ==
    /\ ActiveSession = {}
    /\ state[s] = "none"
    /\ state' = [state EXCEPT ![s] = "ARMED"]
    /\ UNCHANGED <<clock, moves, takeVars, abandons>>
    /\ Elsewhere

Expire(s) ==
    /\ state[s] = "ARMED"
    /\ clock[s] = "running"
    /\ clock' = [clock EXCEPT ![s] = "due"]
    /\ UNCHANGED <<state, moves, takeVars, abandons>>
    /\ Elsewhere

SweepEngages(s) ==
    /\ state[s] = "ARMED"
    /\ clock[s] = "due"
    /\ state' = [state EXCEPT ![s] = "LOCKED"]
    /\ UNCHANGED <<clock, moves, takeVars, abandons>>
    /\ Elsewhere

(* A resume moves the deadline by the time paused, so one that had passed  *)
(* has passed again.                                                       *)
Pause(s) ==
    /\ "rival" \in faults
    /\ state[s] = "ARMED"
    /\ clock[s] \notin Paused
    /\ moves[s] < MaxMoves
    /\ clock' = [clock EXCEPT ![s] = IF @ = "due" THEN "pausedDue" ELSE "paused"]
    /\ UNCHANGED <<state, moves, takeVars, abandons>>
    /\ Elsewhere

Resume(s) ==
    /\ state[s] = "ARMED"
    /\ clock[s] \in Paused
    /\ clock' = [clock EXCEPT ![s] = IF @ = "pausedDue" THEN "due" ELSE "running"]
    /\ moves' = [moves EXCEPT ![s] = @ + 1]
    /\ UNCHANGED <<state, takeVars, abandons>>
    /\ Elsewhere

(* A skip, a give-up, a cancel, the reaper.                                *)
EndElsewhere(s) ==
    /\ "rival" \in faults
    /\ s \in ActiveSession
    /\ state' = [state EXCEPT ![s] = "ENDED"]
    /\ UNCHANGED <<clock, moves, takeVars, abandons>>
    /\ Elsewhere

(* The abandon request of the kill switch arrives, or is lost on the way.  *)
AbandonArrives(s) ==
    /\ s \in abandons
    /\ abandons' = abandons \ {s}
    /\ state' = [state EXCEPT ![s] = IF s \in ActiveSession THEN "ENDED" ELSE @]
    /\ UNCHANGED <<clock, moves, takeVars>>
    /\ Elsewhere

AbandonLost(s) ==
    /\ s \in abandons
    /\ abandons' = abandons \ {s}
    /\ UNCHANGED <<serverVars, takeVars>>
    /\ Elsewhere

----------------------------------------------------------------------------
Step ==
    \/ Boot \/ Die \/ TimerFires \/ WatchdogAsks \/ KillSwitch
    \/ PageLoads \/ DashboardPolls \/ CountsDown \/ PageCallsLock \/ LockPagePolls
    \/ CloseWindow \/ OpenWindow
    \/ \E k \in Takers :
          \/ Confirmed(k) \/ Unconfirmed(k) \/ Retry(k)
          \/ EngageRead(k) \/ EngageClaim(k) \/ EngageFails(k)
    \/ \E p \in polls : PollAnswered(p) \/ PollFails(p) \/ WatchdogHears(p)
    \/ \E s \in Sessions :
          \/ Unlock(s) \/ TokenLost(s) \/ Solve(s)
          \/ Arm(s) \/ Expire(s) \/ SweepEngages(s) \/ Pause(s) \/ Resume(s)
          \/ EndElsewhere(s) \/ AbandonArrives(s) \/ AbandonLost(s)

Note ==
    /\ lapsed' = lapsed \cup {s \in Sessions : held' = s /\ state'[s] # "LOCKED"}
    /\ UNCHANGED faults

Next == Step /\ Note

Spec == Init /\ [][Next]_vars

Polls == [sid : Sessions, answer : {"asked", "keep", "release"}]

(* The watchdog is an interval timer, and the server answers at last.      *)
WatchdogSpec ==
    /\ Spec
    /\ WF_vars(WatchdogAsks /\ Note)
    /\ SF_vars((\E p \in polls : PollAnswered(p)) /\ Note)
    /\ SF_vars((\E p \in polls : WatchdogHears(p)) /\ Note)

(* And the process is started again, by its login item or by itself; its   *)
(* page loads and polls, and the server answers at last.  Nothing is       *)
(* assumed of the user, and no closed window is opened.                    *)
ShellSpec ==
    /\ WatchdogSpec
    /\ WF_vars(Boot /\ Note)
    /\ WF_vars(TimerFires /\ Note)
    /\ WF_vars(PageLoads /\ Note)
    /\ WF_vars(DashboardPolls /\ Note)
    /\ WF_vars(PageCallsLock /\ Note)
    /\ \A k \in Takers :
          /\ WF_vars((Unconfirmed(k) \/ Retry(k)) /\ Note)
          /\ SF_vars(EngageRead(k) /\ Note)
          /\ SF_vars(EngageClaim(k) /\ Note)
          /\ SF_vars(Confirmed(k) /\ Note)

----------------------------------------------------------------------------
(* The type invariant.                                                     *)
TypeOK ==
    /\ state \in [Sessions -> {"none", "ARMED", "LOCKED"} \cup Over]
    /\ clock \in [Sessions -> {"running", "due"} \cup Paused]
    /\ moves \in [Sessions -> 0 .. MaxMoves]
    /\ alive \in BOOLEAN
    /\ deaths \in 0 .. MaxDeaths
    /\ canUnlock \in BOOLEAN
    /\ held \in Sessions \cup {NoSession}
    /\ timer \in [sid : Sessions, moves : 0 .. MaxMoves] \cup {NoTimer}
    /\ at \in [Takers -> {"idle", "asked", "claims", "ok", "refused", "failed", "waiting"}]
    /\ about \in [Takers -> Sessions \cup {NoSession}]
    /\ polls \subseteq Polls
    /\ page \in {"closed", "blank", "dashboard", "lock"}
    /\ loading \in {"nothing", "dashboard", "lock"}
    /\ view \in [sid : Sessions, state : {"ARMED", "LOCKED"}, paused : BOOLEAN,
                 moves : 0 .. MaxMoves, zero : BOOLEAN] \cup {NoView}
    /\ asked \in Sessions \cup {NoSession}
    /\ tokens \subseteq Sessions
    /\ abandons \subseteq Sessions
    /\ file \in [sid : Sessions, interruptions : 0 .. MaxDeaths] \cup {NoFile}
    /\ faults \in FaultCases
    /\ died \in [Sessions -> 0 .. MaxDeaths]
    /\ lapsed \subseteq Sessions
    /\ given \in {"token", "server", "escape", "death"}
    /\ \A k \in Takers : at[k] = "idle" <=> about[k] = NoSession
    /\ ~alive => held = NoSession /\ page = "closed" /\ \A k \in Takers : at[k] = "idle"

(* While the disk works, the lock on disk is the one that is held, however *)
(* it was taken, taken over or asserted again: a process that dies at any  *)
(* moment comes back to the screen it died holding.                        *)
HeldIsOnDisk ==
    "disk" \notin faults /\ held # NoSession => file.sid = held

(* A screen is given back for its own token, on the server's word that     *)
(* while it was covered its session was not locked, by Escape or by death; *)
(* late polls, retries and tokens of other sessions open nothing.          *)
Standing(s) ==
    CASE state[s] \in {"none", "ARMED"} -> "open"
      [] state[s] = "LOCKED"            -> "locked"
      [] state[s] = "UNLOCKED"          -> "solved"
      [] OTHER                          -> "over"

Contract == INSTANCE ScreenContract
    WITH Sessions  <- Sessions,
         NoSession <- NoSession,
         Causes    <- {"token", "server", "escape", "death"},
         standing  <- [s \in Sessions |-> Standing(s)],
         screen    <- held,
         lapsed    <- lapsed,
         given     <- given

ImplementsScreenContract == Contract!Spec

(* A screen whose session has ended does not stay covered for it: what no  *)
(* token opens the watchdog does, whatever answers are lost.               *)
EndedScreensOpen ==
    \A s \in Sessions : held = s /\ state[s] \in Over ~> held # s

(* A session that is locked gets the screen, whatever dies, retries or is  *)
(* answered late: the timer, the dashboard's poll and the restored file    *)
(* leave no gap between them (background.ts, line 15: closed to the tray,  *)
(* the process still watches the deadline; dashboard.tsx, line 136: when   *)
(* the timer fires, the screen goes away on its own).  As long as no other *)
(* device interferes, the window stays open, and the clocks agree and the  *)
(* disk works.                                                             *)
LockedIsCovered ==
    faults = {} =>
        \A s \in Sessions : state[s] = "LOCKED" ~> held = s \/ state[s] # "LOCKED"

(* ... and so they say of a window that is closed, and of any two clocks.  *)
WatchedFromTray ==
    \A s \in Sessions : state[s] = "LOCKED" ~> held = s \/ state[s] # "LOCKED"

(* server-lock.ts, line 10: every path that takes the screen confirms the  *)
(* server is LOCKED first.                                                 *)
ConfirmedLockedFirst ==
    [][\A s \in Sessions : held # s /\ held' = s => state[s] # "ARMED"]_vars

(* lock-state.ts, line 75: an interruption is stamped onto the lock so the *)
(* count survives the next restart.                                        *)
CountSurvivesRestart ==
    held # NoSession /\ file.sid = held => file.interruptions = died[held]

(* lock-state.ts, line 47: the file counts how many times this session has *)
(* been interrupted by a process that died holding it.                     *)
CountsOnlyDeaths ==
    file # NoFile => file.interruptions <= died[file.sid]

(* main.ts, line 155: a lock already persisted is still restored when the  *)
(* install has no unlock key.                                              *)
RestoredWithoutKey ==
    [][file'.interruptions > file.interruptions =>
          \E k \in Takers : at'[k] = "asked" /\ about'[k] = file.sid]_vars

=============================================================================

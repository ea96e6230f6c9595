---------------------------- MODULE LockSession ----------------------------
(***************************************************************************)
(* The life of the lock sessions of one user in the API server: the rows   *)
(* of the table `lock_sessions`, the requests that move them and the two   *)
(* background sweeps (apps/api/src/services/lockSessions.ts,               *)
(* routes/lock.ts, services/sessionFlow.ts, services/grading.ts).          *)
(*                                                                         *)
(* A handler is a sequence of awaited database statements, so any two      *)
(* handlers interleave between statements.  Each action below is one such  *)
(* statement together with the synchronous code around it; pc[r] is the    *)
(* statement handler r runs next, and sid, seen, day and tries are its     *)
(* locals.  A request that is refused by its first read changes nothing    *)
(* and is a stuttering step.                                               *)
(*                                                                         *)
(* The countdown's arithmetic is abstracted to what the guards test: the   *)
(* deadline is ahead ("running"), past ("due"), or frozen ("paused").      *)
(***************************************************************************)
EXTENDS Integers, FiniteSets, Sequences

CONSTANTS
    Sessions,       \* ids of the rows the table may come to hold
    Clients,        \* request slots: that many client requests are in flight
    Problems,
    Engagers,       \* engageDueSessions, every 15 seconds: sweeps in flight
    Reapers,        \* reapStaleSessions, every 15 minutes: sweeps in flight
    NoSession,      \* "no id" in a handler's locals
    NoProblem,      \* problemId is null
    DailySkips,     \* TimerConfig.dailySkipAllowance
    MaxDay,         \* bound: the last day the calendar reaches
    MaxRevision,    \* bound: swaps per session
    MayFail         \* whether a statement may throw, or the process die

ASSUME ConstantsAssumption ==
    /\ IsFiniteSet(Sessions)
    /\ NoSession \notin Sessions
    /\ NoProblem \notin Problems
    /\ Clients \cap Engagers = {}
    /\ Clients \cap Reapers = {}
    /\ Engagers \cap Reapers = {}
    /\ DailySkips \in Nat
    /\ MaxDay \in Nat
    /\ MaxRevision \in Nat
    /\ MayFail \in BOOLEAN

VARIABLES
    state,          \* LockSession.state, "none" for a row not created yet
    countdown,      \* what fireAt and pausedAt say of the deadline
    stale,          \* the sessions armed more than SESSION_MAX_AGE_HOURS ago
    shown,          \* the assignment: problemId, problemRevision, adjusted
    lockedAt,       \* the sessions whose lockedAt is set
    skippedOn,      \* the day of a session ended by the skip allowance
    audit,          \* unlock_audits, per session, in the order written
    ladder,         \* the calls of advanceProgress a session has caused
    attemptCount,   \* Problem.attemptCount
    today,          \* the server's calendar day
    pc,             \* the statement each handler in flight runs next
    sid,            \* the session it is about
    seen,           \* the assignment it read, or has just served
    day,            \* the day a skip read the clock last
    tries           \* how often it has tried to abandon

rowVars    == <<state, countdown, stale, shown, lockedAt, skippedOn>>
recordVars == <<audit, ladder, attemptCount>>
localVars  == <<sid, seen, day, tries>>
vars       == <<rowVars, recordVars, today, pc, localVars>>

----------------------------------------------------------------------------
Handlers == Clients \cup Engagers \cup Reapers
Days     == 0 .. MaxDay
NoDay    == -1

Active   == {"ARMED", "LOCKED"}
Resolved == {"UNLOCKED", "BYPASSED", "ABANDONED"}
Outcomes == {"SOLVED", "SKIPPED", "PARTICIPATED", "ABANDONED", "REAPED"}

Unassigned == [problem |-> NoProblem, revision |-> 0, adjusted |-> FALSE]
Assignment == [problem  : Problems \cup {NoProblem},
               revision : 0 .. MaxRevision,
               adjusted : BOOLEAN]

(* The statement a handler runs next.  The five audit steps remember which *)
(* guard the handler won: solved, skipped, gave up a lock that had landed, *)
(* stopped one that had not, or reaped.                                    *)
OutcomeAt == [auditSolved  |-> "SOLVED",    auditSkipped |-> "SKIPPED",
              auditGaveUp  |-> "ABANDONED", auditStopped |-> "ABANDONED",
              auditReaped  |-> "REAPED"]

AuditSteps == {"auditSolved", "auditSkipped", "auditGaveUp", "auditStopped", "auditReaped"}

Steps == AuditSteps \cup
         {"idle", "armRead", "armCreate", "claimDue", "countAttempt",
          "judge", "release", "skipCount", "skipClaim", "swap",
          "participate", "cancel", "abandonLocked", "abandonArmed",
          "reap", "advanceSolved", "advanceFailed"}

(* Definitions named Mutant... are defects the runs must be able to see;   *)
(* no action uses them.  This one overlooks a session that is only armed.  *)
MutantActiveSessions == {s \in Sessions : state[s] = "LOCKED"}

ActiveSessions == {s \in Sessions : state[s] \in Active}
SkipsOn(d)     == {s \in Sessions : skippedOn[s] = d}
SkipsSince(d)  == {s \in Sessions : skippedOn[s] >= d}

(* A handler goes on to another statement; one that answers, or that goes  *)
(* on to arm the next session, has no more use for its locals.             *)
Goto(r, step) ==
    /\ pc' = [pc EXCEPT ![r] = step]
    /\ UNCHANGED localVars

Leave(r, step) ==
    /\ pc' = [pc EXCEPT ![r] = step]
    /\ sid' = [sid EXCEPT ![r] = NoSession]
    /\ seen' = [seen EXCEPT ![r] = Unassigned]
    /\ day' = [day EXCEPT ![r] = 0]
    /\ tries' = [tries EXCEPT ![r] = 0]

Answer(r) == Leave(r, "idle")
Rearm(r)  == Leave(r, "armRead")

(* A handler that has just read row s and goes on to `step`, keeping what  *)
(* it will use of the assignment it saw.                                   *)
Enter(r, s, step, assignment) ==
    /\ pc[r] = "idle"
    /\ pc' = [pc EXCEPT ![r] = step]
    /\ sid' = [sid EXCEPT ![r] = s]
    /\ seen' = [seen EXCEPT ![r] = assignment]
    /\ UNCHANGED <<day, tries>>

(* A handler that has just put `assignment` on row s and must count it.    *)
Serve(r, s, assignment) ==
    /\ shown' = [shown EXCEPT ![s] = assignment]
    /\ seen' = [seen EXCEPT ![r] = assignment]
    /\ pc' = [pc EXCEPT ![r] = "countAttempt"]
    /\ UNCHANGED <<sid, day, tries>>

Init ==
    /\ state = [s \in Sessions |-> "none"]
    /\ countdown = [s \in Sessions |-> "running"]
    /\ stale = {}
    /\ shown = [s \in Sessions |-> Unassigned]
    /\ lockedAt = {}
    /\ skippedOn = [s \in Sessions |-> NoDay]
    /\ audit = [s \in Sessions |-> <<>>]
    /\ ladder = [s \in Sessions |-> <<>>]
    /\ attemptCount = [p \in Problems |-> 0]
    /\ today = 0
    /\ pc = [r \in Handlers |-> "idle"]
    /\ sid = [r \in Handlers |-> NoSession]
    /\ seen = [r \in Handlers |-> Unassigned]
    /\ day = [r \in Handlers |-> 0]
    /\ tries = [r \in Handlers |-> 0]

----------------------------------------------------------------------------
(* armSession.  The first read answers with the active session if there is *)
(* one; otherwise the settings are read and the row is created, unless the *)
(* timer is off or the clock outside the active hours.                     *)
ArmRead(r) ==
    /\ \/ r \in Clients /\ pc[r] = "idle"
       \/ pc[r] = "armRead"
    /\ IF ActiveSessions = {}
         THEN Goto(r, "armCreate")
         ELSE Answer(r)
    /\ UNCHANGED <<rowVars, recordVars, today>>

(* The partial unique index admits one active row per user: a create that  *)
(* meets one fails with P2002 and the request answers with the winner.     *)
(* The deadlines and ages of ended rows are never read again: forget them. *)
ArmCreate(r) ==
    /\ pc[r] = "armCreate"
    /\ \/ /\ ActiveSessions = {}
          /\ \E s \in Sessions :
                /\ state[s] = "none"
                /\ state' = [state EXCEPT ![s] = "ARMED"]
          /\ countdown' = [s \in Sessions |-> "running"]
          /\ stale' = {}
       \/ /\ ActiveSessions # {}
          /\ UNCHANGED <<state, countdown, stale>>
    /\ Answer(r)
    /\ UNCHANGED <<shown, lockedAt, skippedOn, recordVars, today>>

(* The timer is disabled or the active window is closed.                   *)
ArmRefused(r) ==
    /\ pc[r] = "armCreate"
    /\ Answer(r)
    /\ UNCHANGED <<rowVars, recordVars, today>>

----------------------------------------------------------------------------
(* The countdown of an armed session.  Pause, resume and shorten are       *)
(* guarded updates on an ARMED row; Countdown.tla has their arithmetic.    *)
MoveCountdown(s, from, to) ==
    /\ state[s] = "ARMED"
    /\ countdown[s] \in from
    /\ \E c \in to : countdown' = [countdown EXCEPT ![s] = c]
    /\ UNCHANGED <<state, stale, shown, lockedAt, skippedOn, recordVars, today, pc, localVars>>

Expire(s)  == MoveCountdown(s, {"running"}, {"due"})
Pause(s)   == MoveCountdown(s, {"running", "due"}, {"paused"})
Resume(s)  == MoveCountdown(s, {"paused"}, {"running", "due"})
Shorten(s) == MoveCountdown(s, {"running"}, {"due"})

----------------------------------------------------------------------------
(* engageLock and engageDueSessions read a due session and then share      *)
(* claimDueSession.                                                        *)
(* Mutant: the claim forgets that the session may have engaged already.    *)
MutantDueSession(s) == state[s] \in Active /\ countdown[s] = "due"

DueSession(s) == state[s] = "ARMED" /\ countdown[s] = "due"

(* Mutant: no sweep, a client has to notice that time is up.               *)
MutantEngageRead(r, s) ==
    /\ r \in Clients
    /\ DueSession(s)
    /\ Enter(r, s, "claimDue", Unassigned)
    /\ UNCHANGED <<rowVars, recordVars, today>>

EngageRead(r, s) ==
    /\ r \in Clients \cup Engagers
    /\ DueSession(s)
    /\ Enter(r, s, "claimDue", Unassigned)
    /\ UNCHANGED <<rowVars, recordVars, today>>

(* claimDueSession: a problem p is picked first, then one conditional      *)
(* update repeats every precondition.  The loser's pick has no effect.     *)
ClaimDue(r, p) ==
    /\ pc[r] = "claimDue"
    /\ LET s == sid[r] IN
         IF DueSession(s)
           THEN /\ state' = [state EXCEPT ![s] = "LOCKED"]
                /\ lockedAt' = lockedAt \cup {s}
                /\ Serve(r, s, [problem  |-> p,
                                revision |-> shown[s].revision,
                                adjusted |-> shown[s].adjusted])
           ELSE /\ UNCHANGED <<state, lockedAt, shown>>
                /\ Answer(r)
    /\ UNCHANGED <<countdown, stale, skippedOn, recordVars, today>>

(* pickProblem throws: the sweep swallows it, the client gets an error.    *)
PickFails(r) ==
    /\ pc[r] = "claimDue"
    /\ Answer(r)
    /\ UNCHANGED <<rowVars, recordVars, today>>

(* Only the winner of a claim (or of a swap) counts the serving.           *)
CountAttempt(r) ==
    /\ pc[r] = "countAttempt"
    /\ attemptCount' = [attemptCount EXCEPT ![seen[r].problem] = @ + 1]
    /\ Answer(r)
    /\ UNCHANGED <<rowVars, audit, ladder, today>>

----------------------------------------------------------------------------
(* gradeSubmission reads the session it is for, has the program judged,    *)
(* and releases the lock only if the session still shows what was graded.  *)
SubmitRead(r, s) ==
    /\ r \in Clients
    /\ state[s] = "LOCKED"
    /\ Enter(r, s, "judge", shown[s])
    /\ UNCHANGED <<rowVars, recordVars, today>>

(* Mutant: the problem id without its revision.                            *)
MutantShowsProblem(r) ==
    /\ state[sid[r]] = "LOCKED"
    /\ shown[sid[r]].problem = seen[r].problem

StillShows(r) ==
    /\ state[sid[r]] = "LOCKED"
    /\ shown[sid[r]].problem = seen[r].problem
    /\ shown[sid[r]].revision = seen[r].revision

(* A wrong answer, one that is too slow, or a judge that is unavailable.   *)
JudgeRejects(r) ==
    /\ pc[r] = "judge"
    /\ Answer(r)
    /\ UNCHANGED <<rowVars, recordVars, today>>

(* An accepted answer: releaseLock reads the row again.                    *)
JudgeAccepts(r) ==
    /\ pc[r] = "judge"
    /\ IF StillShows(r) THEN Goto(r, "release") ELSE Answer(r)
    /\ UNCHANGED <<rowVars, recordVars, today>>

(* claimResolution: LOCKED -> UNLOCKED with the assignment in the WHERE.   *)
Release(r) ==
    /\ pc[r] = "release"
    /\ LET s == sid[r] IN
         IF StillShows(r)
           THEN state' = [state EXCEPT ![s] = "UNLOCKED"] /\ Goto(r, "auditSolved")
           ELSE UNCHANGED state /\ Answer(r)
    /\ UNCHANGED <<countdown, stale, shown, lockedAt, skippedOn, recordVars, today>>

----------------------------------------------------------------------------
(* bypassLock: read the row, count the skips since midnight, then claim.   *)
(* Midnight is computed before the count is asked for and resolvedAt after *)
(* it came back, so the day may change between any two of the three.       *)
SkipRead(r, s) ==
    /\ r \in Clients
    /\ state[s] = "LOCKED"
    /\ pc[r] = "idle"
    /\ pc' = [pc EXCEPT ![r] = "skipCount"]
    /\ sid' = [sid EXCEPT ![r] = s]
    /\ seen' = [seen EXCEPT ![r] = shown[s]]
    /\ day' = [day EXCEPT ![r] = today]
    /\ UNCHANGED <<rowVars, recordVars, today, tries>>

SkipCount(r) ==
    /\ pc[r] = "skipCount"
    /\ \E midnight \in day[r] .. today :
         IF Cardinality(SkipsSince(midnight)) < DailySkips
           THEN /\ pc' = [pc EXCEPT ![r] = "skipClaim"]
                /\ day' = [day EXCEPT ![r] = today]
                /\ UNCHANGED <<sid, seen, tries>>
           ELSE Answer(r)
    /\ UNCHANGED <<rowVars, recordVars, today>>

SkipClaim(r) ==
    /\ pc[r] = "skipClaim"
    /\ LET s == sid[r] IN
         IF state[s] = "LOCKED"
           THEN /\ state' = [state EXCEPT ![s] = "BYPASSED"]
                /\ \E d \in day[r] .. today : skippedOn' = [skippedOn EXCEPT ![s] = d]
                /\ Goto(r, "auditSkipped")
           ELSE UNCHANGED <<state, skippedOn>> /\ Answer(r)
    /\ UNCHANGED <<countdown, stale, shown, lockedAt, recordVars, today>>

----------------------------------------------------------------------------
(* swapProblem: another problem under a live lock.  The problem, the       *)
(* revision and the adjusted flag change in one guarded update.            *)
SwapRead(r, s) ==
    /\ r \in Clients
    /\ state[s] = "LOCKED"
    /\ shown[s].revision < MaxRevision
    /\ Enter(r, s, "swap", shown[s])
    /\ UNCHANGED <<rowVars, recordVars, today>>

Swap(r, p) ==
    /\ pc[r] = "swap"
    /\ p # seen[r].problem
    /\ LET s == sid[r] IN
         IF StillShows(r)
           THEN Serve(r, s, [problem  |-> p,
                             revision |-> shown[s].revision + 1,
                             adjusted |-> TRUE])
           ELSE UNCHANGED shown /\ Answer(r)
    /\ UNCHANGED <<state, countdown, stale, lockedAt, skippedOn, recordVars, today>>

(* chooseReplacement finds nothing suitable and throws.                    *)
SwapFindsNothing(r) ==
    /\ pc[r] = "swap"
    /\ Answer(r)
    /\ UNCHANGED <<rowVars, recordVars, today>>

(* completeActivity: the response is about the assignment the row still    *)
(* shows; commitParticipation ends the session and writes its audit row in *)
(* one transaction.  No re-arm follows.                                    *)
ParticipateRead(r, s) ==
    /\ r \in Clients
    /\ state[s] = "LOCKED"
    /\ Enter(r, s, "participate", shown[s])
    /\ UNCHANGED <<rowVars, recordVars, today>>

Entry(outcome, problem) == [outcome |-> outcome, problem |-> problem]

CommitParticipation(r) ==
    /\ pc[r] = "participate"
    /\ LET s == sid[r] IN
         IF state[s] = "LOCKED" /\ shown[s].revision = seen[r].revision
           THEN /\ state' = [state EXCEPT ![s] = "BYPASSED"]
                /\ audit' = [audit EXCEPT ![s] =
                                Append(@, Entry("PARTICIPATED", seen[r].problem))]
           ELSE UNCHANGED <<state, audit>>
    /\ Answer(r)
    /\ UNCHANGED <<countdown, stale, shown, lockedAt, skippedOn, ladder, attemptCount, today>>

----------------------------------------------------------------------------
(* POST /cancel: ARMED only, no audit row and no ladder.                   *)
CancelRead(r, s) ==
    /\ r \in Clients
    /\ state[s] = "ARMED"
    /\ Enter(r, s, "cancel", Unassigned)
    /\ UNCHANGED <<rowVars, recordVars, today>>

Cancel(r) ==
    /\ pc[r] = "cancel"
    /\ LET s == sid[r] IN
         state' = IF state[s] = "ARMED" THEN [state EXCEPT ![s] = "ABANDONED"] ELSE state
    /\ Answer(r)
    /\ UNCHANGED <<countdown, stale, shown, lockedAt, skippedOn, recordVars, today>>

(* POST /abandon: a guard on LOCKED, then one on ARMED, and the pair once  *)
(* more; only then is the session reported as already resolved.            *)
(* Mutant: no retry.                                                       *)
MutantNoRetry == 1

AbandonAttempts == 2

AbandonRead(r, s) ==
    /\ r \in Clients
    /\ state[s] # "none"
    /\ Enter(r, s, "abandonLocked", Unassigned)
    /\ UNCHANGED <<rowVars, recordVars, today>>

(* What the ladder hears depends on the state the row was moved from: the  *)
(* failure is recorded after the audit row only for a lock that landed.    *)
AbandonLocked(r) ==
    /\ pc[r] = "abandonLocked"
    /\ LET s == sid[r] IN
         IF state[s] = "LOCKED"
           THEN /\ state' = [state EXCEPT ![s] = "ABANDONED"]
                /\ Goto(r, "auditGaveUp")
           ELSE UNCHANGED state /\ Goto(r, "abandonArmed")
    /\ UNCHANGED <<countdown, stale, shown, lockedAt, skippedOn, recordVars, today>>

AbandonArmed(r) ==
    /\ pc[r] = "abandonArmed"
    /\ LET s     == sid[r]
           tried == tries[r] + 1 IN
         IF state[s] = "ARMED"
           THEN /\ state' = [state EXCEPT ![s] = "ABANDONED"]
                /\ Goto(r, "auditStopped")
           ELSE /\ UNCHANGED state
                /\ IF tried < AbandonAttempts
                     THEN /\ pc' = [pc EXCEPT ![r] = "abandonLocked"]
                          /\ tries' = [tries EXCEPT ![r] = tried]
                          /\ UNCHANGED <<sid, seen, day>>
                     ELSE Answer(r)
    /\ UNCHANGED <<countdown, stale, shown, lockedAt, skippedOn, recordVars, today>>

(* reapStaleSessions: read the stale active rows, then one guarded update  *)
(* per row.  One user has one active row at most.  A sweep that takes long *)
(* does not hold back the next.                                            *)
(* Mutant: the reaper resolves only sessions that reached LOCKED.          *)
MutantReapRead(r, s) ==
    /\ r \in Reapers
    /\ state[s] = "LOCKED"
    /\ s \in stale
    /\ Enter(r, s, "reap", Unassigned)
    /\ UNCHANGED <<rowVars, recordVars, today>>

ReapRead(r, s) ==
    /\ r \in Reapers
    /\ state[s] \in Active
    /\ s \in stale
    /\ Enter(r, s, "reap", Unassigned)
    /\ UNCHANGED <<rowVars, recordVars, today>>

Reap(r) ==
    /\ pc[r] = "reap"
    /\ LET s == sid[r] IN
         IF state[s] \in Active
           THEN state' = [state EXCEPT ![s] = "ABANDONED"] /\ Goto(r, "auditReaped")
           ELSE UNCHANGED state /\ Answer(r)
    /\ UNCHANGED <<countdown, stale, shown, lockedAt, skippedOn, recordVars, today>>

----------------------------------------------------------------------------
(* Mutant: every handler trusts what it read first.                        *)
MutantAuditedProblem(r) == seen[r].problem

(* recordUnlock: one append-only row, whose failure is logged and dropped. *)
(* A solve and a skip name the problem the handler read first; abandon and *)
(* the reaper read the row again after they have won it.                   *)
AuditedProblem(r) ==
    IF pc[r] \in {"auditSolved", "auditSkipped"} THEN seen[r].problem
                                                ELSE shown[sid[r]].problem

(* What follows: a solve, and a lock given up on, move the ladder; a skip  *)
(* goes straight to rearmAfterSession, which arms the next countdown if    *)
(* the user has asked for that.                                            *)
AfterAudit(r) ==
    \/ pc[r] = "auditSolved" /\ Goto(r, "advanceSolved")
    \/ pc[r] = "auditGaveUp" /\ Goto(r, "advanceFailed")
    \/ pc[r] = "auditSkipped" /\ Rearm(r)
    \/ pc[r] \in {"auditSkipped", "auditStopped", "auditReaped"} /\ Answer(r)

WriteAudit(r) ==
    /\ pc[r] \in AuditSteps
    /\ \/ audit' = [audit EXCEPT ![sid[r]] =
                       Append(@, Entry(OutcomeAt[pc[r]], AuditedProblem(r)))]
       \/ MayFail /\ UNCHANGED audit
    /\ AfterAudit(r)
    /\ UNCHANGED <<rowVars, ladder, attemptCount, today>>

(* advanceProgress.  A solve carries the adjusted flag it read when the    *)
(* submission began, and re-arms; a failure carries the flag read after    *)
(* the resolution, and does not.                                           *)
Moved(solved, adjusted) == [solved |-> solved, adjusted |-> adjusted]

AdvanceSolved(r) ==
    /\ pc[r] = "advanceSolved"
    /\ ladder' = [ladder EXCEPT ![sid[r]] = Append(@, Moved(TRUE, seen[r].adjusted))]
    /\ Rearm(r) \/ Answer(r)
    /\ UNCHANGED <<rowVars, audit, attemptCount, today>>

AdvanceFailed(r) ==
    /\ pc[r] = "advanceFailed"
    /\ ladder' = [ladder EXCEPT ![sid[r]] = Append(@, Moved(FALSE, shown[sid[r]].adjusted))]
    /\ Answer(r)
    /\ UNCHANGED <<rowVars, audit, attemptCount, today>>

----------------------------------------------------------------------------
(* A statement throws, or the process dies, between two statements: the    *)
(* handler does nothing more.  A crash aborts every handler in flight.     *)
Abort(r) ==
    /\ MayFail
    /\ pc[r] # "idle"
    /\ Answer(r)
    /\ UNCHANGED <<rowVars, recordVars, today>>

(* Midnight, and the age at which the reaper takes a session.              *)
NewDay ==
    /\ today < MaxDay
    /\ today' = today + 1
    /\ UNCHANGED <<rowVars, recordVars, pc, localVars>>

GrowStale(s) ==
    /\ state[s] \in Active
    /\ stale' = stale \cup {s}
    /\ UNCHANGED <<state, countdown, shown, lockedAt, skippedOn, recordVars, today, pc, localVars>>

CountdownStep ==
    \E s \in Sessions : Expire(s) \/ Pause(s) \/ Resume(s) \/ Shorten(s)

FirstRead ==
    \E r \in Handlers, s \in Sessions :
        \/ EngageRead(r, s) \/ SubmitRead(r, s) \/ SkipRead(r, s)
        \/ SwapRead(r, s) \/ ParticipateRead(r, s)
        \/ CancelRead(r, s) \/ AbandonRead(r, s) \/ ReapRead(r, s)

ArmStep(r) == ArmRead(r) \/ ArmCreate(r) \/ ArmRefused(r)

EngageStep(r) ==
    (\E p \in Problems : ClaimDue(r, p)) \/ PickFails(r) \/ CountAttempt(r)

GradeStep(r) == JudgeRejects(r) \/ JudgeAccepts(r) \/ Release(r)

SkipStep(r) == SkipCount(r) \/ SkipClaim(r)

FlowStep(r) ==
    \/ \E p \in Problems : Swap(r, p)
    \/ SwapFindsNothing(r)
    \/ CommitParticipation(r)

GiveUpStep(r) == Cancel(r) \/ AbandonLocked(r) \/ AbandonArmed(r) \/ Reap(r)

RecordStep(r) == WriteAudit(r) \/ AdvanceSolved(r) \/ AdvanceFailed(r)

HandlerStep(r) ==
    \/ ArmStep(r) \/ EngageStep(r) \/ GradeStep(r) \/ SkipStep(r)
    \/ FlowStep(r) \/ GiveUpStep(r) \/ RecordStep(r) \/ Abort(r)

Next ==
    \/ CountdownStep
    \/ FirstRead
    \/ \E r \in Handlers : HandlerStep(r)
    \/ NewDay
    \/ \E s \in Sessions : GrowStale(s)

Spec == Init /\ [][Next]_vars

----------------------------------------------------------------------------
(* The type invariant.                                                     *)
LadderMove == [solved : BOOLEAN, adjusted : BOOLEAN]
AuditRow   == [outcome : Outcomes, problem : Problems \cup {NoProblem}]

RowsOK ==
    /\ state \in [Sessions -> Active \cup Resolved \cup {"none"}]
    /\ countdown \in [Sessions -> {"running", "due", "paused"}]
    /\ stale \subseteq Sessions
    /\ shown \in [Sessions -> Assignment]
    /\ lockedAt \subseteq Sessions
    /\ skippedOn \in [Sessions -> Days \cup {NoDay}]
    /\ today \in Days

RecordsOK ==
    /\ audit \in [Sessions -> Seq(AuditRow)]
    /\ ladder \in [Sessions -> Seq(LadderMove)]
    /\ attemptCount \in [Problems -> Nat]

HandlersOK ==
    /\ pc \in [Handlers -> Steps]
    /\ sid \in [Handlers -> Sessions \cup {NoSession}]
    /\ seen \in [Handlers -> Assignment]
    /\ day \in [Handlers -> Days]
    /\ tries \in [Handlers -> 0 .. 1]

TypeOK == RowsOK /\ RecordsOK /\ HandlersOK

(* bypassLock reads how many skips were spent, then ends the session in a  *)
(* later statement; the allowance must hold for each day all the same,     *)
(* whatever re-arms, solves or midnights fall in between.                  *)
SkipsWithinAllowance ==
    \A d \in Days : Cardinality(SkipsOn(d)) <= DailySkips

(* A session that ended has at most one audit row, written once, naming    *)
(* the way it ended and the problem it ended on; a session that is still   *)
(* active or was cancelled has none.  (A skip names the problem its first  *)
(* read saw, which a concurrent swap may have replaced.)                   *)
EndingOf(outcome) ==
    CASE outcome = "SOLVED"                     -> "UNLOCKED"
      [] outcome \in {"SKIPPED", "PARTICIPATED"} -> "BYPASSED"
      [] outcome \in {"ABANDONED", "REAPED"}     -> "ABANDONED"

AuditAgrees(s, row) ==
    /\ state[s] = EndingOf(row.outcome)
    /\ row.outcome = "SKIPPED" <=> skippedOn[s] # NoDay
    /\ row.outcome # "SKIPPED" => row.problem = shown[s].problem

AuditTellsTheEnding ==
    \A s \in Sessions :
        /\ Len(audit[s]) <= 1
        /\ \A i \in DOMAIN audit[s] : AuditAgrees(s, audit[s][i])

(* A session moves the ladder at most once: up only by the solve that      *)
(* released it, down only when a lock that landed was given up on, and     *)
(* always with the adjusted flag the row ended with.                       *)
LadderHearsEachEndingOnce ==
    \A s \in Sessions :
        /\ Len(ladder[s]) <= 1
        /\ \A i \in DOMAIN ladder[s] :
              /\ ladder[s][i].solved <=> state[s] = "UNLOCKED"
              /\ ~ladder[s][i].solved => state[s] = "ABANDONED" /\ s \in lockedAt
              /\ ladder[s][i].adjusted = shown[s].adjusted

(* Unless a statement fails, nothing an ending owes is lost: a lock that   *)
(* ended has its audit row, and a solve or a give-up its ladder move, or a *)
(* handler is still about to write it.                                     *)
GivenUp(s) ==
    s \in lockedAt /\ \E i \in DOMAIN audit[s] : audit[s][i].outcome = "ABANDONED"

SomeoneOwes(s, steps) ==
    \E r \in Handlers : sid[r] = s /\ pc[r] \in steps

EndingsAreRecorded ==
    ~MayFail =>
        \A s \in Sessions :
            /\ s \in lockedAt /\ state[s] \in Resolved =>
                  audit[s] # <<>> \/ SomeoneOwes(s, AuditSteps)
            /\ state[s] = "UNLOCKED" \/ GivenUp(s) =>
                  ladder[s] # <<>> \/ SomeoneOwes(s, AuditSteps \cup {"advanceSolved", "advanceFailed"})

(* What the audit and the ladder say of a session is how it ended, each    *)
(* once, whatever the order its requests and the sweeps came in.           *)
RecordsAgree == AuditTellsTheEnding /\ LadderHearsEachEndingOnce /\ EndingsAreRecorded

(* A serving is a session and the revision that was shown when it locked   *)
(* (zero), or after a swap; a count is a problem and its running number.   *)
Servings ==
    (lockedAt \X {0}) \cup UNION {{s} \X (1 .. shown[s].revision) : s \in Sessions}

Counts   == UNION {{p} \X (1 .. attemptCount[p]) : p \in Problems}
Counting == {r \in Handlers : pc[r] = "countAttempt"}

(* Problem.attemptCount counts each serving once: one for every session    *)
(* that locked and one for every swap, less those still to be counted.     *)
AttemptsCountServings ==
    LET heard == Cardinality(Counts) + Cardinality(Counting) IN
        /\ heard <= Cardinality(Servings)
        /\ ~MayFail => heard = Cardinality(Servings)

(* What lib/session-filters.ts says, and keys its filter on: "the reaper   *)
(* only ever resolves sessions that reached LOCKED".  It resolves ARMED    *)
(* ones too.                                                               *)
ReaperResolvesOnlyLocked ==
    \A s \in Sessions : \A i \in DOMAIN audit[s] :
        audit[s][i].outcome = "REAPED" => s \in lockedAt

----------------------------------------------------------------------------
(* Action properties.                                                      *)

(* An ending is final: no later request, sweep or swap changes how a       *)
(* session ended, on what, or whether it had locked.                       *)
EndingIsFinal ==
    [][\A s \in Sessions :
          state[s] \in Resolved =>
              /\ state'[s] = state[s]
              /\ shown'[s] = shown[s]
              /\ s \in lockedAt' <=> s \in lockedAt]_vars

(* A lock opens as solved only for a submission read on exactly the        *)
(* assignment it shows at that moment, adjusted flag included, however     *)
(* long the judge took and whatever was swapped meanwhile.                 *)
SolvedByWhatItShows ==
    [][\A s \in Sessions :
          state[s] # "UNLOCKED" /\ state'[s] = "UNLOCKED" =>
              \E r \in Handlers :
                  /\ pc[r] = "release"
                  /\ sid[r] = s
                  /\ seen[r] = shown[s]]_vars

(* /abandon reports "already resolved" only of a session that is: the      *)
(* engage sweep slipping between its two guards cannot lose a give-up.     *)
AbandonRefusedOnlyWhenResolved ==
    [][\A r \in Handlers :
          pc[r] = "abandonArmed" /\ pc'[r] = "idle" /\ ~MayFail =>
              state[sid[r]] \in Resolved]_vars

----------------------------------------------------------------------------
(* Liveness.  The sweeps are interval timers of the server process and the *)
(* clock moves on, so their reads are weakly fair.  A sweep's write may    *)
(* fail, or find nothing to pick, and is tried again by the next sweep: it *)
(* is strongly fair, which says that not every attempt fails.              *)
EngageFairness ==
    /\ \A s \in Sessions : WF_vars(Expire(s))
    /\ \A r \in Engagers :
          /\ \A s \in Sessions : WF_vars(EngageRead(r, s))
          /\ SF_vars(\E p \in Problems : ClaimDue(r, p))
          /\ WF_vars(CountAttempt(r))

ReapFairness ==
    /\ \A s \in Sessions : WF_vars(GrowStale(s))
    /\ \A r \in Reapers :
          /\ \A s \in Sessions : WF_vars(ReapRead(r, s))
          /\ SF_vars(Reap(r))
          /\ WF_vars(WriteAudit(r))

EngageSpec == Spec /\ EngageFairness

(* A countdown left to run locks or is ended, though no client asks and    *)
(* nobody reaps.                                                           *)
RunningCountdownsFire ==
    \A s \in Sessions :
        []<>~(state[s] = "ARMED" /\ countdown[s] # "paused")

(* No session blocks the next one for ever: as long as the reaper runs,    *)
(* each is ended, by it if by nobody else, even one that was left paused.  *)
EverySessionEnds ==
    ReapFairness => \A s \in Sessions : state[s] \in Active ~> state[s] \in Resolved

----------------------------------------------------------------------------
(* The interleaved handlers implement the contract, in which each ending,  *)
(* swap and skip is one step on the true state of the table.               *)
Contract == INSTANCE LockContract

ImplementsContract == Contract!Spec

=============================================================================

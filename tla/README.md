# CodeLock: specifications

CodeLock covers a user's screen when a countdown runs out and gives it back for a
solved problem, a skip from a daily allowance, or a give-up that counts against them.
The server's database decides what happened; a desktop shell or an Android service
covers the screen; a judge runs the programs; a skill path and a ladder decide what is
asked next. These modules describe the parts whose correctness depends on the order in
which requests, sweeps, polls and crashes happen, and the algorithms that read a long
history. Paths are relative to `src/`.

    cd tla
    tlc -workers 2 -config LockSession.cfg MCLockSession.tla
    tlapm LockSession_proofs.tla

## The system

| component | its state | operations | what is hard |
| --- | --- | --- | --- |
| lock sessions (`apps/api/src/services/lockSessions.ts`) | rows of `lock_sessions`: state, deadline, pause, assignment, endings | arm, engage, release, skip, reap | every handler reads, awaits and writes; any two interleave |
| lock routes (`routes/lock.ts`) | none of their own | cancel, pause, resume, shorten, skip, abandon, reason, flow | deadlines computed from an earlier read; an answer that may be given twice |
| session flow (`services/sessionFlow.ts`) | problem, revision, `adjusted` of a session | swap the problem, take part instead of solving | a verdict for a problem that was swapped away and back |
| grading (`services/grading.ts`) | submissions, problem statistics, the ladder's row | judge, gate, release, move the ladder, re-arm | the judge takes seconds or minutes while everything else moves |
| speed gate (`services/performance.ts`) | the problem's best times and average | target, waiver, standing, ratchet | statistics written from a row read before judging |
| audit (`services/audit.ts`) | `unlock_audits`, append-only | record an ending | its failure is swallowed |
| grade queue (`services/gradeQueue.ts`) | slots in use, a queue of waiters | acquire, release, reclaim | waiters overtaken, slots reclaimed under a running grade |
| sweeps (`index.ts`) | two interval timers | engage what is due (15 s), reap what is stale (15 min) | must make progress though single sweeps fail |
| difficulty ladder (`services/difficulty.ts`, `advanceProgress`, `/reason`) | one `UserProgress` row | move up or down, withdraw a failure | read-modify-write of a whole row |
| skill path (`services/skills.ts`, `skillState.ts`) | none: replayed from the log of solves and help | replay, collapse repeats, review dates | what a window, a limit or a grouping leaves out |
| problem selection (`services/problemSelector.ts`, `repetition.ts`, `stretch.ts`) | none of its own | walk a ladder of filters, two queries a rung; relief | the corpus edited between queries; the fallback |
| timer settings, active hours (`routes/settings.ts`, `services/schedule.ts`) | the timer's row; the screen's copy of it | patch, save, take back, re-arm | windows past midnight, answers out of order |
| judge service (`apps/judge/src`) | queues, workers, retained results | accept a batch, run, expire, answer polls | bounded queues and memory, expiry against polling |
| desktop shell (`apps/desktop/src`) | what covers the screen, the lock file | cover, poll, release on a token, kill switch, restore after a crash | answers that arrive after the screen's session changed |
| Android lock (`apps/mobile`) | the overlay, its preferences file, the app's pages | engage, release, restart, boot | kills nothing restarts, a clock that is set, a page that is gone |
| tutor, hints, lessons, read models, web, retrieval, deployment | mostly none | text, views, scripts | little of it is about order |

The pieces meet in the database. Clients call the lock routes; a submission takes a slot
of the grade queue, has the judge run the program, and only then tries to release the
session; each ending writes an audit row, may move the ladder and may arm the next
session; the two sweeps work on the same rows. No handler holds a lock or (but for
`commitParticipation`) a transaction across statements: every guarantee rests on
conditional updates and on one partial unique index. The screens learn of all this by
polling, and act on answers that may be old.

What would make each part correct:

- sessions: one active session per user, one ending per session, an ending never
  changes, skips within the allowance, a lock opens only for what it shows;
- countdown: the deadline is the sum of what was done to it, a due session stays due, a
  paused or engaged one is left alone;
- records: each ending is audited once and truthfully and moves the ladder at most once;
- grade queue: one grade per user, the host never runs more than its ceiling, nobody
  is overtaken or waits for ever;
- ladder: no update lost, no failure withdrawn that was not counted, a level moved only
  for what stands;
- speed gate: the record is the fastest solve, a waiver is for a first solve, no solve is
  left out of the count;
- skill path: a demonstrated skill was used alone on two occasions, and stays;
- selection: the nearest rung with a fair problem serves one, and nobody is refused or
  served out of their depth;
- hours: a window means what its ends say; the screen shows what is stored; the repeat
  keeps going until it is stopped;
- judge: no accepted job is lost before its client could have polled it, limits hold;
- screens: released only for the session they were covered for, and covered again after a
  crash if that session is still locked.

## Modules

| module | models | theorems in |
| --- | --- | --- |
| `LockContract` | the sessions of one user with every transition atomic: an abstract specification | |
| `LockSession` | the same with its handlers, statement by statement; implements `LockContract` | `LockSession_proofs` |
| `Countdown` | the arithmetic of one deadline under concurrent pause, resume and shorten | `Timer_proofs` |
| `TimerHours` | the settings, the active hours, the repeat and the settings screen | `Timer_proofs` |
| `GradeQueue` | admission control of grading | `Grading_proofs` |
| `SpeedGate` | a submission from its read of the problem to its last write | `Grading_proofs` |
| `Ladder` | `applyOutcome`, the read-modify-write around it, and the four statements of `/reason` | `Ladder_proofs` |
| `Judge` | the judge's Map, queues, pool and limits, and the clients that poll | `Judge_proofs` |
| `ScreenContract` | when a screen may be covered and given back: an abstract specification | |
| `DesktopShell` | the shell, its two pages and its file; implements `ScreenContract` | `DesktopShell_proofs` |
| `AndroidLock` | the service, its disk, the receiver and the app; implements `ScreenContract` | `AndroidLock_proofs` |
| `SkillRules` | how a solve moves a skill's record, and what is fair to serve | |
| `SkillReplay` | the replay of a learner's records from the log | `SkillPath_proofs` |
| `Selection` | `pickProblem`, and what the learner's evenings then do to it | `SkillPath_proofs` |
| `MC...` | symmetry sets and constant values for TLC | |

`LockSession` and `DesktopShell` take their contract by the names of its variables,
`AndroidLock` by an explicit mapping (`WITH`). `Selection` and `SkillReplay` share
`SkillRules`. The other modules meet in their assumptions: `DesktopShell` and
`AndroidLock` use the states of `LockSession` and its atomic endings, `LockSession` uses
of `Countdown` that a due session stays due, `Ladder` and `SpeedGate` refine the steps
`AdvanceSolved`, `AdvanceFailed` and `JudgeAccepts` of `LockSession`, and `SpeedGate`
overlaps grades only where `GradeQueue` reclaims a slot. A module of proofs extends one
module or two; where two are proved in one, their definitions have different names
(`HoursSpec`, `GateSpec`, `ReplaySpec` beside `Spec`).

Definitions named `Mutant...` are defects written beside the code they would be in; no
action uses them. They document what each property would notice.

Several modules choose at `Init` which faults, or which overlaps, a behaviour may have
(`faults` with `FaultCases`, `overlaps` with `OverlapCases`). That keeps the combinations
that matter in one run, and lets a property name the circumstances it needs, for instance
"as long as results are small and the judge stays up". `overlapped` (SpeedGate), `edits`
(Selection), `beside` and `doubtful` (TimerHours) and `overtaken` (AndroidLock) are history
for the same purpose: they never restrict a step, and name the circumstances in which the
code does not have what one would like it to have.

### LockSession

One action is one awaited statement with the synchronous code around it. `pc[r]` is the
statement handler `r` runs next; `sid`, `seen`, `day` and `tries` are the locals that
survive an await. The handlers are the client requests in flight (`Clients`, slots that
are reused) and the sweeps in flight (`Engagers`, `Reapers`; an interval timer does not wait
for its last sweep).

| request or sweep | actions |
| --- | --- |
| `armSession`, and `rearmAfterSession` | `ArmRead`, `ArmCreate` or `ArmRefused` |
| `/engage` and `engageDueSessions` | `EngageRead`, `ClaimDue` or `PickFails`, `CountAttempt` |
| `gradeSubmission` with `releaseLock` | `SubmitRead`, `JudgeRejects` or `JudgeAccepts`, `Release`, `WriteAudit`, `AdvanceSolved`, re-arm |
| `bypassLock` | `SkipRead`, `SkipCount`, `SkipClaim`, `WriteAudit`, re-arm |
| `swapProblem` | `SwapRead`, `Swap` or `SwapFindsNothing`, `CountAttempt` |
| `completeActivity` | `ParticipateRead`, `CommitParticipation` (one transaction) |
| `/cancel` | `CancelRead`, `Cancel` |
| `/abandon` | `AbandonRead`, `AbandonLocked`, `AbandonArmed` and the pair again, `WriteAudit`, `AdvanceFailed` |
| `reapStaleSessions` | `ReapRead`, `Reap`, `WriteAudit` |
| pause, resume, shorten, the clock | `Pause`, `Resume`, `Shorten`, `Expire`, `NewDay`, `GrowStale` |
| a statement that throws, a process that dies | `Abort`, and `WriteAudit` without its row |

Abstractions. The deadline is ahead, past or frozen; `Countdown` has the arithmetic, and
its theorem `DueCorrect` (in `Timer_proofs`) is why `Resume` and `Shorten` need not make a due session run
again. A problem is a value of a set; the choice among problems is any of them, or for a
swap any other one (`Selection` has the choice). Whether the timer is on, the hour is
right, re-arming is wanted and the judge accepts is left open. `overBudget` is fixed when
the lock lands and is left out of the ladder's flag. `SkipRead` merges the read of the
session with the read of the allowance, which is a constant. A re-read of the row after a
won claim and the audit that uses it are one action, since the row is final by then. A
client's request may use any session, its own old ones included; a request refused by its
first read is a stutter. `StillShows` is the WHERE clause of `claimResolution` with an
assignment; `ActiveSessions` in `ArmCreate` is the partial unique index.

### Countdown

One armed session. A control reads the row (`Read`), the clock (`ReadClock`), and writes
(`PauseWrite`, `ResumeWrite`, `ShortenWrite`); `Engage`, `End` and `Tick` come between any
two of these. `stamps`, `credited`, `given` and `taken` are history: they record what the
writes did and restrict one thing only, that no two pauses carry the same stamp (in the
code a millisecond).

### GradeQueue

`Refuse`, `Enqueue` and `Admit` are the outcomes of `acquireGradeSlot`; each begins with
`reclaimExpired`. `Release` is the returned closure with `pump` and the continuation of
the waiter it resolves, which run before the event loop takes up anything else; a waiter
whose user has got a slot meanwhile is refused and calls the next, so a release dismisses
a prefix of the queue. `GradeTicks` is the longest a grade may last: `PERF_BEST_OF` runs
of a POST, a poll deadline and a last poll begun before it, each cut off by
`JUDGE0_TIMEOUT_MS`. The pauses of at most 2 s between polls and the awaits of the
database are left out; the bound only decides whether `NeverEvicted` can be kept, and the
safety properties and theorems hold for any.

### Ladder

Sessions end one after the other; counting one reads the progress row (`ReadProgress`),
applies the outcome and writes the row back whole (`WriteProgress`). `/reason` checks
that none was given, stamps it, decrements, and clamps what the decrement returned:
`AnswerCheck`, `AnswerStamp`, `Withdraw`, `Clamp`. Whether a session was adjusted or over
its budget is `chosen`, how fast it was is `fast`. `streak`, `fastRun` and `withdrawn` are
history: the failures and fast solves that still stand against the present level. A run
holds either the sessions in turn with two answers racing, or overlaps as well.

### SpeedGate

A grader is one submission of one problem: `Start` reads the row, `Judge` measures,
`DecideGate`, `Stand` and `Save` use the row read at first, and `Count`, `ReleaseLock` and
`Finish` follow. Locks may be ended by anyone meanwhile (`EndLock`), and a grade may
overlap another once its slot was reclaimed. A runtime is a number the judge may measure.
There is one learner and one problem: statistics of two problems never meet. The queries
of a waiver and of a personal best look at all earlier rows, here `created`.

### Judge

Jobs are numbered in the order they are created, which is the order of the Map and of
both arrays, so all three are sets. `Accept` and `Refuse` are the POST with its limits,
`Finish` the end of a run with everything that follows synchronously (trim, pump),
`Sweep` the interval, `Restart` loses everything. A client polls until its batch is
settled or its patience ends. A payload weighs one, a result one if it is long.

### ScreenContract, DesktopShell, AndroidLock

`ScreenContract` has four variables: what each session is (`standing`), whose screen is
covered, which sessions were seen not locked while it was theirs (`lapsed`), and why the
screen was last given back. The shell's call `takeScreenFor` is a taker with its states
asked, claims, confirmed, refused, failed and waiting for a retry; the watchdog's polls
are asked and heard in separate steps; the dashboard and the lock page learn by polls and
act in effects; the lock file and the process die apart from each other. On Android a
call of the service is an intent that is delivered later, the release posts to the
page's thread, the system kills and may restart the service, the receiver brings the lock
back at boot, and the home screen polls only while it is mounted, by an interval that does
not wait for the last call: calls overlap and are heard in any order. `overtaken` are the
unheard answers "no session" since which another call has engaged a lock, and a release
that such an answer asks for is marked late; the contract takes as a constant (`Causes`) for
what a screen may be given back, and Android's has this cause ("answer") beside the
desktop's. The server is reduced
to the states of one's sessions, moved by rivals at any time; tokens are sets of
sessions; the drawing of the overlay is a flag.

### SkillRules, SkillReplay, Selection

The graph of skills and what each problem requires are constants with an assumption that
the prerequisites are acyclic. `SkillReplay` logs solves and help at times, in a session
or in practice, with swaps inside a session and sessions that end (`spent`), and replays the log as
`replaySkillSnapshot` does: the newest `ReplayLimit` rows, the collapse of repeats of one
occasion, help found by its window, staleness by the last use. `SolveInLock`,
`SolveInPractice`, `HintInLock`, `HintInPractice` and `ShowSolution` each add a row;
`Lock`, `SwapShown` and `LeaveLock` move the session. A submission is one step, its
creation and its verdict. `Selection` walks the rungs: each is a first query for the
matching rows and a second for a sample of the fair ones, and a problem may be switched on
or off between the two; then the fallback, the second walk without the budget, the
refusal. What the learner does with the lock (solve, with or without help, swap, leave)
changes what the next walk excludes and whether it gives relief. Weights are left out:
any member of the chosen pool may be served, the shortest when over the budget.

### TimerHours

Time is the local minute of the week, a day of `Day` minutes; daylight saving and a new
time zone are jumps of the clock. `IsWithinActiveWindow` is the code's computation,
`IsOpen` the meaning it is checked against. Arming reads the repeat setting, then the
other settings, then creates (`ReadRepeat`, `ReadArm`, `Create`), with patches in between;
`EndSession` and `Fire` end and land what was armed, `Minute` and `SetClock` move the clock.
The settings screen shows a change before it is saved and takes it back on any error.
Its controls stay enabled meanwhile, so saves overlap; one may be refused, never arrive,
lose its answer after the row was stored, or be handled after the screen gave it up
(`Save`, `Handle`, `Answer`, `Lose`). `doubtful` collects the fields that the screen has
reason to have wrong: saved by another client, by two saves at once, by a save beside one
that failed, or stored though reported as failed.


## Runs

Each run asks one question; `PROJECT.json` has the sentence. Deadlock is checked where
the system can always take a step (`LockSession`, `LockSessionSweeps`, `GradeQueue`); the
others stop when their bounds are used up or the user stays away.

| run (cfg) | properties | bounds, and why they are enough |
| --- | --- | --- |
| `LockSession` | `RecordsAgree`, `AttemptsCountServings`, `AbandonRefusedOnlyWhenResolved`, `ImplementsContract` | two sessions of one user, one after the other, so that a handler of the first meets the second; two requests and a reaper, the most that a race of two statements and a sweep needs; two problems, one skip, two days, one swap, no failures |
| `LockSessionSweeps` | `SolvedByWhatItShows`, `RunningCountdownsFire`, `EverySessionEnds` | one session, two requests, both sweeps, statements that fail, and two swaps: away and back, the shortest way to a problem that looks unchanged |
| `Countdown` | `CountdownKept`, `DueStaysDue` | two requests, a countdown of two, four ticks: a pause, a resume and a shorten can each start before and land after another |
| `GradeQueue` | `OneSlotPerUser`, `HostProtected`, `NoIdleSlot`, `QueueIsFair`, `WaitersAreAnswered` | five requests of three users for two slots and two places: both limits are met and users ask again while they wait. A grade may outlast its slot by a tick, so slots are reclaimed; the first three hold all the same, the last two say `NeverEvicted` |
| `DesktopShell` | `HeldIsOnDisk`, `ImplementsScreenContract`, `EndedScreensOpen`, `LockedIsCovered` | one session, one taker, two polls in flight, a move of a rival and a death, with no fault or with all five |
| `AndroidLock` | `KeptOnDisk`, `ImplementsScreenContract`, `StoredIsRaised`, `ScreenFollows` | one session, two calls of the home screen that overlap, a lock's life of one, one death, one intent in flight; with the battery manager's kills, or with a revoked permission and a clock that is set. Two sessions and two calls together are too many states; that the screen of one session is not opened for another is in the theorems |
| `Ladder` | `TotalsAddUp`, `StreakIsReal`, `LevelsAreEarned` | three sessions, enough for a demotion and for a promotion, two answers; in turn, and with answers, sessions or reasons that overlap |
| `Judge` | `PoolInv`, `PeopleFirst`, `AnswersAreVerdicts`, `JobsAreForgotten` | a person and the importer, three jobs, batches of two, one worker: every limit is reached; answers lost, or heavy results and a restart |
| `SkillReplay` | `DemonstratedTwice`, `StateFollowsCounts`, `SatisfiedStays` | two skills, two problems, one session, four rows of which the replay reads three: two uses alone, with help or a repeat between them, and one cut |
| `Selection` | `NeverOutOfDepth`, `NearestServed`, `ServesAsAsked` | two skills, a problem for one and for both, two gates, with and without a budget, one edit of the corpus |
| `SpeedGate` | `RecordsAreTrue`, `StatisticsHold` | three submissions, one language, three runtimes (faster than the reference, within the gate, too slow) |
| `TimerHours` | `HoursAreHonoured`, `ShownIsStored`, `RepeatKeepsGoing` | a day of three minutes and all 21 of the week, windows that wrap, are empty or whole, one jump of the clock; two saves at once, in the first minute and before anything is armed; time passes while the screen rests at the defaults (`ScreenOrTime`, a CONSTRAINT: the screen and the arming meet in the row only, and what a screen saves another client can save too) |

For every property of a run `PROJECT.json` names a mutant, a plausible defect of the code
that makes TLC refute it.

What the bounds leave out is small in one sense: no property relates more than two
handlers and a sweep, two sessions, or three entries of a queue, and each safety
property of these runs is also a theorem for any number of them (below).

`SelectionLearns.cfg` is a thirteenth configuration, run by hand: under `EagerSpec` the
path can be walked from nothing to every skill demonstrated (`AllLearned`).

### Where the code and its comments disagree

Twelve configurations `*Disagreements.cfg` hold properties that a comment, a test or a
document of the repository states and the code does not have. TLC refutes each: run it
with `-continue`, or one property at a time. `PROJECT.json` "findings" quotes the lines.

- Sessions: the reaper resolves armed sessions too (`ReaperResolvesOnlyLocked`).
- Countdown: a pause that is stamped before another pause and lands after its resume is
  given back twice (`NotAMinuteMore`). The length that is left is still accounted for
  (`CountdownKept`), which is about what the writes did.
- Grade queue: a grade may outlive its slot (`NeverEvicted`); more grades then run than the
  ceiling (`HostProtected` is of those that hold a slot or are within their time), and a
  waiter may wait on, since newcomers take what is reclaimed.
- Desktop: nothing watches the deadline of a session armed elsewhere while the window is
  closed, and a refused engagement is never tried again (`WatchedFromTray`); a lost race with
  a pause is taken for a confirmation (`ConfirmedLockedFirst`); interruptions are
  miscounted (`CountSurvivesRestart`, `CountsOnlyDeaths`); a lock is not restored without a
  key (`RestoredWithoutKey`).
- Ladder: two answers, or an answer and a solve, overwrite one another
  (`AskedOnce`, `WithdrawnIsGone`); a withdrawal takes what it did not put there
  (`WithdrawsItsOwn`, `BelowZeroOnlyByRace`).
- Judge: results are dropped under a client that still polls (`KeptForPolling`), and bulk
  work fills the limits a person needs (`BulkTakesNoRoom`).
- Android: an answer that a lock overtook releases the live lock (`KeptWhateverIsHeard`); a
  session ended elsewhere stays covered (`StaleOverlaysDrop`, `EndedScreensOpen`); the
  expiry is renewed, ignored at a restart, or twice as far as it should be (`ExpiryStays`,
  `RaisedOnlyWhileLive`, `NoLongerThanAllowed`).
- Skills: a long log unlearns (`SatisfiedForGood`); help ends a
  review (`HelpNeverDemonstrates`); a lock's answer repeated in practice is a second occasion
  (`OneSittingOnce`); hints do not cross from a lock to practice (`HintedIsAssisted`).
- Selection: a fallback emptied between two queries is a refusal (`RefusedOnlyWhenEmpty`); the
  walk without a budget skips rungs (`NearestServedPastBudget`); the shortest is only that of
  a sample (`ShortestWins`); a problem that fits is said not to (`WithinBudgetTruth`); reviews
  are served as locks (`NoReviewAsLock`); a debrief read afterwards earns relief
  (`ReliefIsEarned`).
- Speed gate: an overlapping grade writes an old record back (`FastestEver`); practice
  counts in the mean without having a time (`AverageIsTheMean`).
- Timer: a session may be armed after the repeat was stopped (`StopIsKept`); a window past
  midnight is refused when sent whole (`OvernightIsOrdinary`); a save that failed takes back a
  later one with it (`SavedIsShown`); a save whose answer was lost is stored and taken back
  (`FailedIsNotStored`).

## Fairness

Fairness is assumed only of what the server, the judge, the phone or the process does
without anybody asking, and of no user.

- `LockSession`: `EngageSpec` makes the clock, the engage sweep's reads and its
  bookkeeping weakly fair: they are an interval timer and the code after an await. Its
  write is strongly fair, because a sweep whose statement throws leaves the session to the
  next sweep; this says only that not every attempt fails. `EverySessionEnds` adds the
  reaper's half as a premise, `RunningCountdownsFire` does without it.
- `GradeQueue`: a grade ends, since its runs are cut off and the slot is released in a
  `finally`. `WaitersAreAnswered` has `[]NeverEvicted` as a premise: without it the code
  does not have the property.
- `DesktopShell`: the watchdog's interval, the process's login item, the page's timers
  and polls; answers arrive if they are asked for again and again. `LockedIsCovered` is for
  a run without faults.
- `AndroidLock`: the system delivers intents, posts, restarts and broadcasts
  (`PhoneSpec`); a mounted home screen polls, and a poll is answered if it is asked often
  enough (`AppSpec`). `ScreenFollows` has premises: the home screen is opened again and again,
  the clock is left alone and no lock outlives its twelve hours (`Unexpired`).
- `Judge`: a run ends since the host kills it, the sweep is an interval, time passes.
- `TimerHours`: a request that was begun is carried out. `RepeatKeepsGoing` has as a
  premise that the repeat stays wanted and the hours open, and is not about a re-arm whose
  statement throws: that is swallowed (`lockSessions.ts:326`) and nothing retries it.
- `SelectionLearns`: that a problem served again and again is at times solved without
  help is a premise about the learner, not a claim about the code.

## Proofs

Every safety property that a run checks, invariant or action property, and every
refinement of a run is also proved by TLAPS, for all values of the constants that
satisfy the modules' assumptions and, for one theorem, the hypothesis the table names
(`CorpusTeaches`). Each proof has an inductive invariant; one lemma per action says that
the action keeps it, and the theorem follows by temporal logic.

| theorem | property | what its invariant adds |
| --- | --- | --- |
| `LockSession_proofs` | | |
| `TypeCorrect`, `AllowanceCorrect`, `EndingsFinal` | types; `SkipsWithinAllowance`; `EndingIsFinal` | `TypeInv`: a handler past its first read has a session. `SessionInv`: one active session, an unpicked problem is none, what a handler saw is not newer than the row, a granted skip was within the allowance |
| `SolvedCorrect`, `Refinement` | `SolvedByWhatItShows`, `ImplementsContract` | the same; each step of a handler is a step of the contract or leaves its variables alone |
| `RecordsCorrect` | `RecordsAgree` | a handler that won an ending owes its records: nobody else owes them (`OneOwes`), they are unwritten and still true (`OwedTruly`), and an open session has none (`OpenUnwritten`, `LocksDated`) |
| `AbandonTruthful` | `AbandonRefusedOnlyWhenResolved` | `GivingUp`: in its second pair of updates the session has locked or ended |
| `AttemptsCorrect` | `AttemptsCountServings` | `CountInv`: the servings are the counts made and the counts owed |
| `Timer_proofs` | | |
| `DeadlineCorrect`, `LocksOwed`, `CountdownCorrect`, `DueCorrect` | `CountdownKept`, `DueStaysDue` | locals never run ahead of the row or the clock, each stamp is used once, a landed lock was due |
| `HoursCorrect` | `HoursAreHonoured` | that the window is typed, whatever is patched; the rest is arithmetic modulo the week |
| `ShownCorrect` | `ShownIsStored` | `FieldInv`, of each field that is not doubtful: one save in flight at most has it, it is shown as stored unless that save waits for its answer, and what a failing save would put back is as stored. For any number of overlapping saves |
| `Grading_proofs` | | |
| `SlotsCorrect`, `HostCorrect` | `OneSlotPerUser`, `HostProtected` | who waits is queued once, who holds a slot runs, the ceiling holds on the books, and a grade that runs is on them or has outlasted its slot (`RunnersHold`) |
| `StaysBusy`, `FairToWaiters` | `NoIdleSlot`, `QueueIsFair` | the same; which waiters a release dismisses and which it calls |
| `StatisticsCorrect` | `StatisticsHold` | every solve is counted once (`CountedInv`), and the average lies between two times that were seen (`AverageInv`) |
| `RecordsTrue` | `RecordsAreTrue` | rows are ordered by their creation; a grade that runs alone is the youngest and has read the latest record (`AloneInv`); what was compared stays so (`ComparedInv`) |
| `Ladder_proofs` | | |
| `StreakReal`, `DemotionEarned`, `PromotionEarned`, `LevelsEarned` | `StreakIsReal`, `LevelsAreEarned` | in turn, a row in hand is the row (`TurnInv`), and the counters are bounded by what stands (`StreakInv`), also in the midst of a clamp |
| `TotalsCorrect` | `TotalsAddUp` | no row, stored, read or returned, holds more than the sessions that were counted (`OnceInv`); in turn, one answer at a time withdraws once (`ReasonInv`), and the totals are the solves and the failures that were not withdrawn, but for withdrawals of what was never counted (`TotalsInv`) |
| `Judge_proofs` | | |
| `Accounts`, `Bounded`, `Reachable`, `WorkConserving`, `PoolCorrect` | `PoolInv` | tokens to come are unused. What a pump takes is an initial segment of its queues, what is trimmed one of the results |
| `InOrder` | `PeopleFirst` | the same |
| `VerdictsAreTrue` | `AnswersAreVerdicts` | `VerdictInv`: a client that is still patient polls for jobs that are there, as old as its wait, and not expired |
| `DesktopShell_proofs` | | |
| `TypeCorrect`, `HeldOnDisk` | `HeldIsOnDisk` | an in-progress call is counted |
| `Refinement` | `ImplementsScreenContract` | `LapseInv`: a token is of a solved session, and a release on its way is for a session that has lapsed or ended |
| `AndroidLock_proofs` | | |
| `TypeCorrect`, `DiskKept`, `Refinement` | `KeptOnDisk`, `ImplementsScreenContract` | what is on its way is still true when it arrives, unless a lock overtook it: releases, posts and "no session" answers (`MessagesInv`); a window has its lock on disk (`WindowInv`); who outstays is known (`LapsedInv`). For any number of overlapping calls |
| `SkillPath_proofs` | | |
| `NearestFairIsServed`, `NobodyIsRefused`, `NobodyOutOfDepth` | `NearestServed`, `NeverRefused`, `NeverOutOfDepth` | while nothing is edited, the rungs behind the walk have nothing fair, and no fallback only if they are empty. The last is for a corpus that teaches every skill (`CorpusTeaches`), shown by the first skill the learner cannot lean on |
| `ServedAsAsked` | `ServesAsAsked` | what the walk knows of the budget, of edits so far, and of what relief was offered |
| `ReplayTypeCorrect`, `StateFollows`, `DemonstratedByTwo` | types; `StateFollowsCounts`, `DemonstratedTwice` | `Agrees`: after each row a record holds the counts of the episodes so far, and its state follows from them |
| `StaysForGood` | `SatisfiedStays` | a step cuts rows or keeps them, and where it cuts none that used a skill, each episode of the skill is one of the longer log (`UsesStay`). For any limit and any log |

Assumptions on constants are named in the modules that declare them, and TLC evaluates
them in every run: limits are naturals, the ladder has its levels, the prerequisites
are acyclic, a patch has the fields and ranges that `schemas.ts` lets through
(`HoursAssumption`). `CorpusTeaches` is a hypothesis of one theorem, for the reason above.
Where the code does not have a property in some circumstance, the property names it and
the theorem has no hypothesis: what lies beyond is refuted in a disagreement.

The lemmas that carry several proofs: a nonempty set of naturals has a least member
(`NatMin`, `LeastNumber`), which replaces induction throughout, for queues in
`Judge_proofs` and for the rows of a log in `SkillPath_proofs` (`UpTo`, and `Recursion` for
the existence of the recursive functions); how finite sets of handlers, slots or episodes
grow by one; what a merge of a patch, a trim or a pump leaves.

Only model-checked:

- liveness (`RunningCountdownsFire`, `EverySessionEnds`, `WaitersAreAnswered`,
  `EndedScreensOpen`, `LockedIsCovered`, `StoredIsRaised`, `ScreenFollows`,
  `JobsAreForgotten`, `RepeatKeepsGoing`, `AllLearned`): each needs fairness and with it
  ENABLED, which the prover does not treat;
- the properties of the disagreements, which are false.

## Not modelled

The repository is mostly data and text: the corpus of problems, lessons, hints, the
tutor's sentences, the views of two clients. The modules cover the few thousand lines
whose order of execution matters.

- Retrieval schedule: two of its three operations have no caller.
- Unlock tokens: the cryptography of one call; that only a won release issues one is in
  `LockSession`.
- Learning log, read models, problem ranking and progression: rows appended or read;
  nothing modelled depends on their order beyond what `SkillReplay` and `Selection` read.
- Tutor, lessons, hints, explanations: pure text. Their runs of code, and the demo's, are
  users of `GradeQueue`.
- Desktop host services, the rest of the mobile application, the web application:
  input, output and views. On iOS the lock module does nothing.
- Shared packages, corpus and deployment: types, data and scripts.
- Of the judge's client, encodings and the importer's retries; of the timer's settings,
  fields that no lock depends on; of the lock routes, reads and rate limits.

What a crash of the database or a partition between it and the server does is left to
the database: a statement happens or it throws.

---------------------------- MODULE SkillReplay ----------------------------
(***************************************************************************)
(* Where a learner is (services/skillState.ts): nothing stores it, it is   *)
(* replayed from the log of accepted submissions and of help each time it  *)
(* is asked for.                                                           *)
(*                                                                         *)
(* The log holds both kinds of rows in the order of their times: no two    *)
(* have the same instant, and the windows compare coarser times.  A        *)
(* submission is one step here, its creation and its verdict: the model    *)
(* has no help or second submission while one is being judged.             *)
(***************************************************************************)
EXTENDS SkillRules, Sequences

CONSTANTS
    Sessions,       \* lock sessions
    NoSession,      \* the session of a practice submission
    Unshown,
    ReplayLimit,    \* REPLAY_LIMIT
    ReviewTime,     \* SKILL_REVIEW_DAYS
    Sitting,        \* PRACTICE_SITTING_MS and PRACTICE_HELP_WINDOW_MS
    MaxTime,        \* bound: the clock
    MaxLog          \* bound: rows in the log

ASSUME ReplayAssumption ==
    /\ NoSession \notin Sessions
    /\ Unshown \notin Problems
    /\ ReplayLimit \in Nat
    /\ ReviewTime \in Nat
    /\ Sitting \in Nat
    /\ MaxTime \in Nat
    /\ MaxLog \in Nat

VARIABLES
    now,
    log,        \* accepted submissions, and help
    session,    \* the live lock session
    shown,      \* the problem of each session
    spent       \* sessions that are over

replayVars == <<now, log, session, shown, spent>>

Kinds == {"solve", "hint", "debrief"}
LogRows == [kind : Kinds, problem : Problems, session : Sessions \cup {NoSession}, at : 0 .. MaxTime]

ReplayInit ==
    /\ now = 0
    /\ log = <<>>
    /\ session = NoSession
    /\ shown = [s \in Sessions |-> Unshown]
    /\ spent = {}

Solves(l) == {i \in DOMAIN l : l[i].kind = "solve"}

(* The newest rows that loadSkillSnapshotStatus takes.                     *)
Taken(l) == {i \in Solves(l) : Cardinality({j \in Solves(l) : j > i}) < ReplayLimit}

(* attributeHelp: help before the solve, in its session and on its problem *)
(* or, for practice, within the window and not tied to a lock.             *)
IsAssisted(l, i) ==
    \E j \in DOMAIN l :
        /\ j < i
        /\ l[j].kind # "solve"
        /\ l[j].problem = l[i].problem
        /\ IF l[i].session # NoSession
           THEN l[j].session = l[i].session
           ELSE /\ l[j].session = NoSession \/ l[j].kind = "debrief"
                /\ l[j].at >= l[i].at - Sitting

(* Mutant: repeated passes are not collapsed.                              *)
MutantEpisodes(l) == Taken(l)

(* The same problem in one session, or in one sitting of practice.         *)
Repeats(l, i, n) ==
    /\ l[i].problem = l[n].problem /\ l[i].session = l[n].session
    /\ l[n].session = NoSession => l[n].at - l[i].at <= Sitting

(* dedupeEpisodes: of a problem in one session the first, and in practice  *)
(* the first of each sitting, counted from the last one kept.              *)
Kept(l) ==
    LET taken == Taken(l)
        kept[n \in 0 .. Len(l)] ==
            IF n = 0 THEN {}
            ELSE IF n \in taken /\ \A i \in kept[n - 1] : ~Repeats(l, i, n)
                 THEN kept[n - 1] \cup {n}
                 ELSE kept[n - 1]
    IN  kept

Episodes(l) == Kept(l)[Len(l)]

(* replaySkillSnapshot, before anything is marked due.                     *)
Replay(l) ==
    LET episodes == Episodes(l)
        snap[n \in 0 .. Len(l)] ==
            IF n = 0 THEN [s \in Skills |-> EmptySkillRecord]
            ELSE IF n \notin episodes THEN snap[n - 1]
            ELSE [s \in Skills |->
                    IF s \in Requires[l[n].problem]
                    THEN AdvanceSkillState(snap[n - 1][s], IsAssisted(l, n))
                    ELSE snap[n - 1][s]]
    IN  snap

Practised(l, s) == {i \in Episodes(l) : s \in Requires[l[i].problem]}

(* The last time it was practised is older than the review time.           *)
IsStale(l, s, t) ==
    LET used == Practised(l, s)
    IN  used # {} /\ \A i \in used : l[i].at < t - ReviewTime

(* replaySkillSnapshot.                                                    *)
Snapshot(l, t) ==
    LET snap == Replay(l)[Len(l)]
    IN  [s \in Skills |-> IF IsStale(l, s, t) THEN MarkDueForReview(snap[s]) ELSE snap[s]]

----------------------------------------------------------------------------
Record(kind, p, s) ==
    /\ Len(log) < MaxLog
    /\ log' = Append(log, [kind |-> kind, problem |-> p, session |-> s, at |-> now])

(* A lock takes the screen; one at a time.                                 *)
Lock(s, p) ==
    /\ session = NoSession
    /\ s \notin spent
    /\ session' = s
    /\ shown' = [shown EXCEPT ![s] = p]
    /\ UNCHANGED <<now, log, spent>>

(* The learner asks for a different one.                                   *)
SwapShown(p) ==
    /\ session # NoSession
    /\ p # shown[session]
    /\ shown' = [shown EXCEPT ![session] = p]
    /\ UNCHANGED <<now, log, session, spent>>

(* A submission under the lock that passes.  One that is too slow leaves   *)
(* the lock up, and the same problem may pass again.                       *)
SolveInLock ==
    /\ session # NoSession
    /\ Record("solve", shown[session], session)
    /\ \/ UNCHANGED <<session, spent>>
       \/ session' = NoSession /\ spent' = spent \cup {session}
    /\ UNCHANGED <<now, shown>>

HintInLock ==
    /\ session # NoSession
    /\ Record("hint", shown[session], session)
    /\ UNCHANGED <<now, session, shown, spent>>

(* Any other ending: skipped, bypassed, given up.                          *)
LeaveLock ==
    /\ session # NoSession
    /\ session' = NoSession
    /\ spent' = spent \cup {session}
    /\ UNCHANGED <<now, log, shown>>

(* The worked solution, for a session that is over.                        *)
ShowSolution(s) ==
    /\ s \in spent
    /\ Record("debrief", shown[s], s)
    /\ UNCHANGED <<now, session, shown, spent>>

(* Practice has no session, whatever the lock is doing.                    *)
SolveInPractice(p) ==
    /\ Record("solve", p, NoSession)
    /\ UNCHANGED <<now, session, shown, spent>>

HintInPractice(p) ==
    /\ Record("hint", p, NoSession)
    /\ UNCHANGED <<now, session, shown, spent>>

Tick ==
    /\ now < MaxTime
    /\ now' = now + 1
    /\ UNCHANGED <<log, session, shown, spent>>

ReplayNext ==
    \/ \E s \in Sessions, p \in Problems : Lock(s, p)
    \/ \E p \in Problems : SwapShown(p) \/ SolveInPractice(p) \/ HintInPractice(p)
    \/ SolveInLock \/ HintInLock \/ LeaveLock
    \/ \E s \in Sessions : ShowSolution(s)
    \/ Tick

ReplaySpec == ReplayInit /\ [][ReplayNext]_replayVars

----------------------------------------------------------------------------
snapshot == Snapshot(log, now)

(* The log is well typed, and so is what is replayed from it; a skill that *)
(* was never met has no solves.                                            *)
ReplayTypeOK ==
    /\ now \in 0 .. MaxTime
    /\ log \in Seq(LogRows)
    /\ session \in Sessions \cup {NoSession}
    /\ shown \in [Sessions -> Problems \cup {Unshown}]
    /\ spent \subseteq Sessions
    /\ LET snap == snapshot
       IN  /\ snap \in [Skills -> SkillRecords]
           /\ \A s \in Skills : IsIntroduced(snap[s]) <=> snap[s].unaided + snap[s].assisted > 0

(* One piece of work: the same problem in the same session, or in practice *)
(* within one sitting.                                                     *)
OneOccasion(i, j) ==
    /\ log[i].problem = log[j].problem
    /\ log[i].session = log[j].session
    /\ log[i].session = NoSession => log[j].at - log[i].at <= Sitting

Unaided(s) == {i \in Solves(log) : s \in Requires[log[i].problem] /\ ~IsAssisted(log, i)}

(* skillState.ts:88 says repeated passes are one occasion: a demonstrated  *)
(* skill was used without help on two separate ones.                       *)
DemonstratedTwice ==
    LET snap == snapshot IN
    \A s \in Skills :
        IsSatisfied(snap[s]) =>
            \E i, j \in Unaided(s) : i < j /\ ~OneOccasion(i, j)

(* skillState.ts:132 says the order of the solves matters; it does not: a  *)
(* state follows from the counts, as advanceSkillState moves them one by   *)
(* one, and from whether the skill was used lately.                        *)
StateFollowsCounts ==
    LET snap == snapshot IN
    \A s \in Skills :
        LET r == snap[s]
            used == Practised(log, s)
            alone == Cardinality({i \in used : ~IsAssisted(log, i)})
        IN  /\ r.unaided = alone /\ r.assisted = Cardinality(used) - alone
            /\ IsSatisfied(r) <=> alone >= UnaidedToDemonstrate
            /\ r.state = "due_for_review" <=> IsSatisfied(r) /\ IsStale(log, s, now)

(* skillState.ts:139 says a due skill stays satisfied and nothing re-locks *)
(* downstream: a skill once demonstrated is satisfied for good, until the  *)
(* replay's limit cuts a solve of a problem that uses it.  Solves of other *)
(* problems that are cut (REPLAY_LIMIT counts all of them) take nothing    *)
(* from it, nor does a row that repeats what is kept.                      *)
SatisfiedStays ==
    [][log' # log \/ now' # now =>
         LET before == snapshot
             after == snapshot'
             cut == Taken(log) \ Taken(log')
         IN  \A s \in Skills :
                IsSatisfied(before[s]) /\ (\A i \in cut : s \notin Requires[log[i].problem])
                   => IsSatisfied(after[s])]_replayVars

(* skillState.ts:48 says that nothing past a few hundred solves can change *)
(* the outcome: satisfied is satisfied for good, whatever is cut.          *)
SatisfiedForGood ==
    [][log' # log \/ now' # now =>
         LET before == snapshot
             after == snapshot'
         IN  \A s \in Skills : IsSatisfied(before[s]) => IsSatisfied(after[s])]_replayVars

(* skills.ts:130 says help never demonstrates.                             *)
HelpNeverDemonstrates ==
    [][\A s \in Skills :
          snapshot[s].state # "demonstrated" /\ snapshot'[s].state = "demonstrated"
             => ~IsAssisted(log', Len(log'))]_replayVars

(* skillState.ts:101 says resubmitting an accepted answer in one sitting   *)
(* is one solving occasion.                                                *)
OneSittingOnce ==
    \A i, j \in Episodes(log) :
        i < j /\ log[i].problem = log[j].problem => log[j].at - log[i].at > Sitting

(* skillState.ts:294 says that assisted work recorded as independent is    *)
(* the one mistake this layer must not make.                               *)
HintedIsAssisted ==
    \A i, j \in DOMAIN log :
        /\ i < j /\ log[i].kind # "solve" /\ log[j].kind = "solve"
        /\ log[i].problem = log[j].problem
        /\ log[j].at - log[i].at <= Sitting
        => IsAssisted(log, j)

=============================================================================

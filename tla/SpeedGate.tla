------------------------------ MODULE SpeedGate -----------------------------
(***************************************************************************)
(* The speed gate and the statistics of one problem:                       *)
(* services/performance.ts, and what gradeSubmission (services/grading.ts) *)
(* does with the problem's row.  A grader is one submission; it reads the  *)
(* row once, before judging, and writes it at the end from what it read.   *)
(*                                                                         *)
(* There is one learner (middleware/localUser.ts), of whom the grade queue *)
(* runs one grade at a time; but it takes the slot of a grade that runs    *)
(* for three minutes to be leaked, and then two overlap.  A lock may end   *)
(* while its submission is judged.                                         *)
(***************************************************************************)
EXTENDS Integers, Sequences, FiniteSetsExt, Functions

CONSTANTS
    Graders,        \* submissions
    Languages,
    Reference,      \* referenceRuntimeMs, of some languages
    Runtimes,       \* what the judge may measure: the best of its runs
    Elapsed,        \* seconds since the lock engaged
    TolerancePercent, FloorMs,      \* PERF_TOLERANCE, PERF_FLOOR_MS
    InitialAverage

ASSUME SpeedGateAssumption ==
    /\ DOMAIN Reference \subseteq Languages /\ Range(Reference) \subseteq Nat
    /\ Runtimes \subseteq Nat /\ Elapsed \subseteq Nat
    /\ TolerancePercent \in 100 .. 1000 /\ FloorMs \in Nat /\ InitialAverage \in Nat

VARIABLES
    problem,        \* bestRuntimeMs, avgSolveSeconds and solveCount of its row
    rows,           \* the submissions' rows
    created,        \* their order
    pc,
    seen,           \* the problem, as its grader read it
    lock,           \* the lock a submission is for: practice, locked, over or released
    verdict,        \* performance and standing
    overlapped      \* history: a slot was reclaimed under a running grade

gateVars == <<problem, rows, created, pc, seen, lock, verdict, overlapped>>

NewRow     == [status |-> "none", language |-> "none", elapsed |-> 0, runtime |-> 0]
NoVerdict  == [applies |-> TRUE, passed |-> FALSE, waived |-> FALSE, personalBest |-> FALSE,
               recordBroken |-> FALSE]
NewProblem == [best |-> <<>>, average |-> InitialAverage, count |-> 0]

GateInit ==
    /\ problem = NewProblem
    /\ rows = [g \in Graders |-> NewRow]
    /\ created = <<>>
    /\ pc = [g \in Graders |-> "idle"]
    /\ seen = [g \in Graders |-> NewProblem]
    /\ lock = [g \in Graders |-> "practice"]
    /\ verdict = [g \in Graders |-> NoVerdict]
    /\ overlapped = FALSE

----------------------------------------------------------------------------
TargetRuntimeMs(best, l) ==
    LET bar == IF l \in DOMAIN Reference THEN Reference[l]
               ELSE IF DOMAIN Reference = {} THEN 1000 ELSE Max(Range(Reference))
    IN  IF l \in DOMAIN best THEN Min({bar, best[l]}) ELSE bar

GateFor(target) == (target * TolerancePercent + 99) \div 100 + FloorMs

Entered(best, l, runtime) ==
    [m \in DOMAIN best \cup {l} |-> IF m = l THEN runtime ELSE best[m]]

(* Mutant: the latest accepted run is the record.                          *)
MutantWithNewBest(best, l, runtime) == Entered(best, l, runtime)

WithNewBest(best, l, runtime) ==
    IF l \in DOMAIN best /\ best[l] <= runtime THEN best ELSE Entered(best, l, runtime)

(* Math.round of a quotient.                                               *)
Rounded(n, d) == (2 * n + d) \div (2 * d)

(* Zero seconds, and no lock at all, are not a measurement.                *)
NewAverage(p, elapsed) ==
    IF elapsed = 0 THEN p.average ELSE Rounded(p.average * p.count + elapsed, p.count + 1)

----------------------------------------------------------------------------
Goto(g, label) == pc' = [pc EXCEPT ![g] = label]

Start(g) ==
    /\ pc[g] = "idle" /\ rows[g].status = "none"
    /\ seen' = [seen EXCEPT ![g] = problem]
    /\ created' = Append(created, g)
    /\ overlapped' = (overlapped \/ \E h \in Graders : pc[h] # "idle")
    /\ \E l \in Languages :
          \/ /\ \E e \in Elapsed :
                   rows' = [rows EXCEPT ![g] = [status |-> "running", language |-> l,
                                                elapsed |-> e, runtime |-> 0]]
             /\ lock' = [lock EXCEPT ![g] = "locked"]
          \/ /\ rows' = [rows EXCEPT ![g] = [status |-> "running", language |-> l,
                                             elapsed |-> 0, runtime |-> 0]]
             /\ UNCHANGED lock
    /\ Goto(g, "judging")
    /\ UNCHANGED <<problem, verdict>>

(* The judge is away, or the answer is wrong, or it is right and timed.    *)
Judge(g) ==
    /\ pc[g] = "judging"
    /\ \/ /\ \E s \in {"internal_error", "wrong"} : rows' = [rows EXCEPT ![g].status = s]
          /\ Goto(g, "idle")
       \/ /\ \E r \in Runtimes : rows' = [rows EXCEPT ![g].runtime = r]
          /\ Goto(g, "gate")
    /\ UNCHANGED <<problem, created, seen, lock, verdict, overlapped>>

SolvedStatuses == {"accepted", "too_slow"}

SolvedBefore(g) ==
    \E h \in Graders \ {g} : rows[h].status \in SolvedStatuses

(* Whether the gate applies: always in practice, and in a lock that was    *)
(* armed with ALWAYS.                                                      *)
DecideGate(g) ==
    /\ pc[g] = "gate"
    /\ \E mode \in {"ALWAYS", "AFTER_FIRST_SOLVE"} :
          LET applies == lock[g] = "practice" \/ mode = "ALWAYS" \/ SolvedBefore(g)
              within  == rows[g].runtime
                           <= GateFor(TargetRuntimeMs(seen[g].best, rows[g].language))
          IN  verdict' = [verdict EXCEPT
                ![g] = [NoVerdict EXCEPT !.applies = applies,
                                         !.passed = within \/ ~applies,
                                         !.waived = ~applies /\ ~within]]
    /\ Goto(g, "save")
    /\ UNCHANGED <<problem, rows, created, seen, lock, overlapped>>

Save(g) ==
    /\ pc[g] = "save"
    /\ rows' = [rows EXCEPT ![g].status = IF verdict[g].passed THEN "accepted" ELSE "too_slow"]
    /\ Goto(g, "standing")
    /\ UNCHANGED <<problem, created, seen, lock, verdict, overlapped>>

Others(g) == Graders \ {g}

PreviousRuns(g) ==
    {rows[h].runtime : h \in {k \in Others(g) : /\ rows[k].language = rows[g].language
                                                /\ rows[k].status \in SolvedStatuses}}

(* What is right but too slow is answered at once.                         *)
AfterStanding(g) == IF verdict[g].passed THEN "count" ELSE "idle"

(* evaluateStanding.                                                       *)
Stand(g) ==
    /\ pc[g] = "standing"
    /\ verdict' = [verdict EXCEPT
         ![g].personalBest = \A r \in PreviousRuns(g) : rows[g].runtime < r,
         ![g].recordBroken = /\ verdict[g].passed
                             /\ rows[g].runtime
                                  < TargetRuntimeMs(seen[g].best, rows[g].language)]
    /\ Goto(g, AfterStanding(g))
    /\ UNCHANGED <<problem, rows, created, seen, lock, overlapped>>

(* Mutant: the count too is written from what was read.                    *)
MutantCounted(g) == seen[g].count + 1

Counted(g) == problem.count + 1

(* The count is incremented in the database, the rest is written.          *)
Count(g) ==
    /\ pc[g] = "count"
    /\ problem' = [best    |-> WithNewBest(seen[g].best, rows[g].language, rows[g].runtime),
                   average |-> IF rows[g].elapsed = 0 THEN problem.average
                               ELSE NewAverage(seen[g], rows[g].elapsed),
                   count   |-> Counted(g)]
    /\ Goto(g, IF lock[g] = "practice" THEN "counted" ELSE "release")
    /\ UNCHANGED <<rows, created, seen, lock, verdict, overlapped>>

(* releaseLock's transition, which loses to another ending.                *)
ReleaseLock(g) ==
    /\ pc[g] = "release"
    /\ lock' = [lock EXCEPT ![g] = IF @ = "locked" THEN "released" ELSE @]
    /\ Goto(g, "counted")
    /\ UNCHANGED <<problem, rows, created, seen, verdict, overlapped>>

(* The answer.                                                             *)
Finish(g) ==
    /\ pc[g] = "counted"
    /\ Goto(g, "idle")
    /\ UNCHANGED <<problem, rows, created, seen, lock, verdict, overlapped>>

(* The lock is skipped or abandoned meanwhile.                             *)
EndLock(g) ==
    /\ lock[g] = "locked" /\ pc[g] # "idle"
    /\ lock' = [lock EXCEPT ![g] = "over"]
    /\ UNCHANGED <<problem, rows, created, pc, seen, verdict, overlapped>>

GateNext ==
    \E g \in Graders :
        \/ Start(g) \/ Judge(g) \/ DecideGate(g) \/ Save(g) \/ Stand(g)
        \/ Count(g) \/ ReleaseLock(g) \/ Finish(g) \/ EndLock(g)

GateSpec == GateInit /\ [][GateNext]_gateVars

----------------------------------------------------------------------------
(* The graders that have counted their solve.                              *)
Solves == {g \in Graders : rows[g].status = "accepted" /\ pc[g] \in {"release", "counted", "idle"}}

Timed == {g \in Solves : rows[g].elapsed > 0}

GateTypeOK ==
    /\ DOMAIN problem.best \subseteq Languages /\ Range(problem.best) \subseteq Runtimes
    /\ problem.average \in Nat /\ problem.count \in Nat
    /\ \A g \in Graders :
          /\ rows[g].status \in {"none", "running", "internal_error", "wrong", "accepted", "too_slow"}
          /\ (pc[g] \in {"gate", "save"}) => rows[g].status = "running"
          /\ (pc[g] \in {"count", "release", "counted"}) =>
                rows[g].status = "accepted" /\ verdict[g].passed
          /\ lock[g] = "released" => rows[g].status = "accepted"

(* schema.prisma:307: bestRuntimeMs is the fastest accepted runtime ever   *)
(* observed, per language; "the gate just moved for everyone"              *)
(* (performance.ts:173) rests on it.                                       *)
FastestEver ==
    \A g \in Solves : /\ rows[g].language \in DOMAIN problem.best
                      /\ problem.best[rows[g].language] <= rows[g].runtime

(* performance.ts:171: a personal best is the learner's fastest correct    *)
(* run so far, in that language; what comes later does not change it, and  *)
(* the run itself is not what it is compared with.                         *)
PersonalBestIsTrue ==
    \A i \in DOMAIN created :
        LET g == created[i] IN
        (rows[g].status \in {"accepted", "too_slow"} /\ pc[g] # "standing") =>
            (verdict[g].personalBest <=>
                \A j \in 1 .. i - 1 :
                    LET h == created[j] IN
                    (rows[h].language = rows[g].language /\ rows[h].status \in {"accepted", "too_slow"})
                    => rows[g].runtime < rows[h].runtime)

(* grading.ts:301: the gate is relaxed only on a problem this learner has  *)
(* never got all the way through, in a lock or in practice, fast or slow.  *)
WaivedIsFirst ==
    \A i \in DOMAIN created : verdict[created[i]].waived =>
        \A j \in 1 .. i - 1 :
            rows[created[j]].status \notin {"accepted", "too_slow"}

(* All three, while no slot was reclaimed under a running grade: a grader  *)
(* that judges and writes from its own earlier read misses nobody's run.   *)
RecordsAreTrue == ~overlapped => FastestEver /\ PersonalBestIsTrue /\ WaivedIsFirst

(* Every accepted solve is counted, overlapping or not.                    *)
SolvesCounted == problem.count = Cardinality(Solves)

(* The average stays between the times it was made of.                     *)
AverageWithinItsTimes ==
    LET times == {InitialAverage} \cup {rows[g].elapsed : g \in Timed}
    IN  Min(times) <= problem.average /\ problem.average <= Max(times)

(* Neither overlapping grades nor locks that end meanwhile break them.     *)
StatisticsHold == SolvesCounted /\ AverageWithinItsTimes

(* schema.prisma:318: avgSolveSeconds is the rolling mean of accepted      *)
(* solve times (each step rounds, which costs less than a second).         *)
AverageIsTheMean ==
    ~overlapped /\ Timed # {} =>
        LET n     == Cardinality(Timed)
            total == MapThenSumSet(LAMBDA g : rows[g].elapsed, Timed)
        IN  problem.average * n - total \in -n .. n

=============================================================================

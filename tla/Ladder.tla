------------------------------- MODULE Ladder -------------------------------
(***************************************************************************)
(* The difficulty ladder: the one progress row of the learner, moved by    *)
(* every session that ends (services/difficulty.ts, advanceProgress in     *)
(* services/grading.ts) and by the reason given afterwards for a session   *)
(* that was stepped away from (POST /lock/:id/reason).                     *)
(*                                                                         *)
(* Counting a session reads the row, applies the outcome and writes it     *)
(* back whole.  A reason is checked, stamped, withdrawn from the row and,  *)
(* if the row fell below zero, clamped: four statements.                   *)
(*                                                                         *)
(* The averages of solve time and first tries are left out: no rule of the *)
(* ladder reads them.                                                      *)
(***************************************************************************)
EXTENDS Integers, FiniteSets

CONSTANTS
    Last,           \* sessions 1 .. Last, one after the other
    Answers,        \* slots for answers to /reason in flight
    Endings,        \* how sessions end in this instance
    OverlapCases    \* which handlers may be in flight at once, by case

Sessions == 1 .. Last

ASSUME ConstantsAssumption ==
    /\ Last \in Nat
    /\ 0 \notin Answers
    /\ Endings \subseteq {"solved", "gaveUp", "dropped"}
    /\ OverlapCases \subseteq
           SUBSET {"sessions",  \* a session ends before the last is counted
                   "reasons",   \* a reason is given while one is counted
                   "answers"}   \* two answers at once

PromoteAfter == 3   \* PROMOTE_AFTER_FAST_SOLVES
DemoteAfter  == 2   \* DEMOTE_AFTER_FAILURES

Easy == 0
Hard == 2

VARIABLES
    row,        \* the UserProgress row
    ended,      \* how each session ended; dropped is cancelled or reaped
    fast,       \* was it solved within the average time
    chosen,     \* was its problem or its level the learner's choice
    pc,         \* where the handler that counts it is
    seen,       \* the row it read
    reason,     \* LockSession.abandonReason
    step,       \* where each answer to /reason is
    on,         \* the session it is about
    says,       \* its reason
    taken,      \* the row its decrement returned
    overlaps,   \* which handlers may be in flight at once in this behaviour
    streak,     \* history: the failures that stand against this level
    fastRun,    \* history: the fast solves in a row at this level
    withdrawn   \* history: the sessions whose failure was withdrawn

answerVars  == <<step, on, says, taken>>
historyVars == <<streak, fastRun, withdrawn>>
vars == <<row, ended, fast, chosen, pc, seen, reason, answerVars, overlaps,
          historyVars>>

(* Totals are counted from here on.                                        *)
NewRow(level) == [level |-> level, fast |-> 0, fails |-> 0, solved |-> 0, failed |-> 0]

Init ==
    /\ row \in {NewRow(level) : level \in Easy .. Hard}
    /\ ended = [s \in Sessions |-> "no"]
    /\ fast = [s \in Sessions |-> FALSE]
    /\ chosen = [s \in Sessions |-> FALSE]
    /\ pc = [s \in Sessions |-> "open"]
    /\ seen = [s \in Sessions |-> NewRow(Easy)]
    /\ reason = [s \in Sessions |-> "none"]
    /\ step = [a \in Answers |-> "idle"]
    /\ on = [a \in Answers |-> 0]
    /\ says = [a \in Answers |-> "none"]
    /\ taken = [a \in Answers |-> NewRow(Easy)]
    /\ overlaps \in OverlapCases
    /\ streak = {}
    /\ fastRun = {}
    /\ withdrawn = {}

----------------------------------------------------------------------------
(* applyOutcome.                                                           *)

(* Mutant: what was chosen is not counted at all.                          *)
MutantTotals(r, solved) == r

(* An adjusted, over-budget or manual session: counted, and not read.      *)
Totals(r, solved) ==
    IF solved THEN [r EXCEPT !.solved = @ + 1] ELSE [r EXCEPT !.failed = @ + 1]

Demotes(r) == r.fails + 1 >= DemoteAfter /\ r.level # Easy

(* Mutant: a demotion does not reset the failures.                         *)
MutantFailure(r) ==
    [level  |-> IF Demotes(r) THEN r.level - 1 ELSE r.level,
     fast   |-> 0,
     fails  |-> r.fails + 1,
     solved |-> r.solved,
     failed |-> r.failed + 1]

Failure(r) ==
    [level  |-> IF Demotes(r) THEN r.level - 1 ELSE r.level,
     fast   |-> 0,
     fails  |-> IF Demotes(r) THEN 0 ELSE r.fails + 1,
     solved |-> r.solved,
     failed |-> r.failed + 1]

FastStreak(r, wasFast) == IF wasFast THEN r.fast + 1 ELSE 0

Promotes(r, wasFast) == FastStreak(r, wasFast) >= PromoteAfter /\ r.level # Hard

(* Mutant: a solve leaves the failures standing.                           *)
MutantSolve(r, wasFast) ==
    [level  |-> IF Promotes(r, wasFast) THEN r.level + 1 ELSE r.level,
     fast   |-> IF Promotes(r, wasFast) THEN 0 ELSE FastStreak(r, wasFast),
     fails  |-> r.fails,
     solved |-> r.solved + 1,
     failed |-> r.failed]

Solve(r, wasFast) ==
    [level  |-> IF Promotes(r, wasFast) THEN r.level + 1 ELSE r.level,
     fast   |-> IF Promotes(r, wasFast) THEN 0 ELSE FastStreak(r, wasFast),
     fails  |-> 0,
     solved |-> r.solved + 1,
     failed |-> r.failed]

ApplyOutcome(r, s) ==
    IF chosen[s] THEN Totals(r, ended[s] = "solved")
    ELSE IF ended[s] = "solved" THEN Solve(r, fast[s])
    ELSE Failure(r)

----------------------------------------------------------------------------
(* Sessions end and are counted.                                           *)

Counting  == {s \in Sessions : pc[s] \in {"owes", "read"}}
Answering == {a \in Answers : step[a] # "idle"}

(* One session is active at a time.  Only a solve and a give-up are        *)
(* counted; a cancelled, an armed-and-abandoned and a reaped one are not.  *)
End(s) ==
    /\ ended[s] = "no"
    /\ \A t \in Sessions : t < s => ended[t] # "no"
    /\ "sessions" \notin overlaps => Counting = {}
    /\ "reasons" \notin overlaps => Answering = {}
    /\ \E how \in Endings, f, c \in BOOLEAN :
          /\ f => how = "solved"
          /\ ended' = [ended EXCEPT ![s] = how]
          /\ fast' = [fast EXCEPT ![s] = f]
          /\ chosen' = [chosen EXCEPT ![s] = c]
          /\ pc' = [pc EXCEPT ![s] = IF how = "dropped" THEN "done" ELSE "owes"]
    /\ UNCHANGED <<row, seen, reason, answerVars, historyVars>>

ReadProgress(s) ==
    /\ pc[s] = "owes"
    /\ pc' = [pc EXCEPT ![s] = "read"]
    /\ seen' = [seen EXCEPT ![s] = row]
    /\ UNCHANGED <<row, ended, fast, chosen, reason, answerVars, historyVars>>

(* What stands against the level, and for it, once s has been counted.     *)
Stands(s) ==
    IF chosen[s] THEN UNCHANGED <<streak, fastRun>>
    ELSE /\ streak'  = IF row'.level # row.level \/ ended[s] = "solved" THEN {}
                       ELSE streak \cup ({s} \ withdrawn)
         /\ fastRun' = IF row'.level # row.level \/ ~fast[s] THEN {}
                       ELSE fastRun \cup {s}

WriteProgress(s) ==
    /\ pc[s] = "read"
    /\ row' = ApplyOutcome(seen[s], s)
    /\ pc' = [pc EXCEPT ![s] = "done"]
    /\ Stands(s)
    /\ UNCHANGED <<ended, fast, chosen, seen, reason, answerVars, withdrawn>>

----------------------------------------------------------------------------
(* POST /lock/:id/reason.                                                  *)

Unanswered(s) == ended[s] \in {"gaveUp", "dropped"} /\ reason[s] = "none"

AnswerCheck(a, s) ==
    /\ step[a] = "idle"
    /\ "reasons" \notin overlaps => Counting = {}
    /\ "answers" \notin overlaps => Answering = {}
    /\ Unanswered(s)
    /\ step' = [step EXCEPT ![a] = "checked"]
    /\ on' = [on EXCEPT ![a] = s]
    /\ \E why \in {"TOO_HARD", "OTHER"} : says' = [says EXCEPT ![a] = why]
    /\ UNCHANGED <<row, ended, fast, chosen, pc, seen, reason, taken, historyVars>>

AnswerStamp(a) ==
    /\ step[a] = "checked"
    /\ reason' = [reason EXCEPT ![on[a]] = says[a]]
    /\ step' = [step EXCEPT ![a] = IF says[a] = "TOO_HARD" THEN "idle" ELSE "stamped"]
    /\ UNCHANGED <<row, ended, fast, chosen, pc, seen, on, says, taken, historyVars>>

(* The failure is withdrawn, whether or not it had been counted.           *)
Withdraw(a) ==
    /\ step[a] = "stamped"
    /\ row' = [row EXCEPT !.fails = @ - 1, !.failed = @ - 1]
    /\ taken' = [taken EXCEPT ![a] = row']
    /\ step' = [step EXCEPT ![a] = IF row'.fails < 0 \/ row'.failed < 0 THEN "clamps" ELSE "idle"]
    /\ streak' = streak \ {on[a]}
    /\ withdrawn' = withdrawn \cup {on[a]}
    /\ UNCHANGED <<ended, fast, chosen, pc, seen, reason, on, says, fastRun>>

NotNegative(n) == IF n < 0 THEN 0 ELSE n

(* Clamped to what the decrement returned, whatever the row is by now.     *)
Clamp(a) ==
    /\ step[a] = "clamps"
    /\ row' = [row EXCEPT !.fails  = NotNegative(taken[a].fails),
                          !.failed = NotNegative(taken[a].failed)]
    /\ step' = [step EXCEPT ![a] = "idle"]
    /\ UNCHANGED <<ended, fast, chosen, pc, seen, reason, on, says, taken, historyVars>>

Step ==
    \/ \E s \in Sessions : End(s) \/ ReadProgress(s) \/ WriteProgress(s)
    \/ \E a \in Answers :
          \/ \E s \in Sessions : AnswerCheck(a, s)
          \/ AnswerStamp(a) \/ Withdraw(a) \/ Clamp(a)

Next == Step /\ UNCHANGED overlaps

Spec == Init /\ [][Next]_vars

----------------------------------------------------------------------------
Rows == [level : Easy .. Hard, fast : Nat, fails : Int, solved : Nat, failed : Int]

(* The type invariant.                                                     *)
TypeOK ==
    /\ row \in Rows
    /\ ended \in [Sessions -> Endings \cup {"no"}]
    /\ fast \in [Sessions -> BOOLEAN]
    /\ chosen \in [Sessions -> BOOLEAN]
    /\ pc \in [Sessions -> {"open", "owes", "read", "done"}]
    /\ seen \in [Sessions -> Rows]
    /\ reason \in [Sessions -> {"none", "TOO_HARD", "OTHER"}]
    /\ step \in [Answers -> {"idle", "checked", "stamped", "clamps"}]
    /\ on \in [Answers -> Sessions \cup {0}]
    /\ says \in [Answers -> {"none", "TOO_HARD", "OTHER"}]
    /\ taken \in [Answers -> Rows]
    /\ overlaps \in OverlapCases
    /\ streak \subseteq Sessions
    /\ fastRun \subseteq Sessions
    /\ withdrawn \subseteq Sessions
    /\ \A a \in Answers : step[a] # "idle" => on[a] \in Sessions

InTurn == "sessions" \notin overlaps /\ "reasons" \notin overlaps

AtRest == Counting = {} /\ Answering = {}

(* Whatever overlaps, no session is counted twice: an update that is lost  *)
(* takes from the totals and never adds.  Counted in turn, however answers *)
(* race, the solves are exact; and where one answer is dealt with at a     *)
(* time, so are the failures that were not withdrawn, but for one less at  *)
(* most for each session withdrawn that was never counted.                 *)
TotalsAddUp ==
    LET solves   == {s \in Sessions : ended[s] = "solved"}
        failures == {s \in Sessions : ended[s] = "gaveUp"}
        standing == Cardinality(failures \ withdrawn)
        astray   == Cardinality({s \in withdrawn : ended[s] = "dropped"})
    IN  /\ row.solved <= Cardinality(solves) /\ row.failed <= Cardinality(failures)
        /\ InTurn /\ Counting = {} => row.solved = Cardinality(solves)
        /\ InTurn /\ "answers" \notin overlaps /\ AtRest =>
              row.failed <= standing /\ row.failed >= standing - astray

(* However reasons race, no failure weighs on the level that was withdrawn *)
(* or that a solve or a change of level has settled.                       *)
StreakIsReal == InTurn => row.fails <= Cardinality(streak)

(* A level is lost for two failures that stand against it, and not for     *)
(* one counted twice or one that was withdrawn.                            *)
DemotesForTwo ==
    \A s \in Sessions :
        row'.level < row.level /\ pc[s] = "read" /\ pc'[s] = "done"
            => Cardinality(streak \cup {s}) >= DemoteAfter

DemotedOnlyForTwo == [][InTurn => DemotesForTwo]_vars

(* A level is won for three fast solves in a row at it, of problems the    *)
(* learner did not choose.                                                 *)
PromotesForThree ==
    \A s \in Sessions :
        row'.level > row.level /\ pc[s] = "read" /\ pc'[s] = "done"
            => Cardinality(fastRun \cup {s}) >= PromoteAfter

PromotedOnlyForThree == [][InTurn => PromotesForThree]_vars

(* The level moves only for what stands.                                   *)
LevelsAreEarned == DemotedOnlyForTwo /\ PromotedOnlyForThree

(* lock.ts, line 482: the count is applied first and withdrawn when the    *)
(* learner says the problem was not the reason; it does not come back.     *)
WithdrawnIsGone == [][DemotesForTwo]_vars

(* lock.ts, line 497: a decrement can only go below zero if two            *)
(* withdrawals raced.                                                      *)
BelowZeroOnlyByRace == (\E a \in Answers : step[a] = "clamps") => Cardinality(Answering) > 1

(* lock.ts, line 466: asked once; an answer is not revised.                *)
AskedOnce == [][\A s \in Sessions : reason[s] # "none" => reason'[s] = reason[s]]_vars

(* lock.ts, line 482, again: it is the session's own failure, applied      *)
(* first, that is withdrawn.                                               *)
WithdrawsItsOwn ==
    [][\A a \in Answers :
          step[a] = "stamped" /\ step'[a] = "idle" => on[a] \in streak]_vars

=============================================================================

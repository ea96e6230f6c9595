--------------------------- MODULE Ladder_proofs ---------------------------
(***************************************************************************)
(* Theorems about Ladder, for any number of sessions and of answers to     *)
(* /reason in flight at once.                                              *)
(*                                                                         *)
(* While sessions are counted in turn, the row a session read is the row   *)
(* it replaces, and the row's two streaks are never longer than what       *)
(* stands for them: a failure adds to both, a withdrawal takes from both,  *)
(* and a clamp writes a zero, because the streak never exceeds the total   *)
(* and so is below zero whenever either is.                                *)
(*                                                                         *)
(* The totals of any row, be it stored, read or returned, are of sessions  *)
(* that were counted: a write that overtakes another loses counts, and     *)
(* never adds one.                                                         *)
(***************************************************************************)
EXTENDS Ladder, FiniteSetTheorems, TLAPS

Done == {s \in Sessions : pc[s] = "done"}

(* In turn, one session is counted at a time, and none while one answers.  *)
TurnInv ==
    InTurn =>
        /\ \A s, t \in Counting : s = t
        /\ Counting = {} \/ Answering = {}
        /\ \A s \in Sessions : pc[s] = "read" => seen[s] = row

StandInv ==
    /\ \A s \in Sessions : ended[s] = "no" <=> pc[s] = "open"
    /\ streak \subseteq Done
    /\ fastRun \subseteq Done
    /\ InTurn => withdrawn \subseteq Done /\ \A a \in Answering : on[a] \in Done

StreakInv ==
    InTurn =>
        /\ row.fails <= Cardinality(streak)
        /\ row.fast <= Cardinality(fastRun)
        /\ row.fails <= row.failed
        /\ \A a \in Answers : step[a] = "clamps" => taken[a].fails < 0
        /\ (\A a \in Answers : step[a] # "clamps") => 0 <= row.failed

LEMMA SessionsFinite ==
    /\ IsFiniteSet(Sessions)
    /\ \A S \in SUBSET Sessions : IsFiniteSet(S) /\ Cardinality(S) \in Nat
<1>1. IsFiniteSet(Sessions)
  BY FS_Interval, ConstantsAssumption DEF Sessions
<1> QED
  BY <1>1, FS_Subset, FS_CardinalityType

LEMMA RowTypes ==
    ASSUME NEW r \in Rows, NEW f \in BOOLEAN, NEW b \in BOOLEAN
    PROVE  Totals(r, b) \in Rows /\ Failure(r) \in Rows /\ Solve(r, f) \in Rows
<1>1. Totals(r, b) \in Rows
  BY DEF Rows, Totals
<1>0. /\ r.level \in Easy .. Hard /\ r.fast \in Nat /\ r.fails \in Int
      /\ r.solved \in Nat /\ r.failed \in Int
  BY DEF Rows
<1>2. Failure(r) \in Rows
  <2>1. (IF Demotes(r) THEN r.level - 1 ELSE r.level) \in Easy .. Hard
    BY <1>0 DEF Demotes, Easy, Hard
  <2> QED
    BY <1>0, <2>1 DEF Failure, Rows
<1>3. Solve(r, f) \in Rows
  <2>1. (IF Promotes(r, f) THEN r.level + 1 ELSE r.level) \in Easy .. Hard
    BY <1>0 DEF Promotes, Easy, Hard
  <2>2. FastStreak(r, f) \in Nat
    BY <1>0 DEF FastStreak
  <2> QED
    BY <1>0, <2>1, <2>2 DEF Solve, Rows
<1> QED
  BY <1>1, <1>2, <1>3

LEMMA TypeInit == Init => TypeOK
BY ConstantsAssumption DEF Init, TypeOK, Rows, NewRow, Easy, Hard, Sessions

LEMMA TypeNext == ASSUME TypeOK, [Next]_vars PROVE TypeOK'
<1> USE DEF TypeOK, answerVars, historyVars
<1>0. overlaps' = overlaps
  BY DEF Next, vars
<1>1. ASSUME NEW s \in Sessions, End(s) PROVE TypeOK'
  BY <1>0, <1>1 DEF End
<1>2. ASSUME NEW s \in Sessions, ReadProgress(s) PROVE TypeOK'
  BY <1>0, <1>2 DEF ReadProgress
<1>3. ASSUME NEW s \in Sessions, WriteProgress(s) PROVE TypeOK'
  <2>1. row' \in Rows
    BY <1>3, RowTypes DEF WriteProgress, ApplyOutcome
  <2> QED
    BY <1>0, <1>3, <2>1 DEF WriteProgress, Stands
<1>4. ASSUME NEW a \in Answers, NEW s \in Sessions, AnswerCheck(a, s) PROVE TypeOK'
  BY <1>0, <1>4 DEF AnswerCheck
<1>5. ASSUME NEW a \in Answers, AnswerStamp(a) PROVE TypeOK'
  BY <1>0, <1>5 DEF AnswerStamp
<1>6. ASSUME NEW a \in Answers, Withdraw(a) PROVE TypeOK'
  <2>1. row' \in Rows
    <3>1. row' = [level |-> row.level, fast |-> row.fast, fails |-> row.fails - 1,
                  solved |-> row.solved, failed |-> row.failed - 1]
      BY <1>6 DEF Withdraw, Rows
    <3> QED
      BY <3>1 DEF Rows
  <2> QED
    BY <1>0, <1>6, <2>1 DEF Withdraw
<1>7. ASSUME NEW a \in Answers, Clamp(a) PROVE TypeOK'
  <2>1. row' \in Rows
    <3>1. row' = [level |-> row.level, fast |-> row.fast, fails |-> NotNegative(taken[a].fails),
                  solved |-> row.solved, failed |-> NotNegative(taken[a].failed)]
      BY <1>7 DEF Clamp, Rows
    <3>2. NotNegative(taken[a].fails) \in Int /\ NotNegative(taken[a].failed) \in Int
      BY <1>7 DEF Rows, NotNegative
    <3> QED
      BY <3>1, <3>2 DEF Rows
  <2> QED
    BY <1>0, <1>7, <2>1 DEF Clamp
<1>8. CASE UNCHANGED vars
  BY <1>0, <1>8 DEF vars
<1> QED
  BY <1>1, <1>2, <1>3, <1>4, <1>5, <1>6, <1>7, <1>8 DEF Next, Step

(* Every reachable row, snapshot and answer is well typed, the level       *)
(* between the lowest and the highest.                                     *)
THEOREM TypeCorrect == Spec => []TypeOK
BY TypeInit, TypeNext, PTL DEF Spec

----------------------------------------------------------------------------
LEMMA TurnInit == Init => TurnInv /\ StandInv
BY DEF Init, TurnInv, StandInv, Counting, Answering, Done

LEMMA TurnNext == ASSUME TypeOK, TurnInv, [Next]_vars PROVE TurnInv'
<1>0. overlaps' = overlaps
  BY DEF Next, vars
<1> SUFFICES ASSUME InTurn PROVE TurnInv'
  BY <1>0 DEF TurnInv, InTurn
<1> USE DEF TypeOK, TurnInv, InTurn, Counting, Answering, answerVars, historyVars
<1>1. ASSUME NEW s \in Sessions, End(s) PROVE TurnInv'
  BY <1>0, <1>1 DEF End
<1>2. ASSUME NEW s \in Sessions, ReadProgress(s) PROVE TurnInv'
  BY <1>0, <1>2 DEF ReadProgress
<1>3. ASSUME NEW s \in Sessions, WriteProgress(s) PROVE TurnInv'
  BY <1>0, <1>3 DEF WriteProgress
<1>4. ASSUME NEW a \in Answers, NEW s \in Sessions, AnswerCheck(a, s) PROVE TurnInv'
  BY <1>0, <1>4 DEF AnswerCheck
<1>5. ASSUME NEW a \in Answers, AnswerStamp(a) \/ Withdraw(a) \/ Clamp(a) PROVE TurnInv'
  BY <1>0, <1>5 DEF AnswerStamp, Withdraw, Clamp
<1>6. CASE UNCHANGED vars
  BY <1>0, <1>6 DEF vars
<1> QED
  BY <1>1, <1>2, <1>3, <1>4, <1>5, <1>6 DEF Next, Step

LEMMA StandNext == ASSUME TypeOK, StandInv, [Next]_vars PROVE StandInv'
<1> USE DEF TypeOK, StandInv, Done, InTurn, Answering, answerVars, historyVars
<1>0. overlaps' = overlaps
  BY DEF Next, vars
<1>1. ASSUME NEW s \in Sessions, End(s) PROVE StandInv'
  <2>1. pc[s] = "open" /\ pc'[s] # "open"
    BY <1>1 DEF End
  <2>2. \A t \in Sessions \ {s} : pc'[t] = pc[t] /\ ended'[t] = ended[t]
    BY <1>1 DEF End
  <2>3. ended'[s] # "no"
    BY <1>1, ConstantsAssumption DEF End
  <2> QED
    BY <1>0, <1>1, <2>1, <2>2, <2>3 DEF End
<1>2. ASSUME NEW s \in Sessions, ReadProgress(s) PROVE StandInv'
  BY <1>0, <1>2 DEF ReadProgress
<1>3. ASSUME NEW s \in Sessions, WriteProgress(s) PROVE StandInv'
  BY <1>0, <1>3 DEF WriteProgress, Stands
<1>4. ASSUME NEW a \in Answers, NEW s \in Sessions, AnswerCheck(a, s) PROVE StandInv'
  BY <1>0, <1>4 DEF AnswerCheck, Unanswered, Counting
<1>5. ASSUME NEW a \in Answers, AnswerStamp(a) \/ Withdraw(a) \/ Clamp(a) PROVE StandInv'
  BY <1>0, <1>5 DEF AnswerStamp, Withdraw, Clamp
<1>6. CASE UNCHANGED vars
  BY <1>0, <1>6 DEF vars
<1> QED
  BY <1>1, <1>2, <1>3, <1>4, <1>5, <1>6 DEF Next, Step

(* What counting a session in turn does to the row and what stands.        *)
LEMMA InTurnWrite ==
    ASSUME TypeOK, TurnInv, StandInv, InTurn, NEW s \in Sessions, WriteProgress(s)
    PROVE  /\ row' = ApplyOutcome(row, s)
           /\ Answering = {}
           /\ s \notin streak /\ s \notin fastRun /\ s \notin withdrawn
           /\ ended[s] # "no"
<1>1. s \in Counting /\ s \notin Done /\ pc[s] # "open" /\ seen[s] = row
  BY DEF WriteProgress, Counting, Done, TurnInv
<1> QED
  BY <1>1 DEF TurnInv, StandInv, WriteProgress

LEMMA StreakInit == Init => StreakInv
BY FS_EmptySet DEF Init, StreakInv, NewRow

LEMMA StreakWrite ==
    ASSUME TypeOK, TurnInv, StandInv, StreakInv, InTurn, NEW s \in Sessions, WriteProgress(s)
    PROVE  StreakInv'
<1>0. /\ row \in Rows
      /\ row.fails <= Cardinality(streak) /\ row.fast <= Cardinality(fastRun)
      /\ row.fails <= row.failed
      /\ IsFiniteSet(streak) /\ Cardinality(streak) \in Nat
      /\ IsFiniteSet(fastRun) /\ Cardinality(fastRun) \in Nat
  BY SessionsFinite DEF StreakInv, TypeOK
<1>1. /\ row' = ApplyOutcome(row, s) /\ Stands(s) /\ step' = step /\ Answering = {}
      /\ s \notin streak /\ s \notin fastRun /\ s \notin withdrawn
  BY InTurnWrite DEF WriteProgress, answerVars
<1>2. /\ Cardinality(streak \cup {s}) = Cardinality(streak) + 1
      /\ Cardinality(fastRun \cup {s}) = Cardinality(fastRun) + 1
      /\ Cardinality({}) = 0
  BY ONLY <1>0, <1>1, FS_AddElement, FS_EmptySet
<1>3. \A a \in Answers : step'[a] = "clamps" => taken'[a].fails < 0
  BY <1>1 DEF Answering
<1>7. 0 <= row.failed /\ row.failed \in Int
  BY <1>0, <1>1 DEF Answering, StreakInv, Rows
<1>4. CASE chosen[s]
  <2>1. row' = Totals(row, ended[s] = "solved") /\ UNCHANGED <<streak, fastRun>>
    BY <1>1, <1>4 DEF ApplyOutcome, Stands
  <2>2. row'.fails = row.fails /\ row'.fast = row.fast /\ row'.failed >= row.failed
    BY <1>0, <2>1 DEF Totals, Rows
  <2>3. row'.failed \in Int /\ row.failed \in Int /\ row.fails \in Int
    BY <1>0, <2>1 DEF Totals, Rows
  <2>4. row'.fails <= row'.failed
    BY <1>0, <2>2, <2>3
  <2> QED
    BY <1>0, <1>3, <1>7, <2>1, <2>2, <2>3, <2>4 DEF StreakInv
<1>5. CASE ~chosen[s] /\ ended[s] = "solved"
  <2>1. row' = Solve(row, fast[s])
    BY <1>1, <1>5 DEF ApplyOutcome
  <2>2. /\ row'.fails = 0 /\ row'.failed = row.failed
        /\ row'.fast = IF Promotes(row, fast[s]) THEN 0 ELSE FastStreak(row, fast[s])
        /\ row'.level = IF Promotes(row, fast[s]) THEN row.level + 1 ELSE row.level
    BY <2>1 DEF Solve
  <2>3. /\ streak' = {}
        /\ fastRun' = IF row'.level # row.level \/ ~fast[s] THEN {} ELSE fastRun \cup {s}
    BY <1>1, <1>5 DEF Stands
  <2>4. row'.fast <= Cardinality(fastRun')
    <3>1. row.level \in Int /\ row.fast \in Nat
      BY <1>0 DEF Rows, Easy, Hard
    <3>2. CASE Promotes(row, fast[s])
      BY <1>2, <2>2, <2>3, <3>1, <3>2
    <3>3. CASE ~Promotes(row, fast[s])
      BY <1>0, <1>2, <2>2, <2>3, <3>1, <3>3 DEF FastStreak
    <3> QED
      BY <3>2, <3>3
  <2>5. row'.fails <= row'.failed
    BY <1>7, <2>2
  <2> QED
    BY <1>2, <1>3, <1>7, <2>2, <2>3, <2>4, <2>5 DEF StreakInv
<1>6. CASE ~chosen[s] /\ ended[s] # "solved"
  <2>1. row' = Failure(row)
    BY <1>1, <1>6 DEF ApplyOutcome
  <2>2. /\ row'.fast = 0 /\ row'.failed = row.failed + 1
        /\ row'.fails = IF Demotes(row) THEN 0 ELSE row.fails + 1
        /\ row'.level = IF Demotes(row) THEN row.level - 1 ELSE row.level
    BY <2>1 DEF Failure
  <2>3. row.fails \in Int /\ row.failed \in Int /\ row.level \in Int
    BY <1>0 DEF Rows, Easy, Hard
  <2>4. streak' = IF row'.level # row.level THEN {} ELSE streak \cup {s}
    BY <1>1, <1>6 DEF Stands
  <2>5. Cardinality(fastRun') \in Nat
    <3>1. fastRun' = {} \/ fastRun' = fastRun \cup {s}
      BY <1>1, <1>6 DEF Stands
    <3> QED
      BY <1>0, <1>2, <3>1
  <2>6. row'.fails <= Cardinality(streak')
    BY <1>0, <1>2, <2>2, <2>3, <2>4
  <2>7. row'.fails <= row'.failed
    <3>1. CASE Demotes(row)
      BY <1>7, <2>2, <3>1
    <3>2. CASE ~Demotes(row)
      BY <1>0, <1>7, <2>2, <2>3, <3>2
    <3> QED
      BY <3>1, <3>2
  <2> QED
    BY <1>3, <1>7, <2>2, <2>5, <2>6, <2>7 DEF StreakInv
<1> QED
  BY <1>4, <1>5, <1>6

LEMMA StreakWithdraw ==
    ASSUME TypeOK, StreakInv, InTurn, NEW a \in Answers, Withdraw(a)
    PROVE  StreakInv'
<1>0. /\ row \in Rows /\ step \in [Answers -> {"idle", "checked", "stamped", "clamps"}]
      /\ taken \in [Answers -> Rows]
      /\ row.fails \in Int /\ row.failed \in Int
      /\ row.fails <= Cardinality(streak) /\ row.fast <= Cardinality(fastRun)
      /\ row.fails <= row.failed
      /\ IsFiniteSet(streak) /\ Cardinality(streak) \in Nat
      /\ \A b \in Answers : step[b] = "clamps" => taken[b].fails < 0
  BY SessionsFinite DEF StreakInv, TypeOK, Rows
<1>1. /\ row'.fails = row.fails - 1 /\ row'.failed = row.failed - 1 /\ row'.fast = row.fast
      /\ taken'[a] = row' /\ \A b \in Answers \ {a} : taken'[b] = taken[b] /\ step'[b] = step[b]
      /\ step'[a] = IF row'.fails < 0 \/ row'.failed < 0 THEN "clamps" ELSE "idle"
      /\ streak' = streak \ {on[a]} /\ fastRun' = fastRun
  BY <1>0 DEF Withdraw, Rows
<1>2. row'.fails <= Cardinality(streak')
  <2>1. CASE on[a] \in streak
    <3>1. Cardinality(streak') = Cardinality(streak) - 1
      BY ONLY <1>0, <1>1, <2>1, FS_RemoveElement
    <3> QED
      BY <1>0, <1>1, <3>1
  <2>2. CASE on[a] \notin streak
    <3>1. streak' = streak
      BY <1>1, <2>2
    <3> QED
      BY <1>0, <1>1, <3>1
  <2> QED
    BY <2>1, <2>2
<1>3. \A b \in Answers : step'[b] = "clamps" => taken'[b].fails < 0
  BY <1>0, <1>1
<1>4. (\A b \in Answers : step'[b] # "clamps") => 0 <= row'.failed
  BY <1>0, <1>1
<1> QED
  BY <1>0, <1>1, <1>2, <1>3, <1>4 DEF StreakInv

LEMMA StreakClamp ==
    ASSUME TypeOK, StreakInv, InTurn, NEW a \in Answers, Clamp(a)
    PROVE  StreakInv'
<1>0. /\ row \in Rows /\ taken[a] \in Rows /\ taken[a].fails \in Int /\ taken[a].failed \in Int
      /\ taken[a].fails < 0 /\ Cardinality(streak) \in Nat /\ row.fast <= Cardinality(fastRun)
  BY SessionsFinite DEF StreakInv, TypeOK, Rows, Clamp
<1>1. row'.fails = 0 /\ row'.failed \in Int /\ 0 <= row'.failed /\ row'.fast = row.fast
  BY <1>0 DEF Clamp, Rows, NotNegative
<1>2. UNCHANGED <<taken, streak, fastRun>> /\ \A b \in Answers \ {a} : step'[b] = step[b]
  BY DEF Clamp, historyVars, TypeOK
<1>3. step'[a] = "idle"
  BY DEF Clamp, TypeOK
<1> QED
  BY <1>0, <1>1, <1>2, <1>3 DEF StreakInv

LEMMA StreakNext ==
    ASSUME TypeOK, TurnInv, StandInv, StreakInv, [Next]_vars PROVE StreakInv'
<1>0. overlaps' = overlaps
  BY DEF Next, vars
<1> SUFFICES ASSUME InTurn PROVE StreakInv'
  BY <1>0 DEF StreakInv, InTurn
<1> USE DEF answerVars, historyVars
<1>1. ASSUME NEW s \in Sessions, End(s) \/ ReadProgress(s) PROVE StreakInv'
  BY <1>0, <1>1 DEF End, ReadProgress, StreakInv
<1>2. ASSUME NEW s \in Sessions, WriteProgress(s) PROVE StreakInv'
  BY <1>0, <1>2, StreakWrite
<1>3. ASSUME NEW a \in Answers, NEW s \in Sessions, AnswerCheck(a, s) PROVE StreakInv'
  BY <1>0, <1>3 DEF AnswerCheck, StreakInv, TypeOK
<1>4. ASSUME NEW a \in Answers, AnswerStamp(a) PROVE StreakInv'
  BY <1>0, <1>4 DEF AnswerStamp, StreakInv, TypeOK
<1>5. ASSUME NEW a \in Answers, Withdraw(a) PROVE StreakInv'
  BY <1>0, <1>5, StreakWithdraw
<1>6. ASSUME NEW a \in Answers, Clamp(a) PROVE StreakInv'
  BY <1>0, <1>6, StreakClamp
<1>7. CASE UNCHANGED vars
  BY <1>0, <1>7 DEF vars, StreakInv
<1> QED
  BY <1>1, <1>2, <1>3, <1>4, <1>5, <1>6, <1>7 DEF Next, Step

(* In turn, and however many reasons race, the failures that weigh on the  *)
(* level stand against it: none was withdrawn or settled.                  *)
THEOREM StreakReal == Spec => []StreakIsReal
<1>1. Init => TypeOK /\ TurnInv /\ StandInv /\ StreakInv
  BY TypeInit, TurnInit, StreakInit
<1>2. TypeOK /\ TurnInv /\ StandInv /\ StreakInv /\ [Next]_vars
        => (TypeOK /\ TurnInv /\ StandInv /\ StreakInv)'
  BY TypeNext, TurnNext, StandNext, StreakNext
<1>3. StreakInv => StreakIsReal
  BY DEF StreakInv, StreakIsReal
<1> QED
  BY <1>1, <1>2, <1>3, PTL DEF Spec

(* Only a session's write moves the level, and it writes what it found.    *)
LEMMA LevelMoves ==
    ASSUME TypeOK, TurnInv, StandInv, StreakInv, InTurn, [Next]_vars,
           NEW s \in Sessions, pc[s] = "read", pc'[s] = "done"
    PROVE  /\ row' = ApplyOutcome(row, s) /\ row \in Rows /\ fast[s] \in BOOLEAN
           /\ s \notin streak /\ s \notin fastRun
           /\ Cardinality(streak \cup {s}) = Cardinality(streak) + 1
           /\ Cardinality(fastRun \cup {s}) = Cardinality(fastRun) + 1
           /\ Cardinality(streak) \in Nat /\ Cardinality(fastRun) \in Nat
<1>1. WriteProgress(s)
  <2>0. pc \in [Sessions -> {"open", "owes", "read", "done"}]
    BY DEF TypeOK
  <2>1. ASSUME NEW t \in Sessions, WriteProgress(t) PROVE t = s
    BY <2>0, <2>1 DEF WriteProgress
  <2>2. ASSUME NEW t \in Sessions, End(t) \/ ReadProgress(t) PROVE FALSE
    BY <2>0, <2>2 DEF End, ReadProgress, StandInv
  <2>3. ASSUME NEW a \in Answers, NEW t \in Sessions,
               AnswerCheck(a, t) \/ AnswerStamp(a) \/ Withdraw(a) \/ Clamp(a)
        PROVE  FALSE
    BY <2>3 DEF AnswerCheck, AnswerStamp, Withdraw, Clamp
  <2>4. ~UNCHANGED vars
    BY DEF vars
  <2>5. CASE \E t \in Sessions : End(t) \/ ReadProgress(t) \/ WriteProgress(t)
    BY <2>1, <2>2, <2>5
  <2>6. CASE \E a \in Answers : \/ \E t \in Sessions : AnswerCheck(a, t)
                               \/ AnswerStamp(a) \/ Withdraw(a) \/ Clamp(a)
    <3>1. PICK a \in Answers : \/ \E t \in Sessions : AnswerCheck(a, t)
                              \/ AnswerStamp(a) \/ Withdraw(a) \/ Clamp(a)
      BY <2>6
    <3>2. pc' = pc
      BY <3>1 DEF AnswerCheck, AnswerStamp, Withdraw, Clamp
    <3> QED
      BY <3>2
  <2> QED
    BY <2>4, <2>5, <2>6 DEF Next, Step
<1>2. row' = ApplyOutcome(row, s) /\ s \notin streak /\ s \notin fastRun
  BY <1>1, InTurnWrite
<1>3. IsFiniteSet(streak) /\ IsFiniteSet(fastRun)
      /\ Cardinality(streak) \in Nat /\ Cardinality(fastRun) \in Nat
  BY SessionsFinite DEF TypeOK
<1>4. /\ Cardinality(streak \cup {s}) = Cardinality(streak) + 1
      /\ Cardinality(fastRun \cup {s}) = Cardinality(fastRun) + 1
  BY ONLY <1>2, <1>3, FS_AddElement
<1> QED
  BY <1>2, <1>3, <1>4 DEF TypeOK

(* In turn, no level is lost for fewer than two failures that stand.       *)
THEOREM DemotionEarned == Spec => DemotedOnlyForTwo
<1>1. Init => TypeOK /\ TurnInv /\ StandInv /\ StreakInv
  BY TypeInit, TurnInit, StreakInit
<1>2. TypeOK /\ TurnInv /\ StandInv /\ StreakInv /\ [Next]_vars
        => (TypeOK /\ TurnInv /\ StandInv /\ StreakInv)'
  BY TypeNext, TurnNext, StandNext, StreakNext
<1>3. TypeOK /\ TurnInv /\ StandInv /\ StreakInv /\ [Next]_vars => [InTurn => DemotesForTwo]_vars
  <2> SUFFICES ASSUME TypeOK, TurnInv, StandInv, StreakInv, [Next]_vars, InTurn,
                      NEW s \in Sessions, row'.level < row.level, pc[s] = "read", pc'[s] = "done"
               PROVE  Cardinality(streak \cup {s}) >= DemoteAfter
    BY DEF DemotesForTwo
  <2>1. /\ row' = ApplyOutcome(row, s) /\ row \in Rows
        /\ Cardinality(streak \cup {s}) = Cardinality(streak) + 1
        /\ Cardinality(streak) \in Nat
    BY LevelMoves
  <2>2. row.fails <= Cardinality(streak) /\ row.fails \in Int /\ row.level \in Int
    BY <2>1 DEF StreakInv, Rows, Easy, Hard
  <2>3. row' = Failure(row) /\ Demotes(row)
    <3>1. ~chosen[s]
      BY <2>1, <2>2 DEF ApplyOutcome, Totals, Rows
    <3>2. ended[s] # "solved"
      BY <2>1, <2>2, <3>1 DEF ApplyOutcome, Solve
    <3> QED
      BY <2>1, <2>2, <3>1, <3>2 DEF ApplyOutcome, Failure
  <2> QED
    BY <2>1, <2>2, <2>3 DEF Demotes, DemoteAfter
<1> QED
  BY <1>1, <1>2, <1>3, PTL DEF Spec, DemotedOnlyForTwo

(* In turn, no level is won for fewer than three fast solves in a row.     *)
THEOREM PromotionEarned == Spec => PromotedOnlyForThree
<1>1. Init => TypeOK /\ TurnInv /\ StandInv /\ StreakInv
  BY TypeInit, TurnInit, StreakInit
<1>2. TypeOK /\ TurnInv /\ StandInv /\ StreakInv /\ [Next]_vars
        => (TypeOK /\ TurnInv /\ StandInv /\ StreakInv)'
  BY TypeNext, TurnNext, StandNext, StreakNext
<1>3. TypeOK /\ TurnInv /\ StandInv /\ StreakInv /\ [Next]_vars => [InTurn => PromotesForThree]_vars
  <2> SUFFICES ASSUME TypeOK, TurnInv, StandInv, StreakInv, [Next]_vars, InTurn,
                      NEW s \in Sessions, row'.level > row.level, pc[s] = "read", pc'[s] = "done"
               PROVE  Cardinality(fastRun \cup {s}) >= PromoteAfter
    BY DEF PromotesForThree
  <2>1. /\ row' = ApplyOutcome(row, s) /\ row \in Rows /\ fast[s] \in BOOLEAN
        /\ Cardinality(fastRun \cup {s}) = Cardinality(fastRun) + 1
        /\ Cardinality(fastRun) \in Nat
    BY LevelMoves
  <2>2. row.fast <= Cardinality(fastRun) /\ row.fast \in Nat /\ row.level \in Int
    BY <2>1 DEF StreakInv, Rows, Easy, Hard
  <2>3. Promotes(row, fast[s])
    <3>1. ~chosen[s]
      BY <2>1, <2>2 DEF ApplyOutcome, Totals, Rows
    <3>2. ended[s] = "solved"
      BY <2>1, <2>2, <3>1 DEF ApplyOutcome, Failure
    <3> QED
      BY <2>1, <2>2, <3>1, <3>2 DEF ApplyOutcome, Solve
  <2> QED
    BY <2>1, <2>2, <2>3 DEF Promotes, FastStreak, PromoteAfter
<1> QED
  BY <1>1, <1>2, <1>3, PTL DEF Spec, PromotedOnlyForThree

(* The level of a learner moves only for what stands, in turn.             *)
THEOREM LevelsEarned == Spec => LevelsAreEarned
BY DemotionEarned, PromotionEarned DEF LevelsAreEarned

----------------------------------------------------------------------------
(* The totals.  While reasons are given one at a time too, a reason is     *)
(* stamped once for each session, so a failure is withdrawn once, and what *)
(* a clamp writes as the total is what the row holds.                      *)
OneAtATime == InTurn /\ "answers" \notin overlaps

ReasonInv ==
    OneAtATime =>
        /\ \A a, b \in Answering : a = b
        /\ \A a \in Answering :
              /\ ended[on[a]] \in {"gaveUp", "dropped"}
              /\ says[a] # "none"
              /\ step[a] = "checked" => reason[on[a]] = "none"
              /\ step[a] = "stamped" => on[a] \notin withdrawn /\ reason[on[a]] # "none"
              /\ step[a] = "clamps" => taken[a] = row
        /\ \A s \in withdrawn : reason[s] # "none"

CountedSolves    == {s \in Done : ended[s] = "solved"}
CountedFailures  == {s \in Done : ended[s] = "gaveUp"}
StandingFailures == CountedFailures \ withdrawn
Astray           == {s \in withdrawn : ended[s] = "dropped"}

(* No row, be it read, written or returned, counts a session twice.        *)
Within(r) == r.solved <= Cardinality(CountedSolves) /\ r.failed <= Cardinality(CountedFailures)

OnceInv ==
    /\ \A s \in Sessions : pc[s] \in {"owes", "read"} => ended[s] \in {"solved", "gaveUp"}
    /\ Within(row)
    /\ \A s \in Sessions : pc[s] = "read" => Within(seen[s])
    /\ \A a \in Answers : step[a] = "clamps" => Within(taken[a])

TotalsInv ==
    /\ InTurn => row.solved = Cardinality(CountedSolves)
    /\ OneAtATime =>
          /\ row.failed <= Cardinality(StandingFailures)
          /\ row.failed >= Cardinality(StandingFailures) - Cardinality(Astray)

LEMMA ReasonInit == Init => ReasonInv
BY DEF Init, ReasonInv, Answering

LEMMA ReasonNext ==
    ASSUME TypeOK, TurnInv, StandInv, ReasonInv, [Next]_vars PROVE ReasonInv'
<1>0. overlaps' = overlaps
  BY DEF Next, vars
<1> SUFFICES ASSUME OneAtATime PROVE ReasonInv'
  BY <1>0 DEF ReasonInv, OneAtATime, InTurn
<1> USE DEF TypeOK, ReasonInv, OneAtATime, InTurn, Answering, answerVars, historyVars
<1>1. ASSUME NEW s \in Sessions, End(s) PROVE ReasonInv'
  <2>1. \A a \in Answering : on[a] # s
    BY <1>1 DEF End
  <2>2. \A t \in Sessions \ {s} : ended'[t] = ended[t]
    BY <1>1 DEF End
  <2> QED
    BY <1>0, <1>1, <2>1, <2>2 DEF End
<1>2. ASSUME NEW s \in Sessions, ReadProgress(s) PROVE ReasonInv'
  BY <1>0, <1>2 DEF ReadProgress
<1>3. ASSUME NEW s \in Sessions, WriteProgress(s) PROVE ReasonInv'
  <2>1. Answering = {}
    BY <1>3, InTurnWrite
  <2> QED
    BY <1>0, <1>3, <2>1 DEF WriteProgress
<1>4. ASSUME NEW a \in Answers, NEW s \in Sessions, AnswerCheck(a, s) PROVE ReasonInv'
  BY <1>0, <1>4 DEF AnswerCheck, Unanswered
<1>5. ASSUME NEW a \in Answers, AnswerStamp(a) PROVE ReasonInv'
  BY <1>0, <1>5 DEF AnswerStamp
<1>6. ASSUME NEW a \in Answers, Withdraw(a) PROVE ReasonInv'
  <2>0. a \in Answering /\ \A b \in Answering : b = a
    BY <1>6 DEF Withdraw
  <2>1. \A b \in Answers \ {a} : step'[b] = step[b] /\ step[b] = "idle"
    BY <1>6, <2>0 DEF Withdraw
  <2>2. taken'[a] = row' /\ step'[a] # "checked" /\ step'[a] # "stamped"
    BY <1>6 DEF Withdraw
  <2>3. \A s \in withdrawn' : reason'[s] # "none"
    BY <1>6, <2>0 DEF Withdraw
  <2> QED
    BY <1>0, <1>6, <2>0, <2>1, <2>2, <2>3 DEF Withdraw
<1>7. ASSUME NEW a \in Answers, Clamp(a) PROVE ReasonInv'
  BY <1>0, <1>7 DEF Clamp
<1>8. CASE UNCHANGED vars
  BY <1>0, <1>8 DEF vars
<1> QED
  BY <1>1, <1>2, <1>3, <1>4, <1>5, <1>6, <1>7, <1>8 DEF Next, Step

LEMMA CountedFinite ==
    /\ IsFiniteSet(CountedSolves) /\ Cardinality(CountedSolves) \in Nat
    /\ IsFiniteSet(CountedFailures) /\ Cardinality(CountedFailures) \in Nat
    /\ IsFiniteSet(StandingFailures) /\ Cardinality(StandingFailures) \in Nat
BY SessionsFinite DEF CountedSolves, CountedFailures, StandingFailures, Done

LEMMA AstrayFinite ==
    ASSUME TypeOK PROVE IsFiniteSet(Astray) /\ Cardinality(Astray) \in Nat
BY SessionsFinite DEF Astray, TypeOK

(* Only the write that counts a session moves the sets that are counted.   *)
LEMMA CountsStand ==
    ASSUME TypeOK, StandInv, [Next]_vars, \A s \in Sessions : ~WriteProgress(s)
    PROVE  CountedSolves' = CountedSolves /\ CountedFailures' = CountedFailures
<1>. USE DEF CountedSolves, CountedFailures, Done, answerVars, historyVars
<1>1. ASSUME NEW s \in Sessions, End(s)
      PROVE  CountedSolves' = CountedSolves /\ CountedFailures' = CountedFailures
  <2>1. pc[s] # "done" /\ pc'[s] = "done" => ended'[s] = "dropped"
    BY <1>1 DEF End, StandInv, TypeOK
  <2>2. pc[s] = "open"
    BY <1>1 DEF End, StandInv
  <2>3. \A t \in Sessions \ {s} : pc'[t] = pc[t] /\ ended'[t] = ended[t]
    BY <1>1 DEF End, TypeOK
  <2> QED
    BY <2>1, <2>2, <2>3
<1>2. ASSUME NEW s \in Sessions, ReadProgress(s)
      PROVE  CountedSolves' = CountedSolves /\ CountedFailures' = CountedFailures
  BY <1>2 DEF ReadProgress, TypeOK
<1>3. ASSUME NEW a \in Answers,
             \/ \E s \in Sessions : AnswerCheck(a, s)
             \/ AnswerStamp(a) \/ Withdraw(a) \/ Clamp(a)
      PROVE  CountedSolves' = CountedSolves /\ CountedFailures' = CountedFailures
  BY <1>3 DEF AnswerCheck, AnswerStamp, Withdraw, Clamp
<1>4. CASE UNCHANGED vars
  BY <1>4 DEF vars
<1> QED
  BY <1>1, <1>2, <1>3, <1>4 DEF Next, Step

(* Counting a session adds it to the total of its kind, whether or not the *)
(* ladder reads it.                                                        *)
LEMMA WriteCounts ==
    ASSUME TypeOK, OnceInv, NEW s \in Sessions, WriteProgress(s)
    PROVE  /\ row'.solved \in Nat /\ row'.failed \in Int
           /\ \/ /\ row'.solved = seen[s].solved + 1 /\ row'.failed = seen[s].failed
                 /\ Cardinality(CountedSolves') = Cardinality(CountedSolves) + 1
                 /\ CountedFailures' = CountedFailures
              \/ /\ row'.solved = seen[s].solved /\ row'.failed = seen[s].failed + 1
                 /\ CountedSolves' = CountedSolves
                 /\ CountedFailures' = CountedFailures \cup {s} /\ s \notin CountedFailures
                 /\ Cardinality(CountedFailures') = Cardinality(CountedFailures) + 1
<1>1. pc[s] = "read" /\ ended[s] \in {"solved", "gaveUp"} /\ row' = ApplyOutcome(seen[s], s)
  BY DEF WriteProgress, OnceInv
<1>2. seen[s].solved \in Nat /\ seen[s].failed \in Int /\ seen[s] \in Rows
  BY DEF TypeOK, Rows
<1>3. Done' = Done \cup {s} /\ s \notin Done /\ ended' = ended
  BY <1>1 DEF WriteProgress, Done, TypeOK
<1>4. CASE ended[s] = "solved"
  <2>1. row'.solved = seen[s].solved + 1 /\ row'.failed = seen[s].failed
    BY <1>1, <1>2, <1>4 DEF ApplyOutcome, Totals, Solve, Rows
  <2>2. CountedSolves' = CountedSolves \cup {s} /\ CountedFailures' = CountedFailures
    BY <1>3, <1>4 DEF CountedSolves, CountedFailures
  <2>3. s \notin CountedSolves
    BY <1>3 DEF CountedSolves
  <2>4. Cardinality(CountedSolves \cup {s}) = Cardinality(CountedSolves) + 1
    BY ONLY <2>3, CountedFinite, FS_AddElement
  <2> QED
    BY <1>2, <2>1, <2>2, <2>4
<1>5. CASE ended[s] = "gaveUp"
  <2>1. row'.solved = seen[s].solved /\ row'.failed = seen[s].failed + 1
    BY <1>1, <1>2, <1>5 DEF ApplyOutcome, Totals, Failure, Rows
  <2>2. CountedSolves' = CountedSolves /\ CountedFailures' = CountedFailures \cup {s}
    BY <1>3, <1>5 DEF CountedSolves, CountedFailures
  <2>3. s \notin CountedFailures
    BY <1>3 DEF CountedFailures
  <2>4. Cardinality(CountedFailures \cup {s}) = Cardinality(CountedFailures) + 1
    BY ONLY <2>3, CountedFinite, FS_AddElement
  <2> QED
    BY <1>2, <2>1, <2>2, <2>3, <2>4
<1> QED
  BY <1>1, <1>4, <1>5

LEMMA OnceInit == Init => OnceInv
<1> SUFFICES ASSUME Init PROVE OnceInv
  OBVIOUS
<1>1. CountedSolves = {} /\ CountedFailures = {}
  BY DEF Init, CountedSolves, CountedFailures, Done
<1>2. row.solved = 0 /\ row.failed = 0
  BY DEF Init, NewRow
<1>3. Within(row)
  BY <1>1, <1>2, FS_EmptySet DEF Within
<1> QED
  BY <1>3 DEF Init, OnceInv

LEMMA OnceNext ==
    ASSUME TypeOK, StandInv, OnceInv, [Next]_vars PROVE OnceInv'
<1>. USE DEF answerVars, historyVars
<1>1. ASSUME NEW s \in Sessions, WriteProgress(s) PROVE OnceInv'
  <2>1. /\ Cardinality(CountedSolves') >= Cardinality(CountedSolves)
        /\ Cardinality(CountedFailures') >= Cardinality(CountedFailures)
        /\ Cardinality(CountedSolves') \in Nat /\ Cardinality(CountedFailures') \in Nat
    BY <1>1, WriteCounts, CountedFinite
  <2>2. Within(seen[s])
    BY <1>1 DEF OnceInv, WriteProgress
  <2>3. Within(row)'
    BY <1>1, <2>2, WriteCounts, CountedFinite DEF Within, TypeOK, Rows
  <2>4. ASSUME NEW r \in Rows, Within(r)
        PROVE  r.solved <= Cardinality(CountedSolves') /\ r.failed <= Cardinality(CountedFailures')
    <3>1. r.solved \in Nat /\ r.failed \in Int
      BY DEF Rows
    <3> QED
      BY <2>1, <2>4, <3>1, CountedFinite DEF Within
  <2>5. ASSUME NEW t \in Sessions, pc'[t] \in {"owes", "read"}
        PROVE  pc[t] = pc'[t] /\ ended'[t] = ended[t] /\ seen'[t] = seen[t]
    BY <1>1, <2>5 DEF WriteProgress, TypeOK
  <2>6. \A t \in Sessions : pc'[t] = "read" => Within(seen[t])'
    BY <2>4, <2>5 DEF OnceInv, TypeOK, Within
  <2>7. \A a \in Answers : step'[a] = "clamps" => Within(taken[a])'
    BY <1>1, <2>4 DEF OnceInv, TypeOK, WriteProgress, Within
  <2> QED
    BY <2>3, <2>5, <2>6, <2>7 DEF OnceInv
<1>2. CASE \A s \in Sessions : ~WriteProgress(s)
  <2>1. CountedSolves' = CountedSolves /\ CountedFailures' = CountedFailures
    BY <1>2, CountsStand
  <2>2. ASSUME NEW s \in Sessions, End(s) PROVE OnceInv'
    <3>1. ended'[s] \in {"solved", "gaveUp", "dropped"}
      BY <2>2, ConstantsAssumption DEF End, TypeOK
    <3>2. pc'[s] \in {"owes", "done"} /\ (pc'[s] = "owes" => ended'[s] # "dropped")
      BY <2>2 DEF End, TypeOK
    <3>3. \A t \in Sessions \ {s} : pc'[t] = pc[t] /\ ended'[t] = ended[t]
      BY <2>2 DEF End, TypeOK
    <3>4. UNCHANGED <<row, seen, step, taken>>
      BY <2>2 DEF End
    <3> QED
      BY <2>1, <3>1, <3>2, <3>3, <3>4 DEF OnceInv, Within
  <2>3. ASSUME NEW s \in Sessions, ReadProgress(s) PROVE OnceInv'
    BY <2>1, <2>3 DEF ReadProgress, OnceInv, Within, TypeOK
  <2>4. ASSUME NEW a \in Answers, AnswerStamp(a) \/ \E s \in Sessions : AnswerCheck(a, s)
        PROVE  OnceInv'
    BY <2>1, <2>4 DEF AnswerStamp, AnswerCheck, OnceInv, Within, TypeOK
  <2>5. ASSUME NEW a \in Answers, Withdraw(a) PROVE OnceInv'
    <3>1. row'.solved = row.solved /\ row'.failed = row.failed - 1
          /\ row.solved \in Nat /\ row.failed \in Int
      BY <2>5 DEF Withdraw, TypeOK, Rows
    <3>2. Within(row)'
      BY <2>1, <3>1, CountedFinite DEF OnceInv, Within
    <3>3. taken'[a] = row' /\ \A b \in Answers \ {a} : taken'[b] = taken[b] /\ step'[b] = step[b]
      BY <2>5 DEF Withdraw, TypeOK
    <3>4. UNCHANGED <<ended, pc, seen>>
      BY <2>5 DEF Withdraw
    <3> QED
      BY <2>1, <3>2, <3>3, <3>4 DEF OnceInv, Within
  <2>6. ASSUME NEW a \in Answers, Clamp(a) PROVE OnceInv'
    <3>1. row'.solved = row.solved /\ row'.failed = NotNegative(taken[a].failed)
          /\ taken[a].failed \in Int
      BY <2>6 DEF Clamp, TypeOK, Rows
    <3>2. Within(taken[a]) /\ Within(row)
      BY <2>6 DEF Clamp, OnceInv
    <3>3. Within(row)'
      BY <2>1, <3>1, <3>2, CountedFinite DEF Within, NotNegative
    <3>4. \A b \in Answers : step'[b] = "clamps" => step[b] = "clamps" /\ taken'[b] = taken[b]
      BY <2>6 DEF Clamp, TypeOK
    <3>5. UNCHANGED <<ended, pc, seen>>
      BY <2>6 DEF Clamp
    <3> QED
      BY <2>1, <3>3, <3>4, <3>5 DEF OnceInv, Within
  <2>7. CASE UNCHANGED vars
    BY <2>1, <2>7 DEF vars, OnceInv, Within
  <2> QED
    BY <1>2, <2>2, <2>3, <2>4, <2>5, <2>6, <2>7 DEF Next, Step
<1> QED
  BY <1>1, <1>2

LEMMA TotalsInit == Init => TotalsInv
<1> SUFFICES ASSUME Init PROVE TotalsInv
  OBVIOUS
<1>1. CountedSolves = {} /\ StandingFailures = {} /\ Astray = {}
  BY DEF Init, CountedSolves, CountedFailures, StandingFailures, Astray, Done
<1>2. row.solved = 0 /\ row.failed = 0
  BY DEF Init, NewRow
<1>3. Cardinality(CountedSolves) = 0 /\ Cardinality(StandingFailures) = 0
      /\ Cardinality(Astray) = 0
  BY <1>1, FS_EmptySet
<1> QED
  BY <1>2, <1>3 DEF TotalsInv

(* A withdrawal takes a failure that stood from the total, or one too many *)
(* for a session that was never counted.                                   *)
LEMMA TotalsWithdraw ==
    ASSUME TypeOK, StandInv, ReasonInv, TotalsInv, OneAtATime, NEW a \in Answers, Withdraw(a)
    PROVE  /\ row'.failed <= Cardinality(StandingFailures')
           /\ row'.failed >= Cardinality(StandingFailures') - Cardinality(Astray')
<1>1. row'.failed = row.failed - 1 /\ row.failed \in Int
  BY DEF Withdraw, TypeOK, Rows
<1>2. a \in Answering /\ step[a] = "stamped" /\ on[a] \in Sessions
  BY DEF Withdraw, Answering, TypeOK
<1>3. /\ on[a] \in Done /\ on[a] \notin withdrawn /\ ended[on[a]] \in {"gaveUp", "dropped"}
      /\ withdrawn' = withdrawn \cup {on[a]} /\ ended' = ended /\ Done' = Done
  BY <1>2 DEF ReasonInv, StandInv, OneAtATime, Withdraw, Done
<1>4. /\ row.failed <= Cardinality(StandingFailures)
      /\ row.failed >= Cardinality(StandingFailures) - Cardinality(Astray)
  BY DEF TotalsInv
<1>5. CASE ended[on[a]] = "gaveUp"
  <2>1. on[a] \in StandingFailures /\ StandingFailures' = StandingFailures \ {on[a]}
        /\ Astray' = Astray
    BY <1>3, <1>5 DEF StandingFailures, CountedFailures, Astray
  <2>2. Cardinality(StandingFailures \ {on[a]}) = Cardinality(StandingFailures) - 1
    BY ONLY <2>1, CountedFinite, FS_RemoveElement
  <2> QED
    BY <1>1, <1>4, <2>1, <2>2, CountedFinite, AstrayFinite
<1>6. CASE ended[on[a]] = "dropped"
  <2>1. on[a] \notin Astray /\ Astray' = Astray \cup {on[a]}
        /\ StandingFailures' = StandingFailures
    BY <1>3, <1>6 DEF StandingFailures, CountedFailures, Astray
  <2>2. Cardinality(Astray \cup {on[a]}) = Cardinality(Astray) + 1
    BY ONLY <2>1, TypeOK, AstrayFinite, FS_AddElement
  <2> QED
    BY <1>1, <1>4, <2>1, <2>2, CountedFinite, AstrayFinite
<1> QED
  BY <1>3, <1>5, <1>6

LEMMA TotalsNext ==
    ASSUME TypeOK, TurnInv, StandInv, ReasonInv, OnceInv, TotalsInv, [Next]_vars PROVE TotalsInv'
<1>. USE DEF answerVars, historyVars
<1>0. overlaps' = overlaps
  BY DEF Next, vars
<1>. SUFFICES ASSUME InTurn
              PROVE  /\ row'.solved = Cardinality(CountedSolves')
                     /\ OneAtATime =>
                           /\ row'.failed <= Cardinality(StandingFailures')
                           /\ row'.failed >= Cardinality(StandingFailures') - Cardinality(Astray')
  BY <1>0 DEF TotalsInv, OneAtATime, InTurn
<1>1. /\ row.solved = Cardinality(CountedSolves) /\ row.failed \in Int
      /\ OneAtATime =>
            /\ row.failed <= Cardinality(StandingFailures)
            /\ row.failed >= Cardinality(StandingFailures) - Cardinality(Astray)
  BY DEF TotalsInv, TypeOK, Rows
<1>2. ASSUME NEW s \in Sessions, WriteProgress(s)
      PROVE  /\ row'.solved = Cardinality(CountedSolves')
             /\ row'.failed <= row.failed \/ row'.failed = row.failed + 1
             /\ OneAtATime =>
                   /\ row'.failed <= Cardinality(StandingFailures')
                   /\ row'.failed >= Cardinality(StandingFailures') - Cardinality(Astray')
  <2>1. seen[s] = row /\ s \notin withdrawn /\ withdrawn' = withdrawn /\ ended' = ended
    BY <1>2, InTurnWrite DEF TurnInv, WriteProgress
  <2>2. Astray' = Astray
    BY <2>1 DEF Astray
  <2>3. CASE /\ row'.solved = row.solved + 1 /\ row'.failed = row.failed
             /\ Cardinality(CountedSolves') = Cardinality(CountedSolves) + 1
             /\ CountedFailures' = CountedFailures
    <3>1. StandingFailures' = StandingFailures
      BY <2>1, <2>3 DEF StandingFailures
    <3> QED
      BY <1>1, <2>2, <2>3, <3>1
  <2>4. CASE /\ row'.solved = row.solved /\ row'.failed = row.failed + 1
             /\ CountedSolves' = CountedSolves
             /\ CountedFailures' = CountedFailures \cup {s} /\ s \notin CountedFailures
    <3>1. StandingFailures' = StandingFailures \cup {s} /\ s \notin StandingFailures
      BY <2>1, <2>4 DEF StandingFailures
    <3>2. Cardinality(StandingFailures \cup {s}) = Cardinality(StandingFailures) + 1
      BY ONLY <3>1, CountedFinite, FS_AddElement
    <3> QED
      BY <1>1, <2>2, <2>4, <3>1, <3>2, CountedFinite, AstrayFinite
  <2> QED
    BY <1>2, <2>1, <2>3, <2>4, WriteCounts
<1>3. CASE \A s \in Sessions : ~WriteProgress(s)
  <2>1. CountedSolves' = CountedSolves /\ CountedFailures' = CountedFailures
    BY <1>3, CountsStand
  <2>2. ASSUME NEW s \in Sessions, End(s)
        PROVE  row' = row /\ withdrawn' = withdrawn /\ Astray' = Astray
    <3>1. s \notin withdrawn /\ withdrawn' = withdrawn /\ row' = row
      BY <2>2 DEF End, StandInv, Done
    <3>2. \A t \in withdrawn : ended'[t] = ended[t]
      BY <2>2, <3>1 DEF End, TypeOK
    <3> QED
      BY <3>1, <3>2 DEF Astray
  <2>3. ASSUME NEW s \in Sessions, ReadProgress(s)
        PROVE  row' = row /\ withdrawn' = withdrawn /\ Astray' = Astray
    BY <2>3 DEF ReadProgress, Astray
  <2>4. ASSUME NEW a \in Answers, AnswerStamp(a) \/ \E s \in Sessions : AnswerCheck(a, s)
        PROVE  row' = row /\ withdrawn' = withdrawn /\ Astray' = Astray
    BY <2>4 DEF AnswerStamp, AnswerCheck, Astray
  <2>5. CASE UNCHANGED vars
    BY <1>1, <2>1, <2>5 DEF vars, StandingFailures, Astray
  <2>6. ASSUME row' = row, withdrawn' = withdrawn, Astray' = Astray
        PROVE  /\ row'.solved = Cardinality(CountedSolves')
               /\ OneAtATime =>
                     /\ row'.failed <= Cardinality(StandingFailures')
                     /\ row'.failed >= Cardinality(StandingFailures') - Cardinality(Astray')
    BY <1>1, <2>1, <2>6 DEF StandingFailures
  <2>7. ASSUME NEW a \in Answers, Withdraw(a)
        PROVE  /\ row'.solved = Cardinality(CountedSolves')
               /\ OneAtATime =>
                     /\ row'.failed <= Cardinality(StandingFailures')
                     /\ row'.failed >= Cardinality(StandingFailures') - Cardinality(Astray')
    <3>1. row'.solved = row.solved
      BY <2>7 DEF Withdraw, TypeOK, Rows
    <3> QED
      BY <1>1, <2>1, <2>7, <3>1, TotalsWithdraw
  <2>8. ASSUME NEW a \in Answers, Clamp(a)
        PROVE  /\ row'.solved = Cardinality(CountedSolves')
               /\ OneAtATime =>
                     /\ row'.failed <= Cardinality(StandingFailures')
                     /\ row'.failed >= Cardinality(StandingFailures') - Cardinality(Astray')
    <3>1. row'.solved = row.solved /\ withdrawn' = withdrawn /\ Astray' = Astray
          /\ StandingFailures' = StandingFailures
      BY <2>1, <2>8 DEF Clamp, TypeOK, Rows, Astray, StandingFailures
    <3>2. OneAtATime => row'.failed = NotNegative(row.failed)
      BY <2>8 DEF Clamp, ReasonInv, Answering, TypeOK, Rows
    <3>3. OneAtATime => row'.failed <= Cardinality(StandingFailures) /\ row'.failed >= row.failed
                        /\ row'.failed \in Int
      BY <1>1, <3>2, CountedFinite DEF NotNegative
    <3> QED
      BY <1>1, <2>1, <3>1, <3>3, CountedFinite, AstrayFinite
  <2> QED
    BY <1>3, <2>2, <2>3, <2>4, <2>5, <2>6, <2>7, <2>8 DEF Next, Step
<1> QED
  BY <1>2, <1>3

(* However handlers overlap, no session is counted twice.  Sessions that   *)
(* are counted in turn leave the solves exact, even while answers race;    *)
(* and the failures too, but for what an answer about a session that was   *)
(* never counted takes, where one answer is dealt with at a time.          *)
THEOREM TotalsCorrect == Spec => []TotalsAddUp
<1>. DEFINE Inv == TypeOK /\ TurnInv /\ StandInv /\ ReasonInv /\ OnceInv /\ TotalsInv
<1>1. Init => Inv
  BY TypeInit, TurnInit, ReasonInit, OnceInit, TotalsInit
<1>2. Inv /\ [Next]_vars => Inv'
  BY TypeNext, TurnNext, StandNext, ReasonNext, OnceNext, TotalsNext
<1>3. Inv => TotalsAddUp
  <2>. SUFFICES ASSUME Inv PROVE TotalsAddUp
    OBVIOUS
  <2>. DEFINE solves   == {s \in Sessions : ended[s] = "solved"}
              failures == {s \in Sessions : ended[s] = "gaveUp"}
  <2>1. CountedSolves \subseteq solves /\ CountedFailures \subseteq failures
    BY DEF CountedSolves, CountedFailures, Done
  <2>2. solves \in SUBSET Sessions /\ failures \in SUBSET Sessions
    OBVIOUS
  <2>3. Counting = {} => CountedSolves = solves /\ CountedFailures = failures
    <3>1. \A s \in Sessions : ended[s] # "no" => s \in Done \/ s \in Counting
      BY DEF Counting, StandInv, TypeOK, Done
    <3> QED
      BY <3>1 DEF CountedSolves, CountedFailures, Done
  <2>. HIDE DEF solves, failures
  <2>4. /\ Cardinality(CountedSolves) <= Cardinality(solves)
        /\ Cardinality(CountedFailures) <= Cardinality(failures)
        /\ Cardinality(solves) \in Nat /\ Cardinality(failures) \in Nat
    BY <2>1, <2>2, SessionsFinite, FS_Subset
  <2>5. row.solved <= Cardinality(solves) /\ row.failed <= Cardinality(failures)
    BY <2>4, CountedFinite DEF OnceInv, Within, TypeOK, Rows
  <2>6. InTurn /\ Counting = {} => row.solved = Cardinality(solves)
    BY <2>3 DEF TotalsInv
  <2>7. InTurn /\ "answers" \notin overlaps /\ AtRest =>
           /\ row.failed <= Cardinality(failures \ withdrawn)
           /\ row.failed >= Cardinality(failures \ withdrawn)
                              - Cardinality({s \in withdrawn : ended[s] = "dropped"})
    BY <2>3 DEF TotalsInv, OneAtATime, AtRest, StandingFailures, Astray
  <2> QED
    BY <2>5, <2>6, <2>7 DEF TotalsAddUp, solves, failures
<1> QED
  BY <1>1, <1>2, <1>3, PTL DEF Spec

=============================================================================

------------------------- MODULE LockSession_proofs -------------------------
(***************************************************************************)
(* What TLAPS proves of LockSession, for any number of sessions, clients   *)
(* and problems, any allowance and any bound: its types; the skip          *)
(* allowance, final endings, solves of what the lock shows, and that the   *)
(* handlers implement LockContract; that the audit and the ladder hear of  *)
(* each ending once and truthfully; what a refused give-up means; and that *)
(* every serving is counted once.                                          *)
(***************************************************************************)
EXTENDS LockSession, FiniteSetTheorems, TLAPS

(* A handler past its first read is about a session, unless it is arming   *)
(* one; and a swap is asked for only below the bound on revisions.         *)
Detached == {"idle", "armRead", "armCreate"}

LocalsOK ==
    \A r \in Handlers :
        /\ pc[r] \notin Detached => sid[r] \in Sessions
        /\ pc[r] = "swap" => seen[r].revision < MaxRevision

TypeInv == TypeOK /\ LocalsOK

(* The records the handlers build have the types the variables hold.       *)
LEMMA RecordTypes ==
    /\ Unassigned \in Assignment
    /\ \A a \in Assignment :
          /\ a.problem \in Problems \cup {NoProblem}
          /\ a.revision \in 0 .. MaxRevision
          /\ a.adjusted \in BOOLEAN
    /\ \A p \in Problems \cup {NoProblem}, n \in 0 .. MaxRevision, b \in BOOLEAN :
          [problem |-> p, revision |-> n, adjusted |-> b] \in Assignment
    /\ \A o \in Outcomes, p \in Problems \cup {NoProblem} : Entry(o, p) \in AuditRow
    /\ \A x, y \in BOOLEAN : Moved(x, y) \in LadderMove
BY ConstantsAssumption DEF Unassigned, Assignment, Entry, AuditRow, Moved, LadderMove

(* A handler that goes on, answers or enters keeps its locals well typed.  *)
LEMMA GotoType ==
    ASSUME TypeInv, NEW r \in Handlers, NEW step \in Steps \ {"swap"},
           pc[r] \in Detached => step \in Detached,
           Goto(r, step)
    PROVE  HandlersOK' /\ LocalsOK'
BY DEF TypeInv, TypeOK, HandlersOK, LocalsOK, Goto, localVars

LEMMA LeaveType ==
    ASSUME TypeInv, NEW r \in Handlers, NEW step \in Detached, Leave(r, step)
    PROVE  HandlersOK' /\ LocalsOK'
BY ConstantsAssumption, RecordTypes
   DEF TypeInv, TypeOK, HandlersOK, LocalsOK, Detached, Steps, Leave, Days

LEMMA StayType ==
    ASSUME TypeInv, UNCHANGED <<pc, localVars>>
    PROVE  HandlersOK' /\ LocalsOK'
BY DEF TypeInv, TypeOK, HandlersOK, LocalsOK, localVars

LEMMA EnterType ==
    ASSUME TypeInv, NEW r \in Handlers, NEW s \in Sessions, NEW step \in Steps,
           NEW a \in Assignment, step = "swap" => a.revision < MaxRevision,
           Enter(r, s, step, a)
    PROVE  HandlersOK' /\ LocalsOK'
BY DEF TypeInv, TypeOK, HandlersOK, LocalsOK, Enter

LEMMA ServeType ==
    ASSUME TypeInv, NEW r \in Handlers, NEW s \in Sessions, NEW a \in Assignment,
           sid[r] \in Sessions, Serve(r, s, a)
    PROVE  /\ shown' \in [Sessions -> Assignment]
           /\ HandlersOK' /\ LocalsOK'
BY DEF TypeInv, TypeOK, RowsOK, HandlersOK, LocalsOK, Serve, Steps

(* Appending a row to one session's sequence, and counting one problem.    *)
LEMMA AppendType ==
    ASSUME NEW S, NEW D, NEW f \in [D -> Seq(S)], NEW x, NEW e \in S
    PROVE  [f EXCEPT ![x] = Append(@, e)] \in [D -> Seq(S)]
<1>1. ASSUME x \in D PROVE Append(f[x], e) \in Seq(S)
  BY <1>1
<1> QED
  BY <1>1

LEMMA AuditType ==
    ASSUME TypeInv, NEW x, NEW e \in AuditRow,
           audit' = [audit EXCEPT ![x] = Append(@, e)] \/ audit' = audit
    PROVE  audit' \in [Sessions -> Seq(AuditRow)]
<1>1. audit \in [Sessions -> Seq(AuditRow)]
  BY DEF TypeInv, TypeOK, RecordsOK
<1>2. [audit EXCEPT ![x] = Append(@, e)] \in [Sessions -> Seq(AuditRow)]
  BY <1>1, AppendType
<1> QED
  BY <1>1, <1>2

LEMMA CountType ==
    ASSUME NEW D, NEW f \in [D -> Nat], NEW x
    PROVE  [f EXCEPT ![x] = @ + 1] \in [D -> Nat]
<1>1. ASSUME x \in D PROVE f[x] + 1 \in Nat
  BY <1>1
<1> QED
  BY <1>1

(* Every variable keeps its type: the inductive step.                      *)
LEMMA TypeStep ==
    ASSUME TypeInv, [Next]_vars
    PROVE  TypeInv'
<1> USE ConstantsAssumption, RecordTypes
    DEF TypeInv, TypeOK, AuditSteps, Steps, Active, Resolved,
        Answer, Rearm, Detached, rowVars, recordVars, Handlers
<1>1. ASSUME NEW r \in Handlers, ArmRead(r) PROVE TypeInv'
  <2>1. RowsOK'
    BY <1>1 DEF RowsOK, ArmRead
  <2>2. RecordsOK'
    BY <1>1 DEF RecordsOK, ArmRead
  <2>3. HandlersOK' /\ LocalsOK'
    BY <1>1, GotoType, LeaveType, EnterType DEF ArmRead
  <2> QED
    BY <2>1, <2>2, <2>3
<1>2. ASSUME NEW r \in Handlers, ArmCreate(r) PROVE TypeInv'
  <2>1. RowsOK'
    BY <1>2 DEF RowsOK, ArmCreate
  <2>2. RecordsOK'
    BY <1>2 DEF RecordsOK, ArmCreate
  <2>3. HandlersOK' /\ LocalsOK'
    BY <1>2, GotoType, LeaveType, EnterType DEF ArmCreate
  <2> QED
    BY <2>1, <2>2, <2>3
<1>3. ASSUME NEW r \in Handlers, ArmRefused(r) PROVE TypeInv'
  <2>1. RowsOK'
    BY <1>3 DEF RowsOK, ArmRefused
  <2>2. RecordsOK'
    BY <1>3 DEF RecordsOK, ArmRefused
  <2>3. HandlersOK' /\ LocalsOK'
    BY <1>3, GotoType, LeaveType, EnterType DEF ArmRefused
  <2> QED
    BY <2>1, <2>2, <2>3
<1>4. ASSUME NEW s \in Sessions, Expire(s) \/ Pause(s) \/ Resume(s) \/ Shorten(s) PROVE TypeInv'
  <2>1. RowsOK'
    BY <1>4 DEF RowsOK, Expire, Pause, Resume, Shorten, MoveCountdown
  <2>2. RecordsOK'
    BY <1>4 DEF RecordsOK, Expire, Pause, Resume, Shorten, MoveCountdown
  <2>3. HandlersOK' /\ LocalsOK'
    BY <1>4, StayType DEF Expire, Pause, Resume, Shorten, MoveCountdown
  <2> QED
    BY <2>1, <2>2, <2>3
<1>5. ASSUME NEW r \in Handlers, NEW s \in Sessions, EngageRead(r, s) PROVE TypeInv'
  <2>1. RowsOK'
    BY <1>5 DEF RowsOK, EngageRead
  <2>2. RecordsOK'
    BY <1>5 DEF RecordsOK, EngageRead
  <2>3. HandlersOK' /\ LocalsOK'
    BY <1>5, GotoType, LeaveType, EnterType DEF EngageRead
  <2> QED
    BY <2>1, <2>2, <2>3
<1>6. ASSUME NEW r \in Handlers, NEW p \in Problems, ClaimDue(r, p) PROVE TypeInv'
  <2> DEFINE s == sid[r]
             a == [problem  |-> p,
                   revision |-> shown[s].revision,
                   adjusted |-> shown[s].adjusted]
  <2>0. s \in Sessions
    BY <1>6 DEF ClaimDue, LocalsOK
  <2>1. CASE DueSession(s)
    <3>1. a \in Assignment
      BY <2>0 DEF RowsOK
    <3>2. Serve(r, s, a)
      BY <1>6, <2>1 DEF ClaimDue
    <3>3. shown' \in [Sessions -> Assignment] /\ HandlersOK' /\ LocalsOK'
      BY <2>0, <3>1, <3>2, ServeType
    <3> QED
      BY <1>6, <2>0, <2>1, <3>3 DEF ClaimDue, RowsOK, RecordsOK
  <2>2. CASE ~DueSession(s)
    <3>1. HandlersOK' /\ LocalsOK'
      BY <1>6, <2>2, LeaveType DEF ClaimDue
    <3> QED
      BY <1>6, <2>2, <3>1 DEF ClaimDue, RowsOK, RecordsOK
  <2> QED
    BY <2>1, <2>2
<1>7. ASSUME NEW r \in Handlers, PickFails(r) PROVE TypeInv'
  <2>1. RowsOK'
    BY <1>7 DEF RowsOK, PickFails
  <2>2. RecordsOK'
    BY <1>7 DEF RecordsOK, PickFails
  <2>3. HandlersOK' /\ LocalsOK'
    BY <1>7, GotoType, LeaveType, EnterType DEF PickFails
  <2> QED
    BY <2>1, <2>2, <2>3
<1>8. ASSUME NEW r \in Handlers, CountAttempt(r) PROVE TypeInv'
  <2>1. RowsOK'
    BY <1>8 DEF RowsOK, CountAttempt
  <2>2. RecordsOK'
    BY <1>8, CountType DEF RecordsOK, CountAttempt
  <2>3. HandlersOK' /\ LocalsOK'
    BY <1>8, GotoType, LeaveType, EnterType DEF CountAttempt
  <2> QED
    BY <2>1, <2>2, <2>3
<1>9. ASSUME NEW r \in Handlers, NEW s \in Sessions, SubmitRead(r, s) PROVE TypeInv'
  <2>1. RowsOK'
    BY <1>9 DEF RowsOK, SubmitRead
  <2>2. RecordsOK'
    BY <1>9 DEF RecordsOK, SubmitRead
  <2>3. HandlersOK' /\ LocalsOK'
    <3>1. shown[s] \in Assignment
      BY DEF RowsOK
    <3> QED
      BY <1>9, <3>1, EnterType DEF SubmitRead
  <2> QED
    BY <2>1, <2>2, <2>3
<1>10. ASSUME NEW r \in Handlers, JudgeRejects(r) \/ JudgeAccepts(r) PROVE TypeInv'
  <2>1. RowsOK'
    BY <1>10 DEF RowsOK, JudgeRejects, JudgeAccepts
  <2>2. RecordsOK'
    BY <1>10 DEF RecordsOK, JudgeRejects, JudgeAccepts
  <2>3. HandlersOK' /\ LocalsOK'
    BY <1>10, GotoType, LeaveType, EnterType DEF JudgeRejects, JudgeAccepts
  <2> QED
    BY <2>1, <2>2, <2>3
<1>11. ASSUME NEW r \in Handlers, Release(r) PROVE TypeInv'
  <2>1. RowsOK'
    BY <1>11 DEF RowsOK, Release
  <2>2. RecordsOK'
    BY <1>11 DEF RecordsOK, Release
  <2>3. HandlersOK' /\ LocalsOK'
    BY <1>11, GotoType, LeaveType, EnterType DEF Release
  <2> QED
    BY <2>1, <2>2, <2>3
<1>12. ASSUME NEW r \in Handlers, NEW s \in Sessions, SkipRead(r, s) PROVE TypeInv'
  <2>1. RowsOK'
    BY <1>12 DEF RowsOK, SkipRead
  <2>2. RecordsOK'
    BY <1>12 DEF RecordsOK, SkipRead
  <2>3. HandlersOK' /\ LocalsOK'
    <3>1. shown[s] \in Assignment /\ today \in Days
      BY DEF RowsOK
    <3> QED
      BY <1>12, <3>1 DEF SkipRead, HandlersOK, LocalsOK
  <2> QED
    BY <2>1, <2>2, <2>3
<1>13. ASSUME NEW r \in Handlers, SkipCount(r) PROVE TypeInv'
  <2>1. RowsOK'
    BY <1>13 DEF RowsOK, SkipCount
  <2>2. RecordsOK'
    BY <1>13 DEF RecordsOK, SkipCount
  <2>3. HandlersOK' /\ LocalsOK'
    <3>1. CASE /\ pc' = [pc EXCEPT ![r] = "skipClaim"]
               /\ day' = [day EXCEPT ![r] = today]
               /\ UNCHANGED <<sid, seen, tries>>
      BY <1>13, <3>1 DEF SkipCount, RowsOK, HandlersOK, LocalsOK
    <3>2. CASE Answer(r)
      BY <3>2, LeaveType
    <3> QED
      BY <1>13, <3>1, <3>2 DEF SkipCount
  <2> QED
    BY <2>1, <2>2, <2>3
<1>14. ASSUME NEW r \in Handlers, SkipClaim(r) PROVE TypeInv'
  <2>1. RowsOK'
    <3>1. \A d \in day[r] .. today : d \in Days
      BY DEF HandlersOK, RowsOK, Days
    <3> QED
      BY <1>14, <3>1 DEF RowsOK, SkipClaim
  <2>2. RecordsOK'
    BY <1>14 DEF RecordsOK, SkipClaim
  <2>3. HandlersOK' /\ LocalsOK'
    BY <1>14, GotoType, LeaveType, EnterType DEF SkipClaim
  <2> QED
    BY <2>1, <2>2, <2>3
<1>15. ASSUME NEW r \in Handlers, NEW s \in Sessions, SwapRead(r, s) PROVE TypeInv'
  <2>1. RowsOK'
    BY <1>15 DEF RowsOK, SwapRead
  <2>2. RecordsOK'
    BY <1>15 DEF RecordsOK, SwapRead
  <2>3. HandlersOK' /\ LocalsOK'
    <3>1. shown[s] \in Assignment
      BY DEF RowsOK
    <3> QED
      BY <1>15, <3>1, EnterType DEF SwapRead
  <2> QED
    BY <2>1, <2>2, <2>3
<1>16. ASSUME NEW r \in Handlers, NEW p \in Problems, Swap(r, p) PROVE TypeInv'
  <2> DEFINE a == [problem  |-> p,
                   revision |-> shown[sid[r]].revision + 1,
                   adjusted |-> TRUE]
  <2>0. sid[r] \in Sessions
    BY <1>16 DEF Swap, LocalsOK
  <2>1. CASE StillShows(r)
    <3>1. shown[sid[r]].revision \in 0 .. MaxRevision /\ shown[sid[r]].revision < MaxRevision
      BY <1>16, <2>0, <2>1 DEF Swap, StillShows, RowsOK, LocalsOK
    <3>2. shown[sid[r]].revision + 1 \in 0 .. MaxRevision
      BY <3>1
    <3>3. a \in Assignment
      BY <3>2
    <3>4. Serve(r, sid[r], a)
      BY <1>16, <2>1 DEF Swap
    <3>5. shown' \in [Sessions -> Assignment] /\ HandlersOK' /\ LocalsOK'
      BY <2>0, <3>3, <3>4, ServeType
    <3> QED
      BY <1>16, <3>5 DEF Swap, RowsOK, RecordsOK
  <2>2. CASE ~StillShows(r)
    <3>1. HandlersOK' /\ LocalsOK'
      BY <1>16, <2>2, LeaveType DEF Swap
    <3> QED
      BY <1>16, <2>2, <3>1 DEF Swap, RowsOK, RecordsOK
  <2> QED
    BY <2>1, <2>2
<1>17. ASSUME NEW r \in Handlers, SwapFindsNothing(r) PROVE TypeInv'
  <2>1. RowsOK'
    BY <1>17 DEF RowsOK, SwapFindsNothing
  <2>2. RecordsOK'
    BY <1>17 DEF RecordsOK, SwapFindsNothing
  <2>3. HandlersOK' /\ LocalsOK'
    BY <1>17, GotoType, LeaveType, EnterType DEF SwapFindsNothing
  <2> QED
    BY <2>1, <2>2, <2>3
<1>18. ASSUME NEW r \in Handlers, NEW s \in Sessions, ParticipateRead(r, s) PROVE TypeInv'
  <2>1. RowsOK'
    BY <1>18 DEF RowsOK, ParticipateRead
  <2>2. RecordsOK'
    BY <1>18 DEF RecordsOK, ParticipateRead
  <2>3. HandlersOK' /\ LocalsOK'
    <3>1. shown[s] \in Assignment
      BY DEF RowsOK
    <3> QED
      BY <1>18, <3>1, EnterType DEF ParticipateRead
  <2> QED
    BY <2>1, <2>2, <2>3
<1>19. ASSUME NEW r \in Handlers, CommitParticipation(r) PROVE TypeInv'
  <2>1. RowsOK'
    BY <1>19 DEF RowsOK, CommitParticipation, Entry
  <2>2. RecordsOK'
    <3>1. Entry("PARTICIPATED", seen[r].problem) \in AuditRow
      BY DEF HandlersOK, Outcomes
    <3>2. \/ audit' = [audit EXCEPT ![sid[r]] =
                         Append(@, Entry("PARTICIPATED", seen[r].problem))]
          \/ audit' = audit
      BY <1>19 DEF CommitParticipation
    <3>3. audit' \in [Sessions -> Seq(AuditRow)]
      BY <3>1, <3>2, AuditType
    <3> QED
      BY <1>19, <3>3 DEF RecordsOK, CommitParticipation
  <2>3. HandlersOK' /\ LocalsOK'
    BY <1>19, GotoType, LeaveType, EnterType DEF CommitParticipation, Entry
  <2> QED
    BY <2>1, <2>2, <2>3
<1>20. ASSUME NEW r \in Handlers, NEW s \in Sessions, CancelRead(r, s) PROVE TypeInv'
  <2>1. RowsOK'
    BY <1>20 DEF RowsOK, CancelRead
  <2>2. RecordsOK'
    BY <1>20 DEF RecordsOK, CancelRead
  <2>3. HandlersOK' /\ LocalsOK'
    BY <1>20, GotoType, LeaveType, EnterType DEF CancelRead
  <2> QED
    BY <2>1, <2>2, <2>3
<1>21. ASSUME NEW r \in Handlers, Cancel(r) PROVE TypeInv'
  <2>1. RowsOK'
    BY <1>21 DEF RowsOK, Cancel
  <2>2. RecordsOK'
    BY <1>21 DEF RecordsOK, Cancel
  <2>3. HandlersOK' /\ LocalsOK'
    BY <1>21, GotoType, LeaveType, EnterType DEF Cancel
  <2> QED
    BY <2>1, <2>2, <2>3
<1>22. ASSUME NEW r \in Handlers, NEW s \in Sessions, AbandonRead(r, s) PROVE TypeInv'
  <2>1. RowsOK'
    BY <1>22 DEF RowsOK, AbandonRead
  <2>2. RecordsOK'
    BY <1>22 DEF RecordsOK, AbandonRead
  <2>3. HandlersOK' /\ LocalsOK'
    BY <1>22, GotoType, LeaveType, EnterType DEF AbandonRead
  <2> QED
    BY <2>1, <2>2, <2>3
<1>23. ASSUME NEW r \in Handlers, AbandonLocked(r) PROVE TypeInv'
  <2>1. RowsOK'
    BY <1>23 DEF RowsOK, AbandonLocked
  <2>2. RecordsOK'
    BY <1>23 DEF RecordsOK, AbandonLocked
  <2>3. HandlersOK' /\ LocalsOK'
    BY <1>23, GotoType, LeaveType, EnterType DEF AbandonLocked
  <2> QED
    BY <2>1, <2>2, <2>3
<1>24. ASSUME NEW r \in Handlers, AbandonArmed(r) PROVE TypeInv'
  <2>1. RowsOK'
    BY <1>24 DEF RowsOK, AbandonArmed, AbandonAttempts
  <2>2. RecordsOK'
    BY <1>24 DEF RecordsOK, AbandonArmed, AbandonAttempts
  <2>3. HandlersOK' /\ LocalsOK'
    <3>1. tries[r] \in 0 .. 1 /\ sid[r] \in Sessions
      BY <1>24 DEF AbandonArmed, HandlersOK, LocalsOK
    <3>2. CASE state[sid[r]] = "ARMED"
      BY <1>24, <3>2, GotoType DEF AbandonArmed
    <3>3. CASE state[sid[r]] # "ARMED" /\ tries[r] + 1 < AbandonAttempts
      <4>1. tries[r] + 1 \in 0 .. 1
        BY <3>1, <3>3 DEF AbandonAttempts
      <4> QED
        BY <1>24, <3>1, <3>3, <4>1 DEF AbandonArmed, HandlersOK, LocalsOK
    <3>4. CASE state[sid[r]] # "ARMED" /\ ~(tries[r] + 1 < AbandonAttempts)
      BY <1>24, <3>4, LeaveType DEF AbandonArmed
    <3> QED
      BY <3>2, <3>3, <3>4
  <2> QED
    BY <2>1, <2>2, <2>3
<1>25. ASSUME NEW r \in Handlers, NEW s \in Sessions, ReapRead(r, s) PROVE TypeInv'
  <2>1. RowsOK'
    BY <1>25 DEF RowsOK, ReapRead
  <2>2. RecordsOK'
    BY <1>25 DEF RecordsOK, ReapRead
  <2>3. HandlersOK' /\ LocalsOK'
    BY <1>25, GotoType, LeaveType, EnterType DEF ReapRead
  <2> QED
    BY <2>1, <2>2, <2>3
<1>26. ASSUME NEW r \in Handlers, Reap(r) PROVE TypeInv'
  <2>1. RowsOK'
    BY <1>26 DEF RowsOK, Reap
  <2>2. RecordsOK'
    BY <1>26 DEF RecordsOK, Reap
  <2>3. HandlersOK' /\ LocalsOK'
    BY <1>26, GotoType, LeaveType, EnterType DEF Reap
  <2> QED
    BY <2>1, <2>2, <2>3
<1>27. ASSUME NEW r \in Handlers, WriteAudit(r) PROVE TypeInv'
  <2>1. RowsOK'
    BY <1>27 DEF RowsOK, WriteAudit, AfterAudit, AuditedProblem, Entry, OutcomeAt, AuditSteps
  <2>2. RecordsOK'
    <3>1. sid[r] \in Sessions
      BY <1>27 DEF WriteAudit, LocalsOK
    <3>2. OutcomeAt[pc[r]] \in Outcomes
      BY <1>27 DEF WriteAudit, OutcomeAt, Outcomes
    <3>3. AuditedProblem(r) \in Problems \cup {NoProblem}
      BY <3>1 DEF AuditedProblem, HandlersOK, RowsOK
    <3>4. Entry(OutcomeAt[pc[r]], AuditedProblem(r)) \in AuditRow
      BY <3>2, <3>3
    <3>5. \/ audit' = [audit EXCEPT ![sid[r]] =
                         Append(@, Entry(OutcomeAt[pc[r]], AuditedProblem(r)))]
          \/ audit' = audit
      BY <1>27 DEF WriteAudit
    <3>6. audit' \in [Sessions -> Seq(AuditRow)]
      BY <3>4, <3>5, AuditType
    <3> QED
      BY <1>27, <3>6 DEF RecordsOK, WriteAudit
  <2>3. HandlersOK' /\ LocalsOK'
    BY <1>27, GotoType, LeaveType, EnterType DEF WriteAudit, AfterAudit, AuditedProblem, Entry, OutcomeAt, AuditSteps
  <2> QED
    BY <2>1, <2>2, <2>3
<1>28. ASSUME NEW r \in Handlers, AdvanceSolved(r) PROVE TypeInv'
  <2>1. RowsOK'
    BY <1>28 DEF RowsOK, AdvanceSolved, Moved
  <2>2. RecordsOK'
    <3>1. Moved(TRUE, seen[r].adjusted) \in LadderMove
      BY DEF HandlersOK
    <3> QED
      BY <1>28, <3>1, AppendType DEF RecordsOK, AdvanceSolved
  <2>3. HandlersOK' /\ LocalsOK'
    BY <1>28, GotoType, LeaveType, EnterType DEF AdvanceSolved, Moved
  <2> QED
    BY <2>1, <2>2, <2>3
<1>29. ASSUME NEW r \in Handlers, AdvanceFailed(r) PROVE TypeInv'
  <2>1. RowsOK'
    BY <1>29 DEF RowsOK, AdvanceFailed, Moved
  <2>2. RecordsOK'
    <3>1. Moved(FALSE, shown[sid[r]].adjusted) \in LadderMove
      BY <1>29 DEF AdvanceFailed, HandlersOK, LocalsOK, RowsOK
    <3> QED
      BY <1>29, <3>1, AppendType DEF RecordsOK, AdvanceFailed
  <2>3. HandlersOK' /\ LocalsOK'
    BY <1>29, GotoType, LeaveType, EnterType DEF AdvanceFailed, Moved
  <2> QED
    BY <2>1, <2>2, <2>3
<1>30. ASSUME NEW r \in Handlers, Abort(r) PROVE TypeInv'
  <2>1. RowsOK'
    BY <1>30 DEF RowsOK, Abort
  <2>2. RecordsOK'
    BY <1>30 DEF RecordsOK, Abort
  <2>3. HandlersOK' /\ LocalsOK'
    BY <1>30, GotoType, LeaveType, EnterType DEF Abort
  <2> QED
    BY <2>1, <2>2, <2>3
<1>31. CASE NewDay
  <2>1. RowsOK'
    BY <1>31 DEF RowsOK, NewDay, Days
  <2>2. RecordsOK'
    BY <1>31 DEF RecordsOK, NewDay
  <2>3. HandlersOK' /\ LocalsOK'
    BY <1>31, StayType DEF NewDay
  <2> QED
    BY <2>1, <2>2, <2>3
<1>32. ASSUME NEW s \in Sessions, GrowStale(s) PROVE TypeInv'
  <2>1. RowsOK'
    BY <1>32 DEF RowsOK, GrowStale
  <2>2. RecordsOK'
    BY <1>32 DEF RecordsOK, GrowStale
  <2>3. HandlersOK' /\ LocalsOK'
    BY <1>32, StayType DEF GrowStale
  <2> QED
    BY <2>1, <2>2, <2>3
<1>33. CASE UNCHANGED vars
  <2>1. RowsOK'
    BY <1>33 DEF RowsOK, vars
  <2>2. RecordsOK'
    BY <1>33 DEF RecordsOK, vars
  <2>3. HandlersOK' /\ LocalsOK'
    BY <1>33, StayType DEF vars
  <2> QED
    BY <2>1, <2>2, <2>3
<1> QED
  BY <1>1, <1>2, <1>3, <1>4, <1>5, <1>6, <1>7, <1>8, <1>9, <1>10,
    <1>11, <1>12, <1>13, <1>14, <1>15, <1>16, <1>17, <1>18, <1>19,
    <1>20, <1>21, <1>22, <1>23, <1>24, <1>25, <1>26, <1>27, <1>28,
    <1>29, <1>30, <1>31, <1>32, <1>33
    DEF Next, CountdownStep, FirstRead, HandlerStep,
       ArmStep, EngageStep, GradeStep, SkipStep, FlowStep, GiveUpStep, RecordStep

LEMMA TypeInit == Init => TypeInv
<1> SUFFICES ASSUME Init PROVE TypeInv
  OBVIOUS
<1>1. RowsOK
  BY ConstantsAssumption, RecordTypes DEF Init, RowsOK, Active, Resolved, Days, NoDay
<1>2. RecordsOK
  BY DEF Init, RecordsOK
<1>3. HandlersOK
  BY ConstantsAssumption, RecordTypes DEF Init, HandlersOK, Steps, Days
<1>4. LocalsOK
  BY DEF Init, LocalsOK, Detached
<1> QED
  BY <1>1, <1>2, <1>3, <1>4 DEF TypeInv, TypeOK

(* Every variable keeps its type, in every behaviour, and every handler     *)
(* past its first read has a session.                                       *)
THEOREM TypeInvariant == Spec => []TypeInv
BY TypeInit, TypeStep, PTL DEF Spec

(* The type invariant of the runs.                                          *)
THEOREM TypeCorrect == Spec => []TypeOK
BY TypeInvariant, PTL DEF TypeInv

----------------------------------------------------------------------------
(* Safety.  None of these properties is inductive by itself.  A handler    *)
(* acts on what it read some statements ago, so the invariant says what    *)
(* such a reading is still worth: a session once seen LOCKED is LOCKED or  *)
(* has ended, the assignment seen is the one shown unless the revision has *)
(* moved on, and a skip granted by the count is still within the allowance *)
(* as long as its session is locked, because no other session can have     *)
(* been active.                                                            *)

(* The partial unique index: one active session at a time.                 *)
OneActive ==
    \A s, t \in Sessions : state[s] \in Active /\ state[t] \in Active => s = t

(* No problem is chosen before the lock lands.                             *)
Unpicked ==
    \A s \in Sessions : state[s] \in {"none", "ARMED"} => shown[s] = Unassigned

(* The handlers that are to act on a session they read as LOCKED.          *)
LockedReaders == {"judge", "release", "skipCount", "skipClaim", "swap", "participate"}

ReadWhenLocked ==
    \A r \in Handlers :
        pc[r] \in LockedReaders => state[sid[r]] \in {"LOCKED"} \cup Resolved

SeenLags ==
    \A r \in Handlers :
        pc[r] \in LockedReaders =>
            /\ seen[r].revision <= shown[sid[r]].revision
            /\ seen[r].revision = shown[sid[r]].revision => seen[r] = shown[sid[r]]

SkipGranted ==
    \A r \in Handlers :
        pc[r] = "skipClaim" =>
            \A d \in Days :
                day[r] <= d /\ state[sid[r]] = "LOCKED" =>
                    Cardinality(SkipsOn(d)) < DailySkips

SessionInv ==
    /\ TypeInv /\ OneActive /\ Unpicked /\ ReadWhenLocked /\ SeenLags
    /\ SkipGranted /\ SkipsWithinAllowance

(* Only arming makes a session active, and the index refuses a second one.  *)
LEMMA OneActiveStep ==
    ASSUME SessionInv, [Next]_vars
    PROVE  OneActive'
<1> USE DEF SessionInv, TypeInv, TypeOK, RowsOK, LocalsOK, Detached, Active,
        Resolved, rowVars, OneActive
<1>1. ASSUME NEW r \in Handlers, ArmRead(r) PROVE OneActive'
  BY <1>1 DEF ArmRead
<1>2. ASSUME NEW r \in Handlers, ArmCreate(r) PROVE OneActive'
  BY <1>2 DEF ArmCreate, ActiveSessions
<1>3. ASSUME NEW r \in Handlers, ArmRefused(r) PROVE OneActive'
  BY <1>3 DEF ArmRefused
<1>4. ASSUME NEW s \in Sessions, Expire(s) \/ Pause(s) \/ Resume(s) \/ Shorten(s) PROVE OneActive'
  BY <1>4 DEF Expire, Pause, Resume, Shorten, MoveCountdown
<1>5. ASSUME NEW r \in Handlers, NEW s \in Sessions, EngageRead(r, s) PROVE OneActive'
  BY <1>5 DEF EngageRead
<1>6. ASSUME NEW r \in Handlers, NEW p \in Problems, ClaimDue(r, p) PROVE OneActive'
  BY <1>6 DEF ClaimDue, DueSession
<1>7. ASSUME NEW r \in Handlers, PickFails(r) PROVE OneActive'
  BY <1>7 DEF PickFails
<1>8. ASSUME NEW r \in Handlers, CountAttempt(r) PROVE OneActive'
  BY <1>8 DEF CountAttempt
<1>9. ASSUME NEW r \in Handlers, NEW s \in Sessions, SubmitRead(r, s) PROVE OneActive'
  BY <1>9 DEF SubmitRead
<1>10. ASSUME NEW r \in Handlers, JudgeRejects(r) \/ JudgeAccepts(r) PROVE OneActive'
  BY <1>10 DEF JudgeRejects, JudgeAccepts
<1>11. ASSUME NEW r \in Handlers, Release(r) PROVE OneActive'
  BY <1>11 DEF Release
<1>12. ASSUME NEW r \in Handlers, NEW s \in Sessions, SkipRead(r, s) PROVE OneActive'
  BY <1>12 DEF SkipRead
<1>13. ASSUME NEW r \in Handlers, SkipCount(r) PROVE OneActive'
  BY <1>13 DEF SkipCount
<1>14. ASSUME NEW r \in Handlers, SkipClaim(r) PROVE OneActive'
  BY <1>14 DEF SkipClaim
<1>15. ASSUME NEW r \in Handlers, NEW s \in Sessions, SwapRead(r, s) PROVE OneActive'
  BY <1>15 DEF SwapRead
<1>16. ASSUME NEW r \in Handlers, NEW p \in Problems, Swap(r, p) PROVE OneActive'
  BY <1>16 DEF Swap, StillShows
<1>17. ASSUME NEW r \in Handlers, SwapFindsNothing(r) PROVE OneActive'
  BY <1>17 DEF SwapFindsNothing
<1>18. ASSUME NEW r \in Handlers, NEW s \in Sessions, ParticipateRead(r, s) PROVE OneActive'
  BY <1>18 DEF ParticipateRead
<1>19. ASSUME NEW r \in Handlers, CommitParticipation(r) PROVE OneActive'
  BY <1>19 DEF CommitParticipation, Entry
<1>20. ASSUME NEW r \in Handlers, NEW s \in Sessions, CancelRead(r, s) PROVE OneActive'
  BY <1>20 DEF CancelRead
<1>21. ASSUME NEW r \in Handlers, Cancel(r) PROVE OneActive'
  BY <1>21 DEF Cancel
<1>22. ASSUME NEW r \in Handlers, NEW s \in Sessions, AbandonRead(r, s) PROVE OneActive'
  BY <1>22 DEF AbandonRead
<1>23. ASSUME NEW r \in Handlers, AbandonLocked(r) PROVE OneActive'
  BY <1>23 DEF AbandonLocked
<1>24. ASSUME NEW r \in Handlers, AbandonArmed(r) PROVE OneActive'
  BY <1>24 DEF AbandonArmed, AbandonAttempts
<1>25. ASSUME NEW r \in Handlers, NEW s \in Sessions, ReapRead(r, s) PROVE OneActive'
  BY <1>25 DEF ReapRead
<1>26. ASSUME NEW r \in Handlers, Reap(r) PROVE OneActive'
  BY <1>26 DEF Reap, Handlers
<1>27. ASSUME NEW r \in Handlers, WriteAudit(r) PROVE OneActive'
  BY <1>27 DEF WriteAudit, AfterAudit, AuditedProblem, Entry, OutcomeAt, AuditSteps
<1>28. ASSUME NEW r \in Handlers, AdvanceSolved(r) PROVE OneActive'
  BY <1>28 DEF AdvanceSolved, Moved
<1>29. ASSUME NEW r \in Handlers, AdvanceFailed(r) PROVE OneActive'
  BY <1>29 DEF AdvanceFailed, Moved
<1>30. ASSUME NEW r \in Handlers, Abort(r) PROVE OneActive'
  BY <1>30 DEF Abort
<1>31. CASE NewDay
  BY <1>31 DEF NewDay
<1>32. ASSUME NEW s \in Sessions, GrowStale(s) PROVE OneActive'
  BY <1>32 DEF GrowStale
<1>33. CASE UNCHANGED vars
  BY <1>33 DEF vars
<1> QED
  BY <1>1, <1>2, <1>3, <1>4, <1>5, <1>6, <1>7, <1>8, <1>9, <1>10,
    <1>11, <1>12, <1>13, <1>14, <1>15, <1>16, <1>17, <1>18, <1>19,
    <1>20, <1>21, <1>22, <1>23, <1>24, <1>25, <1>26, <1>27, <1>28,
    <1>29, <1>30, <1>31, <1>32, <1>33
    DEF Next, CountdownStep, FirstRead, HandlerStep,
       ArmStep, EngageStep, GradeStep, SkipStep, FlowStep, GiveUpStep, RecordStep

(* A problem appears with the lock and changes only under it.               *)
LEMMA UnpickedStep ==
    ASSUME SessionInv, [Next]_vars
    PROVE  Unpicked'
<1> USE DEF SessionInv, TypeInv, TypeOK, RowsOK, LocalsOK, Detached, Active,
        Resolved, rowVars, Unpicked, Serve
<1>1. ASSUME NEW r \in Handlers, ArmRead(r) PROVE Unpicked'
  BY <1>1 DEF ArmRead
<1>2. ASSUME NEW r \in Handlers, ArmCreate(r) PROVE Unpicked'
  BY <1>2 DEF ArmCreate
<1>3. ASSUME NEW r \in Handlers, ArmRefused(r) PROVE Unpicked'
  BY <1>3 DEF ArmRefused
<1>4. ASSUME NEW s \in Sessions, Expire(s) \/ Pause(s) \/ Resume(s) \/ Shorten(s) PROVE Unpicked'
  BY <1>4 DEF Expire, Pause, Resume, Shorten, MoveCountdown
<1>5. ASSUME NEW r \in Handlers, NEW s \in Sessions, EngageRead(r, s) PROVE Unpicked'
  BY <1>5 DEF EngageRead
<1>6. ASSUME NEW r \in Handlers, NEW p \in Problems, ClaimDue(r, p) PROVE Unpicked'
  BY <1>6 DEF ClaimDue, DueSession
<1>7. ASSUME NEW r \in Handlers, PickFails(r) PROVE Unpicked'
  BY <1>7 DEF PickFails
<1>8. ASSUME NEW r \in Handlers, CountAttempt(r) PROVE Unpicked'
  BY <1>8 DEF CountAttempt
<1>9. ASSUME NEW r \in Handlers, NEW s \in Sessions, SubmitRead(r, s) PROVE Unpicked'
  BY <1>9 DEF SubmitRead
<1>10. ASSUME NEW r \in Handlers, JudgeRejects(r) \/ JudgeAccepts(r) PROVE Unpicked'
  BY <1>10 DEF JudgeRejects, JudgeAccepts
<1>11. ASSUME NEW r \in Handlers, Release(r) PROVE Unpicked'
  BY <1>11 DEF Release
<1>12. ASSUME NEW r \in Handlers, NEW s \in Sessions, SkipRead(r, s) PROVE Unpicked'
  BY <1>12 DEF SkipRead
<1>13. ASSUME NEW r \in Handlers, SkipCount(r) PROVE Unpicked'
  BY <1>13 DEF SkipCount
<1>14. ASSUME NEW r \in Handlers, SkipClaim(r) PROVE Unpicked'
  BY <1>14 DEF SkipClaim
<1>15. ASSUME NEW r \in Handlers, NEW s \in Sessions, SwapRead(r, s) PROVE Unpicked'
  BY <1>15 DEF SwapRead
<1>16. ASSUME NEW r \in Handlers, NEW p \in Problems, Swap(r, p) PROVE Unpicked'
  BY <1>16 DEF Swap, StillShows
<1>17. ASSUME NEW r \in Handlers, SwapFindsNothing(r) PROVE Unpicked'
  BY <1>17 DEF SwapFindsNothing
<1>18. ASSUME NEW r \in Handlers, NEW s \in Sessions, ParticipateRead(r, s) PROVE Unpicked'
  BY <1>18 DEF ParticipateRead
<1>19. ASSUME NEW r \in Handlers, CommitParticipation(r) PROVE Unpicked'
  BY <1>19 DEF CommitParticipation, Entry
<1>20. ASSUME NEW r \in Handlers, NEW s \in Sessions, CancelRead(r, s) PROVE Unpicked'
  BY <1>20 DEF CancelRead
<1>21. ASSUME NEW r \in Handlers, Cancel(r) PROVE Unpicked'
  BY <1>21 DEF Cancel
<1>22. ASSUME NEW r \in Handlers, NEW s \in Sessions, AbandonRead(r, s) PROVE Unpicked'
  BY <1>22 DEF AbandonRead
<1>23. ASSUME NEW r \in Handlers, AbandonLocked(r) PROVE Unpicked'
  BY <1>23 DEF AbandonLocked
<1>24. ASSUME NEW r \in Handlers, AbandonArmed(r) PROVE Unpicked'
  BY <1>24 DEF AbandonArmed, AbandonAttempts
<1>25. ASSUME NEW r \in Handlers, NEW s \in Sessions, ReapRead(r, s) PROVE Unpicked'
  BY <1>25 DEF ReapRead
<1>26. ASSUME NEW r \in Handlers, Reap(r) PROVE Unpicked'
  BY <1>26 DEF Reap
<1>27. ASSUME NEW r \in Handlers, WriteAudit(r) PROVE Unpicked'
  BY <1>27 DEF WriteAudit, AfterAudit, AuditedProblem, Entry, OutcomeAt, AuditSteps
<1>28. ASSUME NEW r \in Handlers, AdvanceSolved(r) PROVE Unpicked'
  BY <1>28 DEF AdvanceSolved, Moved
<1>29. ASSUME NEW r \in Handlers, AdvanceFailed(r) PROVE Unpicked'
  BY <1>29 DEF AdvanceFailed, Moved
<1>30. ASSUME NEW r \in Handlers, Abort(r) PROVE Unpicked'
  BY <1>30 DEF Abort
<1>31. CASE NewDay
  BY <1>31 DEF NewDay
<1>32. ASSUME NEW s \in Sessions, GrowStale(s) PROVE Unpicked'
  BY <1>32 DEF GrowStale
<1>33. CASE UNCHANGED vars
  BY <1>33 DEF vars
<1> QED
  BY <1>1, <1>2, <1>3, <1>4, <1>5, <1>6, <1>7, <1>8, <1>9, <1>10,
    <1>11, <1>12, <1>13, <1>14, <1>15, <1>16, <1>17, <1>18, <1>19,
    <1>20, <1>21, <1>22, <1>23, <1>24, <1>25, <1>26, <1>27, <1>28,
    <1>29, <1>30, <1>31, <1>32, <1>33
    DEF Next, CountdownStep, FirstRead, HandlerStep,
       ArmStep, EngageStep, GradeStep, SkipStep, FlowStep, GiveUpStep, RecordStep

(* A locked session never becomes armed again.                              *)
LEMMA ReadWhenLockedStep ==
    ASSUME SessionInv, [Next]_vars
    PROVE  ReadWhenLocked'
<1> USE ConstantsAssumption DEF SessionInv, TypeInv, TypeOK, HandlersOK, RowsOK, LocalsOK,
        Detached, Active, Resolved, Handlers, AuditSteps, Goto,
        Leave, Answer, Rearm, Enter, Serve, localVars, rowVars,
        ReadWhenLocked, LockedReaders
<1>1. ASSUME NEW r \in Handlers, ArmRead(r) PROVE ReadWhenLocked'
  BY <1>1 DEF ArmRead
<1>2. ASSUME NEW r \in Handlers, ArmCreate(r) PROVE ReadWhenLocked'
  BY <1>2 DEF ArmCreate
<1>3. ASSUME NEW r \in Handlers, ArmRefused(r) PROVE ReadWhenLocked'
  BY <1>3 DEF ArmRefused
<1>4. ASSUME NEW s \in Sessions, Expire(s) \/ Pause(s) \/ Resume(s) \/ Shorten(s) PROVE ReadWhenLocked'
  BY <1>4 DEF Expire, Pause, Resume, Shorten, MoveCountdown
<1>5. ASSUME NEW r \in Handlers, NEW s \in Sessions, EngageRead(r, s) PROVE ReadWhenLocked'
  BY <1>5 DEF EngageRead
<1>6. ASSUME NEW r \in Handlers, NEW p \in Problems, ClaimDue(r, p) PROVE ReadWhenLocked'
  BY <1>6 DEF ClaimDue, DueSession
<1>7. ASSUME NEW r \in Handlers, PickFails(r) PROVE ReadWhenLocked'
  BY <1>7 DEF PickFails
<1>8. ASSUME NEW r \in Handlers, CountAttempt(r) PROVE ReadWhenLocked'
  BY <1>8 DEF CountAttempt
<1>9. ASSUME NEW r \in Handlers, NEW s \in Sessions, SubmitRead(r, s) PROVE ReadWhenLocked'
  BY <1>9 DEF SubmitRead
<1>10. ASSUME NEW r \in Handlers, JudgeRejects(r) \/ JudgeAccepts(r) PROVE ReadWhenLocked'
  BY <1>10 DEF JudgeRejects, JudgeAccepts
<1>11. ASSUME NEW r \in Handlers, Release(r) PROVE ReadWhenLocked'
  BY <1>11 DEF Release
<1>12. ASSUME NEW r \in Handlers, NEW s \in Sessions, SkipRead(r, s) PROVE ReadWhenLocked'
  BY <1>12 DEF SkipRead
<1>13. ASSUME NEW r \in Handlers, SkipCount(r) PROVE ReadWhenLocked'
  BY <1>13 DEF SkipCount
<1>14. ASSUME NEW r \in Handlers, SkipClaim(r) PROVE ReadWhenLocked'
  BY <1>14 DEF SkipClaim
<1>15. ASSUME NEW r \in Handlers, NEW s \in Sessions, SwapRead(r, s) PROVE ReadWhenLocked'
  BY <1>15 DEF SwapRead
<1>16. ASSUME NEW r \in Handlers, NEW p \in Problems, Swap(r, p) PROVE ReadWhenLocked'
  BY <1>16 DEF Swap, StillShows
<1>17. ASSUME NEW r \in Handlers, SwapFindsNothing(r) PROVE ReadWhenLocked'
  BY <1>17 DEF SwapFindsNothing
<1>18. ASSUME NEW r \in Handlers, NEW s \in Sessions, ParticipateRead(r, s) PROVE ReadWhenLocked'
  BY <1>18 DEF ParticipateRead
<1>19. ASSUME NEW r \in Handlers, CommitParticipation(r) PROVE ReadWhenLocked'
  BY <1>19 DEF CommitParticipation, Entry
<1>20. ASSUME NEW r \in Handlers, NEW s \in Sessions, CancelRead(r, s) PROVE ReadWhenLocked'
  BY <1>20 DEF CancelRead
<1>21. ASSUME NEW r \in Handlers, Cancel(r) PROVE ReadWhenLocked'
  BY <1>21 DEF Cancel
<1>22. ASSUME NEW r \in Handlers, NEW s \in Sessions, AbandonRead(r, s) PROVE ReadWhenLocked'
  BY <1>22 DEF AbandonRead
<1>23. ASSUME NEW r \in Handlers, AbandonLocked(r) PROVE ReadWhenLocked'
  BY <1>23 DEF AbandonLocked
<1>24. ASSUME NEW r \in Handlers, AbandonArmed(r) PROVE ReadWhenLocked'
  BY <1>24 DEF AbandonArmed, AbandonAttempts
<1>25. ASSUME NEW r \in Handlers, NEW s \in Sessions, ReapRead(r, s) PROVE ReadWhenLocked'
  BY <1>25 DEF ReapRead
<1>26. ASSUME NEW r \in Handlers, Reap(r) PROVE ReadWhenLocked'
  BY <1>26 DEF Reap
<1>27. ASSUME NEW r \in Handlers, WriteAudit(r) PROVE ReadWhenLocked'
  BY <1>27 DEF WriteAudit, AfterAudit, AuditedProblem, Entry, OutcomeAt, AuditSteps
<1>28. ASSUME NEW r \in Handlers, AdvanceSolved(r) PROVE ReadWhenLocked'
  BY <1>28 DEF AdvanceSolved, Moved
<1>29. ASSUME NEW r \in Handlers, AdvanceFailed(r) PROVE ReadWhenLocked'
  BY <1>29 DEF AdvanceFailed, Moved
<1>30. ASSUME NEW r \in Handlers, Abort(r) PROVE ReadWhenLocked'
  BY <1>30 DEF Abort
<1>31. CASE NewDay
  BY <1>31 DEF NewDay
<1>32. ASSUME NEW s \in Sessions, GrowStale(s) PROVE ReadWhenLocked'
  BY <1>32 DEF GrowStale
<1>33. CASE UNCHANGED vars
  BY <1>33 DEF vars
<1> QED
  BY <1>1, <1>2, <1>3, <1>4, <1>5, <1>6, <1>7, <1>8, <1>9, <1>10,
    <1>11, <1>12, <1>13, <1>14, <1>15, <1>16, <1>17, <1>18, <1>19,
    <1>20, <1>21, <1>22, <1>23, <1>24, <1>25, <1>26, <1>27, <1>28,
    <1>29, <1>30, <1>31, <1>32, <1>33
    DEF Next, CountdownStep, FirstRead, HandlerStep,
       ArmStep, EngageStep, GradeStep, SkipStep, FlowStep, GiveUpStep, RecordStep

(* What was read as the assignment of a session is current while nothing    *)
(* moves its revision.                                                      *)
LEMMA EnterLags ==
    ASSUME SessionInv, NEW r \in Handlers, NEW s \in Sessions, NEW step,
           Enter(r, s, step, shown[s]), UNCHANGED shown
    PROVE  SeenLags'
<1>1. shown[s] \in Assignment
  BY DEF SessionInv, TypeInv, TypeOK, RowsOK
<1>2. shown[s].revision <= shown[s].revision
  BY <1>1, RecordTypes, ConstantsAssumption
<1>3. \A q \in Handlers \ {r} : pc'[q] = pc[q] /\ sid'[q] = sid[q] /\ seen'[q] = seen[q]
  BY DEF SessionInv, TypeInv, TypeOK, HandlersOK, Enter
<1>4. sid'[r] = s /\ seen'[r] = shown[s]
  BY DEF SessionInv, TypeInv, TypeOK, HandlersOK, Enter
<1> QED
  BY <1>2, <1>3, <1>4 DEF SessionInv, SeenLags

(* Only a swap changes the assignment of a locked session, and it counts.   *)
LEMMA SeenLagsStep ==
    ASSUME SessionInv, [Next]_vars
    PROVE  SeenLags'
<1> USE ConstantsAssumption DEF SessionInv, TypeInv, TypeOK, HandlersOK, RowsOK, LocalsOK,
        Detached, Active, Resolved, Handlers, AuditSteps, Goto,
        Leave, Answer, Rearm, Enter, Serve, localVars, rowVars,
        ReadWhenLocked, SeenLags, LockedReaders
<1>1. ASSUME NEW r \in Handlers, ArmRead(r) PROVE SeenLags'
  BY <1>1 DEF ArmRead
<1>2. ASSUME NEW r \in Handlers, ArmCreate(r) PROVE SeenLags'
  BY <1>2 DEF ArmCreate
<1>3. ASSUME NEW r \in Handlers, ArmRefused(r) PROVE SeenLags'
  BY <1>3 DEF ArmRefused
<1>4. ASSUME NEW s \in Sessions, Expire(s) \/ Pause(s) \/ Resume(s) \/ Shorten(s) PROVE SeenLags'
  BY <1>4 DEF Expire, Pause, Resume, Shorten, MoveCountdown
<1>5. ASSUME NEW r \in Handlers, NEW s \in Sessions, EngageRead(r, s) PROVE SeenLags'
  BY <1>5 DEF EngageRead
<1>6. ASSUME NEW r \in Handlers, NEW p \in Problems, ClaimDue(r, p) PROVE SeenLags'
  BY <1>6 DEF ClaimDue, DueSession
<1>7. ASSUME NEW r \in Handlers, PickFails(r) PROVE SeenLags'
  BY <1>7 DEF PickFails
<1>8. ASSUME NEW r \in Handlers, CountAttempt(r) PROVE SeenLags'
  BY <1>8 DEF CountAttempt
<1>9. ASSUME NEW r \in Handlers, NEW s \in Sessions, SubmitRead(r, s) PROVE SeenLags'
  BY <1>9, EnterLags DEF SubmitRead
<1>10. ASSUME NEW r \in Handlers, JudgeRejects(r) \/ JudgeAccepts(r) PROVE SeenLags'
  BY <1>10 DEF JudgeRejects, JudgeAccepts
<1>11. ASSUME NEW r \in Handlers, Release(r) PROVE SeenLags'
  BY <1>11 DEF Release
<1>12. ASSUME NEW r \in Handlers, NEW s \in Sessions, SkipRead(r, s) PROVE SeenLags'
  <2>1. shown[s] \in Assignment /\ shown[s].revision <= shown[s].revision
    BY RecordTypes
  <2>2. \A q \in Handlers \ {r} : pc'[q] = pc[q] /\ sid'[q] = sid[q] /\ seen'[q] = seen[q]
    BY <1>12 DEF SkipRead
  <2>3. sid'[r] = s /\ seen'[r] = shown[s] /\ UNCHANGED shown
    BY <1>12 DEF SkipRead
  <2> QED
    BY <2>1, <2>2, <2>3
<1>13. ASSUME NEW r \in Handlers, SkipCount(r) PROVE SeenLags'
  BY <1>13 DEF SkipCount
<1>14. ASSUME NEW r \in Handlers, SkipClaim(r) PROVE SeenLags'
  BY <1>14 DEF SkipClaim
<1>15. ASSUME NEW r \in Handlers, NEW s \in Sessions, SwapRead(r, s) PROVE SeenLags'
  BY <1>15, EnterLags DEF SwapRead
<1>16. ASSUME NEW r \in Handlers, NEW p \in Problems, Swap(r, p) PROVE SeenLags'
  <2> USE <1>16 DEF Swap, StillShows
  <2> DEFINE s == sid[r]
  <2>1. s \in Sessions /\ shown[s] \in Assignment
    OBVIOUS
  <2>2. shown[s].revision \in Nat
    BY <2>1, RecordTypes
  <2>3. CASE StillShows(r)
    <3>1. /\ shown'[s].revision = shown[s].revision + 1
          /\ \A t \in Sessions \ {s} : shown'[t] = shown[t]
      BY <2>1, <2>3
    <3>2. pc'[r] \notin LockedReaders
      BY <2>3
    <3>3. \A q \in Handlers \ {r} : pc'[q] = pc[q] /\ sid'[q] = sid[q] /\ seen'[q] = seen[q]
      BY <2>3
    <3>4. ASSUME NEW q \in Handlers \ {r}, pc[q] \in LockedReaders
          PROVE  /\ seen'[q].revision <= shown'[sid'[q]].revision
                 /\ seen'[q].revision = shown'[sid'[q]].revision =>
                        seen'[q] = shown'[sid'[q]]
      <4>1. /\ seen[q].revision \in Nat /\ sid[q] \in Sessions
            /\ seen[q].revision <= shown[sid[q]].revision
            /\ seen[q].revision = shown[sid[q]].revision => seen[q] = shown[sid[q]]
        BY <3>4, RecordTypes
      <4> QED
        BY <2>2, <3>1, <3>3, <4>1
    <3> QED
      BY <3>2, <3>3, <3>4 DEF SeenLags
  <2>4. CASE ~StillShows(r)
    BY <2>4
  <2> QED
    BY <2>3, <2>4
<1>17. ASSUME NEW r \in Handlers, SwapFindsNothing(r) PROVE SeenLags'
  BY <1>17 DEF SwapFindsNothing
<1>18. ASSUME NEW r \in Handlers, NEW s \in Sessions, ParticipateRead(r, s) PROVE SeenLags'
  BY <1>18, EnterLags DEF ParticipateRead
<1>19. ASSUME NEW r \in Handlers, CommitParticipation(r) PROVE SeenLags'
  BY <1>19 DEF CommitParticipation
<1>20. ASSUME NEW r \in Handlers, NEW s \in Sessions, CancelRead(r, s) PROVE SeenLags'
  BY <1>20 DEF CancelRead
<1>21. ASSUME NEW r \in Handlers, Cancel(r) PROVE SeenLags'
  BY <1>21 DEF Cancel
<1>22. ASSUME NEW r \in Handlers, NEW s \in Sessions, AbandonRead(r, s) PROVE SeenLags'
  BY <1>22 DEF AbandonRead
<1>23. ASSUME NEW r \in Handlers, AbandonLocked(r) PROVE SeenLags'
  BY <1>23 DEF AbandonLocked
<1>24. ASSUME NEW r \in Handlers, AbandonArmed(r) PROVE SeenLags'
  BY <1>24 DEF AbandonArmed, AbandonAttempts
<1>25. ASSUME NEW r \in Handlers, NEW s \in Sessions, ReapRead(r, s) PROVE SeenLags'
  BY <1>25 DEF ReapRead
<1>26. ASSUME NEW r \in Handlers, Reap(r) PROVE SeenLags'
  BY <1>26 DEF Reap
<1>27. ASSUME NEW r \in Handlers, WriteAudit(r) PROVE SeenLags'
  BY <1>27 DEF WriteAudit, AfterAudit, AuditedProblem, Entry, OutcomeAt, AuditSteps
<1>28. ASSUME NEW r \in Handlers, AdvanceSolved(r) PROVE SeenLags'
  BY <1>28 DEF AdvanceSolved, Moved
<1>29. ASSUME NEW r \in Handlers, AdvanceFailed(r) PROVE SeenLags'
  BY <1>29 DEF AdvanceFailed, Moved
<1>30. ASSUME NEW r \in Handlers, Abort(r) PROVE SeenLags'
  BY <1>30 DEF Abort
<1>31. CASE NewDay
  BY <1>31 DEF NewDay
<1>32. ASSUME NEW s \in Sessions, GrowStale(s) PROVE SeenLags'
  BY <1>32 DEF GrowStale
<1>33. CASE UNCHANGED vars
  BY <1>33 DEF vars
<1> QED
  BY <1>1, <1>2, <1>3, <1>4, <1>5, <1>6, <1>7, <1>8, <1>9, <1>10,
    <1>11, <1>12, <1>13, <1>14, <1>15, <1>16, <1>17, <1>18, <1>19,
    <1>20, <1>21, <1>22, <1>23, <1>24, <1>25, <1>26, <1>27, <1>28,
    <1>29, <1>30, <1>31, <1>32, <1>33
    DEF Next, CountdownStep, FirstRead, HandlerStep,
       ArmStep, EngageStep, GradeStep, SkipStep, FlowStep, GiveUpStep, RecordStep

(* The skips of a day are what skippedOn says they are.                     *)
LEMMA SkipsSame ==
    ASSUME UNCHANGED skippedOn
    PROVE  \A d : SkipsOn(d)' = SkipsOn(d)
BY DEF SkipsOn

(* A grant outlives everything but the end of the session it is for: a skip *)
(* that another session spends needs that one to be the active one.         *)
LEMMA SkipGrantedStep ==
    ASSUME SessionInv, [Next]_vars
    PROVE  SkipGranted'
<1> USE ConstantsAssumption, SkipsSame DEF SessionInv, TypeInv, TypeOK, HandlersOK, RowsOK, LocalsOK,
        Detached, Active, Resolved, Handlers, AuditSteps, Goto,
        Leave, Answer, Rearm, Enter, Serve, localVars, rowVars,
        ReadWhenLocked, LockedReaders, OneActive, SkipGranted
<1>1. ASSUME NEW r \in Handlers, ArmRead(r) PROVE SkipGranted'
  BY <1>1 DEF ArmRead
<1>2. ASSUME NEW r \in Handlers, ArmCreate(r) PROVE SkipGranted'
  BY <1>2 DEF ArmCreate
<1>3. ASSUME NEW r \in Handlers, ArmRefused(r) PROVE SkipGranted'
  BY <1>3 DEF ArmRefused
<1>4. ASSUME NEW s \in Sessions, Expire(s) \/ Pause(s) \/ Resume(s) \/ Shorten(s) PROVE SkipGranted'
  BY <1>4 DEF Expire, Pause, Resume, Shorten, MoveCountdown
<1>5. ASSUME NEW r \in Handlers, NEW s \in Sessions, EngageRead(r, s) PROVE SkipGranted'
  BY <1>5 DEF EngageRead
<1>6. ASSUME NEW r \in Handlers, NEW p \in Problems, ClaimDue(r, p) PROVE SkipGranted'
  BY <1>6 DEF ClaimDue, DueSession
<1>7. ASSUME NEW r \in Handlers, PickFails(r) PROVE SkipGranted'
  BY <1>7 DEF PickFails
<1>8. ASSUME NEW r \in Handlers, CountAttempt(r) PROVE SkipGranted'
  BY <1>8 DEF CountAttempt
<1>9. ASSUME NEW r \in Handlers, NEW s \in Sessions, SubmitRead(r, s) PROVE SkipGranted'
  BY <1>9 DEF SubmitRead
<1>10. ASSUME NEW r \in Handlers, JudgeRejects(r) \/ JudgeAccepts(r) PROVE SkipGranted'
  BY <1>10 DEF JudgeRejects, JudgeAccepts
<1>11. ASSUME NEW r \in Handlers, Release(r) PROVE SkipGranted'
  BY <1>11 DEF Release
<1>12. ASSUME NEW r \in Handlers, NEW s \in Sessions, SkipRead(r, s) PROVE SkipGranted'
  BY <1>12 DEF SkipRead
<1>13. ASSUME NEW r \in Handlers, SkipCount(r) PROVE SkipGranted'
  <2> USE <1>13 DEF SkipCount
  <2>1. PICK midnight \in day[r] .. today :
          IF Cardinality(SkipsSince(midnight)) < DailySkips
            THEN /\ pc' = [pc EXCEPT ![r] = "skipClaim"]
                 /\ day' = [day EXCEPT ![r] = today]
                 /\ UNCHANGED <<sid, seen, tries>>
            ELSE Answer(r)
    OBVIOUS
  <2>2. midnight \in Int /\ midnight <= today /\ today \in Days /\ today \in Int
    BY DEF Days
  <2>3. CASE Cardinality(SkipsSince(midnight)) < DailySkips
    <3>1. ASSUME NEW d \in Days, today <= d
          PROVE  Cardinality(SkipsOn(d)) < DailySkips
      <4>1. IsFiniteSet(SkipsSince(midnight))
        BY FS_Subset DEF SkipsSince
      <4>2. SkipsOn(d) \subseteq SkipsSince(midnight)
        BY <2>2, <3>1 DEF SkipsOn, SkipsSince, Days
      <4>3. /\ Cardinality(SkipsOn(d)) <= Cardinality(SkipsSince(midnight))
            /\ Cardinality(SkipsOn(d)) \in Nat
            /\ Cardinality(SkipsSince(midnight)) \in Nat
        BY <4>1, <4>2, FS_Subset, FS_CardinalityType
      <4> QED
        BY <2>3, <4>3
    <3>2. \A q \in Handlers \ {r} : pc'[q] = pc[q] /\ sid'[q] = sid[q] /\ day'[q] = day[q]
      BY <2>1, <2>3
    <3>3. day'[r] = today /\ UNCHANGED <<state, skippedOn, today>>
      BY <2>1, <2>3
    <3> QED
      BY <2>2, <3>1, <3>2, <3>3
  <2>4. CASE ~(Cardinality(SkipsSince(midnight)) < DailySkips)
    BY <2>1, <2>4
  <2> QED
    BY <2>3, <2>4
<1>14. ASSUME NEW r \in Handlers, SkipClaim(r) PROVE SkipGranted'
  <2> USE <1>14 DEF SkipClaim
  <2>1. ASSUME state[sid[r]] = "LOCKED" PROVE SkipGranted'
    <3>0. sid[r] \in Sessions /\ state' = [state EXCEPT ![sid[r]] = "BYPASSED"]
      BY <2>1
    <3>1. \A q \in Handlers : pc'[q] = "skipClaim" => q # r /\ pc[q] = "skipClaim" /\ sid'[q] = sid[q] /\ day'[q] = day[q]
      BY <2>1
    <3>2. \A q \in Handlers : pc'[q] = "skipClaim" => state'[sid[q]] # "LOCKED"
      BY <2>1, <3>0, <3>1
    <3> QED
      BY <3>1, <3>2
  <2>2. ASSUME state[sid[r]] # "LOCKED" PROVE SkipGranted'
    BY <2>2
  <2> QED
    BY <2>1, <2>2
<1>15. ASSUME NEW r \in Handlers, NEW s \in Sessions, SwapRead(r, s) PROVE SkipGranted'
  BY <1>15 DEF SwapRead
<1>16. ASSUME NEW r \in Handlers, NEW p \in Problems, Swap(r, p) PROVE SkipGranted'
  BY <1>16 DEF Swap, StillShows
<1>17. ASSUME NEW r \in Handlers, SwapFindsNothing(r) PROVE SkipGranted'
  BY <1>17 DEF SwapFindsNothing
<1>18. ASSUME NEW r \in Handlers, NEW s \in Sessions, ParticipateRead(r, s) PROVE SkipGranted'
  BY <1>18 DEF ParticipateRead
<1>19. ASSUME NEW r \in Handlers, CommitParticipation(r) PROVE SkipGranted'
  BY <1>19 DEF CommitParticipation, Entry
<1>20. ASSUME NEW r \in Handlers, NEW s \in Sessions, CancelRead(r, s) PROVE SkipGranted'
  BY <1>20 DEF CancelRead
<1>21. ASSUME NEW r \in Handlers, Cancel(r) PROVE SkipGranted'
  BY <1>21 DEF Cancel
<1>22. ASSUME NEW r \in Handlers, NEW s \in Sessions, AbandonRead(r, s) PROVE SkipGranted'
  BY <1>22 DEF AbandonRead
<1>23. ASSUME NEW r \in Handlers, AbandonLocked(r) PROVE SkipGranted'
  BY <1>23 DEF AbandonLocked
<1>24. ASSUME NEW r \in Handlers, AbandonArmed(r) PROVE SkipGranted'
  BY <1>24 DEF AbandonArmed, AbandonAttempts
<1>25. ASSUME NEW r \in Handlers, NEW s \in Sessions, ReapRead(r, s) PROVE SkipGranted'
  BY <1>25 DEF ReapRead
<1>26. ASSUME NEW r \in Handlers, Reap(r) PROVE SkipGranted'
  BY <1>26 DEF Reap
<1>27. ASSUME NEW r \in Handlers, WriteAudit(r) PROVE SkipGranted'
  BY <1>27 DEF WriteAudit, AfterAudit, AuditedProblem, Entry, OutcomeAt, AuditSteps
<1>28. ASSUME NEW r \in Handlers, AdvanceSolved(r) PROVE SkipGranted'
  BY <1>28 DEF AdvanceSolved, Moved
<1>29. ASSUME NEW r \in Handlers, AdvanceFailed(r) PROVE SkipGranted'
  BY <1>29 DEF AdvanceFailed, Moved
<1>30. ASSUME NEW r \in Handlers, Abort(r) PROVE SkipGranted'
  BY <1>30 DEF Abort
<1>31. CASE NewDay
  BY <1>31 DEF NewDay, Days
<1>32. ASSUME NEW s \in Sessions, GrowStale(s) PROVE SkipGranted'
  BY <1>32 DEF GrowStale
<1>33. CASE UNCHANGED vars
  BY <1>33 DEF vars
<1> QED
  BY <1>1, <1>2, <1>3, <1>4, <1>5, <1>6, <1>7, <1>8, <1>9, <1>10,
    <1>11, <1>12, <1>13, <1>14, <1>15, <1>16, <1>17, <1>18, <1>19,
    <1>20, <1>21, <1>22, <1>23, <1>24, <1>25, <1>26, <1>27, <1>28,
    <1>29, <1>30, <1>31, <1>32, <1>33
    DEF Next, CountdownStep, FirstRead, HandlerStep,
       ArmStep, EngageStep, GradeStep, SkipStep, FlowStep, GiveUpStep, RecordStep

(* One more element is one more at most.                                    *)
LEMMA OneMore ==
    ASSUME NEW S, NEW x, IsFiniteSet(S)
    PROVE  /\ Cardinality(S \cup {x}) \in Nat
           /\ Cardinality(S \cup {x}) <= Cardinality(S) + 1
<1>1. Cardinality(S) \in Nat
  BY FS_CardinalityType
<1>2. Cardinality(S \cup {x}) = IF x \in S THEN Cardinality(S) ELSE Cardinality(S) + 1
  BY FS_AddElement
<1> QED
  BY <1>1, <1>2

(* Only a granted skip is spent, and the grant leaves room for it.          *)
LEMMA AllowanceStep ==
    ASSUME SessionInv, [Next]_vars
    PROVE  SkipsWithinAllowance'
<1> USE ConstantsAssumption DEF SessionInv
<1>1. CASE UNCHANGED skippedOn
  BY <1>1, SkipsSame DEF SkipsWithinAllowance
<1>2. ASSUME NEW r \in Handlers, SkipClaim(r), state[sid[r]] = "LOCKED" PROVE SkipsWithinAllowance'
  <2> DEFINE s == sid[r]
  <2>0. PICK e \in day[r] .. today : skippedOn' = [skippedOn EXCEPT ![s] = e]
    BY <1>2 DEF SkipClaim
  <2>1. s \in Sessions /\ e \in Days /\ Cardinality(SkipsOn(e)) < DailySkips
    BY <1>2 DEF SkipClaim, SkipGranted, TypeInv, LocalsOK, Detached, TypeOK, HandlersOK, RowsOK, Days
  <2>2. skippedOn' = [skippedOn EXCEPT ![s] = e] /\ skippedOn \in [Sessions -> Days \cup {NoDay}]
    BY <2>0 DEF TypeInv, TypeOK, RowsOK
  <2> SUFFICES ASSUME NEW d \in Days PROVE Cardinality(SkipsOn(d)') <= DailySkips
    BY DEF SkipsWithinAllowance
  <2>3. IsFiniteSet(SkipsOn(d))
    BY FS_Subset DEF SkipsOn
  <2>4. Cardinality(SkipsOn(d)) \in Nat /\ Cardinality(SkipsOn(d)) <= DailySkips
    BY <2>3, FS_CardinalityType DEF SkipsWithinAllowance
  <2>5. CASE d = e
    <3>0. \A t \in Sessions : skippedOn'[t] = d <=> t = s \/ skippedOn[t] = d
      BY <2>1, <2>2, <2>5
    <3>1. SkipsOn(d)' = SkipsOn(d) \cup {s}
      BY <2>1, <3>0 DEF SkipsOn
    <3>2. /\ Cardinality(SkipsOn(d) \cup {s}) \in Nat
          /\ Cardinality(SkipsOn(d) \cup {s}) <= Cardinality(SkipsOn(d)) + 1
      BY ONLY <2>3, OneMore
    <3> QED
      BY <2>1, <2>4, <2>5, <3>1, <3>2
  <2>6. CASE d # e
    <3>1. SkipsOn(d)' \subseteq SkipsOn(d)
      BY <2>1, <2>2, <2>6 DEF SkipsOn
    <3>2. Cardinality(SkipsOn(d)') <= Cardinality(SkipsOn(d)) /\ Cardinality(SkipsOn(d)') \in Nat
      BY <2>3, <3>1, FS_Subset, FS_CardinalityType
    <3> QED
      BY <2>4, <3>2
  <2> QED
    BY <2>5, <2>6
<1>3. UNCHANGED skippedOn \/ \E r \in Handlers : SkipClaim(r) /\ state[sid[r]] = "LOCKED"
  BY DEF Next, CountdownStep, FirstRead, HandlerStep,  ArmStep, EngageStep,
         GradeStep, SkipStep, FlowStep, GiveUpStep, RecordStep,
         rowVars, ArmRead, ArmCreate, ArmRefused, Expire, Pause,
         Resume, Shorten, MoveCountdown, EngageRead, ClaimDue,
         PickFails, CountAttempt, SubmitRead, JudgeRejects,
         JudgeAccepts, Release, SkipRead, SkipCount, SkipClaim,
         SwapRead, Swap, SwapFindsNothing, ParticipateRead,
         CommitParticipation, CancelRead, Cancel, AbandonRead,
         AbandonLocked, AbandonArmed, ReapRead, Reap, WriteAudit,
         AdvanceSolved, AdvanceFailed, Abort, NewDay, GrowStale,
         vars
<1> QED
  BY <1>1, <1>2, <1>3

LEMMA SessionInit == Init => SessionInv
<1> SUFFICES ASSUME Init PROVE SessionInv
  OBVIOUS
<1>1. TypeInv
  BY TypeInit
<1>2. OneActive /\ Unpicked /\ ReadWhenLocked /\ SeenLags /\ SkipGranted
  BY DEF Init, OneActive, Active, Unpicked, ReadWhenLocked, LockedReaders, SeenLags, SkipGranted
<1>3. ASSUME NEW d \in Days PROVE SkipsOn(d) = {}
  BY DEF Init, SkipsOn, Days, NoDay
<1>4. DailySkips \in Nat /\ Cardinality({}) = 0
  BY ONLY FS_EmptySet, ConstantsAssumption
<1>5. SkipsWithinAllowance
  BY <1>3, <1>4 DEF SkipsWithinAllowance
<1> QED
  BY <1>1, <1>2, <1>5 DEF SessionInv

(* The invariant holds of every reachable state.                            *)
THEOREM SessionCorrect == Spec => []SessionInv
<1>1. SessionInv /\ [Next]_vars => SessionInv'
  BY TypeStep, OneActiveStep, UnpickedStep, ReadWhenLockedStep, SeenLagsStep,
     SkipGrantedStep, AllowanceStep DEF SessionInv
<1> QED
  BY <1>1, SessionInit, PTL DEF Spec

(* However skips, solves, arms and midnights interleave, no day spends more *)
(* skips than the allowance.                                                *)
THEOREM AllowanceCorrect == Spec => []SkipsWithinAllowance
BY SessionCorrect, PTL DEF SessionInv

(* How a session ended, on what, and whether it had locked, never changes.  *)
LEMMA FinalStep ==
    ASSUME TypeInv, [Next]_vars, NEW s \in Sessions, state[s] \in Resolved
    PROVE  /\ state'[s] = state[s]
           /\ shown'[s] = shown[s]
           /\ s \in lockedAt' <=> s \in lockedAt
<1> DEFINE Final == /\ state'[s] = state[s]
                    /\ shown'[s] = shown[s]
                    /\ s \in lockedAt' <=> s \in lockedAt
<1> SUFFICES Final
  OBVIOUS
<1> USE ConstantsAssumption
    DEF TypeInv, TypeOK, RowsOK, LocalsOK, Detached, Active, Resolved,
        rowVars, Serve, Handlers
<1>1. ASSUME NEW r \in Handlers, ArmRead(r) PROVE Final
  BY <1>1 DEF ArmRead
<1>2. ASSUME NEW r \in Handlers, ArmCreate(r) PROVE Final
  BY <1>2 DEF ArmCreate
<1>3. ASSUME NEW r \in Handlers, ArmRefused(r) PROVE Final
  BY <1>3 DEF ArmRefused
<1>4. ASSUME NEW t \in Sessions, Expire(t) \/ Pause(t) \/ Resume(t) \/ Shorten(t) PROVE Final
  BY <1>4 DEF Expire, Pause, Resume, Shorten, MoveCountdown
<1>5. ASSUME NEW r \in Handlers, NEW t \in Sessions, EngageRead(r, t) PROVE Final
  BY <1>5 DEF EngageRead
<1>6. ASSUME NEW r \in Handlers, NEW p \in Problems, ClaimDue(r, p) PROVE Final
  BY <1>6 DEF ClaimDue, DueSession
<1>7. ASSUME NEW r \in Handlers, PickFails(r) PROVE Final
  BY <1>7 DEF PickFails
<1>8. ASSUME NEW r \in Handlers, CountAttempt(r) PROVE Final
  BY <1>8 DEF CountAttempt
<1>9. ASSUME NEW r \in Handlers, NEW t \in Sessions, SubmitRead(r, t) PROVE Final
  BY <1>9 DEF SubmitRead
<1>10. ASSUME NEW r \in Handlers, JudgeRejects(r) \/ JudgeAccepts(r) PROVE Final
  BY <1>10 DEF JudgeRejects, JudgeAccepts
<1>11. ASSUME NEW r \in Handlers, Release(r) PROVE Final
  BY <1>11 DEF Release, StillShows
<1>12. ASSUME NEW r \in Handlers, NEW t \in Sessions, SkipRead(r, t) PROVE Final
  BY <1>12 DEF SkipRead
<1>13. ASSUME NEW r \in Handlers, SkipCount(r) PROVE Final
  BY <1>13 DEF SkipCount
<1>14. ASSUME NEW r \in Handlers, SkipClaim(r) PROVE Final
  BY <1>14 DEF SkipClaim
<1>15. ASSUME NEW r \in Handlers, NEW t \in Sessions, SwapRead(r, t) PROVE Final
  BY <1>15 DEF SwapRead
<1>16. ASSUME NEW r \in Handlers, NEW p \in Problems, Swap(r, p) PROVE Final
  BY <1>16 DEF Swap, StillShows
<1>17. ASSUME NEW r \in Handlers, SwapFindsNothing(r) PROVE Final
  BY <1>17 DEF SwapFindsNothing
<1>18. ASSUME NEW r \in Handlers, NEW t \in Sessions, ParticipateRead(r, t) PROVE Final
  BY <1>18 DEF ParticipateRead
<1>19. ASSUME NEW r \in Handlers, CommitParticipation(r) PROVE Final
  BY <1>19 DEF CommitParticipation, Entry
<1>20. ASSUME NEW r \in Handlers, NEW t \in Sessions, CancelRead(r, t) PROVE Final
  BY <1>20 DEF CancelRead
<1>21. ASSUME NEW r \in Handlers, Cancel(r) PROVE Final
  BY <1>21 DEF Cancel
<1>22. ASSUME NEW r \in Handlers, NEW t \in Sessions, AbandonRead(r, t) PROVE Final
  BY <1>22 DEF AbandonRead
<1>23. ASSUME NEW r \in Handlers, AbandonLocked(r) PROVE Final
  BY <1>23 DEF AbandonLocked
<1>24. ASSUME NEW r \in Handlers, AbandonArmed(r) PROVE Final
  BY <1>24 DEF AbandonArmed, AbandonAttempts
<1>25. ASSUME NEW r \in Handlers, NEW t \in Sessions, ReapRead(r, t) PROVE Final
  BY <1>25 DEF ReapRead
<1>26. ASSUME NEW r \in Handlers, Reap(r) PROVE Final
  BY <1>26 DEF Reap
<1>27. ASSUME NEW r \in Handlers, WriteAudit(r) PROVE Final
  BY <1>27 DEF WriteAudit, AfterAudit, AuditedProblem, Entry, OutcomeAt, AuditSteps
<1>28. ASSUME NEW r \in Handlers, AdvanceSolved(r) PROVE Final
  BY <1>28 DEF AdvanceSolved, Moved
<1>29. ASSUME NEW r \in Handlers, AdvanceFailed(r) PROVE Final
  BY <1>29 DEF AdvanceFailed, Moved
<1>30. ASSUME NEW r \in Handlers, Abort(r) PROVE Final
  BY <1>30 DEF Abort
<1>31. CASE NewDay
  BY <1>31 DEF NewDay
<1>32. ASSUME NEW t \in Sessions, GrowStale(t) PROVE Final
  BY <1>32 DEF GrowStale
<1>33. CASE UNCHANGED vars
  BY <1>33 DEF vars
<1> QED
  BY <1>1, <1>2, <1>3, <1>4, <1>5, <1>6, <1>7, <1>8, <1>9, <1>10,
    <1>11, <1>12, <1>13, <1>14, <1>15, <1>16, <1>17, <1>18, <1>19,
    <1>20, <1>21, <1>22, <1>23, <1>24, <1>25, <1>26, <1>27, <1>28,
    <1>29, <1>30, <1>31, <1>32, <1>33
    DEF Next, CountdownStep, FirstRead, HandlerStep,
       ArmStep, EngageStep, GradeStep, SkipStep, FlowStep, GiveUpStep, RecordStep

(* No step of any handler changes how a session ended, on what, or whether  *)
(* it had locked.                                                           *)
THEOREM EndingsFinal == Spec => EndingIsFinal
<1>1. TypeInv /\ [Next]_vars =>
        [\A s \in Sessions :
            state[s] \in Resolved =>
                /\ state'[s] = state[s]
                /\ shown'[s] = shown[s]
                /\ s \in lockedAt' <=> s \in lockedAt]_vars
  BY FinalStep
<1> QED
  BY <1>1, TypeInvariant, PTL DEF Spec, EndingIsFinal

(* A lock opens only for a submission read on exactly what it shows.        *)
LEMMA SolvedStep ==
    ASSUME SessionInv, [Next]_vars, NEW s \in Sessions,
           state[s] # "UNLOCKED", state'[s] = "UNLOCKED"
    PROVE  \E r \in Handlers : pc[r] = "release" /\ sid[r] = s /\ seen[r] = shown[s]
<1> DEFINE Opened == \E r \in Handlers : pc[r] = "release" /\ sid[r] = s /\ seen[r] = shown[s]
<1> SUFFICES Opened
  OBVIOUS
<1> USE ConstantsAssumption
    DEF SessionInv, TypeInv, TypeOK, RowsOK, LocalsOK, Detached, Active,
        Resolved, rowVars, Handlers
<1>1. ASSUME NEW r \in Handlers, ArmRead(r) PROVE Opened
  BY <1>1 DEF ArmRead
<1>2. ASSUME NEW r \in Handlers, ArmCreate(r) PROVE Opened
  BY <1>2 DEF ArmCreate
<1>3. ASSUME NEW r \in Handlers, ArmRefused(r) PROVE Opened
  BY <1>3 DEF ArmRefused
<1>4. ASSUME NEW t \in Sessions, Expire(t) \/ Pause(t) \/ Resume(t) \/ Shorten(t) PROVE Opened
  BY <1>4 DEF Expire, Pause, Resume, Shorten, MoveCountdown
<1>5. ASSUME NEW r \in Handlers, NEW t \in Sessions, EngageRead(r, t) PROVE Opened
  BY <1>5 DEF EngageRead
<1>6. ASSUME NEW r \in Handlers, NEW p \in Problems, ClaimDue(r, p) PROVE Opened
  BY <1>6 DEF ClaimDue, DueSession
<1>7. ASSUME NEW r \in Handlers, PickFails(r) PROVE Opened
  BY <1>7 DEF PickFails
<1>8. ASSUME NEW r \in Handlers, CountAttempt(r) PROVE Opened
  BY <1>8 DEF CountAttempt
<1>9. ASSUME NEW r \in Handlers, NEW t \in Sessions, SubmitRead(r, t) PROVE Opened
  BY <1>9 DEF SubmitRead
<1>10. ASSUME NEW r \in Handlers, JudgeRejects(r) \/ JudgeAccepts(r) PROVE Opened
  BY <1>10 DEF JudgeRejects, JudgeAccepts
<1>11. ASSUME NEW r \in Handlers, Release(r) PROVE Opened
  <2>1. CASE StillShows(r)
    <3>1. sid[r] \in Sessions /\ seen[r] = shown[sid[r]]
      BY <1>11, <2>1 DEF Release, StillShows, SeenLags, LockedReaders
    <3>2. state'[s] = "UNLOCKED" /\ state[s] # "UNLOCKED" => s = sid[r]
      BY <1>11, <2>1, <3>1 DEF Release
    <3> QED
      BY <1>11, <3>1, <3>2 DEF Release
  <2>2. CASE ~StillShows(r)
    BY <1>11, <2>2 DEF Release
  <2> QED
    BY <2>1, <2>2
<1>12. ASSUME NEW r \in Handlers, NEW t \in Sessions, SkipRead(r, t) PROVE Opened
  BY <1>12 DEF SkipRead
<1>13. ASSUME NEW r \in Handlers, SkipCount(r) PROVE Opened
  BY <1>13 DEF SkipCount
<1>14. ASSUME NEW r \in Handlers, SkipClaim(r) PROVE Opened
  BY <1>14 DEF SkipClaim
<1>15. ASSUME NEW r \in Handlers, NEW t \in Sessions, SwapRead(r, t) PROVE Opened
  BY <1>15 DEF SwapRead
<1>16. ASSUME NEW r \in Handlers, NEW p \in Problems, Swap(r, p) PROVE Opened
  BY <1>16 DEF Swap, StillShows
<1>17. ASSUME NEW r \in Handlers, SwapFindsNothing(r) PROVE Opened
  BY <1>17 DEF SwapFindsNothing
<1>18. ASSUME NEW r \in Handlers, NEW t \in Sessions, ParticipateRead(r, t) PROVE Opened
  BY <1>18 DEF ParticipateRead
<1>19. ASSUME NEW r \in Handlers, CommitParticipation(r) PROVE Opened
  BY <1>19 DEF CommitParticipation, Entry
<1>20. ASSUME NEW r \in Handlers, NEW t \in Sessions, CancelRead(r, t) PROVE Opened
  BY <1>20 DEF CancelRead
<1>21. ASSUME NEW r \in Handlers, Cancel(r) PROVE Opened
  BY <1>21 DEF Cancel
<1>22. ASSUME NEW r \in Handlers, NEW t \in Sessions, AbandonRead(r, t) PROVE Opened
  BY <1>22 DEF AbandonRead
<1>23. ASSUME NEW r \in Handlers, AbandonLocked(r) PROVE Opened
  BY <1>23 DEF AbandonLocked
<1>24. ASSUME NEW r \in Handlers, AbandonArmed(r) PROVE Opened
  BY <1>24 DEF AbandonArmed, AbandonAttempts
<1>25. ASSUME NEW r \in Handlers, NEW t \in Sessions, ReapRead(r, t) PROVE Opened
  BY <1>25 DEF ReapRead
<1>26. ASSUME NEW r \in Handlers, Reap(r) PROVE Opened
  BY <1>26 DEF Reap
<1>27. ASSUME NEW r \in Handlers, WriteAudit(r) PROVE Opened
  BY <1>27 DEF WriteAudit, AfterAudit, AuditedProblem, Entry, OutcomeAt, AuditSteps
<1>28. ASSUME NEW r \in Handlers, AdvanceSolved(r) PROVE Opened
  BY <1>28 DEF AdvanceSolved, Moved
<1>29. ASSUME NEW r \in Handlers, AdvanceFailed(r) PROVE Opened
  BY <1>29 DEF AdvanceFailed, Moved
<1>30. ASSUME NEW r \in Handlers, Abort(r) PROVE Opened
  BY <1>30 DEF Abort
<1>31. CASE NewDay
  BY <1>31 DEF NewDay
<1>32. ASSUME NEW t \in Sessions, GrowStale(t) PROVE Opened
  BY <1>32 DEF GrowStale
<1>33. CASE UNCHANGED vars
  BY <1>33 DEF vars
<1> QED
  BY <1>1, <1>2, <1>3, <1>4, <1>5, <1>6, <1>7, <1>8, <1>9, <1>10,
    <1>11, <1>12, <1>13, <1>14, <1>15, <1>16, <1>17, <1>18, <1>19,
    <1>20, <1>21, <1>22, <1>23, <1>24, <1>25, <1>26, <1>27, <1>28,
    <1>29, <1>30, <1>31, <1>32, <1>33
    DEF Next, CountdownStep, FirstRead, HandlerStep,
       ArmStep, EngageStep, GradeStep, SkipStep, FlowStep, GiveUpStep, RecordStep

(* A lock opens as solved only by a release whose submission was read on    *)
(* exactly the assignment the session still shows.                          *)
THEOREM SolvedCorrect == Spec => SolvedByWhatItShows
<1>1. SessionInv /\ [Next]_vars =>
        [\A s \in Sessions :
            state[s] # "UNLOCKED" /\ state'[s] = "UNLOCKED" =>
                \E r \in Handlers :
                    /\ pc[r] = "release"
                    /\ sid[r] = s
                    /\ seen[r] = shown[s]]_vars
  BY SolvedStep
<1> QED
  BY <1>1, SessionCorrect, PTL DEF Spec, SolvedByWhatItShows

(* Every step of the handlers is a step of the contract, or none.           *)
LEMMA ContractStep ==
    ASSUME SessionInv, [Next]_vars
    PROVE  [Contract!Next]_(Contract!vars)
<1> DEFINE Step == Contract!Next \/ UNCHANGED <<state, shown, skippedOn, today>>
<1> SUFFICES Step
  BY DEF Contract!vars
<1> USE ConstantsAssumption
    DEF SessionInv, TypeInv, TypeOK, RowsOK, LocalsOK, Detached, Active,
        rowVars
<1>1. ASSUME NEW r \in Handlers, ArmRead(r) PROVE Step
  BY <1>1 DEF ArmRead
<1>2. ASSUME NEW r \in Handlers, ArmCreate(r) PROVE Step
  <2>1. CASE ActiveSessions = {}
    <3>1. PICK s \in Sessions : state[s] = "none" /\ state' = [state EXCEPT ![s] = "ARMED"]
      BY <1>2, <2>1 DEF ArmCreate
    <3>2. \A t \in Sessions : state[t] \notin {"ARMED", "LOCKED"}
      BY <2>1 DEF ActiveSessions, Active
    <3>3. Contract!Arm(s)
      BY <1>2, <3>1, <3>2 DEF ArmCreate, Contract!Arm, Contract!Move
    <3> QED
      BY <3>3 DEF Contract!Next
  <2>2. CASE ActiveSessions # {}
    BY <1>2, <2>2 DEF ArmCreate
  <2> QED
    BY <2>1, <2>2
<1>3. ASSUME NEW r \in Handlers, ArmRefused(r) PROVE Step
  BY <1>3 DEF ArmRefused
<1>4. ASSUME NEW s \in Sessions, Expire(s) \/ Pause(s) \/ Resume(s) \/ Shorten(s) PROVE Step
  BY <1>4 DEF Expire, Pause, Resume, Shorten, MoveCountdown
<1>5. ASSUME NEW r \in Handlers, NEW s \in Sessions, EngageRead(r, s) PROVE Step
  BY <1>5 DEF EngageRead
<1>6. ASSUME NEW r \in Handlers, NEW p \in Problems, ClaimDue(r, p) PROVE Step
  <2>1. CASE DueSession(sid[r])
    <3>1. sid[r] \in Sessions /\ shown[sid[r]] = Unassigned
      BY <1>6, <2>1 DEF ClaimDue, DueSession, Unpicked
    <3>2. Contract!Lock(sid[r], p)
      BY <1>6, <2>1, <3>1
         DEF ClaimDue, DueSession, Serve, Unassigned,
             Contract!Lock, Contract!Move, Contract!Unassigned
    <3> QED
      BY <3>1, <3>2 DEF Contract!Next
  <2>2. CASE ~DueSession(sid[r])
    BY <1>6, <2>2 DEF ClaimDue
  <2> QED
    BY <2>1, <2>2
<1>7. ASSUME NEW r \in Handlers, PickFails(r) PROVE Step
  BY <1>7 DEF PickFails
<1>8. ASSUME NEW r \in Handlers, CountAttempt(r) PROVE Step
  BY <1>8 DEF CountAttempt
<1>9. ASSUME NEW r \in Handlers, NEW s \in Sessions, SubmitRead(r, s) PROVE Step
  BY <1>9 DEF SubmitRead
<1>10. ASSUME NEW r \in Handlers, JudgeRejects(r) \/ JudgeAccepts(r) PROVE Step
  BY <1>10 DEF JudgeRejects, JudgeAccepts
<1>11. ASSUME NEW r \in Handlers, Release(r) PROVE Step
  <2>1. CASE StillShows(r)
    <3>1. sid[r] \in Sessions
      BY <1>11 DEF Release
    <3>2. Contract!Solve(sid[r])
      BY <1>11, <2>1, <3>1 DEF Release, StillShows, Contract!Solve, Contract!Move
    <3> QED
      BY <3>1, <3>2 DEF Contract!Next
  <2>2. CASE ~ (StillShows(r))
    BY <1>11, <2>2 DEF Release, StillShows
  <2> QED
    BY <2>1, <2>2
<1>12. ASSUME NEW r \in Handlers, NEW s \in Sessions, SkipRead(r, s) PROVE Step
  BY <1>12 DEF SkipRead
<1>13. ASSUME NEW r \in Handlers, SkipCount(r) PROVE Step
  BY <1>13 DEF SkipCount
<1>14. ASSUME NEW r \in Handlers, SkipClaim(r) PROVE Step
  <2>1. CASE state[sid[r]] = "LOCKED"
    <3>1. PICK d \in day[r] .. today : skippedOn' = [skippedOn EXCEPT ![sid[r]] = d]
      BY <1>14, <2>1 DEF SkipClaim
    <3>2. /\ sid[r] \in Sessions /\ d \in 0 .. MaxDay /\ d <= today
          /\ Cardinality(SkipsOn(d)) < DailySkips
      BY <1>14, <2>1 DEF SkipClaim, SkipGranted, HandlersOK, Days
    <3>3. Cardinality({t \in Sessions : skippedOn[t] = d}) < DailySkips
      BY <3>2 DEF SkipsOn
    <3>4. Contract!Move(sid[r], {"LOCKED"}, "BYPASSED") /\ UNCHANGED <<shown, today>>
      BY <1>14, <2>1 DEF SkipClaim, Contract!Move
    <3>5. Contract!Skip(sid[r], d)
      BY ONLY <3>1, <3>2, <3>3, <3>4 DEF Contract!Skip, Contract!Cardinality, Cardinality
    <3> QED
      BY <3>2, <3>5 DEF Contract!Next
  <2>2. CASE state[sid[r]] # "LOCKED"
    BY <1>14, <2>2 DEF SkipClaim
  <2> QED
    BY <2>1, <2>2
<1>15. ASSUME NEW r \in Handlers, NEW s \in Sessions, SwapRead(r, s) PROVE Step
  BY <1>15 DEF SwapRead
<1>16. ASSUME NEW r \in Handlers, NEW p \in Problems, Swap(r, p) PROVE Step
  <2>1. CASE StillShows(r)
    <3>1. sid[r] \in Sessions /\ shown[sid[r]].revision < MaxRevision
      BY <1>16, <2>1 DEF Swap, StillShows
    <3>2. Contract!Swap(sid[r], p)
      BY <1>16, <2>1, <3>1 DEF Swap, StillShows, Serve, Contract!Swap
    <3> QED
      BY <3>1, <3>2 DEF Contract!Next
  <2>2. CASE ~StillShows(r)
    BY <1>16, <2>2 DEF Swap
  <2> QED
    BY <2>1, <2>2
<1>17. ASSUME NEW r \in Handlers, SwapFindsNothing(r) PROVE Step
  BY <1>17 DEF SwapFindsNothing
<1>18. ASSUME NEW r \in Handlers, NEW s \in Sessions, ParticipateRead(r, s) PROVE Step
  BY <1>18 DEF ParticipateRead
<1>19. ASSUME NEW r \in Handlers, CommitParticipation(r) PROVE Step
  <2>1. CASE state[sid[r]] = "LOCKED" /\ shown[sid[r]].revision = seen[r].revision
    <3>1. sid[r] \in Sessions
      BY <1>19 DEF CommitParticipation
    <3>2. Contract!TakePart(sid[r])
      BY <1>19, <2>1, <3>1 DEF CommitParticipation, Contract!TakePart, Contract!Move
    <3> QED
      BY <3>1, <3>2 DEF Contract!Next
  <2>2. CASE ~ (state[sid[r]] = "LOCKED" /\ shown[sid[r]].revision = seen[r].revision)
    BY <1>19, <2>2 DEF CommitParticipation
  <2> QED
    BY <2>1, <2>2
<1>20. ASSUME NEW r \in Handlers, NEW s \in Sessions, CancelRead(r, s) PROVE Step
  BY <1>20 DEF CancelRead
<1>21. ASSUME NEW r \in Handlers, Cancel(r) PROVE Step
  <2>1. CASE state[sid[r]] = "ARMED"
    <3>1. sid[r] \in Sessions
      BY <1>21 DEF Cancel
    <3>2. Contract!GiveUp(sid[r])
      BY <1>21, <2>1, <3>1 DEF Cancel, Contract!GiveUp, Contract!Move
    <3> QED
      BY <3>1, <3>2 DEF Contract!Next
  <2>2. CASE ~ (state[sid[r]] = "ARMED")
    BY <1>21, <2>2 DEF Cancel
  <2> QED
    BY <2>1, <2>2
<1>22. ASSUME NEW r \in Handlers, NEW s \in Sessions, AbandonRead(r, s) PROVE Step
  BY <1>22 DEF AbandonRead
<1>23. ASSUME NEW r \in Handlers, AbandonLocked(r) PROVE Step
  <2>1. CASE state[sid[r]] = "LOCKED"
    <3>1. sid[r] \in Sessions
      BY <1>23 DEF AbandonLocked
    <3>2. Contract!GiveUp(sid[r])
      BY <1>23, <2>1, <3>1 DEF AbandonLocked, Contract!GiveUp, Contract!Move
    <3> QED
      BY <3>1, <3>2 DEF Contract!Next
  <2>2. CASE ~ (state[sid[r]] = "LOCKED")
    BY <1>23, <2>2 DEF AbandonLocked
  <2> QED
    BY <2>1, <2>2
<1>24. ASSUME NEW r \in Handlers, AbandonArmed(r) PROVE Step
  <2>1. CASE state[sid[r]] = "ARMED"
    <3>1. sid[r] \in Sessions
      BY <1>24 DEF AbandonArmed
    <3>2. Contract!GiveUp(sid[r])
      BY <1>24, <2>1, <3>1 DEF AbandonArmed, Contract!GiveUp, Contract!Move
    <3> QED
      BY <3>1, <3>2 DEF Contract!Next
  <2>2. CASE ~ (state[sid[r]] = "ARMED")
    BY <1>24, <2>2 DEF AbandonArmed
  <2> QED
    BY <2>1, <2>2
<1>25. ASSUME NEW r \in Handlers, NEW s \in Sessions, ReapRead(r, s) PROVE Step
  BY <1>25 DEF ReapRead
<1>26. ASSUME NEW r \in Handlers, Reap(r) PROVE Step
  <2>1. CASE state[sid[r]] \in Active
    <3>1. sid[r] \in Sessions
      BY <1>26 DEF Reap, Handlers
    <3>2. Contract!GiveUp(sid[r])
      BY <1>26, <2>1, <3>1 DEF Reap, Contract!GiveUp, Contract!Move
    <3> QED
      BY <3>1, <3>2 DEF Contract!Next
  <2>2. CASE ~ (state[sid[r]] \in Active)
    BY <1>26, <2>2 DEF Reap
  <2> QED
    BY <2>1, <2>2
<1>27. ASSUME NEW r \in Handlers, WriteAudit(r) PROVE Step
  BY <1>27 DEF WriteAudit, AfterAudit, AuditedProblem, Entry, OutcomeAt, AuditSteps
<1>28. ASSUME NEW r \in Handlers, AdvanceSolved(r) PROVE Step
  BY <1>28 DEF AdvanceSolved, Moved
<1>29. ASSUME NEW r \in Handlers, AdvanceFailed(r) PROVE Step
  BY <1>29 DEF AdvanceFailed, Moved
<1>30. ASSUME NEW r \in Handlers, Abort(r) PROVE Step
  BY <1>30 DEF Abort
<1>31. CASE NewDay
  BY <1>31 DEF NewDay, Contract!NewDay, Contract!Next
<1>32. ASSUME NEW s \in Sessions, GrowStale(s) PROVE Step
  BY <1>32 DEF GrowStale
<1>33. CASE UNCHANGED vars
  BY <1>33 DEF vars
<1> QED
  BY <1>1, <1>2, <1>3, <1>4, <1>5, <1>6, <1>7, <1>8, <1>9, <1>10,
    <1>11, <1>12, <1>13, <1>14, <1>15, <1>16, <1>17, <1>18, <1>19,
    <1>20, <1>21, <1>22, <1>23, <1>24, <1>25, <1>26, <1>27, <1>28,
    <1>29, <1>30, <1>31, <1>32, <1>33
    DEF Next, CountdownStep, FirstRead, HandlerStep,
       ArmStep, EngageStep, GradeStep, SkipStep, FlowStep, GiveUpStep, RecordStep

(* The interleaved handlers implement the contract.                         *)
THEOREM Refinement == Spec => ImplementsContract
<1>1. Init => Contract!Init
  BY DEF Init, Contract!Init, Unassigned, Contract!Unassigned, NoDay, Contract!NoDay
<1>2. SessionInv /\ [Next]_vars => [Contract!Next]_(Contract!vars)
  BY ContractStep
<1> QED
  BY <1>1, <1>2, SessionCorrect, PTL DEF Spec, ImplementsContract, Contract!Spec

----------------------------------------------------------------------------
(* The records.  A handler that has won an ending owes its audit row, and  *)
(* a solve or a give-up a move of the ladder as well.  What it owes is     *)
(* still unwritten and still true, and nobody else owes it: an ending is   *)
(* won once and never changes.                                             *)
OwingSteps == AuditSteps \cup {"advanceSolved", "advanceFailed"}

OneOwes ==
    \A q, r \in Handlers :
        pc[q] \in OwingSteps /\ pc[r] \in OwingSteps /\ sid[q] = sid[r] => q = r

EndedBy(step) ==
    CASE step = "auditSolved"  -> "UNLOCKED"
      [] step = "auditSkipped" -> "BYPASSED"
      [] OTHER                 -> "ABANDONED"

Owed(r) ==
    /\ pc[r] \in AuditSteps =>
          /\ audit[sid[r]] = <<>>
          /\ state[sid[r]] = EndedBy(pc[r])
          /\ pc[r] = "auditSkipped" <=> skippedOn[sid[r]] # NoDay
    /\ pc[r] \in OwingSteps => ladder[sid[r]] = <<>>
    /\ pc[r] \in {"auditSolved", "advanceSolved"} =>
          state[sid[r]] = "UNLOCKED" /\ seen[r] = shown[sid[r]]
    /\ pc[r] \in {"auditGaveUp", "advanceFailed"} =>
          state[sid[r]] = "ABANDONED" /\ sid[r] \in lockedAt
    /\ pc[r] = "auditStopped" => sid[r] \notin lockedAt

OwedTruly == \A r \in Handlers : Owed(r)

OpenUnwritten ==
    \A s \in Sessions :
        state[s] \notin Resolved =>
            audit[s] = <<>> /\ ladder[s] = <<>> /\ skippedOn[s] = NoDay

LocksDated ==
    \A s \in Sessions :
        /\ state[s] = "LOCKED" => s \in lockedAt
        /\ state[s] \in {"none", "ARMED"} => s \notin lockedAt

RecordsInv ==
    /\ SessionInv /\ OneOwes /\ OwedTruly /\ OpenUnwritten /\ LocksDated
    /\ RecordsAgree

(* A lock is dated when it lands, and nothing else is.                     *)
LEMMA LocksDatedStep ==
    ASSUME TypeInv, LocksDated, [Next]_vars
    PROVE  LocksDated'
<1> USE DEF TypeInv, TypeOK, RowsOK, LocalsOK, Detached, Active,
        Resolved, rowVars, LocksDated, Serve
<1>1. ASSUME NEW r \in Handlers, ArmRead(r) PROVE LocksDated'
  BY <1>1 DEF ArmRead
<1>2. ASSUME NEW r \in Handlers, ArmCreate(r) PROVE LocksDated'
  BY <1>2 DEF ArmCreate
<1>3. ASSUME NEW r \in Handlers, ArmRefused(r) PROVE LocksDated'
  BY <1>3 DEF ArmRefused
<1>4. ASSUME NEW s \in Sessions, Expire(s) \/ Pause(s) \/ Resume(s) \/ Shorten(s) PROVE LocksDated'
  BY <1>4 DEF Expire, Pause, Resume, Shorten, MoveCountdown
<1>5. ASSUME NEW r \in Handlers, NEW s \in Sessions, EngageRead(r, s) PROVE LocksDated'
  BY <1>5 DEF EngageRead
<1>6. ASSUME NEW r \in Handlers, NEW p \in Problems, ClaimDue(r, p) PROVE LocksDated'
  BY <1>6 DEF ClaimDue, DueSession
<1>7. ASSUME NEW r \in Handlers, PickFails(r) PROVE LocksDated'
  BY <1>7 DEF PickFails
<1>8. ASSUME NEW r \in Handlers, CountAttempt(r) PROVE LocksDated'
  BY <1>8 DEF CountAttempt
<1>9. ASSUME NEW r \in Handlers, NEW s \in Sessions, SubmitRead(r, s) PROVE LocksDated'
  BY <1>9 DEF SubmitRead
<1>10. ASSUME NEW r \in Handlers, JudgeRejects(r) \/ JudgeAccepts(r) PROVE LocksDated'
  BY <1>10 DEF JudgeRejects, JudgeAccepts
<1>11. ASSUME NEW r \in Handlers, Release(r) PROVE LocksDated'
  BY <1>11 DEF Release
<1>12. ASSUME NEW r \in Handlers, NEW s \in Sessions, SkipRead(r, s) PROVE LocksDated'
  BY <1>12 DEF SkipRead
<1>13. ASSUME NEW r \in Handlers, SkipCount(r) PROVE LocksDated'
  BY <1>13 DEF SkipCount
<1>14. ASSUME NEW r \in Handlers, SkipClaim(r) PROVE LocksDated'
  BY <1>14 DEF SkipClaim
<1>15. ASSUME NEW r \in Handlers, NEW s \in Sessions, SwapRead(r, s) PROVE LocksDated'
  BY <1>15 DEF SwapRead
<1>16. ASSUME NEW r \in Handlers, NEW p \in Problems, Swap(r, p) PROVE LocksDated'
  BY <1>16 DEF Swap, StillShows
<1>17. ASSUME NEW r \in Handlers, SwapFindsNothing(r) PROVE LocksDated'
  BY <1>17 DEF SwapFindsNothing
<1>18. ASSUME NEW r \in Handlers, NEW s \in Sessions, ParticipateRead(r, s) PROVE LocksDated'
  BY <1>18 DEF ParticipateRead
<1>19. ASSUME NEW r \in Handlers, CommitParticipation(r) PROVE LocksDated'
  BY <1>19 DEF CommitParticipation, Entry
<1>20. ASSUME NEW r \in Handlers, NEW s \in Sessions, CancelRead(r, s) PROVE LocksDated'
  BY <1>20 DEF CancelRead
<1>21. ASSUME NEW r \in Handlers, Cancel(r) PROVE LocksDated'
  BY <1>21 DEF Cancel
<1>22. ASSUME NEW r \in Handlers, NEW s \in Sessions, AbandonRead(r, s) PROVE LocksDated'
  BY <1>22 DEF AbandonRead
<1>23. ASSUME NEW r \in Handlers, AbandonLocked(r) PROVE LocksDated'
  BY <1>23 DEF AbandonLocked
<1>24. ASSUME NEW r \in Handlers, AbandonArmed(r) PROVE LocksDated'
  BY <1>24 DEF AbandonArmed, AbandonAttempts
<1>25. ASSUME NEW r \in Handlers, NEW s \in Sessions, ReapRead(r, s) PROVE LocksDated'
  BY <1>25 DEF ReapRead
<1>26. ASSUME NEW r \in Handlers, Reap(r) PROVE LocksDated'
  BY <1>26 DEF Reap
<1>27. ASSUME NEW r \in Handlers, WriteAudit(r) PROVE LocksDated'
  BY <1>27 DEF WriteAudit, AfterAudit, AuditedProblem, Entry, OutcomeAt, AuditSteps
<1>28. ASSUME NEW r \in Handlers, AdvanceSolved(r) PROVE LocksDated'
  BY <1>28 DEF AdvanceSolved, Moved
<1>29. ASSUME NEW r \in Handlers, AdvanceFailed(r) PROVE LocksDated'
  BY <1>29 DEF AdvanceFailed, Moved
<1>30. ASSUME NEW r \in Handlers, Abort(r) PROVE LocksDated'
  BY <1>30 DEF Abort
<1>31. CASE NewDay
  BY <1>31 DEF NewDay
<1>32. ASSUME NEW s \in Sessions, GrowStale(s) PROVE LocksDated'
  BY <1>32 DEF GrowStale
<1>33. CASE UNCHANGED vars
  BY <1>33 DEF vars
<1> QED
  BY <1>1, <1>2, <1>3, <1>4, <1>5, <1>6, <1>7, <1>8, <1>9, <1>10,
    <1>11, <1>12, <1>13, <1>14, <1>15, <1>16, <1>17, <1>18, <1>19,
    <1>20, <1>21, <1>22, <1>23, <1>24, <1>25, <1>26, <1>27, <1>28,
    <1>29, <1>30, <1>31, <1>32, <1>33
    DEF Next, CountdownStep, FirstRead, HandlerStep,
       ArmStep, EngageStep, GradeStep, SkipStep, FlowStep, GiveUpStep, RecordStep

(* For the records there are few kinds of steps: those that touch none of  *)
(* them nor end a lock, one that wins an ending, one that takes part, and  *)
(* those that write.                                                       *)
Quiet ==
    /\ UNCHANGED <<audit, ladder, skippedOn>>
    /\ \A s \in Sessions :
          /\ state[s] \in Resolved =>
                /\ state'[s] = state[s] /\ shown'[s] = shown[s]
                /\ s \in lockedAt' <=> s \in lockedAt
          /\ state[s] \notin Resolved =>
                \/ state'[s] \notin Resolved
                \/ state'[s] = "ABANDONED" /\ s \notin lockedAt'
    /\ \A r \in Handlers :
          /\ pc'[r] \in OwingSteps => pc[r] \in OwingSteps
          /\ pc[r] \in OwingSteps => pc'[r] = pc[r] /\ sid'[r] = sid[r] /\ seen'[r] = seen[r]

Won(r, step) ==
    /\ pc[r] \notin OwingSteps
    /\ sid[r] \in Sessions
    /\ state[sid[r]] \in Active
    /\ step = "auditSolved" => seen[r] = shown[sid[r]]
    /\ step = "auditGaveUp" => state[sid[r]] = "LOCKED"
    /\ step = "auditStopped" => state[sid[r]] = "ARMED"
    /\ state' = [state EXCEPT ![sid[r]] = EndedBy(step)]
    /\ IF step = "auditSkipped"
       THEN \E d \in Days : skippedOn' = [skippedOn EXCEPT ![sid[r]] = d]
       ELSE UNCHANGED skippedOn
    /\ Goto(r, step)
    /\ UNCHANGED <<shown, lockedAt, audit, ladder>>

TookPart(r) ==
    /\ pc[r] = "participate"
    /\ sid[r] \in Sessions
    /\ state[sid[r]] = "LOCKED"
    /\ state' = [state EXCEPT ![sid[r]] = "BYPASSED"]
    /\ audit' = [audit EXCEPT ![sid[r]] =
                    Append(@, Entry("PARTICIPATED", shown[sid[r]].problem))]
    /\ Answer(r)
    /\ UNCHANGED <<shown, lockedAt, skippedOn, ladder>>

Touches(r) ==
    \/ \E step \in AuditSteps : Won(r, step)
    \/ TookPart(r)
    \/ WriteAudit(r) \/ AdvanceSolved(r) \/ AdvanceFailed(r)
    \/ Abort(r)

LEMMA RecordKinds ==
    ASSUME SessionInv, LocksDated, [Next]_vars
    PROVE  Quiet \/ \E r \in Handlers : Touches(r)
<1> DEFINE Kind == Quiet \/ \E r \in Handlers : Touches(r)
<1> SUFFICES Kind
  OBVIOUS
<1> USE ConstantsAssumption
    DEF SessionInv, TypeInv, TypeOK, RowsOK, HandlersOK, LocalsOK, Detached, Active,
        Resolved, rowVars, recordVars, localVars, Serve, Goto, Leave, Answer, Rearm, Enter,
        OwingSteps, AuditSteps, Quiet
<1>1. ASSUME NEW r \in Handlers, ArmRead(r) PROVE Kind
  BY <1>1 DEF ArmRead
<1>2. ASSUME NEW r \in Handlers, ArmCreate(r) PROVE Kind
  BY <1>2 DEF ArmCreate
<1>3. ASSUME NEW r \in Handlers, ArmRefused(r) PROVE Kind
  BY <1>3 DEF ArmRefused
<1>4. ASSUME NEW s \in Sessions, Expire(s) \/ Pause(s) \/ Resume(s) \/ Shorten(s) PROVE Kind
  BY <1>4 DEF Expire, Pause, Resume, Shorten, MoveCountdown
<1>5. ASSUME NEW r \in Handlers, NEW s \in Sessions, EngageRead(r, s) PROVE Kind
  BY <1>5 DEF EngageRead
<1>6. ASSUME NEW r \in Handlers, NEW p \in Problems, ClaimDue(r, p) PROVE Kind
  BY <1>6 DEF ClaimDue, DueSession
<1>7. ASSUME NEW r \in Handlers, PickFails(r) PROVE Kind
  BY <1>7 DEF PickFails
<1>8. ASSUME NEW r \in Handlers, CountAttempt(r) PROVE Kind
  BY <1>8 DEF CountAttempt
<1>9. ASSUME NEW r \in Handlers, NEW s \in Sessions, SubmitRead(r, s) PROVE Kind
  BY <1>9 DEF SubmitRead
<1>10. ASSUME NEW r \in Handlers, JudgeRejects(r) \/ JudgeAccepts(r) PROVE Kind
  BY <1>10 DEF JudgeRejects, JudgeAccepts
<1>11. ASSUME NEW r \in Handlers, Release(r) PROVE Kind
  <2>1. CASE StillShows(r)
    <3>1. Won(r, "auditSolved")
      BY <1>11, <2>1 DEF Release, StillShows, SeenLags, LockedReaders, Won, EndedBy
    <3> QED
      BY <3>1 DEF Touches
  <2>2. CASE ~(StillShows(r))
    BY <1>11, <2>2 DEF Release
  <2> QED
    BY <2>1, <2>2
<1>12. ASSUME NEW r \in Handlers, NEW s \in Sessions, SkipRead(r, s) PROVE Kind
  BY <1>12 DEF SkipRead
<1>13. ASSUME NEW r \in Handlers, SkipCount(r) PROVE Kind
  BY <1>13 DEF SkipCount
<1>14. ASSUME NEW r \in Handlers, SkipClaim(r) PROVE Kind
  <2>1. CASE state[sid[r]] = "LOCKED"
    <3>1. PICK d \in day[r] .. today : skippedOn' = [skippedOn EXCEPT ![sid[r]] = d]
      BY <1>14, <2>1 DEF SkipClaim
    <3>2. d \in Days
      BY <3>1 DEF Days
    <3>3. Won(r, "auditSkipped")
      BY <1>14, <2>1, <3>1, <3>2 DEF SkipClaim, Won, EndedBy
    <3> QED
      BY <3>3 DEF Touches
  <2>2. CASE ~(state[sid[r]] = "LOCKED")
    BY <1>14, <2>2 DEF SkipClaim
  <2> QED
    BY <2>1, <2>2
<1>15. ASSUME NEW r \in Handlers, NEW s \in Sessions, SwapRead(r, s) PROVE Kind
  BY <1>15 DEF SwapRead
<1>16. ASSUME NEW r \in Handlers, NEW p \in Problems, Swap(r, p) PROVE Kind
  BY <1>16 DEF Swap, StillShows
<1>17. ASSUME NEW r \in Handlers, SwapFindsNothing(r) PROVE Kind
  BY <1>17 DEF SwapFindsNothing
<1>18. ASSUME NEW r \in Handlers, NEW s \in Sessions, ParticipateRead(r, s) PROVE Kind
  BY <1>18 DEF ParticipateRead
<1>19. ASSUME NEW r \in Handlers, CommitParticipation(r) PROVE Kind
  <2>1. CASE state[sid[r]] = "LOCKED" /\ shown[sid[r]].revision = seen[r].revision
    <3>1. seen[r] = shown[sid[r]]
      BY <1>19, <2>1 DEF CommitParticipation, SeenLags, LockedReaders
    <3>2. TookPart(r)
      BY <1>19, <2>1, <3>1 DEF CommitParticipation, TookPart
    <3> QED
      BY <3>2 DEF Touches
  <2>2. CASE ~(state[sid[r]] = "LOCKED" /\ shown[sid[r]].revision = seen[r].revision)
    BY <1>19, <2>2 DEF CommitParticipation
  <2> QED
    BY <2>1, <2>2
<1>20. ASSUME NEW r \in Handlers, NEW s \in Sessions, CancelRead(r, s) PROVE Kind
  BY <1>20 DEF CancelRead
<1>21. ASSUME NEW r \in Handlers, Cancel(r) PROVE Kind
  BY <1>21 DEF Cancel, LocksDated
<1>22. ASSUME NEW r \in Handlers, NEW s \in Sessions, AbandonRead(r, s) PROVE Kind
  BY <1>22 DEF AbandonRead
<1>23. ASSUME NEW r \in Handlers, AbandonLocked(r) PROVE Kind
  <2>1. CASE state[sid[r]] = "LOCKED"
    <3>1. Won(r, "auditGaveUp")
      BY <1>23, <2>1 DEF AbandonLocked, Won, EndedBy
    <3> QED
      BY <3>1 DEF Touches
  <2>2. CASE ~(state[sid[r]] = "LOCKED")
    BY <1>23, <2>2 DEF AbandonLocked
  <2> QED
    BY <2>1, <2>2
<1>24. ASSUME NEW r \in Handlers, AbandonArmed(r) PROVE Kind
  <2>1. CASE state[sid[r]] = "ARMED"
    <3>1. Won(r, "auditStopped")
      BY <1>24, <2>1 DEF AbandonArmed, Won, EndedBy
    <3> QED
      BY <3>1 DEF Touches
  <2>2. CASE ~(state[sid[r]] = "ARMED")
    BY <1>24, <2>2 DEF AbandonArmed, AbandonAttempts
  <2> QED
    BY <2>1, <2>2
<1>25. ASSUME NEW r \in Handlers, NEW s \in Sessions, ReapRead(r, s) PROVE Kind
  BY <1>25 DEF ReapRead
<1>26. ASSUME NEW r \in Handlers, Reap(r) PROVE Kind
  <2>1. CASE state[sid[r]] \in Active
    <3>1. Won(r, "auditReaped")
      BY <1>26, <2>1 DEF Reap, Won, EndedBy
    <3> QED
      BY <3>1 DEF Touches
  <2>2. CASE ~(state[sid[r]] \in Active)
    BY <1>26, <2>2 DEF Reap
  <2> QED
    BY <2>1, <2>2
<1>27. ASSUME NEW r \in Handlers, WriteAudit(r) PROVE Kind
  BY <1>27 DEF Touches
<1>28. ASSUME NEW r \in Handlers, AdvanceSolved(r) PROVE Kind
  BY <1>28 DEF Touches
<1>29. ASSUME NEW r \in Handlers, AdvanceFailed(r) PROVE Kind
  BY <1>29 DEF Touches
<1>30. ASSUME NEW r \in Handlers, Abort(r) PROVE Kind
  BY <1>30 DEF Touches
<1>31. CASE NewDay
  BY <1>31 DEF NewDay
<1>32. ASSUME NEW s \in Sessions, GrowStale(s) PROVE Kind
  BY <1>32 DEF GrowStale
<1>33. CASE UNCHANGED vars
  BY <1>33 DEF vars
<1> QED
  BY <1>1, <1>2, <1>3, <1>4, <1>5, <1>6, <1>7, <1>8, <1>9, <1>10,
    <1>11, <1>12, <1>13, <1>14, <1>15, <1>16, <1>17, <1>18, <1>19,
    <1>20, <1>21, <1>22, <1>23, <1>24, <1>25, <1>26, <1>27, <1>28,
    <1>29, <1>30, <1>31, <1>32, <1>33
    DEF Next, CountdownStep, FirstRead, HandlerStep,
       ArmStep, EngageStep, GradeStep, SkipStep, FlowStep, GiveUpStep, RecordStep

(* Whoever owes, owes for a session that has ended; so who wins an ending  *)
(* is the only one to owe for it.                                          *)
LEMMA OwingEnded ==
    ASSUME RecordsInv
    PROVE  /\ \A q \in Handlers :
                 pc[q] \in OwingSteps => sid[q] \in Sessions /\ state[sid[q]] \in Resolved
           /\ \A r \in Handlers, step \in AuditSteps :
                 Won(r, step) => \A q \in Handlers :
                                    pc[q] \in OwingSteps => q # r /\ sid[q] # sid[r]
           /\ \A r \in Handlers :
                 TookPart(r) => \A q \in Handlers :
                                    pc[q] \in OwingSteps => q # r /\ sid[q] # sid[r]
<1>1. \A q \in Handlers : pc[q] \in OwingSteps => sid[q] \in Sessions /\ state[sid[q]] \in Resolved
  BY DEF RecordsInv, SessionInv, TypeInv, LocalsOK, Detached, OwedTruly, Owed, OwingSteps,
         AuditSteps, EndedBy, Resolved
<1> QED
  BY <1>1 DEF Won, TookPart, Active, Resolved, OwingSteps, AuditSteps

(* What a handler keeps while another steps, and what its own step does.   *)
LEMMA OwnLocals ==
    ASSUME TypeInv, NEW r \in Handlers, Touches(r)
    PROVE  /\ \A q \in Handlers \ {r} :
                 pc'[q] = pc[q] /\ sid'[q] = sid[q] /\ seen'[q] = seen[q]
           /\ \A step \in AuditSteps :
                 Won(r, step) => pc'[r] = step /\ sid'[r] = sid[r] /\ seen'[r] = seen[r]
           /\ WriteAudit(r) /\ pc'[r] \in OwingSteps =>
                 /\ sid'[r] = sid[r] /\ seen'[r] = seen[r]
                 /\ \/ pc[r] = "auditSolved" /\ pc'[r] = "advanceSolved"
                    \/ pc[r] = "auditGaveUp" /\ pc'[r] = "advanceFailed"
           /\ TookPart(r) \/ AdvanceSolved(r) \/ AdvanceFailed(r) \/ Abort(r) =>
                 pc'[r] \notin OwingSteps
<1> USE DEF TypeInv, TypeOK, HandlersOK, Goto, Leave, Answer, Rearm, localVars,
        OwingSteps, AuditSteps
<1>1. ASSUME NEW step \in AuditSteps, Won(r, step)
      PROVE  /\ \A q \in Handlers \ {r} :
                   pc'[q] = pc[q] /\ sid'[q] = sid[q] /\ seen'[q] = seen[q]
             /\ pc'[r] = step /\ sid'[r] = sid[r] /\ seen'[r] = seen[r]
  BY <1>1 DEF Won
<1>2. ASSUME WriteAudit(r)
      PROVE  /\ \A q \in Handlers \ {r} :
                   pc'[q] = pc[q] /\ sid'[q] = sid[q] /\ seen'[q] = seen[q]
             /\ pc'[r] \in OwingSteps =>
                   /\ sid'[r] = sid[r] /\ seen'[r] = seen[r]
                   /\ \/ pc[r] = "auditSolved" /\ pc'[r] = "advanceSolved"
                      \/ pc[r] = "auditGaveUp" /\ pc'[r] = "advanceFailed"
  BY <1>2 DEF WriteAudit, AfterAudit
<1>3. ASSUME TookPart(r) \/ AdvanceSolved(r) \/ AdvanceFailed(r) \/ Abort(r)
      PROVE  /\ \A q \in Handlers \ {r} :
                   pc'[q] = pc[q] /\ sid'[q] = sid[q] /\ seen'[q] = seen[q]
             /\ pc'[r] \in {"idle", "armRead"}
  BY <1>3 DEF TookPart, AdvanceSolved, AdvanceFailed, Abort
<1>4. \A step \in AuditSteps :
         Won(r, step) => pc'[r] = step /\ sid'[r] = sid[r] /\ seen'[r] = seen[r]
  BY <1>1
<1>5. TookPart(r) \/ AdvanceSolved(r) \/ AdvanceFailed(r) \/ Abort(r) => pc'[r] \notin OwingSteps
  BY <1>3
<1>6. \A q \in Handlers \ {r} : pc'[q] = pc[q] /\ sid'[q] = sid[q] /\ seen'[q] = seen[q]
  BY ONLY <1>1, <1>2, <1>3, Touches(r) DEF Touches
<1> QED
  BY ONLY <1>2, <1>4, <1>5, <1>6

(* What a step that touches the records does to a session: another's is    *)
(* left alone, but for its handler's own.                                  *)
LEMMA OwnSession ==
    ASSUME TypeInv, NEW r \in Handlers, Touches(r), NEW s \in Sessions
    PROVE  /\ shown'[s] = shown[s] /\ lockedAt' = lockedAt
           /\ s # sid[r] \/ Abort(r) => /\ state'[s] = state[s] /\ skippedOn'[s] = skippedOn[s]
                                        /\ audit'[s] = audit[s] /\ ladder'[s] = ladder[s]
<1> USE DEF TypeInv, TypeOK, RowsOK, RecordsOK, rowVars, recordVars
<1>1. CASE \E step \in AuditSteps : Won(r, step)
  BY <1>1 DEF Won, Abort
<1>2. CASE TookPart(r)
  BY <1>2 DEF TookPart, Abort
<1>3. CASE WriteAudit(r)
  BY <1>3 DEF WriteAudit, Abort
<1>4. CASE AdvanceSolved(r) \/ AdvanceFailed(r)
  BY <1>4 DEF AdvanceSolved, AdvanceFailed, Abort
<1>5. CASE Abort(r)
  BY <1>5 DEF Abort
<1> QED
  BY <1>1, <1>2, <1>3, <1>4, <1>5 DEF Touches

LEMMA OneOwesStep ==
    ASSUME RecordsInv, Quiet \/ \E r \in Handlers : Touches(r)
    PROVE  OneOwes'
<1>1. CASE Quiet
  BY <1>1 DEF Quiet, RecordsInv, OneOwes
<1>2. ASSUME NEW r \in Handlers, Touches(r) PROVE OneOwes'
  <2>1. \A p, q \in Handlers \ {r} :
           pc'[p] \in OwingSteps /\ pc'[q] \in OwingSteps /\ sid'[p] = sid'[q] => p = q
    BY <1>2, OwnLocals DEF RecordsInv, SessionInv, OneOwes
  <2>2. \A q \in Handlers \ {r} :
           pc'[r] \in OwingSteps /\ pc'[q] \in OwingSteps => sid'[r] # sid'[q]
    <3> SUFFICES ASSUME NEW q \in Handlers \ {r}, pc'[r] \in OwingSteps, pc'[q] \in OwingSteps
                 PROVE  sid'[r] # sid'[q]
      OBVIOUS
    <3>1. pc[q] \in OwingSteps /\ sid'[q] = sid[q] /\ sid'[r] = sid[r]
      BY <1>2, OwnLocals DEF RecordsInv, SessionInv, Touches
    <3>2. CASE \E step \in AuditSteps : Won(r, step)
      BY <3>1, <3>2, OwingEnded
    <3>3. CASE WriteAudit(r)
      BY <3>1, <3>3 DEF WriteAudit, RecordsInv, OneOwes, OwingSteps
    <3> QED
      BY <1>2, <3>2, <3>3, OwnLocals DEF RecordsInv, SessionInv, Touches
  <2> QED
    BY <2>1, <2>2 DEF OneOwes
<1> QED
  BY <1>1, <1>2

LEMMA OpenUnwrittenStep ==
    ASSUME RecordsInv, Quiet \/ \E r \in Handlers : Touches(r)
    PROVE  OpenUnwritten'
<1> USE DEF RecordsInv, SessionInv, TypeInv, TypeOK, RowsOK, RecordsOK, OpenUnwritten,
        OwingSteps, Active, Resolved, AuditSteps, rowVars
<1>1. CASE Quiet
  BY <1>1 DEF Quiet
<1>2. ASSUME NEW r \in Handlers, NEW step \in AuditSteps, Won(r, step) PROVE OpenUnwritten'
  BY <1>2 DEF Won, EndedBy
<1>3. ASSUME NEW r \in Handlers, TookPart(r) PROVE OpenUnwritten'
  BY <1>3 DEF TookPart
<1>4. ASSUME NEW r \in Handlers, WriteAudit(r) PROVE OpenUnwritten'
  BY <1>4, OwingEnded DEF WriteAudit
<1>5. ASSUME NEW r \in Handlers, AdvanceSolved(r) \/ AdvanceFailed(r) PROVE OpenUnwritten'
  BY <1>5, OwingEnded DEF AdvanceSolved, AdvanceFailed
<1>6. ASSUME NEW r \in Handlers, Abort(r) PROVE OpenUnwritten'
  BY <1>6 DEF Abort, recordVars
<1> QED
  BY <1>1, <1>2, <1>3, <1>4, <1>5, <1>6 DEF Touches

(* What others owe is not touched by who wins an ending or writes.         *)
LEMMA OwedTrulyStep ==
    ASSUME RecordsInv, Quiet \/ \E r \in Handlers : Touches(r)
    PROVE  OwedTruly'
<1> SUFFICES ASSUME NEW q \in Handlers, pc'[q] \in OwingSteps PROVE Owed(q)'
  BY DEF OwedTruly, Owed, OwingSteps, AuditSteps
<1> USE DEF RecordsInv, OwedTruly
<1>1. CASE Quiet
  <2>1. /\ pc'[q] = pc[q] /\ sid'[q] = sid[q] /\ seen'[q] = seen[q]
        /\ sid[q] \in Sessions /\ state[sid[q]] \in Resolved /\ Owed(q)
    BY <1>1, OwingEnded DEF Quiet
  <2>2. /\ state'[sid[q]] = state[sid[q]] /\ shown'[sid[q]] = shown[sid[q]]
        /\ sid[q] \in lockedAt' <=> sid[q] \in lockedAt
        /\ audit' = audit /\ ladder' = ladder /\ skippedOn' = skippedOn
    BY <1>1, <2>1 DEF Quiet
  <2> QED
    BY ONLY <2>1, <2>2 DEF Owed
<1>2. ASSUME NEW r \in Handlers, Touches(r), r # q PROVE Owed(q)'
  <2>1. /\ pc'[q] = pc[q] /\ sid'[q] = sid[q] /\ seen'[q] = seen[q]
        /\ sid[q] \in Sessions /\ Owed(q) /\ pc[q] \in OwingSteps
    BY <1>2, OwnLocals, OwingEnded DEF SessionInv
  <2>2. sid[q] # sid[r] \/ Abort(r)
    BY <1>2, <2>1, OwingEnded
       DEF Touches, WriteAudit, AdvanceSolved, AdvanceFailed, OneOwes, OwingSteps
  <2>3. /\ shown'[sid[q]] = shown[sid[q]] /\ lockedAt' = lockedAt
        /\ state'[sid[q]] = state[sid[q]] /\ skippedOn'[sid[q]] = skippedOn[sid[q]]
        /\ audit'[sid[q]] = audit[sid[q]] /\ ladder'[sid[q]] = ladder[sid[q]]
    BY <1>2, <2>1, <2>2, OwnSession DEF SessionInv
  <2> QED
    BY ONLY <2>1, <2>3 DEF Owed
<1>3. ASSUME NEW step \in AuditSteps, Won(q, step) PROVE Owed(q)'
  <2>1. pc'[q] = step /\ sid'[q] = sid[q] /\ seen'[q] = seen[q] /\ shown'[sid[q]] = shown[sid[q]]
    BY <1>3, OwnLocals, OwnSession DEF SessionInv, Touches, Won
  <2>2. /\ sid[q] \in Sessions /\ state[sid[q]] \in Active /\ lockedAt' = lockedAt
        /\ step = "auditSolved" => seen[q] = shown[sid[q]]
        /\ step = "auditGaveUp" => sid[q] \in lockedAt
        /\ step = "auditStopped" => sid[q] \notin lockedAt
        /\ audit' = audit /\ ladder' = ladder
    BY <1>3 DEF Won, LocksDated
  <2>3. state'[sid[q]] = EndedBy(step)
    BY <1>3 DEF Won, SessionInv, TypeInv, TypeOK, RowsOK
  <2>4. audit[sid[q]] = <<>> /\ ladder[sid[q]] = <<>> /\ skippedOn[sid[q]] = NoDay
    BY <2>2 DEF OpenUnwritten, Active, Resolved
  <2>5. step = "auditSkipped" <=> skippedOn'[sid[q]] # NoDay
    BY <1>3, <2>2, <2>4, ConstantsAssumption
       DEF Won, SessionInv, TypeInv, TypeOK, RowsOK, Days, NoDay
  <2> QED
    BY ONLY <1>3, <2>1, <2>2, <2>3, <2>4, <2>5 DEF Owed, EndedBy, AuditSteps, OwingSteps
<1>4. CASE WriteAudit(q)
  <2>1. /\ sid'[q] = sid[q] /\ seen'[q] = seen[q]
        /\ \/ pc[q] = "auditSolved" /\ pc'[q] = "advanceSolved"
           \/ pc[q] = "auditGaveUp" /\ pc'[q] = "advanceFailed"
    BY <1>4, OwnLocals DEF SessionInv, Touches
  <2>2. UNCHANGED <<rowVars, ladder>> /\ Owed(q)
    BY <1>4 DEF WriteAudit
  <2> QED
    BY ONLY <2>1, <2>2 DEF Owed, AuditSteps, OwingSteps, rowVars
<1> QED
  BY <1>1, <1>2, <1>3, <1>4, OwnLocals DEF Touches, SessionInv

(* A log with one row.                                                     *)
LEMMA OneRow ==
    ASSUME NEW e
    PROVE  /\ Append(<<>>, e) # <<>>
           /\ Len(Append(<<>>, e)) <= 1
           /\ \A i \in DOMAIN Append(<<>>, e) : Append(<<>>, e)[i] = e
OBVIOUS

(* A step that leaves a session's records alone leaves them true of it.    *)
LEMMA KeptStep ==
    ASSUME RecordsInv, [Next]_vars, NEW s \in Sessions, skippedOn'[s] = skippedOn[s]
    PROVE  /\ audit'[s] = audit[s] =>
                 /\ Len(audit'[s]) <= 1
                 /\ \A i \in DOMAIN audit'[s] : AuditAgrees(s, audit[s][i])'
           /\ ladder'[s] = ladder[s] =>
                 /\ Len(ladder'[s]) <= 1
                 /\ \A i \in DOMAIN ladder'[s] :
                       /\ ladder'[s][i].solved <=> state'[s] = "UNLOCKED"
                       /\ ~ladder'[s][i].solved => state'[s] = "ABANDONED" /\ s \in lockedAt'
                       /\ ladder'[s][i].adjusted = shown'[s].adjusted
<1>1. CASE state[s] \in Resolved
  <2>1. state'[s] = state[s] /\ shown'[s] = shown[s] /\ (s \in lockedAt' <=> s \in lockedAt)
    BY <1>1, FinalStep DEF RecordsInv, SessionInv
  <2> QED
    BY <2>1 DEF RecordsInv, RecordsAgree, AuditTellsTheEnding, LadderHearsEachEndingOnce,
                AuditAgrees
<1>2. CASE state[s] \notin Resolved
  BY <1>2 DEF RecordsInv, OpenUnwritten
<1> QED
  BY <1>1, <1>2

LEMMA AuditStep ==
    ASSUME RecordsInv, [Next]_vars
    PROVE  AuditTellsTheEnding'
<1> SUFFICES ASSUME NEW s \in Sessions
             PROVE  /\ Len(audit'[s]) <= 1
                    /\ \A i \in DOMAIN audit'[s] : AuditAgrees(s, audit[s][i])'
  BY DEF AuditTellsTheEnding
<1> DEFINE Fine == /\ Len(audit'[s]) <= 1
                   /\ \A i \in DOMAIN audit'[s] : AuditAgrees(s, audit[s][i])'
<1> SUFFICES Fine
  OBVIOUS
<1>1. audit'[s] = audit[s] /\ skippedOn'[s] = skippedOn[s] => Fine
  BY KeptStep
<1>2. audit'[s] = <<>> => Fine
  OBVIOUS
<1>3. ASSUME NEW e, audit[s] = <<>>, audit'[s] = Append(audit[s], e), AuditAgrees(s, e)'
      PROVE  Fine
  BY <1>3, OneRow DEF AuditAgrees
<1>4. Quiet \/ \E r \in Handlers : Touches(r)
  BY RecordKinds DEF RecordsInv
<1>5. CASE Quiet
  BY <1>1, <1>5 DEF Quiet
<1>6. ASSUME NEW r \in Handlers, Touches(r), s # sid[r] \/ Abort(r) PROVE Fine
  BY <1>1, <1>6, OwnSession DEF RecordsInv, SessionInv
<1>7. ASSUME NEW r \in Handlers, NEW step \in AuditSteps, Won(r, step), s = sid[r] PROVE Fine
  BY <1>2, <1>7 DEF Won, RecordsInv, OpenUnwritten, Active, Resolved
<1>8. ASSUME NEW r \in Handlers, TookPart(r), s = sid[r] PROVE Fine
  <2> DEFINE e == Entry("PARTICIPATED", shown[s].problem)
  <2>1. audit[s] = <<>> /\ skippedOn[s] = NoDay
    BY <1>8 DEF TookPart, RecordsInv, OpenUnwritten, Resolved
  <2>2. audit'[s] = Append(audit[s], e) /\ state'[s] = "BYPASSED"
        /\ shown' = shown /\ skippedOn' = skippedOn
    BY <1>8 DEF TookPart, RecordsInv, SessionInv, TypeInv, TypeOK, RowsOK, RecordsOK
  <2>3. AuditAgrees(s, e)'
    BY <2>1, <2>2 DEF AuditAgrees, EndingOf, Entry
  <2> QED
    BY <1>3, <2>1, <2>2, <2>3
<1>9. ASSUME NEW r \in Handlers, WriteAudit(r), s = sid[r] PROVE Fine
  <2> DEFINE e == Entry(OutcomeAt[pc[r]], AuditedProblem(r))
  <2>1. Owed(r) /\ pc[r] \in AuditSteps /\ UNCHANGED rowVars
    BY <1>9 DEF WriteAudit, RecordsInv, OwedTruly
  <2>2. audit[s] = <<>>
    BY <1>9, <2>1 DEF Owed
  <2>3. audit'[s] = Append(audit[s], e) \/ audit'[s] = audit[s]
    BY <1>9 DEF WriteAudit, RecordsInv, SessionInv, TypeInv, TypeOK, RecordsOK
  <2>4. /\ state'[s] = EndingOf(OutcomeAt[pc[r]])
        /\ OutcomeAt[pc[r]] = "SKIPPED" <=> skippedOn'[s] # NoDay
        /\ OutcomeAt[pc[r]] = "SKIPPED" <=> pc[r] = "auditSkipped"
    BY <1>9, <2>1 DEF Owed, EndedBy, EndingOf, OutcomeAt, AuditSteps, rowVars
  <2>5. pc[r] # "auditSkipped" => AuditedProblem(r) = shown'[s].problem
    BY <1>9, <2>1 DEF Owed, AuditedProblem, AuditSteps, rowVars
  <2>6. e.outcome = OutcomeAt[pc[r]] /\ e.problem = AuditedProblem(r)
    BY DEF Entry
  <2> HIDE DEF e
  <2>7. ASSUME audit'[s] = Append(audit[s], e) PROVE Fine
    BY ONLY <2>2, <2>4, <2>5, <2>6, <2>7, OneRow DEF AuditAgrees
  <2> QED
    BY <1>2, <2>2, <2>3, <2>7
<1>10. ASSUME NEW r \in Handlers, AdvanceSolved(r) \/ AdvanceFailed(r) PROVE Fine
  BY <1>1, <1>10 DEF AdvanceSolved, AdvanceFailed, rowVars
<1> QED
  BY <1>4, <1>5, <1>6, <1>7, <1>8, <1>9, <1>10 DEF Touches

LEMMA LadderStep ==
    ASSUME RecordsInv, [Next]_vars
    PROVE  LadderHearsEachEndingOnce'
<1> SUFFICES ASSUME NEW s \in Sessions
             PROVE  /\ Len(ladder'[s]) <= 1
                    /\ \A i \in DOMAIN ladder'[s] :
                          /\ ladder'[s][i].solved <=> state'[s] = "UNLOCKED"
                          /\ ~ladder'[s][i].solved => state'[s] = "ABANDONED" /\ s \in lockedAt'
                          /\ ladder'[s][i].adjusted = shown'[s].adjusted
  BY DEF LadderHearsEachEndingOnce
<1> DEFINE Told(m) == /\ m.solved <=> state'[s] = "UNLOCKED"
                      /\ ~m.solved => state'[s] = "ABANDONED" /\ s \in lockedAt'
                      /\ m.adjusted = shown'[s].adjusted
           Fine == Len(ladder'[s]) <= 1 /\ \A i \in DOMAIN ladder'[s] : Told(ladder'[s][i])
<1> SUFFICES Fine
  OBVIOUS
<1>1. ladder'[s] = ladder[s] /\ skippedOn'[s] = skippedOn[s] => Fine
  BY KeptStep
<1>2. ladder'[s] = <<>> => Fine
  OBVIOUS
<1>3. ASSUME NEW m, ladder[s] = <<>>, ladder'[s] = Append(ladder[s], m), Told(m) PROVE Fine
  BY <1>3, OneRow
<1> HIDE DEF Fine
<1>4. Quiet \/ \E r \in Handlers : Touches(r)
  BY RecordKinds DEF RecordsInv
<1>5. CASE Quiet
  BY <1>1, <1>5 DEF Quiet
<1>6. ASSUME NEW r \in Handlers, Touches(r), s # sid[r] \/ Abort(r) PROVE Fine
  BY <1>1, <1>6, OwnSession DEF RecordsInv, SessionInv
<1>7. ASSUME NEW r \in Handlers, NEW step \in AuditSteps, Won(r, step), s = sid[r] PROVE Fine
  BY <1>2, <1>7 DEF Won, RecordsInv, OpenUnwritten, Active, Resolved
<1>8. ASSUME NEW r \in Handlers, TookPart(r), s = sid[r] PROVE Fine
  BY <1>2, <1>8 DEF TookPart, RecordsInv, OpenUnwritten, Resolved
<1>9. ASSUME NEW r \in Handlers, WriteAudit(r) PROVE Fine
  BY <1>1, <1>9 DEF WriteAudit, rowVars
<1>10. ASSUME NEW r \in Handlers, AdvanceSolved(r), s = sid[r] PROVE Fine
  <2>1. ladder[s] = <<>> /\ state[s] = "UNLOCKED" /\ seen[r] = shown[s]
    BY <1>10 DEF AdvanceSolved, RecordsInv, OwedTruly, Owed, OwingSteps
  <2>2. ladder'[s] = Append(ladder[s], Moved(TRUE, seen[r].adjusted))
        /\ state' = state /\ shown' = shown
    BY <1>10 DEF AdvanceSolved, rowVars, RecordsInv, SessionInv, TypeInv, TypeOK, RecordsOK
  <2>3. Told(Moved(TRUE, seen[r].adjusted))
    BY <2>1, <2>2 DEF Moved
  <2> QED
    BY <1>3, <2>1, <2>2, <2>3
<1>11. ASSUME NEW r \in Handlers, AdvanceFailed(r), s = sid[r] PROVE Fine
  <2>1. ladder[s] = <<>> /\ state[s] = "ABANDONED" /\ s \in lockedAt
    BY <1>11 DEF AdvanceFailed, RecordsInv, OwedTruly, Owed, OwingSteps
  <2>2. ladder'[s] = Append(ladder[s], Moved(FALSE, shown[s].adjusted))
        /\ state' = state /\ shown' = shown /\ lockedAt' = lockedAt
    BY <1>11 DEF AdvanceFailed, rowVars, RecordsInv, SessionInv, TypeInv, TypeOK, RecordsOK
  <2>3. Told(Moved(FALSE, shown[s].adjusted))
    BY <2>1, <2>2 DEF Moved
  <2> QED
    BY <1>3, <2>1, <2>2, <2>3
<1> QED
  BY <1>4, <1>5, <1>6, <1>7, <1>8, <1>9, <1>10, <1>11 DEF Touches

(* Who owes for a session still owes after another's step.                 *)
LEMMA OwersStay ==
    ASSUME RecordsInv, NEW r \in Handlers, Touches(r), NEW s \in Sessions,
           NEW steps \in SUBSET OwingSteps,
           s # sid[r] \/ pc[r] \notin steps
    PROVE  SomeoneOwes(s, steps) => SomeoneOwes(s, steps)'
<1> SUFFICES ASSUME NEW q \in Handlers, sid[q] = s, pc[q] \in steps
             PROVE  sid'[q] = s /\ pc'[q] \in steps
  BY DEF SomeoneOwes
<1> QED
  BY OwnLocals DEF RecordsInv, SessionInv

LEMMA EndingsStep ==
    ASSUME RecordsInv, [Next]_vars
    PROVE  EndingsAreRecorded'
<1> DEFINE Heard(s) == /\ s \in lockedAt /\ state[s] \in Resolved =>
                             audit[s] # <<>> \/ SomeoneOwes(s, AuditSteps)
                       /\ state[s] = "UNLOCKED" \/ GivenUp(s) =>
                             ladder[s] # <<>> \/ SomeoneOwes(s, OwingSteps)
<1>1. EndingsAreRecorded <=> (~MayFail => \A s \in Sessions : Heard(s))
  BY DEF EndingsAreRecorded, OwingSteps
<1>2. EndingsAreRecorded' <=> (~MayFail => \A s \in Sessions : Heard(s)')
  BY DEF EndingsAreRecorded, OwingSteps
<1> SUFFICES ASSUME ~MayFail, NEW s \in Sessions PROVE Heard(s)'
  BY <1>2
<1>3. Heard(s)
  BY <1>1 DEF RecordsInv, RecordsAgree
<1>4. AuditSteps \in SUBSET OwingSteps /\ OwingSteps \in SUBSET OwingSteps
  BY DEF OwingSteps
<1>5. Quiet \/ \E r \in Handlers : Touches(r)
  BY RecordKinds DEF RecordsInv
<1>6. CASE Quiet
  <2>1. CASE state[s] \in Resolved
    <3>1. /\ state'[s] = state[s] /\ (s \in lockedAt' <=> s \in lockedAt)
          /\ audit' = audit /\ ladder' = ladder
      BY <1>6, <2>1 DEF Quiet
    <3>2. \A steps \in SUBSET OwingSteps : SomeoneOwes(s, steps) => SomeoneOwes(s, steps)'
      BY <1>6 DEF Quiet, SomeoneOwes
    <3>3. GivenUp(s)' <=> GivenUp(s)
      BY <3>1 DEF GivenUp
    <3> QED
      BY <1>3, <1>4, <3>1, <3>2, <3>3
  <2>2. CASE state[s] \notin Resolved
    BY <1>6, <2>2 DEF Quiet, RecordsInv, OpenUnwritten, GivenUp, Resolved
  <2> QED
    BY <2>1, <2>2
<1>7. ASSUME NEW r \in Handlers, Touches(r), s # sid[r] PROVE Heard(s)'
  <2>1. /\ state'[s] = state[s] /\ lockedAt' = lockedAt
        /\ audit'[s] = audit[s] /\ ladder'[s] = ladder[s]
    BY <1>7, OwnSession DEF RecordsInv, SessionInv
  <2>2. \A steps \in SUBSET OwingSteps : SomeoneOwes(s, steps) => SomeoneOwes(s, steps)'
    BY <1>7, OwersStay
  <2>3. GivenUp(s)' <=> GivenUp(s)
    BY <2>1 DEF GivenUp
  <2> QED
    BY <1>3, <1>4, <2>1, <2>2, <2>3
<1>8. ASSUME NEW r \in Handlers, NEW step \in AuditSteps, Won(r, step), s = sid[r]
      PROVE  Heard(s)'
  <2>1. pc'[r] = step /\ sid'[r] = s
    BY <1>8, OwnLocals DEF Touches, RecordsInv, SessionInv
  <2> QED
    BY <1>4, <2>1 DEF SomeoneOwes
<1>9. ASSUME NEW r \in Handlers, TookPart(r), s = sid[r] PROVE Heard(s)'
  <2> DEFINE e == Entry("PARTICIPATED", shown[s].problem)
  <2>1. audit[s] = <<>>
    BY <1>9 DEF TookPart, RecordsInv, OpenUnwritten, Resolved
  <2>2. audit'[s] = Append(<<>>, e) /\ state'[s] = "BYPASSED"
    BY <1>9, <2>1
       DEF TookPart, RecordsInv, SessionInv, TypeInv, TypeOK, RowsOK, RecordsOK
  <2>3. e.outcome = "PARTICIPATED"
    BY DEF Entry
  <2> HIDE DEF e
  <2> QED
    BY <2>2, <2>3, OneRow DEF GivenUp
<1>10. ASSUME NEW r \in Handlers, WriteAudit(r), s = sid[r] PROVE Heard(s)'
  <2> DEFINE e == Entry(OutcomeAt[pc[r]], AuditedProblem(r))
  <2>1. Owed(r) /\ pc[r] \in AuditSteps /\ UNCHANGED rowVars
    BY <1>10 DEF WriteAudit, RecordsInv, OwedTruly
  <2>2. audit'[s] = Append(<<>>, e)
    BY <1>10, <2>1
       DEF Owed, WriteAudit, RecordsInv, SessionInv, TypeInv, TypeOK, RecordsOK
  <2>3. e.outcome = OutcomeAt[pc[r]]
    BY DEF Entry
  <2> HIDE DEF e
  <2>4. state'[s] = "UNLOCKED" => pc[r] = "auditSolved"
    BY <1>10, <2>1 DEF Owed, EndedBy, AuditSteps, rowVars
  <2>5. GivenUp(s)' => pc[r] = "auditGaveUp"
    <3>1. GivenUp(s)' => s \in lockedAt /\ OutcomeAt[pc[r]] = "ABANDONED"
      BY <2>1, <2>2, <2>3, OneRow DEF GivenUp, rowVars
    <3> QED
      BY <1>10, <2>1, <3>1 DEF OutcomeAt, AuditSteps, Owed
  <2>6. pc[r] \in {"auditSolved", "auditGaveUp"} => SomeoneOwes(s, OwingSteps)'
    BY <1>10 DEF WriteAudit, AfterAudit, Goto, Rearm, Answer, Leave, localVars, SomeoneOwes,
                 OwingSteps, RecordsInv, SessionInv, TypeInv, TypeOK, HandlersOK
  <2> QED
    BY <2>2, <2>4, <2>5, <2>6, OneRow
<1>11. ASSUME NEW r \in Handlers, AdvanceSolved(r) \/ AdvanceFailed(r), s = sid[r]
       PROVE  Heard(s)'
  <2>1. audit' = audit /\ state' = state /\ lockedAt' = lockedAt
    BY <1>11 DEF AdvanceSolved, AdvanceFailed, rowVars
  <2>2. \E m : ladder'[s] = Append(<<>>, m)
    <3>1. ladder[s] = <<>>
      BY <1>11 DEF AdvanceSolved, AdvanceFailed, RecordsInv, OwedTruly, Owed, OwingSteps
    <3> QED
      BY <1>11, <3>1 DEF AdvanceSolved, AdvanceFailed,
                         RecordsInv, SessionInv, TypeInv, TypeOK, RecordsOK
  <2>3. SomeoneOwes(s, AuditSteps) => SomeoneOwes(s, AuditSteps)'
    BY <1>4, <1>11, OwersStay DEF Touches, AdvanceSolved, AdvanceFailed, AuditSteps
  <2> QED
    BY <1>3, <2>1, <2>2, <2>3, OneRow
<1> QED
  BY <1>5, <1>6, <1>7, <1>8, <1>9, <1>10, <1>11 DEF Touches, Abort

LEMMA RecordsInit == Init => RecordsInv
<1> SUFFICES ASSUME Init PROVE RecordsInv
  OBVIOUS
<1>1. OneOwes /\ OwedTruly /\ OpenUnwritten /\ LocksDated
  BY DEF Init, OneOwes, OwedTruly, Owed, OpenUnwritten, LocksDated, OwingSteps, AuditSteps
<1>2. RecordsAgree
  BY DEF Init, RecordsAgree, AuditTellsTheEnding, LadderHearsEachEndingOnce,
         EndingsAreRecorded, GivenUp
<1> QED
  BY <1>1, <1>2, SessionInit DEF RecordsInv

(* What the audit and the ladder say of a session is how it ended, each    *)
(* once; and unless a statement fails, nothing an ending owes is lost.     *)
THEOREM RecordsCorrect == Spec => []RecordsAgree
<1>1. RecordsInv /\ [Next]_vars => RecordsInv'
  <2> SUFFICES ASSUME RecordsInv, [Next]_vars PROVE RecordsInv'
    OBVIOUS
  <2>1. SessionInv'
    BY TypeStep, OneActiveStep, UnpickedStep, ReadWhenLockedStep, SeenLagsStep,
       SkipGrantedStep, AllowanceStep DEF SessionInv, RecordsInv
  <2>2. Quiet \/ \E r \in Handlers : Touches(r)
    BY RecordKinds DEF RecordsInv
  <2>3. LocksDated'
    BY LocksDatedStep DEF RecordsInv, SessionInv
  <2>4. OneOwes' /\ OwedTruly' /\ OpenUnwritten'
    BY <2>2, OneOwesStep, OwedTrulyStep, OpenUnwrittenStep
  <2> QED
    BY <2>1, <2>3, <2>4, AuditStep, LadderStep, EndingsStep DEF RecordsInv, RecordsAgree
<1>2. RecordsInv => RecordsAgree
  BY DEF RecordsInv
<1> QED
  BY <1>1, <1>2, RecordsInit, PTL DEF Spec

----------------------------------------------------------------------------
(* A give-up tries its two guarded updates twice.  A session that was seen *)
(* neither locked nor armed is over; one that was first seen not locked    *)
(* and then not armed has landed or ended, and the second pair of updates  *)
(* catches it.                                                             *)
GivingUp ==
    \A r \in Handlers :
        /\ pc[r] = "idle" => tries[r] = 0
        /\ pc[r] \in {"abandonLocked", "abandonArmed"} =>
              /\ state[sid[r]] # "none"
              /\ tries[r] \in {0, 1}
              /\ tries[r] = 1 => state[sid[r]] \in {"LOCKED"} \cup Resolved
              /\ tries[r] = 1 /\ pc[r] = "abandonArmed" => state[sid[r]] \in Resolved

LEMMA GivingUpStep ==
    ASSUME SessionInv, GivingUp, [Next]_vars
    PROVE  GivingUp'
<1> USE ConstantsAssumption DEF SessionInv, TypeInv, TypeOK, HandlersOK, RowsOK, LocalsOK,
        Detached, Active, Resolved, Handlers, AuditSteps, Goto,
        Leave, Answer, Rearm, Enter, Serve, localVars, rowVars, GivingUp
<1>1. ASSUME NEW r \in Handlers, ArmRead(r) PROVE GivingUp'
  BY <1>1 DEF ArmRead
<1>2. ASSUME NEW r \in Handlers, ArmCreate(r) PROVE GivingUp'
  BY <1>2 DEF ArmCreate
<1>3. ASSUME NEW r \in Handlers, ArmRefused(r) PROVE GivingUp'
  BY <1>3 DEF ArmRefused
<1>4. ASSUME NEW s \in Sessions, Expire(s) \/ Pause(s) \/ Resume(s) \/ Shorten(s) PROVE GivingUp'
  BY <1>4 DEF Expire, Pause, Resume, Shorten, MoveCountdown
<1>5. ASSUME NEW r \in Handlers, NEW s \in Sessions, EngageRead(r, s) PROVE GivingUp'
  BY <1>5 DEF EngageRead
<1>6. ASSUME NEW r \in Handlers, NEW p \in Problems, ClaimDue(r, p) PROVE GivingUp'
  BY <1>6 DEF ClaimDue, DueSession
<1>7. ASSUME NEW r \in Handlers, PickFails(r) PROVE GivingUp'
  BY <1>7 DEF PickFails
<1>8. ASSUME NEW r \in Handlers, CountAttempt(r) PROVE GivingUp'
  BY <1>8 DEF CountAttempt
<1>9. ASSUME NEW r \in Handlers, NEW s \in Sessions, SubmitRead(r, s) PROVE GivingUp'
  BY <1>9 DEF SubmitRead
<1>10. ASSUME NEW r \in Handlers, JudgeRejects(r) \/ JudgeAccepts(r) PROVE GivingUp'
  BY <1>10 DEF JudgeRejects, JudgeAccepts
<1>11. ASSUME NEW r \in Handlers, Release(r) PROVE GivingUp'
  BY <1>11 DEF Release
<1>12. ASSUME NEW r \in Handlers, NEW s \in Sessions, SkipRead(r, s) PROVE GivingUp'
  BY <1>12 DEF SkipRead
<1>13. ASSUME NEW r \in Handlers, SkipCount(r) PROVE GivingUp'
  BY <1>13 DEF SkipCount
<1>14. ASSUME NEW r \in Handlers, SkipClaim(r) PROVE GivingUp'
  BY <1>14 DEF SkipClaim
<1>15. ASSUME NEW r \in Handlers, NEW s \in Sessions, SwapRead(r, s) PROVE GivingUp'
  BY <1>15 DEF SwapRead
<1>16. ASSUME NEW r \in Handlers, NEW p \in Problems, Swap(r, p) PROVE GivingUp'
  BY <1>16 DEF Swap, StillShows
<1>17. ASSUME NEW r \in Handlers, SwapFindsNothing(r) PROVE GivingUp'
  BY <1>17 DEF SwapFindsNothing
<1>18. ASSUME NEW r \in Handlers, NEW s \in Sessions, ParticipateRead(r, s) PROVE GivingUp'
  BY <1>18 DEF ParticipateRead
<1>19. ASSUME NEW r \in Handlers, CommitParticipation(r) PROVE GivingUp'
  BY <1>19 DEF CommitParticipation, Entry
<1>20. ASSUME NEW r \in Handlers, NEW s \in Sessions, CancelRead(r, s) PROVE GivingUp'
  BY <1>20 DEF CancelRead
<1>21. ASSUME NEW r \in Handlers, Cancel(r) PROVE GivingUp'
  BY <1>21 DEF Cancel
<1>22. ASSUME NEW r \in Handlers, NEW s \in Sessions, AbandonRead(r, s) PROVE GivingUp'
  BY <1>22 DEF AbandonRead
<1>23. ASSUME NEW r \in Handlers, AbandonLocked(r) PROVE GivingUp'
  BY <1>23 DEF AbandonLocked
<1>24. ASSUME NEW r \in Handlers, AbandonArmed(r) PROVE GivingUp'
  BY <1>24 DEF AbandonArmed, AbandonAttempts
<1>25. ASSUME NEW r \in Handlers, NEW s \in Sessions, ReapRead(r, s) PROVE GivingUp'
  BY <1>25 DEF ReapRead
<1>26. ASSUME NEW r \in Handlers, Reap(r) PROVE GivingUp'
  BY <1>26 DEF Reap
<1>27. ASSUME NEW r \in Handlers, WriteAudit(r) PROVE GivingUp'
  BY <1>27 DEF WriteAudit, AfterAudit, AuditedProblem, Entry, OutcomeAt, AuditSteps
<1>28. ASSUME NEW r \in Handlers, AdvanceSolved(r) PROVE GivingUp'
  BY <1>28 DEF AdvanceSolved, Moved
<1>29. ASSUME NEW r \in Handlers, AdvanceFailed(r) PROVE GivingUp'
  BY <1>29 DEF AdvanceFailed, Moved
<1>30. ASSUME NEW r \in Handlers, Abort(r) PROVE GivingUp'
  BY <1>30 DEF Abort
<1>31. CASE NewDay
  BY <1>31 DEF NewDay
<1>32. ASSUME NEW s \in Sessions, GrowStale(s) PROVE GivingUp'
  BY <1>32 DEF GrowStale
<1>33. CASE UNCHANGED vars
  BY <1>33 DEF vars
<1> QED
  BY <1>1, <1>2, <1>3, <1>4, <1>5, <1>6, <1>7, <1>8, <1>9, <1>10,
    <1>11, <1>12, <1>13, <1>14, <1>15, <1>16, <1>17, <1>18, <1>19,
    <1>20, <1>21, <1>22, <1>23, <1>24, <1>25, <1>26, <1>27, <1>28,
    <1>29, <1>30, <1>31, <1>32, <1>33
    DEF Next, CountdownStep, FirstRead, HandlerStep,
       ArmStep, EngageStep, GradeStep, SkipStep, FlowStep, GiveUpStep, RecordStep

LEMMA RefusedStep ==
    ASSUME SessionInv, GivingUp, [Next]_vars, NEW q \in Handlers,
           pc[q] = "abandonArmed", pc'[q] = "idle", ~MayFail
    PROVE  state[sid[q]] \in Resolved
<1> DEFINE Over == state[sid[q]] \in Resolved
<1> SUFFICES Over
  OBVIOUS
<1> USE ConstantsAssumption DEF SessionInv, TypeInv, TypeOK, HandlersOK, RowsOK, LocalsOK,
        Detached, Active, Resolved, Handlers, AuditSteps, Goto,
        Leave, Answer, Rearm, Enter, Serve, localVars, rowVars, GivingUp
<1>1. ASSUME NEW r \in Handlers, ArmRead(r) PROVE Over
  BY <1>1 DEF ArmRead
<1>2. ASSUME NEW r \in Handlers, ArmCreate(r) PROVE Over
  BY <1>2 DEF ArmCreate
<1>3. ASSUME NEW r \in Handlers, ArmRefused(r) PROVE Over
  BY <1>3 DEF ArmRefused
<1>4. ASSUME NEW s \in Sessions, Expire(s) \/ Pause(s) \/ Resume(s) \/ Shorten(s) PROVE Over
  BY <1>4 DEF Expire, Pause, Resume, Shorten, MoveCountdown
<1>5. ASSUME NEW r \in Handlers, NEW s \in Sessions, EngageRead(r, s) PROVE Over
  BY <1>5 DEF EngageRead
<1>6. ASSUME NEW r \in Handlers, NEW p \in Problems, ClaimDue(r, p) PROVE Over
  BY <1>6 DEF ClaimDue, DueSession
<1>7. ASSUME NEW r \in Handlers, PickFails(r) PROVE Over
  BY <1>7 DEF PickFails
<1>8. ASSUME NEW r \in Handlers, CountAttempt(r) PROVE Over
  BY <1>8 DEF CountAttempt
<1>9. ASSUME NEW r \in Handlers, NEW s \in Sessions, SubmitRead(r, s) PROVE Over
  BY <1>9 DEF SubmitRead
<1>10. ASSUME NEW r \in Handlers, JudgeRejects(r) \/ JudgeAccepts(r) PROVE Over
  BY <1>10 DEF JudgeRejects, JudgeAccepts
<1>11. ASSUME NEW r \in Handlers, Release(r) PROVE Over
  BY <1>11 DEF Release
<1>12. ASSUME NEW r \in Handlers, NEW s \in Sessions, SkipRead(r, s) PROVE Over
  BY <1>12 DEF SkipRead
<1>13. ASSUME NEW r \in Handlers, SkipCount(r) PROVE Over
  BY <1>13 DEF SkipCount
<1>14. ASSUME NEW r \in Handlers, SkipClaim(r) PROVE Over
  BY <1>14 DEF SkipClaim
<1>15. ASSUME NEW r \in Handlers, NEW s \in Sessions, SwapRead(r, s) PROVE Over
  BY <1>15 DEF SwapRead
<1>16. ASSUME NEW r \in Handlers, NEW p \in Problems, Swap(r, p) PROVE Over
  BY <1>16 DEF Swap, StillShows
<1>17. ASSUME NEW r \in Handlers, SwapFindsNothing(r) PROVE Over
  BY <1>17 DEF SwapFindsNothing
<1>18. ASSUME NEW r \in Handlers, NEW s \in Sessions, ParticipateRead(r, s) PROVE Over
  BY <1>18 DEF ParticipateRead
<1>19. ASSUME NEW r \in Handlers, CommitParticipation(r) PROVE Over
  BY <1>19 DEF CommitParticipation, Entry
<1>20. ASSUME NEW r \in Handlers, NEW s \in Sessions, CancelRead(r, s) PROVE Over
  BY <1>20 DEF CancelRead
<1>21. ASSUME NEW r \in Handlers, Cancel(r) PROVE Over
  BY <1>21 DEF Cancel
<1>22. ASSUME NEW r \in Handlers, NEW s \in Sessions, AbandonRead(r, s) PROVE Over
  BY <1>22 DEF AbandonRead
<1>23. ASSUME NEW r \in Handlers, AbandonLocked(r) PROVE Over
  BY <1>23 DEF AbandonLocked
<1>24. ASSUME NEW r \in Handlers, AbandonArmed(r) PROVE Over
  BY <1>24 DEF AbandonArmed, AbandonAttempts
<1>25. ASSUME NEW r \in Handlers, NEW s \in Sessions, ReapRead(r, s) PROVE Over
  BY <1>25 DEF ReapRead
<1>26. ASSUME NEW r \in Handlers, Reap(r) PROVE Over
  BY <1>26 DEF Reap
<1>27. ASSUME NEW r \in Handlers, WriteAudit(r) PROVE Over
  BY <1>27 DEF WriteAudit, AfterAudit, AuditedProblem, Entry, OutcomeAt, AuditSteps
<1>28. ASSUME NEW r \in Handlers, AdvanceSolved(r) PROVE Over
  BY <1>28 DEF AdvanceSolved, Moved
<1>29. ASSUME NEW r \in Handlers, AdvanceFailed(r) PROVE Over
  BY <1>29 DEF AdvanceFailed, Moved
<1>30. ASSUME NEW r \in Handlers, Abort(r) PROVE Over
  BY <1>30 DEF Abort
<1>31. CASE NewDay
  BY <1>31 DEF NewDay
<1>32. ASSUME NEW s \in Sessions, GrowStale(s) PROVE Over
  BY <1>32 DEF GrowStale
<1>33. CASE UNCHANGED vars
  BY <1>33 DEF vars
<1> QED
  BY <1>1, <1>2, <1>3, <1>4, <1>5, <1>6, <1>7, <1>8, <1>9, <1>10,
    <1>11, <1>12, <1>13, <1>14, <1>15, <1>16, <1>17, <1>18, <1>19,
    <1>20, <1>21, <1>22, <1>23, <1>24, <1>25, <1>26, <1>27, <1>28,
    <1>29, <1>30, <1>31, <1>32, <1>33
    DEF Next, CountdownStep, FirstRead, HandlerStep,
       ArmStep, EngageStep, GradeStep, SkipStep, FlowStep, GiveUpStep, RecordStep

LEMMA GivingUpInit == Init => GivingUp
BY DEF Init, GivingUp

(* /abandon answers "already resolved" only of a session that is, however  *)
(* the engage sweep slips between its two guards.                          *)
THEOREM AbandonTruthful == Spec => AbandonRefusedOnlyWhenResolved
<1>1. SessionInv /\ GivingUp /\ [Next]_vars => GivingUp'
  BY GivingUpStep
<1>2. SessionInv /\ GivingUp /\ [Next]_vars =>
        [\A r \in Handlers :
            pc[r] = "abandonArmed" /\ pc'[r] = "idle" /\ ~MayFail =>
                state[sid[r]] \in Resolved]_vars
  BY RefusedStep
<1> QED
  BY <1>1, <1>2, GivingUpInit, SessionCorrect, PTL
     DEF Spec, AbandonRefusedOnlyWhenResolved

----------------------------------------------------------------------------
(* Each serving adds one element to Servings and a handler that will count *)
(* it; a count trades the handler for an element of Counts; and only a     *)
(* handler that dies in between is lost.                                   *)
CountsHaveProblem ==
    \A r \in Handlers : pc[r] = "countAttempt" => seen[r].problem \in Problems

CountInv ==
    /\ CountsHaveProblem
    /\ IsFiniteSet(Counts) /\ IsFiniteSet(Counting)
    /\ AttemptsCountServings

SameCounting ==
    \A r \in Handlers : pc'[r] = "countAttempt" <=> pc[r] = "countAttempt"

Unserved ==
    /\ lockedAt' = lockedAt
    /\ \A s \in Sessions : shown'[s].revision = shown[s].revision
    /\ attemptCount' = attemptCount
    /\ SameCounting

Served(r) ==
    /\ pc[r] # "countAttempt"
    /\ pc' = [pc EXCEPT ![r] = "countAttempt"]
    /\ attemptCount' = attemptCount
    /\ \E s \in Sessions :
          \/ /\ s \notin lockedAt /\ lockedAt' = lockedAt \cup {s}
             /\ \A t \in Sessions : shown'[t].revision = shown[t].revision
          \/ /\ lockedAt' = lockedAt
             /\ shown[s].revision < MaxRevision
             /\ shown'[s].revision = shown[s].revision + 1
             /\ \A t \in Sessions \ {s} : shown'[t].revision = shown[t].revision

Lost(r) ==
    /\ MayFail
    /\ pc[r] = "countAttempt"
    /\ pc' = [pc EXCEPT ![r] = "idle"]
    /\ UNCHANGED <<lockedAt, shown, attemptCount>>

LEMMA CountsHaveProblemStep ==
    ASSUME TypeInv, CountsHaveProblem, [Next]_vars
    PROVE  CountsHaveProblem'
<1> USE ConstantsAssumption DEF TypeInv, TypeOK, HandlersOK, RowsOK, LocalsOK, Detached,
        Handlers, AuditSteps, Goto, Leave, Answer, Rearm, Enter, Serve, localVars, rowVars,
        CountsHaveProblem
<1>1. ASSUME NEW r \in Handlers, ArmRead(r) PROVE CountsHaveProblem'
  BY <1>1 DEF ArmRead
<1>2. ASSUME NEW r \in Handlers, ArmCreate(r) PROVE CountsHaveProblem'
  BY <1>2 DEF ArmCreate
<1>3. ASSUME NEW r \in Handlers, ArmRefused(r) PROVE CountsHaveProblem'
  BY <1>3 DEF ArmRefused
<1>4. ASSUME NEW s \in Sessions, Expire(s) \/ Pause(s) \/ Resume(s) \/ Shorten(s) PROVE CountsHaveProblem'
  BY <1>4 DEF Expire, Pause, Resume, Shorten, MoveCountdown
<1>5. ASSUME NEW r \in Handlers, NEW s \in Sessions, EngageRead(r, s) PROVE CountsHaveProblem'
  BY <1>5 DEF EngageRead
<1>6. ASSUME NEW r \in Handlers, NEW p \in Problems, ClaimDue(r, p) PROVE CountsHaveProblem'
  BY <1>6 DEF ClaimDue, DueSession
<1>7. ASSUME NEW r \in Handlers, PickFails(r) PROVE CountsHaveProblem'
  BY <1>7 DEF PickFails
<1>8. ASSUME NEW r \in Handlers, CountAttempt(r) PROVE CountsHaveProblem'
  BY <1>8 DEF CountAttempt
<1>9. ASSUME NEW r \in Handlers, NEW s \in Sessions, SubmitRead(r, s) PROVE CountsHaveProblem'
  BY <1>9 DEF SubmitRead
<1>10. ASSUME NEW r \in Handlers, JudgeRejects(r) \/ JudgeAccepts(r) PROVE CountsHaveProblem'
  BY <1>10 DEF JudgeRejects, JudgeAccepts
<1>11. ASSUME NEW r \in Handlers, Release(r) PROVE CountsHaveProblem'
  BY <1>11 DEF Release
<1>12. ASSUME NEW r \in Handlers, NEW s \in Sessions, SkipRead(r, s) PROVE CountsHaveProblem'
  BY <1>12 DEF SkipRead
<1>13. ASSUME NEW r \in Handlers, SkipCount(r) PROVE CountsHaveProblem'
  BY <1>13 DEF SkipCount
<1>14. ASSUME NEW r \in Handlers, SkipClaim(r) PROVE CountsHaveProblem'
  BY <1>14 DEF SkipClaim
<1>15. ASSUME NEW r \in Handlers, NEW s \in Sessions, SwapRead(r, s) PROVE CountsHaveProblem'
  BY <1>15 DEF SwapRead
<1>16. ASSUME NEW r \in Handlers, NEW p \in Problems, Swap(r, p) PROVE CountsHaveProblem'
  BY <1>16 DEF Swap, StillShows
<1>17. ASSUME NEW r \in Handlers, SwapFindsNothing(r) PROVE CountsHaveProblem'
  BY <1>17 DEF SwapFindsNothing
<1>18. ASSUME NEW r \in Handlers, NEW s \in Sessions, ParticipateRead(r, s) PROVE CountsHaveProblem'
  BY <1>18 DEF ParticipateRead
<1>19. ASSUME NEW r \in Handlers, CommitParticipation(r) PROVE CountsHaveProblem'
  BY <1>19 DEF CommitParticipation, Entry
<1>20. ASSUME NEW r \in Handlers, NEW s \in Sessions, CancelRead(r, s) PROVE CountsHaveProblem'
  BY <1>20 DEF CancelRead
<1>21. ASSUME NEW r \in Handlers, Cancel(r) PROVE CountsHaveProblem'
  BY <1>21 DEF Cancel
<1>22. ASSUME NEW r \in Handlers, NEW s \in Sessions, AbandonRead(r, s) PROVE CountsHaveProblem'
  BY <1>22 DEF AbandonRead
<1>23. ASSUME NEW r \in Handlers, AbandonLocked(r) PROVE CountsHaveProblem'
  BY <1>23 DEF AbandonLocked
<1>24. ASSUME NEW r \in Handlers, AbandonArmed(r) PROVE CountsHaveProblem'
  BY <1>24 DEF AbandonArmed, AbandonAttempts
<1>25. ASSUME NEW r \in Handlers, NEW s \in Sessions, ReapRead(r, s) PROVE CountsHaveProblem'
  BY <1>25 DEF ReapRead
<1>26. ASSUME NEW r \in Handlers, Reap(r) PROVE CountsHaveProblem'
  BY <1>26 DEF Reap
<1>27. ASSUME NEW r \in Handlers, WriteAudit(r) PROVE CountsHaveProblem'
  BY <1>27 DEF WriteAudit, AfterAudit, AuditedProblem, Entry, OutcomeAt, AuditSteps
<1>28. ASSUME NEW r \in Handlers, AdvanceSolved(r) PROVE CountsHaveProblem'
  BY <1>28 DEF AdvanceSolved, Moved
<1>29. ASSUME NEW r \in Handlers, AdvanceFailed(r) PROVE CountsHaveProblem'
  BY <1>29 DEF AdvanceFailed, Moved
<1>30. ASSUME NEW r \in Handlers, Abort(r) PROVE CountsHaveProblem'
  BY <1>30 DEF Abort
<1>31. CASE NewDay
  BY <1>31 DEF NewDay
<1>32. ASSUME NEW s \in Sessions, GrowStale(s) PROVE CountsHaveProblem'
  BY <1>32 DEF GrowStale
<1>33. CASE UNCHANGED vars
  BY <1>33 DEF vars
<1> QED
  BY <1>1, <1>2, <1>3, <1>4, <1>5, <1>6, <1>7, <1>8, <1>9, <1>10,
    <1>11, <1>12, <1>13, <1>14, <1>15, <1>16, <1>17, <1>18, <1>19,
    <1>20, <1>21, <1>22, <1>23, <1>24, <1>25, <1>26, <1>27, <1>28,
    <1>29, <1>30, <1>31, <1>32, <1>33
    DEF Next, CountdownStep, FirstRead, HandlerStep,
       ArmStep, EngageStep, GradeStep, SkipStep, FlowStep, GiveUpStep, RecordStep

LEMMA CountKinds ==
    ASSUME TypeInv, LocksDated, [Next]_vars
    PROVE  Unserved \/ \E r \in Handlers : Served(r) \/ CountAttempt(r) \/ Lost(r)
<1> DEFINE Kind == Unserved \/ \E r \in Handlers : Served(r) \/ CountAttempt(r) \/ Lost(r)
<1> SUFFICES Kind
  OBVIOUS
<1> USE ConstantsAssumption DEF TypeInv, TypeOK, HandlersOK, RowsOK, LocalsOK, Detached,
        Handlers, AuditSteps, Goto, Leave, Answer, Rearm, Enter, localVars, rowVars, recordVars,
        Unserved, SameCounting
<1>1. ASSUME NEW r \in Handlers, ArmRead(r) PROVE Kind
  BY <1>1 DEF ArmRead
<1>2. ASSUME NEW r \in Handlers, ArmCreate(r) PROVE Kind
  BY <1>2 DEF ArmCreate
<1>3. ASSUME NEW r \in Handlers, ArmRefused(r) PROVE Kind
  BY <1>3 DEF ArmRefused
<1>4. ASSUME NEW s \in Sessions, Expire(s) \/ Pause(s) \/ Resume(s) \/ Shorten(s) PROVE Kind
  BY <1>4 DEF Expire, Pause, Resume, Shorten, MoveCountdown
<1>5. ASSUME NEW r \in Handlers, NEW s \in Sessions, EngageRead(r, s) PROVE Kind
  BY <1>5 DEF EngageRead
<1>6. ASSUME NEW r \in Handlers, NEW p \in Problems, ClaimDue(r, p) PROVE Kind
  <2>1. CASE DueSession(sid[r])
    <3>1. sid[r] \in Sessions /\ sid[r] \notin lockedAt
      BY <1>6, <2>1 DEF ClaimDue, DueSession, LocksDated
    <3>2. /\ lockedAt' = lockedAt \cup {sid[r]} /\ attemptCount' = attemptCount
          /\ pc' = [pc EXCEPT ![r] = "countAttempt"]
          /\ shown' = [shown EXCEPT ![sid[r]] = [problem  |-> p,
                                                revision |-> shown[sid[r]].revision,
                                                adjusted |-> shown[sid[r]].adjusted]]
      BY <1>6, <2>1 DEF ClaimDue, Serve
    <3>3. \A t \in Sessions : shown'[t].revision = shown[t].revision
      BY <3>1, <3>2
    <3>4. Served(r)
      BY <1>6, <3>1, <3>2, <3>3 DEF ClaimDue, Served
    <3>. QED BY <3>4
  <2>2. CASE ~DueSession(sid[r])
    BY <1>6, <2>2 DEF ClaimDue
  <2>. QED BY <2>1, <2>2
<1>7. ASSUME NEW r \in Handlers, PickFails(r) PROVE Kind
  BY <1>7 DEF PickFails
<1>8. ASSUME NEW r \in Handlers, CountAttempt(r) PROVE Kind
  BY <1>8 DEF CountAttempt
<1>9. ASSUME NEW r \in Handlers, NEW s \in Sessions, SubmitRead(r, s) PROVE Kind
  BY <1>9 DEF SubmitRead
<1>10. ASSUME NEW r \in Handlers, JudgeRejects(r) \/ JudgeAccepts(r) PROVE Kind
  BY <1>10 DEF JudgeRejects, JudgeAccepts
<1>11. ASSUME NEW r \in Handlers, Release(r) PROVE Kind
  BY <1>11 DEF Release
<1>12. ASSUME NEW r \in Handlers, NEW s \in Sessions, SkipRead(r, s) PROVE Kind
  BY <1>12 DEF SkipRead
<1>13. ASSUME NEW r \in Handlers, SkipCount(r) PROVE Kind
  BY <1>13 DEF SkipCount
<1>14. ASSUME NEW r \in Handlers, SkipClaim(r) PROVE Kind
  BY <1>14 DEF SkipClaim
<1>15. ASSUME NEW r \in Handlers, NEW s \in Sessions, SwapRead(r, s) PROVE Kind
  BY <1>15 DEF SwapRead
<1>16. ASSUME NEW r \in Handlers, NEW p \in Problems, Swap(r, p) PROVE Kind
  <2>1. CASE StillShows(r)
    <3>1. sid[r] \in Sessions /\ shown[sid[r]].revision < MaxRevision
      BY <1>16, <2>1 DEF Swap, StillShows
    <3>2. /\ lockedAt' = lockedAt /\ attemptCount' = attemptCount
          /\ pc' = [pc EXCEPT ![r] = "countAttempt"]
          /\ shown' = [shown EXCEPT ![sid[r]] = [problem  |-> p,
                                                revision |-> shown[sid[r]].revision + 1,
                                                adjusted |-> TRUE]]
      BY <1>16, <2>1 DEF Swap, Serve
    <3>3. /\ shown'[sid[r]].revision = shown[sid[r]].revision + 1
          /\ \A t \in Sessions \ {sid[r]} : shown'[t].revision = shown[t].revision
      BY <3>1, <3>2
    <3>4. Served(r)
      BY <1>16, <3>1, <3>2, <3>3 DEF Swap, Served
    <3>. QED BY <3>4
  <2>2. CASE ~StillShows(r)
    BY <1>16, <2>2 DEF Swap
  <2>. QED BY <2>1, <2>2
<1>17. ASSUME NEW r \in Handlers, SwapFindsNothing(r) PROVE Kind
  BY <1>17 DEF SwapFindsNothing
<1>18. ASSUME NEW r \in Handlers, NEW s \in Sessions, ParticipateRead(r, s) PROVE Kind
  BY <1>18 DEF ParticipateRead
<1>19. ASSUME NEW r \in Handlers, CommitParticipation(r) PROVE Kind
  BY <1>19 DEF CommitParticipation, Entry
<1>20. ASSUME NEW r \in Handlers, NEW s \in Sessions, CancelRead(r, s) PROVE Kind
  BY <1>20 DEF CancelRead
<1>21. ASSUME NEW r \in Handlers, Cancel(r) PROVE Kind
  BY <1>21 DEF Cancel
<1>22. ASSUME NEW r \in Handlers, NEW s \in Sessions, AbandonRead(r, s) PROVE Kind
  BY <1>22 DEF AbandonRead
<1>23. ASSUME NEW r \in Handlers, AbandonLocked(r) PROVE Kind
  BY <1>23 DEF AbandonLocked
<1>24. ASSUME NEW r \in Handlers, AbandonArmed(r) PROVE Kind
  BY <1>24 DEF AbandonArmed, AbandonAttempts
<1>25. ASSUME NEW r \in Handlers, NEW s \in Sessions, ReapRead(r, s) PROVE Kind
  BY <1>25 DEF ReapRead
<1>26. ASSUME NEW r \in Handlers, Reap(r) PROVE Kind
  BY <1>26 DEF Reap
<1>27. ASSUME NEW r \in Handlers, WriteAudit(r) PROVE Kind
  BY <1>27 DEF WriteAudit, AfterAudit, AuditedProblem, Entry, OutcomeAt, AuditSteps
<1>28. ASSUME NEW r \in Handlers, AdvanceSolved(r) PROVE Kind
  BY <1>28 DEF AdvanceSolved, Moved
<1>29. ASSUME NEW r \in Handlers, AdvanceFailed(r) PROVE Kind
  BY <1>29 DEF AdvanceFailed, Moved
<1>30. ASSUME NEW r \in Handlers, Abort(r) PROVE Kind
  <2>1. CASE pc[r] = "countAttempt"
    <3>1. Lost(r)
      BY <1>30, <2>1 DEF Abort, Lost
    <3>. QED BY <3>1
  <2>2. CASE pc[r] # "countAttempt"
    BY <1>30, <2>2 DEF Abort
  <2>. QED BY <2>1, <2>2
<1>31. CASE NewDay
  BY <1>31 DEF NewDay
<1>32. ASSUME NEW s \in Sessions, GrowStale(s) PROVE Kind
  BY <1>32 DEF GrowStale
<1>33. CASE UNCHANGED vars
  BY <1>33 DEF vars
<1> QED
  BY <1>1, <1>2, <1>3, <1>4, <1>5, <1>6, <1>7, <1>8, <1>9, <1>10,
    <1>11, <1>12, <1>13, <1>14, <1>15, <1>16, <1>17, <1>18, <1>19,
    <1>20, <1>21, <1>22, <1>23, <1>24, <1>25, <1>26, <1>27, <1>28,
    <1>29, <1>30, <1>31, <1>32, <1>33
    DEF Next, CountdownStep, FirstRead, HandlerStep,
       ArmStep, EngageStep, GradeStep, SkipStep, FlowStep, GiveUpStep, RecordStep

LEMMA OneElementMore ==
    ASSUME NEW S, IsFiniteSet(S), NEW x, x \notin S
    PROVE  /\ IsFiniteSet(S \cup {x})
           /\ Cardinality(S) \in Nat
           /\ Cardinality(S \cup {x}) = Cardinality(S) + 1
BY FS_AddElement, FS_CardinalityType

LEMMA OneElementLess ==
    ASSUME NEW S, IsFiniteSet(S), NEW x \in S
    PROVE  /\ IsFiniteSet(S \ {x})
           /\ Cardinality(S) \in Nat /\ Cardinality(S \ {x}) \in Nat
           /\ Cardinality(S \ {x}) = Cardinality(S) - 1
BY FS_RemoveElement, FS_CardinalityType

(* The three sets, element by element.                                     *)
LEMMA CountMembers ==
    /\ \A x : x \in Counts <=> \E p \in Problems : \E n \in 1 .. attemptCount[p] : x = <<p, n>>
    /\ \A x : x \in Servings <=>
          \/ \E s \in lockedAt : x = <<s, 0>>
          \/ \E s \in Sessions : \E n \in 1 .. shown[s].revision : x = <<s, n>>
BY DEF Counts, Servings

LEMMA CountMembersNext ==
    /\ \A x : x \in Counts' <=> \E p \in Problems : \E n \in 1 .. attemptCount'[p] : x = <<p, n>>
    /\ \A x : x \in Servings' <=>
          \/ \E s \in lockedAt' : x = <<s, 0>>
          \/ \E s \in Sessions : \E n \in 1 .. shown'[s].revision : x = <<s, n>>
BY DEF Counts, Servings

LEMMA ServingsFinite ==
    ASSUME TypeInv
    PROVE  IsFiniteSet(Servings)
<1>1. IsFiniteSet(0 .. MaxRevision)
  BY FS_Interval, ConstantsAssumption
<1>2. IsFiniteSet(Sessions \X (0 .. MaxRevision))
  BY <1>1, FS_Product, ConstantsAssumption
<1>3. Servings \subseteq Sessions \X (0 .. MaxRevision)
  <2>. SUFFICES ASSUME NEW x \in Servings PROVE x \in Sessions \X (0 .. MaxRevision)
    OBVIOUS
  <2>1. CASE \E s \in lockedAt : x = <<s, 0>>
    BY <2>1, ConstantsAssumption DEF TypeInv, TypeOK, RowsOK
  <2>2. CASE \E s \in Sessions : \E n \in 1 .. shown[s].revision : x = <<s, n>>
    <3>1. PICK s \in Sessions : \E n \in 1 .. shown[s].revision : x = <<s, n>>
      BY <2>2
    <3>2. shown[s].revision \in 0 .. MaxRevision
      BY DEF TypeInv, TypeOK, RowsOK, Assignment
    <3>. QED BY <3>1, <3>2, ConstantsAssumption
  <2>. QED BY <2>1, <2>2, CountMembers
<1>. QED BY <1>2, <1>3, FS_Subset

LEMMA ServedStep ==
    ASSUME TypeInv, CountInv, NEW r \in Handlers, Served(r)
    PROVE  IsFiniteSet(Counts') /\ IsFiniteSet(Counting') /\ AttemptsCountServings'
<1>1. /\ pc \in [Handlers -> Steps] /\ \A s \in Sessions : shown[s].revision \in Nat
      /\ lockedAt \subseteq Sessions
  BY DEF TypeInv, TypeOK, HandlersOK, RowsOK, Assignment
<1>2. Counts' = Counts
  BY CountMembers, CountMembersNext DEF Served
<1>3. r \notin Counting /\ Counting' = Counting \cup {r}
  BY <1>1 DEF Served, Counting, Handlers
<1>4. \E x : x \notin Servings /\ Servings' = Servings \cup {x}
  <2>1. PICK s \in Sessions :
          \/ /\ s \notin lockedAt /\ lockedAt' = lockedAt \cup {s}
             /\ \A t \in Sessions : shown'[t].revision = shown[t].revision
          \/ /\ lockedAt' = lockedAt
             /\ shown[s].revision < MaxRevision
             /\ shown'[s].revision = shown[s].revision + 1
             /\ \A t \in Sessions \ {s} : shown'[t].revision = shown[t].revision
    BY DEF Served
  <2>2. CASE s \notin lockedAt /\ lockedAt' = lockedAt \cup {s}
             /\ \A t \in Sessions : shown'[t].revision = shown[t].revision
    <3>1. <<s, 0>> \notin Servings
      BY <2>2, CountMembers
    <3>2. \A x : x \in Servings' <=> x \in Servings \cup {<<s, 0>>}
      BY <2>2, CountMembers, CountMembersNext
    <3>. QED BY <3>1, <3>2
  <2>3. CASE lockedAt' = lockedAt /\ shown'[s].revision = shown[s].revision + 1
             /\ \A t \in Sessions \ {s} : shown'[t].revision = shown[t].revision
    <3>. DEFINE n == shown[s].revision + 1
    <3>1. n \in Nat /\ n > 0 /\ 1 .. n = 1 .. shown[s].revision \cup {n}
          /\ n \notin 1 .. shown[s].revision
      BY <1>1
    <3>2. <<s, n>> \notin Servings
      BY <3>1, CountMembers
    <3>3. \A x : x \in Servings' <=> x \in Servings \cup {<<s, n>>}
      <4>1. \A t \in Sessions : \A m : m \in 1 .. shown'[t].revision
                <=> m \in 1 .. shown[t].revision \/ (t = s /\ m = n)
        BY <2>3, <3>1
      <4>. QED BY <2>3, <4>1, CountMembers, CountMembersNext
    <3>. QED BY <3>2, <3>3
  <2>. QED BY <2>1, <2>2, <2>3
<1>5. PICK x : x \notin Servings /\ Servings' = Servings \cup {x}
  BY <1>4
<1>6. IsFiniteSet(Servings) /\ IsFiniteSet(Counts) /\ IsFiniteSet(Counting)
  BY ServingsFinite DEF CountInv
<1>7. /\ Cardinality(Counting') = Cardinality(Counting) + 1 /\ Cardinality(Counting) \in Nat
      /\ IsFiniteSet(Counting')
  BY <1>3, <1>6, OneElementMore
<1>8. Cardinality(Servings') = Cardinality(Servings) + 1 /\ Cardinality(Servings) \in Nat
  BY <1>5, <1>6, OneElementMore
<1>9. Cardinality(Counts') = Cardinality(Counts) /\ Cardinality(Counts) \in Nat
  BY <1>2, <1>6, FS_CardinalityType
<1>. QED BY <1>2, <1>6, <1>7, <1>8, <1>9 DEF CountInv, AttemptsCountServings

LEMMA CountedStep ==
    ASSUME TypeInv, CountInv, NEW r \in Handlers, CountAttempt(r)
    PROVE  IsFiniteSet(Counts') /\ IsFiniteSet(Counting') /\ AttemptsCountServings'
<1>. DEFINE p == seen[r].problem
            n == attemptCount[p] + 1
<1>1. /\ pc \in [Handlers -> Steps] /\ attemptCount \in [Problems -> Nat]
  BY DEF TypeInv, TypeOK, HandlersOK, RecordsOK
<1>2. p \in Problems
  BY DEF CountAttempt, CountInv, CountsHaveProblem
<1>3. attemptCount' = [attemptCount EXCEPT ![p] = n] /\ pc' = [pc EXCEPT ![r] = "idle"]
      /\ shown' = shown /\ lockedAt' = lockedAt
  BY DEF CountAttempt, Answer, Leave, rowVars
<1>4. r \in Counting /\ Counting' = Counting \ {r}
  BY <1>1, <1>3 DEF CountAttempt, Counting, Handlers
<1>5. Servings' = Servings
  BY <1>3, CountMembers, CountMembersNext
<1>6. <<p, n>> \notin Counts /\ Counts' = Counts \cup {<<p, n>>}
  <2>1. n \in Nat /\ n > 0 /\ 1 .. n = 1 .. attemptCount[p] \cup {n}
        /\ n \notin 1 .. attemptCount[p]
    BY <1>1, <1>2
  <2>2. \A q \in Problems : \A m : m \in 1 .. attemptCount'[q]
            <=> m \in 1 .. attemptCount[q] \/ (q = p /\ m = n)
    BY <1>1, <1>2, <1>3, <2>1
  <2>3. \A x : x \in Counts' <=> x \in Counts \cup {<<p, n>>}
    BY <1>2, <2>2, CountMembers, CountMembersNext
  <2>4. <<p, n>> \notin Counts
    BY <2>1, CountMembers
  <2>. QED BY <2>3, <2>4
<1>. HIDE DEF n, p
<1>7. IsFiniteSet(Servings) /\ IsFiniteSet(Counts) /\ IsFiniteSet(Counting)
  BY ServingsFinite DEF CountInv
<1>8. /\ Cardinality(Counts') = Cardinality(Counts) + 1 /\ Cardinality(Counts) \in Nat
      /\ IsFiniteSet(Counts')
  BY <1>6, <1>7, OneElementMore
<1>9. /\ Cardinality(Counting') = Cardinality(Counting) - 1 /\ Cardinality(Counting) \in Nat
      /\ IsFiniteSet(Counting')
  BY <1>4, <1>7, OneElementLess
<1>10. Cardinality(Servings') = Cardinality(Servings) /\ Cardinality(Servings) \in Nat
  BY <1>5, <1>7, FS_CardinalityType
<1>. QED BY <1>8, <1>9, <1>10 DEF CountInv, AttemptsCountServings

LEMMA LostStep ==
    ASSUME TypeInv, CountInv, NEW r \in Handlers, Lost(r)
    PROVE  IsFiniteSet(Counts') /\ IsFiniteSet(Counting') /\ AttemptsCountServings'
<1>1. pc \in [Handlers -> Steps]
  BY DEF TypeInv, TypeOK, HandlersOK
<1>2. Counts' = Counts /\ Servings' = Servings
  BY CountMembers, CountMembersNext DEF Lost
<1>3. r \in Counting /\ Counting' = Counting \ {r}
  BY <1>1 DEF Lost, Counting, Handlers
<1>4. IsFiniteSet(Servings) /\ IsFiniteSet(Counts) /\ IsFiniteSet(Counting)
  BY ServingsFinite DEF CountInv
<1>5. /\ Cardinality(Counting') = Cardinality(Counting) - 1 /\ Cardinality(Counting) \in Nat
      /\ IsFiniteSet(Counting')
  BY <1>3, <1>4, OneElementLess
<1>6. Cardinality(Servings) \in Nat /\ Cardinality(Counts) \in Nat
  BY <1>4, FS_CardinalityType
<1>. QED BY <1>2, <1>4, <1>5, <1>6 DEF Lost, CountInv, AttemptsCountServings

LEMMA UnservedStep ==
    ASSUME TypeInv, CountInv, Unserved
    PROVE  IsFiniteSet(Counts') /\ IsFiniteSet(Counting') /\ AttemptsCountServings'
<1>1. Counts' = Counts
  BY CountMembers, CountMembersNext DEF Unserved
<1>2. Servings' = Servings
  BY CountMembers, CountMembersNext DEF Unserved
<1>3. Counting' = Counting
  BY DEF Unserved, SameCounting, Counting, Handlers
<1>. QED BY <1>1, <1>2, <1>3 DEF CountInv, AttemptsCountServings

LEMMA CountInit == Init => CountInv
<1>. SUFFICES ASSUME Init PROVE CountInv
  OBVIOUS
<1>1. \A p \in Problems : attemptCount[p] = 0
  BY DEF Init
<1>2. Counts = {}
  BY <1>1, CountMembers
<1>3. Counting = {} /\ CountsHaveProblem
  BY DEF Init, Counting, CountsHaveProblem, Handlers
<1>4. Servings = {}
  <2>1. lockedAt = {} /\ \A s \in Sessions : shown[s].revision = 0
    BY DEF Init, Unassigned
  <2>. QED BY <2>1, CountMembers
<1>. QED BY <1>2, <1>3, <1>4, FS_EmptySet DEF CountInv, AttemptsCountServings

(* Every serving of a problem is counted once, or at most once where       *)
(* statements may fail between the claim and its count.                    *)
THEOREM AttemptsCorrect == Spec => []AttemptsCountServings
<1>1. Init => LocksDated
  BY DEF Init, LocksDated
<1>2. TypeInv /\ LocksDated /\ [Next]_vars => LocksDated'
  BY LocksDatedStep
<1>3. TypeInv /\ LocksDated /\ CountInv /\ [Next]_vars => CountInv'
  <2>. SUFFICES ASSUME TypeInv, LocksDated, CountInv, [Next]_vars PROVE CountInv'
    OBVIOUS
  <2>1. CountsHaveProblem'
    BY CountsHaveProblemStep DEF CountInv
  <2>2. IsFiniteSet(Counts') /\ IsFiniteSet(Counting') /\ AttemptsCountServings'
    BY CountKinds, ServedStep, CountedStep, LostStep, UnservedStep
  <2>. QED BY <2>1, <2>2 DEF CountInv
<1>4. CountInv => AttemptsCountServings
  BY DEF CountInv
<1>. QED BY <1>1, <1>2, <1>3, <1>4, TypeInvariant, CountInit, PTL DEF Spec

=============================================================================

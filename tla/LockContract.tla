---------------------------- MODULE LockContract ----------------------------
(***************************************************************************)
(* What the server promises about the lock sessions of one user, with no   *)
(* handlers and no races: every transition happens at once, on the true    *)
(* state of the table.  LockSession implements it.                         *)
(*                                                                         *)
(* At most one session is armed or locked; a problem is chosen when the    *)
(* lock lands and never before; only a lock that landed can be solved,     *)
(* skipped or left by taking part; each session ends once; and a skip is   *)
(* spent only while the day's allowance is not.                            *)
(***************************************************************************)
EXTENDS Integers, FiniteSets

CONSTANTS Sessions, Problems, NoProblem, DailySkips, MaxDay, MaxRevision

VARIABLES state, shown, skippedOn, today

vars == <<state, shown, skippedOn, today>>

NoDay == -1

Unassigned == [problem |-> NoProblem, revision |-> 0, adjusted |-> FALSE]

Init ==
    /\ state = [s \in Sessions |-> "none"]
    /\ shown = [s \in Sessions |-> Unassigned]
    /\ skippedOn = [s \in Sessions |-> NoDay]
    /\ today = 0

Move(s, from, to) ==
    /\ state[s] \in from
    /\ state' = [state EXCEPT ![s] = to]

Arm(s) ==
    /\ \A t \in Sessions : state[t] \notin {"ARMED", "LOCKED"}
    /\ Move(s, {"none"}, "ARMED")
    /\ UNCHANGED <<shown, skippedOn, today>>

Lock(s, p) ==
    /\ Move(s, {"ARMED"}, "LOCKED")
    /\ shown[s] = Unassigned
    /\ shown' = [shown EXCEPT ![s] =
                    [problem |-> p, revision |-> 0, adjusted |-> FALSE]]
    /\ UNCHANGED <<skippedOn, today>>

Swap(s, p) ==
    /\ state[s] = "LOCKED"
    /\ p # shown[s].problem
    /\ shown[s].revision < MaxRevision
    /\ shown' = [shown EXCEPT ![s] =
                    [problem |-> p, revision |-> shown[s].revision + 1, adjusted |-> TRUE]]
    /\ UNCHANGED <<state, skippedOn, today>>

Solve(s) ==
    /\ Move(s, {"LOCKED"}, "UNLOCKED")
    /\ UNCHANGED <<shown, skippedOn, today>>

TakePart(s) ==
    /\ Move(s, {"LOCKED"}, "BYPASSED")
    /\ UNCHANGED <<shown, skippedOn, today>>

(* The day is the one the skip was asked for on.                           *)
Skip(s, d) ==
    /\ d <= today
    /\ Cardinality({t \in Sessions : skippedOn[t] = d}) < DailySkips
    /\ Move(s, {"LOCKED"}, "BYPASSED")
    /\ skippedOn' = [skippedOn EXCEPT ![s] = d]
    /\ UNCHANGED <<shown, today>>

GiveUp(s) ==
    /\ Move(s, {"ARMED", "LOCKED"}, "ABANDONED")
    /\ UNCHANGED <<shown, skippedOn, today>>

NewDay ==
    /\ today < MaxDay
    /\ today' = today + 1
    /\ UNCHANGED <<state, shown, skippedOn>>

Next ==
    \/ \E s \in Sessions :
          \/ Arm(s) \/ Solve(s) \/ TakePart(s) \/ GiveUp(s)
          \/ \E p \in Problems : Lock(s, p) \/ Swap(s, p)
          \/ \E d \in 0 .. MaxDay : Skip(s, d)
    \/ NewDay

Spec == Init /\ [][Next]_vars

=============================================================================

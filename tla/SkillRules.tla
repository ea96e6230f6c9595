----------------------------- MODULE SkillRules -----------------------------
(***************************************************************************)
(* The rules of the skill path (services/skills.ts), as operators on one   *)
(* learner's record of each skill: how a solve moves a record, and which   *)
(* problems are fair to serve to whom.                                     *)
(*                                                                         *)
(* The graph of the skills and what each problem requires are constants:   *)
(* the rules do not depend on which they are.                              *)
(***************************************************************************)
EXTENDS Integers, FiniteSets

CONSTANTS
    Skills,
    Prerequisites,  \* SKILL_PREREQUISITES: of each skill
    Depth,          \* a numbering of the skills along the prerequisites
    Problems,
    Requires        \* skillsRequiredBy: of each problem

UnaidedToDemonstrate == 2
MaxNew == 1

ASSUME SkillsAssumption ==
    /\ IsFiniteSet(Skills)
    /\ Prerequisites \in [Skills -> SUBSET Skills]
    /\ Depth \in [Skills -> Nat]
    /\ \A s \in Skills : \A r \in Prerequisites[s] : Depth[r] < Depth[s]
    /\ Requires \in [Problems -> SUBSET Skills]
    /\ \A p \in Problems : \A s \in Requires[p] : Prerequisites[s] \subseteq Requires[p]

SkillStates == {"not_introduced", "practised_with_help", "demonstrated", "due_for_review"}
SkillRecords == [state : SkillStates, unaided : Nat, assisted : Nat]
EmptySkillRecord == [state |-> "not_introduced", unaided |-> 0, assisted |-> 0]

(* Mutant: a solve with help starts the count again.                       *)
MutantRestart(r, assisted) ==
    IF assisted
    THEN [r EXCEPT !.assisted = @ + 1, !.unaided = 0,
                   !.state = IF @ = "not_introduced" THEN "practised_with_help" ELSE @]
    ELSE [r EXCEPT !.unaided = @ + 1,
                   !.state = IF r.unaided + 1 >= UnaidedToDemonstrate
                             THEN "demonstrated" ELSE "practised_with_help"]

(* advanceSkillState.                                                      *)
AdvanceSkillState(r, assisted) ==
    IF assisted
    THEN [r EXCEPT !.assisted = @ + 1,
                   !.state = IF @ = "not_introduced" THEN "practised_with_help" ELSE @]
    ELSE [r EXCEPT !.unaided = @ + 1,
                   !.state = IF r.unaided + 1 >= UnaidedToDemonstrate
                             THEN "demonstrated" ELSE "practised_with_help"]

(* Mutant: a skill whose review is due has to be shown again.              *)
MutantMarkDue(r) ==
    IF r.state = "demonstrated" THEN [r EXCEPT !.state = "practised_with_help"] ELSE r

MarkDueForReview(r) ==
    IF r.state = "demonstrated" THEN [r EXCEPT !.state = "due_for_review"] ELSE r

IsSatisfied(r)  == r.state \in {"demonstrated", "due_for_review"}
IsIntroduced(r) == r.state # "not_introduced"
IsPractised(r)  == IsSatisfied(r) \/ r.unaided >= 1 \/ r.assisted >= 2

----------------------------------------------------------------------------
(* What is fair, to a learner whose records are snap.                      *)

IsSkillReady(s, snap) == \A r \in Prerequisites[s] : IsIntroduced(snap[r])

Missing(p, snap) == {s \in Requires[p] : ~IsIntroduced(snap[s])}
Weak(p, snap)    == {s \in Requires[p] : IsIntroduced(snap[s]) /\ ~IsPractised(snap[s])}

(* fitForLearner.eligible: nothing that cannot be met yet, and at most one *)
(* idea that is new or hardly met.                                         *)
IsFair(p, snap) ==
    /\ \A s \in Missing(p, snap) : IsSkillReady(s, snap)
    /\ Cardinality(Missing(p, snap) \cup Weak(p, snap)) <= MaxNew

Stretches(p, snap) == \E s \in Requires[p] : ~IsSatisfied(snap[s])

=============================================================================

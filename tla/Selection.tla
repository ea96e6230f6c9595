----------------------------- MODULE Selection -----------------------------
(***************************************************************************)
(* The problem a lock serves (services/problemSelector.ts pickProblem),    *)
(* with the rules it stands on: what must not come back (repetition.ts),   *)
(* the two pools and relief (stretch.ts), and what the learner's evenings  *)
(* then do to the next choice.                                             *)
(*                                                                         *)
(* pickProblem walks a ladder of filters.  Each rung is two queries, the   *)
(* matching rows and then a sample of the fair ones, and the corpus may be *)
(* edited between them; the learner's history is read once, at the start.  *)
(* What the progression gate and the difficulty engine ask for is any      *)
(* member of Gates.  Rungs that the code skips when no families or tiers   *)
(* were asked for repeat here the rung before them.                        *)
(***************************************************************************)
EXTENDS SkillRules, Sequences, FiniteSetsExt

CONSTANTS
    Gates,          \* difficulty, tiers and families: [band, tier, family]
    Seconds,        \* avgSolveSeconds of each problem
    Budgets,        \* the learner's time budgets, 0 for none
    CandidatePool,  \* CANDIDATE_POOL
    MaxEdits,       \* bound: how often a problem is switched on or off
    NoProblem

ASSUME SelectionAssumption ==
    /\ IsFiniteSet(Problems)
    /\ Problems # {}
    /\ Gates \subseteq [band : SUBSET Problems, tier : SUBSET Problems, family : SUBSET Problems]
    /\ Seconds \in [Problems -> Nat]
    /\ Budgets \subseteq Nat
    /\ CandidatePool \in Nat \ {0}
    /\ MaxEdits \in Nat
    /\ NoProblem \notin Problems

(* The corpus teaches every skill: some problem needs it, and besides it   *)
(* only what comes before it.                                              *)
CorpusTeaches ==
    \A s \in Skills : \E p \in Problems :
        s \in Requires[p] /\ \A r \in Requires[p] : r = s \/ Depth[r] < Depth[s]

NoServed == [problem |-> NoProblem, fair |-> FALSE, pool |-> "none", within |-> FALSE]
NoGate   == [band |-> {}, tier |-> {}, family |-> {}]

VARIABLES
    active,     \* Problem.isActive
    edits,      \* how often it has been changed
    snap,       \* where the learner is
    recent,     \* attempted within REPEAT_COOLDOWN_DAYS
    solved,     \* accepted, ever
    outcomes,   \* the last two locks, newest first
    stage,      \* of the selection
    ask,        \* the gate and the budget
    rung,       \* the rung being tried
    ids,        \* the fair rows of the chosen pool
    pool,
    fallback,   \* the first rung that matched anything, and its rows
    served

history == <<snap, recent, solved, outcomes>>
walk    == <<ask, rung, ids, pool, fallback>>
corpus  == <<active, edits>>
vars    == <<corpus, history, stage, walk, served>>

Pools == {"stretch", "consolidating"}
Outcomes == [stretch : BOOLEAN, ending : {"solved", "worked_solution", "left"},
             unaided : BOOLEAN]     \* the last is not read by the code

Init ==
    /\ active = Problems
    /\ edits = 0
    /\ snap = [s \in Skills |-> EmptySkillRecord]
    /\ recent = {} /\ solved = {} /\ outcomes = <<>>
    /\ stage = "idle"
    /\ ask = [gate |-> NoGate, budget |-> 0]
    /\ rung = 0 /\ ids = {} /\ pool = "none"
    /\ fallback = [rung |-> 0, ids |-> {}]
    /\ served = NoServed

----------------------------------------------------------------------------
(* excludedFromLocks.                                                      *)
Excluded ==
    recent \cup {p \in solved : \A s \in Requires[p] : snap[s].state = "demonstrated"}

IsHard(lock) == lock.stretch /\ lock.ending # "solved"

(* needsRelief.                                                            *)
NeedsRelief == Len(outcomes) = 2 /\ IsHard(outcomes[1]) /\ IsHard(outcomes[2])

(* Mutant: the walk keeps to the curriculum.                               *)
MutantLastRung == IF ask.budget > 0 THEN 7 ELSE 2

LastRung == IF ask.budget > 0 THEN 8 ELSE 5
IsPastBudget(r) == r > 5

(* The filters of the ladder: five rungs, and three more without budget.   *)
Ladder(r) ==
    LET g == ask.gate IN
    CASE r \in {1, 6} -> (g.band \cap g.tier \cap g.family) \ Excluded
      [] r \in {2, 7} -> g.band \cap g.tier \cap g.family
      [] r = 3        -> g.band \cap g.tier
      [] r = 4        -> g.band
      [] OTHER        -> Problems

IsBudgeted(r) == ask.budget > 0 /\ ~IsPastBudget(r)

(* What a rung's query finds now.                                          *)
Rows(r) == {p \in active \cap Ladder(r) : IsBudgeted(r) => Seconds[p] <= ask.budget}

(* Mutant: the fair ones are looked for on the rung's first page, hardest  *)
(* first.                                                                  *)
MutantFairRows(r) ==
    {p \in Rows(r) :
        /\ IsFair(p, snap)
        /\ Cardinality({q \in Rows(r) : Cardinality(Requires[q]) > Cardinality(Requires[p])})
             < CandidatePool}

FairRows(r) == {p \in Rows(r) : IsFair(p, snap)}

(* splitPools.                                                             *)
InPool(c, rows) == {p \in rows : Stretches(p, snap) <=> c = "stretch"}

(* choosePool: the pools that it may return.                               *)
ChoosePool(rows) ==
    IF NeedsRelief /\ InPool("consolidating", rows) # {}
    THEN {"consolidating"}
    ELSE {c \in Pools : InPool(c, rows) # {}}

(* Mutant: the sample is trusted to be what the first query found.         *)
MutantSamples(from, r) == kSubset(Min({CandidatePool, Cardinality(from)}), from)

(* sampleFrom: a sample of the ids, of which the query finds the rows that *)
(* still match.                                                            *)
Samples(from, r) ==
    {s \cap Rows(r) : s \in kSubset(Min({CandidatePool, Cardinality(from)}), from)}

----------------------------------------------------------------------------
Ask(g, b) ==
    /\ stage \in {"idle", "refused"}
    /\ stage' = "rung"
    /\ ask' = [gate |-> g, budget |-> b]
    /\ rung' = 1 /\ ids' = {} /\ pool' = "none"
    /\ fallback' = [rung |-> 0, ids |-> {}]
    /\ UNCHANGED <<corpus, history, served>>

Remembered == IF fallback.ids = {} THEN [rung |-> rung, ids |-> Rows(rung)] ELSE fallback

(* A rung's rows, and the pool among the fair ones.                        *)
TryRung ==
    /\ stage = "rung" /\ rung <= LastRung
    /\ fallback' = Remembered
    /\ \/ /\ FairRows(rung) = {}
          /\ rung' = rung + 1
          /\ UNCHANGED <<stage, ids, pool>>
       \/ \E c \in ChoosePool(FairRows(rung)) :
             /\ pool' = c
             /\ ids' = InPool(c, FairRows(rung))
             /\ stage' = "sample"
             /\ UNCHANGED rung
    /\ UNCHANGED <<corpus, history, ask, served>>

(* bucketedPick, or past the budget shortestOf.                            *)
PickOf(rows) ==
    {p \in rows : IsPastBudget(rung) => \A q \in rows : Seconds[p] <= Seconds[q]}

Sample ==
    /\ stage = "sample"
    /\ \E rows \in Samples(ids, rung) :
          \/ /\ rows = {}
             /\ stage' = "rung" /\ rung' = rung + 1
             /\ UNCHANGED served
          \/ \E p \in PickOf(rows) :
                /\ served' = [problem |-> p, fair |-> TRUE, pool |-> pool,
                              within |-> ~IsPastBudget(rung)]
                /\ stage' = "served"
                /\ UNCHANGED rung
    /\ UNCHANGED <<corpus, history, ask, ids, pool, fallback>>

(* No rung had a fair one: any of the first rung that had one at all.      *)
FallBack ==
    /\ stage = "rung" /\ rung > LastRung
    /\ \/ /\ fallback.ids # {}
          /\ \E rows \in Samples(fallback.ids, fallback.rung) :
                \/ rows = {} /\ stage' = "refused" /\ UNCHANGED served
                \/ \E p \in rows :
                      /\ served' = [problem |-> p, fair |-> FALSE, pool |-> "none",
                                    within |-> ask.budget = 0]
                      /\ stage' = "served"
       \/ fallback.ids = {} /\ stage' = "refused" /\ UNCHANGED served
    /\ UNCHANGED <<corpus, history, walk>>

----------------------------------------------------------------------------
Capped(r) == [r EXCEPT !.unaided = Min({2, @}), !.assisted = Min({2, @})]
Freshened(r) == [r EXCEPT !.state = IF @ = "due_for_review" THEN "demonstrated" ELSE @]

(* A passing submission.  A replayed record does not change in what the    *)
(* rules read once its counts have reached two.                            *)
Accept(p, assisted) ==
    /\ snap' = [s \in Skills |->
                  IF s \in Requires[p]
                  THEN Capped(AdvanceSkillState(Freshened(snap[s]), assisted))
                  ELSE snap[s]]
    /\ recent' = recent \cup {p}
    /\ solved' = solved \cup {p}

(* The lock is over: what loadRecentLockOutcomes will read of it.          *)
End(ending, unaided) ==
    /\ outcomes' = SubSeq(<<[stretch |-> served.pool = "stretch", ending |-> ending,
                             unaided |-> unaided]>> \o outcomes,
                          1, Min({2, Len(outcomes) + 1}))
    /\ stage' = "idle"
    /\ served' = NoServed
    /\ ask' = [gate |-> NoGate, budget |-> 0]
    /\ rung' = 0 /\ ids' = {} /\ pool' = "none"
    /\ fallback' = [rung |-> 0, ids |-> {}]

(* Solved on the learner's own, with a hint, or with the worked solution.  *)
Solve ==
    /\ stage = "served"
    /\ served.problem \in active
    /\ \/ Accept(served.problem, FALSE) /\ End("solved", TRUE)
       \/ Accept(served.problem, TRUE) /\ End("solved", FALSE)
       \/ Accept(served.problem, TRUE) /\ End("worked_solution", FALSE)
    /\ UNCHANGED corpus

SolveUnaided ==
    /\ stage = "served"
    /\ served.problem \in active
    /\ Accept(served.problem, FALSE)
    /\ End("solved", TRUE)
    /\ UNCHANGED corpus

(* Skipped, bypassed or given up.                                          *)
Leave ==
    /\ stage = "served"
    /\ End("left", FALSE)
    /\ UNCHANGED <<corpus, snap, recent, solved>>

(* A submission that fails.                                                *)
Attempt ==
    /\ stage = "served"
    /\ served.problem \in active
    /\ recent' = recent \cup {served.problem}
    /\ UNCHANGED <<corpus, snap, solved, outcomes, stage, walk, served>>

(* chooseReplacement: of another band, not what is on the screen nor what  *)
(* must not come back, and for "too hard" a stretch if there is one.       *)
Replacements(band, hard) ==
    LET rows == {p \in active \cap band :
                    p # served.problem /\ p \notin Excluded /\ IsFair(p, snap)}
    IN  IF hard /\ InPool("stretch", rows) # {} THEN InPool("stretch", rows) ELSE rows

(* swapProblem.  Its row in the log names no pool.                         *)
Swap ==
    /\ stage = "served"
    /\ \E g \in Gates, hard \in BOOLEAN : \E p \in Replacements(g.band, hard) :
          served' = [served EXCEPT !.problem = p, !.fair = TRUE, !.pool = "none"]
    /\ UNCHANGED <<corpus, history, stage, walk>>

(* Practice, between locks.                                                *)
Practise(p) ==
    /\ stage = "idle"
    /\ p \in active
    /\ \E assisted \in BOOLEAN : Accept(p, assisted)
    /\ UNCHANGED <<corpus, outcomes, stage, walk, served>>

(* The debrief of a lock that is over is opened.                           *)
Debrief ==
    /\ stage = "idle"
    /\ \E i \in DOMAIN outcomes :
          /\ outcomes[i].ending = "solved"
          /\ outcomes' = [outcomes EXCEPT ![i].ending = "worked_solution"]
    /\ UNCHANGED <<corpus, snap, recent, solved, stage, walk, served>>

(* A review comes due after a week without the skill.                      *)
ComeDue(s) ==
    /\ stage = "idle"
    /\ snap[s].state = "demonstrated"
    /\ snap' = [snap EXCEPT ![s] = MarkDueForReview(@)]
    /\ UNCHANGED <<corpus, recent, solved, outcomes, stage, walk, served>>

(* Three weeks after the last attempt.  A skill of the problem that is not *)
(* due by then was used since, in another.                                 *)
CoolDown(p) ==
    /\ stage = "idle"
    /\ p \in recent
    /\ \A s \in Requires[p] :
          snap[s].state = "demonstrated" =>
              \E q \in (recent \cap solved) \ {p} : s \in Requires[q]
    /\ recent' = recent \ {p}
    /\ UNCHANGED <<corpus, snap, solved, outcomes, stage, walk, served>>

(* The importer and the curators switch problems on and off.               *)
Edit(p) ==
    /\ edits < MaxEdits
    /\ edits' = edits + 1
    /\ active' = IF p \in active THEN active \ {p} ELSE active \cup {p}
    /\ UNCHANGED <<history, stage, walk, served>>

InLocks ==
    \/ \E g \in Gates, b \in Budgets : Ask(g, b)
    \/ TryRung \/ Sample \/ FallBack
    \/ Solve \/ Leave \/ Attempt \/ Swap \/ Debrief
    \/ \E p \in Problems : CoolDown(p) \/ Edit(p)
    \/ \E s \in Skills : ComeDue(s)

Next == InLocks \/ \E p \in Problems : Practise(p)

Spec == Init /\ [][Next]_vars

(* A learner who meets problems in locks only, where practice might keep   *)
(* the ones that matter from coming back.  Locks keep coming; a pool and   *)
(* a problem that may be picked again and again are picked ("every         *)
(* eligible problem keeps a real chance", problemSelector.ts:438); what    *)
(* was attempted comes back when it is not attempted again; and a problem  *)
(* served again and again is at times solved without help.                 *)
EagerSpec ==
    /\ Init /\ [][InLocks]_vars
    /\ \A c \in Pools : SF_vars(TryRung /\ pool' = c)
    /\ \A p \in Problems : SF_vars(Sample /\ served'.problem = p)
    /\ \A p \in Problems : SF_vars(SolveUnaided /\ served.problem = p)
    /\ \A p \in Problems : SF_vars(CoolDown(p))
    /\ WF_vars(\/ \E g \in Gates, b \in Budgets : Ask(g, b)
               \/ TryRung \/ FallBack \/ Solve \/ Leave)

----------------------------------------------------------------------------
(* Each variable keeps its kind, and what is on its way is there: a sample *)
(* is drawn from a pool of fair rows, and a lock shows a problem.          *)
TypeOK ==
    /\ active \subseteq Problems
    /\ edits \in 0 .. MaxEdits
    /\ snap \in [Skills -> [state : SkillStates, unaided : 0 .. 2, assisted : 0 .. 2]]
    /\ recent \subseteq Problems /\ solved \subseteq Problems
    /\ outcomes \in {<<>>} \cup [1 .. 1 -> Outcomes] \cup [1 .. 2 -> Outcomes]
    /\ stage \in {"idle", "rung", "sample", "served", "refused"}
    /\ rung \in 0 .. LastRung + 1
    /\ stage = "sample" => pool \in Pools /\ ids # {} /\ ids \subseteq Problems
    /\ fallback.ids \subseteq Problems
    /\ stage = "served" => served.problem \in Problems

(* problemSelector.ts:377: an unopenable lock is the one outcome this must *)
(* never produce.  It is refused only if no problem is active at all.      *)
NeverRefused == [][edits = 0 => ~(stage' = "refused" /\ stage # "refused")]_vars

(* ... and so it says of a corpus that is edited meanwhile: a refusal      *)
(* means that no problem is active.                                        *)
RefusedOnlyWhenEmpty ==
    [][stage' = "refused" /\ stage # "refused" => active = {}]_vars

Serves == stage # "served" /\ stage' = "served"

(* Where the corpus teaches every skill, nobody is ever served out of      *)
(* depth, whatever they have done and whatever the gate asks for.          *)
NeverOutOfDepth == [][Serves /\ edits = 0 => served'.fair]_vars

(* problemSelector.ts:285: a rung is never relaxed merely because a sample *)
(* missed the fair problems in it; out of depth is the last resort.        *)
NearestServed ==
    [][Serves /\ edits = 0 => \A r \in 1 .. rung - 1 : \A p \in Rows(r) : ~IsFair(p, snap)]_vars

(* A lock is longer than the learner agreed to only when no fair problem   *)
(* is within the budget, and then it is said.  (A problem switched off     *)
(* after it was drawn takes the other fair ones of its rung with it.)      *)
BudgetKept ==
    [][Serves /\ served'.fair /\ edits = 0 /\ Seconds[served'.problem] > ask.budget
         => \/ ask.budget = 0
            \/ ~served'.within /\ \A p \in active : IsFair(p, snap) => Seconds[p] > ask.budget]_vars

(* problemSelector.ts:397: past the budget the shortest problem wins       *)
(* outright.                                                               *)
ShortestWins ==
    [][Serves /\ served'.fair /\ IsPastBudget(rung)
         => \A p \in ids : Seconds[served'.problem] <= Seconds[p]]_vars

(* So far problems were only switched off: one edit for each that is.      *)
OnlyRetired == edits = Cardinality(Problems \ active)

(* stretch.ts:88: after two hard stretch locks the next is a breather, if  *)
(* the rung has one; also when problems are switched off meanwhile.        *)
ReliefGiven ==
    [][Serves /\ NeedsRelief /\ served'.fair /\ OnlyRetired
         => \/ served'.pool = "consolidating"
            \/ InPool("consolidating", FairRows(rung)) = {}]_vars

(* problemSelector.ts:355: the ladder is walked again without the budget;  *)
(* then too a nearer problem comes first.                                  *)
NearestServedPastBudget ==
    [][Serves /\ served'.fair /\ IsPastBudget(rung)
         => \/ served'.problem \in Ladder(3)
            \/ \A p \in active \cap Ladder(3) : ~IsFair(p, snap)]_vars

(* problemSelector.ts:73: what is served is active when it is served, and  *)
(* said to be within the budget only if it is, though problems are         *)
(* switched on and off between the queries.                                *)
ServesActive ==
    [][Serves => /\ served'.problem \in active
                 /\ (served'.within /\ ask.budget > 0) => Seconds[served'.problem] <= ask.budget]_vars

(* All three: what is served is what was asked for, and what is there.     *)
ServesAsAsked == BudgetKept /\ ReliefGiven /\ ServesActive

(* problemSelector.ts:97: withinBudget is false when no problem fitting    *)
(* the learner's time budget could be served.                              *)
WithinBudgetTruth ==
    [][Serves /\ ask.budget > 0 /\ Seconds[served'.problem] <= ask.budget
         => served'.within]_vars

(* stretch.ts:38: review is served elsewhere, never as a lock.             *)
NoReviewAsLock ==
    [][Serves /\ served'.problem \in solved
         => \E s \in Requires[served'.problem] : snap[s].state # "due_for_review"
                                              /\ snap[s].state # "demonstrated"]_vars

(* problemSelector.ts:116: an ending is that of the worked solution when   *)
(* it was opened before the solve.                                         *)
ReliefIsEarned ==
    NeedsRelief => \A i \in DOMAIN outcomes : ~outcomes[i].unaided

(* skills.test.ts:433: the path can be walked from nothing to every skill  *)
(* demonstrated.                                                           *)
AllLearned == <>(\A s \in Skills : IsSatisfied(snap[s]))

=============================================================================

-------------------------- MODULE SkillPath_proofs --------------------------
(***************************************************************************)
(* The skill path, proved by TLAPS: what pickProblem serves, for every     *)
(* corpus, graph of skills, gate and budget, and what the replay of the    *)
(* log gives, for every log, graph and limit.                              *)
(*                                                                         *)
(* Selection.  The invariant is the walk's: the rungs behind it have no    *)
(* fair problem, and the fallback is empty only if they have no problem    *)
(* at all.  The last rung is the whole corpus, so a walk that ends there   *)
(* has met every problem; and a corpus that teaches every skill always has *)
(* a fair one, that of the first skill on the path which the learner       *)
(* cannot lean on.  That everybody is served, and fairly, is proved while  *)
(* the corpus stands (TLC refutes it for one that is edited meanwhile);    *)
(* what is served is what was asked for, whatever is edited.               *)
(*                                                                         *)
(* SkillReplay.  The replay and the episodes are recursive functions on    *)
(* the rows of the log: they exist, and what holds of them at every row is *)
(* proved by the least row at which it would not (UpTo).  Agrees is the    *)
(* invariant of the replay: a record holds the counts of the episodes so   *)
(* far, and its state follows from them.                                   *)
(***************************************************************************)
EXTENDS Selection, SkillReplay, TLAPS, FiniteSetTheorems, WellFoundedInduction

CannotLeanOn == {s \in Skills : ~(IsIntroduced(snap[s]) /\ IsPractised(snap[s]))}

(* Of the skills that the learner cannot lean on, some are first.          *)
LEMMA FirstOne ==
    ASSUME CannotLeanOn # {}
    PROVE  \E s \in CannotLeanOn : \A r \in CannotLeanOn : ~(Depth[r] < Depth[s])
<1>. DEFINE Depths == {Depth[s] : s \in CannotLeanOn}
<1>1. Depths \subseteq Nat /\ Depths # {}
  BY SkillsAssumption DEF CannotLeanOn
<1>2. PICK n \in Depths : \A m \in Depths : ~(<<m, n>> \in OpToRel(<, Nat))
  <2>1. IsWellFoundedOn(OpToRel(<, Nat), Nat)
    BY NatLessThanWellFounded
  <2>. HIDE DEF Depths
  <2>. QED BY <1>1, <2>1, WFMin
<1>3. PICK s \in CannotLeanOn : n = Depth[s]
  BY <1>2
<1>4. \A r \in CannotLeanOn : ~(Depth[r] < Depth[s])
  <2>. SUFFICES ASSUME NEW r \in CannotLeanOn, Depth[r] < Depth[s] PROVE FALSE
    OBVIOUS
  <2>1. Depth[r] \in Depths /\ Depth[r] \in Nat /\ n \in Nat
    BY <1>1, <1>2
  <2>2. <<Depth[r], n>> \in OpToRel(<, Nat)
    BY <2>1, <1>3 DEF OpToRel
  <2>. QED BY <1>2, <2>1, <2>2
<1>. QED BY <1>4

LEMMA AtMostOne ==
    ASSUME NEW s, NEW S, S \subseteq {s}
    PROVE  Cardinality(S) <= MaxNew
<1>1. S = {} \/ S = {s}
  OBVIOUS
<1>2. Cardinality({}) = 0 /\ Cardinality({s}) = 1
  BY FS_EmptySet, FS_Singleton
<1>. QED BY <1>1, <1>2 DEF MaxNew

(* A corpus that teaches every skill has a fair problem for anyone.        *)
LEMMA SomethingFair ==
    ASSUME CorpusTeaches
    PROVE  \E p \in Problems : IsFair(p, snap)
<1>1. CASE CannotLeanOn = {}
  <2>1. PICK p \in Problems : TRUE
    BY SelectionAssumption
  <2>2. Missing(p, snap) = {} /\ Weak(p, snap) = {}
    BY <1>1, SkillsAssumption DEF CannotLeanOn, Missing, Weak
  <2>3. Cardinality(Missing(p, snap) \cup Weak(p, snap)) <= MaxNew
    BY <2>2, AtMostOne
  <2>. QED BY <2>1, <2>2, <2>3 DEF IsFair
<1>2. CASE CannotLeanOn # {}
  <2>1. PICK s \in CannotLeanOn : \A r \in CannotLeanOn : ~(Depth[r] < Depth[s])
    BY <1>2, FirstOne
  <2>2. s \in Skills
    BY DEF CannotLeanOn
  <2>3. PICK p \in Problems :
          s \in Requires[p] /\ \A r \in Requires[p] : r = s \/ Depth[r] < Depth[s]
    BY <2>2 DEF CorpusTeaches
  <2>4. Requires[p] \subseteq Skills
    BY SkillsAssumption
  <2>5. Missing(p, snap) \cup Weak(p, snap) \subseteq {s}
    <3>1. Missing(p, snap) \cup Weak(p, snap) \subseteq CannotLeanOn \cap Requires[p]
      BY <2>4 DEF CannotLeanOn, Missing, Weak
    <3>. QED BY <3>1, <2>1, <2>3
  <2>6. IsSkillReady(s, snap)
    <3>1. \A r \in Prerequisites[s] : r \in Skills /\ Depth[r] < Depth[s]
      BY <2>2, SkillsAssumption
    <3>. QED BY <3>1, <2>1 DEF IsSkillReady, CannotLeanOn
  <2>7. \A r \in Missing(p, snap) : IsSkillReady(r, snap)
    BY <2>5, <2>6
  <2>8. Cardinality(Missing(p, snap) \cup Weak(p, snap)) <= MaxNew
    BY <2>5, AtMostOne
  <2>. QED BY <2>3, <2>7, <2>8 DEF IsFair
<1>. QED BY <1>1, <1>2

----------------------------------------------------------------------------
(* A sample of rows is of those rows, and not empty if they are not.       *)
LEMMA SampleOfSome ==
    ASSUME NEW from, from \subseteq Problems, from # {}, NEW r, from \subseteq Rows(r),
           NEW rows \in Samples(from, r)
    PROVE  rows # {} /\ rows \subseteq from
<1>1. IsFiniteSet(from)
  BY SelectionAssumption, FS_Subset
<1>2. Cardinality(from) \in Nat /\ Cardinality(from) # 0
  BY <1>1, FS_CardinalityType, FS_EmptySet
<1>. DEFINE k == Min({CandidatePool, Cardinality(from)})
<1>3. CandidatePool \in Nat \ {0}
  BY SelectionAssumption
<1>4. k \in {CandidatePool, Cardinality(from)}
  <2>. DEFINE S == {CandidatePool, Cardinality(from)}
  <2>1. \E x \in S : \A y \in S : x <= y
    BY ONLY <1>2, <1>3
  <2>. QED BY ONLY <2>1 DEF Min
<1>5. PICK s \in SUBSET from : Cardinality(s) = k /\ rows = s \cap Rows(r)
  BY DEF Samples, kSubset
<1>6. s # {}
  BY <1>2, <1>3, <1>4, <1>5, FS_EmptySet
<1>. QED BY <1>5, <1>6

NoneFairBelow(r) == \A k \in 1 .. r - 1 : \A p \in Rows(k) : ~IsFair(p, snap)
NoneBelow(r)     == \A k \in 1 .. r - 1 : Rows(k) = {}

Walking == stage \in {"rung", "sample"}

(* The inductive invariant: this, as long as the corpus is not edited.     *)
WalkInv ==
    /\ active = Problems
    /\ Walking => rung \in 1 .. LastRung + 1 /\ NoneFairBelow(rung)
    /\ Walking => fallback.ids \subseteq Rows(fallback.rung)
    /\ stage = "rung" => fallback.ids # {} \/ NoneBelow(rung)
    /\ stage = "sample" => fallback.ids # {} /\ rung <= LastRung /\ ids # {} /\ ids \subseteq FairRows(rung)

IInv == edits \in Nat /\ (edits = 0 => WalkInv)

LEMMA LastRungs == LastRung \in {5, 8}
BY DEF LastRung

(* The last rung finds whatever is active.                                 *)
LEMMA LastFindsAll == ASSUME active = Problems PROVE Rows(LastRung) = Problems
<1>1. CASE ask.budget > 0
  BY <1>1 DEF Rows, LastRung, Ladder, IsBudgeted, IsPastBudget
<1>2. CASE ~(ask.budget > 0)
  BY <1>2 DEF Rows, LastRung, Ladder, IsBudgeted, IsPastBudget
<1>. QED BY <1>1, <1>2

LEMMA RowsAreProblems == ASSUME active = Problems, NEW r PROVE Rows(r) \subseteq Problems
BY DEF Rows

(* What was remembered is of its rung.                                     *)
LEMMA WhatIsKept ==
    ASSUME ask' = ask, snap' = snap, recent' = recent, solved' = solved, active' = active
    PROVE  /\ LastRung' = LastRung
           /\ \A r : Rows(r)' = Rows(r)
           /\ \A r : FairRows(r)' = FairRows(r)
           /\ \A r : NoneFairBelow(r)' <=> NoneFairBelow(r)
           /\ \A r : NoneBelow(r)' <=> NoneBelow(r)
<1>1. LastRung' = LastRung
  BY DEF LastRung
<1>2. Excluded' = Excluded
  BY DEF Excluded
<1>3. \A r : Ladder(r)' = Ladder(r) /\ (IsBudgeted(r)' <=> IsBudgeted(r))
  BY <1>2 DEF Ladder, IsBudgeted, IsPastBudget
<1>4. \A r : Rows(r)' = Rows(r)
  BY <1>3 DEF Rows
<1>. QED BY <1>1, <1>4 DEF FairRows, NoneFairBelow, NoneBelow, IsFair

LEMMA WalkInit == Init => WalkInv
BY DEF Init, WalkInv, Walking

(* Each step keeps the invariant.                                          *)
LEMMA WalkNext ==
    ASSUME edits \in Nat, edits' = 0, WalkInv, [Next]_vars
    PROVE  WalkInv'
<1>. USE DEF corpus
<1>1. ASSUME NEW g \in Gates, NEW b \in Budgets, Ask(g, b)
      PROVE  WalkInv'
  <2>1. /\ active' = active /\ stage' = "rung" /\ rung' = 1
        /\ fallback' = [rung |-> 0, ids |-> {}]
    BY <1>1 DEF Ask
  <2>2. NoneFairBelow(rung)' /\ NoneBelow(rung)'
    BY <2>1 DEF NoneFairBelow, NoneBelow
  <2>3. LastRung' = 5 \/ LastRung' = 8
    BY DEF LastRung
  <2>4. rung' \in 1 .. LastRung' + 1
    <3>1. rung' = 1
      BY <2>1
    <3>. HIDE DEF LastRung
    <3>. QED BY ONLY <2>3, <3>1
  <2>. QED BY <2>1, <2>2, <2>4 DEF WalkInv, Walking
<1>2. CASE TryRung
  <2>1. /\ stage = "rung" /\ rung <= LastRung /\ fallback' = Remembered
        /\ UNCHANGED <<corpus, snap, recent, solved, ask>>
    BY <1>2 DEF TryRung, history
  <2>2. rung \in 1 .. LastRung + 1 /\ NoneFairBelow(rung) /\ rung \in Nat /\ LastRung \in Nat
    BY <2>1, LastRungs DEF WalkInv, Walking
  <2>3. /\ Remembered.ids \subseteq Rows(Remembered.rung)
        /\ Remembered.ids # {} \/ (NoneBelow(rung) /\ Rows(rung) = {})
    <3>1. fallback.ids \subseteq Rows(fallback.rung) /\ (fallback.ids # {} \/ NoneBelow(rung))
      BY <2>1 DEF WalkInv, Walking
    <3>2. CASE fallback.ids = {}
      <4>1. Remembered = [rung |-> rung, ids |-> Rows(rung)]
        BY <3>2 DEF Remembered
      <4>. HIDE DEF Remembered
      <4>. QED BY <3>1, <3>2, <4>1
    <3>3. CASE fallback.ids # {}
      <4>1. Remembered = fallback
        BY <3>3 DEF Remembered
      <4>. QED BY <3>1, <3>3, <4>1
    <3>. QED BY <3>2, <3>3
  <2>4. /\ \A r : Rows(r)' = Rows(r)
        /\ \A r : FairRows(r)' = FairRows(r)
        /\ \A r : NoneFairBelow(r)' <=> NoneFairBelow(r)
        /\ \A r : NoneBelow(r)' <=> NoneBelow(r)
        /\ LastRung' = LastRung
    BY <2>1, WhatIsKept
  <2>5. CASE FairRows(rung) = {} /\ rung' = rung + 1 /\ UNCHANGED <<stage, ids, pool>>
    <3>1. NoneFairBelow(rung + 1)
      BY <2>2, <2>5 DEF NoneFairBelow, FairRows
    <3>2. Remembered.ids # {} \/ NoneBelow(rung + 1)
      BY <2>2, <2>3 DEF NoneBelow
    <3>3. rung' \in 1 .. LastRung' + 1
      BY <2>1, <2>2, <2>4, <2>5
    <3>4. NoneFairBelow(rung)' /\ (fallback.ids # {} \/ NoneBelow(rung))'
      BY <2>1, <2>4, <2>5, <3>1, <3>2 DEF NoneFairBelow, NoneBelow
    <3>5. fallback'.ids \subseteq Rows(fallback.rung)'
      BY <2>1, <2>3, <2>4 DEF Rows
    <3>6. stage' = "rung" /\ active' = Problems
      BY <2>1, <2>5 DEF WalkInv
    <3>. QED BY <3>3, <3>4, <3>5, <3>6 DEF WalkInv, Walking
  <2>6. ASSUME NEW c \in ChoosePool(FairRows(rung)), pool' = c,
               ids' = InPool(c, FairRows(rung)), stage' = "sample", UNCHANGED rung
        PROVE  WalkInv'
    <3>1. InPool(c, FairRows(rung)) # {}
      BY <2>6 DEF ChoosePool
    <3>2. InPool(c, FairRows(rung)) \subseteq FairRows(rung) /\ FairRows(rung) \subseteq Rows(rung)
      BY DEF InPool, FairRows
    <3>3. Remembered.ids # {}
      BY <2>3, <3>1, <3>2
    <3>4. ids' # {} /\ ids' \subseteq FairRows(rung)'
      BY <2>4, <2>6, <3>1, <3>2 DEF FairRows
    <3>5. NoneFairBelow(rung)' /\ rung' \in 1 .. LastRung' + 1 /\ rung' <= LastRung'
      BY <2>1, <2>2, <2>4, <2>6 DEF NoneFairBelow
    <3>6. fallback'.ids \subseteq Rows(fallback.rung)' /\ fallback'.ids # {}
      BY <2>1, <2>3, <2>4, <3>3 DEF Rows
    <3>7. stage' = "sample" /\ active' = Problems
      BY <2>1, <2>6 DEF WalkInv
    <3>. QED BY <3>4, <3>5, <3>6, <3>7 DEF WalkInv, Walking
  <2>. QED BY <1>2, <2>5, <2>6 DEF TryRung
<1>3. CASE Sample
  <2>1. /\ stage = "sample" /\ UNCHANGED active
        /\ \E rows \in Samples(ids, rung) : rows = {} \/ stage' = "served"
    BY <1>3 DEF Sample
  <2>2. ids # {} /\ ids \subseteq Rows(rung) /\ ids \subseteq Problems
    BY <2>1, RowsAreProblems DEF WalkInv, FairRows
  <2>3. stage' = "served"
    BY <2>1, <2>2, SampleOfSome
  <2>. QED BY <2>1, <2>3 DEF WalkInv, Walking
<1>4. CASE FallBack
  BY <1>4 DEF FallBack, WalkInv, Walking
<1>5. CASE Solve
  BY <1>5 DEF Solve, End, WalkInv, Walking
<1>6. CASE Leave
  BY <1>6 DEF Leave, End, WalkInv, Walking
<1>7. CASE Attempt
  BY <1>7 DEF Attempt, WalkInv, Walking
<1>8. CASE Swap
  BY <1>8 DEF Swap, WalkInv, Walking
<1>9. CASE Debrief
  BY <1>9 DEF Debrief, WalkInv, Walking
<1>10. ASSUME NEW p \in Problems, Practise(p)
       PROVE  WalkInv'
  BY <1>10 DEF Practise, WalkInv, Walking
<1>11. ASSUME NEW p \in Problems, CoolDown(p)
       PROVE  WalkInv'
  BY <1>11 DEF CoolDown, WalkInv, Walking
<1>12. ASSUME NEW p \in Problems, Edit(p)
       PROVE  WalkInv'
  <2>1. edits' = edits + 1
    BY <1>12 DEF Edit
  <2>. QED BY <2>1
<1>13. ASSUME NEW s \in Skills, ComeDue(s)
       PROVE  WalkInv'
  BY <1>13 DEF ComeDue, WalkInv, Walking
<1>14. CASE UNCHANGED vars
  <2>1. UNCHANGED <<corpus, snap, recent, solved, stage, ask, rung, ids, fallback>>
    BY <1>14 DEF vars, history, walk
  <2>2. /\ \A r : Rows(r)' = Rows(r)
        /\ \A r : FairRows(r)' = FairRows(r)
        /\ \A r : NoneFairBelow(r)' <=> NoneFairBelow(r)
        /\ \A r : NoneBelow(r)' <=> NoneBelow(r)
        /\ LastRung' = LastRung
    BY <2>1, WhatIsKept
  <2>. QED BY <2>1, <2>2 DEF WalkInv, Walking, Rows, FairRows, NoneFairBelow, NoneBelow
<1>. QED BY <1>1, <1>2, <1>3, <1>4, <1>5, <1>6, <1>7, <1>8, <1>9, <1>10, <1>11, <1>12,
            <1>13, <1>14 DEF Next, InLocks

LEMMA EditsCount == ASSUME edits \in Nat, [Next]_vars PROVE edits' \in Nat /\ edits' >= edits
<1>1. edits' = edits \/ edits' = edits + 1
  BY DEF Next, InLocks, vars, corpus, Ask, TryRung, Sample, FallBack, Solve, Leave, Attempt,
         Swap, Debrief, Practise, CoolDown, Edit, ComeDue
<1>. QED BY <1>1

LEMMA WalkInvariant == Spec => []IInv
<1>1. Init => IInv
  BY WalkInit DEF Init, IInv
<1>2. IInv /\ [Next]_vars => IInv'
  <2>. SUFFICES ASSUME IInv, [Next]_vars, edits' = 0
                PROVE  WalkInv'
    BY EditsCount DEF IInv
  <2>1. edits \in Nat /\ edits = 0
    BY EditsCount DEF IInv
  <2>. QED BY <2>1, WalkNext DEF IInv
<1>. QED BY <1>1, <1>2, PTL DEF Spec

----------------------------------------------------------------------------
(* Which steps serve: a sample, or the fallback.                           *)
LEMMA WhoServes ==
    ASSUME [Next]_vars, Serves
    PROVE  \/ Sample
           \/ FallBack /\ ~served'.fair
<1>1. stage # "served" /\ stage' = "served"
  BY DEF Serves
<1>2. ASSUME NEW g \in Gates, NEW b \in Budgets, Ask(g, b) PROVE FALSE
  BY <1>1, <1>2 DEF Ask
<1>3. CASE TryRung
  BY <1>1, <1>3 DEF TryRung
<1>4. CASE FallBack
  <2>1. served'.fair = FALSE
    BY <1>1, <1>4 DEF FallBack
  <2>. QED BY <1>4, <2>1
<1>5. CASE Solve \/ Leave
  BY <1>1, <1>5 DEF Solve, Leave, End
<1>6. CASE Attempt \/ Swap \/ Debrief
  BY <1>1, <1>6 DEF Attempt, Swap, Debrief
<1>7. ASSUME NEW p \in Problems, Practise(p) \/ CoolDown(p) \/ Edit(p) PROVE FALSE
  BY <1>1, <1>7 DEF Practise, CoolDown, Edit
<1>8. ASSUME NEW s \in Skills, ComeDue(s) PROVE FALSE
  BY <1>1, <1>8 DEF ComeDue
<1>9. CASE UNCHANGED vars
  BY <1>1, <1>9 DEF vars
<1>. QED BY <1>2, <1>3, <1>4, <1>5, <1>6, <1>7, <1>8, <1>9 DEF Next, InLocks

(* The fair rows of the rungs behind the walk are none (pickProblem never  *)
(* relaxes because of a sample), for every corpus, graph, gate and budget. *)
THEOREM NearestFairIsServed == Spec => NearestServed
<1>1. ASSUME WalkInv, [Next]_vars, Serves
      PROVE  \A r \in 1 .. rung - 1 : \A p \in Rows(r) : ~IsFair(p, snap)
  <2>1. Walking
    BY <1>1, WhoServes DEF Sample, FallBack, Walking
  <2>. QED BY <1>1, <2>1 DEF WalkInv, NoneFairBelow
<1>2. IInv /\ [Next]_vars
        => [Serves /\ edits = 0 => \A r \in 1 .. rung - 1 : \A p \in Rows(r) : ~IsFair(p, snap)]_vars
  BY <1>1 DEF IInv
<1>. QED BY <1>2, WalkInvariant, PTL DEF Spec, NearestServed

(* Where the walk ends: every problem was met, and none is fair.           *)
LEMMA AtTheEnd ==
    ASSUME WalkInv, FallBack
    PROVE  /\ \A p \in Problems : ~IsFair(p, snap)
           /\ fallback.ids # {} /\ fallback.ids \subseteq Problems
           /\ fallback.ids \subseteq Rows(fallback.rung)
<1>1. stage = "rung" /\ rung > LastRung
  BY DEF FallBack
<1>2. /\ rung \in 1 .. LastRung + 1 /\ NoneFairBelow(rung) /\ active = Problems
      /\ fallback.ids \subseteq Rows(fallback.rung)
      /\ fallback.ids # {} \/ NoneBelow(rung)
  BY <1>1 DEF WalkInv, Walking
<1>3. LastRung \in 1 .. rung - 1
  BY <1>1, <1>2, LastRungs
<1>4. Rows(LastRung) = Problems /\ Problems # {}
  BY <1>2, LastFindsAll, SelectionAssumption
<1>. QED BY <1>2, <1>3, <1>4, RowsAreProblems DEF NoneFairBelow, NoneBelow

(* No selection of an unedited corpus ends without a problem to serve      *)
(* (pickProblem: "an unopenable lock is the one outcome this must never    *)
(* produce").                                                              *)
THEOREM NobodyIsRefused == Spec => NeverRefused
<1>1. ASSUME WalkInv, [Next]_vars, stage' = "refused", stage # "refused"
      PROVE  FALSE
  <2>1. FallBack
    <3>1. ASSUME NEW g \in Gates, NEW b \in Budgets, Ask(g, b) PROVE FALSE
      BY <1>1, <3>1 DEF Ask
    <3>2. CASE TryRung \/ Sample
      BY <1>1, <3>2 DEF TryRung, Sample
    <3>3. CASE Solve \/ Leave
      BY <1>1, <3>3 DEF Solve, Leave, End
    <3>4. CASE Attempt \/ Swap \/ Debrief
      BY <1>1, <3>4 DEF Attempt, Swap, Debrief
    <3>5. ASSUME NEW p \in Problems, Practise(p) \/ CoolDown(p) \/ Edit(p) PROVE FALSE
      BY <1>1, <3>5 DEF Practise, CoolDown, Edit
    <3>6. ASSUME NEW s \in Skills, ComeDue(s) PROVE FALSE
      BY <1>1, <3>6 DEF ComeDue
    <3>7. CASE UNCHANGED vars
      BY <1>1, <3>7 DEF vars
    <3>. QED BY <1>1, <3>1, <3>2, <3>3, <3>4, <3>5, <3>6, <3>7 DEF Next, InLocks
  <2>2. /\ fallback.ids # {} /\ fallback.ids \subseteq Problems
        /\ fallback.ids \subseteq Rows(fallback.rung)
    BY <1>1, <2>1, AtTheEnd
  <2>3. \E rows \in Samples(fallback.ids, fallback.rung) : rows = {}
    BY <1>1, <2>1, <2>2 DEF FallBack
  <2>. QED BY <2>2, <2>3, SampleOfSome
<1>2. IInv /\ [Next]_vars => [edits = 0 => ~(stage' = "refused" /\ stage # "refused")]_vars
  BY <1>1 DEF IInv
<1>. QED BY <1>2, WalkInvariant, PTL DEF Spec, NeverRefused

(* Where some problem introduces each skill with only what comes before    *)
(* it, nobody is served out of depth, whatever the learner has done and    *)
(* whatever the gate, the pools and the budget ask for.                    *)
THEOREM NobodyOutOfDepth == ASSUME CorpusTeaches PROVE Spec => NeverOutOfDepth
<1>1. ASSUME WalkInv, [Next]_vars, Serves
      PROVE  served'.fair
  <2>1. CASE Sample
    BY <1>1, <2>1 DEF Sample, Serves
  <2>2. CASE FallBack
    BY <1>1, <2>2, AtTheEnd, SomethingFair
  <2>. QED BY <1>1, <2>1, <2>2, WhoServes
<1>2. IInv /\ [Next]_vars => [Serves /\ edits = 0 => served'.fair]_vars
  BY <1>1 DEF IInv
<1>. QED BY <1>2, WalkInvariant, PTL DEF Spec, NeverOutOfDepth

----------------------------------------------------------------------------
(* What is asked for, and what is there: with an edited corpus too.        *)

(* The budget is a number: seconds, 0 for none.                            *)
BudgetInv == ask.budget \in Nat

LEMMA BudgetInit == Init => BudgetInv
BY DEF Init, BudgetInv

LEMMA BudgetStep == ASSUME BudgetInv, [Next]_vars PROVE BudgetInv'
<1>1. ASSUME NEW g \in Gates, NEW b \in Budgets, Ask(g, b) PROVE BudgetInv'
  BY <1>1, SelectionAssumption DEF Ask, BudgetInv
<1>2. ASSUME TryRung \/ Sample \/ FallBack PROVE BudgetInv'
  BY <1>2 DEF TryRung, Sample, FallBack, walk, BudgetInv
<1>3. ASSUME Solve \/ Leave PROVE BudgetInv'
  <2>1. \E ending, unaided : End(ending, unaided)
    BY <1>3 DEF Solve, Leave
  <2>2. ask' = [gate |-> NoGate, budget |-> 0]
    BY <2>1 DEF End
  <2>. QED BY <2>2 DEF BudgetInv
<1>4. ASSUME Attempt \/ Swap \/ Debrief PROVE BudgetInv'
  <2>1. CASE Attempt
    BY <2>1 DEF Attempt, walk, BudgetInv
  <2>2. CASE Swap
    BY <2>2 DEF Swap, walk, BudgetInv
  <2>3. CASE Debrief
    BY <2>3 DEF Debrief, walk, BudgetInv
  <2>. QED BY <1>4, <2>1, <2>2, <2>3
<1>5. ASSUME NEW p \in Problems, Practise(p) \/ CoolDown(p) \/ Edit(p) PROVE BudgetInv'
  BY <1>5 DEF Practise, CoolDown, Edit, walk, BudgetInv
<1>6. ASSUME NEW s \in Skills, ComeDue(s) PROVE BudgetInv'
  BY <1>6 DEF ComeDue, walk, BudgetInv
<1>7. CASE UNCHANGED vars
  BY <1>7 DEF vars, walk, BudgetInv
<1>. QED BY <1>1, <1>2, <1>3, <1>4, <1>5, <1>6, <1>7 DEF Next, InLocks

(* Edits are at least the problems that are off: as many, if none was ever *)
(* switched on again.                                                      *)
EditsInv ==
    /\ active \subseteq Problems
    /\ edits \in Nat
    /\ Cardinality(Problems \ active) <= edits

LEMMA EditsInit == Init => EditsInv
<1>. SUFFICES ASSUME Init PROVE EditsInv
  OBVIOUS
<1>1. Problems \ active = {} /\ edits = 0 /\ active = Problems
  BY DEF Init
<1>2. Cardinality({}) = 0
  BY FS_EmptySet
<1>. QED BY <1>1, <1>2 DEF EditsInv

(* An edit keeps that, and ends OnlyRetired if it switches something on.   *)
LEMMA EditCounts ==
    ASSUME EditsInv, NEW p \in Problems, Edit(p)
    PROVE  /\ EditsInv'
           /\ OnlyRetired' => OnlyRetired /\ active' \subseteq active
<1>. DEFINE off == Problems \ active
<1>1. IsFiniteSet(off) /\ Cardinality(off) \in Nat
  <2>1. IsFiniteSet(Problems)
    BY SelectionAssumption
  <2>. QED BY <2>1, FS_Subset, FS_CardinalityType
<1>2. edits' = edits + 1 /\ edits \in Nat /\ Cardinality(off) <= edits /\ active \subseteq Problems
  BY DEF Edit, EditsInv
<1>3. CASE p \in active
  <2>1. active' = active \ {p} /\ p \notin off
    BY <1>3 DEF Edit
  <2>2. (Problems \ active)' = off \cup {p}
    BY <1>3, <2>1
  <2>3. Cardinality(off \cup {p}) = Cardinality(off) + 1
    BY <1>1, <2>1, FS_AddElement
  <2>4. active' \subseteq Problems /\ active' \subseteq active
    BY <1>2, <2>1
  <2>5. Cardinality(Problems \ active)' = Cardinality(off) + 1
    BY <2>2, <2>3
  <2>. QED BY <1>1, <1>2, <2>4, <2>5 DEF EditsInv, OnlyRetired
<1>4. CASE p \notin active
  <2>1. active' = active \cup {p} /\ p \in off
    BY <1>4 DEF Edit
  <2>2. (Problems \ active)' = off \ {p}
    BY <2>1
  <2>3. Cardinality(off \ {p}) = Cardinality(off) - 1
    BY <1>1, <2>1, FS_RemoveElement
  <2>4. active' \subseteq Problems
    BY <1>2, <2>1
  <2>5. Cardinality(Problems \ active)' = Cardinality(off) - 1
    BY <2>2, <2>3
  <2>6. Cardinality(Problems \ active)' < edits'
    BY <1>1, <1>2, <2>5
  <2>7. Cardinality(Problems \ active)' <= edits' /\ edits' \in Nat /\ ~OnlyRetired'
    BY <1>1, <1>2, <2>5, <2>6 DEF OnlyRetired
  <2>. QED BY <2>4, <2>7 DEF EditsInv
<1>. QED BY <1>3, <1>4

(* Nothing else touches the corpus.                                        *)
LEMMA CorpusStands ==
    ASSUME [Next]_vars, ~(\E p \in Problems : Edit(p))
    PROVE  active' = active /\ edits' = edits
<1>1. ASSUME NEW g \in Gates, NEW b \in Budgets, Ask(g, b) PROVE UNCHANGED corpus
  BY <1>1 DEF Ask
<1>2. ASSUME TryRung \/ Sample \/ FallBack PROVE UNCHANGED corpus
  BY <1>2 DEF TryRung, Sample, FallBack
<1>3. ASSUME Solve \/ Leave PROVE UNCHANGED corpus
  BY <1>3 DEF Solve, Leave
<1>4. ASSUME Attempt \/ Swap \/ Debrief PROVE UNCHANGED corpus
  <2>1. CASE Attempt
    BY <2>1 DEF Attempt
  <2>2. CASE Swap
    BY <2>2 DEF Swap
  <2>3. CASE Debrief
    BY <2>3 DEF Debrief
  <2>. QED BY <1>4, <2>1, <2>2, <2>3
<1>5. ASSUME NEW p \in Problems, Practise(p) \/ CoolDown(p) PROVE UNCHANGED corpus
  BY <1>5 DEF Practise, CoolDown
<1>6. ASSUME NEW s \in Skills, ComeDue(s) PROVE UNCHANGED corpus
  BY <1>6 DEF ComeDue
<1>7. ASSUME UNCHANGED vars PROVE UNCHANGED corpus
  BY <1>7 DEF vars
<1>8. UNCHANGED corpus
  BY <1>1, <1>2, <1>3, <1>4, <1>5, <1>6, <1>7 DEF Next, InLocks
<1>. QED BY <1>8 DEF corpus

LEMMA EditsStep == ASSUME EditsInv, [Next]_vars PROVE EditsInv'
<1>1. CASE \E p \in Problems : Edit(p)
  BY <1>1, EditCounts
<1>2. CASE ~(\E p \in Problems : Edit(p))
  BY <1>2, CorpusStands DEF EditsInv
<1>. QED BY <1>1, <1>2

(* When a sample is due for a learner who needs relief, it is a breather's *)
(* or the rung has none.                                                   *)
ReliefDue == stage = "sample" /\ OnlyRetired /\ NeedsRelief /\ pool # "consolidating"
ReliefInv == ReliefDue => InPool("consolidating", FairRows(rung)) = {}

LEMMA ReliefInit == Init => ReliefInv
BY DEF Init, ReliefInv, ReliefDue

(* Only a rung's query asks for a sample.                                  *)
LEMMA WhoSamples ==
    ASSUME [Next]_vars, stage # "sample", stage' = "sample"
    PROVE  TryRung
<1>1. ASSUME NEW g \in Gates, NEW b \in Budgets, Ask(g, b) PROVE FALSE
  BY <1>1 DEF Ask
<1>2. ASSUME Sample \/ FallBack PROVE FALSE
  BY <1>2 DEF Sample, FallBack
<1>3. ASSUME Solve \/ Leave PROVE FALSE
  BY <1>3 DEF Solve, Leave, End
<1>4. ASSUME Attempt \/ Swap \/ Debrief PROVE FALSE
  <2>1. CASE Attempt
    BY <2>1 DEF Attempt
  <2>2. CASE Swap
    BY <2>2 DEF Swap
  <2>3. CASE Debrief
    BY <2>3 DEF Debrief
  <2>. QED BY <1>4, <2>1, <2>2, <2>3
<1>5. ASSUME NEW p \in Problems, Practise(p) \/ CoolDown(p) \/ Edit(p) PROVE FALSE
  BY <1>5 DEF Practise, CoolDown, Edit
<1>6. ASSUME NEW s \in Skills, ComeDue(s) PROVE FALSE
  BY <1>6 DEF ComeDue
<1>7. CASE UNCHANGED vars
  BY <1>7 DEF vars
<1>. QED BY <1>1, <1>2, <1>3, <1>4, <1>5, <1>6, <1>7 DEF Next, InLocks

(* While a sample is due, the learner and the rung stand still.            *)
LEMMA SampleStands ==
    ASSUME [Next]_vars, stage = "sample", stage' = "sample"
    PROVE  UNCHANGED <<snap, recent, solved, outcomes, ask, rung, pool>>
<1>1. ASSUME NEW g \in Gates, NEW b \in Budgets, Ask(g, b) PROVE FALSE
  BY <1>1 DEF Ask
<1>2. ASSUME TryRung \/ FallBack \/ Solve \/ Leave \/ Attempt \/ Swap \/ Debrief PROVE FALSE
  BY <1>2 DEF TryRung, FallBack, Solve, Leave, Attempt, Swap, Debrief
<1>3. ASSUME Sample PROVE FALSE
  BY <1>3 DEF Sample
<1>4. ASSUME NEW p \in Problems, Practise(p) \/ CoolDown(p) PROVE FALSE
  BY <1>4 DEF Practise, CoolDown
<1>5. ASSUME NEW s \in Skills, ComeDue(s) PROVE FALSE
  BY <1>5 DEF ComeDue
<1>6. ASSUME NEW p \in Problems, Edit(p)
      PROVE  UNCHANGED <<snap, recent, solved, outcomes, ask, rung, pool>>
  BY <1>6 DEF Edit, history, walk
<1>7. CASE UNCHANGED vars
  BY <1>7 DEF vars, history, walk
<1>. QED BY <1>1, <1>2, <1>3, <1>4, <1>5, <1>6, <1>7 DEF Next, InLocks

(* With fewer problems active, a rung has no more fair ones than before.   *)
LEMMA FewerFair ==
    ASSUME ask' = ask, snap' = snap, recent' = recent, solved' = solved, active' \subseteq active,
           NEW r, InPool("consolidating", FairRows(r)) = {}
    PROVE  InPool("consolidating", FairRows(r))' = {}
<1>1. Excluded' = Excluded
  BY DEF Excluded
<1>2. Ladder(r)' = Ladder(r) /\ (IsBudgeted(r)' <=> IsBudgeted(r))
  BY <1>1 DEF Ladder, IsBudgeted, IsPastBudget
<1>3. Rows(r)' \subseteq Rows(r)
  BY <1>2 DEF Rows
<1>4. FairRows(r)' \subseteq FairRows(r)
  BY <1>3 DEF FairRows, IsFair
<1>. QED BY <1>4 DEF InPool, Stretches

LEMMA ReliefStep == ASSUME EditsInv, ReliefInv, [Next]_vars PROVE ReliefInv'
<1>. SUFFICES ASSUME ReliefDue' PROVE InPool("consolidating", FairRows(rung))' = {}
  BY DEF ReliefInv
<1>1. stage' = "sample" /\ OnlyRetired' /\ NeedsRelief' /\ pool' # "consolidating"
  BY DEF ReliefDue
<1>2. CASE stage = "sample"
  <2>1. UNCHANGED <<snap, recent, solved, outcomes, ask, rung, pool>>
    BY <1>1, <1>2, SampleStands
  <2>2. OnlyRetired /\ active' \subseteq active
    <3>1. CASE \E p \in Problems : Edit(p)
      BY <1>1, <3>1, EditCounts
    <3>2. CASE ~(\E p \in Problems : Edit(p))
      BY <1>1, <3>2, CorpusStands DEF OnlyRetired
    <3>. QED BY <3>1, <3>2
  <2>3. NeedsRelief
    BY <1>1, <2>1 DEF NeedsRelief, IsHard
  <2>4. InPool("consolidating", FairRows(rung)) = {}
    BY <1>1, <1>2, <2>1, <2>2, <2>3 DEF ReliefInv, ReliefDue
  <2>5. InPool("consolidating", FairRows(rung))' = InPool("consolidating", FairRows(rung)')
    BY <2>1 DEF InPool, Stretches
  <2>6. rung' = rung
    BY <2>1
  <2>. QED BY <2>1, <2>2, <2>4, <2>6, FewerFair
<1>3. CASE stage # "sample"
  <2>1. TryRung
    BY <1>1, <1>3, WhoSamples
  <2>2. /\ UNCHANGED <<snap, recent, solved, outcomes, ask, active, rung>>
        /\ pool' \in ChoosePool(FairRows(rung))
    BY <1>1, <1>3, <2>1 DEF TryRung, corpus, history
  <2>3. NeedsRelief
    BY <1>1, <2>2 DEF NeedsRelief, IsHard
  <2>4. InPool("consolidating", FairRows(rung)) = {}
    BY <1>1, <2>2, <2>3 DEF ChoosePool
  <2>5. active' \subseteq active /\ rung' = rung
    BY <2>2
  <2>. QED BY <2>2, <2>4, <2>5, FewerFair
<1>. QED BY <1>2, <1>3

AskedInv == BudgetInv /\ EditsInv /\ ReliefInv

LEMMA AskedInvariant == Spec => []AskedInv
<1>1. Init => AskedInv
  BY BudgetInit, EditsInit, ReliefInit DEF AskedInv
<1>2. AskedInv /\ [Next]_vars => AskedInv'
  BY BudgetStep, EditsStep, ReliefStep DEF AskedInv
<1>. QED BY <1>1, <1>2, PTL DEF Spec

(* A sample's problem is one of the rung's rows, as they are now.          *)
LEMMA SampleServes ==
    ASSUME Sample, stage' = "served"
    PROVE  /\ served'.problem \in Rows(rung)
           /\ served'.pool = pool
           /\ served'.within = ~IsPastBudget(rung)
<1>1. stage = "sample"
  BY DEF Sample
<1>2. PICK rows \in Samples(ids, rung) :
         \E p \in PickOf(rows) :
            served' = [problem |-> p, fair |-> TRUE, pool |-> pool, within |-> ~IsPastBudget(rung)]
  BY <1>1 DEF Sample
<1>3. PICK p \in PickOf(rows) :
         served' = [problem |-> p, fair |-> TRUE, pool |-> pool, within |-> ~IsPastBudget(rung)]
  BY <1>2
<1>4. p \in rows /\ rows \subseteq Rows(rung)
  BY DEF PickOf, Samples
<1>. QED BY <1>3, <1>4

LEMMA WithinIsMeant ==
    ASSUME NEW r, NEW p \in Rows(r), ~IsPastBudget(r), ask.budget > 0
    PROVE  Seconds[p] <= ask.budget
BY DEF Rows, IsBudgeted

(* What is served is active, and within the budget if it is said to be.    *)
LEMMA ActiveIsServed ==
    ASSUME [Next]_vars, Serves
    PROVE  /\ served'.problem \in active
           /\ (served'.within /\ ask.budget > 0) => Seconds[served'.problem] <= ask.budget
<1>1. stage # "served" /\ stage' = "served"
  BY DEF Serves
<1>2. CASE Sample
  <2>1. served'.problem \in Rows(rung) /\ served'.within = ~IsPastBudget(rung)
    BY <1>1, <1>2, SampleServes
  <2>2. served'.problem \in active
    BY <2>1 DEF Rows
  <2>. QED BY <2>1, <2>2, WithinIsMeant
<1>3. CASE FallBack
  <2>1. PICK rows \in Samples(fallback.ids, fallback.rung) :
           \E p \in rows :
              served' = [problem |-> p, fair |-> FALSE, pool |-> "none", within |-> ask.budget = 0]
    BY <1>1, <1>3 DEF FallBack
  <2>2. PICK p \in rows :
           served' = [problem |-> p, fair |-> FALSE, pool |-> "none", within |-> ask.budget = 0]
    BY <2>1
  <2>5. p \in Rows(fallback.rung)
    BY DEF Samples
  <2>3. served'.problem \in active
    BY <2>2, <2>5 DEF Rows
  <2>4. ~(served'.within /\ ask.budget > 0)
    <3>1. served'.within = (ask.budget = 0)
      BY <2>2
    <3>2. ask.budget = 0 => ~(ask.budget > 0)
      OBVIOUS
    <3>. QED BY <3>1, <3>2, Zenon
  <2>. QED BY <2>3, <2>4
<1>. QED BY <1>2, <1>3, WhoServes

(* Past the budget only when no fair problem is within it.                 *)
LEMMA BudgetIsKept ==
    ASSUME WalkInv, BudgetInv, [Next]_vars, Serves, served'.fair,
           Seconds[served'.problem] > ask.budget, ask.budget # 0
    PROVE  ~served'.within /\ \A p \in active : IsFair(p, snap) => Seconds[p] > ask.budget
<1>1. Sample /\ stage = "sample" /\ stage' = "served"
  BY WhoServes DEF Sample, Serves
<1>2. served'.problem \in Rows(rung) /\ served'.within = ~IsPastBudget(rung)
  BY <1>1, SampleServes
<1>3. ask.budget \in Nat /\ ask.budget > 0
  BY DEF BudgetInv
<1>4. served'.problem \in Problems
  BY <1>2 DEF Rows, WalkInv
<1>5. IsPastBudget(rung)
  <2>. SUFFICES ASSUME ~IsPastBudget(rung) PROVE FALSE
    OBVIOUS
  <2>1. Seconds[served'.problem] <= ask.budget
    BY <1>2, <1>3, WithinIsMeant
  <2>2. Seconds[served'.problem] \in Nat
    BY <1>4, SelectionAssumption
  <2>. QED BY <1>3, <2>1, <2>2
<1>6. 5 \in 1 .. rung - 1 /\ NoneFairBelow(rung)
  <2>1. rung \in 1 .. LastRung + 1 /\ NoneFairBelow(rung)
    BY <1>1 DEF WalkInv, Walking
  <2>. QED BY <1>5, <2>1, LastRungs DEF IsPastBudget
<1>7. ASSUME NEW p \in active, IsFair(p, snap) PROVE Seconds[p] > ask.budget
  <2>1. p \notin Rows(5)
    BY <1>6, <1>7 DEF NoneFairBelow
  <2>2. Ladder(5) = Problems /\ p \in Problems
    BY DEF Ladder, WalkInv
  <2>3. ~(Seconds[p] <= ask.budget)
    BY <2>1, <2>2 DEF Rows
  <2>. QED BY <1>3, <2>2, <2>3, SelectionAssumption
<1>. QED BY <1>2, <1>5, <1>7

(* What pickProblem serves is active at that moment, and within the budget *)
(* if said to be, however the corpus is edited between its queries; it is  *)
(* a breather if one was due and problems were only switched off; and if   *)
(* nothing was edited, only a budget that no fair problem meets is broken. *)
THEOREM ServedAsAsked == Spec => ServesAsAsked
<1>1. ASSUME AskedInv, [Next]_vars, Serves, NeedsRelief, served'.fair, OnlyRetired
      PROVE  served'.pool = "consolidating" \/ InPool("consolidating", FairRows(rung)) = {}
  <2>1. Sample /\ stage = "sample" /\ stage' = "served"
    BY <1>1, WhoServes DEF Sample, Serves
  <2>2. served'.pool = pool
    BY <2>1, SampleServes
  <2>. QED BY <1>1, <2>1, <2>2 DEF AskedInv, ReliefInv, ReliefDue
<1>2. AskedInv /\ [Next]_vars
        => [Serves /\ NeedsRelief /\ served'.fair /\ OnlyRetired
              => \/ served'.pool = "consolidating"
                 \/ InPool("consolidating", FairRows(rung)) = {}]_vars
  BY <1>1
<1>3. IInv /\ AskedInv /\ [Next]_vars
        => [Serves /\ served'.fair /\ edits = 0 /\ Seconds[served'.problem] > ask.budget
              => \/ ask.budget = 0
                 \/ ~served'.within /\ \A p \in active : IsFair(p, snap) => Seconds[p] > ask.budget]_vars
  BY BudgetIsKept DEF IInv, AskedInv
<1>4. [Next]_vars
        => [Serves => /\ served'.problem \in active
                      /\ (served'.within /\ ask.budget > 0)
                            => Seconds[served'.problem] <= ask.budget]_vars
  BY ActiveIsServed
<1>5. Spec => BudgetKept
  BY <1>3, WalkInvariant, AskedInvariant, PTL DEF Spec, BudgetKept
<1>6. Spec => ReliefGiven
  BY <1>2, AskedInvariant, PTL DEF Spec, ReliefGiven
<1>7. Spec => ServesActive
  BY <1>4, PTL DEF Spec, ServesActive
<1>. QED BY <1>5, <1>6, <1>7 DEF ServesAsAsked

----------------------------------------------------------------------------
(* SkillReplay.  Recursive functions on 0 .. N exist, and what holds at 0  *)
(* and from each number to the next holds up to N: of the numbers at which *)
(* it would fail there is no least.                                        *)
LEMMA SmallerIsBefore ==
    \E R : IsWellFoundedOn(R, Nat) /\ \A x, y \in Nat : x < y => <<x, y>> \in R
<1>1. \A x, y \in Nat : x < y => <<x, y>> \in OpToRel(<, Nat)
  BY DEF OpToRel
<1>. QED BY <1>1, NatLessThanWellFounded, Zenon

LEMMA LeastNumber ==
    ASSUME NEW T, T \subseteq Nat, T # {}
    PROVE  \E n \in T : \A m \in T : n <= m
<1>1. PICK R : IsWellFoundedOn(R, Nat) /\ \A x, y \in Nat : x < y => <<x, y>> \in R
  BY SmallerIsBefore
<1>2. IsWellFoundedOn(R, Nat)
  BY ONLY <1>1, Zenon
<1>3. PICK n \in T : \A m \in T : ~(<<m, n>> \in R)
  BY ONLY <1>2, WFMin, T \subseteq Nat, T # {}, Zenon
<1>4. ASSUME NEW m \in T PROVE n <= m
  <2>1. m \in Nat /\ n \in Nat /\ ~(m < n)
    BY <1>1, <1>3
  <2>. QED BY <2>1
<1>. QED BY <1>4

LEMMA UpTo ==
    ASSUME NEW N \in Nat, NEW T, 0 \in T, \A n \in 1 .. N : n - 1 \in T => n \in T
    PROVE  \A n \in 0 .. N : n \in T
<1>. DEFINE Bad == {n \in 0 .. N : n \notin T}
<1>1. ASSUME Bad # {} PROVE FALSE
  <2>1. Bad \subseteq Nat
    OBVIOUS
  <2>. HIDE DEF Bad
  <2>2. PICK n \in Bad : \A m \in Bad : n <= m
    BY <1>1, <2>1, LeastNumber
  <2>3. n \in 0 .. N /\ n \notin T /\ \A m \in 0 .. N : m \in T \/ n <= m
    BY <2>2 DEF Bad
  <2>4. n \in 1 .. N /\ n - 1 \in 0 .. N /\ ~(n <= n - 1)
    BY <2>3
  <2>. QED BY <2>3, <2>4
<1>. QED BY <1>1

Follows(f, N, S, base, next) ==
    /\ f \in [0 .. N -> S] /\ f[0] = base
    /\ \A n \in 1 .. N : f[n] = next[n][f[n - 1]]

LEMMA Recursion ==
    ASSUME NEW N \in Nat, NEW S, NEW base, base \in S, NEW next, next \in [1 .. N -> [S -> S]]
    PROVE  \E f : Follows(f, N, S, base, next)
<1>. DEFINE Fits(f, m) == f \in [0 .. m -> S] /\ f[0] = base
                             /\ \A n \in 1 .. m : f[n] = next[n][f[n - 1]]
            Good == {m \in 0 .. N : \E f : Fits(f, m)}
<1>1. 0 \in Good
  <2>1. Fits([n \in 0 .. 0 |-> base], 0)
    OBVIOUS
  <2>. HIDE DEF Fits
  <2>. QED BY <2>1
<1>2. ASSUME NEW m \in 1 .. N, m - 1 \in Good PROVE m \in Good
  <2>1. PICK f : Fits(f, m - 1)
    BY <1>2
  <2>. DEFINE g == [n \in 0 .. m |-> IF n = m THEN next[m][f[m - 1]] ELSE f[n]]
  <2>2. f[m - 1] \in S /\ next[m][f[m - 1]] \in S
    BY <2>1
  <2>3. g \in [0 .. m -> S] /\ g[0] = base
    BY <2>1, <2>2
  <2>4. ASSUME NEW n \in 1 .. m PROVE g[n] = next[n][g[n - 1]]
    <3>1. CASE n = m
      BY <3>1
    <3>2. CASE n # m
      BY <3>2, <2>1
    <3>. QED BY <3>1, <3>2
  <2>5. Fits(g, m)
    BY <2>3, <2>4
  <2>. HIDE DEF Fits, g
  <2>. QED BY <2>5
<1>3. N \in Good
  <2>. HIDE DEF Good
  <2>1. \A n \in 1 .. N : n - 1 \in Good => n \in Good
    BY <1>2
  <2>2. \A n \in 0 .. N : n \in Good
    BY <1>1, <2>1, UpTo
  <2>. QED BY <2>2
<1>4. PICK f : Fits(f, N)
  BY <1>3
<1>. QED BY <1>4 DEF Follows

(* dedupeEpisodes, one row after the other.                                *)
KeepsRow(l, n, kept) == n \in Taken(l) /\ \A i \in kept : ~Repeats(l, i, n)

LEMMA KeptIsDefined ==
    ASSUME NEW l, Len(l) \in Nat
    PROVE  /\ Kept(l)[0] = {}
           /\ \A n \in 1 .. Len(l) :
                 Kept(l)[n] = IF KeepsRow(l, n, Kept(l)[n - 1]) THEN Kept(l)[n - 1] \cup {n}
                              ELSE Kept(l)[n - 1]
<1>. DEFINE N == Len(l)
            S == SUBSET (1 .. N)
            next == [n \in 1 .. N |-> [k \in S |-> IF KeepsRow(l, n, k) THEN k \cup {n} ELSE k]]
            Is(f) == f = [n \in 0 .. N |->
                            IF n = 0 THEN {}
                            ELSE IF n \in Taken(l) /\ \A i \in f[n - 1] : ~Repeats(l, i, n)
                                 THEN f[n - 1] \cup {n}
                                 ELSE f[n - 1]]
<1>1. next \in [1 .. N -> [S -> S]] /\ {} \in S
  OBVIOUS
<1>2. PICK f \in [0 .. N -> S] : f[0] = {} /\ \A n \in 1 .. N : f[n] = next[n][f[n - 1]]
  <2>. DEFINE none == {}
  <2>1. N \in Nat /\ none \in S /\ next \in [1 .. N -> [S -> S]]
    BY <1>1
  <2>. HIDE DEF S, next, N, none
  <2>2. \E f : Follows(f, N, S, none, next)
    BY <2>1, Recursion
  <2>. QED BY <2>2 DEF Follows, none
<1>3. ASSUME NEW n \in 1 .. N
      PROVE  f[n] = IF KeepsRow(l, n, f[n - 1]) THEN f[n - 1] \cup {n} ELSE f[n - 1]
  <2>. HIDE DEF S
  <2>1. f[n - 1] \in S
    OBVIOUS
  <2>2. f[n] = next[n][f[n - 1]]
    BY <1>2
  <2>. QED BY <2>1, <2>2
<1>4. Is(f)
  <2>. HIDE DEF S
  <2>1. ASSUME NEW n \in 0 .. N
        PROVE  f[n] = IF n = 0 THEN {}
                      ELSE IF n \in Taken(l) /\ \A i \in f[n - 1] : ~Repeats(l, i, n)
                           THEN f[n - 1] \cup {n}
                           ELSE f[n - 1]
    <3>1. CASE n = 0
      BY <1>2, <3>1
    <3>2. CASE n # 0
      <4>1. n \in 1 .. N
        BY <3>2
      <4>. QED BY <3>2, <4>1, <1>3 DEF KeepsRow
    <3>. QED BY <3>1, <3>2
  <2>. QED BY <2>1
<1>5. Kept(l) = CHOOSE g : Is(g)
  BY DEF Kept
<1>6. Is(Kept(l))
  <2>. HIDE DEF Is
  <2>. QED BY <1>4, <1>5
<1>. DEFINE k == Kept(l)
<1>7. \A n \in 0 .. N : k[n] = IF n = 0 THEN {}
                            ELSE IF n \in Taken(l) /\ \A i \in k[n - 1] : ~Repeats(l, i, n)
                                 THEN k[n - 1] \cup {n}
                                 ELSE k[n - 1]
  <2>1. Is(k)
    BY <1>6
  <2>. HIDE DEF k
  <2>. QED BY <2>1
<1>. HIDE DEF k
<1>8. k[0] = {}
  <2>1. 0 \in 0 .. N
    OBVIOUS
  <2>. QED BY <1>7, <2>1
<1>9. ASSUME NEW n \in 1 .. N
      PROVE  k[n] = IF KeepsRow(l, n, k[n - 1]) THEN k[n - 1] \cup {n} ELSE k[n - 1]
  <2>1. n \in 0 .. N /\ n # 0
    OBVIOUS
  <2>. QED BY <1>7, <2>1 DEF KeepsRow
<1>. QED BY <1>8, <1>9 DEF k


(* An episode is a solve that was taken, and no two are one occasion.      *)
LEMMA EpisodesApart ==
    ASSUME NEW l, Len(l) \in Nat
    PROVE  \A n \in 0 .. Len(l) :
              /\ Kept(l)[n] \subseteq 1 .. n /\ Kept(l)[n] \subseteq Taken(l)
              /\ \A i, j \in Kept(l)[n] : i < j => ~Repeats(l, i, j)
<1>. DEFINE N == Len(l)
            k == Kept(l)
            Good(n) == /\ k[n] \subseteq 1 .. n /\ k[n] \subseteq Taken(l)
                       /\ \A i, j \in k[n] : i < j => ~Repeats(l, i, j)
            T == {n \in 0 .. N : Good(n)}
<1>1. k[0] = {} /\ \A n \in 1 .. N : k[n] = IF KeepsRow(l, n, k[n - 1]) THEN k[n - 1] \cup {n}
                                            ELSE k[n - 1]
  BY KeptIsDefined
<1>. HIDE DEF k
<1>2. 0 \in T
  BY <1>1
<1>3. ASSUME NEW n \in 1 .. N, n - 1 \in T PROVE n \in T
  <2>1. Good(n - 1)
    BY <1>3
  <2>2. CASE KeepsRow(l, n, k[n - 1])
    <3>1. k[n] = k[n - 1] \cup {n}
      BY <1>1, <2>2
    <3>2. \A i \in k[n - 1] : i \in 1 .. n - 1 /\ ~Repeats(l, i, n)
      BY <2>1, <2>2 DEF KeepsRow
    <3>3. n \in Taken(l)
      BY <2>2 DEF KeepsRow
    <3>4. k[n] \subseteq 1 .. n /\ k[n] \subseteq Taken(l)
      BY <2>1, <3>1, <3>2, <3>3
    <3>5. ASSUME NEW i \in k[n], NEW j \in k[n], i < j PROVE ~Repeats(l, i, j)
      <4>1. CASE j = n
        <5>1. i \in k[n - 1]
          BY <3>1, <3>5, <4>1
        <5>. QED BY <3>2, <4>1, <5>1
      <4>2. CASE j # n
        <5>1. j \in k[n - 1] /\ j \in 1 .. n - 1
          BY <3>1, <3>2, <4>2
        <5>2. i # n
          BY <3>5, <5>1
        <5>3. i \in k[n - 1]
          BY <3>1, <5>2
        <5>. QED BY <2>1, <3>5, <5>1, <5>3
      <4>. QED BY <4>1, <4>2
    <3>. QED BY <3>4, <3>5
  <2>3. CASE ~KeepsRow(l, n, k[n - 1])
    <3>1. k[n] = k[n - 1]
      BY <1>1, <2>3
    <3>. QED BY <2>1, <3>1
  <2>. QED BY <2>2, <2>3
<1>4. \A n \in 0 .. N : n \in T
  <2>. HIDE DEF T
  <2>1. \A n \in 1 .. N : n - 1 \in T => n \in T
    BY <1>3
  <2>. QED BY <1>2, <2>1, UpTo
<1>. QED BY <1>4 DEF k

LEMMA EpisodesTyped ==
    ASSUME NEW l, Len(l) \in Nat
    PROVE  /\ Episodes(l) \subseteq 1 .. Len(l) /\ Episodes(l) \subseteq Taken(l)
           /\ IsFiniteSet(Episodes(l))
           /\ \A i, j \in Episodes(l) : i < j => ~Repeats(l, i, j)
<1>1. Len(l) \in 0 .. Len(l)
  OBVIOUS
<1>2. /\ Episodes(l) \subseteq 1 .. Len(l) /\ Episodes(l) \subseteq Taken(l)
      /\ \A i, j \in Episodes(l) : i < j => ~Repeats(l, i, j)
  BY <1>1, EpisodesApart DEF Episodes
<1>3. IsFiniteSet(1 .. Len(l))
  BY FS_Interval
<1>. QED BY <1>2, <1>3, FS_Subset

(* advanceSkillState, field by field.                                      *)
LEMMA Advances ==
    ASSUME NEW r \in SkillRecords, NEW assisted
    PROVE  /\ AdvanceSkillState(r, assisted) \in SkillRecords
           /\ assisted =>
                 /\ AdvanceSkillState(r, assisted).unaided = r.unaided
                 /\ AdvanceSkillState(r, assisted).assisted = r.assisted + 1
                 /\ AdvanceSkillState(r, assisted).state = IF r.state = "not_introduced"
                                                           THEN "practised_with_help" ELSE r.state
           /\ ~assisted =>
                 /\ AdvanceSkillState(r, assisted).unaided = r.unaided + 1
                 /\ AdvanceSkillState(r, assisted).assisted = r.assisted
                 /\ AdvanceSkillState(r, assisted).state = IF r.unaided + 1 >= 2
                                                           THEN "demonstrated"
                                                           ELSE "practised_with_help"
<1>. DEFINE a == AdvanceSkillState(r, assisted)
<1>1. /\ r = [state |-> r.state, unaided |-> r.unaided, assisted |-> r.assisted]
      /\ r.state \in SkillStates /\ r.unaided \in Nat /\ r.assisted \in Nat
  BY DEF SkillRecords
<1>2. CASE assisted
  <2>1. a = [r EXCEPT !.assisted = @ + 1,
                      !.state = IF @ = "not_introduced" THEN "practised_with_help" ELSE @]
    BY <1>2 DEF AdvanceSkillState
  <2>. HIDE DEF a
  <2>2. a = [state |-> IF r.state = "not_introduced" THEN "practised_with_help" ELSE r.state,
             unaided |-> r.unaided, assisted |-> r.assisted + 1]
    BY <1>1, <2>1
  <2>3. a \in SkillRecords
    BY <1>1, <2>2 DEF SkillRecords, SkillStates
  <2>4. /\ a.unaided = r.unaided /\ a.assisted = r.assisted + 1
        /\ a.state = IF r.state = "not_introduced" THEN "practised_with_help" ELSE r.state
    BY ONLY <2>2
  <2>. QED BY ONLY <1>2, <2>3, <2>4 DEF a
<1>3. CASE ~assisted
  <2>1. a = [r EXCEPT !.unaided = @ + 1,
                      !.state = IF r.unaided + 1 >= 2 THEN "demonstrated"
                                ELSE "practised_with_help"]
    BY <1>3 DEF AdvanceSkillState, UnaidedToDemonstrate
  <2>. HIDE DEF a
  <2>2. a = [state |-> IF r.unaided + 1 >= 2 THEN "demonstrated" ELSE "practised_with_help",
             unaided |-> r.unaided + 1, assisted |-> r.assisted]
    BY <1>1, <2>1
  <2>3. a \in SkillRecords
    BY <1>1, <2>2 DEF SkillRecords, SkillStates
  <2>. QED BY <1>3, <2>2, <2>3 DEF a
<1>. QED BY <1>2, <1>3

(* replaySkillSnapshot, one row after the other.                           *)
AfterRow(l, n, before) ==
    IF n \notin Episodes(l) THEN before
    ELSE [s \in Skills |-> IF s \in Requires[l[n].problem]
                           THEN AdvanceSkillState(before[s], IsAssisted(l, n))
                           ELSE before[s]]

LEMMA ReplayIsDefined ==
    ASSUME NEW l, Len(l) \in Nat
    PROVE  /\ Replay(l)[0] = [s \in Skills |-> EmptySkillRecord]
           /\ \A n \in 1 .. Len(l) : Replay(l)[n] = AfterRow(l, n, Replay(l)[n - 1])
<1>. DEFINE N == Len(l)
            S == [Skills -> SkillRecords]
            none == [s \in Skills |-> EmptySkillRecord]
            next == [n \in 1 .. N |-> [k \in S |-> AfterRow(l, n, k)]]
            Is(f) == f = [n \in 0 .. N |->
                            IF n = 0 THEN [s \in Skills |-> EmptySkillRecord]
                            ELSE IF n \notin Episodes(l) THEN f[n - 1]
                            ELSE [s \in Skills |-> IF s \in Requires[l[n].problem]
                                    THEN AdvanceSkillState(f[n - 1][s], IsAssisted(l, n))
                                    ELSE f[n - 1][s]]]
<1>1. \A n \in 1 .. N, k \in S : AfterRow(l, n, k) \in S
  BY Advances DEF AfterRow
<1>2. next \in [1 .. N -> [S -> S]] /\ none \in S /\ N \in Nat
  <2>1. none \in S /\ N \in Nat
    BY DEF EmptySkillRecord, SkillRecords, SkillStates
  <2>. HIDE DEF S
  <2>. QED BY <1>1, <2>1
<1>3. PICK f : Follows(f, N, S, none, next)
  <2>. HIDE DEF S, next, N, none
  <2>. QED BY <1>2, Recursion
<1>4. ASSUME NEW n \in 1 .. N PROVE f[n] = AfterRow(l, n, f[n - 1])
  <2>. HIDE DEF S
  <2>1. f[n - 1] \in S /\ f[n] = next[n][f[n - 1]]
    BY <1>3 DEF Follows
  <2>. QED BY <2>1
<1>5. Is(f)
  <2>1. ASSUME NEW n \in 0 .. N
        PROVE  f[n] = IF n = 0 THEN none ELSE AfterRow(l, n, f[n - 1])
    <3>1. CASE n = 0
      BY <1>3, <3>1 DEF Follows
    <3>2. CASE n # 0
      <4>1. n \in 1 .. N
        BY <3>2
      <4>. QED BY <3>2, <4>1, <1>4
    <3>. QED BY <3>1, <3>2
  <2>2. f = [n \in 0 .. N |-> IF n = 0 THEN none ELSE AfterRow(l, n, f[n - 1])]
    <3>1. DOMAIN f = 0 .. N /\ f = [n \in DOMAIN f |-> f[n]]
      BY <1>3 DEF Follows
    <3>. HIDE DEF none
    <3>. QED BY <2>1, <3>1
  <2>. QED BY <2>2 DEF AfterRow
<1>6. Replay(l) = CHOOSE g : Is(g)
  BY DEF Replay
<1>7. Is(Replay(l))
  <2>. HIDE DEF Is
  <2>. QED BY <1>5, <1>6
<1>. DEFINE k == Replay(l)
<1>8. k = [n \in 0 .. N |-> IF n = 0 THEN none ELSE AfterRow(l, n, k[n - 1])]
  BY <1>7 DEF AfterRow
<1>. HIDE DEF k, none
<1>9. k[0] = none
  <2>1. 0 \in 0 .. N
    OBVIOUS
  <2>. QED BY <1>8, <2>1
<1>10. ASSUME NEW n \in 1 .. N PROVE k[n] = AfterRow(l, n, k[n - 1])
  <2>1. n \in 0 .. N /\ n # 0
    OBVIOUS
  <2>. QED BY <1>8, <2>1
<1>. QED BY <1>9, <1>10 DEF k, none


(* The episodes up to a row that used a skill, without help and with it.   *)
Used(l, s, n)   == {i \in Episodes(l) : i <= n /\ s \in Requires[l[i].problem]}
Alone(l, s, n)  == {i \in Used(l, s, n) : ~IsAssisted(l, i)}
Helped(l, s, n) == {i \in Used(l, s, n) : IsAssisted(l, i)}

Agrees(r, l, s, n) ==
    /\ r \in SkillRecords
    /\ r.unaided = Cardinality(Alone(l, s, n))
    /\ r.assisted = Cardinality(Helped(l, s, n))
    /\ r.state = "demonstrated" <=> r.unaided >= 2
    /\ r.state # "due_for_review"
    /\ r.state = "not_introduced" <=> r.unaided + r.assisted = 0

LEMMA UsedFinite ==
    ASSUME NEW l, Len(l) \in Nat, NEW s, NEW n
    PROVE  IsFiniteSet(Used(l, s, n)) /\ IsFiniteSet(Alone(l, s, n)) /\ IsFiniteSet(Helped(l, s, n))
<1>1. IsFiniteSet(Episodes(l))
  BY EpisodesTyped
<1>2. Used(l, s, n) \subseteq Episodes(l) /\ Alone(l, s, n) \subseteq Episodes(l)
      /\ Helped(l, s, n) \subseteq Episodes(l)
  BY DEF Used, Alone, Helped
<1>. QED BY <1>1, <1>2, FS_Subset

LEMMA AgreesNext ==
    ASSUME NEW l, Len(l) \in Nat, NEW s \in Skills, NEW n \in 1 .. Len(l), NEW r,
           Agrees(r, l, s, n - 1)
    PROVE  Agrees(IF n \in Episodes(l) /\ s \in Requires[l[n].problem]
                  THEN AdvanceSkillState(r, IsAssisted(l, n)) ELSE r, l, s, n)
<1>. DEFINE uses == n \in Episodes(l) /\ s \in Requires[l[n].problem]
            a == AdvanceSkillState(r, IsAssisted(l, n))
<1>1. Used(l, s, n) = IF uses THEN Used(l, s, n - 1) \cup {n} ELSE Used(l, s, n - 1)
  <2>1. \A i \in Episodes(l) : i \in Int /\ (i <= n <=> i <= n - 1 \/ i = n)
    BY EpisodesTyped
  <2>. QED BY <2>1 DEF Used
<1>2. n \notin Used(l, s, n - 1)
  BY DEF Used
<1>3. IsFiniteSet(Alone(l, s, n - 1)) /\ IsFiniteSet(Helped(l, s, n - 1))
  BY UsedFinite
<1>4. /\ r \in SkillRecords /\ r.unaided \in Nat /\ r.assisted \in Nat
      /\ r.unaided = Cardinality(Alone(l, s, n - 1))
      /\ r.assisted = Cardinality(Helped(l, s, n - 1))
      /\ r.state = "demonstrated" <=> r.unaided >= 2
      /\ r.state # "due_for_review"
      /\ r.state = "not_introduced" <=> r.unaided + r.assisted = 0
  BY DEF Agrees, SkillRecords
<1>5. CASE ~uses
  <2>1. Alone(l, s, n) = Alone(l, s, n - 1) /\ Helped(l, s, n) = Helped(l, s, n - 1)
    BY <1>1, <1>5 DEF Alone, Helped
  <2>. QED BY <1>5, <2>1 DEF Agrees
<1>6. CASE uses /\ IsAssisted(l, n)
  <2>1. Alone(l, s, n) = Alone(l, s, n - 1) /\ Helped(l, s, n) = Helped(l, s, n - 1) \cup {n}
        /\ n \notin Helped(l, s, n - 1)
    BY <1>1, <1>2, <1>6 DEF Alone, Helped
  <2>2. Cardinality(Helped(l, s, n)) = Cardinality(Helped(l, s, n - 1)) + 1
    BY <1>3, <2>1, FS_AddElement
  <2>3. /\ a \in SkillRecords /\ a.unaided = r.unaided /\ a.assisted = r.assisted + 1
        /\ a.state = IF r.state = "not_introduced" THEN "practised_with_help" ELSE r.state
    BY <1>4, <1>6, Advances
  <2>. HIDE DEF a
  <2>4. Agrees(a, l, s, n)
    BY <1>4, <2>1, <2>2, <2>3 DEF Agrees
  <2>. QED BY <1>6, <2>4 DEF a
<1>7. CASE uses /\ ~IsAssisted(l, n)
  <2>1. Helped(l, s, n) = Helped(l, s, n - 1) /\ Alone(l, s, n) = Alone(l, s, n - 1) \cup {n}
        /\ n \notin Alone(l, s, n - 1)
    BY <1>1, <1>2, <1>7 DEF Alone, Helped
  <2>2. Cardinality(Alone(l, s, n)) = Cardinality(Alone(l, s, n - 1)) + 1
    BY <1>3, <2>1, FS_AddElement
  <2>3. /\ a \in SkillRecords /\ a.unaided = r.unaided + 1 /\ a.assisted = r.assisted
        /\ a.state = IF r.unaided + 1 >= 2 THEN "demonstrated" ELSE "practised_with_help"
    BY <1>4, <1>7, Advances
  <2>. HIDE DEF a
  <2>4. Agrees(a, l, s, n)
    BY <1>4, <2>1, <2>2, <2>3 DEF Agrees
  <2>. QED BY <1>7, <2>4 DEF a
<1>. QED BY <1>5, <1>6, <1>7

LEMMA ReplayAgrees ==
    ASSUME NEW l, Len(l) \in Nat
    PROVE  /\ DOMAIN Replay(l)[Len(l)] = Skills
           /\ \A s \in Skills : Agrees(Replay(l)[Len(l)][s], l, s, Len(l))
<1>. DEFINE N == Len(l)
            k == Replay(l)
            Good(n) == DOMAIN k[n] = Skills /\ \A s \in Skills : Agrees(k[n][s], l, s, n)
            T == {n \in 0 .. N : Good(n)}
<1>1. k[0] = [s \in Skills |-> EmptySkillRecord] /\ \A n \in 1 .. N : k[n] = AfterRow(l, n, k[n - 1])
  BY ReplayIsDefined
<1>. HIDE DEF k
<1>2. 0 \in T
  <2>1. \A s \in Skills : Used(l, s, 0) = {}
    BY EpisodesTyped DEF Used
  <2>2. \A s \in Skills : Alone(l, s, 0) = {} /\ Helped(l, s, 0) = {}
    BY <2>1 DEF Alone, Helped
  <2>3. EmptySkillRecord \in SkillRecords /\ EmptySkillRecord.unaided = 0
        /\ EmptySkillRecord.assisted = 0 /\ EmptySkillRecord.state = "not_introduced"
    BY DEF EmptySkillRecord, SkillRecords, SkillStates
  <2>4. \A s \in Skills : Agrees(EmptySkillRecord, l, s, 0)
    <3>1. Cardinality({}) = 0
      BY FS_EmptySet
    <3>. HIDE DEF EmptySkillRecord
    <3>2. ASSUME NEW s \in Skills PROVE Agrees(EmptySkillRecord, l, s, 0)
      <4>1. Cardinality(Alone(l, s, 0)) = 0 /\ Cardinality(Helped(l, s, 0)) = 0
        BY <2>2, <3>1
      <4>. QED BY ONLY <2>3, <4>1 DEF Agrees
    <3>. QED BY <3>2
  <2>. QED BY <1>1, <2>4
<1>3. ASSUME NEW n \in 1 .. N, n - 1 \in T PROVE n \in T
  <2>1. Good(n - 1) /\ k[n] = AfterRow(l, n, k[n - 1])
    BY <1>1, <1>3
  <2>2. DOMAIN k[n] = Skills
    BY <2>1 DEF AfterRow
  <2>3. ASSUME NEW s \in Skills PROVE Agrees(k[n][s], l, s, n)
    <3>1. k[n][s] = IF n \in Episodes(l) /\ s \in Requires[l[n].problem]
                    THEN AdvanceSkillState(k[n - 1][s], IsAssisted(l, n)) ELSE k[n - 1][s]
      BY <2>1 DEF AfterRow
    <3>2. Agrees(k[n - 1][s], l, s, n - 1)
      BY <2>1
    <3>. QED BY <3>1, <3>2, AgreesNext
  <2>. QED BY <2>2, <2>3
<1>4. \A n \in 0 .. N : n \in T
  <2>. HIDE DEF T
  <2>1. \A n \in 1 .. N : n - 1 \in T => n \in T
    BY <1>3
  <2>. QED BY <1>2, <2>1, UpTo
<1>5. N \in 0 .. N
  OBVIOUS
<1>. QED BY <1>4, <1>5 DEF k

(* The snapshot: what was counted, and due when it was not used lately.    *)
LEMMA SnapshotIs ==
    ASSUME NEW l, Len(l) \in Nat, NEW t, NEW s \in Skills
    PROVE  LET r == Snapshot(l, t)[s]
               alone == Cardinality({i \in Practised(l, s) : ~IsAssisted(l, i)})
           IN  /\ r.unaided = alone /\ r.assisted = Cardinality(Practised(l, s)) - alone
               /\ IsSatisfied(r) <=> alone >= 2
               /\ r \in SkillRecords /\ (IsIntroduced(r) <=> r.unaided + r.assisted > 0)
               /\ r.state = "due_for_review" <=> IsSatisfied(r) /\ IsStale(l, s, t)
<1>. DEFINE x == Replay(l)[Len(l)][s]
            r == Snapshot(l, t)[s]
            A == {i \in Practised(l, s) : ~IsAssisted(l, i)}
            H == {i \in Practised(l, s) : IsAssisted(l, i)}
<1>1. Agrees(x, l, s, Len(l))
  BY ReplayAgrees
<1>2. Used(l, s, Len(l)) = Practised(l, s)
  BY EpisodesTyped DEF Used, Practised
<1>3. Alone(l, s, Len(l)) = A /\ Helped(l, s, Len(l)) = H
  BY <1>2 DEF Alone, Helped
<1>4. IsFiniteSet(A) /\ IsFiniteSet(H) /\ IsFiniteSet(Practised(l, s))
  BY <1>2, <1>3, UsedFinite
<1>5. Cardinality(Practised(l, s)) = Cardinality(A) + Cardinality(H)
  <2>. DEFINE both    == A \cup H
              neither == A \cap H
  <2>1. both = Practised(l, s) /\ neither = {}
    OBVIOUS
  <2>2. Cardinality(both) = Cardinality(A) + Cardinality(H) - Cardinality(neither)
    BY <1>4, FS_Union
  <2>3. Cardinality(neither) = 0 /\ Cardinality(A) \in Nat /\ Cardinality(H) \in Nat
    BY <1>4, <2>1, FS_EmptySet, FS_CardinalityType
  <2>. HIDE DEF A, H, both, neither
  <2>. QED BY <2>1, <2>2, <2>3
<1>6. r = IF IsStale(l, s, t) THEN MarkDueForReview(x) ELSE x
  BY DEF Snapshot
<1>. DEFINE a == Cardinality(A)
            h == Cardinality(H)
<1>7. /\ x \in SkillRecords /\ x.unaided = a /\ x.assisted = h
      /\ x.state = "demonstrated" <=> x.unaided >= 2
      /\ x.state # "due_for_review"
      /\ x.state = "not_introduced" <=> x.unaided + x.assisted = 0
  BY <1>1, <1>3 DEF Agrees
<1>8. a \in Nat /\ h \in Nat
  BY <1>4, FS_CardinalityType
<1>. HIDE DEF x, r, a, h
<1>9. /\ r.unaided = a /\ r.assisted = h
      /\ IsSatisfied(r) <=> a >= 2
      /\ r.state = "due_for_review" <=> IsSatisfied(r) /\ IsStale(l, s, t)
  BY <1>6, <1>7, <1>8 DEF MarkDueForReview, IsSatisfied, SkillRecords, SkillStates
<1>10. r \in SkillRecords
  <2>1. CASE IsStale(l, s, t) /\ x.state = "demonstrated"
    <3>1. r = [x EXCEPT !.state = "due_for_review"]
      BY <1>6, <2>1 DEF MarkDueForReview
    <3>. QED BY <1>7, <3>1 DEF SkillRecords, SkillStates
  <2>2. CASE ~(IsStale(l, s, t) /\ x.state = "demonstrated")
    <3>1. r = x
      BY <1>6, <2>2 DEF MarkDueForReview
    <3>. QED BY <1>7, <3>1
  <2>. QED BY <2>1, <2>2
<1>11. IsIntroduced(r) <=> r.unaided + r.assisted > 0
  BY <1>6, <1>7, <1>8, <1>9 DEF MarkDueForReview, IsIntroduced, SkillRecords, SkillStates
<1>12. h = Cardinality(Practised(l, s)) - a
  BY <1>5, <1>8 DEF a, h
<1>. QED BY <1>9, <1>10, <1>11, <1>12 DEF r, a


----------------------------------------------------------------------------
(* The log is a sequence of rows, of problems that were shown.             *)
ReplayTypes ==
    /\ now \in 0 .. MaxTime
    /\ log \in Seq(LogRows) /\ Len(log) <= MaxLog
    /\ session \in Sessions \cup {NoSession} /\ spent \subseteq Sessions
    /\ shown \in [Sessions -> Problems \cup {Unshown}]
    /\ \A s \in spent \cup {session} : s \in Sessions => shown[s] \in Problems

LEMMA ReplayTypesInit == ReplayInit => ReplayTypes
BY ReplayAssumption DEF ReplayInit, ReplayTypes

LEMMA RecordKeeps ==
    ASSUME ReplayTypes, NEW kind \in Kinds, NEW p \in Problems,
           NEW s \in Sessions \cup {NoSession}, Record(kind, p, s)
    PROVE  log' \in Seq(LogRows) /\ Len(log') <= MaxLog
<1>1. [kind |-> kind, problem |-> p, session |-> s, at |-> now] \in LogRows
  BY DEF ReplayTypes, LogRows
<1>2. Len(log') = Len(log) + 1 /\ log' \in Seq(LogRows)
  BY <1>1 DEF Record, ReplayTypes
<1>. QED BY <1>2, ReplayAssumption DEF Record, ReplayTypes

LEMMA ReplayTypesStep == ReplayTypes /\ [ReplayNext]_replayVars => ReplayTypes'
<1>. SUFFICES ASSUME ReplayTypes, [ReplayNext]_replayVars PROVE ReplayTypes'
  OBVIOUS
<1>. USE ReplayAssumption DEF ReplayTypes
<1>1. ASSUME NEW s \in Sessions, NEW p \in Problems, Lock(s, p) PROVE ReplayTypes'
  BY <1>1 DEF Lock
<1>2. ASSUME NEW p \in Problems, SwapShown(p) PROVE ReplayTypes'
  BY <1>2 DEF SwapShown
<1>3. ASSUME NEW p \in Problems, SolveInPractice(p) \/ HintInPractice(p) PROVE ReplayTypes'
  BY <1>3, RecordKeeps DEF SolveInPractice, HintInPractice, Kinds
<1>4. CASE SolveInLock \/ HintInLock
  <2>1. shown[session] \in Problems /\ session \in Sessions
    BY <1>4 DEF SolveInLock, HintInLock
  <2>2. log' \in Seq(LogRows) /\ Len(log') <= MaxLog
    BY <1>4, <2>1, RecordKeeps DEF SolveInLock, HintInLock, Kinds
  <2>. QED BY <1>4, <2>1, <2>2 DEF SolveInLock, HintInLock
<1>5. CASE LeaveLock
  BY <1>5 DEF LeaveLock
<1>6. ASSUME NEW s \in Sessions, ShowSolution(s) PROVE ReplayTypes'
  <2>1. log' \in Seq(LogRows) /\ Len(log') <= MaxLog
    BY <1>6, RecordKeeps DEF ShowSolution, Kinds
  <2>. QED BY <1>6, <2>1 DEF ShowSolution
<1>7. CASE Tick
  BY <1>7 DEF Tick
<1>8. CASE UNCHANGED replayVars
  BY <1>8 DEF replayVars
<1>. QED BY <1>1, <1>2, <1>3, <1>4, <1>5, <1>6, <1>7, <1>8 DEF ReplayNext

LEMMA ReplayTyped == ReplaySpec => []ReplayTypes
BY ReplayTypesInit, ReplayTypesStep, PTL DEF ReplaySpec

LEMMA LogIsLong == ReplayTypes => Len(log) \in Nat
BY DEF ReplayTypes

(* The log is a sequence of rows, and what is replayed from it is one      *)
(* record for each skill: a skill that was never met has no solves.        *)
THEOREM ReplayTypeCorrect == ReplaySpec => []ReplayTypeOK
<1>1. ReplayTypes => ReplayTypeOK
  <2>1. ASSUME ReplayTypes PROVE snapshot = [s \in Skills |-> snapshot[s]]
    BY DEF snapshot, Snapshot
  <2>2. ASSUME ReplayTypes, NEW s \in Skills
        PROVE  /\ snapshot[s] \in SkillRecords
               /\ IsIntroduced(snapshot[s]) <=> snapshot[s].unaided + snapshot[s].assisted > 0
    BY <2>2, LogIsLong, SnapshotIs DEF snapshot
  <2>. HIDE DEF snapshot
  <2>. QED BY <2>1, <2>2 DEF ReplayTypes, ReplayTypeOK
<1>. QED BY ReplayTyped, <1>1, PTL

(* Whatever the log is, a state of the replay follows from how often the   *)
(* skill was used, alone and with help: the order of the rows does not     *)
(* count, for any graph of skills, any problems and any replay limit.      *)
THEOREM StateFollows == ReplaySpec => []StateFollowsCounts
<1>1. ReplayTypes => StateFollowsCounts
  BY LogIsLong, SnapshotIs DEF StateFollowsCounts, UnaidedToDemonstrate, snapshot
<1>. QED BY ReplayTyped, <1>1, PTL

LEMMA TwoElements ==
    ASSUME NEW S, IsFiniteSet(S), Cardinality(S) >= 2
    PROVE  \E x, y \in S : x # y
<1>1. ASSUME \A x, y \in S : x = y PROVE FALSE
  <2>1. CASE S = {}
    BY <2>1, FS_EmptySet
  <2>2. CASE S # {}
    <3>1. PICK x : S = {x}
      BY <1>1, <2>2
    <3>. QED BY <3>1, FS_Singleton
  <2>. QED BY <2>1, <2>2
<1>. QED BY <1>1

(* A skill is demonstrated by two solves without help that are different   *)
(* occasions, for any graph of skills, any problems and any log.           *)
THEOREM DemonstratedByTwo == ReplaySpec => []DemonstratedTwice
<1>1. ReplayTypes => DemonstratedTwice
  <2>. SUFFICES ASSUME ReplayTypes, NEW s \in Skills, IsSatisfied(snapshot[s])
                PROVE  \E i, j \in Unaided(s) : i < j /\ ~OneOccasion(i, j)
    BY DEF DemonstratedTwice
  <2>. DEFINE A == {i \in Practised(log, s) : ~IsAssisted(log, i)}
  <2>1. Len(log) \in Nat
    BY LogIsLong
  <2>2. Cardinality(A) >= 2
    BY <2>1, SnapshotIs DEF snapshot
  <2>3. /\ Episodes(log) \subseteq 1 .. Len(log) /\ Episodes(log) \subseteq Taken(log)
        /\ IsFiniteSet(Episodes(log))
        /\ \A i, j \in Episodes(log) : i < j => ~Repeats(log, i, j)
    BY <2>1, EpisodesTyped
  <2>4. A \subseteq Episodes(log) /\ IsFiniteSet(A) /\ A \subseteq Unaided(s)
    <3>1. A \subseteq Episodes(log)
      BY DEF Practised
    <3>2. Taken(log) \subseteq Solves(log)
      BY DEF Taken
    <3>. QED BY <2>3, <3>1, <3>2, FS_Subset DEF Practised, Unaided
  <2>5. PICK i \in A, j \in A : i # j
    <3>. HIDE DEF A
    <3>. QED BY <2>2, <2>4, TwoElements
  <2>6. \A m, n \in Episodes(log) : m < n => ~OneOccasion(m, n)
    BY <2>3 DEF OneOccasion, Repeats
  <2>7. i \in Int /\ j \in Int /\ (i < j \/ j < i) /\ i \in Episodes(log) /\ j \in Episodes(log)
    BY <2>3, <2>4, <2>5
  <2>. HIDE DEF A
  <2>. QED BY <2>4, <2>5, <2>6, <2>7
<1>. QED BY ReplayTyped, <1>1, PTL

----------------------------------------------------------------------------
(* A row more may push rows out of what is taken, and lets none in but     *)
(* itself.                                                                 *)
LEMMA TakenShrinks ==
    ASSUME NEW l \in Seq(LogRows), NEW x, Append(l, x) \in Seq(LogRows)
    PROVE  \A n \in 1 .. Len(l) : n \in Taken(Append(l, x)) => n \in Taken(l)
<1>. DEFINE N == Len(l)
            m == Append(l, x)
<1>1. N \in Nat /\ DOMAIN l = 1 .. N /\ DOMAIN m = 1 .. N + 1 /\ \A i \in 1 .. N : m[i] = l[i]
  OBVIOUS
<1>. HIDE DEF m
<1>. SUFFICES ASSUME NEW n \in 1 .. N, n \in Taken(m) PROVE n \in Taken(l)
  BY DEF m
<1>. DEFINE Later(q) == {j \in Solves(q) : j > n}
<1>2. n \in Solves(l) /\ Later(l) \subseteq Later(m) /\ Later(m) \subseteq 1 .. N + 1
  BY <1>1 DEF Solves, Taken
<1>3. Cardinality(Later(m)) < ReplayLimit
  BY DEF Taken
<1>4. IsFiniteSet(1 .. N + 1)
  BY <1>1, FS_Interval
<1>5. Cardinality(Later(l)) <= Cardinality(Later(m)) /\ Cardinality(Later(l)) \in Nat
      /\ Cardinality(Later(m)) \in Nat
  <2>. HIDE DEF Later
  <2>. QED BY <1>2, <1>4, FS_Subset, FS_CardinalityType
<1>6. Cardinality(Later(l)) < ReplayLimit
  <2>. HIDE DEF Later
  <2>. QED BY <1>3, <1>5, ReplayAssumption
<1>. QED BY <1>2, <1>6 DEF Taken

(* Repeats are of one problem: where the rows cut are of other problems    *)
(* than those that use a skill, its episodes are the same.                 *)
LEMMA UsesStay ==
    ASSUME NEW l \in Seq(LogRows), NEW x, Append(l, x) \in Seq(LogRows), NEW s,
           \A i \in Taken(l) \ Taken(Append(l, x)) : s \notin Requires[l[i].problem]
    PROVE  /\ Practised(l, s) \subseteq Practised(Append(l, x), s)
           /\ \A i \in Practised(l, s) : IsAssisted(Append(l, x), i) <=> IsAssisted(l, i)
<1>. DEFINE N == Len(l)
            m == Append(l, x)
            Uses == {i \in 1 .. N : s \in Requires[l[i].problem]}
<1>1. /\ N \in Nat /\ Len(m) = N + 1 /\ m \in Seq(LogRows)
      /\ DOMAIN l = 1 .. N /\ DOMAIN m = 1 .. N + 1
      /\ \A i \in 1 .. N : m[i] = l[i]
  OBVIOUS
<1>2. \A n \in Uses : n \in Taken(m) <=> n \in Taken(l)
  BY TakenShrinks
<1>. HIDE DEF m
<1>4. \A i \in 1 .. N : IsAssisted(m, i) <=> IsAssisted(l, i)
  <2>. TAKE i \in 1 .. N
  <2>1. \A j \in 1 .. N + 1 : j < i => j \in 1 .. N
    BY <1>1
  <2>2. m[i] = l[i] /\ \A j \in 1 .. N : m[j] = l[j] /\ j \in 1 .. N + 1
    BY <1>1
  <2>. QED BY <1>1, <2>1, <2>2 DEF IsAssisted
<1>5. /\ \A i, n \in 1 .. N : Repeats(m, i, n) <=> Repeats(l, i, n)
      /\ \A i \in 1 .. N, n \in Uses : Repeats(l, i, n) => i \in Uses
  BY <1>1 DEF Repeats
<1>. DEFINE T == {n \in 0 .. N : Kept(m)[n] \cap Uses = Kept(l)[n] \cap Uses}
<1>6. /\ Kept(l)[0] = {}
      /\ \A n \in 1 .. N : Kept(l)[n] = IF KeepsRow(l, n, Kept(l)[n - 1])
                                        THEN Kept(l)[n - 1] \cup {n} ELSE Kept(l)[n - 1]
  BY <1>1, KeptIsDefined
<1>7. /\ Kept(m)[0] = {}
      /\ \A n \in 1 .. N + 1 : Kept(m)[n] = IF KeepsRow(m, n, Kept(m)[n - 1])
                                            THEN Kept(m)[n - 1] \cup {n} ELSE Kept(m)[n - 1]
  <2>1. Len(m) \in Nat /\ Len(m) = N + 1
    BY <1>1
  <2>. HIDE DEF N
  <2>2. /\ Kept(m)[0] = {}
        /\ \A n \in 1 .. Len(m) : Kept(m)[n] = IF KeepsRow(m, n, Kept(m)[n - 1])
                                               THEN Kept(m)[n - 1] \cup {n} ELSE Kept(m)[n - 1]
    BY <2>1, KeptIsDefined
  <2>. QED BY <2>1, <2>2
<1>8. 0 \in T
  <2>1. 0 \in 0 .. N
    BY <1>1
  <2>. QED BY <2>1, <1>6, <1>7
<1>9. ASSUME NEW n \in 1 .. N, n - 1 \in T PROVE n \in T
  <2>1. Kept(m)[n - 1] \cap Uses = Kept(l)[n - 1] \cap Uses
    BY <1>9
  <2>2. Kept(l)[n - 1] \subseteq 1 .. N /\ Kept(m)[n - 1] \subseteq 1 .. N
    <3>1. n - 1 \in 0 .. N /\ 1 .. n - 1 \subseteq 1 .. N
      BY <1>1
    <3>2. Len(m) \in Nat /\ n - 1 \in 0 .. Len(m)
      BY <1>1
    <3>3. Kept(l)[n - 1] \subseteq 1 .. n - 1
      BY <1>1, <3>1, EpisodesApart
    <3>4. Kept(m)[n - 1] \subseteq 1 .. n - 1
      BY <3>2, EpisodesApart
    <3>. QED BY <3>1, <3>3, <3>4
  <2>4. n \in 1 .. N + 1 /\ n \in 0 .. N
    BY <1>1
  <2>. DEFINE K == Kept(l)[n - 1]
              J == Kept(m)[n - 1]
  <2>5. /\ Kept(l)[n] = IF KeepsRow(l, n, K) THEN K \cup {n} ELSE K
        /\ Kept(m)[n] = IF KeepsRow(m, n, J) THEN J \cup {n} ELSE J
    BY <1>6, <1>7, <2>4
  <2>6. n \in Uses => (KeepsRow(m, n, J) <=> KeepsRow(l, n, K))
    <3>. SUFFICES ASSUME n \in Uses PROVE KeepsRow(m, n, J) <=> KeepsRow(l, n, K)
      OBVIOUS
    <3>1. n \in Taken(m) <=> n \in Taken(l)
      BY <1>2
    <3>. HIDE DEF K, J, Uses
    <3>2. \A i \in 1 .. N : /\ Repeats(m, i, n) <=> Repeats(l, i, n)
                            /\ Repeats(l, i, n) => i \in Uses
      BY <1>5
    <3>3. K \cap Uses = J \cap Uses /\ K \subseteq 1 .. N /\ J \subseteq 1 .. N
      BY <2>1, <2>2 DEF K, J
    <3>4. (\A i \in J : ~Repeats(m, i, n)) <=> (\A i \in K : ~Repeats(l, i, n))
      BY <3>2, <3>3
    <3>. QED BY <3>1, <3>4 DEF KeepsRow
  <2>7. Kept(m)[n] \cap Uses = Kept(l)[n] \cap Uses
    <3>. HIDE DEF Uses
    <3>. QED BY <2>1, <2>5, <2>6
  <2>. QED BY <2>4, <2>7
<1>10. \A n \in 0 .. N : n \in T
  <2>. HIDE DEF T
  <2>1. \A n \in 1 .. N : n - 1 \in T => n \in T
    BY <1>9
  <2>. QED BY <1>1, <1>8, <2>1, UpTo
<1>11. Episodes(l) \cap Uses \subseteq Episodes(m)
  <2>1. N \in 0 .. N /\ N + 1 \in 1 .. N + 1 /\ (N + 1) - 1 = N
    BY <1>1
  <2>2. Kept(m)[N] \cap Uses = Episodes(l) \cap Uses
    BY <1>10, <2>1 DEF Episodes
  <2>3. Kept(m)[N] \subseteq Kept(m)[N + 1]
    BY <1>7, <2>1
  <2>. HIDE DEF Uses
  <2>. QED BY <1>1, <2>2, <2>3 DEF Episodes
<1>12. Episodes(l) \subseteq 1 .. N
  BY <1>1, EpisodesTyped
<1>13. Practised(l, s) \subseteq Episodes(l) \cap Uses /\ Practised(l, s) \subseteq 1 .. N
  BY <1>12 DEF Practised
<1>14. \A i \in Practised(l, s) : i \in Episodes(m) /\ m[i] = l[i] /\ i \in 1 .. N
  BY <1>1, <1>11, <1>13
<1>15. Practised(l, s) \subseteq Practised(m, s)
  BY <1>14 DEF Practised
<1>. QED BY <1>4, <1>14, <1>15 DEF m

LEMMA LogGrows ==
    ASSUME ReplayTypes, [ReplayNext]_replayVars
    PROVE  log' = log \/ \E x : log' = Append(log, x)
BY DEF ReplayNext, replayVars, Lock, SwapShown, SolveInPractice, HintInPractice, SolveInLock,
       HintInLock, LeaveLock, ShowSolution, Tick, Record

LEMMA StaysSatisfied ==
    ASSUME ReplayTypes, ReplayTypes', [ReplayNext]_replayVars,
           NEW s \in Skills, IsSatisfied(snapshot[s]),
           \A i \in Taken(log) \ Taken(log') : s \notin Requires[log[i].problem]
    PROVE  IsSatisfied(snapshot'[s])
<1>. DEFINE A(l) == {i \in Practised(l, s) : ~IsAssisted(l, i)}
<1>1. Len(log) \in Nat /\ Len(log') \in Nat
  BY DEF ReplayTypes
<1>2. /\ IsSatisfied(snapshot[s]) <=> Cardinality(A(log)) >= 2
      /\ IsSatisfied(snapshot'[s]) <=> Cardinality(A(log')) >= 2
  BY <1>1, SnapshotIs DEF snapshot
<1>3. A(log) \subseteq A(log')
  <2>1. CASE log' = log
    BY <2>1
  <2>2. ASSUME NEW x, log' = Append(log, x) PROVE A(log) \subseteq A(log')
    <3>1. log \in Seq(LogRows) /\ Append(log, x) \in Seq(LogRows)
      BY <2>2 DEF ReplayTypes
    <3>2. /\ Practised(log, s) \subseteq Practised(log', s)
          /\ \A i \in Practised(log, s) : IsAssisted(log', i) <=> IsAssisted(log, i)
      BY <2>2, <3>1, UsesStay
    <3>. QED BY <3>2
  <2>. QED BY <2>1, <2>2, LogGrows
<1>4. IsFiniteSet(A(log')) /\ IsFiniteSet(A(log))
  <2>1. IsFiniteSet(Episodes(log')) /\ IsFiniteSet(Episodes(log))
    BY <1>1, EpisodesTyped
  <2>2. A(log') \subseteq Episodes(log') /\ A(log) \subseteq Episodes(log)
    BY DEF Practised
  <2>. QED BY <2>1, <2>2, FS_Subset
<1>. DEFINE before == A(log)
            after  == A(log')
<1>. HIDE DEF before, after
<1>5. Cardinality(before) <= Cardinality(after) /\ Cardinality(before) \in Nat
      /\ Cardinality(after) \in Nat
  BY <1>3, <1>4, FS_Subset, FS_CardinalityType DEF before, after
<1>6. Cardinality(before) >= 2 => Cardinality(after) >= 2
  BY <1>5
<1>. QED BY <1>2, <1>6 DEF before, after

(* However long the log, whatever the limit: a demonstrated skill stays    *)
(* satisfied until a solve that uses it is cut, whatever else is cut,      *)
(* solved, hinted or shown after it and however long it is left.           *)
THEOREM StaysForGood == ReplaySpec => SatisfiedStays
<1>1. ReplayTypes /\ ReplayTypes' /\ [ReplayNext]_replayVars =>
        [log' # log \/ now' # now =>
           LET before == snapshot
               after == snapshot'
               cut == Taken(log) \ Taken(log')
           IN  \A s \in Skills :
                  IsSatisfied(before[s]) /\ (\A i \in cut : s \notin Requires[log[i].problem])
                     => IsSatisfied(after[s])]_replayVars
  BY StaysSatisfied
<1>. QED BY ReplayTyped, <1>1, PTL DEF ReplaySpec, SatisfiedStays

=============================================================================

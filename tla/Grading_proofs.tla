--------------------------- MODULE Grading_proofs --------------------------
(***************************************************************************)
(* Theorems about grading: about GradeQueue, for any number of requests    *)
(* and users, any limits and any timeouts, and about SpeedGate, for any    *)
(* number of submissions and any times.                                    *)
(*                                                                         *)
(* The queue's inductive invariant adds to the type what the queue rests   *)
(* on: only grades that run hold slots, no request is queued twice, the    *)
(* map never holds more than its ceiling, and every grade that runs is in  *)
(* the map or has outlasted its slot.                                      *)
(*                                                                         *)
(* The statistics rest on what a grader has reached at each statement, on  *)
(* the count being that of a finite set, and on bounds that hold for what  *)
(* every grader has read.  The records rest on the grader that writes      *)
(* being the only one and the youngest, with the problem as it is now.     *)
(***************************************************************************)
EXTENDS GradeQueue, SpeedGate, FiniteSetTheorems, SequenceTheorems, WellFoundedInduction, TLAPS

QueuedOnce ==
    \A i, j \in 1 .. Len(waiting) : waiting[i] = waiting[j] => i = j

Ceiling == Cardinality(active) <= MaxConcurrent

HoldersRun == active \subseteq Running

RunnersHold == \A r \in Running : r \in active \/ age[r] > SlotTtl

IInv ==
    /\ TypeOK
    /\ QueuedOnce
    /\ Ceiling
    /\ HoldersRun
    /\ RunnersHold
    /\ OneSlotPerUser

----------------------------------------------------------------------------
(* Facts about the constants and the set of slots.                         *)
LEMMA GradeTicksType == GradeTicks \in Nat \ {0}
<1>1. \A a, b \in Nat \ {0} : a * b \in Nat \ {0}
  OBVIOUS
<1>2. BestOf * 3 \in Nat \ {0}
  BY <1>1, ConstantsAssumption
<1>. QED
  BY <1>1, <1>2, ConstantsAssumption DEF GradeTicks

LEMMA SlotsFinite ==
    ASSUME TypeOK, NEW S, S \subseteq active
    PROVE  IsFiniteSet(S) /\ Cardinality(S) \in Nat /\ Cardinality(S) <= Cardinality(active)
<1>1. IsFiniteSet(active) /\ S \in SUBSET active
  BY FS_Subset, ConstantsAssumption DEF TypeOK
<1>2. IsFiniteSet(S) /\ Cardinality(S) <= Cardinality(active)
  BY <1>1, FS_Subset
<1>. QED
  BY <1>2, FS_CardinalityType

(* One more slot in a map that is not full is within the ceiling.          *)
LEMMA OneMore ==
    ASSUME TypeOK, NEW S, S \subseteq active, ~Full(S), NEW r
    PROVE  Cardinality(S \cup {r}) <= MaxConcurrent
<1>1. IsFiniteSet(S) /\ Cardinality(S) \in Nat
  BY SlotsFinite
<1>2. Cardinality(S \cup {r}) = IF r \in S THEN Cardinality(S) ELSE Cardinality(S) + 1
  BY ONLY <1>1, FS_AddElement
<1>. QED
  BY <1>1, <1>2, ConstantsAssumption DEF Full

----------------------------------------------------------------------------
(* What is left of the queue when its first n have gone.                   *)
LEMMA Rest ==
    ASSUME waiting \in Seq(Requests), NEW n \in 0 .. Len(waiting),
           waiting' = SubSeq(waiting, n + 1, Len(waiting))
    PROVE  /\ waiting' \in Seq(Requests)
           /\ Len(waiting') = Len(waiting) - n
           /\ \A i \in 1 .. Len(waiting') : waiting'[i] = waiting[n + i]
<1>1. Len(waiting) \in Nat /\ \A i \in n + 1 .. Len(waiting) : waiting[i] \in Requests
  OBVIOUS
<1>2. /\ waiting' \in Seq(Requests)
      /\ Len(waiting') = IF n + 1 <= Len(waiting) THEN Len(waiting) - (n + 1) + 1 ELSE 0
      /\ \A i \in 1 .. Len(waiting) - (n + 1) + 1 : waiting'[i] = waiting[n + 1 + i - 1]
  BY <1>1, SubSeqProperties, n + 1 \in Int, Len(waiting) \in Int
<1>3. Len(waiting') = Len(waiting) - n
  BY <1>1, <1>2
<1>. QED
  BY <1>1, <1>2, <1>3

(* Queued requests are those in Range(waiting).                            *)
LEMMA RangeIsQueued ==
    ASSUME waiting \in Seq(Requests)
    PROVE  Range(waiting) = {waiting[i] : i \in 1 .. Len(waiting)}
BY DEF Range

LEMMA RangeIsQueuedPrime ==
    ASSUME waiting' \in Seq(Requests)
    PROVE  Range(waiting') = {waiting'[i] : i \in 1 .. Len(waiting')}
BY DEF Range

(* Dismissing the first n waiters, some of them to run, keeps the types    *)
(* and the queue's own invariant.                                          *)
LEMMA DismissKeepsQueue ==
    ASSUME TypeOK, QueuedOnce,
           NEW r \in Requests, phase[r] = "running",
           NEW n \in 0 .. Len(waiting),
           NEW q \in SUBSET {waiting[i] : i \in 1 .. n},
           Dismiss(r, n, q),
           active' \subseteq Requests
    PROVE  TypeOK' /\ QueuedOnce'
<1>1. /\ waiting \in Seq(Requests)
      /\ Len(waiting) \in Nat
      /\ waiting' \in Seq(Requests)
      /\ Len(waiting') = Len(waiting) - n
      /\ \A i \in 1 .. Len(waiting') : waiting'[i] = waiting[n + i]
  BY Rest DEF TypeOK, Dismiss
<1>2. QueuedOnce'
  BY <1>1 DEF QueuedOnce
<1>. DEFINE gone == Leaves(r, n, q)
<1>3. gone \subseteq Requests /\ q \subseteq gone
  BY <1>1 DEF Leaves
<1>4. /\ phase' \in [Requests -> {"idle", "waiting", "running"}]
      /\ user' \in [Requests -> Users \cup {NoUser}]
      /\ age' \in [Requests -> Ages]
  <2>1. 0 \in Ages
    BY GradeTicksType DEF Ages
  <2>. QED
    BY <2>1 DEF TypeOK, Dismiss
<1>5. ASSUME NEW p \in Requests
      PROVE  /\ phase'[p] = "idle" <=> user'[p] = NoUser
             /\ phase'[p] = "waiting" <=> p \in Range(waiting')
  <2>1. /\ phase[p] = "idle" <=> user[p] = NoUser
        /\ phase[p] = "waiting" <=> \E i \in 1 .. Len(waiting) : waiting[i] = p
    <3>1. Range(waiting) = {waiting[i] : i \in 1 .. Len(waiting)}
      BY <1>1, RangeIsQueued
    <3>2. /\ phase[p] = "idle" <=> user[p] = NoUser
          /\ phase[p] = "waiting" <=> p \in Range(waiting)
      BY DEF TypeOK
    <3>. QED BY <3>1, <3>2
  <2>2. p \in Range(waiting') <=> \E i \in 1 .. Len(waiting) - n : waiting[n + i] = p
    BY <1>1, RangeIsQueuedPrime
  <2>3. p \in Range(waiting') <=> \E i \in n + 1 .. Len(waiting) : waiting[i] = p
    <3>1. ASSUME NEW i \in 1 .. Len(waiting) - n
          PROVE  n + i \in n + 1 .. Len(waiting)
      BY <1>1
    <3>2. ASSUME NEW i \in n + 1 .. Len(waiting)
          PROVE  i - n \in 1 .. Len(waiting) - n /\ n + (i - n) = i
      BY <1>1
    <3>. QED
      BY <2>2, <3>1, <3>2
  <2>4. phase'[p] = IF p \in q THEN "running" ELSE IF p \in gone THEN "idle" ELSE phase[p]
    BY DEF Dismiss
  <2>5. user'[p] = IF p \in gone \ q THEN NoUser ELSE user[p]
    BY DEF Dismiss
  <2>6. p \in gone <=> p = r \/ \E i \in 1 .. n : waiting[i] = p
    BY DEF Leaves
  <2>7. p \in gone \ {r} => phase[p] = "waiting" /\ p \notin Range(waiting')
    BY <1>1, <2>1, <2>3, <2>6 DEF QueuedOnce
  <2>8. p = r => phase[p] = "running" /\ p \notin Range(waiting') /\ p \notin q
    <3>. SUFFICES ASSUME p = r
                  PROVE  p \notin Range(waiting') /\ p \notin q
      OBVIOUS
    <3>1. \A i \in 1 .. Len(waiting) : waiting[i] # p
      BY <2>1
    <3>2. n + 1 .. Len(waiting) \subseteq 1 .. Len(waiting) /\ 1 .. n \subseteq 1 .. Len(waiting)
      BY <1>1
    <3>. QED
      BY <2>3, <3>1, <3>2
  <2>9. CASE p \in gone
    BY <1>3, <2>1, <2>4, <2>5, <2>7, <2>8, <2>9
  <2>10. CASE p \notin gone
    <3>1. phase'[p] = phase[p] /\ user'[p] = user[p]
      BY <1>3, <2>4, <2>5, <2>10
    <3>2. p \in Range(waiting') <=> phase[p] = "waiting"
      <4>1. \A i \in 1 .. n : waiting[i] # p
        BY <2>6, <2>10
      <4>2. 1 .. Len(waiting) = (1 .. n) \cup (n + 1 .. Len(waiting))
        BY <1>1
      <4>. QED
        BY <2>1, <2>3, <4>1, <4>2
    <3>. QED
      BY <2>1, <3>1, <3>2
  <2>. QED
    BY <2>9, <2>10
<1>. QED
  BY <1>1, <1>2, <1>4, <1>5 DEF TypeOK

----------------------------------------------------------------------------
(* The invariant holds at first, and every action keeps it.                *)
LEMMA InitIInv == Init => IInv
<1>. SUFFICES ASSUME Init
              PROVE  IInv
  OBVIOUS
<1>. USE DEF Init
<1>1. 0 \in Ages
  BY GradeTicksType DEF Ages
<1>2. TypeOK
  BY <1>1, RangeIsQueued DEF TypeOK
<1>3. Ceiling
  BY FS_EmptySet, ConstantsAssumption DEF Ceiling
<1>4. QueuedOnce /\ HoldersRun /\ RunnersHold /\ OneSlotPerUser
  BY DEF QueuedOnce, HoldersRun, RunnersHold, OneSlotPerUser, Running
<1>. QED
  BY <1>2, <1>3, <1>4 DEF IInv

LEMMA RefuseKeeps ==
    ASSUME IInv, NEW r \in Requests, NEW u \in Users, Refuse(r, u)
    PROVE  IInv'
<1>. USE DEF IInv, Refuse
<1>1. TypeOK' /\ QueuedOnce'
  BY DEF TypeOK, QueuedOnce, Expired
<1>2. Ceiling'
  <2>1. active' \subseteq active
    OBVIOUS
  <2>2. /\ Cardinality(active') \in Nat /\ Cardinality(active) \in Nat
        /\ Cardinality(active') <= Cardinality(active)
    BY <2>1, SlotsFinite
  <2>. QED
    BY <2>2, ConstantsAssumption DEF Ceiling
<1>3. HoldersRun' /\ RunnersHold' /\ OneSlotPerUser'
  BY DEF HoldersRun, RunnersHold, OneSlotPerUser, Running, Expired
<1>. QED
  BY <1>1, <1>2, <1>3

LEMMA EnqueueKeeps ==
    ASSUME IInv, NEW r \in Requests, NEW u \in Users, Enqueue(r, u)
    PROVE  IInv'
<1>. USE DEF IInv, Enqueue
<1>1. /\ waiting \in Seq(Requests)
      /\ Len(waiting) \in Nat
      /\ waiting' \in Seq(Requests)
      /\ Len(waiting') = Len(waiting) + 1
      /\ \A i \in 1 .. Len(waiting) : waiting'[i] = waiting[i]
      /\ waiting'[Len(waiting) + 1] = r
  BY DEF TypeOK
<1>2. \A i \in 1 .. Len(waiting) : waiting[i] # r
  BY <1>1, RangeIsQueued DEF TypeOK
<1>3. QueuedOnce'
  BY <1>1, <1>2 DEF QueuedOnce
<1>4. TypeOK'
  <2>1. Range(waiting') = Range(waiting) \cup {r}
    BY <1>1, RangeIsQueued, RangeIsQueuedPrime
  <2>. QED
    BY <1>1, <2>1, ConstantsAssumption DEF TypeOK
<1>5. Ceiling'
  <2>1. active' \subseteq active
    OBVIOUS
  <2>2. /\ Cardinality(active') \in Nat /\ Cardinality(active) \in Nat
        /\ Cardinality(active') <= Cardinality(active)
    BY <2>1, SlotsFinite
  <2>. QED
    BY <2>2, ConstantsAssumption DEF Ceiling
<1>6. r \notin active /\ Running' = Running
  BY DEF HoldersRun, Running, TypeOK
<1>7. HoldersRun' /\ RunnersHold'
  BY <1>6 DEF HoldersRun, RunnersHold, Expired
<1>8. OneSlotPerUser'
  BY <1>6 DEF OneSlotPerUser, TypeOK
<1>. QED
  BY <1>3, <1>4, <1>5, <1>7, <1>8

LEMMA AdmitKeeps ==
    ASSUME IInv, NEW r \in Requests, NEW u \in Users, Admit(r, u)
    PROVE  IInv'
<1>. USE DEF IInv, Admit
<1>1. TypeOK'
  <2>1. 0 \in Ages
    BY GradeTicksType DEF Ages
  <2>. QED
    BY <2>1, ConstantsAssumption DEF TypeOK
<1>2. QueuedOnce'
  BY DEF QueuedOnce
<1>3. Ceiling'
  BY OneMore DEF Ceiling
<1>4. r \notin active /\ Running' = Running \cup {r}
  BY DEF HoldersRun, Running, TypeOK
<1>5. HoldersRun' /\ RunnersHold'
  BY <1>4 DEF HoldersRun, RunnersHold, Expired, Running, TypeOK
<1>6. OneSlotPerUser'
  BY <1>4 DEF OneSlotPerUser, TypeOK, HasActiveFor
<1>. QED
  BY <1>1, <1>2, <1>3, <1>5, <1>6

(* A release that calls nobody dismisses n waiters; one that calls the     *)
(* waiter at i gives it the slot.                                          *)
LEMMA ReleaseKeeps ==
    ASSUME IInv, NEW r \in Requests, Release(r)
    PROVE  IInv'
<1>. DEFINE left == active \ {r}
<1>. USE DEF IInv
<1>1. phase[r] = "running" /\ Len(waiting) \in Nat /\ active \subseteq Requests
  BY DEF Release, TypeOK
<1>2. \A i \in 1 .. Len(waiting) :
         /\ waiting[i] \in Requests
         /\ phase[waiting[i]] = "waiting"
         /\ waiting[i] # r
         /\ waiting[i] \notin active
  BY <1>1, RangeIsQueued DEF TypeOK, HoldersRun, Running
<1>3. Cardinality(left) \in Nat /\ Cardinality(left) <= MaxConcurrent
  <2>1. /\ Cardinality(left) \in Nat /\ Cardinality(active) \in Nat
        /\ Cardinality(left) <= Cardinality(active)
    BY SlotsFinite
  <2>. QED
    BY <2>1, ConstantsAssumption DEF Ceiling
<1>4. ASSUME NEW n \in 0 .. Len(waiting), active' = left, Dismiss(r, n, {})
      PROVE  IInv'
  <2>1. TypeOK' /\ QueuedOnce'
    BY <1>1, <1>4, DismissKeepsQueue
  <2>2. Ceiling'
    BY <1>3, <1>4 DEF Ceiling
  <2>3. \A p \in Requests :
           /\ p \in Leaves(r, n, {}) => p = r \/ phase[p] = "waiting"
           /\ p = r => p \in Leaves(r, n, {})
    BY <1>1, <1>2 DEF Leaves
  <2>4. Running' = Running \ {r}
    BY <1>4, <2>3 DEF Running, Dismiss
  <2>5. HoldersRun' /\ RunnersHold'
    BY <1>4, <2>3, <2>4 DEF HoldersRun, RunnersHold, Dismiss, Running
  <2>6. \A p \in left : user'[p] = user[p]
    BY <1>1, <1>4, <2>3 DEF HoldersRun, Running, Dismiss
  <2>7. OneSlotPerUser'
    BY <1>4, <2>6 DEF OneSlotPerUser
  <2>. QED
    BY <2>1, <2>2, <2>5, <2>7
<1>5. ASSUME ~Full(left), NEW i \in Called(left),
             active' = left \cup {waiting[i]}, Dismiss(r, i, {waiting[i]})
      PROVE  IInv'
  <2>. DEFINE w == waiting[i]
  <2>1. i \in 1 .. Len(waiting) /\ i \in 0 .. Len(waiting) /\ i \in 1 .. i
    BY <1>1 DEF Called, TypeOK
  <2>2. w \in Requests /\ phase[w] = "waiting" /\ w # r /\ w \notin active
    BY <1>2, <2>1
  <2>3. TypeOK' /\ QueuedOnce'
    BY <1>1, <1>5, <2>1, <2>2, DismissKeepsQueue
  <2>4. Ceiling'
    BY <1>5, OneMore DEF Ceiling
  <2>5. \A p \in Requests :
           /\ p \in Leaves(r, i, {w}) => p = r \/ phase[p] = "waiting"
           /\ p = r => p \in Leaves(r, i, {w})
    BY <1>1, <1>2, <2>1 DEF Leaves
  <2>6. Running' = (Running \ {r}) \cup {w}
    BY <1>5, <2>2, <2>5 DEF Running, Dismiss
  <2>7. HoldersRun' /\ RunnersHold'
    BY <1>5, <2>5, <2>6 DEF HoldersRun, RunnersHold, Dismiss, Running
  <2>8. \A p \in left \cup {w} : user'[p] = user[p]
    BY <1>1, <1>5, <2>2, <2>5 DEF HoldersRun, Running, Dismiss
  <2>9. \A p \in left : user[p] # user[w]
    BY <1>5 DEF Called, HasActiveFor
  <2>10. OneSlotPerUser'
    BY <1>5, <2>8, <2>9 DEF OneSlotPerUser
  <2>. QED
    BY <2>3, <2>4, <2>7, <2>10
<1>. QED
  BY <1>1, <1>4, <1>5, 0 \in 0 .. Len(waiting), Len(waiting) \in 0 .. Len(waiting)
  DEF Release

LEMMA TickKeeps ==
    ASSUME IInv, Tick
    PROVE  IInv'
<1>. USE DEF IInv, Tick
<1>1. TypeOK'
  BY GradeTicksType DEF TypeOK, Ages, Running
<1>2. QueuedOnce' /\ Ceiling' /\ HoldersRun' /\ OneSlotPerUser'
  BY DEF QueuedOnce, Ceiling, HoldersRun, OneSlotPerUser, Running
<1>3. RunnersHold'
  <2>1. \A r \in Running : age[r] \in Nat /\ SlotTtl \in Nat /\ age'[r] = age[r] + 1
    BY GradeTicksType, ConstantsAssumption DEF TypeOK, Ages, Running
  <2>2. Running' = Running /\ active' = active
    BY DEF Running
  <2>. QED BY <2>1, <2>2 DEF RunnersHold
<1>. QED
  BY <1>1, <1>2, <1>3

LEMMA Invariance == Spec => []IInv
<1>1. IInv /\ [Next]_vars => IInv'
  <2>. SUFFICES ASSUME IInv, [Next]_vars
                PROVE  IInv'
    OBVIOUS
  <2>1. CASE UNCHANGED vars
    BY <2>1 DEF vars, IInv, TypeOK, QueuedOnce, Ceiling, HoldersRun, RunnersHold,
                OneSlotPerUser, Running
  <2>. QED
    BY <2>1, RefuseKeeps, EnqueueKeeps, AdmitKeeps, ReleaseKeeps, TickKeeps DEF Next
<1>. QED
  BY <1>1, InitIInv, PTL DEF Spec

(* No user ever holds two slots, however requests queue and are reclaimed. *)
THEOREM SlotsCorrect == Spec => []OneSlotPerUser
<1>1. IInv => OneSlotPerUser
  BY DEF IInv
<1>. QED
  BY <1>1, Invariance, PTL

(* GRADE_CONCURRENCY bounds the grades that really run, but for those that *)
(* have outlasted SLOT_TTL_MS and lost their slot: however long a grade    *)
(* takes, and whatever the limits are.                                     *)
THEOREM HostCorrect == Spec => []HostProtected
<1>1. IInv => HostProtected
  <2>. SUFFICES ASSUME IInv PROVE HostProtected
    OBVIOUS
  <2>. DEFINE InTime == {r \in Running : r \in active \/ age[r] <= SlotTtl}
  <2>1. \A r \in Running : age[r] > SlotTtl => ~(age[r] <= SlotTtl)
    BY GradeTicksType, ConstantsAssumption DEF IInv, TypeOK, Ages, Running
  <2>2. InTime \subseteq active
    BY <2>1 DEF IInv, RunnersHold
  <2>. HIDE DEF InTime
  <2>3. /\ Cardinality(InTime) \in Nat /\ Cardinality(active) \in Nat
        /\ Cardinality(InTime) <= Cardinality(active)
    BY <2>2, SlotsFinite DEF IInv
  <2>4. Cardinality(InTime) <= MaxConcurrent
    BY <2>3, ConstantsAssumption DEF IInv, Ceiling
  <2>. QED BY <2>4 DEF HostProtected, InTime
<1>. QED
  BY <1>1, Invariance, PTL

----------------------------------------------------------------------------
(* The grades that run are finitely many, and a slot taken from one leaves *)
(* it running: whenever the map is full, MaxConcurrent grades run.         *)
LEMMA RunningFinite ==
    ASSUME NEW S, S \subseteq Requests
    PROVE  IsFiniteSet(S) /\ Cardinality(S) \in Nat
BY FS_Subset, FS_CardinalityType, ConstantsAssumption

LEMMA FullRuns ==
    ASSUME NEW S, NEW T, S \subseteq T, T \subseteq Requests, Full(S)
    PROVE  Cardinality(T) >= MaxConcurrent
<1>1. IsFiniteSet(T) /\ Cardinality(T) \in Nat /\ Cardinality(S) \in Nat
  BY RunningFinite
<1>2. Cardinality(S) <= Cardinality(T)
  BY ONLY <1>1, S \subseteq T, FS_Subset
<1>. QED
  BY <1>1, <1>2, ConstantsAssumption DEF Full

(* A waiter that is called runs in the place of the grade that ended.      *)
LEMMA Replaced ==
    ASSUME NEW S, S \subseteq Requests, NEW r \in S, NEW w \in Requests \ S
    PROVE  Cardinality((S \ {r}) \cup {w}) = Cardinality(S)
<1>1. IsFiniteSet(S) /\ Cardinality(S) \in Nat
  BY RunningFinite
<1>2. IsFiniteSet(S \ {r}) /\ Cardinality(S \ {r}) = Cardinality(S) - 1
  BY ONLY <1>1, r \in S, FS_RemoveElement
<1>3. Cardinality((S \ {r}) \cup {w}) = Cardinality(S \ {r}) + 1
  BY ONLY <1>2, w \notin S, FS_AddElement
<1>. QED
  BY <1>1, <1>2, <1>3

LEMMA BusyStep ==
    ASSUME IInv, NoIdleSlot, [Next]_vars
    PROVE  NoIdleSlot'
<1>. USE DEF NoIdleSlot
<1>1. /\ Running \subseteq Requests /\ Running' \subseteq Requests
      /\ active \subseteq Running
      /\ waiting \in Seq(Requests) /\ phase \in [Requests -> {"idle", "waiting", "running"}]
  BY DEF Running, IInv, HoldersRun, TypeOK
<1>2. ASSUME NEW r \in Requests, NEW u \in Users, Refuse(r, u) PROVE NoIdleSlot'
  BY <1>2 DEF Refuse, Running
<1>3. ASSUME NEW r \in Requests, NEW u \in Users, Enqueue(r, u) PROVE NoIdleSlot'
  <2>1. Running' = Running
    BY <1>1, <1>3 DEF Enqueue, Running
  <2>2. Full(active \ Expired)
    BY <1>3 DEF Enqueue
  <2>3. Cardinality(Running) >= MaxConcurrent
    BY <1>1, <2>2, FullRuns
  <2>. QED
    BY <2>1, <2>3
<1>4. ASSUME NEW r \in Requests, NEW u \in Users, Admit(r, u) PROVE NoIdleSlot'
  <2>1. Running' = Running \cup {r} /\ waiting' = waiting
    BY <1>1, <1>4 DEF Admit, Running
  <2>2. /\ IsFiniteSet(Running) /\ Cardinality(Running) \in Nat
        /\ IsFiniteSet(Running') /\ Cardinality(Running') \in Nat
    BY <1>1, RunningFinite
  <2>3. Cardinality(Running) <= Cardinality(Running')
    BY ONLY <2>1, <2>2, FS_Subset
  <2>. QED
    BY <2>1, <2>2, <2>3, ConstantsAssumption
<1>5. ASSUME NEW r \in Requests, Release(r) PROVE NoIdleSlot'
  <2>. DEFINE left == active \ {r}
  <2>0. r \in Running
    BY <1>5 DEF Release, Running
  <2>1. \A i \in 1 .. Len(waiting) : waiting[i] \in Requests \ Running
    BY <1>1, RangeIsQueued DEF IInv, TypeOK, Running
  <2>2. CASE Full(left) /\ Dismiss(r, 0, {})
    <3>1. Running' = Running \ {r}
      BY <1>1, <2>2 DEF Dismiss, Leaves, Running
    <3>2. Cardinality(Running') >= MaxConcurrent
      BY <1>1, <2>2, <3>1, FullRuns
    <3>. QED
      BY <3>2
  <2>3. ASSUME NEW i \in Called(left), Dismiss(r, i, {waiting[i]})
        PROVE  NoIdleSlot'
    <3>1. i \in 1 .. Len(waiting) /\ waiting # <<>>
      BY <1>1 DEF Called
    <3>2. waiting[i] \in Requests \ Running
      BY <2>1, <3>1
    <3>3. 1 .. i \subseteq 1 .. Len(waiting)
      BY <1>1, <3>1
    <3>4. \A p \in Requests :
             /\ p \in Leaves(r, i, {waiting[i]}) => p = r \/ p \notin Running
             /\ p = r => p \in Leaves(r, i, {waiting[i]})
      BY <2>1, <3>2, <3>3 DEF Leaves
    <3>5. Running' = (Running \ {r}) \cup {waiting[i]}
      BY <1>1, <2>0, <2>3, <3>2, <3>4 DEF Dismiss, Running
    <3>6. Cardinality(Running') = Cardinality(Running)
      BY <1>1, <2>0, <3>2, <3>5, Replaced
    <3>. QED
      BY <3>1, <3>6
  <2>4. CASE Dismiss(r, Len(waiting), {})
    <3>1. waiting' = <<>>
      BY <1>1, <2>4 DEF Dismiss
    <3>. QED
      BY <3>1
  <2>. QED
    BY <1>5, <2>2, <2>3, <2>4 DEF Release
<1>6. CASE Tick
  BY <1>6 DEF Tick, Running
<1>7. CASE UNCHANGED vars
  BY <1>7 DEF vars, Running
<1>. QED
  BY <1>2, <1>3, <1>4, <1>5, <1>6, <1>7 DEF Next

(* A place is never empty while a request waits, reclaimed slots or not.   *)
THEOREM StaysBusy == Spec => []NoIdleSlot
<1>1. Init => NoIdleSlot
  BY DEF Init, NoIdleSlot
<1>2. IInv /\ NoIdleSlot /\ [Next]_vars => NoIdleSlot'
  BY BusyStep
<1>. QED
  BY <1>1, <1>2, Invariance, PTL DEF Spec

----------------------------------------------------------------------------
(* A set of natural numbers that is not empty has a least member.  (The    *)
(* library's SmallestNatural takes an operator, which no prover here can   *)
(* instantiate; WFMin takes the set.)                                      *)
LEMMA NatOrder ==
    \E R : IsWellFoundedOn(R, Nat) /\ \A x, y \in Nat : x < y => <<x, y>> \in R
<1>1. \A x, y \in Nat : x < y => <<x, y>> \in OpToRel(<, Nat)
  BY DEF OpToRel
<1>. QED
  BY <1>1, NatLessThanWellFounded, Zenon

LEMMA LeastNatural ==
    ASSUME NEW T, T \subseteq Nat, T # {}
    PROVE  \E x \in T : \A y \in T : x <= y
<1>1. PICK R : IsWellFoundedOn(R, Nat) /\ \A x, y \in Nat : x < y => <<x, y>> \in R
  BY NatOrder
<1>2. IsWellFoundedOn(R, Nat)
  BY ONLY <1>1, Zenon
<1>3. \E x \in T : \A y \in T : ~(<<y, x>> \in R)
  BY ONLY <1>2, WFMin, T \subseteq Nat, T # {}, Zenon
<1>4. \A x, y \in T : <<y, x>> \notin R => x <= y
  <2>. TAKE x, y \in T
  <2>1. x \in Nat /\ y \in Nat
    OBVIOUS
  <2>2. y < x => <<y, x>> \in R
    BY <1>1, <2>1
  <2>. QED
    BY <2>1, <2>2
<1>. QED
  BY ONLY <1>3, <1>4

(* If a release calls nobody although there is room, every waiter has a    *)
(* grade of its own user running: otherwise the first that has none would  *)
(* be called.                                                              *)
LEMMA NobodyCalled ==
    ASSUME waiting \in Seq(Requests), NEW slots, Called(slots) = {},
           NEW i \in 1 .. Len(waiting)
    PROVE  HasActiveFor(user[waiting[i]], slots)
<1>. DEFINE free == {j \in 1 .. Len(waiting) : ~HasActiveFor(user[waiting[j]], slots)}
<1>. SUFFICES ASSUME ~HasActiveFor(user[waiting[i]], slots)
              PROVE  FALSE
  OBVIOUS
<1>1. free \subseteq Nat /\ i \in free
  OBVIOUS
<1>2. PICK j \in free : \A k \in free : j <= k
  <2>. HIDE DEF free
  <2>. QED
    BY <1>1, LeastNatural
<1>3. j \in 1 .. Len(waiting) /\ Len(waiting) \in Nat /\ DOMAIN waiting = 1 .. Len(waiting)
  OBVIOUS
<1>4. \A k \in 1 .. j - 1 : HasActiveFor(user[waiting[k]], slots)
  <2>. SUFFICES ASSUME NEW k \in 1 .. j - 1
                PROVE  k \notin free /\ k \in 1 .. Len(waiting)
    OBVIOUS
  <2>1. k \in 1 .. Len(waiting) /\ ~(j <= k)
    BY <1>3
  <2>. QED
    BY <1>2, <2>1
<1>5. j \in Called(slots)
  BY <1>3, <1>4 DEF Called
<1>. QED
  BY <1>5

(* Whoever is admitted past the queue finds it empty, as long as no grade  *)
(* has lost its slot: a queue that is not empty means that all slots are   *)
(* taken.                                                                  *)
LEMMA AdmittedAlone ==
    ASSUME IInv, NoIdleSlot, NeverEvicted', NEW r \in Requests, NEW u \in Users, Admit(r, u)
    PROVE  waiting = <<>>
<1>. DEFINE kept == active \ Expired
<1>. SUFFICES ASSUME waiting # <<>>
              PROVE  FALSE
  OBVIOUS
<1>1. ~Full(kept) /\ active' = kept \cup {r} /\ phase[r] = "idle"
  BY DEF Admit
<1>2. Running \subseteq Running' /\ r \notin Running
  BY DEF Admit, Running, IInv, TypeOK
<1>3. Running \subseteq kept /\ kept \subseteq active
  BY <1>1, <1>2 DEF NeverEvicted
<1>4. /\ IsFiniteSet(kept) /\ Cardinality(kept) \in Nat
      /\ Cardinality(Running) \in Nat
  BY <1>3, RunningFinite, SlotsFinite DEF IInv, Running
<1>5. Cardinality(Running) <= Cardinality(kept)
  BY ONLY <1>3, <1>4, FS_Subset
<1>6. Cardinality(Running) >= MaxConcurrent
  BY DEF NoIdleSlot
<1>. QED
  BY <1>1, <1>4, <1>5, <1>6, ConstantsAssumption DEF Full

(* Nobody who still waits was ahead of one that is given a slot.           *)
Overtakes(r, i) ==
    phase'[waiting[i]] = "waiting" /\ ~\E j \in 1 .. i - 1 : waiting[j] = r

LEMMA OvertakingStep ==
    ASSUME IInv, NoIdleSlot, [Next]_vars, NeverEvicted, NeverEvicted',
           NEW r \in Running' \ Running, NEW i \in DOMAIN waiting
    PROVE  ~Overtakes(r, i)
<1>1. /\ waiting \in Seq(Requests) /\ Len(waiting) \in Nat
      /\ DOMAIN waiting = 1 .. Len(waiting)
      /\ phase \in [Requests -> {"idle", "waiting", "running"}]
      /\ \A k \in 1 .. Len(waiting) : phase[waiting[k]] = "waiting" /\ waiting[k] \in Requests
  BY RangeIsQueued DEF IInv, TypeOK
<1>2. ASSUME NEW q \in Requests, NEW u \in Users, Refuse(q, u) PROVE ~Overtakes(r, i)
  BY <1>2 DEF Refuse, Running
<1>3. ASSUME NEW q \in Requests, NEW u \in Users, Enqueue(q, u) PROVE ~Overtakes(r, i)
  BY <1>1, <1>3 DEF Enqueue, Running
<1>4. ASSUME NEW q \in Requests, NEW u \in Users, Admit(q, u) PROVE ~Overtakes(r, i)
  BY <1>1, <1>4, AdmittedAlone
<1>5. ASSUME NEW q \in Requests, Release(q) PROVE ~Overtakes(r, i)
  <2>. DEFINE left == active \ {q}
  <2>1. ASSUME NEW n, Dismiss(q, n, {}) PROVE FALSE
    BY <1>1, <2>1 DEF Dismiss, Running
  <2>2. ASSUME NEW k \in Called(left), Dismiss(q, k, {waiting[k]}) PROVE ~Overtakes(r, i)
    <3>1. r = waiting[k] /\ k \in 1 .. Len(waiting) /\ i \in 1 .. Len(waiting)
      BY <1>1, <2>2 DEF Dismiss, Running, Called
    <3>2. CASE k < i
      <4>1. k \in 1 .. i - 1
        BY <3>1, <3>2
      <4>. QED
        BY <3>1, <4>1 DEF Overtakes
    <3>3. CASE i <= k
      <4>1. waiting[i] \in Leaves(q, k, {waiting[k]})
        BY <3>1, <3>3 DEF Leaves
      <4>2. phase'[waiting[i]] \in {"running", "idle"}
        BY <1>1, <2>2, <3>1, <4>1 DEF Dismiss
      <4>. QED
        BY <4>2 DEF Overtakes
    <3>. QED
      BY <3>1, <3>2, <3>3
  <2>. QED
    BY <1>5, <2>1, <2>2 DEF Release
<1>6. CASE Tick
  BY <1>6 DEF Tick, Running
<1>7. CASE UNCHANGED vars
  BY <1>7 DEF vars, Running
<1>. QED
  BY <1>2, <1>3, <1>4, <1>5, <1>6, <1>7 DEF Next

(* A waiter that leaves without a slot leaves a grade of its own user      *)
(* running.                                                                *)
LEMMA RefusedStep ==
    ASSUME IInv, [Next]_vars, NEW r \in Requests,
           phase[r] = "waiting", phase'[r] = "idle"
    PROVE  \E s \in active' : user'[s] = user[r]
<1>. DEFINE Own == \E s \in active' : user'[s] = user[r]
<1>. SUFFICES Own
  OBVIOUS
<1>1. /\ waiting \in Seq(Requests) /\ Len(waiting) \in Nat
      /\ active \subseteq Requests
      /\ phase \in [Requests -> {"idle", "waiting", "running"}]
      /\ \A k \in 1 .. Len(waiting) : phase[waiting[k]] = "waiting" /\ waiting[k] \in Requests
      /\ \A s \in active : phase[s] = "running"
  BY RangeIsQueued DEF IInv, TypeOK, HoldersRun, Running
<1>2. ASSUME NEW q \in Requests, NEW u \in Users, Refuse(q, u) PROVE Own
  BY <1>2 DEF Refuse
<1>3. ASSUME NEW q \in Requests, NEW u \in Users, Enqueue(q, u) PROVE Own
  BY <1>1, <1>3 DEF Enqueue
<1>4. ASSUME NEW q \in Requests, NEW u \in Users, Admit(q, u) PROVE Own
  BY <1>1, <1>4 DEF Admit
<1>5. ASSUME NEW q \in Requests, Release(q) PROVE Own
  <2>. DEFINE left == active \ {q}
  <2>0. phase[q] = "running"
    BY <1>5 DEF Release
  <2>1. ASSUME NEW n \in 0 .. Len(waiting), NEW c, Dismiss(q, n, c)
        PROVE  r \in Leaves(q, n, c) \ c /\ \A s \in left : user'[s] = user[s]
    <3>1. \A s \in left : s \notin Leaves(q, n, c)
      BY <1>1 DEF Leaves
    <3>2. phase'[r] = IF r \in c THEN "running"
                     ELSE IF r \in Leaves(q, n, c) THEN "idle" ELSE phase[r]
      BY <2>1 DEF Dismiss
    <3>3. \A s \in Requests :
             user'[s] = IF s \in Leaves(q, n, c) \ c THEN NoUser ELSE user[s]
      BY <2>1 DEF Dismiss
    <3>4. r \in Leaves(q, n, c) \ c
      BY ONLY <3>2, phase[r] = "waiting", phase'[r] = "idle"
    <3>5. left \subseteq Requests
      BY <1>1
    <3>. HIDE DEF left
    <3>. QED
      BY ONLY <3>1, <3>3, <3>4, <3>5
  <2>2. ASSUME NEW n \in 0 .. Len(waiting), NEW c, r \in Leaves(q, n, c)
        PROVE  \E i \in 1 .. n : waiting[i] = r
    BY <2>0, <2>2 DEF Leaves
  <2>3. CASE Dismiss(q, 0, {})
    BY <1>1, <2>1, <2>2, <2>3
  <2>4. ASSUME NEW k \in Called(left), active' = left \cup {waiting[k]},
               Dismiss(q, k, {waiting[k]})
        PROVE  Own
    <3>1. k \in 1 .. Len(waiting) /\ k \in 0 .. Len(waiting)
      BY <1>1 DEF Called
    <3>2. r # waiting[k] /\ \A s \in left : user'[s] = user[s]
      BY <2>1, <2>4, <3>1
    <3>3. PICK i \in 1 .. k : waiting[i] = r
      BY <2>1, <2>2, <2>4, <3>1
    <3>4. i \in 1 .. k - 1
      BY <3>1, <3>2, <3>3
    <3>5. HasActiveFor(user[r], left)
      BY <3>3, <3>4 DEF Called
    <3>. QED
      BY <2>4, <3>2, <3>5 DEF HasActiveFor
  <2>5. CASE Called(left) = {} /\ active' = left /\ Dismiss(q, Len(waiting), {})
    <3>1. \A s \in left : user'[s] = user[s]
      BY <1>1, <2>1, <2>5
    <3>0. Len(waiting) \in 0 .. Len(waiting) /\ r \in Leaves(q, Len(waiting), {})
      BY <1>1, <2>1, <2>5
    <3>2. PICK i \in 1 .. Len(waiting) : waiting[i] = r
      BY <2>2, <3>0
    <3>3. waiting \in Seq(Requests) /\ Called(left) = {}
      BY <1>1, <2>5
    <3>4. HasActiveFor(user[waiting[i]], left)
      <4>. HIDE DEF left
      <4>. QED
        BY ONLY <3>3, NobodyCalled
    <3>5. HasActiveFor(user[r], left)
      BY <3>2, <3>4
    <3>. QED
      BY <2>5, <3>1, <3>5 DEF HasActiveFor
  <2>. QED
    BY <1>5, <2>3, <2>4, <2>5 DEF Release
<1>6. CASE Tick
  BY <1>6 DEF Tick
<1>7. CASE UNCHANGED vars
  BY <1>7 DEF vars
<1>. QED
  BY <1>2, <1>3, <1>4, <1>5, <1>6, <1>7 DEF Next

(* The queue is fair to those in it: as long as no grade loses its slot,   *)
(* whoever is given one overtakes nobody; and a waiter is refused only for *)
(* a grade of its own user.                                                *)
THEOREM FairToWaiters == Spec => QueueIsFair
<1>1. IInv /\ NoIdleSlot /\ [Next]_vars =>
        [NeverEvicted /\ NeverEvicted' =>
            \A r \in Running' \ Running : \A i \in DOMAIN waiting :
                phase'[waiting[i]] = "waiting" =>
                    \E j \in 1 .. i - 1 : waiting[j] = r]_vars
  BY OvertakingStep DEF Overtakes
<1>2. IInv /\ [Next]_vars =>
        [\A r \in Requests :
            phase[r] = "waiting" /\ phase'[r] = "idle" =>
                \E s \in active' : user'[s] = user[r]]_vars
  BY RefusedStep
<1>. QED
  BY <1>1, <1>2, Invariance, StaysBusy, PTL
     DEF Spec, QueueIsFair, NoOvertaking, RefusedForOwnGrade


----------------------------------------------------------------------------
(* SpeedGate.  The types, and what a grader has reached at each statement. *)
Statuses == {"none", "running", "internal_error", "wrong", "accepted", "too_slow"}

Labels == {"idle", "judging", "gate", "save", "standing", "count", "release", "counted"}

ProblemTyped(p) == p.average \in Nat /\ p.count \in Nat

RowTyped(row) ==
    /\ DOMAIN row = {"status", "language", "elapsed", "runtime"}
    /\ row.status \in Statuses /\ row.elapsed \in Nat /\ row.runtime \in Nat

GateTypes ==
    /\ DOMAIN problem = {"best", "average", "count"} /\ ProblemTyped(problem)
    /\ pc \in [Graders -> Labels]
    /\ DOMAIN rows = Graders /\ DOMAIN seen = Graders
    /\ DOMAIN lock = Graders /\ DOMAIN verdict = Graders
    /\ \A g \in Graders :
          /\ RowTyped(rows[g]) /\ ProblemTyped(seen[g])
          /\ DOMAIN verdict[g] = DOMAIN NoVerdict

Reached ==
    \A g \in Graders :
        /\ pc[g] \in {"judging", "gate", "save"} => rows[g].status = "running"
        /\ pc[g] = "standing" =>
              rows[g].status = IF verdict[g].passed THEN "accepted" ELSE "too_slow"
        /\ pc[g] \in {"count", "release", "counted"} =>
              rows[g].status = "accepted" /\ verdict[g].passed
        /\ pc[g] = "idle" => rows[g].status # "running"
        /\ lock[g] = "released" => rows[g].status = "accepted"

GateInv == GateTypes /\ Reached

LEMMA GateInvInit == GateInit => GateInv
BY SpeedGateAssumption
   DEF GateInit, GateInv, GateTypes, Reached, ProblemTyped, RowTyped, NewProblem, NewRow, Labels,
       Statuses, NoVerdict

LEMMA RoundedTyped ==
    ASSUME NEW n \in Nat, NEW d \in Nat \ {0}
    PROVE  Rounded(n, d) \in Nat
<1>1. 2 * n + d \in Nat /\ 2 * d \in Nat \ {0}
  OBVIOUS
<1>2. \A x \in Nat, y \in Nat \ {0} : x \div y \in Nat
  OBVIOUS
<1>. QED BY <1>1, <1>2 DEF Rounded

LEMMA NewAverageTyped ==
    ASSUME NEW p, ProblemTyped(p), NEW e \in Nat
    PROVE  NewAverage(p, e) \in Nat
<1>1. \A x, y \in Nat : x * y \in Nat
  OBVIOUS
<1>2. p.average * p.count + e \in Nat /\ p.count + 1 \in Nat \ {0}
  BY <1>1 DEF ProblemTyped
<1>. QED BY <1>2, RoundedTyped DEF NewAverage, ProblemTyped

LEMMA StartWrites ==
    ASSUME GateTypes, NEW g \in Graders, Start(g)
    PROVE  /\ DOMAIN rows' = Graders /\ RowTyped(rows'[g]) /\ rows'[g].status = "running"
           /\ \A h \in Graders \ {g} : rows'[h] = rows[h]
<1>1. PICK l \in Languages, e \in Elapsed \cup {0} :
        rows' = [rows EXCEPT ![g] = [status |-> "running", language |-> l,
                                     elapsed |-> e, runtime |-> 0]]
  BY DEF Start
<1>2. e \in Nat
  BY SpeedGateAssumption
<1>. QED BY <1>1, <1>2 DEF GateTypes, RowTyped, Statuses

LEMMA JudgeWrites ==
    ASSUME GateTypes, NEW g \in Graders, Judge(g)
    PROVE  /\ DOMAIN rows' = Graders
           /\ \A h \in Graders \ {g} : rows'[h] = rows[h] /\ pc'[h] = pc[h]
           /\ rows'[g].language = rows[g].language /\ rows'[g].elapsed = rows[g].elapsed
           /\ \/ rows'[g].status \in {"internal_error", "wrong"} /\ pc'[g] = "idle"
              \/ rows'[g].status = rows[g].status /\ pc'[g] = "gate"
<1>1. CASE /\ \E s \in {"internal_error", "wrong"} : rows' = [rows EXCEPT ![g].status = s]
           /\ pc' = [pc EXCEPT ![g] = "idle"]
  BY <1>1 DEF GateTypes, RowTyped
<1>2. CASE /\ \E r \in Runtimes : rows' = [rows EXCEPT ![g].runtime = r]
           /\ pc' = [pc EXCEPT ![g] = "gate"]
  BY <1>2 DEF GateTypes, RowTyped
<1>. QED BY <1>1, <1>2 DEF Judge, Goto

LEMMA GateInvStep == GateInv /\ [GateNext]_gateVars => GateInv'
<1>. SUFFICES ASSUME GateInv, [GateNext]_gateVars PROVE GateInv'
  OBVIOUS
<1>. USE SpeedGateAssumption DEF GateInv, GateTypes, Reached, ProblemTyped, RowTyped,
        NewProblem, NoVerdict, Labels, Statuses, Goto
<1>1. ASSUME NEW g \in Graders, Start(g) PROVE GateInv'
  <2>1. /\ seen' = [seen EXCEPT ![g] = problem] /\ problem' = problem /\ verdict' = verdict
        /\ pc' = [pc EXCEPT ![g] = "judging"] /\ rows[g].status = "none"
        /\ lock' = [lock EXCEPT ![g] = "locked"] \/ lock' = lock
    BY <1>1 DEF Start
  <2>2. /\ DOMAIN rows' = Graders /\ RowTyped(rows'[g]) /\ rows'[g].status = "running"
        /\ \A h \in Graders \ {g} : rows'[h] = rows[h]
    BY <1>1, StartWrites
  <2>. QED BY <2>1, <2>2
<1>2. ASSUME NEW g \in Graders, Judge(g) PROVE GateInv'
  BY <1>2 DEF Judge
<1>3. ASSUME NEW g \in Graders, DecideGate(g) PROVE GateInv'
  BY <1>3 DEF DecideGate
<1>4. ASSUME NEW g \in Graders, Save(g) PROVE GateInv'
  BY <1>4 DEF Save
<1>5. ASSUME NEW g \in Graders, Stand(g) PROVE GateInv'
  BY <1>5 DEF Stand, AfterStanding
<1>6. ASSUME NEW g \in Graders, Count(g) PROVE GateInv'
  BY <1>6, NewAverageTyped DEF Count, Counted
<1>7. ASSUME NEW g \in Graders, ReleaseLock(g) PROVE GateInv'
  BY <1>7 DEF ReleaseLock
<1>8. ASSUME NEW g \in Graders, Finish(g) PROVE GateInv'
  BY <1>8 DEF Finish
<1>9. ASSUME NEW g \in Graders, EndLock(g) PROVE GateInv'
  BY <1>9 DEF EndLock
<1>10. CASE UNCHANGED gateVars
  BY <1>10 DEF gateVars
<1>. QED BY <1>1, <1>2, <1>3, <1>4, <1>5, <1>6, <1>7, <1>8, <1>9, <1>10 DEF GateNext

(* Every grade is typed and has come as far as its label says, in every    *)
(* behaviour.                                                              *)
THEOREM GateInvariant == GateSpec => []GateInv
BY GateInvInit, GateInvStep, PTL DEF GateSpec

(* Solves grow with each count, and what was solved stays as it was.       *)
LEMMA SolvesGrow ==
    ASSUME GateInv, [GateNext]_gateVars
    PROVE  /\ \/ Solves' = Solves /\ problem'.count = problem.count
                 /\ problem'.average = problem.average /\ problem'.best = problem.best
              \/ \E g \in Graders : Count(g) /\ g \notin Solves /\ Solves' = Solves \cup {g}
           /\ \A g \in Solves : /\ rows'[g].elapsed = rows[g].elapsed
                                /\ rows'[g].runtime = rows[g].runtime
                                /\ rows'[g].language = rows[g].language
<1> DEFINE Kept == \A g \in Solves : /\ rows'[g].elapsed = rows[g].elapsed
                                     /\ rows'[g].runtime = rows[g].runtime
                                     /\ rows'[g].language = rows[g].language
           Same == Solves' = Solves /\ UNCHANGED problem
<1> USE DEF GateInv, GateTypes, Reached, Labels, Goto, Solves
<1>1. ASSUME NEW g \in Graders, Start(g) PROVE Same /\ Kept
  BY <1>1, StartWrites DEF Start
<1>2. ASSUME NEW g \in Graders, Judge(g) PROVE Same /\ Kept
  BY <1>2, JudgeWrites DEF Judge
<1>3. ASSUME NEW g \in Graders, DecideGate(g) PROVE Same /\ Kept
  BY <1>3 DEF DecideGate
<1>4. ASSUME NEW g \in Graders, Save(g) PROVE Same /\ Kept
  BY <1>4 DEF Save
<1>5. ASSUME NEW g \in Graders, Stand(g) PROVE Same /\ Kept
  BY <1>5 DEF Stand, AfterStanding
<1>6. ASSUME NEW g \in Graders, Count(g)
      PROVE  g \notin Solves /\ Solves' = Solves \cup {g} /\ Kept
  BY <1>6 DEF Count
<1>7. ASSUME NEW g \in Graders, ReleaseLock(g) PROVE Same /\ Kept
  BY <1>7 DEF ReleaseLock
<1>8. ASSUME NEW g \in Graders, Finish(g) PROVE Same /\ Kept
  BY <1>8 DEF Finish
<1>9. ASSUME NEW g \in Graders, EndLock(g) PROVE Same /\ Kept
  BY <1>9 DEF EndLock
<1>10. CASE UNCHANGED gateVars
  BY <1>10 DEF gateVars
<1> HIDE DEF Solves, GateInv, GateTypes, Reached
<1>. QED BY <1>1, <1>2, <1>3, <1>4, <1>5, <1>6, <1>7, <1>8, <1>9, <1>10 DEF GateNext

(* A rounded mean lies between the two it is made of.                      *)
LEMMA Multiplied ==
    ASSUME NEW x \in Nat, NEW y \in Nat, NEW n \in Nat, x <= y
    PROVE  x * n <= y * n
OBVIOUS

LEMMA QuotientBounds ==
    ASSUME NEW a \in Nat, NEW b \in Nat \ {0}, NEW lo \in Nat, NEW hi \in Nat,
           lo * b <= a, a < (hi + 1) * b
    PROVE  lo <= a \div b /\ a \div b <= hi
<1>. DEFINE q == a \div b
<1>1. q \in Nat /\ q * b <= a /\ a < (q + 1) * b
  OBVIOUS
<1>. HIDE DEF q
<1>2. ASSUME q < lo PROVE FALSE
  <2>1. (q + 1) * b <= lo * b
    BY <1>1, <1>2, Multiplied
  <2>. QED BY <1>1, <2>1
<1>3. ASSUME hi < q PROVE FALSE
  <2>1. (hi + 1) * b <= q * b
    BY <1>1, <1>3, Multiplied
  <2>. QED BY <1>1, <2>1
<1>4. lo <= q /\ q <= hi
  BY <1>1, <1>2, <1>3
<1>. QED BY <1>4 DEF q

LEMMA RoundedBetween ==
    ASSUME NEW a \in Nat, NEW c \in Nat, NEW e \in Nat, NEW lo \in Nat, NEW hi \in Nat,
           lo <= a, lo <= e, a <= hi, e <= hi
    PROVE  lo <= Rounded(a * c + e, c + 1) /\ Rounded(a * c + e, c + 1) <= hi
<1>1. lo * c <= a * c /\ a * c <= hi * c /\ a * c \in Nat /\ lo * c \in Nat /\ hi * c \in Nat
  BY Multiplied
<1>. DEFINE d == 2 * (c + 1)
            m == 2 * (a * c + e) + (c + 1)
<1>2. d \in Nat \ {0} /\ m \in Nat
  BY <1>1
<1>3. lo * d = 2 * (lo * c) + 2 * lo /\ (hi + 1) * d = 2 * (hi * c) + 2 * hi + 2 * c + 2
  BY <1>1
<1>4. lo * d <= m /\ m < (hi + 1) * d
  BY <1>1, <1>3
<1>. HIDE DEF d, m
<1>5. lo <= m \div d /\ m \div d <= hi
  BY <1>2, <1>4, QuotientBounds
<1>. QED BY <1>5 DEF Rounded, d, m

(* The count is of the solves, and the average, of the problem and as any  *)
(* grader read it, lies between the extremes of what it is made of.        *)
Times == {InitialAverage} \cup {rows[g].elapsed : g \in Timed}

Spans(lo, hi) ==
    /\ \A t \in Times : lo <= t /\ t <= hi
    /\ lo <= problem.average /\ problem.average <= hi
    /\ \A g \in Graders : lo <= seen[g].average /\ seen[g].average <= hi

CountedInv == IsFiniteSet(Solves) /\ SolvesCounted

AverageInv == \E lo, hi \in Times : Spans(lo, hi)

LEMMA CountedStep ==
    GateInv /\ CountedInv /\ [GateNext]_gateVars => CountedInv'
<1>. SUFFICES ASSUME GateInv, CountedInv, [GateNext]_gateVars PROVE CountedInv'
  OBVIOUS
<1>1. CASE Solves' = Solves /\ problem'.count = problem.count
  BY <1>1 DEF CountedInv, SolvesCounted
<1>2. ASSUME NEW g \in Graders, Count(g), g \notin Solves, Solves' = Solves \cup {g}
      PROVE  CountedInv'
  <2>1. problem'.count = problem.count + 1
    BY <1>2 DEF Count, Counted
  <2>2. IsFiniteSet(Solves') /\ Cardinality(Solves') = Cardinality(Solves) + 1
    BY <1>2, FS_AddElement DEF CountedInv
  <2>. QED BY <2>1, <2>2 DEF CountedInv, SolvesCounted
<1>. QED BY <1>1, <1>2, SolvesGrow

LEMMA TimesAreNumbers ==
    ASSUME GateInv
    PROVE  Times \subseteq Nat /\ \A g \in Timed : g \in Graders /\ rows[g].elapsed > 0
BY SpeedGateAssumption DEF GateInv, GateTypes, RowTyped, Times, Timed, Solves

LEMMA TimesGrow ==
    ASSUME GateInv, [GateNext]_gateVars
    PROVE  /\ Times \subseteq Times'
           /\ \A t \in Times' \ Times :
                 \E g \in Graders : Count(g) /\ rows[g].elapsed > 0 /\ t = rows[g].elapsed
<1>1. \A g \in Solves : rows'[g].elapsed = rows[g].elapsed /\ g \in Solves'
  BY SolvesGrow
<1>2. Times \subseteq Times'
  BY <1>1 DEF Times, Timed
<1>3. ASSUME NEW t \in Times' \ Times
      PROVE  \E g \in Graders : Count(g) /\ rows[g].elapsed > 0 /\ t = rows[g].elapsed
  <2>1. PICK g \in Solves' : rows'[g].elapsed > 0 /\ t = rows'[g].elapsed
    BY <1>3 DEF Times, Timed
  <2>2. g \notin Solves
    BY <1>1, <1>3, <2>1 DEF Times, Timed
  <2>3. Count(g) /\ g \in Graders
    BY <2>1, <2>2, SolvesGrow
  <2>4. rows' = rows
    BY <2>3 DEF Count
  <2>. QED BY <2>1, <2>3, <2>4
<1>. QED BY <1>2, <1>3

(* What a grader reads is the problem's row, and what it writes back for   *)
(* the average is made of what it read and of its own time.                *)
LEMMA AverageMoves ==
    ASSUME GateInv, [GateNext]_gateVars
    PROVE  /\ \A g \in Graders :
                 seen'[g].average = seen[g].average \/ seen'[g].average = problem.average
           /\ \/ problem'.average = problem.average
              \/ \E g \in Graders : /\ Count(g) /\ rows[g].elapsed > 0
                                    /\ problem'.average = NewAverage(seen[g], rows[g].elapsed)
<1> DEFINE Read == \A g \in Graders :
                 seen'[g].average = seen[g].average \/ seen'[g].average = problem.average
           Still == Read /\ problem' = problem
<1> USE DEF GateInv, GateTypes
<1>1. ASSUME NEW g \in Graders, Start(g) PROVE Still
  BY <1>1 DEF Start
<1>2. ASSUME NEW g \in Graders,
             Judge(g) \/ DecideGate(g) \/ Save(g) \/ Stand(g)
                \/ ReleaseLock(g) \/ Finish(g) \/ EndLock(g)
      PROVE  Still
  BY <1>2 DEF Judge, DecideGate, Save, Stand, ReleaseLock, Finish, EndLock
<1>3. ASSUME NEW g \in Graders, Count(g)
      PROVE  /\ Read
             /\ \/ problem'.average = problem.average
                \/ rows[g].elapsed > 0 /\ problem'.average = NewAverage(seen[g], rows[g].elapsed)
  BY <1>3 DEF Count, RowTyped
<1>4. CASE UNCHANGED gateVars
  BY <1>4 DEF gateVars
<1> HIDE DEF GateInv, GateTypes
<1>. QED BY <1>1, <1>2, <1>3, <1>4 DEF GateNext

LEMMA AverageStep ==
    GateInv /\ AverageInv /\ [GateNext]_gateVars => AverageInv'
<1>. SUFFICES ASSUME GateInv, AverageInv, [GateNext]_gateVars PROVE AverageInv'
  OBVIOUS
<1>1. PICK lo \in Times, hi \in Times : Spans(lo, hi)
  BY DEF AverageInv
<1>2. lo \in Nat /\ hi \in Nat /\ Times \subseteq Nat /\ lo \in Times' /\ hi \in Times'
  BY TimesAreNumbers, TimesGrow
<1>3. problem.average \in Nat /\ \A g \in Graders : ProblemTyped(seen[g]) /\ rows[g].elapsed \in Nat
  BY DEF GateInv, GateTypes, RowTyped, ProblemTyped
<1>4. CASE \E g \in Graders : Count(g) /\ rows[g].elapsed > 0
  <2>1. PICK g \in Graders : Count(g) /\ rows[g].elapsed > 0
    BY <1>4
  <2>. DEFINE e   == rows[g].elapsed
              low == IF e < lo THEN e ELSE lo
              top == IF e > hi THEN e ELSE hi
  <2>2. e \in Times'
    <3>1. g \in Solves' /\ rows' = rows
      BY <2>1 DEF Count, Solves, GateInv, GateTypes, Reached, Goto
    <3>. QED BY <2>1, <3>1 DEF Times, Timed
  <2>3. \A h \in Graders : Count(h) => h = g
    BY <2>1 DEF Count, Goto, GateInv, GateTypes
  <2>4. \A t \in Times' : t \in Times \/ t = e
    BY <2>3, TimesGrow
  <2>5. /\ low \in Times' /\ top \in Times' /\ e \in Nat /\ low \in Nat /\ top \in Nat
        /\ low <= lo /\ hi <= top /\ low <= e /\ e <= top
    BY <1>2, <1>3, <2>2
  <2>. HIDE DEF e, low, top
  <2>6. \A t \in Times' : low <= t /\ t <= top
    BY <1>1, <1>2, <2>4, <2>5 DEF Spans
  <2>7. /\ low <= problem.average /\ problem.average <= top
        /\ \A h \in Graders : low <= seen[h].average /\ seen[h].average <= top
    BY <1>1, <1>2, <1>3, <2>5 DEF Spans, ProblemTyped
  <2>8. \A h \in Graders : low <= seen'[h].average /\ seen'[h].average <= top
    BY <2>7, AverageMoves
  <2>9. low <= problem'.average /\ problem'.average <= top
    <3>1. low <= NewAverage(seen[g], e) /\ NewAverage(seen[g], e) <= top
      BY <1>3, <2>5, <2>7, RoundedBetween DEF NewAverage, ProblemTyped
    <3>2. problem'.average \in {problem.average, NewAverage(seen[g], e)}
      BY <2>3, AverageMoves DEF e
    <3>. QED BY <2>7, <3>1, <3>2
  <2>. QED BY <2>5, <2>6, <2>8, <2>9 DEF AverageInv, Spans
<1>5. CASE ~\E g \in Graders : Count(g) /\ rows[g].elapsed > 0
  <2>1. Times' = Times
    BY <1>5, TimesGrow
  <2>2. problem'.average = problem.average
    BY <1>5, AverageMoves
  <2>3. \A h \in Graders : lo <= seen'[h].average /\ seen'[h].average <= hi
    BY <1>1, AverageMoves DEF Spans
  <2>. QED BY <1>1, <1>2, <2>1, <2>2, <2>3 DEF AverageInv, Spans
<1>. QED BY <1>4, <1>5

LEMMA StatisticsFollow == GateInv /\ CountedInv /\ AverageInv => StatisticsHold
<1>. SUFFICES ASSUME GateInv, AverageInv PROVE AverageWithinItsTimes
  BY DEF CountedInv, StatisticsHold
<1>1. PICK lo \in Times, hi \in Times : Spans(lo, hi)
  BY DEF AverageInv
<1>2. Times \subseteq Nat /\ problem.average \in Nat
  BY TimesAreNumbers DEF GateInv, GateTypes, ProblemTyped
<1>3. Min(Times) \in Times /\ Min(Times) <= lo
  BY <1>1, <1>2 DEF Min, Spans
<1>4. Max(Times) \in Times /\ hi <= Max(Times)
  BY <1>1, <1>2 DEF Max, Spans
<1>. DEFINE least == Min(Times)
            most  == Max(Times)
<1>5. least \in Nat /\ most \in Nat /\ lo \in Nat /\ hi \in Nat
  BY <1>2, <1>3, <1>4
<1>6. least <= lo /\ lo <= problem.average /\ problem.average <= hi /\ hi <= most
  BY <1>1, <1>3, <1>4 DEF Spans
<1>. HIDE DEF least, most
<1>7. least <= problem.average /\ problem.average <= most
  BY <1>2, <1>5, <1>6
<1>. QED BY <1>7 DEF AverageWithinItsTimes, Times, least, most

LEMMA StatisticsInit == GateInit => CountedInv /\ AverageInv
<1>. SUFFICES ASSUME GateInit PROVE CountedInv /\ AverageInv
  OBVIOUS
<1>1. Solves = {} /\ problem.count = 0
  BY DEF GateInit, Solves, NewRow, NewProblem
<1>2. Times = {InitialAverage}
  BY <1>1 DEF Times, Timed
<1>3. Spans(InitialAverage, InitialAverage)
  BY <1>2, SpeedGateAssumption DEF Spans, GateInit, NewProblem
<1>. QED BY <1>1, <1>2, <1>3, FS_EmptySet DEF CountedInv, SolvesCounted, AverageInv

(* However grades overlap and locks end meanwhile, every accepted solve is *)
(* counted once and the average stays between the times it was made of,    *)
(* for any number of submissions, any times and any runtimes.              *)
THEOREM StatisticsCorrect == GateSpec => []StatisticsHold
BY GateInvariant, StatisticsInit, CountedStep, AverageStep, StatisticsFollow, PTL DEF GateSpec

----------------------------------------------------------------------------
(* The records.  `created` orders the graders; what the gate and the       *)
(* standing compare with is every other row, and while no slot was         *)
(* reclaimed the grader that compares is the youngest, so that every other *)
(* row is an earlier one.                                                  *)
Earlier(h, g) ==
    \E i, j \in 1 .. Len(created) : j < i /\ created[i] = g /\ created[j] = h

Present(g) == rows[g].status # "none"

OrderInv ==
    /\ created \in Seq(Graders)
    /\ \A i, j \in 1 .. Len(created) : created[i] = created[j] => i = j
    /\ \A g \in Graders : Present(g) <=> \E i \in 1 .. Len(created) : created[i] = g

BestTyped(best) == \A l \in DOMAIN best : best[l] \in Nat

BestsInv == BestTyped(problem.best) /\ \A g \in Graders : BestTyped(seen[g].best)

NotYetWaived == \A g \in Graders : ~Present(g) => ~verdict[g].waived

Alone == \A g, h \in Graders : pc[g] # "idle" /\ pc[h] # "idle" => g = h

Youngest ==
    \A g \in Graders : pc[g] # "idle" =>
        \A h \in Graders : ~Earlier(g, h) /\ (Earlier(h, g) <=> h # g /\ Present(h))

SeenFresh ==
    \A g \in Graders :
        pc[g] \in {"judging", "gate", "save", "standing", "count"} => seen[g].best = problem.best

Beats(g, h) ==
    (rows[h].language = rows[g].language /\ rows[h].status \in SolvedStatuses)
        => rows[g].runtime < rows[h].runtime

BestOfEarlier ==
    \A g \in Graders : (rows[g].status \in SolvedStatuses /\ pc[g] # "standing") =>
        (verdict[g].personalBest <=> \A h \in Graders : Earlier(h, g) => Beats(g, h))

WaivedBeforeAll ==
    \A g, h \in Graders : (verdict[g].waived /\ Earlier(h, g)) => rows[h].status \notin SolvedStatuses

OrderedInv == OrderInv /\ BestsInv /\ NotYetWaived

AloneInv == ~overlapped => Alone /\ Youngest /\ SeenFresh

ComparedInv == ~overlapped => FastestEver /\ BestOfEarlier /\ WaivedBeforeAll

LEMMA RecordsInit == GateInit => OrderedInv /\ AloneInv /\ ComparedInv
BY DEF GateInit, OrderedInv, AloneInv, ComparedInv, OrderInv, BestsInv, BestTyped, NotYetWaived,
       Alone, Youngest, SeenFresh, FastestEver, BestOfEarlier, WaivedBeforeAll, Earlier, Present,
       Solves, NewRow, NewProblem, NoVerdict, SolvedStatuses

(* A grader that starts comes after every one that is there.               *)
LEMMA StartOrders ==
    ASSUME GateInv, OrderInv, NEW g \in Graders, Start(g)
    PROVE  /\ OrderInv'
           /\ \A h, k \in Graders :
                 Earlier(h, k)' <=> (Earlier(h, k) \/ (k = g /\ Present(h)))
           /\ \A h \in Graders : Present(h)' <=> Present(h) \/ h = g
           /\ ~Present(g)
<1> DEFINE n == Len(created)
<1>1. created' = Append(created, g) /\ rows[g].status = "none"
  BY DEF Start
<1>2. /\ rows'[g].status = "running"
      /\ \A h \in Graders \ {g} : rows'[h] = rows[h]
  BY StartWrites DEF GateInv
<1>3. n \in Nat /\ created \in Seq(Graders)
  BY DEF OrderInv
<1>4. /\ created' \in Seq(Graders) /\ Len(created') = n + 1 /\ created'[n + 1] = g
      /\ \A i \in 1 .. n : created'[i] = created[i]
  BY <1>1, <1>3
<1>5. \A i \in 1 .. n : created[i] # g
  BY <1>1 DEF OrderInv, Present
<1>6. \A h \in Graders : Present(h)' <=> Present(h) \/ h = g
  BY <1>2 DEF Present
<1>7. \A i, j \in 1 .. Len(created') : created'[i] = created'[j] => i = j
  BY <1>3, <1>4, <1>5 DEF OrderInv
<1>8. \A h \in Graders : Present(h)' <=> \E i \in 1 .. Len(created') : created'[i] = h
  BY <1>3, <1>4, <1>6 DEF OrderInv
<1>9. ASSUME NEW h \in Graders, NEW k \in Graders
      PROVE  Earlier(h, k)' <=> (Earlier(h, k) \/ (k = g /\ Present(h)))
  <2>1. ASSUME Earlier(h, k) PROVE Earlier(h, k)'
    BY <2>1, <1>3, <1>4 DEF Earlier
  <2>2. ASSUME k = g, Present(h) PROVE Earlier(h, k)'
    <3>1. PICK j \in 1 .. n : created[j] = h
      BY <2>2 DEF OrderInv
    <3>2. n + 1 \in 1 .. n + 1 /\ j \in 1 .. n + 1 /\ j < n + 1
      BY <1>3
    <3>. QED BY <3>1, <3>2, <2>2, <1>4 DEF Earlier
  <2>3. ASSUME Earlier(h, k)' PROVE Earlier(h, k) \/ (k = g /\ Present(h))
    <3>1. PICK i \in 1 .. n + 1, j \in 1 .. n + 1 : j < i /\ created'[i] = k /\ created'[j] = h
      BY <2>3, <1>4 DEF Earlier
    <3>2. j \in 1 .. n /\ created[j] = h
      BY <3>1, <1>3, <1>4
    <3>3. CASE i = n + 1
      BY <3>1, <3>2, <3>3, <1>4 DEF OrderInv
    <3>4. CASE i \in 1 .. n
      BY <3>1, <3>2, <3>4, <1>4 DEF Earlier
    <3>. QED BY <3>1, <3>3, <3>4, <1>3
  <2>. QED BY <2>1, <2>2, <2>3
<1>10. OrderInv'
  BY <1>4, <1>7, <1>8 DEF OrderInv
<1>. QED BY <1>1, <1>6, <1>9, <1>10 DEF Present

(* What the other steps leave alone: the order, and every other grader.    *)
Stays(g) ==
    /\ created' = created /\ overlapped' = overlapped
    /\ \A h \in Graders : Present(h)' <=> Present(h)
    /\ \A h \in Graders \ {g} :
          rows'[h] = rows[h] /\ verdict'[h] = verdict[h] /\ pc'[h] = pc[h]
    /\ pc[g] = "idle" => pc'[g] = "idle"
    /\ \A h \in Graders : seen'[h] = seen[h]

LEMMA OthersStay ==
    ASSUME GateInv, [GateNext]_gateVars, ~\E g \in Graders : Start(g)
    PROVE  \/ UNCHANGED gateVars
           \/ \E g \in Graders :
                 /\ Stays(g)
                 /\ \/ Judge(g) \/ DecideGate(g) \/ Save(g) \/ Stand(g)
                    \/ Count(g) \/ ReleaseLock(g) \/ Finish(g) \/ EndLock(g)
<1> USE DEF GateInv, GateTypes, Reached, Goto, Stays, Present, RowTyped
<1>1. ASSUME NEW g \in Graders, Judge(g) PROVE Stays(g)
  BY <1>1, JudgeWrites DEF Judge
<1>2. ASSUME NEW g \in Graders, DecideGate(g) PROVE Stays(g)
  BY <1>2 DEF DecideGate
<1>3. ASSUME NEW g \in Graders, Save(g) PROVE Stays(g)
  BY <1>3 DEF Save
<1>4. ASSUME NEW g \in Graders, Stand(g) PROVE Stays(g)
  BY <1>4 DEF Stand
<1>5. ASSUME NEW g \in Graders, Count(g) PROVE Stays(g)
  BY <1>5 DEF Count
<1>6. ASSUME NEW g \in Graders, ReleaseLock(g) \/ Finish(g) \/ EndLock(g) PROVE Stays(g)
  BY <1>6 DEF ReleaseLock, Finish, EndLock
<1> HIDE DEF GateInv, GateTypes, Reached, Goto, Stays, Present, RowTyped
<1>. QED BY <1>1, <1>2, <1>3, <1>4, <1>5, <1>6 DEF GateNext

LEMMA EnteredTyped ==
    ASSUME NEW best, BestTyped(best), NEW l, NEW r \in Nat
    PROVE  /\ BestTyped(WithNewBest(best, l, r))
           /\ l \in DOMAIN WithNewBest(best, l, r) /\ WithNewBest(best, l, r)[l] <= r
           /\ \A m \in DOMAIN best : /\ m \in DOMAIN WithNewBest(best, l, r)
                                     /\ WithNewBest(best, l, r)[m] <= best[m]
BY DEF WithNewBest, Entered, BestTyped

LEMMA OrderedStep ==
    GateInv /\ OrderedInv /\ [GateNext]_gateVars => OrderedInv'
<1>. SUFFICES ASSUME GateInv, OrderedInv, [GateNext]_gateVars PROVE OrderedInv'
  OBVIOUS
<1>1. CASE UNCHANGED gateVars
  BY <1>1 DEF gateVars, OrderedInv, OrderInv, BestsInv, NotYetWaived, Present
<1>2. ASSUME NEW g \in Graders, Start(g) PROVE OrderedInv'
  <2>1. OrderInv' /\ (\A h \in Graders : Present(h)' <=> Present(h) \/ h = g)
    BY <1>2, StartOrders DEF OrderedInv
  <2>2. verdict' = verdict /\ problem' = problem /\ seen' = [seen EXCEPT ![g] = problem]
    BY <1>2 DEF Start
  <2>3. BestsInv'
    BY <2>2 DEF OrderedInv, BestsInv, GateInv, GateTypes
  <2>4. NotYetWaived'
    BY <2>1, <2>2 DEF OrderedInv, NotYetWaived
  <2>. QED BY <2>1, <2>3, <2>4 DEF OrderedInv
<1>3. ASSUME NEW g \in Graders, Stays(g),
             \/ Judge(g) \/ DecideGate(g) \/ Save(g) \/ Stand(g)
             \/ Count(g) \/ ReleaseLock(g) \/ Finish(g) \/ EndLock(g)
      PROVE  OrderedInv'
  <2>1. OrderInv'
    BY <1>3 DEF OrderedInv, OrderInv, Stays
  <2>2. BestTyped(problem'.best)
    <3>1. CASE Count(g)
      <4>1. problem'.best = WithNewBest(seen[g].best, rows[g].language, rows[g].runtime)
        BY <3>1 DEF Count
      <4>. QED BY <4>1, EnteredTyped DEF OrderedInv, BestsInv, GateInv, GateTypes, RowTyped
    <3>2. CASE ~Count(g)
      <4>1. problem' = problem
        BY <1>3, <3>2 DEF Judge, DecideGate, Save, Stand, ReleaseLock, Finish, EndLock
      <4>. QED BY <4>1 DEF OrderedInv, BestsInv
    <3>. QED BY <3>1, <3>2
  <2>3. BestsInv'
    BY <1>3, <2>2 DEF OrderedInv, BestsInv, Stays
  <2>4. NotYetWaived'
    <3>1. ASSUME ~Present(g) PROVE ~verdict'[g].waived
      <4>1. rows[g].status = "none" /\ ~verdict[g].waived
        BY <3>1 DEF Present, OrderedInv, NotYetWaived
      <4>2. verdict' = verdict
        BY <1>3, <4>1 DEF Judge, DecideGate, Save, Stand, Count, ReleaseLock, Finish, EndLock,
                          GateInv, Reached
      <4>. QED BY <4>1, <4>2
    <3>. QED BY <1>3, <3>1 DEF OrderedInv, NotYetWaived, Stays
  <2>. QED BY <2>1, <2>3, <2>4 DEF OrderedInv
<1>. QED BY <1>1, <1>2, <1>3, OthersStay

LEMMA EarlierStays ==
    ASSUME created' = created, NEW h, NEW g
    PROVE  Earlier(h, g)' <=> Earlier(h, g)
BY DEF Earlier

LEMMA AloneStep ==
    GateInv /\ OrderedInv /\ AloneInv /\ [GateNext]_gateVars => AloneInv'
<1>. SUFFICES ASSUME GateInv, OrderedInv, AloneInv, [GateNext]_gateVars, ~overlapped'
              PROVE  (Alone /\ Youngest /\ SeenFresh)'
  BY DEF AloneInv
<1>1. CASE UNCHANGED gateVars
  BY <1>1, EarlierStays DEF gateVars, AloneInv, Alone, Youngest, SeenFresh, Present
<1>2. ASSUME NEW g \in Graders, Start(g) PROVE (Alone /\ Youngest /\ SeenFresh)'
  <2>1. /\ \A h \in Graders : pc[h] = "idle"
        /\ pc' = [pc EXCEPT ![g] = "judging"] /\ seen' = [seen EXCEPT ![g] = problem]
        /\ problem' = problem
    BY <1>2 DEF Start, Goto
  <2>2. /\ \A h, k \in Graders :
              Earlier(h, k)' <=> (Earlier(h, k) \/ (k = g /\ Present(h)))
        /\ \A h \in Graders : Present(h)' <=> Present(h) \/ h = g
        /\ ~Present(g)
    BY <1>2, StartOrders DEF OrderedInv
  <2>3. \A h \in Graders : ~Earlier(g, h) /\ ~Earlier(h, g)
    BY <2>2 DEF OrderedInv, OrderInv, Earlier
  <2>4. \A h \in Graders : pc'[h] # "idle" => h = g
    BY <2>1 DEF GateInv, GateTypes
  <2>5. Alone' /\ SeenFresh'
    BY <2>1, <2>4 DEF Alone, SeenFresh, GateInv, GateTypes
  <2>6. Youngest'
    BY <2>2, <2>3, <2>4 DEF Youngest
  <2>. QED BY <2>5, <2>6
<1>3. ASSUME NEW g \in Graders, Stays(g),
             \/ Judge(g) \/ DecideGate(g) \/ Save(g) \/ Stand(g)
             \/ Count(g) \/ ReleaseLock(g) \/ Finish(g) \/ EndLock(g)
      PROVE  (Alone /\ Youngest /\ SeenFresh)'
  <2>1. Alone /\ Youngest /\ SeenFresh
    BY <1>3 DEF AloneInv, Stays
  <2>2. \A h \in Graders : pc'[h] # "idle" => pc[h] # "idle"
    BY <1>3 DEF Stays
  <2>3. Alone'
    BY <2>1, <2>2 DEF Alone
  <2>4. Youngest'
    BY <1>3, <2>1, <2>2, EarlierStays DEF Youngest, Stays
  <2>5. SeenFresh'
    <3>1. CASE Count(g)
      <4>1. \A h \in Graders : pc'[h] \notin {"judging", "gate", "save", "standing", "count"}
        BY <1>3, <2>1, <3>1 DEF Count, Goto, Alone, GateInv, GateTypes
      <4>. QED BY <4>1 DEF SeenFresh
    <3>2. CASE ~Count(g)
      <4>1. problem' = problem
        BY <1>3, <3>2 DEF Judge, DecideGate, Save, Stand, ReleaseLock, Finish, EndLock
      <4>2. pc'[g] \in {"judging", "gate", "save", "standing", "count"}
              => pc[g] \in {"judging", "gate", "save", "standing", "count"}
        BY <1>3, <3>2 DEF Judge, DecideGate, Save, Stand, ReleaseLock, Finish, EndLock,
                          Goto, AfterStanding, GateInv, GateTypes
      <4>. QED BY <1>3, <2>1, <4>1, <4>2 DEF SeenFresh, Stays
    <3>. QED BY <3>1, <3>2
  <2>. QED BY <2>3, <2>4, <2>5
<1>. QED BY <1>1, <1>2, <1>3, OthersStay

LEMMA FastestStep ==
    ASSUME GateInv, OrderedInv, AloneInv, [GateNext]_gateVars, ~overlapped, FastestEver
    PROVE  FastestEver'
<1>1. \A g \in Solves : rows'[g].runtime = rows[g].runtime /\ rows'[g].language = rows[g].language
  BY SolvesGrow
<1>2. CASE Solves' = Solves /\ problem'.best = problem.best
  BY <1>1, <1>2 DEF FastestEver
<1>3. ASSUME NEW g \in Graders, Count(g), Solves' = Solves \cup {g} PROVE FastestEver'
  <2>1. /\ problem'.best = WithNewBest(problem.best, rows[g].language, rows[g].runtime)
        /\ rows' = rows
    BY <1>3 DEF Count, AloneInv, SeenFresh
  <2>2. BestTyped(problem.best) /\ BestTyped(problem'.best) /\ \A h \in Graders : rows[h].runtime \in Nat
    BY <2>1, EnteredTyped DEF OrderedInv, BestsInv, GateInv, GateTypes, RowTyped
  <2>3. /\ rows[g].language \in DOMAIN problem'.best
        /\ problem'.best[rows[g].language] <= rows[g].runtime
        /\ \A l \in DOMAIN problem.best :
              l \in DOMAIN problem'.best /\ problem'.best[l] <= problem.best[l]
    BY <2>1, <2>2, EnteredTyped
  <2>4. ASSUME NEW h \in Solves
        PROVE  /\ rows[h].language \in DOMAIN problem'.best
               /\ problem'.best[rows[h].language] <= rows[h].runtime
    <3>1. h \in Graders /\ rows[h].language \in DOMAIN problem.best
          /\ problem.best[rows[h].language] <= rows[h].runtime
      BY DEF FastestEver, Solves
    <3>. DEFINE a == problem'.best[rows[h].language]
                b == problem.best[rows[h].language]
                c == rows[h].runtime
    <3>2. a \in Nat /\ b \in Nat /\ c \in Nat /\ a <= b /\ b <= c
      BY <3>1, <2>2, <2>3 DEF BestTyped
    <3>3. a <= c
      <4>. HIDE DEF a, b, c
      <4>. QED BY <3>2
    <3>. QED BY <3>1, <3>3, <2>3
  <2>. QED BY <2>1, <2>3, <2>4, <1>3 DEF FastestEver
<1>. QED BY <1>2, <1>3, SolvesGrow

(* Among a lone grader's others are the earlier graders and, of those that *)
(* have not started, none that was right.                                  *)
LEMMA OthersAreEarlier ==
    ASSUME GateInv, OrderedInv, Youngest, NEW g \in Graders, pc[g] # "idle"
    PROVE  \A h \in Graders : (h # g /\ rows[h].status \in SolvedStatuses)
                              <=> (Earlier(h, g) /\ rows[h].status \in SolvedStatuses)
BY DEF Youngest, Present, SolvedStatuses

LEMMA WaivedStep ==
    ASSUME GateInv, OrderedInv, AloneInv, [GateNext]_gateVars, ~overlapped, WaivedBeforeAll
    PROVE  WaivedBeforeAll'
<1>1. CASE UNCHANGED gateVars
  BY <1>1, EarlierStays DEF gateVars, WaivedBeforeAll
<1>2. ASSUME NEW g \in Graders, Start(g) PROVE WaivedBeforeAll'
  <2>1. /\ \A h, k \in Graders :
              Earlier(h, k)' <=> (Earlier(h, k) \/ (k = g /\ Present(h)))
        /\ ~Present(g)
    BY <1>2, StartOrders DEF OrderedInv
  <2>2. \A h \in Graders : ~Earlier(g, h) /\ ~Earlier(h, g)
    BY <2>1 DEF OrderedInv, OrderInv, Earlier
  <2>3. verdict' = verdict /\ ~verdict[g].waived
    BY <1>2, <2>1 DEF Start, OrderedInv, NotYetWaived
  <2>4. rows'[g].status = "running" /\ \A h \in Graders \ {g} : rows'[h] = rows[h]
    BY <1>2, StartWrites DEF GateInv
  <2>. QED BY <2>1, <2>2, <2>3, <2>4 DEF WaivedBeforeAll, SolvedStatuses
<1>3. ASSUME NEW g \in Graders, Stays(g),
             \/ Judge(g) \/ DecideGate(g) \/ Save(g) \/ Stand(g)
             \/ Count(g) \/ ReleaseLock(g) \/ Finish(g) \/ EndLock(g)
      PROVE  WaivedBeforeAll'
  <2>1. \A h, k \in Graders : Earlier(h, k)' <=> Earlier(h, k)
    BY <1>3, EarlierStays DEF Stays
  <2>2. CASE DecideGate(g)
    <3>1. verdict'[g].waived => ~SolvedBefore(g)
      <4>1. PICK mode \in {"ALWAYS", "AFTER_FIRST_SOLVE"} :
               LET applies == lock[g] = "practice" \/ mode = "ALWAYS" \/ SolvedBefore(g)
                   within  == rows[g].runtime
                                <= GateFor(TargetRuntimeMs(seen[g].best, rows[g].language))
               IN  verdict' = [verdict EXCEPT
                     ![g] = [NoVerdict EXCEPT !.applies = applies,
                                              !.passed = within \/ ~applies,
                                              !.waived = ~applies /\ ~within]]
        BY <2>2 DEF DecideGate
      <4> DEFINE applies == lock[g] = "practice" \/ mode = "ALWAYS" \/ SolvedBefore(g)
                 within  == rows[g].runtime
                              <= GateFor(TargetRuntimeMs(seen[g].best, rows[g].language))
                 passed  == within \/ ~applies
                 waived  == ~applies /\ ~within
      <4>2. verdict' = [verdict EXCEPT
               ![g] = [NoVerdict EXCEPT !.applies = applies, !.passed = passed,
                                        !.waived = waived]]
        BY <4>1
      <4>3. waived => ~SolvedBefore(g)
        OBVIOUS
      <4> HIDE DEF applies, passed, waived
      <4>4. verdict'[g].waived = waived
        BY <4>2 DEF GateInv, GateTypes, NoVerdict
      <4>. QED BY <4>3, <4>4
    <3>2. pc[g] # "idle" /\ Youngest
      BY <2>2 DEF DecideGate, AloneInv
    <3>3. rows' = rows
      BY <2>2 DEF DecideGate
    <3>4. \A h \in Graders : verdict'[g].waived /\ Earlier(h, g)
                                => rows[h].status \notin SolvedStatuses
      BY <3>1, <3>2, <3>3, OthersAreEarlier DEF SolvedBefore
    <3>. QED BY <1>3, <2>1, <3>3, <3>4 DEF WaivedBeforeAll, Stays
  <2>3. CASE ~DecideGate(g)
    <3>1. verdict'[g].waived = verdict[g].waived
      BY <1>3, <2>3 DEF Judge, Save, Stand, Count, ReleaseLock, Finish, EndLock, GateInv, GateTypes,
                        NoVerdict
    <3>2. ASSUME NEW h \in Graders, NEW k \in Graders, verdict[k].waived, Earlier(h, k)
          PROVE  rows'[h].status \notin SolvedStatuses
      <4>1. CASE h = g
        <5>1. pc[g] = "idle"
          BY <3>2, <4>1 DEF AloneInv, Youngest
        <5>2. rows' = rows
          BY <1>3, <5>1, <2>3 DEF Judge, Save, Stand, Count, ReleaseLock, Finish, EndLock
        <5>. QED BY <3>2, <5>2 DEF WaivedBeforeAll
      <4>2. CASE h # g
        BY <1>3, <3>2, <4>2 DEF WaivedBeforeAll, Stays
      <4>. QED BY <4>1, <4>2
    <3>. QED BY <1>3, <2>1, <3>1, <3>2 DEF WaivedBeforeAll, Stays
  <2>. QED BY <2>2, <2>3
<1>. QED BY <1>1, <1>2, <1>3, OthersStay

LEMMA BestStep ==
    ASSUME GateInv, OrderedInv, AloneInv, [GateNext]_gateVars, ~overlapped, BestOfEarlier
    PROVE  BestOfEarlier'
<1> DEFINE All(g) == \A h \in Graders : Earlier(h, g) => Beats(g, h)
<1>1. CASE UNCHANGED gateVars
  BY <1>1, EarlierStays DEF gateVars, BestOfEarlier, Beats
<1>2. ASSUME NEW g \in Graders, Start(g) PROVE BestOfEarlier'
  <2>1. /\ \A h, k \in Graders :
              Earlier(h, k)' <=> (Earlier(h, k) \/ (k = g /\ Present(h)))
        /\ ~Present(g)
    BY <1>2, StartOrders DEF OrderedInv
  <2>2. \A h \in Graders : ~Earlier(g, h) /\ ~Earlier(h, g)
    BY <2>1 DEF OrderedInv, OrderInv, Earlier
  <2>3. verdict' = verdict /\ \A h \in Graders \ {g} : pc'[h] = pc[h]
    BY <1>2 DEF Start, Goto, GateInv, GateTypes
  <2>4. rows'[g].status = "running" /\ \A h \in Graders \ {g} : rows'[h] = rows[h]
    BY <1>2, StartWrites DEF GateInv
  <2>5. ASSUME NEW k \in Graders, k # g PROVE All(k)' <=> All(k)
    BY <2>1, <2>2, <2>4, <2>5 DEF Beats
  <2>6. \A k \in Graders : (rows'[k].status \in SolvedStatuses /\ pc'[k] # "standing")
                              => k # g /\ rows'[k] = rows[k] /\ pc'[k] = pc[k]
    BY <2>3, <2>4 DEF SolvedStatuses
  <2>. QED BY <2>3, <2>5, <2>6 DEF BestOfEarlier
<1>3. ASSUME NEW g \in Graders, Stays(g),
             \/ Judge(g) \/ DecideGate(g) \/ Save(g) \/ Stand(g)
             \/ Count(g) \/ ReleaseLock(g) \/ Finish(g) \/ EndLock(g)
      PROVE  BestOfEarlier'
  <2>1. \A h, k \in Graders : Earlier(h, k)' <=> Earlier(h, k)
    BY <1>3, EarlierStays DEF Stays
  <2>2. ASSUME NEW k \in Graders, k # g PROVE All(k)' <=> All(k)
    <3>1. CASE pc[g] = "idle"
      <4>1. rows' = rows
        BY <1>3, <3>1 DEF Judge, DecideGate, Save, Stand, Count, ReleaseLock, Finish, EndLock
      <4>. QED BY <4>1, <2>1 DEF Beats
    <3>2. CASE pc[g] # "idle"
      <4>1. ~Earlier(g, k)
        BY <3>2 DEF AloneInv, Youngest
      <4>. QED BY <1>3, <2>1, <2>2, <4>1 DEF Beats, Stays
    <3>. QED BY <3>1, <3>2
  <2>3. ASSUME rows'[g].status \in SolvedStatuses, pc'[g] # "standing"
        PROVE  verdict'[g].personalBest <=> All(g)'
    <3>1. CASE Stand(g)
      <4> DEFINE fastest == \A r \in PreviousRuns(g) : rows[g].runtime < r
      <4>1. verdict'[g].personalBest = fastest /\ rows' = rows
        BY <3>1 DEF Stand, GateInv, GateTypes, NoVerdict
      <4>2. pc[g] # "idle" /\ Youngest
        BY <3>1 DEF Stand, AloneInv
      <4>3. fastest <=> All(g)
        BY <4>2, OthersAreEarlier DEF PreviousRuns, Others, Beats, SolvedStatuses
      <4>4. All(g)' <=> All(g)
        BY <4>1, <2>1 DEF Beats
      <4> HIDE DEF fastest, All
      <4>. QED BY <4>1, <4>3, <4>4
    <3>2. CASE ~Stand(g)
      <4>1. /\ rows' = rows /\ verdict' = verdict
            /\ rows[g].status \in SolvedStatuses /\ pc[g] # "standing"
        BY <1>3, <2>3, <3>2, JudgeWrites
           DEF Judge, DecideGate, Save, Count, ReleaseLock, Finish, EndLock, Goto,
               GateInv, GateTypes, Reached, SolvedStatuses
      <4>2. All(g)' <=> All(g)
        BY <4>1, <2>1 DEF Beats
      <4>. QED BY <4>1, <4>2 DEF BestOfEarlier
    <3>. QED BY <3>1, <3>2
  <2>4. \A k \in Graders \ {g} : rows'[k] = rows[k] /\ verdict'[k] = verdict[k] /\ pc'[k] = pc[k]
    BY <1>3 DEF Stays
  <2>. QED BY <2>2, <2>3, <2>4 DEF BestOfEarlier
<1>. QED BY <1>1, <1>2, <1>3, OthersStay

LEMMA OverlapStays ==
    ASSUME GateInv, [GateNext]_gateVars, ~overlapped'
    PROVE  ~overlapped
<1>1. ASSUME NEW g \in Graders, Start(g) PROVE ~overlapped
  BY <1>1 DEF Start
<1>2. CASE UNCHANGED gateVars
  BY <1>2 DEF gateVars
<1>3. ASSUME NEW g \in Graders, Stays(g) PROVE ~overlapped
  BY <1>3 DEF Stays
<1>. QED BY <1>1, <1>2, <1>3, OthersStay

LEMMA ComparedStep ==
    GateInv /\ OrderedInv /\ AloneInv /\ ComparedInv /\ [GateNext]_gateVars => ComparedInv'
BY OverlapStays, FastestStep, WaivedStep, BestStep DEF ComparedInv

LEMMA EarlierByIndex ==
    ASSUME OrderInv, NEW i \in DOMAIN created
    PROVE  /\ created[i] \in Graders
           /\ \A j \in 1 .. i - 1 : created[j] \in Graders /\ Earlier(created[j], created[i])
           /\ \A h : Earlier(h, created[i]) => \E j \in 1 .. i - 1 : created[j] = h
<1>1. created \in Seq(Graders) /\ i \in 1 .. Len(created) /\ Len(created) \in Nat
  BY DEF OrderInv
<1>2. ASSUME NEW j \in 1 .. i - 1
      PROVE  created[j] \in Graders /\ Earlier(created[j], created[i])
  <2>1. j \in 1 .. Len(created) /\ j < i
    BY <1>1
  <2>. QED BY <1>1, <2>1 DEF Earlier
<1>3. ASSUME NEW h, Earlier(h, created[i]) PROVE \E j \in 1 .. i - 1 : created[j] = h
  <2>1. PICK k \in 1 .. Len(created), j \in 1 .. Len(created) :
           j < k /\ created[k] = created[i] /\ created[j] = h
    BY <1>3 DEF Earlier
  <2>2. k = i
    BY <1>1, <2>1 DEF OrderInv
  <2>3. j \in 1 .. i - 1
    BY <1>1, <2>1, <2>2
  <2>. QED BY <2>1, <2>3
<1>. QED BY <1>1, <1>2, <1>3

LEMMA RecordsFollow == OrderedInv /\ ComparedInv => RecordsAreTrue
<1>. SUFFICES ASSUME OrderInv, FastestEver, BestOfEarlier, WaivedBeforeAll
              PROVE  PersonalBestIsTrue /\ WaivedIsFirst
  BY DEF OrderedInv, ComparedInv, RecordsAreTrue
<1>1. PersonalBestIsTrue
  BY EarlierByIndex DEF PersonalBestIsTrue, BestOfEarlier, Beats, SolvedStatuses
<1>2. WaivedIsFirst
  BY EarlierByIndex DEF WaivedIsFirst, WaivedBeforeAll, SolvedStatuses
<1>. QED BY <1>1, <1>2

(* While no slot is reclaimed under a running grade, the record is the     *)
(* fastest accepted run ever, a personal best is faster than every correct *)
(* run before it and the gate is relaxed on nothing that was ever solved,  *)
(* for any number of submissions and languages.                            *)
THEOREM RecordsTrue == GateSpec => []RecordsAreTrue
BY GateInvariant, RecordsInit, OrderedStep, AloneStep, ComparedStep, RecordsFollow, PTL
   DEF GateSpec

=============================================================================

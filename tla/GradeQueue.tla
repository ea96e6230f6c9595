----------------------------- MODULE GradeQueue -----------------------------
(***************************************************************************)
(* Admission control for grading (apps/api/src/services/gradeQueue.ts): a  *)
(* slot per grade, at most one per user, a bounded queue of requests for   *)
(* one, and slots held too long reclaimed.                                 *)
(*                                                                         *)
(* The module has no await but the queue's, so acquireGradeSlot and the    *)
(* release it returns are each one action.  A release resolves one waiter, *)
(* whose continuation registers itself, or is refused and calls the next,  *)
(* before the event loop takes up anything else: that is the same action.  *)
(***************************************************************************)
EXTENDS Integers, FiniteSets, Sequences, Functions

CONSTANTS
    Requests,       \* request slots: that many requests are in flight
    Users,          \* keys: the local user's id, demo:<ip> for each address
    NoUser,
    MaxConcurrent,  \* GRADE_CONCURRENCY
    MaxQueued,      \* GRADE_QUEUE_DEPTH
    JudgeTimeout,   \* JUDGE0_TIMEOUT_MS, in ticks
    BestOf,         \* PERF_BEST_OF
    SlotTtl         \* SLOT_TTL_MS, in ticks

ASSUME ConstantsAssumption ==
    /\ IsFiniteSet(Requests)
    /\ NoUser \notin Users
    /\ MaxConcurrent \in Nat \ {0}
    /\ MaxQueued \in Nat
    /\ JudgeTimeout \in Nat \ {0}
    /\ BestOf \in Nat \ {0}
    /\ SlotTtl \in Nat

VARIABLES
    active,         \* the requests that hold a slot
    waiting,        \* the requests in the queue, in order
    phase,          \* where each request is
    user,           \* whose it is
    age             \* ticks since a running request was given its slot

vars == <<active, waiting, phase, user, age>>

(* A run is one POST, a poll until a deadline and a last poll begun before *)
(* it, each cut off by the timeout.  A grade is BestOf of them at most.    *)
(* (The pause before that last poll and the awaits of the database, which  *)
(* add to this, are left out: only NeverEvicted depends on the bound.)     *)
GradeTicks == BestOf * 3 * JudgeTimeout

Ages == 0 .. GradeTicks

Running == {r \in Requests : phase[r] = "running"}

Init ==
    /\ active = {}
    /\ waiting = <<>>
    /\ phase = [r \in Requests |-> "idle"]
    /\ user = [r \in Requests |-> NoUser]
    /\ age = [r \in Requests |-> 0]

Expired == {r \in active : age[r] > SlotTtl}

(* Mutant: one grade too many.                                             *)
MutantFull(slots) == Cardinality(slots) > MaxConcurrent

Full(slots) == Cardinality(slots) >= MaxConcurrent

(* Mutant: the ceiling is all there is.                                    *)
MutantHasActiveFor(u, slots) == FALSE

HasActiveFor(u, slots) == \E r \in slots : user[r] = u

(* acquireGradeSlot reclaims expired slots, whatever it answers.           *)
Refuse(r, u) ==
    /\ phase[r] = "idle"
    /\ LET kept == active \ Expired IN
         /\ \/ HasActiveFor(u, kept)
            \/ Full(kept) /\ Len(waiting) >= MaxQueued
         /\ active' = kept
    /\ UNCHANGED <<waiting, phase, user, age>>

Enqueue(r, u) ==
    /\ phase[r] = "idle"
    /\ LET kept == active \ Expired IN
         /\ ~HasActiveFor(u, kept)
         /\ Full(kept)
         /\ Len(waiting) < MaxQueued
         /\ active' = kept
    /\ waiting' = Append(waiting, r)
    /\ phase' = [phase EXCEPT ![r] = "waiting"]
    /\ user' = [user EXCEPT ![r] = u]
    /\ UNCHANGED age

Admit(r, u) ==
    /\ phase[r] = "idle"
    /\ LET kept == active \ Expired IN
         /\ ~HasActiveFor(u, kept)
         /\ ~Full(kept)
         /\ active' = kept \cup {r}
    /\ phase' = [phase EXCEPT ![r] = "running"]
    /\ user' = [user EXCEPT ![r] = u]
    /\ age' = [age EXCEPT ![r] = 0]
    /\ UNCHANGED waiting

(* The place of the waiter a freed slot goes to: the first whose user has  *)
(* no grade running.  Those before it are refused on their way out.        *)
Called(slots) ==
    {i \in DOMAIN waiting :
        /\ ~HasActiveFor(user[waiting[i]], slots)
        /\ \A j \in 1 .. i - 1 : HasActiveFor(user[waiting[j]], slots)}

(* Mutant: a refused waiter is never told.                                 *)
MutantLeaves(r, n, q) == {r} \cup q

(* Who has nothing more to wait or to run for: r, whose grade ended, and   *)
(* the first n waiters.                                                    *)
Leaves(r, n, q) == {r} \cup {waiting[i] : i \in 1 .. n}

(* They leave, and those in q run.                                         *)
Dismiss(r, n, q) ==
    LET gone == Leaves(r, n, q) IN
        /\ waiting' = SubSeq(waiting, n + 1, Len(waiting))
        /\ phase' = [p \in Requests |-> IF p \in q THEN "running"
                                        ELSE IF p \in gone THEN "idle" ELSE phase[p]]
        /\ user' = [p \in Requests |-> IF p \in gone \ q THEN NoUser ELSE user[p]]
        /\ age' = [p \in Requests |-> IF p \in gone THEN 0 ELSE age[p]]

(* Mutant: nobody is called when a slot is given back.                     *)
MutantRelease(r) ==
    /\ phase[r] = "running"
    /\ active' = active \ {r}
    /\ Dismiss(r, 0, {})

(* release, which is pump after the slot is given back.  A grade whose     *)
(* slot was reclaimed gives nothing back and pumps all the same.           *)
Release(r) ==
    /\ phase[r] = "running"
    /\ LET left == active \ {r} IN
         \/ /\ Full(left)
            /\ active' = left
            /\ Dismiss(r, 0, {})
         \/ /\ ~Full(left)
            /\ \E i \in Called(left) :
                  /\ active' = left \cup {waiting[i]}
                  /\ Dismiss(r, i, {waiting[i]})
         \/ /\ ~Full(left)
            /\ Called(left) = {}
            /\ active' = left
            /\ Dismiss(r, Len(waiting), {})

(* Time passes.  No grade outlasts its runs.                               *)
Tick ==
    /\ Running # {}
    /\ \A r \in Running : age[r] < GradeTicks
    /\ age' = [r \in Requests |-> IF r \in Running THEN age[r] + 1 ELSE age[r]]
    /\ UNCHANGED <<active, waiting, phase, user>>

Next ==
    \/ \E r \in Requests, u \in Users :
          Refuse(r, u) \/ Enqueue(r, u) \/ Admit(r, u)
    \/ \E r \in Requests : Release(r)
    \/ Tick

Spec == Init /\ [][Next]_vars

(* Every caller releases its slot in a finally, when its runs are over.    *)
FairSpec == Spec /\ \A r \in Requests : WF_vars(Release(r))

----------------------------------------------------------------------------
(* The type invariant.                                                     *)
TypeOK ==
    /\ active \subseteq Requests
    /\ waiting \in Seq(Requests)
    /\ phase \in [Requests -> {"idle", "waiting", "running"}]
    /\ user \in [Requests -> Users \cup {NoUser}]
    /\ age \in [Requests -> Ages]
    /\ \A r \in Requests :
          /\ phase[r] = "idle" <=> user[r] = NoUser
          /\ phase[r] = "waiting" <=> r \in Range(waiting)

(* However requests queue, overtake and are reclaimed, no user holds two   *)
(* slots: not even one who was admitted while an earlier request waited.   *)
OneSlotPerUser ==
    \A r, s \in active : user[r] = user[s] => r = s

(* The ceiling holds for the grades that really run, not only for the      *)
(* slots on the books, but for those that have outlasted SLOT_TTL_MS and   *)
(* lost their slot: a slot is never reclaimed before its time, given to    *)
(* two or kept off the books, however requests queue and are called.       *)
HostProtected ==
    Cardinality({r \in Running : r \in active \/ age[r] <= SlotTtl}) <= MaxConcurrent

(* gradeQueue.ts:38 says that a slow grade is never evicted out from under *)
(* itself: no grade that runs loses its slot.                              *)
NeverEvicted == Running \subseteq active

(* While a request waits, MaxConcurrent grades run.  Reclaiming a slot     *)
(* calls nobody, but the grade it was taken from still runs, and calls     *)
(* when it ends: no place stays empty with nobody left to fill it.         *)
NoIdleSlot == waiting # <<>> => Cardinality(Running) >= MaxConcurrent

(* Whoever is given a slot overtakes nobody: of those ahead of it in the   *)
(* queue, none still waits, unless a grade has lost its slot.              *)
NoOvertaking ==
    [][NeverEvicted /\ NeverEvicted' =>
        \A r \in Running' \ Running : \A i \in DOMAIN waiting :
            phase'[waiting[i]] = "waiting" =>
                \E j \in 1 .. i - 1 : waiting[j] = r]_vars

(* A request that waited is refused only because its user has a grade      *)
(* running, reclaimed slots or not.                                        *)
RefusedForOwnGrade ==
    [][\A r \in Requests :
          phase[r] = "waiting" /\ phase'[r] = "idle" =>
              \E s \in active' : user'[s] = user[r]]_vars

(* The two together: the queue is fair to those in it.                     *)
QueueIsFair == NoOvertaking /\ RefusedForOwnGrade

(* No request waits for ever: each is given a slot or refused, as long as  *)
(* no grade loses its slot.  (Once one does this is lost: newcomers take   *)
(* reclaimed slots, and a release may find no place to call for.)          *)
WaitersAreAnswered ==
    []NeverEvicted =>
        \A r \in Requests : phase[r] = "waiting" ~> phase[r] # "waiting"

=============================================================================

---------------------------- MODULE Judge_proofs ----------------------------
(***************************************************************************)
(* Theorems about Judge, for any number of jobs, clients, workers and any  *)
(* limits.                                                                 *)
(*                                                                         *)
(* What pump takes off the queues is an initial segment of them: the first *)
(* entry it leaves behind has as many live ones before it as there was     *)
(* room for, and the last one it starts has fewer.  From this follow the   *)
(* bound on the workers, that none is idle while a job waits, and the      *)
(* order of the starts.  In the same way the first result that is not      *)
(* trimmed shows that what is left weighs no more than it may.             *)
(*                                                                         *)
(* That the API takes verdicts only rests on VerdictInv: whoever is still  *)
(* patient polls for jobs that are in the Map, are as old as the wait and  *)
(* did not expire, so that no sweep and no trim takes one away before.     *)
(***************************************************************************)
EXTENDS Judge, FiniteSetTheorems, WellFoundedInduction, TLAPS

Waiting == InPhase("queued") \cup InPhase("active")

(* Tokens from next on are unused, and only a completed job weighs.        *)
Fresh ==
    /\ \A t \in Tokens : phase[t] # "none" \/ t \in jobs \cup queue => t < next
    /\ \A t \in Tokens : weight[t] = 1 => phase[t] = "complete"

IInv == TypeOK /\ Fresh /\ CountersAddUp /\ WithinBounds /\ NoneStranded /\ NoIdleWorker

----------------------------------------------------------------------------
(* Sets of tokens.                                                         *)

LEMMA NatMin ==
    ASSUME NEW S, S \subseteq Nat, S # {}
    PROVE  \E m \in S : \A k \in S : m <= k
<1>1. IsWellFoundedOn(OpToRel(<, Nat), Nat)
  BY NatLessThanWellFounded
<1>2. PICK m \in S : \A k \in S : <<k, m>> \notin OpToRel(<, Nat)
  BY <1>1, WFMin
<1>3. \A k \in S : ~(k < m)
  BY <1>2 DEF OpToRel
<1> QED
  BY <1>3

LEMMA TokensFinite ==
    \A S \in SUBSET Tokens : IsFiniteSet(S) /\ Cardinality(S) \in Nat
<1>1. LastToken \in Nat
  BY ConstantsAssumption
<1>2. IsFiniteSet(Tokens)
  BY <1>1, FS_Interval DEF Tokens
<1> QED
  BY <1>2, FS_Subset, FS_CardinalityType

LEMMA CardMono ==
    ASSUME NEW S \in SUBSET Tokens, NEW T \in SUBSET S
    PROVE  Cardinality(T) <= Cardinality(S)
BY TokensFinite, FS_Subset

LEMMA CardUnion ==
    ASSUME NEW S \in SUBSET Tokens, NEW T \in SUBSET Tokens
    PROVE  /\ Cardinality(S \cup T) <= Cardinality(S) + Cardinality(T)
           /\ S \cap T = {} => Cardinality(S \cup T) = Cardinality(S) + Cardinality(T)
<1>1. /\ IsFiniteSet(S) /\ IsFiniteSet(T) /\ Cardinality(S) \in Nat /\ Cardinality(T) \in Nat
      /\ S \cap T \in SUBSET Tokens
  BY TokensFinite
<1>2. Cardinality(S \cap T) \in Nat
  BY <1>1, TokensFinite
<1>3. Cardinality(S \cup T) = Cardinality(S) + Cardinality(T) - Cardinality(S \cap T)
  BY <1>1, FS_Union
<1>4. S \cap T = {} => Cardinality(S \cap T) = 0
  BY FS_EmptySet
<1> QED
  BY <1>1, <1>2, <1>3, <1>4

LEMMA CardDiff ==
    ASSUME NEW S \in SUBSET Tokens, NEW T \in SUBSET S
    PROVE  Cardinality(S \ T) = Cardinality(S) - Cardinality(T)
<1>1. S = (S \ T) \cup T /\ (S \ T) \cap T = {} /\ S \ T \in SUBSET Tokens /\ T \in SUBSET Tokens
  OBVIOUS
<1>2. Cardinality(S) = Cardinality(S \ T) + Cardinality(T)
  BY <1>1, CardUnion
<1> QED
  BY <1>1, <1>2, TokensFinite

(* The place of a token in the order of the queues.                        *)
Rank(b, t) == IF b[t] THEN LastToken + t ELSE t

LEMMA RankOrders ==
    ASSUME NEW b \in [Tokens -> BOOLEAN], NEW t \in Tokens, NEW u \in Tokens
    PROVE  /\ Rank(b, t) \in Nat /\ Rank(b, t) <= 2 * LastToken
           /\ Before(b, t, u) <=> Rank(b, t) < Rank(b, u)
           /\ Rank(b, t) = Rank(b, u) => t = u
BY ConstantsAssumption DEF Rank, Before, Tokens

LEMMA FirstOf ==
    ASSUME NEW b \in [Tokens -> BOOLEAN], NEW S \in SUBSET Tokens, S # {}
    PROVE  \E m \in S : \A u \in S : u = m \/ Before(b, m, u)
<1>1. {Rank(b, t) : t \in S} \subseteq Nat /\ {Rank(b, t) : t \in S} # {}
  BY RankOrders
<1>2. PICK r \in {Rank(b, t) : t \in S} : \A k \in {Rank(b, t) : t \in S} : r <= k
  BY <1>1, NatMin
<1>3. PICK m \in S : r = Rank(b, m)
  BY <1>2
<1>4. ASSUME NEW u \in S PROVE u = m \/ Before(b, m, u)
  <2>1. Rank(b, m) <= Rank(b, u) /\ Rank(b, m) \in Nat /\ Rank(b, u) \in Nat
    BY <1>2, <1>3, RankOrders
  <2> QED
    BY <2>1, RankOrders
<1> QED
  BY <1>4

LEMMA LastOf ==
    ASSUME NEW b \in [Tokens -> BOOLEAN], NEW S \in SUBSET Tokens, S # {}
    PROVE  \E m \in S : \A u \in S : u = m \/ Before(b, u, m)
<1>0. LastToken \in Nat
  BY ConstantsAssumption
<1>1. /\ {2 * LastToken - Rank(b, t) : t \in S} \subseteq Nat
      /\ {2 * LastToken - Rank(b, t) : t \in S} # {}
  BY <1>0, RankOrders
<1>2. PICK r \in {2 * LastToken - Rank(b, t) : t \in S} :
          \A k \in {2 * LastToken - Rank(b, t) : t \in S} : r <= k
  BY <1>1, NatMin
<1>3. PICK m \in S : r = 2 * LastToken - Rank(b, m)
  BY <1>2
<1>4. ASSUME NEW u \in S PROVE u = m \/ Before(b, u, m)
  <2>1. Rank(b, u) <= Rank(b, m) /\ Rank(b, m) \in Nat /\ Rank(b, u) \in Nat
    <3>1. Rank(b, m) \in Nat /\ Rank(b, u) \in Nat
      BY RankOrders
    <3>2. 2 * LastToken - Rank(b, m) <= 2 * LastToken - Rank(b, u)
      BY <1>2, <1>3
    <3> QED
      BY <1>0, <3>1, <3>2
  <2> QED
    BY <2>1, RankOrders
<1> QED
  BY <1>4

----------------------------------------------------------------------------
(* pump starts no more than there is room for, and leaves nothing behind   *)
(* if there is room left.                                                  *)
LEMMA Pumps ==
    ASSUME NEW q \in SUBSET Tokens, NEW live \in SUBSET q,
           NEW b \in [Tokens -> BOOLEAN], NEW room \in Nat
    PROVE  LET popped == Popped(q, live, b, room)
               starts == popped \cap live
           IN  /\ popped \in SUBSET q /\ starts \in SUBSET Tokens
               /\ Cardinality(starts) <= room
               /\ Cardinality(starts) < room => popped = q
               /\ \A t \in popped, u \in q \ popped : ~Before(b, u, t)
<1> DEFINE ahead(t) == {u \in live : Before(b, u, t)}
           popped == Popped(q, live, b, room)
           starts == popped \cap live
<1>1. /\ popped \in SUBSET q /\ starts \in SUBSET Tokens
      /\ \A t \in q : t \in popped <=> Cardinality(ahead(t)) < room
      /\ \A t \in q : ahead(t) \in SUBSET Tokens
  BY DEF Popped
<1>2. /\ Cardinality(starts) \in Nat /\ IsFiniteSet(starts)
      /\ \A t \in q : Cardinality(ahead(t)) \in Nat
  BY <1>1, TokensFinite
<1>3. Cardinality(starts) <= room
  <2>1. CASE starts = {}
    BY <2>1, FS_EmptySet
  <2>2. CASE starts # {}
    <3>1. PICK m \in starts : \A u \in starts : u = m \/ Before(b, u, m)
      BY <1>1, <2>2, LastOf
    <3>2. starts \ {m} \in SUBSET ahead(m)
      BY <3>1
    <3>3. Cardinality(starts \ {m}) <= Cardinality(ahead(m))
      BY <1>1, <3>1, <3>2, CardMono
    <3>4. Cardinality(starts \ {m}) = Cardinality(starts) - 1
      BY <1>2, <3>1, FS_RemoveElement
    <3>5. Cardinality(ahead(m)) < room /\ Cardinality(ahead(m)) \in Nat
      BY <1>1, <1>2, <3>1
    <3> QED
      BY <1>2, <3>3, <3>4, <3>5
  <2> QED
    BY <2>1, <2>2
<1>4. ASSUME popped # q PROVE Cardinality(starts) >= room
  <2>0. q \ popped \in SUBSET Tokens /\ q \ popped # {}
    BY <1>1, <1>4
  <2>1. PICK m \in q \ popped : \A u \in q \ popped : u = m \/ Before(b, m, u)
    BY ONLY <2>0, FirstOf, b \in [Tokens -> BOOLEAN]
  <2>2. ahead(m) \in SUBSET starts
    <3> SUFFICES ASSUME NEW u \in ahead(m), u \notin popped PROVE FALSE
      OBVIOUS
    <3>1. u \in q /\ Before(b, u, m) /\ u \in Tokens /\ m \in Tokens
      BY <2>1
    <3>2. u = m \/ Before(b, m, u)
      BY <2>1, <3>1
    <3>3. /\ Rank(b, u) < Rank(b, m) /\ Rank(b, u) \in Nat /\ Rank(b, m) \in Nat
          /\ Before(b, m, u) => Rank(b, m) < Rank(b, u)
      BY <3>1, RankOrders
    <3> QED
      BY <3>2, <3>3
  <2>3. Cardinality(ahead(m)) <= Cardinality(starts)
    BY <1>1, <2>2, CardMono
  <2>4. Cardinality(ahead(m)) >= room /\ Cardinality(ahead(m)) \in Nat
    BY <1>1, <1>2, <2>1
  <2> QED
    BY <1>2, <2>3, <2>4
<1>5. ASSUME NEW t \in popped, NEW u \in q \ popped, Before(b, u, t) PROVE FALSE
  <2>1. ahead(u) \in SUBSET ahead(t)
    <3> SUFFICES ASSUME NEW v \in ahead(u) PROVE Before(b, v, t)
      OBVIOUS
    <3>1. v \in Tokens /\ u \in Tokens /\ t \in Tokens /\ Before(b, v, u)
      BY <1>1
    <3> QED
      BY <1>5, <3>1, RankOrders
  <2>2. Cardinality(ahead(u)) <= Cardinality(ahead(t))
    BY <1>1, <2>1, CardMono
  <2>3. /\ Cardinality(ahead(t)) < room /\ ~(Cardinality(ahead(u)) < room)
        /\ Cardinality(ahead(t)) \in Nat /\ Cardinality(ahead(u)) \in Nat
    BY <1>1, <1>2
  <2> QED
    BY <2>2, <2>3
<1> QED
  BY <1>1, <1>2, <1>3, <1>4, <1>5

(* What trimming leaves weighs no more than it may.                        *)
LEMMA Trims ==
    ASSUME IInv, NEW t \in Tokens, phase[t] = "active", NEW w \in {0, 1}
    PROVE  /\ Trimmed(retained + w, t) \in SUBSET (jobs \cap InPhase("complete"))
           /\ t \notin Trimmed(retained + w, t)
           /\ (retained + w) - Cardinality(Heavy(Trimmed(retained + w, t))) <= MaxResults
<1> DEFINE C == (jobs \cap InPhase("complete")) \ {t}
           T == Trimmed(retained + w, t)
           ahead(c) == Heavy({u \in C : u < c})
<1>0. /\ retained \in Nat /\ retained = Cardinality(Heavy(jobs))
      /\ MaxResults \in Nat /\ 1 <= MaxResults /\ jobs \in SUBSET Tokens
  BY ConstantsAssumption DEF IInv, TypeOK, CountersAddUp
<1>1. /\ T \in SUBSET C /\ C \in SUBSET Tokens
      /\ \A c \in C : c \in T <=> (retained + w) - Cardinality(ahead(c)) > MaxResults
      /\ \A c \in C : ahead(c) \in SUBSET Tokens
      /\ Heavy(T) \in SUBSET Tokens
  <2>1. /\ T \in SUBSET C /\ C \in SUBSET Tokens
        /\ \A c \in C : c \in T <=> (retained + w) - Cardinality(ahead(c)) > MaxResults
    <3>1. T = {c \in C : (retained + w) - Cardinality(ahead(c)) > MaxResults}
      BY DEF Trimmed
    <3>2. C \in SUBSET Tokens
      BY <1>0
    <3> HIDE DEF T, C, ahead
    <3> QED
      BY <3>1, <3>2
  <2>2. \A S \in SUBSET Tokens : Heavy(S) \in SUBSET Tokens
    BY DEF Heavy
  <2> QED
    BY <2>1, <2>2
<1>2. /\ Cardinality(Heavy(T)) \in Nat /\ \A c \in C : Cardinality(ahead(c)) \in Nat
  BY <1>1, TokensFinite
<1>3. (retained + w) - Cardinality(Heavy(T)) <= MaxResults
  <2>1. CASE T = C
    <3>1. Heavy(jobs) = Heavy(C)
      <4>1. \A u \in jobs : weight[u] = 1 => phase[u] = "complete" /\ u \in Tokens
        BY <1>0 DEF IInv, Fresh
      <4> QED
        BY <4>1 DEF Heavy, InPhase
    <3>2. Cardinality(Heavy(T)) = retained
      BY <1>0, <2>1, <3>1
    <3> QED
      BY ONLY <1>0, <3>2, w \in {0, 1}
  <2>2. CASE T # C
    <3>1. C \ T \subseteq Nat /\ C \ T # {}
      BY <1>1, <2>2 DEF Tokens
    <3>2. PICK m \in C \ T : \A k \in C \ T : m <= k
      BY <3>1, NatMin
    <3>3. \A u \in C : u < m => u \in T
      BY <3>1, <3>2
    <3>4. ahead(m) \in SUBSET Heavy(T)
      BY <3>3 DEF Heavy
    <3>5. Cardinality(ahead(m)) <= Cardinality(Heavy(T))
      BY <1>1, <3>4, CardMono
    <3>6. ~((retained + w) - Cardinality(ahead(m)) > MaxResults) /\ Cardinality(ahead(m)) \in Nat
      BY <1>1, <1>2, <3>2
    <3> QED
      BY <1>0, <1>2, <3>5, <3>6
  <2> QED
    BY <2>1, <2>2
<1> QED
  BY <1>1, <1>3

----------------------------------------------------------------------------
(* The invariant.                                                          *)

LEMMA InvInit == Init => IInv
<1> SUFFICES ASSUME Init PROVE IInv
  OBVIOUS
<1>1. /\ LastToken \in Nat /\ Concurrency \in Nat /\ MaxPayload \in Nat
      /\ MaxRetained \in Nat /\ MaxQueued \in Nat /\ MaxResults \in Nat
  BY ConstantsAssumption
<1>2. TypeOK
  BY <1>1 DEF Init, TypeOK, Phases, Results, Tokens
<1>3. /\ InPhase("active") = {} /\ InPhase("queued") \cup InPhase("active") = {}
      /\ Heavy(jobs) = {} /\ Cardinality({}) = 0
  BY FS_EmptySet DEF Init, InPhase, Heavy
<1>4. Fresh /\ NoneStranded /\ NoIdleWorker
  BY DEF Init, Fresh, NoneStranded, NoIdleWorker
<1>5. CountersAddUp /\ WithinBounds
  BY <1>1, <1>3 DEF Init, CountersAddUp, WithinBounds
<1> QED
  BY <1>2, <1>4, <1>5 DEF IInv

(* What a round of pump finds: the live entries, and those that expired,   *)
(* wait; both are entries of the queue.                                    *)
LEMMA RoundTypes ==
    ASSUME IInv, NEW popped \in SUBSET Tokens, NEW live
    PROVE  /\ Live(queue) \in SUBSET queue
           /\ Live(queue) \in SUBSET InPhase("queued")
           /\ Expired(popped, live) \in SUBSET (popped \ live)
           /\ Expired(popped, live) \in SUBSET InPhase("queued")
           /\ InPhase("queued") \in SUBSET Tokens /\ InPhase("active") \in SUBSET Tokens
           /\ InPhase("queued") \cap InPhase("active") = {}
BY DEF IInv, TypeOK, Live, Expired, InPhase

LEMMA InvAccept ==
    ASSUME IInv, NEW c \in Clients, NEW n \in 1 .. BatchSize, Accept(c, n), UNCHANGED faults
    PROVE  IInv'
<1> DEFINE new    == next .. (next + n - 1)
           q      == queue \cup new
           live   == Live(queue) \cup new
           room   == Concurrency - active
           popped == Popped(q, live, bulk', room)
           gone   == Expired(popped, live)
           starts == popped \cap live
           A      == InPhase("active")
           W      == InPhase("queued") \cup InPhase("active")
<1>c. /\ LastToken \in Nat /\ BatchSize \in Nat /\ Concurrency \in Nat /\ MaxQueued \in Nat
      /\ MaxRetained \in Nat /\ MaxPayload \in Nat
  BY ConstantsAssumption
<1>t. TypeOK /\ Fresh /\ CountersAddUp /\ WithinBounds /\ NoneStranded /\ NoIdleWorker
  BY DEF IInv
<1>0. /\ n \in Nat /\ n >= 1 /\ next \in Nat /\ next >= 1 /\ next + n <= LastToken + 1
      /\ next' = next + n /\ active \in Nat /\ inFlight \in Nat
      /\ jobs \in SUBSET Tokens /\ queue \in SUBSET Tokens
  BY <1>c, <1>t DEF Accept, TypeOK
<1>1. /\ new \in SUBSET Tokens /\ Cardinality(new) = n
      /\ \A t \in new : next <= t /\ t < next'
      /\ \A t \in Tokens : t < next' => t < next \/ t \in new
  <2>1. next \in Int /\ next + n - 1 \in Int /\ ~(next > next + n - 1)
    BY <1>0
  <2>2. Cardinality(new) = (next + n - 1) - next + 1
    BY <2>1, FS_Interval
  <2> QED
    BY <1>0, <1>c, <2>2 DEF Tokens
<1>2. /\ \A t \in new : phase[t] = "none" /\ t \notin jobs /\ t \notin queue /\ weight[t] = 0
  BY <1>0, <1>1, <1>t DEF Fresh, TypeOK
<1>3. /\ jobs' = jobs \cup new /\ queue' = q \ popped
      /\ phase' = [t \in Tokens |->
                      IF t \in starts THEN "active"
                      ELSE IF t \in gone THEN "complete"
                      ELSE IF t \in new THEN "queued"
                      ELSE phase[t]]
      /\ active' = active + Cardinality(starts)
      /\ inFlight' = inFlight + n - Cardinality(gone)
      /\ retained' = retained /\ weight' = weight /\ age' = age
      /\ bulk' \in [Tokens -> BOOLEAN]
      /\ Cardinality(queue) + n <= MaxQueued /\ Cardinality(jobs) + n <= MaxRetained
      /\ inFlight + n <= MaxPayload
  <2>1. bulk' \in [Tokens -> BOOLEAN]
    <3>1. bulk' = [t \in Tokens |-> IF t \in new THEN c \in Importers ELSE bulk[t]]
      BY DEF Accept
    <3>2. (c \in Importers) \in BOOLEAN
      OBVIOUS
    <3>3. bulk \in [Tokens -> BOOLEAN]
      BY <1>t DEF TypeOK
    <3> HIDE DEF new
    <3>4. \A t \in Tokens : (IF t \in new THEN c \in Importers ELSE bulk[t]) \in BOOLEAN
      BY <3>2, <3>3
    <3> QED
      BY ONLY <3>1, <3>4
  <2>2. ~NoRoom(n) /\ Cardinality(queue) \in Nat /\ Cardinality(jobs) \in Nat
    BY <1>0, TokensFinite DEF Accept
  <2>3. /\ Cardinality(queue) + n <= MaxQueued /\ Cardinality(jobs) + n <= MaxRetained
        /\ inFlight + n <= MaxPayload
    BY <1>0, <1>c, <2>2 DEF NoRoom
  <2> QED
    BY <2>1, <2>3 DEF Accept
<1>4. /\ q \in SUBSET Tokens /\ live \in SUBSET q /\ room \in Nat
  BY <1>0, <1>1, <1>c, <1>t, RoundTypes DEF WithinBounds, Live
<1>5. /\ popped \in SUBSET q /\ starts \in SUBSET Tokens /\ popped \in SUBSET Tokens
      /\ Cardinality(starts) <= room
      /\ Cardinality(starts) < room => popped = q
  BY <1>3, <1>4, Pumps
<1>6. /\ gone \in SUBSET (popped \ live) /\ gone \in SUBSET InPhase("queued")
      /\ W \in SUBSET Tokens /\ A \in SUBSET Tokens /\ InPhase("queued") \cap A = {}
      /\ Live(queue) \in SUBSET InPhase("queued") /\ gone \in SUBSET Tokens
      /\ gone \in SUBSET W
  <2> HIDE DEF popped, live
  <2> QED
    BY <1>5, RoundTypes
<1>7. /\ Cardinality(starts) \in Nat /\ Cardinality(gone) \in Nat /\ Cardinality(W) \in Nat
  <2> HIDE DEF starts, gone, W
  <2> QED
    BY <1>5, <1>6, TokensFinite
<1>i. Cardinality(gone) <= inFlight
  <2>1. Cardinality(gone) <= Cardinality(W)
    BY <1>6, CardMono
  <2> QED
    BY <1>t, <2>1 DEF CountersAddUp
<1>8. TypeOK' /\ Fresh' /\ NoneStranded'
  <2>1. phase' \in [Tokens -> Phases]
    BY <1>3, <1>t DEF TypeOK, Phases
  <2>2. active' \in Nat
    BY <1>0, <1>3, <1>7
  <2>3. inFlight' \in Nat
    <3>1. /\ inFlight' = inFlight + n - Cardinality(gone)
          /\ inFlight \in Nat /\ n \in Nat /\ Cardinality(gone) \in Nat
          /\ Cardinality(gone) <= inFlight
      BY <1>0, <1>3, <1>7, <1>i
    <3> QED
      BY ONLY <3>1
  <2>4. next' \in 1 .. LastToken + 1
    BY <1>0, <1>c
  <2>5. /\ pc' \in [Clients -> {"idle", "polling", "answered", "refused", "gone"}]
        /\ mine' \in [Clients -> SUBSET Tokens] /\ waits' \in [Clients -> Nat]
    BY <1>t, <1>1 DEF Accept, TypeOK
  <2>6. result' \in [Tokens -> Results]
    BY <1>t DEF Accept, TypeOK, Results
  <2>7. jobs' \in SUBSET Tokens /\ queue' \in SUBSET Tokens
    BY <1>0, <1>1, <1>3, <1>4
  <2>8. TypeOK'
    BY <1>3, <1>t, <2>1, <2>2, <2>3, <2>4, <2>5, <2>6, <2>7 DEF TypeOK
  <2>9. Fresh'
    <3>1. ASSUME NEW t \in Tokens, phase'[t] # "none" \/ t \in jobs' \cup queue' PROVE t < next'
      <4>1. t \in new \/ phase[t] # "none" \/ t \in jobs \cup queue
        BY <1>3, <1>5, <1>6, <3>1 DEF InPhase
      <4>2. t \in Nat
        BY DEF Tokens
      <4> QED
        BY <1>0, <1>1, <1>t, <4>1, <4>2 DEF Fresh
    <3>2. ASSUME NEW t \in Tokens, weight'[t] = 1 PROVE phase'[t] = "complete"
      <4>1. phase[t] = "complete" /\ t \notin new
        BY <1>2, <1>3, <1>t, <3>2 DEF Fresh
      <4>2. t \notin live
        BY <1>6, <4>1 DEF InPhase
      <4> QED
        BY <1>3, <4>1, <4>2
    <3> QED
      BY <3>1, <3>2 DEF Fresh
  <2>10. NoneStranded'
    <3> SUFFICES ASSUME NEW t \in Tokens
                 PROVE  /\ phase'[t] = "queued" => t \in jobs' \cap queue'
                        /\ phase'[t] = "active" => t \in jobs'
      BY DEF NoneStranded
    <3>1. CASE t \in new
      <4>1. t \in live /\ t \in q /\ t \in jobs'
        BY <1>3, <3>1
      <4> QED
        BY <1>3, <4>1
    <3>2. CASE t \notin new
      <4>1. phase'[t] = "queued" => phase[t] = "queued" /\ t \notin starts /\ t \notin gone
        BY <1>3, <3>2
      <4>2. phase[t] = "queued" => t \in jobs /\ t \in queue
        BY <1>t DEF NoneStranded
      <4>3. phase[t] = "queued" /\ t \in popped => t \in starts \/ t \in gone
        BY DEF Expired
      <4>4. phase'[t] = "active" => t \in starts \/ phase[t] = "active"
        BY <1>3, <3>2
      <4>5. t \in starts => phase[t] = "queued"
        BY <1>6, <3>2 DEF InPhase
      <4>6. phase[t] = "active" => t \in jobs
        BY <1>t DEF NoneStranded
      <4> QED
        BY <1>3, <4>1, <4>2, <4>3, <4>4, <4>5, <4>6
    <3> QED
      BY <3>1, <3>2
  <2> QED
    BY <2>8, <2>9, <2>10
<1>9. CountersAddUp'
  <2>1. InPhase("active")' = A \cup starts
    <3>1. ASSUME NEW t \in Tokens, phase[t] = "active" PROVE t \notin gone /\ t \notin new
      BY <1>2, <1>6, <3>1 DEF InPhase
    <3> QED
      BY <1>3, <1>5, <3>1 DEF InPhase
  <2>2. A \cap starts = {}
    BY <1>2, <1>6 DEF InPhase
  <2>3. (InPhase("queued") \cup InPhase("active"))' = (W \cup new) \ gone
    <3> SUFFICES ASSUME NEW t \in Tokens
                 PROVE  phase'[t] \in {"queued", "active"} <=> t \in (W \cup new) \ gone
      BY <1>1, <1>6 DEF InPhase
    <3>1. t \in starts => t \in W \cup new /\ t \notin gone
      BY <1>6
    <3>2. t \in W <=> phase[t] \in {"queued", "active"}
      BY DEF InPhase
    <3> HIDE DEF starts, gone, W, new
    <3> QED
      BY <1>3, <3>1, <3>2
  <2>4. W \cap new = {}
    BY <1>2 DEF InPhase
  <2>5. Cardinality(W \cup new) = Cardinality(W) + n /\ W \cup new \in SUBSET Tokens
    BY <1>1, <1>6, <2>4, CardUnion
  <2>6. gone \in SUBSET (W \cup new)
    BY <1>6
  <2>7. Cardinality((W \cup new) \ gone) = Cardinality(W) + n - Cardinality(gone)
    <3>1. Cardinality((W \cup new) \ gone) = Cardinality(W \cup new) - Cardinality(gone)
      BY ONLY <2>5, <2>6, CardDiff
    <3> QED
      BY ONLY <1>0, <1>7, <2>5, <3>1
  <2>8. Cardinality(A \cup starts) = Cardinality(A) + Cardinality(starts)
    BY <1>5, <1>6, <2>2, CardUnion
  <2>9. Heavy(jobs)' = Heavy(jobs)
    BY <1>2, <1>3 DEF Heavy
  <2> QED
    BY <1>3, <1>t, <2>1, <2>3, <2>7, <2>8, <2>9 DEF CountersAddUp
<1>10. WithinBounds' /\ NoIdleWorker'
  <2>1. active' <= Concurrency
    BY <1>0, <1>3, <1>5, <1>7, <1>c
  <2>2. inFlight' <= MaxPayload
    <3>1. /\ inFlight' = inFlight + n - Cardinality(gone) /\ inFlight + n <= MaxPayload
          /\ inFlight \in Nat /\ n \in Nat /\ Cardinality(gone) \in Nat /\ MaxPayload \in Nat
      BY <1>0, <1>3, <1>7, <1>c
    <3> QED
      BY ONLY <3>1
  <2>3. Cardinality(jobs') <= MaxRetained
    <3>1. Cardinality(jobs \cup new) <= Cardinality(jobs) + Cardinality(new)
      BY <1>0, <1>1, CardUnion
    <3>2. Cardinality(jobs \cup new) \in Nat /\ Cardinality(jobs) \in Nat
      BY <1>0, <1>1, TokensFinite
    <3> QED
      BY <1>0, <1>1, <1>3, <1>c, <3>1, <3>2
  <2>4. Cardinality(queue') <= MaxQueued
    <3>1. Cardinality(q) <= Cardinality(queue) + Cardinality(new)
      BY <1>0, <1>1, CardUnion
    <3>2. Cardinality(q \ popped) <= Cardinality(q)
      BY <1>4, CardMono
    <3>3. Cardinality(q) \in Nat /\ Cardinality(q \ popped) \in Nat /\ Cardinality(queue) \in Nat
      BY <1>0, <1>4, TokensFinite
    <3> QED
      BY <1>0, <1>1, <1>3, <1>c, <3>1, <3>2, <3>3
  <2>5. active' < Concurrency => queue' = {}
    <3>1. active' < Concurrency => Cardinality(starts) < room
      BY <1>0, <1>3, <1>7, <1>c
    <3> QED
      BY <1>3, <1>5, <3>1
  <2> QED
    BY <1>3, <1>t, <2>1, <2>2, <2>3, <2>4, <2>5 DEF WithinBounds, NoIdleWorker
<1> QED
  BY <1>8, <1>9, <1>10 DEF IInv

LEMMA InvFinish ==
    ASSUME IInv, NEW t \in Tokens, Finish(t), UNCHANGED faults
    PROVE  IInv'
<1> DEFINE live   == Live(queue)
           room   == Concurrency - active + 1
           popped == Popped(queue, live, bulk, room)
           gone   == Expired(popped, live)
           starts == popped \cap live
           A      == InPhase("active")
           W      == InPhase("queued") \cup InPhase("active")
<1>c. /\ LastToken \in Nat /\ Concurrency \in Nat /\ MaxQueued \in Nat
      /\ MaxRetained \in Nat /\ MaxPayload \in Nat /\ MaxResults \in Nat
  BY ConstantsAssumption
<1>t. TypeOK /\ Fresh /\ CountersAddUp /\ WithinBounds /\ NoneStranded /\ NoIdleWorker
  BY DEF IInv
<1>w. PICK w \in {0, 1} :
        LET trimmed == Trimmed(retained + w, t)
        IN  /\ phase[t] = "active"
            /\ jobs' = jobs \ trimmed
            /\ queue' = queue \ popped
            /\ phase' = [u \in Tokens |->
                            IF u \in starts THEN "active"
                            ELSE IF u = t \/ u \in gone THEN "complete"
                            ELSE phase[u]]
            /\ result' = [u \in Tokens |->
                            IF u = t THEN "verdict" ELSE IF u \in gone THEN "expired" ELSE result[u]]
            /\ weight' = [weight EXCEPT ![t] = w]
            /\ active' = active - 1 + Cardinality(starts)
            /\ inFlight' = inFlight - 1 - Cardinality(gone)
            /\ retained' = retained + w - Cardinality(Heavy(trimmed))
            /\ UNCHANGED <<next, bulk, age, clientVars>>
  BY DEF Finish
<1> DEFINE trimmed == Trimmed(retained + w, t)
<1>0. /\ active \in Nat /\ inFlight \in Nat /\ retained \in Nat
      /\ jobs \in SUBSET Tokens /\ queue \in SUBSET Tokens /\ bulk \in [Tokens -> BOOLEAN]
      /\ phase[t] = "active" /\ t \in jobs /\ weight[t] = 0 /\ weight \in [Tokens -> {0, 1}]
      /\ active <= Concurrency
  BY <1>t, <1>w DEF TypeOK, NoneStranded, Fresh, WithinBounds
<1>1. /\ trimmed \in SUBSET (jobs \cap InPhase("complete")) /\ t \notin trimmed
      /\ (retained + w) - Cardinality(Heavy(trimmed)) <= MaxResults
  BY <1>0, Trims
<1>2. /\ live \in SUBSET queue /\ room \in Nat
      /\ W \in SUBSET Tokens /\ A \in SUBSET Tokens /\ InPhase("queued") \cap A = {}
      /\ live \in SUBSET InPhase("queued") /\ t \in A
  BY <1>0, <1>c, <1>t DEF Live, InPhase
<1>3. /\ popped \in SUBSET queue /\ starts \in SUBSET Tokens /\ popped \in SUBSET Tokens
      /\ Cardinality(starts) <= room
      /\ Cardinality(starts) < room => popped = queue
  <2> HIDE DEF live, room
  <2> QED
    BY <1>0, <1>2, Pumps
<1>4. /\ gone \in SUBSET (popped \ live) /\ gone \in SUBSET InPhase("queued")
      /\ gone \in SUBSET Tokens /\ gone \in SUBSET (W \ {t}) /\ starts \in SUBSET InPhase("queued")
  BY <1>2, <1>3 DEF Expired, InPhase
<1>5. /\ Cardinality(starts) \in Nat /\ Cardinality(gone) \in Nat /\ Cardinality(W) \in Nat
      /\ Cardinality(W \ {t}) = Cardinality(W) - 1 /\ Cardinality(A \ {t}) = Cardinality(A) - 1
      /\ Cardinality(A) \in Nat
  <2>1. /\ Cardinality(starts) \in Nat /\ Cardinality(gone) \in Nat
        /\ IsFiniteSet(W) /\ Cardinality(W) \in Nat /\ IsFiniteSet(A) /\ Cardinality(A) \in Nat
    <3> HIDE DEF starts, gone, W, A
    <3> QED
      BY <1>2, <1>3, <1>4, TokensFinite
  <2>2. t \in W /\ t \in A
    BY <1>2
  <2> QED
    BY <2>1, <2>2, FS_RemoveElement
<1>6. Cardinality(gone) <= inFlight - 1 /\ inFlight = Cardinality(W) /\ active = Cardinality(A)
      /\ active >= 1 /\ inFlight >= 1
  <2>1. W \ {t} \in SUBSET Tokens
    BY <1>2
  <2>2. Cardinality(gone) <= Cardinality(W \ {t}) /\ Cardinality(W \ {t}) \in Nat
    BY <1>4, <2>1, CardMono, TokensFinite
  <2>3. inFlight = Cardinality(W) /\ active = Cardinality(A)
    BY <1>t DEF CountersAddUp
  <2>4. A \ {t} \in SUBSET Tokens
    BY <1>2
  <2>5. Cardinality(A \ {t}) \in Nat
    BY <2>4, TokensFinite
  <2> HIDE DEF gone, W, A
  <2> QED
    BY <1>5, <2>2, <2>3, <2>5
<1>7. /\ Heavy(jobs') = Heavy(jobs) \ Heavy(trimmed)
      /\ Heavy(trimmed) \in SUBSET Heavy(jobs) /\ Heavy(jobs) \in SUBSET Tokens
      /\ t \notin Heavy(jobs)
  BY <1>0, <1>1, <1>w DEF Heavy
<1>8. Heavy(jobs)' = IF w = 1 THEN (Heavy(jobs) \ Heavy(trimmed)) \cup {t}
                     ELSE Heavy(jobs) \ Heavy(trimmed)
  <2>1. jobs' = jobs \ trimmed /\ weight' = [weight EXCEPT ![t] = w]
    BY <1>w
  <2> HIDE DEF trimmed
  <2> QED
    BY <1>0, <1>1, <2>1 DEF Heavy
<1>9. /\ Cardinality(Heavy(jobs)') = (retained + w) - Cardinality(Heavy(trimmed))
      /\ Cardinality(Heavy(jobs)') \in Nat /\ Cardinality(Heavy(trimmed)) \in Nat
  <2> DEFINE rest == Heavy(jobs) \ Heavy(trimmed)
  <2>1. Cardinality(rest) = Cardinality(Heavy(jobs)) - Cardinality(Heavy(trimmed))
    BY <1>7, CardDiff
  <2>2. /\ rest \in SUBSET Tokens /\ {t} \in SUBSET Tokens /\ rest \cap {t} = {}
        /\ Heavy(trimmed) \in SUBSET Tokens /\ rest \cup {t} \in SUBSET Tokens
    BY <1>7
  <2>3. Cardinality(rest \cup {t}) = Cardinality(rest) + 1
    <3>1. Cardinality({t}) = 1
      BY FS_Singleton
    <3> HIDE DEF rest
    <3> QED
      BY <2>2, <3>1, CardUnion
  <2>4. /\ Cardinality(rest) \in Nat /\ Cardinality(rest \cup {t}) \in Nat
        /\ Cardinality(Heavy(trimmed)) \in Nat
    <3> HIDE DEF rest, trimmed
    <3> QED
      BY <2>2, TokensFinite
  <2>5. Cardinality(Heavy(jobs)) = retained
    BY <1>t DEF CountersAddUp
  <2> HIDE DEF rest, trimmed
  <2>6. Heavy(jobs)' = IF w = 1 THEN rest \cup {t} ELSE rest
    BY <1>8 DEF rest, trimmed
  <2>7. CASE w = 1
    BY <1>0, <2>1, <2>3, <2>4, <2>5, <2>6, <2>7
  <2>8. CASE w = 0
    BY <1>0, <2>1, <2>4, <2>5, <2>6, <2>8
  <2> QED
    BY <2>7, <2>8
<1>10. InPhase("active")' = (A \ {t}) \cup starts
  <2> SUFFICES ASSUME NEW u \in Tokens
               PROVE  phase'[u] = "active" <=> u \in (A \ {t}) \cup starts
    BY <1>2, <1>3 DEF InPhase
  <2>1. u \in starts \/ u \in gone => phase[u] = "queued"
    BY <1>4 DEF InPhase
  <2>2. u \in A <=> phase[u] = "active"
    BY DEF InPhase
  <2>3. phase'[u] = IF u \in starts THEN "active"
                    ELSE IF u = t \/ u \in gone THEN "complete" ELSE phase[u]
    BY <1>w
  <2> HIDE DEF starts, gone, A
  <2> QED
    BY <2>1, <2>2, <2>3
<1>11. (InPhase("queued") \cup InPhase("active"))' = (W \ {t}) \ gone
  <2> SUFFICES ASSUME NEW u \in Tokens
               PROVE  phase'[u] \in {"queued", "active"} <=> u \in (W \ {t}) \ gone
    BY <1>2, <1>3 DEF InPhase
  <2>1. /\ u \in starts \/ u \in gone => phase[u] = "queued"
        /\ u \in starts => u \notin gone
    BY <1>4 DEF InPhase
  <2>2. u \in W <=> phase[u] \in {"queued", "active"}
    BY DEF InPhase
  <2>3. phase'[u] = IF u \in starts THEN "active"
                    ELSE IF u = t \/ u \in gone THEN "complete" ELSE phase[u]
    BY <1>w
  <2> HIDE DEF starts, gone, W
  <2> QED
    BY <1>0, <2>1, <2>2, <2>3
<1>12. /\ active' = (active - 1) + Cardinality(starts) /\ active' \in Nat
       /\ inFlight' = (inFlight - 1) - Cardinality(gone) /\ inFlight' \in Nat
       /\ retained' = (retained + w) - Cardinality(Heavy(trimmed)) /\ retained' \in Nat
  <2>1. /\ active' = active - 1 + Cardinality(starts)
        /\ inFlight' = inFlight - 1 - Cardinality(gone)
        /\ retained' = retained + w - Cardinality(Heavy(trimmed))
    BY <1>w
  <2> HIDE DEF starts, gone, trimmed
  <2>2. /\ active' = (active - 1) + Cardinality(starts)
        /\ inFlight' = (inFlight - 1) - Cardinality(gone)
        /\ retained' = (retained + w) - Cardinality(Heavy(trimmed))
    BY ONLY <2>1, <1>0, <1>5, <1>9, w \in {0, 1}
  <2> QED
    BY ONLY <2>2, <1>0, <1>5, <1>6, <1>9
<1>13. CountersAddUp'
  <2>1. (A \ {t}) \cap starts = {} /\ A \ {t} \in SUBSET Tokens
    BY <1>2, <1>4
  <2>2. Cardinality((A \ {t}) \cup starts) = Cardinality(A \ {t}) + Cardinality(starts)
    BY <1>3, <2>1, CardUnion
  <2>3. Cardinality((W \ {t}) \ gone) = Cardinality(W \ {t}) - Cardinality(gone)
    <3>1. W \ {t} \in SUBSET Tokens
      BY <1>2
    <3> QED
      BY <1>4, <3>1, CardDiff
  <2>4. active' = Cardinality(InPhase("active")')
    BY ONLY <1>5, <1>6, <1>10, <1>12, <2>2
  <2>5. inFlight' = Cardinality((InPhase("queued") \cup InPhase("active"))')
    BY ONLY <1>5, <1>6, <1>11, <1>12, <2>3
  <2>6. retained' = Cardinality(Heavy(jobs)')
    BY ONLY <1>9, <1>12
  <2> QED
    BY <2>4, <2>5, <2>6 DEF CountersAddUp
<1>14. WithinBounds' /\ NoIdleWorker'
  <2>1. active' <= Concurrency
    <3> HIDE DEF starts
    <3> QED
      BY ONLY <1>0, <1>c, <1>3, <1>5, <1>12 DEF room
  <2>2. inFlight' <= MaxPayload
    <3>1. inFlight <= MaxPayload
      BY <1>t DEF WithinBounds
    <3> HIDE DEF gone
    <3> QED
      BY ONLY <1>0, <1>c, <1>5, <1>12, <3>1
  <2>3. Cardinality(jobs') <= MaxRetained /\ Cardinality(queue') <= MaxQueued
    <3>1. /\ jobs' \in SUBSET jobs /\ queue' \in SUBSET queue
          /\ Cardinality(jobs) <= MaxRetained /\ Cardinality(queue) <= MaxQueued
      BY <1>w, <1>t DEF WithinBounds
    <3>2. Cardinality(jobs') <= Cardinality(jobs) /\ Cardinality(queue') <= Cardinality(queue)
      BY <1>0, <3>1, CardMono
    <3>3. /\ Cardinality(jobs) \in Nat /\ Cardinality(queue) \in Nat
          /\ Cardinality(jobs') \in Nat /\ Cardinality(queue') \in Nat
      BY <1>0, <3>1, TokensFinite
    <3> QED
      BY ONLY <3>1, <3>2, <3>3, <1>c
  <2>4. retained' <= MaxResults
    BY ONLY <1>1, <1>12
  <2>5. active' < Concurrency => queue' = {}
    <3>1. active' < Concurrency => Cardinality(starts) < room
      <4> HIDE DEF starts
      <4> QED
        BY ONLY <1>0, <1>c, <1>5, <1>12 DEF room
    <3>2. queue' = queue \ popped
      BY <1>w
    <3> QED
      BY <1>3, <3>1, <3>2
  <2> QED
    BY <2>1, <2>2, <2>3, <2>4, <2>5 DEF WithinBounds, NoIdleWorker
<1>15. TypeOK' /\ Fresh' /\ NoneStranded'
  <2>1. phase' \in [Tokens -> Phases] /\ result' \in [Tokens -> Results]
    BY <1>w, <1>t DEF TypeOK, Phases, Results
  <2>2. weight' \in [Tokens -> {0, 1}]
    BY <1>w, <1>0
  <2>3. jobs' \in SUBSET Tokens /\ queue' \in SUBSET Tokens
    BY <1>w, <1>0
  <2>4. UNCHANGED <<next, bulk, age, clientVars>>
    BY <1>w
  <2>5. TypeOK'
    BY <1>12, <1>t, <2>1, <2>2, <2>3, <2>4 DEF TypeOK, clientVars
  <2>6. ASSUME NEW u \in Tokens
        PROVE  /\ phase'[u] # "none" \/ u \in jobs' \cup queue' => u < next'
               /\ weight'[u] = 1 => phase'[u] = "complete"
               /\ phase'[u] = "queued" => u \in jobs' \cap queue'
               /\ phase'[u] = "active" => u \in jobs'
    <3>1. /\ phase'[u] = IF u \in starts THEN "active"
                         ELSE IF u = t \/ u \in gone THEN "complete" ELSE phase[u]
          /\ weight'[u] = IF u = t THEN w ELSE weight[u]
          /\ jobs' = jobs \ trimmed /\ queue' = queue \ popped /\ next' = next
      BY <1>w, <1>0
    <3>2. /\ u \in starts \/ u \in gone => phase[u] = "queued"
          /\ u \in trimmed => phase[u] = "complete"
      BY <1>4, <1>1 DEF InPhase
    <3>3. phase[u] = "queued" /\ u \in popped => u \in starts \/ u \in gone
      BY DEF Expired
    <3>4. /\ phase[u] # "none" \/ u \in jobs \cup queue => u < next
          /\ weight[u] = 1 => phase[u] = "complete"
          /\ phase[u] = "queued" => u \in jobs \cap queue
          /\ phase[u] = "active" => u \in jobs
      BY <1>t DEF Fresh, NoneStranded
    <3> HIDE DEF starts, gone, trimmed, popped
    <3> QED
      BY <1>0, <3>1, <3>2, <3>3, <3>4
  <2> QED
    BY <2>5, <2>6 DEF Fresh, NoneStranded
<1> QED
  BY <1>13, <1>14, <1>15 DEF IInv

LEMMA InvSweep == ASSUME IInv, Sweep, UNCHANGED faults PROVE IInv'
<1> DEFINE expired == {t \in jobs : phase[t] = "queued" /\ Old(t)}
           deleted == expired \cup {t \in jobs : phase[t] = "complete" /\ Old(t)}
           W       == InPhase("queued") \cup InPhase("active")
<1>c. /\ MaxQueued \in Nat /\ MaxRetained \in Nat /\ MaxPayload \in Nat /\ MaxResults \in Nat
  BY ConstantsAssumption
<1>t. TypeOK /\ Fresh /\ CountersAddUp /\ WithinBounds /\ NoneStranded /\ NoIdleWorker
  BY DEF IInv
<1>s. /\ jobs' = jobs \ deleted
      /\ phase' = [t \in Tokens |-> IF t \in expired THEN "complete" ELSE phase[t]]
      /\ result' = [t \in Tokens |-> IF t \in expired THEN "expired" ELSE result[t]]
      /\ inFlight' = inFlight - Cardinality(expired)
      /\ retained' = retained - Cardinality(Heavy(deleted))
      /\ UNCHANGED <<next, queue, bulk, weight, age, active, clientVars>>
  BY DEF Sweep
<1>0. /\ active \in Nat /\ inFlight \in Nat /\ retained \in Nat
      /\ jobs \in SUBSET Tokens /\ queue \in SUBSET Tokens
      /\ inFlight = Cardinality(W) /\ retained = Cardinality(Heavy(jobs))
  BY <1>t DEF TypeOK, CountersAddUp
<1>1. /\ expired \in SUBSET Tokens /\ expired \in SUBSET W /\ W \in SUBSET Tokens
      /\ deleted \in SUBSET jobs
  BY <1>0 DEF InPhase
<1>2. /\ Cardinality(W \ expired) = Cardinality(W) - Cardinality(expired)
      /\ Cardinality(W \ expired) \in Nat
  <2>1. W \ expired \in SUBSET Tokens
    BY <1>1
  <2> HIDE DEF W, expired
  <2> QED
    BY <1>1, <2>1, CardDiff, TokensFinite
<1>3. /\ InPhase("active")' = InPhase("active")
      /\ (InPhase("queued") \cup InPhase("active"))' = W \ expired
  BY <1>s DEF InPhase
<1>4. /\ Heavy(jobs)' = Heavy(jobs) \ Heavy(deleted)
      /\ Heavy(deleted) \in SUBSET Heavy(jobs) /\ Heavy(jobs) \in SUBSET Tokens
  <2> HIDE DEF deleted
  <2> QED
    BY <1>0, <1>1, <1>s DEF Heavy
<1>5. /\ Cardinality(Heavy(jobs)') = Cardinality(Heavy(jobs)) - Cardinality(Heavy(deleted))
      /\ Cardinality(Heavy(jobs)') \in Nat /\ Cardinality(Heavy(deleted)) \in Nat
  <2>1. Heavy(jobs)' \in SUBSET Tokens /\ Heavy(deleted) \in SUBSET Tokens
    BY <1>4
  <2> HIDE DEF deleted
  <2> QED
    BY <1>4, <2>1, CardDiff, TokensFinite
<1>6. Cardinality(expired) \in Nat
  BY <1>1, TokensFinite
<1>7. inFlight' \in Nat /\ retained' \in Nat /\ inFlight' <= inFlight /\ retained' <= retained
  BY ONLY <1>s, <1>0, <1>2, <1>5, <1>6
<1>8. CountersAddUp'
  <2>1. active' = Cardinality(InPhase("active")')
    BY <1>s, <1>3, <1>t DEF CountersAddUp
  <2>2. inFlight' = Cardinality((InPhase("queued") \cup InPhase("active"))')
    BY ONLY <1>s, <1>0, <1>2, <1>3
  <2>3. retained' = Cardinality(Heavy(jobs)')
    BY ONLY <1>s, <1>0, <1>5
  <2> QED
    BY <2>1, <2>2, <2>3 DEF CountersAddUp
<1>9. WithinBounds' /\ NoIdleWorker'
  <2>1. jobs' \in SUBSET jobs
    BY <1>s
  <2>2. Cardinality(jobs') <= Cardinality(jobs)
    BY <1>0, <2>1, CardMono
  <2>3. Cardinality(jobs) \in Nat /\ Cardinality(jobs') \in Nat
    BY <1>0, <2>1, TokensFinite
  <2>4. /\ active <= Concurrency /\ inFlight <= MaxPayload /\ Cardinality(jobs) <= MaxRetained
        /\ Cardinality(queue) <= MaxQueued /\ retained <= MaxResults
    BY <1>t DEF WithinBounds
  <2>5. inFlight' <= MaxPayload /\ Cardinality(jobs') <= MaxRetained /\ retained' <= MaxResults
    BY ONLY <1>0, <1>7, <1>c, <2>2, <2>3, <2>4
  <2>6. active' = active /\ queue' = queue
    BY <1>s
  <2> QED
    BY <1>t, <2>4, <2>5, <2>6 DEF WithinBounds, NoIdleWorker
<1>10. TypeOK'
  <2>1. phase' \in [Tokens -> Phases] /\ result' \in [Tokens -> Results]
    BY <1>s, <1>t DEF TypeOK, Phases, Results
  <2>2. jobs' \in SUBSET Tokens
    BY <1>s, <1>0
  <2>3. UNCHANGED <<next, queue, bulk, weight, age, active, clientVars>>
    BY <1>s
  <2> QED
    BY <1>7, <1>t, <2>1, <2>2, <2>3 DEF TypeOK, clientVars
<1>11. Fresh' /\ NoneStranded'
  <2> SUFFICES ASSUME NEW u \in Tokens
               PROVE  /\ phase'[u] # "none" \/ u \in jobs' \cup queue' => u < next'
                      /\ weight'[u] = 1 => phase'[u] = "complete"
                      /\ phase'[u] = "queued" => u \in jobs' \cap queue'
                      /\ phase'[u] = "active" => u \in jobs'
    BY DEF Fresh, NoneStranded
  <2>1. /\ phase'[u] = IF u \in expired THEN "complete" ELSE phase[u]
        /\ weight' = weight /\ jobs' = jobs \ deleted /\ queue' = queue /\ next' = next
    BY <1>s
  <2>2. /\ u \in expired => phase[u] = "queued" /\ u \in jobs
        /\ u \in deleted => u \in expired \/ phase[u] = "complete"
    OBVIOUS
  <2>3. /\ phase[u] # "none" \/ u \in jobs \cup queue => u < next
        /\ weight[u] = 1 => phase[u] = "complete"
        /\ phase[u] = "queued" => u \in jobs \cap queue
        /\ phase[u] = "active" => u \in jobs
    BY <1>t DEF Fresh, NoneStranded
  <2> HIDE DEF expired, deleted
  <2> QED
    BY <2>1, <2>2, <2>3
<1> QED
  BY <1>8, <1>9, <1>10, <1>11 DEF IInv

(* A client that is answered, refused or gone, and time, leave the judge   *)
(* as it was.                                                              *)
LEMMA InvClients ==
    ASSUME IInv, UNCHANGED <<next, jobs, queue, phase, bulk, result, weight, counters, faults>>,
           age' \in [Tokens -> Nat],
           pc' \in [Clients -> {"idle", "polling", "answered", "refused", "gone"}],
           mine' \in [Clients -> SUBSET Tokens], waits' \in [Clients -> Nat]
    PROVE  IInv'
<1>1. TypeOK'
  BY DEF IInv, TypeOK, counters
<1>2. Fresh' /\ NoneStranded' /\ NoIdleWorker'
  BY DEF IInv, Fresh, NoneStranded, NoIdleWorker, counters
<1>3. CountersAddUp' /\ WithinBounds'
  BY DEF IInv, CountersAddUp, WithinBounds, InPhase, Heavy, counters
<1> QED
  BY <1>1, <1>2, <1>3 DEF IInv

LEMMA InvReturns ==
    ASSUME IInv, NEW c \in Clients, NEW how \in {"answered", "refused", "gone"}, Returns(c, how),
           UNCHANGED faults
    PROVE  IInv'
<1>1. /\ UNCHANGED <<next, jobs, queue, phase, bulk, result, weight, counters>>
      /\ age' = age
      /\ pc' = [pc EXCEPT ![c] = how] /\ mine' = [mine EXCEPT ![c] = {}]
      /\ waits' = [waits EXCEPT ![c] = 0]
  BY DEF Returns
<1>2. TypeOK
  BY DEF IInv
<1>3. /\ age' \in [Tokens -> Nat]
      /\ pc' \in [Clients -> {"idle", "polling", "answered", "refused", "gone"}]
      /\ mine' \in [Clients -> SUBSET Tokens] /\ waits' \in [Clients -> Nat]
  BY <1>1, <1>2 DEF TypeOK
<1> QED
  BY <1>1, <1>3, InvClients

LEMMA InvTick == ASSUME IInv, Tick, UNCHANGED faults PROVE IInv'
<1>1. /\ Ttl \in Nat /\ Timeout \in Nat /\ ImportTimeout \in Nat
  BY ConstantsAssumption
<1>2. TypeOK
  BY DEF IInv
<1>3. age' \in [Tokens -> Nat]
  BY <1>1, <1>2 DEF Tick, TypeOK, AtMost
<1>4. waits' \in [Clients -> Nat]
  BY <1>1, <1>2 DEF Tick, TypeOK, AtMost, Patience
<1>5. /\ UNCHANGED <<next, jobs, queue, phase, bulk, result, weight, counters>>
      /\ pc' = pc /\ mine' = mine
  BY DEF Tick
<1>6. /\ pc' \in [Clients -> {"idle", "polling", "answered", "refused", "gone"}]
      /\ mine' \in [Clients -> SUBSET Tokens]
  BY <1>2, <1>5 DEF TypeOK
<1> QED
  BY <1>3, <1>4, <1>5, <1>6, InvClients

LEMMA InvRestart == ASSUME IInv, Restart, UNCHANGED faults PROVE IInv'
<1>1. /\ Concurrency \in Nat /\ MaxPayload \in Nat /\ LastToken \in Nat
      /\ MaxRetained \in Nat /\ MaxQueued \in Nat /\ MaxResults \in Nat
  BY ConstantsAssumption
<1>2. TypeOK'
  BY DEF IInv, Restart, TypeOK, Phases, Results, clientVars
<1>3. /\ InPhase("active")' = {} /\ (InPhase("queued") \cup InPhase("active"))' = {}
      /\ Heavy(jobs)' = {} /\ Cardinality({}) = 0
  BY FS_EmptySet DEF Restart, InPhase, Heavy
<1>4. Fresh' /\ NoneStranded' /\ NoIdleWorker'
  BY DEF Restart, Fresh, NoneStranded, NoIdleWorker
<1>5. jobs' = {} /\ queue' = {} /\ active' = 0 /\ inFlight' = 0 /\ retained' = 0
  BY DEF Restart
<1>6. CountersAddUp' /\ WithinBounds'
  BY <1>1, <1>3, <1>5 DEF CountersAddUp, WithinBounds
<1> QED
  BY <1>2, <1>4, <1>6 DEF IInv

LEMMA InvNext == IInv /\ [Next]_vars => IInv'
<1> SUFFICES ASSUME IInv, [Next]_vars PROVE IInv'
  OBVIOUS
<1>0. UNCHANGED faults
  BY DEF Next, vars
<1>1. ASSUME NEW c \in Clients, Refuse(c) PROVE IInv'
  BY <1>0, <1>1, InvReturns DEF Refuse
<1>2. ASSUME NEW c \in Clients, PollAnswered(c) PROVE IInv'
  BY <1>0, <1>2, InvReturns DEF PollAnswered
<1>3. ASSUME NEW c \in Clients, GiveUp(c) PROVE IInv'
  BY <1>0, <1>3, InvReturns DEF GiveUp
<1>4. ASSUME NEW c \in Clients, NEW n \in 1 .. BatchSize, Accept(c, n) PROVE IInv'
  BY <1>0, <1>4, InvAccept
<1>5. ASSUME NEW t \in Tokens, Finish(t) PROVE IInv'
  BY <1>0, <1>5, InvFinish
<1>6. ASSUME UNCHANGED vars PROVE IInv'
  <2>1. /\ UNCHANGED <<next, jobs, queue, phase, bulk, result, weight, counters>>
        /\ age' = age /\ pc' = pc /\ mine' = mine /\ waits' = waits
    BY <1>6 DEF vars, clientVars
  <2> QED
    BY <1>0, <2>1, InvClients DEF IInv, TypeOK
<1> QED
  BY <1>0, <1>1, <1>2, <1>3, <1>4, <1>5, <1>6, InvSweep, InvTick, InvRestart DEF Next, Step

LEMMA Invariance == Spec => []IInv
BY InvInit, InvNext, PTL DEF Spec

----------------------------------------------------------------------------

(* Every variable keeps its type: no counter goes below zero, whatever is  *)
(* expired, finished, swept or forgotten in whatever order.                *)
THEOREM TypeCorrect == Spec => []TypeOK
<1>1. IInv => TypeOK
  BY DEF IInv
<1> QED
  BY <1>1, Invariance, PTL

(* The counters of index.ts that admit, start and trim are always those of *)
(* the jobs that are there: no path releases a job twice or not at all.    *)
THEOREM Accounts == Spec => []CountersAddUp
<1>1. IInv => CountersAddUp
  BY DEF IInv
<1> QED
  BY <1>1, Invariance, PTL

(* JUDGE_CONCURRENCY, the payloads, the Map, the arrays and the results    *)
(* stay within their limits.                                               *)
THEOREM Bounded == Spec => []WithinBounds
<1>1. IInv => WithinBounds
  BY DEF IInv
<1> QED
  BY <1>1, Invariance, PTL

(* A job that has not run can be polled and is ahead of the heads.         *)
THEOREM Reachable == Spec => []NoneStranded
<1>1. IInv => NoneStranded
  BY DEF IInv
<1> QED
  BY <1>1, Invariance, PTL

(* Wherever pump is called, it leaves no worker idle that has work.        *)
THEOREM WorkConserving == Spec => []NoIdleWorker
<1>1. IInv => NoIdleWorker
  BY DEF IInv
<1> QED
  BY <1>1, Invariance, PTL

(* All of it, in every reachable state.                                    *)
THEOREM PoolCorrect == Spec => []PoolInv
<1>1. IInv => PoolInv
  BY DEF IInv, PoolInv
<1> QED
  BY <1>1, Invariance, PTL

(* What a round of pump leaves in the queues comes after all it starts.    *)
LEMMA StartsInOrder ==
    ASSUME IInv, IInv', [Next]_vars,
           NEW t \in Tokens, NEW u \in Tokens,
           phase[t] # "active", phase'[t] = "active", phase'[u] = "queued"
    PROVE  ~Before(bulk', u, t)
<1>t. TypeOK /\ WithinBounds /\ u \in queue' /\ active \in Nat /\ queue \in SUBSET Tokens
      /\ bulk \in [Tokens -> BOOLEAN] /\ bulk' \in [Tokens -> BOOLEAN]
      /\ Concurrency \in Nat /\ active <= Concurrency
  BY ConstantsAssumption DEF IInv, TypeOK, NoneStranded, WithinBounds
<1>1. ASSUME NEW c \in Clients, NEW n \in 1 .. BatchSize, Accept(c, n)
      PROVE  ~Before(bulk', u, t)
  <2> DEFINE new    == next .. (next + n - 1)
             q      == queue \cup new
             live   == Live(queue) \cup new
             room   == Concurrency - active
             popped == Popped(q, live, bulk', room)
             gone   == Expired(popped, live)
             starts == popped \cap live
  <2>1. /\ queue' = q \ popped
        /\ phase' = [v \in Tokens |->
                        IF v \in starts THEN "active"
                        ELSE IF v \in gone THEN "complete"
                        ELSE IF v \in new THEN "queued"
                        ELSE phase[v]]
    BY <1>1 DEF Accept
  <2>2. t \in starts
    BY <1>t, <2>1
  <2>3. q \in SUBSET Tokens
    <3>1. /\ LastToken \in Nat /\ next \in 1 .. LastToken + 1 /\ n \in Nat /\ n >= 1
          /\ next + n <= LastToken + 1
      BY <1>t, <1>1, ConstantsAssumption DEF Accept, TypeOK
    <3> QED
      BY <1>t, <3>1 DEF Tokens
  <2>4. live \in SUBSET q /\ room \in Nat
    BY <1>t DEF Live
  <2>5. \A v \in popped, x \in q \ popped : ~Before(bulk', x, v)
    <3> HIDE DEF q, live, room
    <3> QED
      BY <1>t, <2>3, <2>4, Pumps
  <2>6. t \in popped /\ u \in q \ popped
    BY <1>t, <2>1, <2>2
  <2> QED
    BY ONLY <2>5, <2>6
<1>2. ASSUME NEW f \in Tokens, Finish(f) PROVE ~Before(bulk', u, t)
  <2> DEFINE live   == Live(queue)
             room   == Concurrency - active + 1
             popped == Popped(queue, live, bulk, room)
             gone   == Expired(popped, live)
             starts == popped \cap live
  <2>1. /\ queue' = queue \ popped /\ bulk' = bulk
        /\ phase' = [v \in Tokens |->
                        IF v \in starts THEN "active"
                        ELSE IF v = f \/ v \in gone THEN "complete"
                        ELSE phase[v]]
    BY <1>2 DEF Finish
  <2>2. t \in starts
    BY <1>t, <2>1
  <2>3. live \in SUBSET queue /\ room \in Nat
    BY <1>t DEF Live
  <2>4. \A v \in popped, x \in queue \ popped : ~Before(bulk, x, v)
    <3> HIDE DEF live, room
    <3> QED
      BY <1>t, <2>3, Pumps
  <2>5. t \in popped /\ u \in queue \ popped
    BY <1>t, <2>1, <2>2
  <2>6. ~Before(bulk, u, t)
    BY ONLY <2>4, <2>5
  <2> QED
    BY <2>1, <2>6 DEF Before
<1>3. ASSUME phase' = phase \/ Sweep \/ Restart PROVE FALSE
  BY <1>3 DEF Sweep, Restart
<1>4. ASSUME NEW c \in Clients, Refuse(c) \/ PollAnswered(c) \/ GiveUp(c) PROVE phase' = phase
  BY <1>4 DEF Refuse, PollAnswered, GiveUp, Returns
<1>5. Tick \/ UNCHANGED vars => phase' = phase
  BY DEF Tick, vars
<1> QED
  BY <1>1, <1>2, <1>3, <1>4, <1>5 DEF Next, Step

(* The order in which pump starts jobs: never one before another that is   *)
(* still queued and came first, nor the importer's before a person's.      *)
THEOREM InOrder == Spec => PeopleFirst
<1>1. IInv /\ IInv' /\ [Next]_vars =>
        [\A t, u \in Tokens :
          /\ phase[t] # "active" /\ phase'[t] = "active"
          /\ phase'[u] = "queued" /\ ~Old(u)
          => ~Before(bulk', u, t)]_vars
  BY StartsInOrder
<1> QED
  BY <1>1, Invariance, PTL DEF Spec, PeopleFirst

----------------------------------------------------------------------------
(* What the API takes for verdicts.                                        *)

Calm == faults \cap {"restart", "heavy"} = {}

(* The tokens to come are new in every way.                                *)
Untouched == \A t \in Tokens : t >= next => age[t] = 0 /\ result[t] = "none"

(* Whoever is still patient polls for jobs that are there, that are as old *)
(* as the wait and that did not expire.                                    *)
Polled(c) ==
    pc[c] = "polling" /\ waits[c] <= Patience(c) =>
        \A t \in mine[c] :
            /\ t < next /\ t \in jobs
            /\ age[t] = waits[c]
            /\ result[t] # "expired"

Patient == {c \in Clients \ Importers : Patience(c) <= Ttl}

VerdictInv == Untouched /\ (Calm => \A c \in Patient : Polled(c))

LEMMA VerdictInit == Init => VerdictInv
BY DEF Init, VerdictInv, Untouched, Polled, Patient

(* What is in the Map and not old is neither dropped nor expired.          *)
LEMMA YoungOnesStay ==
    ASSUME IInv, Calm, NEW t \in Tokens, t \in jobs, t < next, ~Old(t), result[t] # "expired",
           \/ \E c \in Clients, n \in 1 .. BatchSize : Accept(c, n)
           \/ \E u \in Tokens : Finish(u)
           \/ Sweep
    PROVE  t \in jobs' /\ result'[t] # "expired" /\ t < next'
<1>0. /\ next \in Nat /\ t \in Nat /\ retained \in Nat /\ retained <= MaxResults /\ MaxResults \in Nat
      /\ result \in [Tokens -> Results]
  BY ConstantsAssumption DEF IInv, TypeOK, WithinBounds, Tokens
<1>1. ASSUME NEW c \in Clients, NEW n \in 1 .. BatchSize, Accept(c, n)
      PROVE  t \in jobs' /\ result'[t] # "expired" /\ t < next'
  <2>. DEFINE new    == next .. (next + n - 1)
              q      == queue \cup new
              live   == Live(queue) \cup new
              popped == Popped(q, live, bulk', Concurrency - active)
              gone   == Expired(popped, live)
  <2>1. /\ jobs' = jobs \cup new /\ next' = next + n
        /\ result' = [u \in Tokens |-> IF u \in gone THEN "expired" ELSE result[u]]
    BY <1>1 DEF Accept
  <2>2. n \in Nat
    BY ConstantsAssumption
  <2>3. t \notin gone
    <3>1. popped \subseteq q
      BY DEF Popped
    <3>2. t \notin new
      BY <1>0
    <3>. SUFFICES ASSUME t \in popped \ live, phase[t] = "queued" PROVE FALSE
      BY DEF Expired
    <3>3. t \in queue
      BY <3>1, <3>2
    <3>4. t \in Live(queue)
      BY <3>3 DEF Live
    <3>. QED BY <3>4
  <2>. HIDE DEF gone, new
  <2>4. result'[t] = result[t]
    BY <2>1, <2>3
  <2>. QED BY <1>0, <2>1, <2>2, <2>4
<1>2. ASSUME NEW u \in Tokens, Finish(u)
      PROVE  t \in jobs' /\ result'[t] # "expired" /\ t < next'
  <2>. DEFINE live   == Live(queue)
              popped == Popped(queue, live, bulk, Concurrency - active + 1)
              gone   == Expired(popped, live)
  <2>1. /\ jobs' = jobs \ Trimmed(retained + 0, u) /\ next' = next
        /\ result' = [v \in Tokens |->
                        IF v = u THEN "verdict" ELSE IF v \in gone THEN "expired" ELSE result[v]]
    BY <1>2 DEF Finish, Calm
  <2>2. Trimmed(retained + 0, u) = {}
    <3>. SUFFICES ASSUME NEW v \in Trimmed(retained + 0, u) PROVE FALSE
      OBVIOUS
    <3>. DEFINE S == Heavy({w \in (jobs \cap InPhase("complete")) \ {u} : w < v})
    <3>1. retained - Cardinality(S) > MaxResults
      BY <1>0 DEF Trimmed
    <3>2. S \in SUBSET Tokens
      BY DEF IInv, TypeOK, Heavy
    <3>3. Cardinality(S) \in Nat
      BY <3>2, TokensFinite
    <3>. HIDE DEF S
    <3>. QED BY <1>0, <3>1, <3>3
  <2>3. t \notin gone
    <3>1. popped \subseteq queue
      BY DEF Popped
    <3>. SUFFICES ASSUME t \in popped \ live, phase[t] = "queued" PROVE FALSE
      BY DEF Expired
    <3>2. t \in live
      BY <3>1 DEF Live
    <3>. QED BY <3>2
  <2>. HIDE DEF gone
  <2>. QED BY <1>0, <2>1, <2>2, <2>3
<1>3. CASE Sweep
  <2>. DEFINE expired == {u \in jobs : phase[u] = "queued" /\ Old(u)}
              deleted == expired \cup {u \in jobs : phase[u] = "complete" /\ Old(u)}
  <2>1. /\ jobs' = jobs \ deleted /\ next' = next
        /\ result' = [u \in Tokens |-> IF u \in expired THEN "expired" ELSE result[u]]
    BY <1>3 DEF Sweep
  <2>2. t \notin deleted /\ t \notin expired
    OBVIOUS
  <2>. HIDE DEF expired, deleted
  <2>. QED BY <1>0, <2>1, <2>2
<1>. QED BY <1>1, <1>2, <1>3

(* A token that was not given out yet is not touched.                      *)
LEMMA UntouchedStep == ASSUME IInv, Untouched, [Next]_vars PROVE Untouched'
<1>0. /\ next \in Nat /\ result \in [Tokens -> Results] /\ Tokens \subseteq Nat
      /\ \A t \in Tokens : t >= next => t \notin jobs /\ t \notin queue /\ phase[t] = "none"
  BY ConstantsAssumption DEF IInv, TypeOK, Fresh, Tokens
<1>. SUFFICES ASSUME NEW t \in Tokens, t >= next' PROVE age'[t] = 0 /\ result'[t] = "none"
  BY DEF Untouched
<1>1. ASSUME NEW c \in Clients, NEW n \in 1 .. BatchSize, Accept(c, n)
      PROVE  age'[t] = 0 /\ result'[t] = "none"
  <2>. DEFINE new    == next .. (next + n - 1)
              q      == queue \cup new
              live   == Live(queue) \cup new
              popped == Popped(q, live, bulk', Concurrency - active)
              gone   == Expired(popped, live)
  <2>1. /\ age' = age /\ next' = next + n
        /\ result' = [u \in Tokens |-> IF u \in gone THEN "expired" ELSE result[u]]
    BY <1>1 DEF Accept
  <2>2. n \in Nat
    BY ConstantsAssumption
  <2>3. t >= next
    BY <1>0, <2>1, <2>2
  <2>4. t \notin gone
    BY <1>0, <2>3 DEF Expired
  <2>. HIDE DEF gone
  <2>. QED BY <2>1, <2>3, <2>4 DEF Untouched
<1>2. ASSUME NEW u \in Tokens, Finish(u) PROVE age'[t] = 0 /\ result'[t] = "none"
  <2>. DEFINE live   == Live(queue)
              popped == Popped(queue, live, bulk, Concurrency - active + 1)
              gone   == Expired(popped, live)
  <2>1. /\ age' = age /\ next' = next /\ phase[u] = "active"
        /\ result' = [v \in Tokens |->
                        IF v = u THEN "verdict" ELSE IF v \in gone THEN "expired" ELSE result[v]]
    BY <1>2 DEF Finish
  <2>2. t # u /\ t \notin gone
    BY <1>0, <2>1 DEF Expired
  <2>. HIDE DEF gone
  <2>. QED BY <2>1, <2>2 DEF Untouched
<1>3. CASE Sweep
  <2>. DEFINE expired == {u \in jobs : phase[u] = "queued" /\ Old(u)}
  <2>1. /\ age' = age /\ next' = next
        /\ result' = [u \in Tokens |-> IF u \in expired THEN "expired" ELSE result[u]]
    BY <1>3 DEF Sweep
  <2>2. t \notin expired
    BY <1>0, <2>1
  <2>. HIDE DEF expired
  <2>. QED BY <2>1, <2>2 DEF Untouched
<1>4. CASE Tick
  <2>1. next' = next /\ result' = result /\ t \notin jobs \cup queue
    BY <1>0, <1>4 DEF Tick
  <2>2. age'[t] = age[t]
    BY <1>4, <2>1 DEF Tick
  <2>. QED BY <2>1, <2>2 DEF Untouched
<1>5. CASE Restart
  BY <1>5 DEF Restart, Untouched
<1>6. ASSUME NEW c \in Clients, Refuse(c) \/ PollAnswered(c) \/ GiveUp(c)
      PROVE  age'[t] = 0 /\ result'[t] = "none"
  BY <1>6 DEF Refuse, PollAnswered, GiveUp, Returns, Untouched
<1>7. CASE UNCHANGED vars
  BY <1>7 DEF vars, Untouched
<1>. QED BY <1>1, <1>2, <1>3, <1>4, <1>5, <1>6, <1>7 DEF Next, Step

(* A wait, and the jobs that are waited for, grow older alike.             *)
LEMMA PolledStep ==
    ASSUME IInv, Untouched, Calm, NEW c \in Patient, Polled(c), [Next]_vars
    PROVE  Polled(c)'
<1>0. /\ c \in Clients /\ Patience(c) <= Ttl /\ Patience(c) \in Nat /\ Ttl \in Nat /\ next \in Nat
      /\ Patience(c)' = Patience(c)
      /\ jobs \in SUBSET Tokens /\ Tokens \subseteq Nat /\ mine \in [Clients -> SUBSET Tokens]
      /\ pc \in [Clients -> {"idle", "polling", "answered", "refused", "gone"}]
      /\ waits \in [Clients -> Nat] /\ age \in [Tokens -> Nat]
  BY ConstantsAssumption DEF IInv, TypeOK, Patient, Patience, Tokens
<1>. SUFFICES ASSUME pc'[c] = "polling", waits'[c] <= Patience(c), NEW t \in mine'[c]
              PROVE  t < next' /\ t \in jobs' /\ age'[t] = waits'[c] /\ result'[t] # "expired"
  BY <1>0 DEF Polled
(* Whoever was polling before is as young, unless time passes.             *)
<1>1. ASSUME pc[c] = "polling", waits[c] <= Patience(c), t \in mine[c]
      PROVE  /\ t \in Tokens /\ t < next /\ t \in jobs /\ age[t] = waits[c] /\ result[t] # "expired"
             /\ ~Old(t)
  <2>1. t \in Tokens
    BY <1>0, <1>1
  <2>2. t < next /\ t \in jobs /\ age[t] = waits[c] /\ result[t] # "expired"
    BY <1>1 DEF Polled
  <2>3. ~Old(t)
    BY <1>0, <1>1, <2>1, <2>2 DEF Old
  <2>. QED BY <2>1, <2>2, <2>3
<1>2. ASSUME UNCHANGED <<pc, mine, waits, age>>,
             \/ \E u \in Tokens : Finish(u)
             \/ Sweep
      PROVE  t < next' /\ t \in jobs' /\ age'[t] = waits'[c] /\ result'[t] # "expired"
  BY <1>1, <1>2, YoungOnesStay
<1>3. ASSUME NEW d \in Clients, NEW n \in 1 .. BatchSize, Accept(d, n)
      PROVE  t < next' /\ t \in jobs' /\ age'[t] = waits'[c] /\ result'[t] # "expired"
  <2>0. /\ pc[d] # "polling" /\ age' = age /\ next' = next + n /\ n \in Nat
        /\ jobs' = jobs \cup next .. (next + n - 1)
        /\ waits' = [waits EXCEPT ![d] = 0]
    BY <1>3, ConstantsAssumption DEF Accept
  <2>1. CASE c # d
    <3>1. pc'[c] = pc[c] /\ mine'[c] = mine[c] /\ waits'[c] = waits[c]
      BY <1>0, <1>3, <2>1 DEF Accept
    <3>2. pc[c] = "polling" /\ waits[c] <= Patience(c) /\ t \in mine[c]
      BY <3>1
    <3>. QED BY <1>1, <1>3, <2>0, <3>1, <3>2, YoungOnesStay
  <2>2. CASE c = d
    <3>. DEFINE new    == next .. (next + n - 1)
                q      == queue \cup new
                live   == Live(queue) \cup new
                popped == Popped(q, live, bulk', Concurrency - active)
                gone   == Expired(popped, live)
    <3>1. PICK heard : /\ pc' = [pc EXCEPT ![d] = heard]
                       /\ mine' = [mine EXCEPT ![d] = IF heard = "polling" THEN new ELSE {}]
      BY <1>3 DEF Accept
    <3>2. t \in new
      BY <1>0, <2>2, <3>1
    <3>3. t \in Tokens /\ t >= next /\ t < next'
      <4>1. next + n <= LastToken + 1
        BY <1>3 DEF Accept
      <4>2. next \in 1 .. (LastToken + 1) /\ LastToken \in Nat
        BY ConstantsAssumption DEF IInv, TypeOK
      <4>. QED BY <2>0, <3>2, <4>1, <4>2 DEF Tokens
    <3>4. age'[t] = 0 /\ waits'[c] = 0 /\ t \in jobs'
      BY <1>0, <2>0, <2>2, <3>2, <3>3 DEF Untouched
    <3>5. t \notin gone
      BY <3>2 DEF Expired
    <3>6. result' = [u \in Tokens |-> IF u \in gone THEN "expired" ELSE result[u]]
      BY <1>3 DEF Accept
    <3>. HIDE DEF gone
    <3>7. result'[t] = "none"
      BY <3>3, <3>5, <3>6 DEF Untouched
    <3>. QED BY <3>3, <3>4, <3>7
  <2>. QED BY <2>1, <2>2
<1>4. CASE Tick
  <2>1. /\ pc' = pc /\ mine' = mine /\ jobs' = jobs /\ next' = next /\ result' = result
        /\ waits'[c] = AtMost(waits[c], Patience(c) + 1)
    BY <1>0, <1>4 DEF Tick
  <2>2. waits[c] <= Patience(c) /\ waits'[c] = waits[c] + 1
    BY <1>0, <2>1 DEF AtMost
  <2>3. t \in Tokens /\ t < next /\ t \in jobs /\ age[t] = waits[c] /\ result[t] # "expired"
    BY <1>1, <2>1, <2>2
  <2>4. age'[t] = AtMost(age[t], Ttl + 1)
    BY <1>4, <2>3 DEF Tick
  <2>5. age'[t] = age[t] + 1
    BY <1>0, <2>2, <2>3, <2>4 DEF AtMost
  <2>. QED BY <2>1, <2>2, <2>3, <2>5
<1>5. CASE Restart
  BY <1>5 DEF Restart, Calm
<1>6. ASSUME NEW d \in Clients, NEW how \in {"answered", "refused", "gone"}, Returns(d, how)
      PROVE  t < next' /\ t \in jobs' /\ age'[t] = waits'[c] /\ result'[t] # "expired"
  <2>1. c # d
    BY <1>0, <1>6 DEF Returns
  <2>2. /\ pc'[c] = pc[c] /\ mine'[c] = mine[c] /\ waits'[c] = waits[c]
        /\ UNCHANGED <<next, jobs, age, result>>
    BY <1>0, <1>6, <2>1 DEF Returns
  <2>. QED BY <1>1, <2>2
<1>7. CASE UNCHANGED vars
  BY <1>1, <1>7 DEF vars, clientVars
<1>8. ASSUME NEW u \in Tokens, Finish(u) PROVE UNCHANGED <<pc, mine, waits, age>>
  BY <1>8 DEF Finish, clientVars
<1>9. Sweep => UNCHANGED <<pc, mine, waits, age>>
  BY DEF Sweep, clientVars
<1>. QED BY <1>2, <1>3, <1>4, <1>5, <1>6, <1>7, <1>8, <1>9
         DEF Next, Step, Refuse, PollAnswered, GiveUp

LEMMA VerdictInvariant == Spec => []VerdictInv
<1>1. IInv /\ VerdictInv /\ [Next]_vars => VerdictInv'
  <2>. SUFFICES ASSUME IInv, VerdictInv, [Next]_vars PROVE VerdictInv'
    OBVIOUS
  <2>1. faults' = faults
    BY DEF Next, vars
  <2>2. Patient' = Patient
    BY DEF Patient, Patience
  <2>. QED BY <2>1, <2>2, UntouchedStep, PolledStep DEF VerdictInv, Calm
<1>. QED BY <1>1, VerdictInit, Invariance, PTL DEF Spec

(* Who is answered was polling, was still patient, and every job is there. *)
LEMMA AnswersAre ==
    ASSUME IInv, VerdictInv, [Next]_vars, NEW c \in Clients \ Importers, Calm,
           Patience(c) <= Ttl, pc[c] = "polling", pc'[c] = "answered"
    PROVE  \A t \in mine[c] : t \in jobs /\ result[t] = "verdict"
<1>0. pc \in [Clients -> {"idle", "polling", "answered", "refused", "gone"}]
  BY DEF IInv, TypeOK
<1>1. PollAnswered(c)
  <2>1. ASSUME NEW d \in Clients, NEW how \in {"refused", "gone"}, Returns(d, how) PROVE FALSE
    BY <1>0, <2>1 DEF Returns
  <2>2. ASSUME NEW d \in Clients, PollAnswered(d) PROVE d = c
    BY <1>0, <2>2 DEF PollAnswered, Returns
  <2>3. ASSUME NEW d \in Clients, NEW n \in 1 .. BatchSize, Accept(d, n) PROVE FALSE
    BY <1>0, <2>3 DEF Accept
  <2>4. ASSUME NEW t \in Tokens, Finish(t) PROVE FALSE
    BY <2>4 DEF Finish, clientVars
  <2>5. ASSUME Sweep \/ Tick \/ Restart \/ UNCHANGED vars PROVE FALSE
    BY <2>5 DEF Sweep, Tick, Restart, vars, clientVars
  <2>. QED BY <2>1, <2>2, <2>3, <2>4, <2>5 DEF Next, Step, Refuse, GiveUp
<1>2. waits[c] <= Patience(c) /\ \A t \in mine[c] : Settled(t)
  BY <1>1 DEF PollAnswered
<1>3. \A t \in mine[c] : t \in jobs /\ result[t] # "expired"
  BY <1>2 DEF VerdictInv, Patient, Polled
<1>4. \A t \in mine[c] : t \in Tokens /\ result[t] \in Results
  BY <1>3 DEF IInv, TypeOK
<1>. QED BY <1>2, <1>3, <1>4 DEF Settled, Results

(* As long as results are small, the judge stays up and a person is less   *)
(* patient than it is forgetful, every answer that the API takes for       *)
(* verdicts is of jobs that are in the Map and were judged, for any number *)
(* of clients, jobs and workers and any limits.                            *)
THEOREM VerdictsAreTrue == Spec => AnswersAreVerdicts
<1>1. IInv /\ VerdictInv /\ [Next]_vars
        => [\A c \in Clients \ Importers :
              /\ faults \cap {"restart", "heavy"} = {}
              /\ Patience(c) <= Ttl
              /\ pc[c] = "polling" /\ pc'[c] = "answered"
              => \A t \in mine[c] : t \in jobs /\ result[t] = "verdict"]_vars
  BY AnswersAre DEF Calm
<1>. QED BY <1>1, Invariance, VerdictInvariant, PTL DEF Spec, AnswersAreVerdicts

=============================================================================

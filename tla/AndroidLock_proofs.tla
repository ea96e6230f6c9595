------------------------- MODULE AndroidLock_proofs -------------------------
(***************************************************************************)
(* Theorems about AndroidLock, for any number of sessions, of intents not  *)
(* yet delivered and of deaths, whatever faults may happen together, and   *)
(* however many calls of refreshLock overlap.                              *)
(*                                                                         *)
(* The types and the window's lock on disk need no more.  What the lock is *)
(* dropped for, and so the contract of the screen, rests on a message      *)
(* never being older than what it meets: where a release is on its way, or *)
(* an answer "no session", the lock it will meet is that of a session that *)
(* is over, unless a call engaged a lock after the answer was given: the   *)
(* answer was overtaken, and so the release is late.                       *)
(***************************************************************************)
EXTENDS AndroidLock, TLAPS

IsOver(s) == state[s] \in Over

(* The sessions that the phone knows of: on disk, in intents, in answers.  *)
Known ==
    {s \in Sessions :
        \/ stored.sid = s
        \/ \E i \in DOMAIN intents : intents[i] = Engage(s)
        \/ \E k \in Pollers : polls[k] = [at |-> "LOCKED", sid |-> s]}

OneActive == \A s, t \in Sessions : state[s] \in Active /\ state[t] \in Active => s = t

(* The phone hears of a session when it has locked.                        *)
KnownWasLocked == \A s \in Known : state[s] = "LOCKED" \/ IsOver(s)

(* What a release on its way will meet is over: what is stored, and what   *)
(* is engaged before it.                                                   *)
ReleasesAreDue ==
    \A i \in DOMAIN intents :
        intents[i] = Release("prompt") =>
            /\ stored # NoLock => IsOver(stored.sid)
            /\ \A j \in 1 .. i - 1, s \in Sessions : intents[j] = Engage(s) => IsOver(s)

(* While a tearDown is posted, no session is locked.                       *)
PostsAreDue == posted => \A s \in Sessions : state[s] # "LOCKED"

(* While an answer "no session" is unheard that no lock has overtaken, what*)
(* is stored or about to be engaged is over.                               *)
Fresh == {k \in Pollers : polls[k].at = "none" /\ k \notin overtaken}

AnswersAreDue ==
    Fresh # {} =>
        /\ stored # NoLock => IsOver(stored.sid)
        /\ \A i \in DOMAIN intents, s \in Sessions : intents[i] = Engage(s) => IsOver(s)

MessagesInv ==
    /\ OneActive
    /\ KnownWasLocked
    /\ ReleasesAreDue
    /\ PostsAreDue
    /\ AnswersAreDue

(* A window that is up has its lock on disk, and until a boot's broadcast  *)
(* is received that lock is live.                                          *)
WindowInv ==
    /\ up => stored # NoLock
    /\ up /\ booting => IsLive(stored, now)

(* The contract's history has every session whose screen outstayed it.     *)
LapsedInv == up /\ state[stored.sid] # "LOCKED" => stored.sid \in lapsed

----------------------------------------------------------------------------
(* Types.                                                                  *)

Intents == {Release(age) : age \in Ages} \cup {Engage(s) : s \in Sessions}

LEMMA TypeInit == Init => TypeOK
<1>. SUFFICES ASSUME Init PROVE TypeOK
  OBVIOUS
<1>1. intents \in Seq(Intents)
  BY DEF Init
<1>2. stored \in Locks /\ polls \in [Pollers -> {Idle}] /\ deaths \in 0 .. MaxDeaths
  BY ConstantsAssumption DEF Init, Locks
<1>3. state \in [Sessions -> {"none"}] /\ now \in Nat
  BY DEF Init
<1>. QED BY <1>1, <1>2, <1>3 DEF Init, TypeOK, Intents

(* Saving a lock, and taking it down, keep the types of the service.       *)
LEMMA EngageTypes ==
    ASSUME TypeOK, NEW s \in Sessions, EngageLock(s)
    PROVE  stored' \in Locks /\ up' \in BOOLEAN /\ started' \in BOOLEAN /\ stored' # NoLock
<1>1. Saved(s) \in Locks
  BY ConstantsAssumption DEF TypeOK, Saved, Locks
<1>2. Saved(s) # NoLock
  BY ConstantsAssumption DEF Saved, NoLock
<1>. QED BY <1>1, <1>2 DEF EngageLock, TypeOK

LEMMA TearDownTypes ==
    ASSUME TypeOK, NEW age \in Ages, TearDown(age)
    PROVE  /\ stored' = NoLock /\ stored' \in Locks /\ up' = FALSE /\ started' = FALSE
           /\ given' \in {"token", "server", "death", "answer"}
BY DEF TypeOK, TearDown, Locks

(* The kinds of intents.                                                   *)
LEMMA IntentKinds ==
    /\ Ages = {"prompt", "late"}
    /\ \A age \in Ages : /\ Release(age) \in Intents /\ Release(age).action = "RELEASE"
                         /\ Release(age).age = age
    /\ \A s \in Sessions : /\ Engage(s) \in Intents
                           /\ Engage(s).action = "ENGAGE" /\ Engage(s).sid = s
                           /\ \A age \in Ages : Engage(s) # Release(age)
    /\ \A m \in Intents : m.action # "RELEASE" => m.sid \in Sessions /\ m = Engage(m.sid)
    /\ \A m \in Intents : m.action = "RELEASE" => m.age \in Ages /\ m = Release(m.age)
<1>1. ASSUME NEW age \in Ages
      PROVE  /\ Release(age) \in Intents /\ Release(age).action = "RELEASE"
             /\ Release(age).age = age
  BY DEF Release, Intents
<1>2. ASSUME NEW s \in Sessions
      PROVE  /\ Engage(s) \in Intents /\ Engage(s).action = "ENGAGE" /\ Engage(s).sid = s
             /\ \A age \in Ages : Engage(s) # Release(age)
  <2>1. Engage(s).action = "ENGAGE" /\ Engage(s).sid = s /\ Engage(s) \in Intents
    BY DEF Engage, Intents
  <2>. QED BY <1>1, <2>1
<1>3. ASSUME NEW m \in Intents
      PROVE  /\ m.action # "RELEASE" => m.sid \in Sessions /\ m = Engage(m.sid)
             /\ m.action = "RELEASE" => m.age \in Ages /\ m = Release(m.age)
  <2>1. (\E age \in Ages : m = Release(age)) \/ \E s \in Sessions : m = Engage(s)
    BY DEF Intents
  <2>. QED BY <1>1, <1>2, <2>1
<1>. QED BY <1>1, <1>2, <1>3 DEF Ages

(* The first intent is taken, or one is added at the end.                  *)
LEMMA TailOf ==
    ASSUME intents \in Seq(Intents), intents # <<>>
    PROVE  /\ Head(intents) \in Intents /\ Head(intents) = intents[1] /\ 1 \in DOMAIN intents
           /\ Tail(intents) \in Seq(Intents)
           /\ \A i \in DOMAIN Tail(intents) :
                 /\ i \in Nat \ {0} /\ i + 1 \in DOMAIN intents
                 /\ Tail(intents)[i] = intents[i + 1]
OBVIOUS

LEMMA AppendOf ==
    ASSUME intents \in Seq(Intents), NEW m \in Intents
    PROVE  /\ Append(intents, m) \in Seq(Intents)
           /\ Len(intents) + 1 \in DOMAIN Append(intents, m)
           /\ Append(intents, m)[Len(intents) + 1] = m
           /\ \A i \in DOMAIN Append(intents, m) :
                 \/ i \in DOMAIN intents /\ Append(intents, m)[i] = intents[i]
                 \/ i = Len(intents) + 1 /\ Append(intents, m)[i] = m
           /\ \A i \in DOMAIN intents : i \in 1 .. Len(intents)
OBVIOUS

LEMMA AnswerTypes ==
    ASSUME TypeOK, NEW a \in Answers
    PROVE  \/ /\ a = [at |-> "none", sid |-> NoSession]
              /\ \A s \in Sessions : state[s] \notin Active
           \/ /\ a \in [at : Active, sid : Sessions]
              /\ a.at = state[a.sid] /\ state[a.sid] \in Active
BY DEF Answers

LEMMA PollTypes ==
    ASSUME TypeOK, NEW k \in Pollers
    PROVE  /\ polls[k].at = "none" => polls[k] = [at |-> "none", sid |-> NoSession]
           /\ polls[k].at = "LOCKED" => polls[k].sid \in Sessions
                                        /\ polls[k] = [at |-> "LOCKED", sid |-> polls[k].sid]
BY DEF TypeOK, Idle, Asked, Active

LEMMA TypeStep == ASSUME TypeOK, [Next]_vars PROVE TypeOK'
<1>. USE DEF serviceVars, appVars, worldVars
<1>s. intents \in Seq(Intents)
  BY DEF TypeOK, Intents
<1>i. ASSUME UNCHANGED <<now, may, app, polls, overtaken, faults>>, state' = state
      PROVE  /\ state' \in [Sessions -> {"none"} \cup Active \cup Over]
             /\ now' \in Nat /\ may' \in BOOLEAN /\ app' \in {"off", "home", "lock"}
             /\ polls' \in [Pollers -> {Idle, Asked, [at |-> "none", sid |-> NoSession]}
                                       \cup [at : Active, sid : Sessions]]
             /\ faults' \in FaultCases
  BY <1>i DEF TypeOK
<1>n. Next => faults' = faults /\ lapsed' \subseteq Sessions
  BY DEF Next, Note, TypeOK
<1>0. CASE UNCHANGED vars
  BY <1>0 DEF vars, TypeOK
<1>1. CASE StartCommand /\ Next
  <2>0. UNCHANGED <<state, now, may, app, polls, overtaken, restart, booting, deaths>>
        /\ intents' = Tail(intents) /\ intents # <<>>
    BY <1>1 DEF StartCommand
  <2>1. Tail(intents) \in Seq(Intents) /\ Head(intents) \in Intents
    BY <1>s, <2>0, TailOf
  <2>2. CASE Head(intents).action = "RELEASE"
    <3>1. TearDown(Head(intents).age) /\ posted' = FALSE /\ Head(intents).age \in Ages
      BY <1>1, <2>1, <2>2, IntentKinds DEF StartCommand
    <3>. QED BY <1>1, <1>n, <2>0, <2>1, <3>1, TearDownTypes DEF TypeOK, Intents
  <2>3. CASE Head(intents).action # "RELEASE"
    <3>1. Head(intents).sid \in Sessions
      BY <2>1, <2>3, IntentKinds
    <3>2. EngageLock(Head(intents).sid) /\ UNCHANGED <<given, posted>>
      BY <1>1, <2>3 DEF StartCommand
    <3>3. stored' \in Locks /\ up' \in BOOLEAN /\ started' \in BOOLEAN
      BY <3>1, <3>2, EngageTypes
    <3>. QED BY <1>1, <1>n, <2>0, <2>1, <3>2, <3>3 DEF TypeOK, Intents
  <2>. QED BY <2>2, <2>3
<1>2. CASE Restarted /\ Next
  <2>1. stored' \in Locks /\ up' \in BOOLEAN /\ started' \in BOOLEAN
    <3>1. CASE stored = NoLock
      BY <1>2, <3>1 DEF Restarted, TypeOK
    <3>2. CASE stored # NoLock
      <4>1. stored.sid \in Sessions /\ EngageLock(stored.sid)
        BY <1>2, <3>2 DEF Restarted, TypeOK, Locks
      <4>. QED BY <4>1, EngageTypes
    <3>. QED BY <3>1, <3>2
  <2>. QED BY <1>2, <1>n, <2>1 DEF Restarted, TypeOK
<1>3. CASE RunPosted /\ Next
  <2>1. TearDown("prompt")
    BY <1>3 DEF RunPosted
  <2>. QED BY <1>3, <1>n, <2>1, TearDownTypes DEF RunPosted, TypeOK, Ages
<1>4. CASE (Kill \/ Reboot) /\ Next
  <2>1. Die
    BY <1>4 DEF Kill, Reboot
  <2>2. /\ up' = FALSE /\ posted' = FALSE /\ started' = FALSE /\ app' = "off"
        /\ given' \in {"token", "server", "death", "answer"} /\ UNCHANGED <<state, now, may>>
    BY <2>1 DEF Die, TypeOK
  <2>3. deaths' \in 0 .. MaxDeaths
    BY <2>1, ConstantsAssumption DEF Die, TypeOK
  <2>4. polls' \in [Pollers -> {Idle, Asked, [at |-> "none", sid |-> NoSession]}
                               \cup [at : Active, sid : Sessions]]
        /\ overtaken' = {}
    BY <2>1 DEF Die
  <2>5. restart' \in BOOLEAN /\ booting' \in BOOLEAN /\ stored' = stored
    BY <1>4 DEF Kill, Reboot, TypeOK
  <2>6. intents' \in Seq(Intents)
    <3>1. intents' = intents \/ intents' = <<>>
      BY <1>4 DEF Kill, Reboot
    <3>2. <<>> \in Seq(Intents)
      OBVIOUS
    <3>. QED BY <1>s, <3>1, <3>2
  <2>. QED BY <1>4, <1>n, <2>2, <2>3, <2>4, <2>5, <2>6 DEF TypeOK, Intents
<1>5. CASE BootReceived /\ Next
  <2>1. stored' \in Locks
    BY <1>5 DEF BootReceived, TypeOK, Locks
  <2>2. intents' \in Seq(Intents)
    <3>1. intents' = intents \/ (stored # NoLock /\ intents' = Append(intents, Engage(stored.sid)))
      BY <1>5 DEF BootReceived, IsLive
    <3>2. stored # NoLock => Engage(stored.sid) \in Intents
      BY DEF TypeOK, Locks, Intents
    <3>. QED BY <1>s, <3>1, <3>2, AppendOf
  <2>. QED BY <1>5, <1>n, <2>1, <2>2 DEF BootReceived, TypeOK, Intents
<1>6. CASE (Launch \/ Swipe) /\ Next
  BY <1>6, <1>n DEF Launch, Swipe, TypeOK
<1>7. ASSUME NEW k \in Pollers, Ask(k) \/ Answer(k) \/ Fail(k), Next PROVE TypeOK'
  <2>1. polls' \in [Pollers -> {Idle, Asked, [at |-> "none", sid |-> NoSession]}
                               \cup [at : Active, sid : Sessions]]
    <3>1. CASE Ask(k) \/ Fail(k)
      BY <3>1 DEF Ask, Fail, TypeOK
    <3>2. CASE Answer(k)
      <4>1. PICK a \in Answers : polls' = [polls EXCEPT ![k] = a]
        BY <3>2 DEF Answer
      <4>2. a \in {[at |-> "none", sid |-> NoSession]} \cup [at : Active, sid : Sessions]
        BY AnswerTypes
      <4>. QED BY <4>1, <4>2 DEF TypeOK
    <3>. QED BY <1>7, <3>1, <3>2
  <2>3. overtaken' \subseteq {l \in Pollers : polls'[l].at = "none"}
    <3>1. polls[k].at # "none" /\ overtaken' = overtaken
      BY <1>7 DEF Ask, Answer, Fail, Idle, Asked
    <3>2. \A l \in Pollers : l # k => polls'[l] = polls[l]
      BY <1>7 DEF Ask, Answer, Fail, TypeOK
    <3>. QED BY <3>1, <3>2 DEF TypeOK
  <2>2. UNCHANGED <<state, now, may, stored, up, posted, started, restart, booting, intents,
                    deaths, app, given>>
    BY <1>7 DEF Ask, Answer, Fail
  <2>. QED BY <1>7, <1>n, <2>1, <2>2, <2>3 DEF TypeOK
<1>8. ASSUME NEW k \in Pollers, Hear(k), Next PROVE TypeOK'
  <2>1. intents' \in Seq(Intents) /\ app' \in {"off", "home", "lock"}
    <3>1. \/ intents' = intents
          \/ intents' = Append(intents, Release(AgeOf(k)))
          \/ polls[k].at = "LOCKED" /\ intents' = Append(intents, Engage(polls[k].sid))
      BY <1>8 DEF Hear
    <3>2. polls[k].at = "LOCKED" => Engage(polls[k].sid) \in Intents
      BY PollTypes, IntentKinds
    <3>3. intents' \in Seq(Intents)
      <4>1. Release(AgeOf(k)) \in Intents
        BY IntentKinds DEF AgeOf, Ages
      <4>. QED BY <1>s, <3>1, <3>2, <4>1, AppendOf
    <3>4. app' \in {app, ToLock}
      BY <1>8 DEF Hear
    <3>. QED BY <3>3, <3>4 DEF ToLock, TypeOK
  <2>2. polls' \in [Pollers -> {Idle, Asked, [at |-> "none", sid |-> NoSession]}
                               \cup [at : Active, sid : Sessions]]
    BY <1>8 DEF Hear, TypeOK
  <2>3. UNCHANGED <<state, now, may, stored, up, posted, started, restart, booting, deaths, given>>
    BY <1>8 DEF Hear
  <2>4. overtaken' \subseteq {l \in Pollers : polls'[l].at = "none"}
    <3>1. \A l \in Pollers : l # k => polls'[l] = polls[l]
      BY <1>8 DEF Hear, TypeOK
    <3>2. overtaken' \subseteq {l \in Pollers : polls[l].at = "none" /\ l # k}
      BY <1>8 DEF Hear, TypeOK
    <3>. QED BY <3>1, <3>2
  <2>. QED BY <1>8, <1>n, <2>1, <2>2, <2>3, <2>4 DEF TypeOK, Intents
<1>9. ASSUME NEW s \in Sessions, SolveInOverlay(s) \/ Arm(s) \/ Fire(s) \/ End(s), Next
      PROVE  TypeOK'
  <2>1. state' \in [Sessions -> {"none"} \cup Active \cup Over] /\ posted' \in BOOLEAN
    BY <1>9 DEF SolveInOverlay, Arm, Fire, End, TypeOK, Active, Over
  <2>2. UNCHANGED <<now, may, stored, up, started, restart, booting, intents, deaths, app, polls,
                    overtaken, given>>
    BY <1>9 DEF SolveInOverlay, Arm, Fire, End
  <2>. QED BY <1>9, <1>n, <2>1, <2>2 DEF TypeOK
<1>10. ASSUME NEW s \in Sessions, SolveInApp(s), Next PROVE TypeOK'
  <2>1. state' \in [Sessions -> {"none"} \cup Active \cup Over]
    BY <1>10 DEF SolveInApp, TypeOK, Active, Over
  <2>2. intents' \in Seq(Intents)
    BY <1>s, <1>10, AppendOf, IntentKinds DEF SolveInApp
  <2>. QED BY <1>10, <1>n, <2>1, <2>2 DEF SolveInApp, TypeOK, Intents
<1>11. CASE WorldStep /\ Next
  <2>1. now' \in Nat /\ may' \in BOOLEAN /\ UNCHANGED <<state, serviceVars, appVars, given>>
    <3>1. CASE Tick
      BY <3>1 DEF Tick, TypeOK
    <3>2. CASE SetClock
      BY <3>2, ConstantsAssumption DEF SetClock, TypeOK
    <3>3. CASE Permit
      BY <3>3 DEF Permit, TypeOK
    <3>. QED BY <1>11, <3>1, <3>2, <3>3 DEF WorldStep
  <2>. QED BY <1>11, <1>n, <2>1 DEF TypeOK
<1>12. Next => Step
  BY DEF Next
<1>. QED BY <1>0, <1>1, <1>2, <1>3, <1>4, <1>5, <1>6, <1>7, <1>8, <1>9, <1>10, <1>11, <1>12
         DEF Step, ServiceStep, AppStep, SessionStep

(* Every reachable state of the phone is well typed, whatever faults       *)
(* happen: what comes back after a death is a lock of a session or none.   *)
THEOREM TypeCorrect == Spec => []TypeOK
BY TypeInit, TypeStep, PTL DEF Spec

----------------------------------------------------------------------------
(* What is on its way.                                                     *)

LEMMA MessagesInit == Init => MessagesInv
BY ConstantsAssumption
   DEF Init, MessagesInv, OneActive, KnownWasLocked, Known, ReleasesAreDue, PostsAreDue,
       AnswersAreDue, Fresh, NoLock, Idle, Active

(* An ending is final.                                                     *)
LEMMA OverIsFinal ==
    ASSUME TypeOK, [Next]_vars
    PROVE  \A s \in Sessions : IsOver(s) => IsOver(s)'
<1>1. CASE state' = state
  BY <1>1 DEF IsOver
<1>2. ASSUME NEW s \in Sessions,
             SolveInOverlay(s) \/ SolveInApp(s) \/ Arm(s) \/ Fire(s) \/ End(s)
      PROVE  \A t \in Sessions : IsOver(t) => IsOver(t)'
  BY <1>2 DEF SolveInOverlay, SolveInApp, Arm, Fire, End, IsOver, TypeOK, Active, Over
<1>3. ServiceStep => state' = state
  BY DEF ServiceStep, StartCommand, Restarted, RunPosted, Kill, Reboot, Die, BootReceived
<1>4. AppStep => state' = state
  BY DEF AppStep, Launch, Swipe, Ask, Answer, Fail, Hear
<1>5. WorldStep => state' = state
  BY DEF WorldStep, Tick, SetClock, Permit
<1>6. UNCHANGED vars => state' = state
  BY DEF vars
<1>. QED BY <1>1, <1>2, <1>3, <1>4, <1>5, <1>6 DEF Next, Step, SessionStep

(* Where the sessions move and the messages do not, these stay due.        *)
LEMMA SessionsMove ==
    ASSUME TypeOK, MessagesInv, UNCHANGED <<stored, intents, polls, overtaken>>,
           \A s \in Sessions : IsOver(s) => IsOver(s)',
           \A s \in Known : state[s] = "LOCKED" => state'[s] = "LOCKED" \/ IsOver(s)'
    PROVE  KnownWasLocked' /\ ReleasesAreDue' /\ AnswersAreDue'
<1>1. stored # NoLock => stored.sid \in Sessions
  BY DEF TypeOK, Locks
<1>2. KnownWasLocked'
  BY DEF MessagesInv, KnownWasLocked, Known
<1>3. ReleasesAreDue'
  BY <1>1 DEF MessagesInv, ReleasesAreDue
<1>4. AnswersAreDue'
  BY <1>1 DEF MessagesInv, AnswersAreDue, Fresh
<1>. QED BY <1>2, <1>3, <1>4

LEMMA MessagesOfSessions ==
    ASSUME TypeOK, MessagesInv, [Next]_vars, NEW s \in Sessions,
           SolveInOverlay(s) \/ Arm(s) \/ Fire(s) \/ End(s)
    PROVE  MessagesInv'
<1>1. UNCHANGED <<stored, intents, polls, overtaken>>
  BY DEF SolveInOverlay, Arm, Fire, End, serviceVars, appVars
<1>2. \A t \in Sessions : IsOver(t) => IsOver(t)'
  BY OverIsFinal
<1>3. \A t \in Known : state[t] = "LOCKED" => state'[t] = "LOCKED" \/ IsOver(t)'
  BY DEF SolveInOverlay, Arm, Fire, End, IsOver, TypeOK, Active, Over, Known
<1>4. OneActive'
  BY DEF SolveInOverlay, Arm, Fire, End, MessagesInv, OneActive, TypeOK, Active, Over
<1>5. PostsAreDue'
  <2>1. CASE SolveInOverlay(s)
    BY <2>1 DEF SolveInOverlay, MessagesInv, OneActive, PostsAreDue, TypeOK, Active, Over
  <2>2. CASE Fire(s)
    <3>1. posted' = FALSE
      BY <2>2 DEF Fire, InTransit, serviceVars, TypeOK
    <3>. QED BY <3>1 DEF PostsAreDue
  <2>3. CASE Arm(s) \/ End(s)
    BY <2>3 DEF Arm, End, MessagesInv, PostsAreDue, TypeOK, Active, Over, serviceVars
  <2>. QED BY <2>1, <2>2, <2>3
<1>. QED BY <1>1, <1>2, <1>3, <1>4, <1>5, SessionsMove DEF MessagesInv

(* The learner solves in the app: nothing is locked any more, and what is  *)
(* stored or about to be engaged is over.                                  *)
LEMMA MessagesOfSolve ==
    ASSUME TypeOK, MessagesInv, [Next]_vars, NEW s \in Sessions, SolveInApp(s)
    PROVE  MessagesInv'
<1>1. /\ intents \in Seq(Intents) /\ intents' = Append(intents, Release("prompt"))
      /\ UNCHANGED <<stored, polls, posted>>
  BY DEF SolveInApp, TypeOK, Intents
<1>2. \A t \in Sessions : state'[t] # "LOCKED" /\ (state[t] = "LOCKED" => IsOver(t)')
  BY DEF SolveInApp, MessagesInv, OneActive, TypeOK, Active, Over, IsOver
<1>3. \A t \in Known : IsOver(t)'
  BY <1>2, OverIsFinal DEF MessagesInv, KnownWasLocked, Known
<1>4. \A i \in DOMAIN intents' :
         \/ i \in DOMAIN intents /\ intents'[i] = intents[i]
         \/ i = Len(intents) + 1 /\ intents'[i] = Release("prompt")
  BY <1>1, AppendOf, IntentKinds
<1>5. \A i \in DOMAIN intents', t \in Sessions : intents'[i] = Engage(t) => t \in Known
  BY <1>4, IntentKinds DEF Known
<1>6. stored # NoLock => stored.sid \in Known
  BY DEF TypeOK, Locks, Known
<1>7. Known' \subseteq Known
  BY <1>1, <1>5 DEF Known
<1>8. OneActive'
  BY DEF SolveInApp, MessagesInv, OneActive, TypeOK, Active, Over
<1>9. KnownWasLocked'
  BY <1>3, <1>7 DEF KnownWasLocked
<1>10. ReleasesAreDue'
  <2>1. \A i \in DOMAIN intents' : \A j \in 1 .. i - 1 : j \in DOMAIN intents'
    BY <1>1
  <2>. QED BY <1>1, <1>3, <1>5, <1>6, <2>1 DEF ReleasesAreDue
<1>11. PostsAreDue'
  BY <1>2 DEF PostsAreDue
<1>12. AnswersAreDue'
  BY <1>1, <1>3, <1>5, <1>6 DEF AnswersAreDue, Fresh
<1>. QED BY <1>8, <1>9, <1>10, <1>11, <1>12 DEF MessagesInv

(* Where the sessions stand still, OneActive does; and as long as nothing  *)
(* is posted, that stays due.                                              *)
LEMMA SessionsStand ==
    ASSUME MessagesInv, state' = state, posted' => posted
    PROVE  OneActive' /\ PostsAreDue' /\ \A s : IsOver(s)' <=> IsOver(s)
BY DEF MessagesInv, OneActive, PostsAreDue, IsOver

(* What the phone knows is there still, or less of it.                     *)
LEMMA LessIsKnown ==
    ASSUME MessagesInv, state' = state, Known' \subseteq Known
    PROVE  KnownWasLocked'
BY DEF MessagesInv, KnownWasLocked, IsOver

(* Taking the lock down is due to nothing.                                 *)
LEMMA MessagesOfTearDown ==
    ASSUME TypeOK, MessagesInv, stored' = NoLock, UNCHANGED <<state, polls>>,
           posted' => posted, overtaken' = overtaken,
           \/ intents' = intents
           \/ intents # <<>> /\ intents' = Tail(intents)
    PROVE  MessagesInv'
<1>s. intents \in Seq(Intents)
  BY DEF TypeOK, Intents
<1>0. NoLock.sid \notin Sessions
  BY ConstantsAssumption DEF NoLock
<1>1. \A i \in DOMAIN intents', s \in Sessions :
         intents'[i] = Engage(s) => \E j \in DOMAIN intents : intents[j] = Engage(s)
  BY <1>s, TailOf
<1>2. KnownWasLocked'
  <2>1. Known' \subseteq Known
    BY <1>0, <1>1 DEF Known
  <2>. QED BY <2>1, LessIsKnown
<1>3. ReleasesAreDue'
  <2>1. CASE intents' = intents
    BY <2>1 DEF MessagesInv, ReleasesAreDue, IsOver
  <2>2. CASE intents # <<>> /\ intents' = Tail(intents)
    <3>. SUFFICES ASSUME NEW i \in DOMAIN intents', intents'[i] = Release("prompt"),
                         NEW j \in 1 .. i - 1, NEW s \in Sessions, intents'[j] = Engage(s)
                  PROVE  IsOver(s)'
      BY DEF ReleasesAreDue
    <3>1. /\ i + 1 \in DOMAIN intents /\ intents[i + 1] = Release("prompt")
          /\ j + 1 \in 1 .. (i + 1) - 1 /\ intents[j + 1] = Engage(s)
      BY <1>s, <2>2
    <3>. QED BY <3>1 DEF MessagesInv, ReleasesAreDue, IsOver
  <2>. QED BY <2>1, <2>2
<1>4. AnswersAreDue'
  BY <1>1 DEF MessagesInv, AnswersAreDue, IsOver, Fresh
<1>. QED BY <1>2, <1>3, <1>4, SessionsStand DEF MessagesInv

(* An intent of the app to engage is delivered.                            *)
LEMMA MessagesOfEngage ==
    ASSUME TypeOK, MessagesInv, intents # <<>>, intents' = Tail(intents),
           NEW e \in Sessions, Head(intents) = Engage(e), EngageLock(e),
           UNCHANGED <<state, polls, overtaken, posted>>
    PROVE  MessagesInv'
<1>s. intents \in Seq(Intents)
  BY DEF TypeOK, Intents
<1>0. stored'.sid = e
  BY DEF EngageLock, Saved
<1>h. 1 \in DOMAIN intents /\ intents[1] = Engage(e)
  BY <1>s, TailOf
<1>1. \A i \in DOMAIN intents' :
         i \in Nat \ {0} /\ i + 1 \in DOMAIN intents /\ intents'[i] = intents[i + 1]
  BY <1>s, TailOf
<1>2. KnownWasLocked'
  <2>1. Known' \subseteq Known
    BY <1>0, <1>1, <1>h DEF Known
  <2>. QED BY <2>1, LessIsKnown
<1>3. ReleasesAreDue'
  <2>. SUFFICES ASSUME NEW i \in DOMAIN intents', intents'[i] = Release("prompt")
                PROVE  /\ IsOver(e)'
                       /\ \A j \in 1 .. i - 1, s \in Sessions : intents'[j] = Engage(s) => IsOver(s)'
    BY <1>0 DEF ReleasesAreDue, IsOver
  <2>1. i + 1 \in DOMAIN intents /\ intents[i + 1] = Release("prompt") /\ i \in Nat \ {0}
    BY <1>1
  <2>2. 1 \in 1 .. (i + 1) - 1
    BY <2>1
  <2>3. IsOver(e)
    BY <1>h, <2>1, <2>2 DEF MessagesInv, ReleasesAreDue
  <2>4. ASSUME NEW j \in 1 .. i - 1, NEW s \in Sessions, intents'[j] = Engage(s) PROVE IsOver(s)
    <3>1. j + 1 \in 1 .. (i + 1) - 1 /\ intents[j + 1] = Engage(s)
      BY <1>s, <2>1, <2>4
    <3>. QED BY <2>1, <3>1 DEF MessagesInv, ReleasesAreDue
  <2>. QED BY <2>3, <2>4 DEF IsOver
<1>4. AnswersAreDue'
  <2>1. \A i \in DOMAIN intents', s \in Sessions :
           intents'[i] = Engage(s) => \E j \in DOMAIN intents : intents[j] = Engage(s)
    BY <1>1
  <2>. QED BY <1>0, <1>h, <2>1 DEF MessagesInv, AnswersAreDue, IsOver, Fresh
<1>. QED BY <1>2, <1>3, <1>4, SessionsStand DEF MessagesInv

(* Nothing new is known, and the lock on disk is of the same session.      *)
LEMMA MessagesOfNothing ==
    ASSUME TypeOK, MessagesInv, state' = state, posted' => posted,
           stored' = stored \/ (stored'.sid = stored.sid /\ stored # NoLock),
           intents' = intents \/ intents' = <<>>, Fresh' \subseteq Fresh,
           \A k \in Pollers : \/ polls'[k] = polls[k]
                              \/ polls'[k].at \notin {"none", "LOCKED"}
    PROVE  MessagesInv'
<1>1. Known' \subseteq Known
  BY DEF Known
<1>2. ReleasesAreDue'
  BY DEF MessagesInv, ReleasesAreDue, IsOver
<1>3. AnswersAreDue'
  BY DEF MessagesInv, AnswersAreDue, IsOver
<1>. QED BY <1>1, <1>2, <1>3, LessIsKnown, SessionsStand DEF MessagesInv

(* An intent to engage what is known is added, which overtakes every answer*)
(* "no session" that waits to be heard, unless that session is over.       *)
LEMMA MessagesOfRaise ==
    ASSUME TypeOK, MessagesInv, NEW e \in Known, intents' = Append(intents, Engage(e)),
           Fresh' # {} => IsOver(e) /\ Fresh # {},
           UNCHANGED <<state, stored, posted>>,
           \A k \in Pollers : \/ polls'[k] = polls[k]
                              \/ polls'[k].at \notin {"none", "LOCKED"}
    PROVE  MessagesInv'
<1>s. intents \in Seq(Intents) /\ e \in Sessions
  BY DEF TypeOK, Intents, Known
<1>1. \A i \in DOMAIN intents' :
         \/ i \in DOMAIN intents /\ intents'[i] = intents[i]
         \/ i = Len(intents) + 1 /\ intents'[i] = Engage(e)
  BY <1>s, AppendOf, IntentKinds
<1>e. \A s \in Sessions : Engage(s).sid = s /\ Engage(s) # Release("prompt")
  BY IntentKinds
<1>2. KnownWasLocked'
  <2>1. Known' \subseteq Known
    BY <1>1, <1>e, <1>s DEF Known
  <2>. QED BY <2>1, LessIsKnown
<1>3. ReleasesAreDue'
  <2>. SUFFICES ASSUME NEW i \in DOMAIN intents', intents'[i] = Release("prompt")
                PROVE  /\ stored # NoLock => IsOver(stored.sid)
                       /\ \A j \in 1 .. i - 1, s \in Sessions : intents'[j] = Engage(s) => IsOver(s)
    BY DEF ReleasesAreDue, IsOver
  <2>1. i \in DOMAIN intents /\ intents[i] = Release("prompt")
    BY <1>1, <1>e, <1>s
  <2>2. \A j \in 1 .. i - 1 : j \in DOMAIN intents /\ intents'[j] = intents[j]
    BY <1>s, <2>1
  <2>. QED BY <2>1, <2>2 DEF MessagesInv, ReleasesAreDue
<1>4. AnswersAreDue'
  BY <1>1, <1>e, <1>s DEF MessagesInv, AnswersAreDue, IsOver
<1>. QED BY <1>2, <1>3, <1>4, SessionsStand DEF MessagesInv

(* The answer "no session" is heard, and a release is sent: late, if the   *)
(* answer was overtaken.                                                   *)
LEMMA MessagesOfRelease ==
    ASSUME TypeOK, MessagesInv, NEW k \in Pollers, polls[k].at = "none", NEW age \in Ages,
           age = "late" <=> k \in overtaken, Fresh' \subseteq Fresh,
           intents' = Append(intents, Release(age)), UNCHANGED <<state, stored, posted>>,
           \A l \in Pollers : \/ polls'[l] = polls[l]
                              \/ polls'[l].at \notin {"none", "LOCKED"}
    PROVE  MessagesInv'
<1>s. intents \in Seq(Intents)
  BY DEF TypeOK, Intents
<1>1. \A i \in DOMAIN intents' :
         \/ i \in DOMAIN intents /\ intents'[i] = intents[i]
         \/ i = Len(intents) + 1 /\ intents'[i] = Release(age)
  BY <1>s, AppendOf, IntentKinds
<1>2. \A i \in DOMAIN intents', s \in Sessions :
         intents'[i] = Engage(s) => i \in DOMAIN intents /\ intents[i] = Engage(s)
  BY <1>1, IntentKinds
<1>3. age = "prompt" =>
         /\ stored # NoLock => IsOver(stored.sid)
         /\ \A i \in DOMAIN intents, s \in Sessions : intents[i] = Engage(s) => IsOver(s)
  BY DEF MessagesInv, AnswersAreDue, Fresh
<1>4. KnownWasLocked'
  <2>1. Known' \subseteq Known
    BY <1>2 DEF Known
  <2>. QED BY <2>1, LessIsKnown
<1>5. ReleasesAreDue'
  <2>1. \A i \in DOMAIN intents' : \A j \in 1 .. i - 1 : j \in DOMAIN intents'
    BY <1>s
  <2>2. CASE age = "prompt"
    BY <1>2, <1>3, <2>1, <2>2 DEF ReleasesAreDue, IsOver
  <2>3. CASE age = "late"
    <3>1. \A i \in DOMAIN intents' :
             intents'[i] = Release("prompt") => i \in DOMAIN intents /\ intents[i] = Release("prompt")
      BY <1>1, <2>3, IntentKinds
    <3>. QED BY <1>2, <2>1, <3>1 DEF MessagesInv, ReleasesAreDue, IsOver
  <2>. QED BY <2>2, <2>3 DEF Ages
<1>6. AnswersAreDue'
  BY <1>2 DEF MessagesInv, AnswersAreDue, IsOver
<1>. QED BY <1>4, <1>5, <1>6, SessionsStand DEF MessagesInv

(* The server answers: with the session that has locked, or that none has. *)
LEMMA MessagesOfAnswer ==
    ASSUME TypeOK, MessagesInv, NEW k \in Pollers, Answer(k)
    PROVE  MessagesInv'
<1>1. UNCHANGED <<state, stored, intents, posted, overtaken>>
  BY DEF Answer, serviceVars
<1>2. PICK a \in Answers : polls' = [polls EXCEPT ![k] = a]
  BY DEF Answer
<1>3. \A l \in Pollers : polls'[l] = IF l = k THEN a ELSE polls[l]
  BY <1>2 DEF TypeOK
<1>4. CASE a = [at |-> "none", sid |-> NoSession] /\ \A s \in Sessions : state[s] \notin Active
  <2>1. \A s \in Known : IsOver(s)
    <3>1. Known \subseteq Sessions
      BY DEF Known
    <3>. SUFFICES ASSUME NEW s \in Known PROVE IsOver(s)
      OBVIOUS
    <3>2. state[s] # "LOCKED"
      BY <1>4, <3>1 DEF Active
    <3>3. state[s] = "LOCKED" \/ IsOver(s)
      BY DEF MessagesInv, KnownWasLocked
    <3>. QED BY <3>2, <3>3
  <2>2. Known' \subseteq Known
    BY <1>1, <1>3, <1>4 DEF Known
  <2>3. stored # NoLock => stored.sid \in Known
    BY DEF TypeOK, Locks, Known
  <2>4. \A i \in DOMAIN intents, s \in Sessions : intents[i] = Engage(s) => s \in Known
    BY DEF Known
  <2>5. AnswersAreDue'
    BY <1>1, <2>1, <2>3, <2>4 DEF AnswersAreDue, IsOver
  <2>6. ReleasesAreDue'
    BY <1>1 DEF MessagesInv, ReleasesAreDue, IsOver
  <2>. QED BY <1>1, <2>2, <2>5, <2>6, LessIsKnown, SessionsStand DEF MessagesInv
<1>5. CASE a \in [at : Active, sid : Sessions] /\ a.at = state[a.sid]
  <2>1. a.at \in Active /\ a.at # "none" /\ a.sid \in Sessions
    BY <1>5 DEF Active
  <2>2. Known' \subseteq Known \cup {s \in Sessions : state[s] = "LOCKED"}
    <3>1. \A s \in Sessions : a = [at |-> "LOCKED", sid |-> s] => state[s] = "LOCKED"
      BY <1>5
    <3>. QED BY <1>1, <1>3, <3>1 DEF Known
  <2>3. KnownWasLocked'
    BY <1>1, <2>2 DEF MessagesInv, KnownWasLocked, IsOver
  <2>4. AnswersAreDue'
    BY <1>1, <1>3, <2>1 DEF MessagesInv, AnswersAreDue, IsOver, Fresh
  <2>5. ReleasesAreDue'
    BY <1>1 DEF MessagesInv, ReleasesAreDue, IsOver
  <2>. QED BY <1>1, <2>3, <2>4, <2>5, SessionsStand DEF MessagesInv
<1>. QED BY <1>4, <1>5, AnswerTypes

(* A call of refreshLock that hears its answer.                            *)
LEMMA MessagesOfHear ==
    ASSUME TypeOK, MessagesInv, NEW k \in Pollers, Hear(k)
    PROVE  MessagesInv'
<1>1. UNCHANGED <<state, stored, posted>>
  BY DEF Hear
<1>2. polls' = [polls EXCEPT ![k] = Idle] /\ Idle.at \notin {"none", "LOCKED"}
  BY DEF Hear, Idle
<1>3. \A l \in Pollers : polls'[l] = polls[l] \/ polls'[l].at \notin {"none", "LOCKED"}
  BY <1>2 DEF TypeOK
<1>4. Fresh' \subseteq Fresh
  <2>1. CASE polls[k].at = "LOCKED" /\ may
    <3>1. overtaken' = {l \in Pollers : polls[l].at = "none"}
      BY <2>1 DEF Hear
    <3>. QED BY <1>3, <3>1 DEF Fresh
  <2>2. CASE ~(polls[k].at = "LOCKED" /\ may)
    <3>1. overtaken \ {k} \subseteq overtaken'
      BY <2>2 DEF Hear
    <3>2. polls'[k].at # "none"
      BY <1>2 DEF TypeOK
    <3>. QED BY <1>3, <3>1, <3>2 DEF Fresh
  <2>. QED BY <2>1, <2>2
<1>5. CASE intents' = intents
  BY <1>1, <1>3, <1>4, <1>5, MessagesOfNothing
<1>6. CASE polls[k].at = "none" /\ intents' = Append(intents, Release(AgeOf(k)))
  <2>1. AgeOf(k) \in Ages /\ (AgeOf(k) = "late" <=> k \in overtaken)
    BY DEF AgeOf, Ages
  <2>. QED BY <1>1, <1>3, <1>4, <1>6, <2>1, MessagesOfRelease
<1>7. CASE polls[k].at = "LOCKED" /\ may /\ intents' = Append(intents, Engage(polls[k].sid))
  <2>1. polls[k].sid \in Known
    BY <1>7, PollTypes DEF Known
  <2>2. Fresh' = {}
    <3>1. overtaken' = {l \in Pollers : polls[l].at = "none"}
      BY <1>7 DEF Hear
    <3>. QED BY <1>3, <3>1 DEF Fresh
  <2>. QED BY <1>1, <1>3, <1>7, <2>1, <2>2, MessagesOfRaise
<1>8. \/ intents' = intents
      \/ polls[k].at = "none" /\ intents' = Append(intents, Release(AgeOf(k)))
      \/ polls[k].at = "LOCKED" /\ may /\ intents' = Append(intents, Engage(polls[k].sid))
  BY DEF Hear
<1>. QED BY <1>5, <1>6, <1>7, <1>8

LEMMA MessagesOfService ==
    ASSUME TypeOK, MessagesInv, ServiceStep
    PROVE  MessagesInv'
<1>. USE DEF serviceVars, appVars, worldVars
<1>1. CASE StartCommand
  <2>0. /\ intents # <<>> /\ intents' = Tail(intents) /\ UNCHANGED <<state, polls, overtaken>>
        /\ intents \in Seq(Intents)
    BY <1>1 DEF StartCommand, TypeOK, Intents
  <2>1. CASE Head(intents).action = "RELEASE"
    <3>1. stored' = NoLock /\ posted' = FALSE
      BY <1>1, <2>1 DEF StartCommand, TearDown
    <3>. QED BY <2>0, <3>1, MessagesOfTearDown
  <2>2. CASE Head(intents).action # "RELEASE"
    <3>1. Head(intents).sid \in Sessions /\ Head(intents) = Engage(Head(intents).sid)
      BY <2>0, <2>2, TailOf, IntentKinds
    <3>2. EngageLock(Head(intents).sid) /\ posted' = posted
      BY <1>1, <2>2 DEF StartCommand
    <3>. QED BY <2>0, <3>1, <3>2, MessagesOfEngage
  <2>. QED BY <2>1, <2>2
<1>2. CASE Restarted
  <2>1. UNCHANGED <<state, posted, intents, polls, overtaken>> /\ Fresh' = Fresh
    BY <1>2 DEF Restarted, Fresh
  <2>2. stored' = stored \/ (stored'.sid = stored.sid /\ stored # NoLock)
    BY <1>2 DEF Restarted, EngageLock, Saved
  <2>. QED BY <2>1, <2>2, MessagesOfNothing
<1>3. CASE RunPosted
  <2>1. stored' = NoLock /\ posted' = FALSE /\ UNCHANGED <<state, polls, overtaken, intents>>
    BY <1>3 DEF RunPosted, TearDown
  <2>. QED BY <2>1, MessagesOfTearDown
<1>4. CASE Kill \/ Reboot
  <2>1. /\ state' = state /\ posted' = FALSE /\ stored' = stored
        /\ intents' = intents \/ intents' = <<>>
    BY <1>4 DEF Kill, Reboot, Die
  <2>2. \A k \in Pollers : polls'[k] = Idle /\ Idle.at = "idle"
    BY <1>4 DEF Kill, Reboot, Die, Idle
  <2>3. Fresh' = {}
    BY <2>2 DEF Fresh
  <2>. QED BY <2>1, <2>2, <2>3, MessagesOfNothing
<1>5. CASE BootReceived
  <2>0. UNCHANGED <<state, posted, polls, overtaken>> /\ Fresh' = Fresh
    BY <1>5 DEF BootReceived, Fresh
  <2>1. CASE ~IsLive(stored, now)
    <3>1. stored' = NoLock /\ intents' = intents
      BY <1>5, <2>1 DEF BootReceived
    <3>. QED BY <2>0, <3>1, MessagesOfTearDown
  <2>2. CASE IsLive(stored, now) /\ ~may
    <3>1. stored' = stored /\ intents' = intents
      BY <1>5, <2>2 DEF BootReceived
    <3>. QED BY <2>0, <3>1, MessagesOfNothing
  <2>3. CASE IsLive(stored, now) /\ may
    <3>1. stored' = stored /\ intents' = Append(intents, Engage(stored.sid)) /\ stored # NoLock
      BY <1>5, <2>3 DEF BootReceived, IsLive
    <3>2. stored.sid \in Known
      BY <3>1 DEF TypeOK, Locks, Known
    <3>3. Fresh # {} => IsOver(stored.sid)
      BY <3>1 DEF MessagesInv, AnswersAreDue
    <3>. QED BY <2>0, <3>1, <3>2, <3>3, MessagesOfRaise
  <2>. QED BY <2>1, <2>2, <2>3
<1>. QED BY <1>1, <1>2, <1>3, <1>4, <1>5 DEF ServiceStep

LEMMA MessagesOfApp ==
    ASSUME TypeOK, MessagesInv, AppStep
    PROVE  MessagesInv'
<1>. USE DEF serviceVars, appVars, worldVars
<1>1. CASE Launch \/ Swipe
  <2>1. UNCHANGED <<state, posted, stored, intents, polls>> /\ Fresh' = Fresh
    BY <1>1 DEF Launch, Swipe, Fresh
  <2>. QED BY <2>1, MessagesOfNothing
<1>2. ASSUME NEW k \in Pollers, Ask(k) \/ Fail(k) PROVE MessagesInv'
  <2>1. UNCHANGED <<state, posted, stored, intents>>
    BY <1>2 DEF Ask, Fail
  <2>2. polls' = [polls EXCEPT ![k] = Asked] \/ polls' = [polls EXCEPT ![k] = Idle]
    BY <1>2 DEF Ask, Fail
  <2>3. \A l \in Pollers : polls'[l] = polls[l] \/ polls'[l].at \notin {"none", "LOCKED"}
    BY <2>2 DEF TypeOK, Asked, Idle
  <2>4. Fresh' \subseteq Fresh
    BY <1>2, <2>3 DEF Ask, Fail, Fresh
  <2>. QED BY <2>1, <2>3, <2>4, MessagesOfNothing
<1>. QED BY <1>1, <1>2, MessagesOfAnswer, MessagesOfHear DEF AppStep

LEMMA MessagesStep == ASSUME TypeOK, MessagesInv, [Next]_vars PROVE MessagesInv'
<1>1. CASE WorldStep \/ UNCHANGED vars
  <2>1. UNCHANGED <<state, posted, stored, intents, polls>> /\ Fresh' = Fresh
    BY <1>1 DEF WorldStep, Tick, SetClock, Permit, vars, serviceVars, appVars, Fresh
  <2>. QED BY <2>1, MessagesOfNothing
<1>2. CASE SessionStep
  BY <1>2, MessagesOfSessions, MessagesOfSolve DEF SessionStep
<1>. QED BY <1>1, <1>2, MessagesOfService, MessagesOfApp DEF Next, Step

LEMMA MessagesInvariant == Spec => []MessagesInv
<1>1. TypeOK /\ MessagesInv /\ [Next]_vars => MessagesInv'
  BY MessagesStep
<1>. QED BY <1>1, MessagesInit, TypeCorrect, PTL DEF Spec

----------------------------------------------------------------------------
(* The window.                                                             *)

LEMMA WindowInit == Init => WindowInv
BY DEF Init, WindowInv

(* A lock just saved is live.                                              *)
LEMMA SavedIsLive == ASSUME TypeOK, NEW s \in Sessions PROVE Saved(s) # NoLock /\ IsLive(Saved(s), now)
<1>1. Saved(s) # NoLock
  BY ConstantsAssumption DEF Saved, NoLock
<1>2. now \in Nat /\ Life \in Nat /\ Life > 0
  BY ConstantsAssumption DEF TypeOK
<1>3. Saved(s).expiresAt = now + Life /\ Saved(s).engagedAt = now
  BY DEF Saved
<1>. QED BY <1>1, <1>2, <1>3 DEF IsLive

(* Whether a window is up, what is stored, and the time: which steps move  *)
(* them, and how.                                                          *)
LEMMA WindowSteps ==
    ASSUME TypeOK, [Next]_vars
    PROVE  \/ (\E s \in Sessions : EngageLock(s)) /\ UNCHANGED <<state, now, booting, given>>
           \/ /\ \E age \in Ages : TearDown(age) /\ (age = "late" <=> LateRelease)
              /\ UNCHANGED <<state, now, booting>>
           \/ Die /\ stored' = stored /\ UNCHANGED <<state, now>>
           \/ BootReceived
           \/ UNCHANGED <<stored, up, now, booting, given>>
           \/ Settled /\ UNCHANGED <<state, stored, up, booting, given>>
<1>. USE DEF serviceVars, appVars, worldVars
<1>1. CASE StartCommand
  <2>0. intents \in Seq(Intents) /\ intents # <<>> /\ intents' = Tail(intents)
    BY <1>1 DEF StartCommand, TypeOK, Intents
  <2>1. CASE Head(intents).action = "RELEASE"
    <3>. DEFINE age == Head(intents).age
    <3>1. age \in Ages /\ Head(intents) = Release(age)
      BY <2>0, <2>1, TailOf, IntentKinds
    <3>2. TearDown(age) /\ UNCHANGED <<state, now, booting>>
      BY <1>1, <2>1 DEF StartCommand
    <3>. HIDE DEF age
    <3>3. age = "late" <=> LateRelease
      BY <2>0, <3>1, IntentKinds DEF LateRelease
    <3>. QED BY <3>1, <3>2, <3>3
  <2>2. CASE Head(intents).action # "RELEASE"
    <3>1. Head(intents).sid \in Sessions
      BY <2>0, <2>2, TailOf, IntentKinds
    <3>. QED BY <1>1, <2>2, <3>1 DEF StartCommand
  <2>. QED BY <2>1, <2>2
<1>2. CASE Restarted
  <2>1. stored # NoLock => stored.sid \in Sessions
    BY DEF TypeOK, Locks
  <2>. QED BY <1>2, <2>1 DEF Restarted
<1>3. CASE RunPosted
  <2>1. TearDown("prompt") /\ UNCHANGED <<state, now, booting, intents>>
    BY <1>3 DEF RunPosted
  <2>2. ~LateRelease
    <3>1. \A q \in Seq(Intents) : q # <<>> => Tail(q) # q
      OBVIOUS
    <3>. QED BY <2>1, <3>1 DEF LateRelease, TypeOK, Intents
  <2>. QED BY <2>1, <2>2 DEF Ages
<1>4. CASE Kill \/ Reboot
  BY <1>4 DEF Kill, Reboot, Die
<1>5. CASE AppStep
  BY <1>5 DEF AppStep, Launch, Swipe, Ask, Answer, Fail, Hear
<1>6. CASE SessionStep
  BY <1>6 DEF SessionStep, SolveInOverlay, SolveInApp, Arm, Fire, End
<1>7. CASE WorldStep
  BY <1>7 DEF WorldStep, Tick, SetClock, Permit
<1>8. CASE UNCHANGED vars
  BY <1>8 DEF vars
<1>. QED BY <1>1, <1>2, <1>3, <1>4, <1>5, <1>6, <1>7, <1>8 DEF Next, Step, ServiceStep

LEMMA WindowStep == ASSUME TypeOK, WindowInv, [Next]_vars PROVE WindowInv'
<1>1. ASSUME NEW s \in Sessions, EngageLock(s), UNCHANGED <<now, booting>> PROVE WindowInv'
  <2>1. stored' = Saved(s)
    BY <1>1 DEF EngageLock
  <2>. QED BY <1>1, <2>1, SavedIsLive DEF WindowInv, IsLive
<1>2. CASE Die \/ \E age \in Ages : TearDown(age)
  BY <1>2 DEF TearDown, Die, WindowInv
<1>3. CASE BootReceived
  BY <1>3 DEF BootReceived, WindowInv, worldVars
<1>4. CASE UNCHANGED <<stored, up, now, booting>>
  BY <1>4 DEF WindowInv, IsLive
<1>5. CASE Settled /\ UNCHANGED <<stored, up, booting>>
  BY <1>5 DEF WindowInv, Settled
<1>. QED BY <1>1, <1>2, <1>3, <1>4, <1>5, WindowSteps

LEMMA WindowInvariant == Spec => []WindowInv
<1>1. TypeOK /\ WindowInv /\ [Next]_vars => WindowInv'
  BY WindowStep
<1>. QED BY <1>1, WindowInit, TypeCorrect, PTL DEF Spec

(* A lock that is taken down is that of a session that is over, or a late  *)
(* release takes it.                                                       *)
LEMMA WhoTearsDown ==
    ASSUME TypeOK, MessagesInv, [Next]_vars, stored # NoLock, stored' = NoLock, ~BootReceived
    PROVE  IsOver(stored.sid) \/ LateRelease
<1>0. stored.sid \in Known /\ stored.sid \in Sessions
  BY DEF TypeOK, Locks, Known
<1>s. \A s \in Sessions : Saved(s) # NoLock
  BY ConstantsAssumption DEF Saved, NoLock
<1>1. CASE StartCommand
  <2>0. intents \in Seq(Intents) /\ intents # <<>>
    BY <1>1 DEF StartCommand, TypeOK, Intents
  <2>1. CASE Head(intents).action = "RELEASE"
    <3>1. /\ 1 \in DOMAIN intents /\ intents[1] = Head(intents) /\ intents' = Tail(intents)
          /\ intents[1] = Release("prompt") \/ intents[1] = Release("late")
      BY <1>1, <2>0, <2>1, TailOf, IntentKinds DEF StartCommand
    <3>. QED BY <2>0, <3>1 DEF MessagesInv, ReleasesAreDue, LateRelease
  <2>2. CASE Head(intents).action # "RELEASE"
    <3>1. Head(intents).sid \in Sessions
      BY <2>0, <2>2, TailOf, IntentKinds
    <3>2. EngageLock(Head(intents).sid)
      BY <1>1, <2>2 DEF StartCommand
    <3>. QED BY <1>s, <3>1, <3>2 DEF EngageLock
  <2>. QED BY <2>1, <2>2
<1>2. CASE Restarted
  BY <1>0, <1>2, <1>s DEF Restarted, EngageLock
<1>3. CASE RunPosted
  <2>1. \A s \in Sessions : state[s] # "LOCKED"
    BY <1>3 DEF RunPosted, MessagesInv, PostsAreDue
  <2>. QED BY <1>0, <2>1 DEF MessagesInv, KnownWasLocked
<1>4. stored' # stored
  OBVIOUS
<1>5. CASE Kill \/ Reboot
  BY <1>4, <1>5 DEF Kill, Reboot
<1>6. CASE AppStep
  BY <1>4, <1>6 DEF AppStep, Launch, Swipe, Ask, Answer, Fail, Hear, serviceVars
<1>7. CASE SessionStep
  BY <1>4, <1>7 DEF SessionStep, SolveInOverlay, SolveInApp, Arm, Fire, End, serviceVars
<1>8. CASE WorldStep
  BY <1>4, <1>8 DEF WorldStep, Tick, SetClock, Permit, serviceVars
<1>9. CASE UNCHANGED vars
  BY <1>4, <1>9 DEF vars, serviceVars
<1>. QED BY <1>1, <1>2, <1>3, <1>5, <1>6, <1>7, <1>8, <1>9 DEF Next, Step, ServiceStep

(* What clears the lock on disk takes the window, and the lock goes only   *)
(* when its session is over, it is no longer live, or the answer was       *)
(* overtaken that asked for its release: neither a death, a reboot, an     *)
(* update nor a failed request is an unlock, for any number of sessions    *)
(* and of overlapping calls, and whatever the faults.                      *)
THEOREM DiskKept == Spec => KeptOnDisk
<1>1. ASSUME TypeOK, MessagesInv, [Next]_vars, stored # NoLock, stored' = NoLock
      PROVE  state[stored.sid] \in Over \/ ~IsLive(stored, now) \/ LateRelease
  <2>2. CASE ~BootReceived
    BY <1>1, <2>2, WhoTearsDown DEF IsOver
  <2>3. CASE BootReceived
    BY <1>1, <2>3 DEF BootReceived
  <2>. QED BY <2>2, <2>3
<1>2. TypeOK /\ MessagesInv /\ WindowInv' /\ [Next]_vars
        => [/\ up' => stored' # NoLock
            /\ stored # NoLock /\ stored' = NoLock =>
                  state[stored.sid] \in Over \/ ~IsLive(stored, now) \/ LateRelease]_vars
  BY <1>1 DEF WindowInv
<1>. QED BY <1>2, TypeCorrect, MessagesInvariant, WindowInvariant, PTL DEF Spec, KeptOnDisk

----------------------------------------------------------------------------
(* The contract of the screen.                                             *)

LEMMA LapsedStep == ASSUME TypeOK, LapsedInv, WindowInv', [Next]_vars PROVE LapsedInv'
<1>1. CASE Next
  <2>. SUFFICES ASSUME up', state'[stored'.sid] # "LOCKED" PROVE stored'.sid \in lapsed'
    BY DEF LapsedInv
  <2>1. stored'.sid \in Sessions /\ Screen' = stored'.sid
    BY TypeStep DEF TypeOK, Locks, WindowInv, Screen
  <2>. QED BY <1>1, <2>1 DEF Next, Note
<1>2. CASE UNCHANGED vars
  BY <1>2 DEF vars, serviceVars, LapsedInv
<1>. QED BY <1>1, <1>2

LEMMA LapsedInvariant == Spec => []LapsedInv
<1>1. Init => LapsedInv
  BY DEF Init, LapsedInv
<1>2. TypeOK /\ LapsedInv /\ WindowInv' /\ [Next]_vars => LapsedInv'
  BY LapsedStep
<1>. QED BY <1>1, <1>2, TypeCorrect, WindowInvariant, PTL DEF Spec

LEMMA ContractInit == Init => Contract!Init
BY DEF Init, Contract!Init, standing, Screen

(* The sessions go the contract's way.                                     *)
LEMMA SessionsProceed ==
    ASSUME TypeOK, [Next]_vars
    PROVE  /\ standing' \in [Sessions -> Contract!Standings]
           /\ \A s \in Sessions : standing'[s] = standing[s]
                                  \/ <<standing[s], standing'[s]>> \in Contract!Onward
<1>1. standing' \in [Sessions -> Contract!Standings]
  BY DEF standing, Contract!Standings
<1>2. state' = state => \A t \in Sessions : standing'[t] = standing[t]
  BY DEF standing
<1>3. ASSUME NEW s \in Sessions,
             SolveInOverlay(s) \/ SolveInApp(s) \/ Arm(s) \/ Fire(s) \/ End(s),
             NEW t \in Sessions
      PROVE  standing'[t] = standing[t] \/ <<standing[t], standing'[t]>> \in Contract!Onward
  BY <1>3 DEF SolveInOverlay, SolveInApp, Arm, Fire, End, standing, Contract!Onward,
              TypeOK, Active, Over
<1>4. SessionStep \/ state' = state
  BY DEF Next, Step, ServiceStep, StartCommand, Restarted, RunPosted, Kill, Reboot, Die,
         BootReceived, AppStep, Launch, Swipe, Ask, Answer, Fail, Hear, WorldStep, Tick,
         SetClock, Permit, vars
<1>. QED BY <1>1, <1>2, <1>3, <1>4 DEF SessionStep

(* Every step maps to a step of the contract, or leaves its state alone.   *)
LEMMA ContractStep ==
    ASSUME TypeOK, MessagesInv, WindowInv, WindowInv', LapsedInv, [Next]_vars
    PROVE  [Contract!Next]_(Contract!vars)
<1>1. CASE UNCHANGED vars
  BY <1>1 DEF vars, serviceVars, Contract!vars, standing, Screen
<1>2. CASE Next
  <2>1. lapsed' = lapsed \cup {s \in Sessions : Screen' = s /\ standing'[s] # "locked"}
    <3>1. \A s \in Sessions : standing'[s] # "locked" <=> state'[s] # "LOCKED"
      BY DEF standing
    <3>. QED BY <1>2, <3>1 DEF Next, Note
  <2>2. ASSUME UNCHANGED <<Screen, given>> PROVE Contract!Next
    <3>1. Contract!Proceed
      BY <2>2, SessionsProceed DEF Contract!Proceed
    <3>. QED BY <2>1, <3>1 DEF Contract!Next
  <2>3. ASSUME state' = state, given' = given, NEW s \in Sessions, Screen' = s
        PROVE  Contract!Next
    <3>1. Contract!Cover(s)
      BY <2>3 DEF Contract!Cover, standing
    <3>. QED BY <2>1, <3>1 DEF Contract!Next
  <2>4. ASSUME state' = state, up, Screen' = NoSession, NEW why \in {"token", "server", "death", "answer"}, given' = why,
               Contract!Excused(Screen, why)
        PROVE  Contract!Next
    <3>1. Screen # NoSession
      BY <2>4, ConstantsAssumption DEF Screen, WindowInv, TypeOK, Locks
    <3>2. Contract!GiveBack(why)
      BY <2>4, <3>1 DEF Contract!GiveBack, standing
    <3>. QED BY <2>1, <3>2 DEF Contract!Next
  <2>5. ASSUME NEW s \in Sessions, EngageLock(s), UNCHANGED <<state, given>>
        PROVE  Contract!Next
    <3>1. CASE up'
      <4>1. Screen' = s
        BY <2>5, <3>1 DEF EngageLock, Saved, Screen
      <4>. QED BY <2>3, <2>5, <4>1
    <3>2. CASE ~up'
      <4>1. ~up
        BY <2>5, <3>2 DEF EngageLock
      <4>. QED BY <2>2, <2>5, <3>2, <4>1 DEF Screen
    <3>. QED BY <3>1, <3>2
  <2>6. ASSUME NEW age \in Ages, TearDown(age), age = "late" <=> LateRelease, state' = state
        PROVE  Contract!Next
    <3>1. CASE ~up
      BY <2>2, <2>6, <3>1 DEF TearDown, Screen
    <3>2. CASE up
      <4>1. Screen = stored.sid /\ stored # NoLock /\ stored.sid \in Sessions /\ Screen' = NoSession
        BY <2>6, <3>2 DEF Screen, WindowInv, TypeOK, Locks, TearDown
      <4>2. age # "late" => IsOver(stored.sid)
        <5>1. ~BootReceived
          BY <2>6, <3>2 DEF BootReceived, TearDown
        <5>. QED BY <2>6, <4>1, <5>1, WhoTearsDown DEF TearDown
      <4>3. given' = IF age = "late" THEN "answer"
                     ELSE IF state[stored.sid] = "UNLOCKED" THEN "token" ELSE "server"
        BY <2>6, <3>2 DEF TearDown
      <4>4. CASE age = "late"
        <5>1. Contract!Excused(Screen, "answer") /\ given' = "answer"
          BY <4>3, <4>4 DEF Contract!Excused
        <5>. QED BY <2>4, <2>6, <3>2, <4>1, <5>1
      <4>5. CASE age # "late" /\ state[stored.sid] = "UNLOCKED"
        <5>1. standing[stored.sid] = "solved" /\ given' = "token"
          BY <4>1, <4>3, <4>5 DEF standing
        <5>2. Contract!Excused(Screen, "token")
          BY <4>1, <5>1 DEF Contract!Excused
        <5>. QED BY <2>4, <2>6, <3>2, <4>1, <5>1, <5>2
      <4>6. CASE age # "late" /\ state[stored.sid] # "UNLOCKED"
        <5>1. stored.sid \in lapsed /\ given' = "server"
          BY <3>2, <4>2, <4>3, <4>6 DEF LapsedInv, IsOver, Over
        <5>2. Contract!Excused(Screen, "server")
          BY <4>1, <5>1 DEF Contract!Excused
        <5>. QED BY <2>4, <2>6, <3>2, <4>1, <5>1, <5>2
      <4>. QED BY <4>4, <4>5, <4>6
    <3>. QED BY <3>1, <3>2
  <2>7. CASE Die /\ state' = state
    <3>1. CASE ~up
      BY <2>2, <2>7, <3>1 DEF Die, Screen
    <3>2. CASE up
      <4>1. Screen' = NoSession /\ given' = "death"
        BY <2>7, <3>2 DEF Die, Screen
      <4>2. Contract!Excused(Screen, "death")
        BY DEF Contract!Excused
      <4>. QED BY <2>4, <2>7, <3>2, <4>1, <4>2
    <3>. QED BY <3>1, <3>2
  <2>8. CASE BootReceived
    <3>1. UNCHANGED <<up, given>> /\ (up => stored' = stored)
      BY <2>8 DEF BootReceived, WindowInv
    <3>. QED BY <2>2, <3>1 DEF Screen
  <2>9. CASE UNCHANGED <<stored, up, given>>
    BY <2>2, <2>9 DEF Screen
  <2>. QED BY <2>5, <2>6, <2>7, <2>8, <2>9, WindowSteps
<1>. QED BY <1>1, <1>2

(* The service, the app and their messages give the screen back only as    *)
(* the contract of the desktop shell allows: for a solve, because the      *)
(* server no longer held the session locked while its screen was covered,  *)
(* or by a death; or for an answer that a lock overtook.                   *)
THEOREM Refinement == Spec => ImplementsScreenContract
<1>1. TypeOK /\ MessagesInv /\ WindowInv /\ WindowInv' /\ LapsedInv /\ [Next]_vars
        => [Contract!Next]_(Contract!vars)
  BY ContractStep
<1>. QED BY <1>1, ContractInit, TypeCorrect, MessagesInvariant, WindowInvariant, LapsedInvariant, PTL
         DEF Spec, ImplementsScreenContract, Contract!Spec

=============================================================================

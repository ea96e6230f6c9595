---------------------------- MODULE Timer_proofs ---------------------------
(***************************************************************************)
(* Theorems about the timer: about Countdown, for any number of requests,  *)
(* any countdown and any cuts, and about TimerHours, for a day of any      *)
(* length, any windows and any patches.                                    *)
(*                                                                         *)
(* The countdown's inductive invariant says what the guards of the three   *)
(* updates rest on: a resume whose pause is still on has read the deadline *)
(* the row still has, because a paused deadline moves only when the pause  *)
(* ends and no later pause carries the same stamp.                         *)
(*                                                                         *)
(* The hours are arithmetic on the week: of the seven days, only today and *)
(* yesterday can have a window that is open.                               *)
(*                                                                         *)
(* The screen is taken a field at a time: one that nothing has put in doubt*)
(* is in one save at most, and is as stored but for what that save does.   *)
(***************************************************************************)
EXTENDS Countdown, TimerHours, TLAPS

(* What a request in flight holds: a resume read a pause; a request that   *)
(* is not in flight read no clock; and no clock it read is ahead.          *)
LocalsInv ==
    \A c \in Clients :
        /\ op[c] = "resume" => seenPaused[c] \in stamps
        /\ op[c] = "none" => clock[c] = NoTime
        /\ clock[c] # NoTime => clock[c] <= now
        /\ clock[c] # NoTime /\ op[c] = "resume" => seenPaused[c] <= clock[c]

StampsInv ==
    /\ pausedAt # NoTime => pausedAt \in stamps
    /\ \A t \in stamps : t <= now

(* The pause a resume read is still on only with the deadline it read.     *)
PauseKeepsDeadline ==
    \A c \in Clients :
        op[c] = "resume" /\ pausedAt = seenPaused[c] => fireAt = seenFire[c]

Landed == state = "LOCKED" => pausedAt = NoTime /\ fireAt <= now

IInv ==
    /\ TypeOK
    /\ LocalsInv
    /\ StampsInv
    /\ PauseKeepsDeadline
    /\ DeadlineAddsUp
    /\ Landed

LEMMA InitIInv == Init => IInv
BY ConstantsAssumption DEF Init, IInv, TypeOK, LocalsInv, StampsInv,
    PauseKeepsDeadline, DeadlineAddsUp, Landed, NoTime, Times, Ops

(* Answering a request leaves the slots' locals well typed.                *)
LEMMA AnsweredType ==
    ASSUME TypeOK, NEW c \in Clients, Answered(c)
    PROVE  /\ op' \in [Clients -> Ops \cup {"none"}]
           /\ seenFire' \in [Clients -> Int]
           /\ seenPaused' \in [Clients -> Times \cup {NoTime}]
           /\ clock' \in [Clients -> Times \cup {NoTime}]
           /\ now' = now
BY DEF TypeOK, Answered

(* The three updates keep the type invariant.                              *)
LEMMA WriteType ==
    ASSUME TypeOK, LocalsInv, NEW c \in Clients,
           \/ PauseWrite(c)
           \/ ResumeWrite(c)
           \/ \E cut \in Cuts : ShortenWrite(c, cut)
    PROVE  TypeOK'
<1>. USE ConstantsAssumption DEF NoTime, Times, TypeOK
<1>1. /\ Answered(c)
      /\ clock[c] \in Times
      /\ seenFire[c] \in Int
      /\ op[c] = "resume" => seenPaused[c] \in Times
  BY DEF PauseWrite, ResumeWrite, ShortenWrite, Writes, LocalsInv
<1>2. CASE PauseWrite(c)
  BY <1>1, <1>2, AnsweredType DEF PauseWrite
<1>3. CASE ResumeWrite(c)
  <2>1. fireAt' \in Int /\ pausedAt' \in Times \cup {NoTime} /\ given' \in Int
    BY <1>1, <1>3 DEF ResumeWrite, Writes
  <2>2. credited' \subseteq Times
    <3>1. credited' \in {credited, credited \cup (seenPaused[c] .. clock[c] - 1)}
      BY <1>3 DEF ResumeWrite
    <3>2. seenPaused[c] .. clock[c] - 1 \subseteq Times
      BY <1>1, <1>3 DEF ResumeWrite, Writes
    <3>. QED
      BY <3>1, <3>2
  <2>3. UNCHANGED <<state, stamps, taken>>
    BY <1>3 DEF ResumeWrite
  <2>. QED
    BY <1>1, <2>1, <2>2, <2>3, AnsweredType
<1>4. ASSUME NEW cut \in Cuts, ShortenWrite(c, cut)
      PROVE  TypeOK'
  <2>1. fireAt' \in Int /\ taken' \in Int
    BY <1>1, <1>4 DEF ShortenWrite
  <2>2. UNCHANGED <<state, pausedAt, stamps, credited, given>>
    BY <1>4 DEF ShortenWrite
  <2>. QED
    BY <1>1, <2>1, <2>2, AnsweredType
<1>. QED
  BY <1>2, <1>3, <1>4

(* One step per action; each keeps every conjunct.                         *)
LEMMA StepIInv == IInv /\ [Next]_vars => IInv'
<1>. SUFFICES ASSUME IInv, [Next]_vars
              PROVE  IInv'
  OBVIOUS
<1>. USE ConstantsAssumption
     DEF IInv, TypeOK, LocalsInv, StampsInv, PauseKeepsDeadline,
         DeadlineAddsUp, Landed, NoTime, Times, Ops,
         rowVars, localVars, historyVars
<1>1. ASSUME NEW c \in Clients, NEW o \in Ops, Read(c, o)
      PROVE  IInv'
  BY <1>1 DEF Read, Allowed
<1>2. ASSUME NEW c \in Clients, ReadClock(c)
      PROVE  IInv'
  BY <1>2 DEF ReadClock
<1>3. ASSUME NEW c \in Clients, PauseWrite(c)
      PROVE  IInv'
  <2>. USE <1>3 DEF PauseWrite, Writes, Answered
  <2>1. clock[c] \in Times /\ clock[c] <= now
    OBVIOUS
  <2>2. CASE Pausable
    <3>. USE <2>1, <2>2 DEF Pausable
    <3>1. TypeOK'
      BY WriteType
    <3>2. LocalsInv'
      OBVIOUS
    <3>3. StampsInv' /\ DeadlineAddsUp' /\ Landed'
      OBVIOUS
    <3>4. PauseKeepsDeadline'
      OBVIOUS
    <3>. QED
      BY <3>1, <3>2, <3>3, <3>4
  <2>3. CASE ~Pausable
    <3>. USE <2>3
    <3>1. TypeOK'
      BY WriteType
    <3>2. LocalsInv'
      OBVIOUS
    <3>3. StampsInv' /\ DeadlineAddsUp' /\ Landed'
      <4>. UNCHANGED <<now, rowVars, historyVars>>
        BY ONLY <1>3, <2>3 DEF PauseWrite, Answered, rowVars, historyVars
      <4>1. StampsInv'
        BY ONLY StampsInv, UNCHANGED <<now, rowVars, historyVars>>
        DEF StampsInv, rowVars, historyVars
      <4>2. DeadlineAddsUp' /\ Landed'
        BY ONLY DeadlineAddsUp, Landed, UNCHANGED <<now, rowVars, historyVars>>
        DEF DeadlineAddsUp, Landed, rowVars, historyVars
      <4>. QED
        BY <4>1, <4>2
    <3>4. PauseKeepsDeadline'
      OBVIOUS
    <3>. QED
      BY <3>1, <3>2, <3>3, <3>4
  <2>. QED
    BY <2>2, <2>3
<1>4. ASSUME NEW c \in Clients, ResumeWrite(c)
      PROVE  IInv'
  <2>. USE <1>4 DEF ResumeWrite, Writes, Answered
  <2>1. /\ clock[c] \in Times /\ seenPaused[c] \in Times
        /\ seenPaused[c] <= clock[c]
    OBVIOUS
  <2>2. CASE SamePause(c)
    <3>. USE <2>1, <2>2 DEF SamePause
    <3>1. TypeOK'
      BY WriteType
    <3>2. LocalsInv' /\ StampsInv' /\ PauseKeepsDeadline'
      OBVIOUS
    <3>3. DeadlineAddsUp' /\ Landed'
      OBVIOUS
    <3>. QED
      BY <3>1, <3>2, <3>3
  <2>3. CASE ~SamePause(c)
    <3>. USE <2>3
    <3>1. TypeOK'
      BY WriteType
    <3>2. LocalsInv'
      OBVIOUS
    <3>3. StampsInv' /\ DeadlineAddsUp' /\ Landed'
      OBVIOUS
    <3>4. PauseKeepsDeadline'
      OBVIOUS
    <3>. QED
      BY <3>1, <3>2, <3>3, <3>4
  <2>. QED
    BY <2>2, <2>3
<1>5. ASSUME NEW c \in Clients, NEW cut \in Cuts, ShortenWrite(c, cut)
      PROVE  IInv'
  BY <1>5 DEF ShortenWrite, Writes, SameDeadline, Answered
<1>6. CASE Engage
  BY <1>6 DEF Engage
<1>7. CASE End
  BY <1>7 DEF End
<1>8. CASE Tick
  BY <1>8 DEF Tick
<1>9. CASE UNCHANGED vars
  BY <1>9 DEF vars
<1>. QED
  BY <1>1, <1>2, <1>3, <1>4, <1>5, <1>6, <1>7, <1>8, <1>9
  DEF Next, ClientStep

LEMMA Invariance == Spec => []IInv
<1>. QED
  BY InitIInv, StepIInv, PTL DEF Spec

(* Whatever requests interleave, the deadline is the length armed, plus    *)
(* what the resumes gave back, less what the shortens took off: no pause,  *)
(* resume or shorten is lost or applied twice (routes/lock.ts).            *)
THEOREM DeadlineCorrect == Spec => []DeadlineAddsUp
<1>1. IInv => DeadlineAddsUp
  BY DEF IInv
<1>. QED
  BY <1>1, Invariance, PTL

(* A lock lands only on a countdown that runs and has run out by that      *)
(* account, and no late request pauses it afterwards.                      *)
THEOREM LocksOwed == Spec => []LocksOnlyWhenOwed
<1>1. IInv => LocksOnlyWhenOwed
  BY DEF IInv, Landed, DeadlineAddsUp, LocksOnlyWhenOwed
<1>. QED
  BY <1>1, Invariance, PTL

(* Both, in every reachable state.                                         *)
THEOREM CountdownCorrect == Spec => []CountdownKept
BY DeadlineCorrect, LocksOwed, PTL DEF CountdownKept

(* A countdown that has run out stays so until it locks, ends or is        *)
(* paused, which LockSession takes for granted of it.                      *)
THEOREM DueCorrect == Spec => DueStaysDue
<1>1. IInv /\ [Next]_vars
        => [Due => Due' \/ state' # "ARMED" \/ pausedAt' # NoTime]_vars
  <2>. SUFFICES ASSUME IInv, Next, Due
                PROVE  Due' \/ state' # "ARMED" \/ pausedAt' # NoTime
    OBVIOUS
  <2>. USE ConstantsAssumption
       DEF IInv, TypeOK, LocalsInv, Due, NoTime, Times, rowVars
  <2>1. ASSUME NEW c \in Clients, NEW o \in Ops, Read(c, o)
        PROVE  Due'
    BY <2>1 DEF Read
  <2>2. ASSUME NEW c \in Clients, ReadClock(c)
        PROVE  Due'
    BY <2>2 DEF ReadClock
  <2>3. ASSUME NEW c \in Clients, PauseWrite(c)
        PROVE  pausedAt' # NoTime
    BY <2>3 DEF PauseWrite, Writes, Pausable
  <2>4. ASSUME NEW c \in Clients, ResumeWrite(c)
        PROVE  Due'
    BY <2>4 DEF ResumeWrite, Writes, SamePause, Answered, StampsInv
  <2>5. ASSUME NEW c \in Clients, NEW cut \in Cuts, ShortenWrite(c, cut)
        PROVE  Due'
    BY <2>5 DEF ShortenWrite, Writes, SameDeadline, Answered
  <2>6. ASSUME Engage \/ End
        PROVE  state' # "ARMED"
    BY <2>6 DEF Engage, End
  <2>7. ASSUME Tick
        PROVE  Due'
    BY <2>7 DEF Tick
  <2>. QED
    BY <2>1, <2>2, <2>3, <2>4, <2>5, <2>6, <2>7 DEF Next, ClientStep
<1>. QED
  BY <1>1, Invariance, PTL DEF Spec, DueStaysDue


----------------------------------------------------------------------------
(* TimerHours.  What the settings hold, and what the screen's requests are.*)
ConfigTyped ==
    /\ config.mask \subseteq 0 .. 6
    /\ config.from \in 0 .. Day /\ config.to \in 0 .. Day

SavesTyped ==
    /\ DOMAIN saves = Saves
    /\ \A s \in Saves :
          /\ DOMAIN saves[s] = {"stage", "patch", "previous"}
          /\ saves[s].stage \in {"idle", "sent", "ok", "refused", "late"}
          /\ IF saves[s].stage = "idle" THEN DOMAIN saves[s].patch = {}
             ELSE saves[s].patch \in ScreenPatches

HoursInv ==
    /\ localTime \in 0 .. Week - 1
    /\ ConfigTyped
    /\ SavesTyped

LEMMA WeekTyped == Week \in Nat \ {0}
BY HoursAssumption DEF Week

LEMMA MergedTyped ==
    ASSUME ConfigTyped, NEW p, IsPatch(p), config' = Merged(p, config)
    PROVE  ConfigTyped'
<1>1. /\ config'.mask = IF "mask" \in DOMAIN p THEN p.mask ELSE config.mask
      /\ config'.from = IF "from" \in DOMAIN p THEN p.from ELSE config.from
      /\ config'.to = IF "to" \in DOMAIN p THEN p.to ELSE config.to
  BY DEF Merged, Fields
<1>. QED BY <1>1 DEF ConfigTyped, IsPatch

LEMMA IdleStage ==
    /\ Idle.stage = "idle" /\ DOMAIN Idle = {"stage", "patch", "previous"}
    /\ DOMAIN Idle.patch = {}
BY DEF Idle

LEMMA HoursInvInit == HoursInit => HoursInv
BY WeekTyped, HoursAssumption, IdleStage
   DEF HoursInit, HoursInv, ConfigTyped, SavesTyped, Defaults, Week

LEMMA Clock ==
    ASSUME NEW t \in Nat, NEW k \in Nat
    PROVE  (t + k) % Week \in 0 .. Week - 1
<1>1. \A a \in Nat, b \in Nat \ {0} : a % b \in 0 .. b - 1
  OBVIOUS
<1>2. t + k \in Nat
  OBVIOUS
<1>. QED BY <1>1, <1>2, WeekTyped

LEMMA HoursInvStep == HoursInv /\ [HoursNext]_hoursVars => HoursInv'
<1>. SUFFICES ASSUME HoursInv, [HoursNext]_hoursVars PROVE HoursInv'
  OBVIOUS
<1>. USE DEF HoursInv
<1>1. CASE Arm \/ ArmStep \/ Fire \/ EndSession
  BY <1>1 DEF Arm, ArmStep, ReadRepeat, ReadArm, Create, Fire, EndSession, screen, ConfigTyped,
              SavesTyped
<1>2. CASE Minute \/ \E k \in Shifts : SetClock(k)
  <2>1. localTime \in Nat /\ Shifts \subseteq Nat
    BY WeekTyped, HoursAssumption
  <2>2. localTime' \in 0 .. Week - 1
    BY <1>2, <2>1, Clock DEF Minute, SetClock
  <2>. QED BY <1>2, <2>2 DEF Minute, SetClock, screen, ConfigTyped, SavesTyped
<1>3. ASSUME NEW p \in OtherPatches, Patch(p) PROVE HoursInv'
  BY <1>3, MergedTyped, HoursAssumption DEF Patch, SavesTyped
<1>4. ASSUME NEW s \in Saves, NEW p \in ScreenPatches, Save(s, p) PROVE HoursInv'
  BY <1>4 DEF Save, SavesTyped, ConfigTyped
<1>5. ASSUME NEW s \in Saves, Handle(s) PROVE HoursInv'
  <2>1. saves[s].patch \in ScreenPatches
    BY <1>5 DEF Handle, SavesTyped
  <2>2. ConfigTyped'
    BY <1>5, <2>1, MergedTyped, HoursAssumption DEF Handle, ConfigTyped
  <2>3. SavesTyped'
    BY <1>5, IdleStage DEF Handle, SavesTyped
  <2>. QED BY <1>5, <2>2, <2>3 DEF Handle
<1>6. ASSUME NEW s \in Saves, Answer(s) PROVE HoursInv'
  BY <1>6, IdleStage DEF Answer, SavesTyped, ConfigTyped
<1>7. ASSUME NEW s \in Saves, Lose(s) PROVE HoursInv'
  BY <1>7, IdleStage DEF Lose, SavesTyped, ConfigTyped
<1>8. CASE UNCHANGED hoursVars
  BY <1>8 DEF hoursVars, screen, ConfigTyped, SavesTyped
<1>. QED BY <1>1, <1>2, <1>3, <1>4, <1>5, <1>6, <1>7, <1>8 DEF HoursNext

(* The rows, requests and saves of the timer keep their types, and the     *)
(* clock stays within the week.                                            *)
THEOREM HoursInvariant == HoursSpec => []HoursInv
BY HoursInvInit, HoursInvStep, PTL DEF HoursSpec

----------------------------------------------------------------------------
(* A week in days and minutes.                                             *)
LEMMA DayAndMinute ==
    ASSUME NEW t \in 0 .. Week - 1
    PROVE  /\ t \div Day \in 0 .. 6 /\ t % Day \in 0 .. Day - 1
           /\ t = (t \div Day) * Day + (t % Day)
<1>1. Day \in Nat \ {0} /\ t \in Nat /\ t < 7 * Day
  BY WeekTyped, HoursAssumption DEF Week
<1>. DEFINE q == t \div Day
            m == t % Day
<1>2. q \in Nat /\ m \in 0 .. Day - 1 /\ t = q * Day + m
  BY <1>1
<1>3. ASSUME q > 6 PROVE FALSE
  <2>. HIDE DEF q, m
  <2>1. \A a, b, n \in Nat : a <= b => a * n <= b * n
    OBVIOUS
  <2>2. 7 * Day <= q * Day
    BY <1>1, <1>2, <1>3, <2>1
  <2>. QED BY <1>1, <1>2, <2>2
<1>. QED BY <1>2, <1>3

LEMMA Remainder ==
    ASSUME NEW x \in Int, -Week <= x, x < Week
    PROVE  x % Week = IF x >= 0 THEN x ELSE x + Week
<1>1. Week \in Nat \ {0}
  BY WeekTyped
<1>. DEFINE w == Week
<1>. HIDE DEF w
<1>2. \A v \in Nat \ {0}, y \in Int : y >= -v /\ y < v => y % v = IF y >= 0 THEN y ELSE y + v
  OBVIOUS
<1>. QED BY <1>1, <1>2

(* The code's answer, for one chosen day: its window is open just when the *)
(* minute is in time and the day is the one that counts.                   *)
LEMMA OpenOnDay ==
    ASSUME NEW c, c.from \in 0 .. Day, c.to \in 0 .. Day,
           NEW d \in 0 .. 6, NEW t \in 0 .. Week - 1
    PROVE  (t - (d * Day + c.from)) % Week < WindowLength(c)
              <=> InTime(c, t) /\ EffectiveDay(c, t) = d
<1>. DEFINE q == t \div Day
            m == t % Day
            k == q - d
            z == k * Day
            x == z + m - c.from
            w == 7 * Day
<1>1. Day \in Nat \ {0} /\ q \in 0 .. 6 /\ m \in 0 .. Day - 1 /\ t = q * Day + m /\ k \in -6 .. 6
  BY HoursAssumption, DayAndMinute
<1>2. t - (d * Day + c.from) = x
  BY <1>1
<1>3. z \in {-6 * Day, -5 * Day, -4 * Day, -3 * Day, -2 * Day, -Day, 0, Day, 2 * Day, 3 * Day,
             4 * Day, 5 * Day, 6 * Day}
  BY <1>1
<1>4. (z = 0 <=> k = 0) /\ (z = Day <=> k = 1) /\ (z = -6 * Day <=> k = -6)
  BY <1>1
<1>5. x \in Int /\ -w <= x /\ x < w
  <2>. HIDE DEF z, k, q, m
  <2>. QED BY <1>1, <1>3
<1>6. x % Week = IF x >= 0 THEN x ELSE x + w
  <2>. HIDE DEF x
  <2>. QED BY <1>5, Remainder DEF Week
<1>7. (q + 6) % 7 = IF q = 0 THEN 6 ELSE q - 1
  <2>. HIDE DEF q
  <2>. QED BY <1>1
<1>8. (q = d <=> k = 0) /\ ((q + 6) % 7 = d <=> k = 1 \/ k = -6)
  <2>. HIDE DEF q
  <2>. QED BY <1>1, <1>7
<1>9. CASE ~Wraps(c)
  <2>1. WindowLength(c) = c.to - c.from /\ (EffectiveDay(c, t) = d <=> z = 0)
        /\ (InTime(c, t) <=> m >= c.from /\ m < c.to)
    BY <1>4, <1>8, <1>9 DEF WindowLength, EffectiveDay, InTime, Wraps
  <2>. DEFINE r == IF x >= 0 THEN x ELSE x + w
  <2>2. r < c.to - c.from <=> z = 0 /\ m >= c.from /\ m < c.to
    <3>. HIDE DEF z, k, q, m
    <3>. QED BY <1>1, <1>3, <1>9 DEF Wraps
  <2>. QED BY <1>2, <1>6, <2>1, <2>2
<1>10. CASE Wraps(c)
  <2>1. /\ WindowLength(c) = Day - c.from + c.to
        /\ (InTime(c, t) <=> m >= c.from \/ m < c.to)
        /\ EffectiveDay(c, t) = d <=> IF m < c.to THEN z = Day \/ z = -6 * Day ELSE z = 0
    BY <1>4, <1>8, <1>10 DEF WindowLength, EffectiveDay, InTime, Wraps
  <2>. DEFINE r == IF x >= 0 THEN x ELSE x + w
  <2>2. r < Day - c.from + c.to
          <=> /\ m >= c.from \/ m < c.to
              /\ IF m < c.to THEN z = Day \/ z = -6 * Day ELSE z = 0
    <3>. HIDE DEF z, k, q, m
    <3>. QED BY <1>1, <1>3, <1>10 DEF Wraps
  <2>. QED BY <1>2, <1>6, <2>1, <2>2
<1>. QED BY <1>9, <1>10

(* For a day of any length, any window and any days, the hours are open    *)
(* when a chosen day's window has begun and not ended, past midnight and   *)
(* past the end of the week.                                               *)
THEOREM HoursCorrect == HoursSpec => []HoursAreHonoured
<1>1. HoursInv => HoursAreHonoured
  <2>. SUFFICES ASSUME HoursInv PROVE HoursAreHonoured
    OBVIOUS
  <2>1. /\ config.from \in 0 .. Day /\ config.to \in 0 .. Day
        /\ config.mask \subseteq 0 .. 6 /\ localTime \in 0 .. Week - 1
    BY DEF HoursInv, ConfigTyped
  <2>2. \A d \in config.mask :
           (localTime - (d * Day + config.from)) % Week < WindowLength(config)
              <=> InTime(config, localTime) /\ EffectiveDay(config, localTime) = d
    BY <2>1, OpenOnDay
  <2>. QED BY <2>2 DEF HoursAreHonoured, IsWithinActiveWindow, IsOpen
<1>. QED BY HoursInvariant, <1>1, PTL

----------------------------------------------------------------------------
(* What is known of a field that is not in doubt: no two saves have it; it *)
(* is shown as stored unless a save of it waits for its answer; and what a *)
(* save would take back is as stored.                                      *)
Carries(s, f) == f \in DOMAIN saves[s].patch
Waits(s)      == saves[s].stage \in {"sent", "ok", "refused"}

FieldInv(f) ==
    /\ \A s, t \in Saves : Carries(s, f) /\ Carries(t, f) => s = t
    /\ (\A s \in Saves : Waits(s) => ~Carries(s, f)) => shown[f] = config[f]
    /\ \A s \in Saves : Carries(s, f) =>
          /\ saves[s].stage = "sent" => shown[f] = saves[s].patch[f]
          /\ saves[s].stage = "ok" => shown[f] = config[f]
          /\ saves[s].stage \in {"sent", "refused"} => saves[s].previous[f] = config[f]
    /\ \A s \in Saves : Waits(s) /\ ~Carries(s, f) /\ f \notin beside[s] =>
          /\ saves[s].previous[f] = config[f]
          /\ \A t \in Saves : Waits(t) => ~Carries(t, f)

ScreenInv ==
    /\ DOMAIN beside = Saves
    /\ \A f \in Fields \ doubtful : FieldInv(f)

(* A save that fails without doubt about a field leaves it as it is stored.*)
LEMMA TakenBackRight ==
    ASSUME HoursInv, NEW f \in Fields, FieldInv(f), NEW s \in Saves, Waits(s),
           f \notin beside[s],
           saves[s].stage = "ok" => ~Carries(s, f)
    PROVE  TakenBack(s)[f] = config[f]
BY DEF FieldInv, TakenBack, Waits

(* A slot that is freed, or no longer waited for, is one fewer to answer.  *)
LEMMA Freed ==
    ASSUME HoursInv, NEW f \in Fields, FieldInv(f), NEW s \in Saves, DOMAIN beside = Saves,
           UNCHANGED config,
           saves' = [saves EXCEPT ![s] = Idle] \/ saves' = [saves EXCEPT ![s].stage = "late"],
           \A t \in Saves : t # s => beside'[t] = beside[t],
           shown'[f] = IF Carries(s, f) THEN config[f] ELSE shown[f],
           Waits(s)
    PROVE  FieldInv(f)'
<1>. USE DEF HoursInv, SavesTyped
<1>1. /\ \A t \in Saves : t # s => saves'[t] = saves[t]
      /\ ~Waits(s)'
      /\ Carries(s, f)' => Carries(s, f)
      /\ saves'[s].stage \notin {"sent", "ok", "refused"}
  BY IdleStage DEF Waits, Carries
<1>. QED BY <1>1 DEF FieldInv, Waits, Carries

LEMMA ScreenInvStep ==
    ASSUME HoursInv, ScreenInv, [HoursNext]_hoursVars
    PROVE  ScreenInv'
<1>. USE DEF HoursInv, SavesTyped
<1>1. CASE Arm \/ ArmStep \/ Fire \/ EndSession \/ Minute \/ \E k \in Shifts : SetClock(k)
  BY <1>1 DEF Arm, ArmStep, ReadRepeat, ReadArm, Create, Fire, EndSession, Minute, SetClock,
              screen, ScreenInv, FieldInv, Carries, Waits
<1>2. ASSUME NEW p \in OtherPatches, Patch(p) PROVE ScreenInv'
  <2>. SUFFICES ASSUME NEW f \in Fields \ doubtful' PROVE FieldInv(f)'
    BY <1>2 DEF Patch, ScreenInv
  <2>1. FieldInv(f) /\ config'[f] = config[f]
    BY <1>2 DEF Patch, ScreenInv, Merged
  <2>. QED BY <1>2, <2>1 DEF Patch, FieldInv, Carries, Waits
<1>3. ASSUME NEW s \in Saves, NEW p \in ScreenPatches, Save(s, p) PROVE ScreenInv'
  <2>. SUFFICES ASSUME NEW f \in Fields \ doubtful' PROVE FieldInv(f)'
    BY <1>3 DEF Save, ScreenInv
  <2>1. FieldInv(f) /\ DOMAIN beside = Saves
    BY <1>3 DEF Save, ScreenInv
  <2>2. /\ saves[s].stage = "idle" /\ ~Carries(s, f) /\ ~Waits(s)
        /\ saves'[s] = [stage |-> "sent", patch |-> p, previous |-> shown]
        /\ \A t \in Saves : t # s => saves'[t] = saves[t]
        /\ UNCHANGED config
    BY <1>3 DEF Save, Carries, Waits
  <2>3. shown'[f] = IF f \in DOMAIN p THEN p[f] ELSE shown[f]
    BY <1>3 DEF Save, Merged
  <2>4. CASE f \in DOMAIN p
    <3>1. \A t \in Saves : ~Carries(t, f)
      BY <1>3, <2>4 DEF Save, Carries
    <3>2. \A t \in Saves : t # s /\ Waits(t) => f \in beside'[t]
      BY <1>3, <2>4 DEF Save, Waits
    <3>3. shown[f] = config[f]
      BY <2>1, <3>1 DEF FieldInv
    <3>. QED BY <2>1, <2>2, <2>3, <2>4, <3>1, <3>2, <3>3 DEF FieldInv, Carries, Waits
  <2>5. CASE f \notin DOMAIN p
    <3>1. f \notin beside'[s] => \A t \in Saves : ~Carries(t, f)
      BY <1>3 DEF Save, Carries
    <3>2. \A t \in Saves : t # s /\ Waits(t) => (f \in beside'[t] <=> f \in beside[t])
      BY <1>3, <2>5 DEF Save, Waits
    <3>. QED BY <2>1, <2>2, <2>3, <2>5, <3>1, <3>2 DEF FieldInv, Carries, Waits
  <2>. QED BY <2>4, <2>5
<1>4. ASSUME NEW s \in Saves, Handle(s) PROVE ScreenInv'
  <2>. SUFFICES ASSUME NEW f \in Fields \ doubtful' PROVE FieldInv(f)'
    BY <1>4 DEF Handle, ScreenInv
  <2>1. FieldInv(f) /\ DOMAIN beside = Saves /\ shown' = shown
    BY <1>4 DEF Handle, ScreenInv
  <2>2. /\ config'[f] = IF IsValid(saves[s].patch) /\ Carries(s, f) THEN saves[s].patch[f]
                        ELSE config[f]
        /\ \A t \in Saves : t # s => saves'[t] = saves[t] /\ beside'[t] = beside[t]
    BY <1>4, <2>1 DEF Handle, Merged, Carries
  <2>3. CASE saves[s].stage = "sent"
    <3>1. /\ saves'[s].patch = saves[s].patch /\ saves'[s].previous = saves[s].previous
          /\ beside' = beside
          /\ saves'[s].stage = IF IsValid(saves[s].patch) THEN "ok" ELSE "refused"
      BY <1>4, <2>3 DEF Handle
    <3>. QED BY <2>1, <2>2, <2>3, <3>1 DEF FieldInv, Carries, Waits
  <2>4. CASE saves[s].stage = "late"
    <3>1. /\ saves'[s] = Idle /\ ~Waits(s) /\ ~Waits(s)' /\ ~Carries(s, f)'
          /\ config'[f] = config[f]
      BY <1>4, <2>2, <2>4, IdleStage DEF Handle, Waits, Carries
    <3>. QED BY <2>1, <2>2, <3>1 DEF FieldInv, Carries, Waits
  <2>. QED BY <1>4, <2>3, <2>4 DEF Handle
<1>5. ASSUME NEW s \in Saves, Answer(s) \/ Lose(s) PROVE ScreenInv'
  <2>. SUFFICES ASSUME NEW f \in Fields \ doubtful' PROVE FieldInv(f)'
    BY <1>5 DEF Answer, Lose, ScreenInv
  <2>1. FieldInv(f) /\ DOMAIN beside = Saves /\ Waits(s) /\ UNCHANGED config
    BY <1>5 DEF Answer, Lose, ScreenInv, Waits
  <2>2. /\ saves' = [saves EXCEPT ![s] = Idle] \/ saves' = [saves EXCEPT ![s].stage = "late"]
        /\ \A t \in Saves : t # s => beside'[t] = beside[t]
    BY <1>5, <2>1 DEF Answer, Lose
  <2>3. shown'[f] = IF Carries(s, f) THEN config[f] ELSE shown[f]
    <3>1. CASE shown' = shown /\ saves[s].stage = "ok"
      BY <2>1, <3>1 DEF FieldInv
    <3>2. CASE /\ shown' = TakenBack(s) /\ f \notin beside[s]
               /\ saves[s].stage = "ok" => ~Carries(s, f)
      <4>1. shown'[f] = config[f]
        BY <2>1, <3>2, TakenBackRight
      <4>2. ~Carries(s, f) => shown[f] = config[f]
        BY <2>1, <3>2 DEF FieldInv
      <4>. QED BY <4>1, <4>2
    <3>. QED BY <1>5, <3>1, <3>2 DEF Answer, Lose, Carries
  <2>. QED BY <2>1, <2>2, <2>3, Freed
<1>6. CASE UNCHANGED hoursVars
  BY <1>6 DEF hoursVars, screen, ScreenInv, FieldInv, Carries, Waits
<1>. QED BY <1>1, <1>2, <1>3, <1>4, <1>5, <1>6 DEF HoursNext

(* Whatever saves a screen has under way, whichever of them are refused,   *)
(* lost or handled late, and whatever other clients save: once they are    *)
(* settled, a field is shown as it is stored unless another client saved   *)
(* it, two saves at once had it, a save beside its own failed, or its own  *)
(* was stored and reported as failed.                                      *)
THEOREM ShownCorrect == HoursSpec => []ShownIsStored
<1>1. HoursInit => ScreenInv
  BY IdleStage DEF HoursInit, ScreenInv, FieldInv, Carries, Waits
<1>2. HoursInv /\ ScreenInv /\ [HoursNext]_hoursVars => ScreenInv'
  BY ScreenInvStep
<1>3. ScreenInv => ShownIsStored
  BY DEF ScreenInv, FieldInv, ShownIsStored, Settled, Waits
<1>. QED BY HoursInvariant, <1>1, <1>2, <1>3, PTL DEF HoursSpec

=============================================================================
